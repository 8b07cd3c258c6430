--------------------------- MODULE QueueContract ---------------------------
(***************************************************************************)
(* What BoundedTaskExecutor (delivery/queue.py) promises its caller, with  *)
(* its threads, locks, handle table and counters left out: accepted        *)
(* submissions wait first-come-first-served in a bounded queue, each is    *)
(* executed once by one of a fixed number of slots, and a task never has   *)
(* two live submissions.  TaskQueue is shown to implement this module.     *)
(***************************************************************************)
EXTENDS Naturals, Sequences

CONSTANTS Tasks,            \* identifiers of the tasks callers submit
          Workers,          \* the execution slots (max_workers of them)
          MaxQueueSize,     \* capacity of the waiting room
          MaxSubmissions,   \* bound: submissions of one task
          NoSubmission      \* an empty slot

Submission == Tasks \X (1 .. MaxSubmissions)

VARIABLES open,       \* is new work admitted?
          waiting,    \* accepted submissions no slot has taken yet
          slot,       \* the submission each slot is executing
          settled     \* submissions whose execution is over

vars == <<open, waiting, slot, settled>>

Waiting == {waiting[i] : i \in DOMAIN waiting}
Executing == {slot[w] : w \in Workers} \ {NoSubmission}
Live == Waiting \union Executing

Init ==
    /\ open = TRUE
    /\ waiting = <<>>
    /\ slot = [w \in Workers |-> NoSubmission]
    /\ settled = {}

(* A new submission of a task that has no live one.                         *)
Accept(s) ==
    /\ open
    /\ Len(waiting) < MaxQueueSize
    /\ s \notin settled
    /\ \A l \in Live : l[1] # s[1]
    /\ waiting' = Append(waiting, s)
    /\ UNCHANGED <<open, slot, settled>>

(* A free slot takes the submission that has waited longest.                *)
Start(w) ==
    /\ slot[w] = NoSubmission
    /\ waiting # <<>>
    /\ slot' = [slot EXCEPT ![w] = Head(waiting)]
    /\ waiting' = Tail(waiting)
    /\ UNCHANGED <<open, settled>>

Settle(w) ==
    /\ slot[w] # NoSubmission
    /\ settled' = settled \union {slot[w]}
    /\ slot' = [slot EXCEPT ![w] = NoSubmission]
    /\ UNCHANGED <<open, waiting>>

Close ==
    /\ open' = FALSE
    /\ UNCHANGED <<waiting, slot, settled>>

Next ==
    \/ \E s \in Submission : Accept(s)
    \/ \E w \in Workers : Start(w) \/ Settle(w)
    \/ Close

Spec == Init /\ [][Next]_vars
=============================================================================
