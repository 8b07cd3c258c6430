----------------------------- MODULE TaskQueue -----------------------------
(***************************************************************************)
(* BoundedTaskExecutor (delivery/queue.py): a bounded queue.Queue, daemon  *)
(* worker threads started on demand, a table of control handles, and a     *)
(* shutdown that waits for accepted work until a deadline.                 *)
(*                                                                         *)
(* A step is what runs under the executor's lock, or one operation of      *)
(* queue.Queue outside it.  A submission is <<task, n>>, the n-th          *)
(* QueueSubmission made for the task: its identity is the Python object's. *)
(*                                                                         *)
(* Here and in the other modules a definition may be preceded by a wrong   *)
(* form of it, named for its mistake.  It is not used by the               *)
(* specification: put in the place of the right one, it must violate the   *)
(* property PROJECT.json names with it.                                    *)
(***************************************************************************)
EXTENDS Naturals, Sequences, FiniteSets

CONSTANTS Tasks,
          Workers,             \* worker indices 0 .. max_workers - 1
          MaxQueueSize,
          MaxSubmissions,      \* bound on submissions of one task
          NoSubmission

Submission == Tasks \X (1 .. MaxSubmissions)

ASSUME QueueAssumption ==
    /\ MaxQueueSize \in Nat \ {0}
    /\ MaxSubmissions \in Nat \ {0}
    /\ Workers # {}
    /\ IsFiniteSet(Workers)
    /\ NoSubmission \notin Submission

VARIABLES
    accepting,    \* _accepting
    queue,        \* _queue: submissions not yet taken
    unfinished,   \* _queue.unfinished_tasks
    handles,      \* _handles, a dict by task: the set of its values
    active,       \* _active
    issued,       \* how many submissions of each task were made
    cancelled,    \* submissions whose cancel_event is set
    finished,     \* submissions whose finished event is set
    thread,       \* where each worker thread is
    item,         \* the work item each worker holds
    shutdown,     \* where the caller of shutdown() is
    snapshot,     \* the submissions shutdown() saw
    drained       \* what shutdown() returned

callVars == <<shutdown, snapshot, drained>>
queueVars == <<accepting, queue, unfinished, handles, active, issued, cancelled,
               finished, thread, item, callVars>>

WorkerStates == {"dead", "polling", "taken", "running", "returned", "raised",
                 "cleaned", "crashed"}

(* A worker in one of these states holds an item that is still live.        *)
Serving == {"taken", "running", "returned", "raised"}

(* ... and in one of these, an item whose task_done has not run.            *)
Holding == Serving \union {"cleaned", "crashed"}

Queued == {queue[i] : i \in DOMAIN queue}
Busy == {w \in Workers : thread[w] \in Holding}
HeldBy(S) == {item[w] : w \in {v \in Workers : thread[v] \in S}}

-----------------------------------------------------------------------------
QueueInit ==
    /\ accepting = TRUE
    /\ queue = <<>>
    /\ unfinished = 0
    /\ handles = {}
    /\ active = {}
    /\ issued = [t \in Tasks |-> 0]
    /\ cancelled = {}
    /\ finished = {}
    /\ thread = [w \in Workers |-> "dead"]
    /\ item = [w \in Workers |-> NoSubmission]
    /\ shutdown = "idle"
    /\ snapshot = {}
    /\ drained = FALSE

NeverRevived == thread

(* _ensure_workers: every slot without a live thread gets a new one.        *)
Revived == [w \in Workers |-> IF thread[w] = "dead" THEN "polling" ELSE thread[w]]

MayOverfill(t) ==
    accepting /\ (\A h \in handles : h[1] # t) /\ Len(queue) <= MaxQueueSize

(* submit: refused when closed, when the task has a handle, or when full.   *)
MayQueue(t) ==
    accepting /\ (\A h \in handles : h[1] # t) /\ Len(queue) < MaxQueueSize

Submit(t) ==
    /\ MayQueue(t)
    /\ issued[t] < MaxSubmissions
    /\ LET s == <<t, issued[t] + 1>>
       IN  /\ queue' = Append(queue, s)
           /\ handles' = handles \union {s}
    /\ unfinished' = unfinished + 1
    /\ issued' = [issued EXCEPT ![t] = @ + 1]
    /\ thread' = Revived
    /\ UNCHANGED <<accepting, active, cancelled, finished, item, callVars>>

(* cancel: set the event of the submission the table holds, if any.         *)
Cancel(t) ==
    /\ \E h \in handles : h[1] = t
    /\ cancelled' = cancelled \union {h \in handles : h[1] = t}
    /\ UNCHANGED <<accepting, queue, unfinished, handles, active, issued,
                   finished, thread, item, callVars>>

-----------------------------------------------------------------------------
(* The worker thread.                                                       *)

(* _queue.get succeeds; the executor's lock is not held.                    *)
Get(w) ==
    /\ thread[w] = "polling"
    /\ queue # <<>>
    /\ item' = [item EXCEPT ![w] = Head(queue)]
    /\ queue' = Tail(queue)
    /\ thread' = [thread EXCEPT ![w] = "taken"]
    /\ UNCHANGED <<accepting, unfinished, handles, active, issued, cancelled,
                   finished, callVars>>

(* _queue.get timed out, and under the lock the pool is closed and empty.   *)
PoolIsOver == ~accepting /\ queue = <<>>

IdleExit(w) ==
    /\ thread[w] = "polling"
    /\ PoolIsOver
    /\ thread' = [thread EXCEPT ![w] = "dead"]
    /\ UNCHANGED <<accepting, queue, unfinished, handles, active, issued,
                   cancelled, finished, item, callVars>>

ActiveTask(w) == item[w][1]

Begin(w) ==
    /\ thread[w] = "taken"
    /\ active' = active \union {ActiveTask(w)}
    /\ thread' = [thread EXCEPT ![w] = "running"]
    /\ UNCHANGED <<accepting, queue, unfinished, handles, issued, cancelled,
                   finished, item, callVars>>

CallbackReturns(w) ==
    /\ thread[w] = "running"
    /\ thread' = [thread EXCEPT ![w] = "returned"]
    /\ UNCHANGED <<accepting, queue, unfinished, handles, active, issued,
                   cancelled, finished, item, callVars>>

CallbackRaises(w) ==
    /\ thread[w] = "running"
    /\ thread' = [thread EXCEPT ![w] = "raised"]
    /\ UNCHANGED <<accepting, queue, unfinished, handles, active, issued,
                   cancelled, finished, item, callVars>>

(* The locked part of the finally block: the handle goes by its task key.   *)
HandlePopped(w) == {h \in handles : h[1] # item[w][1]}

Cleanup(w) ==
    /\ thread[w] \in {"returned", "raised"}
    /\ active' = active \ {ActiveTask(w)}
    /\ handles' = HandlePopped(w)
    /\ finished' = finished \union {item[w]}
    /\ thread' = [thread EXCEPT ![w] = IF @ = "returned" THEN "cleaned" ELSE "crashed"]
    /\ UNCHANGED <<accepting, queue, unfinished, issued, cancelled, item,
                   callVars>>

CountOnReturn(w) == IF thread[w] = "cleaned" THEN unfinished - 1 ELSE unfinished
CountDone(w) == unfinished - 1

(* task_done; an exception then ends the thread, there is no except clause. *)
TaskDone(w) ==
    /\ thread[w] \in {"cleaned", "crashed"}
    /\ unfinished' = CountDone(w)
    /\ item' = [item EXCEPT ![w] = NoSubmission]
    /\ thread' = [thread EXCEPT ![w] = IF @ = "cleaned" THEN "polling" ELSE "dead"]
    /\ UNCHANGED <<accepting, queue, handles, active, issued, cancelled,
                   finished, callVars>>

Worker(w) ==
    \/ Get(w) \/ IdleExit(w) \/ Begin(w)
    \/ CallbackReturns(w) \/ CallbackRaises(w)
    \/ Cleanup(w) \/ TaskDone(w)

-----------------------------------------------------------------------------
(* shutdown(timeout_seconds), by one caller; M6TaskService.close may call   *)
(* it again while it has not returned True.                                 *)
ShutdownBegin ==
    /\ \/ shutdown = "idle"
       \/ shutdown = "returned" /\ ~drained
    /\ accepting' = FALSE
    /\ snapshot' = handles
    /\ shutdown' = "draining"
    /\ UNCHANGED <<queue, unfinished, handles, active, issued, cancelled,
                   finished, thread, item, drained>>

ShutdownDrained ==
    /\ shutdown = "draining"
    /\ unfinished = 0
    /\ shutdown' = "joining"
    /\ UNCHANGED <<accepting, queue, unfinished, handles, active, issued,
                   cancelled, finished, thread, item, snapshot, drained>>

Laggards == snapshot

(* The deadline passed first; time is not modelled, so it may pass at once. *)
ShutdownDeadline ==
    /\ shutdown = "draining"
    /\ unfinished # 0
    /\ cancelled' = cancelled \union Laggards
    /\ shutdown' = "joining"
    /\ UNCHANGED <<accepting, queue, unfinished, handles, active, issued,
                   finished, thread, item, snapshot, drained>>

(* Each join ends when its thread does or at the deadline.                  *)
ShutdownReturn ==
    /\ shutdown = "joining"
    /\ drained' = (\A w \in Workers : thread[w] = "dead")
    /\ shutdown' = "returned"
    /\ UNCHANGED <<accepting, queue, unfinished, handles, active, issued,
                   cancelled, finished, thread, item, snapshot>>

QueueNext ==
    \/ \E t \in Tasks : Submit(t) \/ Cancel(t)
    \/ \E w \in Workers : Worker(w)
    \/ ShutdownBegin \/ ShutdownDrained \/ ShutdownDeadline \/ ShutdownReturn

QueueSpec == QueueInit /\ [][QueueNext]_queueVars

(* Each thread is scheduled, whatever the others do, and callbacks end;     *)
(* callers promise nothing.                                                 *)
QueueFairness == \A w \in Workers : WF_queueVars(Worker(w))

QueueFairSpec == QueueSpec /\ QueueFairness

-----------------------------------------------------------------------------
QueueTypeOK ==
    /\ accepting \in BOOLEAN
    /\ queue \in Seq(Submission)
    /\ unfinished \in Nat
    /\ handles \subseteq Submission
    /\ active \subseteq Tasks
    /\ issued \in [Tasks -> 0 .. MaxSubmissions]
    /\ cancelled \subseteq Submission
    /\ finished \subseteq Submission
    /\ thread \in [Workers -> WorkerStates]
    /\ item \in [Workers -> Submission \union {NoSubmission}]
    /\ shutdown \in {"idle", "draining", "joining", "returned"}
    /\ snapshot \subseteq Submission
    /\ drained \in BOOLEAN

(* The handle table, which cancel() and the duplicate check read, is        *)
(* exactly the submissions in the queue or with a worker, wherever the      *)
(* threads are; pop-by-task-id never drops the handle of a later            *)
(* submission (queue.py:60-71, 148-151).                                    *)
HandlesMatchLive ==
    /\ handles = Queued \union HeldBy(Serving)
    /\ \A g, h \in handles : g[1] = h[1] => g = h

(* A submission is in one place only, so no callback is executed twice      *)
(* (queue.py:68, 134).                                                      *)
ServedOnce ==
    /\ \A i, j \in DOMAIN queue : queue[i] = queue[j] => i = j
    /\ \A v, w \in Workers :
          thread[v] \in Serving /\ thread[w] \in Serving /\ item[v] = item[w] => v = w
    /\ Queued \intersect HeldBy(Serving) = {}
    /\ handles \intersect finished = {}

(* shutdown() trusts unfinished_tasks: it counts queued items and items     *)
(* whose task_done has not run, and nothing else (queue.py:103, 152).       *)
UnfinishedCountsItems ==
    unfinished = Len(queue) + Cardinality(Busy)

(* shutdown() returning True means the accepted work was served: the caller *)
(* closes the stores on it (queue.py:93-114, service.py:354-361).           *)
ServedWhenDrained == shutdown = "returned" /\ drained => handles = {}

(* It does as long as no callback has raised.                               *)
CallbacksReturn == \A w \in Workers : thread[w] # "raised"
DrainedMeansServed == []CallbacksReturn => []ServedWhenDrained

(* After shutdown() returns, whatever is still live was told to stop        *)
(* (queue.py:100, 105-108): nothing accepted escapes the snapshot.          *)
LaggardsAreCancelled == shutdown = "returned" => handles \subseteq cancelled

(* The handles, the queue, the counter and the snapshot account for every   *)
(* submission, wherever the threads are.                                    *)
SubmissionsAreTracked ==
    HandlesMatchLive /\ ServedOnce /\ UnfinishedCountsItems /\ LaggardsAreCancelled

(* Accepted work is executed to its end, shutdown or not (docstring of      *)
(* shutdown: "wait for accepted work to drain"), as long as no callback has *)
(* raised.                                                                  *)
AcceptedWorkFinishes ==
    []CallbacksReturn => \A s \in Submission : s \in handles ~> s \in finished

(* A closed pool stops all its threads (queue.py:136-138).                  *)
ClosedPoolStops == ~accepting ~> \A w \in Workers : thread[w] = "dead"

(* The promise of QueueContract: a slot is occupied from get() to the       *)
(* locked clean-up.                                                         *)
Slot == [w \in Workers |-> IF thread[w] \in Serving THEN item[w] ELSE NoSubmission]

Contract == INSTANCE QueueContract
    WITH open <- accepting, waiting <- queue, slot <- Slot, settled <- finished

ImplementsContract == Contract!Spec
=============================================================================
