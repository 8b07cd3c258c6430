--------------------------- MODULE EffectJournal ---------------------------
(***************************************************************************)
(* The effect journal of one authorized task (delivery/effects.py): the    *)
(* worker runs the stages of the research one after the other, each stage  *)
(* makes calls to the outside, and every stage and every call is an effect *)
(* whose intent commits before it is dispatched and whose result and       *)
(* measured usage commit together.  Measurements are then projected to the *)
(* runtime ledger, another database.                                       *)
(*                                                                         *)
(* A coroutine is volatile, a row of the journal is not: the loss of the   *)
(* process leaves an effect pending, and a resume may only go on when no   *)
(* call to the outside is in doubt.                                        *)
(***************************************************************************)
EXTENDS Naturals, FiniteSetsExt

CONSTANTS NStages,          \* the stages are 1 .. NStages, in order
          Calls,
          StageOf,          \* the stage each call belongs to
          Reserve,          \* the ceiling reserved for each call
          Envelope,         \* max_cny of the task
          CallAttempts,     \* max_attempts of a call, 1 or 2
          Overrun,          \* bound: what a call can cost above its ceiling
          ReadMayFail,      \* may the journal fail to be read after a commit?
          MaxRestarts,      \* bound: losses of the process
          MaxResumes,       \* resume requests the service grants
          Unmeasured

Stages == 1 .. NStages
Effects == Stages \union Calls

ASSUME JournalAssumption ==
    /\ NStages \in Nat \ {0}
    /\ IsFiniteSet(Calls)
    /\ Stages \intersect Calls = {}
    /\ StageOf \in [Calls -> Stages]
    /\ Reserve \in [Calls -> Nat]
    /\ {Envelope, Overrun, MaxRestarts, MaxResumes} \subseteq Nat
    /\ CallAttempts \in {1, 2}
    /\ ReadMayFail \in BOOLEAN
    /\ Unmeasured \notin Nat

VARIABLES
    state,        \* of the effect's row: "absent", "pending", "completed",
                  \* "retryable" or "unknown"
    attempts,
    measured,     \* measured_cny of a call
    projected,    \* calls whose measurement the ledger holds
    authorized,   \* the task and its execution phase are active
    cancelled,    \* the cancel event of the run
    running,      \* the worker executes the task
    pc,           \* where the coroutine of each effect is
    sent,         \* history: how often each effect was dispatched
    resumes,
    restarts

rows == <<state, attempts, measured>>
vars == <<rows, projected, authorized, cancelled, running, pc, sent, resumes, restarts>>

AttemptLimit(e) == IF e \in Stages THEN 2 ELSE CallAttempts
Uncertain == {"pending", "unknown"}
InFlight == {"intent", "verified", "sent"}
Over == {"done", "failed", "unsent"}
Measured == {c \in Calls : measured[c] # Unmeasured /\ state[c] \in {"completed", "unknown"}}

(* require_projection_synced.                                               *)
Synced == \A c \in Calls : state[c] = "completed" => c \in projected

(* What run() counts against the envelope: a completed call its             *)
(* measurement, an uncertain one at least its ceiling.                      *)
Larger(a, b) == IF a > b THEN a ELSE b
HeldMeasured(c) == IF measured[c] = Unmeasured THEN 0 ELSE measured[c]
Held(c) ==
    IF state[c] = "completed" THEN measured[c]
    ELSE IF measured[c] = Unmeasured THEN Reserve[c]
    ELSE Larger(Reserve[c], measured[c])
Live == {c \in Calls : state[c] \notin {"absent", "retryable"}}
Committed == SumFunction([c \in Live |-> Held(c)])

Init ==
    /\ state = [e \in Effects |-> "absent"]
    /\ attempts = [e \in Effects |-> 0]
    /\ measured = [c \in Calls |-> Unmeasured]
    /\ projected = {}
    /\ authorized = TRUE
    /\ cancelled = FALSE
    /\ running = TRUE
    /\ pc = [e \in Effects |-> "off"]
    /\ sent = [e \in Effects |-> 0]
    /\ resumes = 0
    /\ restarts = 0

Goto(e, where) == pc' = [pc EXCEPT ![e] = where]

(* A stage comes after the one before it; a call comes from its stage.      *)
Reached(e) ==
    /\ running
    /\ pc[e] = "off"
    /\ IF e \in Stages THEN \A s \in 1 .. e - 1 : pc[s] = "done"
       ELSE pc[StageOf[e]] = "sent"

(* The stored result is returned, whatever became of the authorization      *)
(* later than its check.                                                    *)
Replay(e) ==
    /\ Reached(e)
    /\ ~cancelled /\ authorized
    /\ state[e] = "completed"
    /\ Goto(e, "done")
    /\ UNCHANGED <<rows, projected, authorized, cancelled, running, sent, resumes, restarts>>

Admissible(e) ==
    /\ ~cancelled /\ authorized
    /\ \/ state[e] = "absent"
       \/ state[e] = "retryable" /\ attempts[e] < AttemptLimit(e)
    /\ \A f \in Effects : state[f] # "unknown"
    /\ Synced
    /\ e \in Calls => Committed + Reserve[e] <= Envelope

(* The intent and its reservation commit in one transaction.                *)
Admit(e) ==
    /\ Reached(e)
    /\ Admissible(e)
    /\ state' = [state EXCEPT ![e] = "pending"]
    /\ attempts' = [attempts EXCEPT ![e] = @ + 1]
    /\ Goto(e, "intent")
    /\ UNCHANGED <<measured, projected, authorized, cancelled, running, sent, resumes, restarts>>

Refuse(e) ==
    /\ Reached(e)
    /\ ~Admissible(e)
    /\ state[e] = "completed" => cancelled \/ ~authorized
    /\ Goto(e, "failed")
    /\ UNCHANGED <<rows, projected, authorized, cancelled, running, sent, resumes, restarts>>

(* Everything is checked again before the operation starts.                 *)
Verify(e) ==
    /\ pc[e] = "intent"
    /\ IF ~cancelled /\ authorized /\ Synced
       THEN Goto(e, "verified") /\ UNCHANGED state
       ELSE Goto(e, "unsent") /\ state' = [state EXCEPT ![e] = "retryable"]
    /\ UNCHANGED <<attempts, measured, projected, authorized, cancelled, running, sent,
                   resumes, restarts>>

Send(e) ==
    /\ pc[e] = "verified"
    /\ Goto(e, "sent")
    /\ sent' = [sent EXCEPT ![e] = @ + 1]
    /\ UNCHANGED <<rows, projected, authorized, cancelled, running, resumes, restarts>>

(* The answer is within its ceiling: result and usage commit.               *)
Confirm(c) ==
    /\ pc[c] = "sent"
    /\ \E cost \in 0 .. Reserve[c] : measured' = [measured EXCEPT ![c] = cost]
    /\ state' = [state EXCEPT ![c] = "completed"]
    /\ Goto(c, "answered")
    /\ UNCHANGED <<attempts, projected, authorized, cancelled, running, sent, resumes, restarts>>

(* It is above it, or there is none: a refused, lost or late answer, or the *)
(* operation was abandoned.                                                 *)
Doubt(c) ==
    /\ pc[c] = "sent"
    /\ \/ measured' = [measured EXCEPT ![c] = Reserve[c] + Overrun]
       \/ UNCHANGED measured
    /\ state' = [state EXCEPT ![c] = "unknown"]
    /\ Goto(c, "failed")
    /\ UNCHANGED <<attempts, projected, authorized, cancelled, running, sent, resumes, restarts>>

(* project_usage mirrors every measurement; a ledger that fails is left     *)
(* behind, without an error.                                                *)
Projects == projected' \in {projected, projected \union Measured}

Project(e) ==
    /\ pc[e] = "answered"
    /\ Projects
    /\ Goto(e, "done")
    /\ UNCHANGED <<rows, authorized, cancelled, running, sent, resumes, restarts>>

(* An error of the journal itself in project_usage falls to the last        *)
(* except clause of run().                                                  *)
ProjectRaises(e) ==
    /\ ReadMayFail
    /\ pc[e] = "answered"
    /\ state' = [state EXCEPT ![e] = "unknown"]
    /\ Goto(e, "failed")
    /\ UNCHANGED <<attempts, measured, projected, authorized, cancelled, running, sent,
                   resumes, restarts>>

(* A budget report projects, too.                                           *)
Report ==
    /\ projected # Measured
    /\ projected' = projected \union Measured
    /\ UNCHANGED <<rows, authorized, cancelled, running, pc, sent, resumes, restarts>>

-----------------------------------------------------------------------------
(* A stage that went through its calls, or did without some of them.        *)
StageCompletes(s) ==
    /\ pc[s] = "sent"
    /\ \A c \in Calls : StageOf[c] = s => pc[c] \in Over \union {"off"}
    /\ state' = [state EXCEPT ![s] = "completed"]
    /\ Goto(s, "answered")
    /\ UNCHANGED <<attempts, measured, projected, authorized, cancelled, running, sent, resumes, restarts>>

(* A stage that ends with an error: calls in flight are abandoned. When the *)
(* error is that of a call that was not dispatched, the stage counts as not *)
(* dispatched as well.                                                      *)
StageFails(s) ==
    LET abandoned == {c \in Calls : StageOf[c] = s /\ pc[c] \in InFlight}
        unsent == \E c \in Calls : StageOf[c] = s /\ pc[c] = "unsent"
    IN  /\ pc[s] = "sent"
        /\ \A c \in Calls : StageOf[c] = s => pc[c] # "answered"
        /\ \E mine \in IF unsent THEN {"retryable", "unknown"} ELSE {"unknown"} :
              state' = [e \in Effects |-> IF e = s THEN mine
                                          ELSE IF e \in abandoned THEN "unknown"
                                          ELSE state[e]]
        /\ pc' = [e \in Effects |-> IF e \in abandoned \union {s} THEN "failed" ELSE pc[e]]
        /\ UNCHANGED <<attempts, measured, projected, authorized, cancelled, running, sent,
                       resumes, restarts>>

RunEnds ==
    /\ running
    /\ \/ \A s \in Stages : pc[s] = "done"
       \/ \E s \in Stages : pc[s] \in {"failed", "unsent"}
    /\ running' = FALSE
    /\ cancelled' = FALSE
    /\ pc' = [e \in Effects |-> "off"]
    /\ UNCHANGED <<rows, projected, authorized, sent, resumes, restarts>>

-----------------------------------------------------------------------------
(* cancel_task: the authorizations first, then the event.                   *)
Revoke ==
    /\ authorized
    /\ authorized' = FALSE
    /\ UNCHANGED <<rows, projected, cancelled, running, pc, sent, resumes, restarts>>

Signal ==
    /\ running
    /\ ~authorized
    /\ ~cancelled
    /\ cancelled' = TRUE
    /\ UNCHANGED <<rows, projected, authorized, running, pc, sent, resumes, restarts>>

Crash ==
    /\ running
    /\ restarts < MaxRestarts
    /\ restarts' = restarts + 1
    /\ running' = FALSE
    /\ cancelled' = FALSE
    /\ pc' = [e \in Effects |-> "off"]
    /\ UNCHANGED <<rows, projected, authorized, sent, resumes>>

MayResume == ~running /\ resumes < MaxResumes

RecoverableByAttempts(e) == attempts[e] < AttemptLimit(e)
Recoverable(e) == e \in Stages /\ attempts[e] < 2

PendingTrusted == {e \in Effects : state[e] = "unknown"}
Doubtful == {e \in Effects : state[e] \in Uncertain}

(* reconcile_stage_resume, and the new run: all measurements are projected, *)
(* what is in doubt is a stage with an attempt left, and it is retryable.   *)
Resume ==
    /\ MayResume
    /\ authorized
    /\ \A e \in Doubtful : Recoverable(e)
    /\ projected' = projected \union Measured
    /\ state' = [e \in Effects |-> IF e \in Doubtful THEN "retryable" ELSE state[e]]
    /\ running' = TRUE
    /\ resumes' = resumes + 1
    /\ UNCHANGED <<attempts, measured, authorized, cancelled, pc, sent, restarts>>

Next ==
    \/ \E e \in Effects :
          \/ Replay(e) \/ Admit(e) \/ Refuse(e) \/ Verify(e) \/ Send(e)
          \/ Project(e) \/ ProjectRaises(e)
    \/ \E c \in Calls : Confirm(c) \/ Doubt(c)
    \/ \E s \in Stages : StageCompletes(s) \/ StageFails(s)
    \/ RunEnds \/ Report \/ Revoke \/ Signal \/ Crash \/ Resume

Spec == Init /\ [][Next]_vars

-----------------------------------------------------------------------------
TypeOK ==
    /\ state \in [Effects -> {"absent", "pending", "completed", "retryable", "unknown"}]
    /\ attempts \in [Effects -> 0 .. 2]
    /\ measured \in [Calls -> Nat \union {Unmeasured}]
    /\ projected \subseteq Calls
    /\ {authorized, cancelled, running} \subseteq BOOLEAN
    /\ pc \in [Effects -> {"off", "answered"} \union InFlight \union Over]
    /\ sent \in [Effects -> Nat]
    /\ resumes \in 0 .. MaxResumes
    /\ restarts \in 0 .. MaxRestarts

(* No call to the outside is dispatched twice, whatever crashes, is         *)
(* cancelled, times out or is resumed in between, and a stage is dispatched *)
(* at most twice (effects.py:1-6, 389-398; "never automatically reissued",  *)
(* research-runtime.md:35-38).                                              *)
NothingIsReissued ==
    /\ \A c \in Calls : sent[c] <= 1
    /\ \A s \in Stages : sent[s] <= 2

(* The envelope holds against every call together, concurrent ones and      *)
(* those of earlier runs included: what a call cost, or can still cost      *)
(* within its ceiling. Only what a provider charges above a ceiling can     *)
(* exceed it (effects.py:408-440, authorization.py:265-302).                *)
Ceiling(c) ==
    IF measured[c] # Unmeasured /\ measured[c] <= Reserve[c] THEN measured[c] ELSE Reserve[c]
EnvelopeHolds == SumFunction([c \in Live |-> Ceiling(c)]) <= Envelope

(* An execution never goes on over a call of an earlier one whose outcome   *)
(* is in doubt (effects.py:156-190: "never unknown external effects").      *)
RunsKnowTheirPast ==
    running => \A c \in Calls : state[c] \in Uncertain => pc[c] # "off"

(* The ledger mirrors measurements and nothing else: a projected call keeps *)
(* its measurement (effects.py:544-575, storage.py:222-256).                *)
LedgerIsBacked == projected \subseteq Measured

(* What a task may cost is bounded, and what it was charged was measured.   *)
SpendIsMeasured == EnvelopeHolds /\ LedgerIsBacked
=============================================================================
