------------------------ MODULE TaskLifecycleProofs ------------------------
(***************************************************************************)
(* Theorems about TaskLifecycle, for every number of tasks and workers,    *)
(* every setting and any number of plan versions and restarts.             *)
(*                                                                         *)
(* A task in the executor is at one place; where it is, and what its gate  *)
(* says, decides which statuses it can have.  From that follows what a     *)
(* plan, a reservation and an execution count can be.                      *)
(***************************************************************************)
EXTENDS TaskLifecycle, TLAPS

(* The places of a worker that executes the task it holds.                  *)
Working == {"start", "run", "phases", "researching", "conclude", "cancelling",
            "uncertain", "unavailable", "failing"}

(* Those of a worker that may have written the outcome.                     *)
Written == {"failing", "export", "closing", "leaving"}
Undone == {"absent", "waiting_approval", "rejected"}
Distinct == \A i, j \in DOMAIN queue : queue[i] = queue[j] => i = j

(* A task in the executor is in one place.                                  *)
Assigned ==
    /\ Distinct
    /\ \A w \in Workers : /\ pc[w] = "idle" <=> job[w] = NoTask
                          /\ job[w] \notin Waiting
    /\ \A w, u \in Workers : job[w] = job[u] /\ job[w] # NoTask => w = u

(* A request that is under way, and a worker that stored a result and has   *)
(* not written the status, hold the state lock.                             *)
Locked ==
    /\ request.op # "idle" => lock = "request" /\ request.task \in Tasks
    /\ \A w \in Workers : pc[w] = "conclude" => lock = w

(* What a request under way knows of its task.                              *)
Requested ==
    /\ request.op \in {"approve", "resume"} =>
          /\ status[request.task] = "queued"
          /\ gate[request.task] = "closed"
          /\ \A w \in Workers : job[w] = request.task => pc[w] = "gate"
    /\ request.op = "approve" => started[request.task] = 0
    /\ request.op = "resume" => resumes[request.task] < 2
    /\ request.op \in {"cancel_signal", "cancel_write"} =>
          /\ status[request.task] \in Interrupted \union {"interrupted", "failed", "degraded"}
          /\ gate[request.task] # "refused"
    /\ request.op = "cancel_direct" =>
          status[request.task] \in {"waiting_approval", "interrupted"}

(* What a submission that waits for its gate knows of its task.             *)
AtGate(t) ==
    /\ gate[t] = "closed" => request.op \in {"approve", "resume"} /\ request.task = t
    /\ gate[t] = "admitted" => status[t] \in {"queued", "cancelling"} /\ started[t] <= resumes[t]
    /\ gate[t] = "refused" => status[t] \in {"interrupted", "cancelled"}

Placed ==
    /\ \A t \in Waiting : AtGate(t)
    /\ \A w \in Workers :
          /\ pc[w] = "gate" => AtGate(job[w])
          /\ pc[w] \in Working \ {"failing"} => status[job[w]] \in Interrupted
          /\ pc[w] \in Written => status[job[w]] \notin Undone
          /\ pc[w] \in {"failing", "export"} => status[job[w]] # "interrupted"
    /\ \A t \in Tasks : status[t] \in Interrupted => gate[t] # "refused"

Counted ==
    \A t \in Tasks : /\ started[t] <= 1 + resumes[t]
                     /\ status[t] \in {"absent", "waiting_approval", "rejected"} => started[t] = 0

(* Before the decision nothing is exported and a demo task reserves nothing.*)
Undecided ==
    \A t \in Tasks : status[t] \in {"absent", "waiting_approval"} =>
        /\ exporting[t] = "no"
        /\ ~Real(t) => reservation[t] = "none"

(* What is in the executor was decided.                                     *)
MayRun(t) == plan[t].state = "approved" \/ (~Real(t) /\ plan[t].version = 0)
Planned ==
    /\ \A t \in Tasks : plan[t].state = "none" => plan[t].version = 0
    /\ \A t \in Waiting : MayRun(t)
    /\ \A w \in Workers : job[w] # NoTask => MayRun(job[w])

IInv == TypeOK /\ Assigned /\ Locked /\ Requested /\ Placed /\ Counted /\ Undecided /\ Planned

-----------------------------------------------------------------------------
(* The queue.                                                               *)

LEMMA Updated ==
    ASSUME NEW D, NEW V, NEW f \in [D -> V], NEW x, NEW v \in V
    PROVE  [f EXCEPT ![x] = v] \in [D -> V]
  OBVIOUS

LEMMA SameQueue == ASSUME queue' = queue PROVE Waiting' = Waiting /\ (Distinct => Distinct')
  BY DEF Waiting, Distinct

LEMMA NoQueue == ASSUME queue = <<>> PROVE Waiting = {} /\ Distinct
  BY DEF Waiting, Distinct

LEMMA Joining ==
    ASSUME queue \in Seq(Tasks), NEW t \in Tasks, t \notin Waiting, Distinct,
           queue' = Append(queue, t)
    PROVE  Waiting' = Waiting \union {t} /\ Distinct'
<1>1. DOMAIN queue = 1 .. Len(queue) /\ Len(queue) \in Nat
  OBVIOUS
<1>2. DOMAIN queue' = 1 .. Len(queue) + 1
  OBVIOUS
<1>3. queue'[Len(queue) + 1] = t /\ \A i \in 1 .. Len(queue) : queue'[i] = queue[i]
  OBVIOUS
<1>4. \A i \in 1 .. Len(queue) : queue[i] # t
  BY <1>1 DEF Waiting
<1>5. \A i \in 1 .. Len(queue) + 1 : i \in 1 .. Len(queue) \/ i = Len(queue) + 1
  BY <1>1
<1>6. Waiting' = Waiting \union {t}
  BY <1>1, <1>2, <1>3, <1>5 DEF Waiting
<1>7. Distinct'
  BY <1>1, <1>2, <1>3, <1>4, <1>5 DEF Distinct
<1> QED
  BY <1>6, <1>7

LEMMA Leaving ==
    ASSUME queue \in Seq(Tasks), queue # <<>>, Distinct, queue' = Tail(queue)
    PROVE  /\ Head(queue) \in Waiting /\ Head(queue) \in Tasks
           /\ Waiting' = Waiting \ {Head(queue)}
           /\ Distinct'
<1>1. DOMAIN queue = 1 .. Len(queue) /\ Len(queue) \in Nat /\ Len(queue) > 0
  OBVIOUS
<1>2. DOMAIN queue' = 1 .. Len(queue) - 1
  OBVIOUS
<1>3. \A i \in 1 .. Len(queue) - 1 : queue'[i] = queue[i + 1]
  OBVIOUS
<1>4. Head(queue) = queue[1] /\ queue[1] \in Tasks
  BY <1>1
<1>5. \A i \in 1 .. Len(queue) : i = 1 \/ (i - 1 \in 1 .. Len(queue) - 1 /\ queue'[i - 1] = queue[i])
  BY <1>1, <1>3
<1>6. \A i \in 1 .. Len(queue) - 1 : i + 1 \in 1 .. Len(queue) /\ i + 1 # 1
  BY <1>1
<1>7. ASSUME NEW i \in DOMAIN queue' PROVE queue'[i] \in Waiting /\ queue'[i] # Head(queue)
  <2>1. i + 1 \in DOMAIN queue /\ i + 1 # 1 /\ queue'[i] = queue[i + 1]
    BY <1>1, <1>2, <1>3, <1>6
  <2>2. 1 \in DOMAIN queue
    BY <1>1
  <2> QED
    BY <2>1, <2>2, <1>4 DEF Waiting, Distinct
<1>8. ASSUME NEW i \in DOMAIN queue, queue[i] # Head(queue)
      PROVE  \E j \in DOMAIN queue' : queue'[j] = queue[i]
  <2>1. i - 1 \in 1 .. Len(queue) - 1 /\ queue'[i - 1] = queue[i]
    BY <1>1, <1>4, <1>5, <1>8
  <2> QED
    BY <2>1, <1>2
<1>9. Distinct'
  <2> SUFFICES ASSUME NEW i \in DOMAIN queue', NEW j \in DOMAIN queue', queue'[i] = queue'[j]
               PROVE  i = j
    BY DEF Distinct
  <2>1. /\ i + 1 \in DOMAIN queue /\ queue'[i] = queue[i + 1]
        /\ j + 1 \in DOMAIN queue /\ queue'[j] = queue[j + 1]
        /\ i \in Nat /\ j \in Nat
    BY <1>1, <1>2, <1>3, <1>6
  <2>2. i + 1 = j + 1
    BY <2>1 DEF Distinct
  <2> QED
    BY <2>1, <2>2
<1>10. Waiting' = Waiting \ {Head(queue)}
  BY <1>7, <1>8 DEF Waiting
<1> QED
  BY <1>1, <1>4, <1>9, <1>10 DEF Waiting

LEMMA WaitingTasks == ASSUME queue \in Seq(Tasks) PROVE Waiting \subseteq Tasks
  BY DEF Waiting

(* What is in the executor is neither undecided nor rejected.               *)
LEMMA LiveStatus ==
    ASSUME TypeOK, Assigned, Requested, Placed
    PROVE  \A t \in Live : t \in Tasks /\ status[t] \notin {"absent", "waiting_approval", "rejected"}
<1>1. ASSUME NEW t \in Tasks, AtGate(t)
      PROVE  status[t] \notin {"absent", "waiting_approval", "rejected"}
  BY <1>1 DEF AtGate, Requested, TypeOK
<1>2. ASSUME NEW t \in Waiting
      PROVE  t \in Tasks /\ status[t] \notin {"absent", "waiting_approval", "rejected"}
  BY <1>1, WaitingTasks DEF Placed, TypeOK
<1>3. ASSUME NEW w \in Workers, job[w] # NoTask
      PROVE  job[w] \in Tasks /\ status[job[w]] \notin {"absent", "waiting_approval", "rejected"}
  <2>1. job[w] \in Tasks /\ pc[w] # "idle" /\ pc[w] \in WorkerStates
    BY <1>3 DEF TypeOK, Assigned
  <2>2. CASE pc[w] = "gate"
    BY <2>1, <2>2, <1>1 DEF Placed
  <2>3. CASE pc[w] \in Working \union Written
    BY <2>1, <2>3 DEF Placed, Interrupted, Undone, Working, Written
  <2> QED
    BY <2>1, <2>2, <2>3 DEF WorkerStates, Working, Written
<1> QED
  BY <1>2, <1>3 DEF Live

-----------------------------------------------------------------------------
(* The workers.                                                             *)

LEMMA Held ==
    ASSUME TypeOK, Assigned, NEW w \in Workers, pc[w] # "idle"
    PROVE  /\ job[w] \in Tasks /\ job[w] \notin Waiting
           /\ \A u \in Workers : u # w => job[u] # job[w]
  BY LifecycleAssumption DEF TypeOK, Assigned

(* A worker goes on to another part of the execution, or is done with it,   *)
(* and may take the lock where it is free.                                  *)

LEMMA WorkerMoves ==
    ASSUME TypeOK, Assigned, Locked, Requested, Placed, Counted, Undecided, Planned,
           NEW w \in Workers, pc[w] \in Working,
           NEW where \in Working \union {"leaving"}, Goto(w, where),
           where = "conclude" => lock' = w,
           pc[w] = "failing" => where = "leaving",
           lock' = lock \/ (MayEnter(w) /\ lock' = w),
           result' \in [Tasks -> BOOLEAN],
           UNCHANGED <<status, plan, reservation, events, resumes, grant, queue,
                       job, cancelSet, gate, request, exporting, started, process>>
    PROVE  IInv'
<1> USE LifecycleAssumption DEF Goto, MayEnter, process
<1>0. Waiting' = Waiting /\ Distinct'
  BY SameQueue DEF Assigned
<1>1. TypeOK'
  <2>1. where \in WorkerStates
    BY DEF Working, WorkerStates
  <2> QED
    BY <2>1 DEF TypeOK
<1>2. Assigned' /\ Locked'
  BY <1>0 DEF Assigned, Locked, TypeOK, Working
<1>3. Requested'
  BY Held DEF Requested, TypeOK, Working
<1>4. Placed'
  <2>1. \A t : AtGate(t)' <=> AtGate(t)
    BY DEF AtGate
  <2>2. \A u \in Workers : u # w => pc'[u] = pc[u]
    BY DEF TypeOK
  <2>3. pc'[w] = where /\ (pc[w] # "failing" => status[job[w]] \in Interrupted)
        /\ (pc[w] = "failing" => status[job[w]] \notin Undone)
    BY DEF TypeOK, Placed, Working, Written
  <2> QED
    BY <1>0, <2>1, <2>2, <2>3 DEF Placed, Working, Interrupted, Written, Undone
<1>5. Counted' /\ Undecided'
  BY DEF Counted, Undecided, Requested, TypeOK, Real
<1>6. Planned'
  BY <1>0, WaitingTasks DEF Planned, MayRun, TypeOK, Real
<1> QED
  BY <1>1, <1>2, <1>3, <1>4, <1>5, <1>6 DEF IInv

(* A worker writes an outcome, or that the task is running.  Only a holder  *)
(* of the lock may write an outcome that is final.                          *)

LEMMA WorkerWrites ==
    ASSUME TypeOK, Assigned, Locked, Requested, Placed, Counted, Undecided, Planned,
           NEW w \in Workers, pc[w] \in Working,
           NEW s \in Statuses \ {"absent", "waiting_approval", "rejected"},
           NEW where \in (Working \ {"conclude"}) \union {"export", "closing", "leaving"},
           where \in Working \ {"failing"} => s \in Interrupted,
           where \in {"failing", "export"} => s # "interrupted",
           pc[w] = "failing" => s \notin Interrupted,
           s \in {"completed", "cancelled"} => lock # "request",
           status' = [status EXCEPT ![job[w]] = s], Goto(w, where),
           lock' = lock \/ (lock = w /\ lock' = "free"),
           exporting' \in {exporting, [exporting EXCEPT ![job[w]] = "settle"]},
           UNCHANGED <<plan, reservation, result, events, resumes, grant, queue,
                       job, cancelSet, gate, request, started, process>>
    PROVE  IInv'
<1> USE LifecycleAssumption DEF Goto, process
<1>h. /\ job[w] \in Tasks /\ job[w] \notin Waiting /\ pc'[w] = where
      /\ \A u \in Workers : u # w => job[u] # job[w] /\ pc'[u] = pc[u]
      /\ status[job[w]] \notin Undone \union {"interrupted"} /\ status'[job[w]] = s
      /\ \A t \in Tasks : t # job[w] => status'[t] = status[t]
  <2>1. job[w] \in Tasks /\ job[w] \notin Waiting /\ \A u \in Workers : u # w => job[u] # job[w]
    BY Held DEF Working
  <2>2. status[job[w]] \notin Undone \union {"interrupted"}
    <3>1. pc[w] # "failing" => status[job[w]] \in Interrupted
      BY DEF Placed
    <3>2. pc[w] = "failing" => status[job[w]] \notin Undone /\ status[job[w]] # "interrupted"
      BY DEF Placed, Written
    <3> QED
      BY <3>1, <3>2 DEF Interrupted, Undone
  <2> QED
    BY <2>1, <2>2 DEF TypeOK
<1>0. Waiting' = Waiting /\ Distinct'
  BY SameQueue DEF Assigned
<1>1. TypeOK'
  <2>1. where \in WorkerStates
    BY DEF Working, WorkerStates
  <2>2. exporting' \in [Tasks -> {"no", "settle", "render"}]
    BY DEF TypeOK
  <2> QED
    BY <2>1, <2>2 DEF TypeOK
<1>2. Assigned' /\ Locked'
  BY <1>0, <1>h DEF Assigned, Locked, Working
<1>3. Requested'
  <2>1. request.op \in {"approve", "resume"} => job[w] # request.task
    BY DEF Requested, Working
  <2>2. request.op = "cancel_direct" => job[w] # request.task
    BY <1>h DEF Requested, Undone
  <2>3. request.op \in {"cancel_signal", "cancel_write"} /\ job[w] = request.task =>
            s \in Interrupted \union {"interrupted", "failed", "degraded"}
    BY DEF Locked, Statuses, Terminal
  <2>4. request.op # "idle" => request.task \in Tasks
    BY DEF Locked
  <2> QED
    BY <1>h, <2>1, <2>2, <2>3, <2>4 DEF Requested
<1>4. Placed'
  <2>1. \A t \in Tasks : t # job[w] /\ AtGate(t) => AtGate(t)'
    BY <1>h DEF AtGate
  <2>2. \A t \in Waiting : t \in Tasks /\ t # job[w]
    BY <1>h, WaitingTasks DEF TypeOK
  <2>3. ASSUME NEW u \in Workers, u # w
        PROVE  /\ pc'[u] = "gate" => AtGate(job[u])'
               /\ pc'[u] \in Working \ {"failing"} => status'[job[u]] \in Interrupted
               /\ pc'[u] \in Written => status'[job[u]] \notin Undone
               /\ pc'[u] \in {"failing", "export"} => status'[job[u]] # "interrupted"
    <3>1. pc[u] # "idle" => job[u] \in Tasks /\ job[u] # job[w]
      BY <1>h, <2>3, Held
    <3> QED
      <4>1. pc'[u] = pc[u] /\ (pc[u] # "idle" => status'[job[u]] = status[job[u]])
        BY <1>h, <2>3, <3>1
      <4>2. pc'[u] = "gate" => AtGate(job[u])'
        BY <1>h, <2>1, <3>1, <4>1 DEF Placed
      <4> QED
        BY <4>1, <4>2 DEF Placed, Working, Written
  <2>4. ASSUME NEW t \in Tasks, status'[t] \in Interrupted PROVE gate[t] # "refused"
    <3>1. CASE t = job[w]
      BY <1>h, <2>4, <3>1 DEF Placed
    <3>2. CASE t # job[w]
      BY <1>h, <2>4, <3>2 DEF Placed
    <3> QED
      BY <3>1, <3>2
  <2> QED
    BY <1>0, <1>h, <2>1, <2>2, <2>3, <2>4 DEF Placed, Working, Written, Undone, Interrupted
<1>5. Counted' /\ Undecided'
  BY <1>h DEF Counted, Undecided, Real, Interrupted, TypeOK
<1>6. Planned'
  BY <1>0 DEF Planned, MayRun, Real
<1> QED
  BY <1>1, <1>2, <1>3, <1>4, <1>5, <1>6 DEF IInv

LEMMA WorkerSteps ==
    ASSUME TypeOK, Assigned, Locked, Requested, Placed, Counted, Undecided, Planned,
           NEW w \in Workers,
           \/ CheckUsage(w) \/ PreflightRefuses(w) \/ DemoPhase(w) \/ DemoFinish(w)
           \/ ResearchRefused(w) \/ ResearchBegin(w) \/ PlanRefused(w)
           \/ ResearchStops(w) \/ PublishResult(w) \/ Conclude(w)
           \/ FinishCancelled(w) \/ FinishUncertain(w) \/ FinishUnavailable(w)
           \/ FinishFailed(w)
    PROVE  IInv'
<1> USE DEF Working, Moves, Writes, WritesAndExports, WritesUnaudited, AuditFails,
            ExportsFollow, durable
<1>h. result' = result => result' \in [Tasks -> BOOLEAN]
  BY DEF TypeOK
<1>f. MayEnter(w) \/ pc[w] = "conclude" => lock # "request"
  BY LifecycleAssumption DEF MayEnter, Locked
<1>1. CASE CheckUsage(w)
  BY <1>1, <1>h, WorkerMoves DEF CheckUsage
<1>2. CASE PreflightRefuses(w)
  BY <1>2, <1>h, WorkerMoves DEF PreflightRefuses
<1>3. CASE DemoPhase(w)
  <2>1. CASE CancelIsSet(w)
    BY <1>3, <2>1, <1>h, WorkerMoves DEF DemoPhase
  <2>2. CASE ~CancelIsSet(w)
    BY <1>3, <2>2, <1>f, WorkerWrites DEF DemoPhase, Statuses, Interrupted
  <2> QED
    BY <2>1, <2>2
<1>4. CASE DemoFinish(w)
  <2>1. CASE CancelIsSet(w)
    BY <1>4, <2>1, <1>h, WorkerMoves DEF DemoFinish
  <2>2. CASE ~CancelIsSet(w)
    <3>1. PICK s \in {"completed", "degraded"} :
             \/ WritesAndExports(w, s, "export") /\ UNCHANGED lock
             \/ WritesUnaudited(w, s, "failing")
      BY <1>4, <2>2 DEF DemoFinish
    <3> QED
      BY <1>4, <3>1, <1>f, WorkerWrites DEF DemoFinish, Statuses, Terminal
  <2> QED
    BY <2>1, <2>2
<1>5. CASE ResearchRefused(w)
  BY <1>5, <1>h, WorkerMoves DEF ResearchRefused
<1>6. CASE ResearchBegin(w)
  <2>1. CASE CancelIsSet(w)
    BY <1>6, <2>1, <1>h, WorkerMoves DEF ResearchBegin
  <2>2. CASE ~CancelIsSet(w)
    BY <1>6, <2>2, <1>f, WorkerWrites DEF ResearchBegin, Statuses, Interrupted
  <2> QED
    BY <2>1, <2>2
<1>7. CASE PlanRefused(w)
  BY <1>7, <1>h, WorkerMoves DEF PlanRefused
<1>8. CASE ResearchStops(w)
  <2>1. PICK where \in {"cancelling", "uncertain", "failing"} : Moves(w, where)
    BY <1>8 DEF ResearchStops
  <2> QED
    BY <1>8, <2>1, <1>h, WorkerMoves DEF ResearchStops
<1>9. CASE PublishResult(w)
  <2>1. CASE CancelIsSet(w)
    BY <1>9, <2>1, <1>h, WorkerMoves DEF PublishResult
  <2>2. CASE ~CancelIsSet(w)
    <3>1. result' \in [Tasks -> BOOLEAN]
      BY <1>9, <2>2 DEF PublishResult, ResultStored, TypeOK
    <3> QED
      BY <1>9, <2>2, <3>1, WorkerMoves DEF PublishResult
  <2> QED
    BY <2>1, <2>2
<1>10. CASE Conclude(w)
  <2>1. PICK s \in {"completed", "degraded", "failed"} :
           \/ WritesAndExports(w, s, "export")
           \/ WritesUnaudited(w, s, "failing")
           \/ WritesUnaudited(w, status[job[w]], "failing")
    BY <1>10 DEF Conclude
  <2>2. lock = w /\ lock' = "free" /\ status[job[w]] \in Interrupted
    BY <1>10 DEF Conclude, Locked, Placed
  <2>3. CASE WritesAndExports(w, s, "export") \/ WritesUnaudited(w, s, "failing")
    BY <1>10, <2>2, <2>3, <1>f, WorkerWrites DEF Conclude, Statuses, Terminal
  <2>4. CASE WritesUnaudited(w, status[job[w]], "failing")
    BY <1>10, <2>2, <2>4, <1>f, WorkerWrites DEF Conclude, Statuses, Terminal, Interrupted
  <2> QED
    BY <2>1, <2>3, <2>4
<1>11. CASE FinishCancelled(w)
  BY <1>11, <1>f, WorkerWrites DEF FinishCancelled, Statuses, Terminal
<1>12. CASE FinishUncertain(w)
  BY <1>12, WorkerWrites DEF FinishUncertain, Statuses
<1>13. CASE FinishUnavailable(w)
  BY <1>13, WorkerWrites DEF FinishUnavailable, Statuses, Terminal
<1>14. CASE FinishFailed(w)
  <2>1. CASE status[job[w]] \in {"cancelled", "rejected"}
    BY <1>14, <2>1, <1>h, WorkerMoves DEF FinishFailed
  <2>2. CASE status[job[w]] \notin {"cancelled", "rejected"}
    BY <1>14, <2>2, WorkerWrites DEF FinishFailed, Statuses, Terminal, Interrupted
  <2> QED
    BY <2>1, <2>2
<1> QED
  BY <1>1, <1>2, <1>3, <1>4, <1>5, <1>6, <1>7, <1>8, <1>9, <1>10, <1>11, <1>12,
     <1>13, <1>14

(* Between the queue, the gate and the execution.                          *)

LEMMA TakeStep ==
    ASSUME TypeOK, Assigned, Locked, Requested, Placed, Counted, Undecided, Planned,
           NEW w \in Workers, Take(w)
    PROVE  IInv'
<1> USE LifecycleAssumption DEF Take, Goto, durable, process
<1>0. /\ Waiting' = Waiting \ {Head(queue)} /\ Distinct'
      /\ Head(queue) \in Waiting /\ Head(queue) \in Tasks
  BY Leaving DEF Assigned, TypeOK
<1>h. /\ pc' = [pc EXCEPT ![w] = "gate"] /\ job' = [job EXCEPT ![w] = Head(queue)]
      /\ pc'[w] = "gate" /\ job'[w] = Head(queue)
      /\ \A u \in Workers : u # w => pc'[u] = pc[u] /\ job'[u] = job[u]
  BY DEF TypeOK
<1>1. TypeOK'
  <2>1. queue' \in Seq(Tasks) /\ Len(queue') <= MaxQueueSize
    BY DEF TypeOK
  <2> QED
    BY <1>0, <1>h, <2>1 DEF TypeOK, WorkerStates
<1>2. Assigned' /\ Locked'
  BY <1>0, <1>h DEF Assigned, Locked, TypeOK
<1>3. Requested'
  BY <1>0, <1>h DEF Requested
<1>4. Placed'
  <2>1. \A t : AtGate(t) <=> AtGate(t)'
    BY DEF AtGate
  <2> QED
    BY <1>0, <1>h, <2>1 DEF Placed, Working, Written
<1>5. Counted' /\ Undecided'
  BY DEF Counted, Undecided, Requested, TypeOK, Real
<1>6. Planned'
  <2>1. \A t : MayRun(t) <=> MayRun(t)'
    BY DEF MayRun, Real
  <2> QED
    BY <1>0, <1>h, <2>1 DEF Planned
<1> QED
  BY <1>1, <1>2, <1>3, <1>4, <1>5, <1>6 DEF IInv

LEMMA PassGateStep ==
    ASSUME TypeOK, Assigned, Locked, Requested, Placed, Counted, Undecided, Planned,
           NEW w \in Workers, PassGate(w)
    PROVE  IInv'
<1> USE LifecycleAssumption DEF PassGate, Admitted, Goto, durable, process
<1>0. Waiting' = Waiting /\ Distinct'
  BY SameQueue DEF Assigned
<1>h. /\ job[w] \in Tasks /\ job[w] \notin Waiting /\ AtGate(job[w])
      /\ \A u \in Workers : u # w => job[u] # job[w]
  BY Held DEF Placed
<1>p. \A u \in Workers : u # w => pc'[u] = pc[u]
  BY DEF TypeOK
<1>s. \/ /\ pc'[w] = "start" /\ gate[job[w]] = "admitted"
         /\ started' = [started EXCEPT ![job[w]] = started[job[w]] + 1]
      \/ pc'[w] = "leaving" /\ gate[job[w]] = "refused" /\ started' = started
  <2>1. CASE gate[job[w]] = "admitted"
    BY <2>1 DEF TypeOK
  <2>2. CASE gate[job[w]] # "admitted"
    BY <1>h, <2>2 DEF TypeOK
  <2> QED
    BY <2>1, <2>2
<1>1. TypeOK'
  <2>1. started' \in [Tasks -> Nat]
    <3> HIDE DEF PassGate
    <3>1. started \in [Tasks -> Nat] /\ started[job[w]] + 1 \in Nat
      BY <1>h DEF TypeOK
    <3> QED
      BY <1>s, <3>1, Updated
  <2> QED
    BY <2>1 DEF TypeOK, WorkerStates
<1>2. Assigned' /\ Locked'
  BY <1>0 DEF Assigned, Locked, TypeOK
<1>3. Requested'
  <2>1. request.op \in {"approve", "resume"} => request.task # job[w]
    BY DEF Requested
  <2>2. \A t \in Tasks : t # job[w] => started'[t] = started[t]
    BY <1>s DEF TypeOK
  <2>3. request.op # "idle" => request.task \in Tasks
    BY DEF Locked
  <2> QED
    BY <1>p, <2>1, <2>2, <2>3 DEF Requested
<1>4. Placed'
  <2>1. \A t \in Tasks : t # job[w] /\ AtGate(t) => AtGate(t)'
    BY <1>s DEF AtGate, TypeOK
  <2>2. \A u \in Workers : u # w /\ pc[u] = "gate" => job[u] \in Tasks /\ AtGate(job[u])'
    BY <1>h, <2>1, Held DEF Placed
  <2>3. pc'[w] = "start" => status[job[w]] \in Interrupted
    BY <1>h, <1>s DEF AtGate, Interrupted
  <2>4. pc'[w] = "leaving" => status[job[w]] \in {"interrupted", "cancelled"}
    BY <1>h, <1>s DEF AtGate
  <2>5. \A t \in Waiting : AtGate(t)'
    BY <1>h, <2>1, WaitingTasks DEF Placed, TypeOK
  <2> QED
    BY <1>0, <1>p, <1>s, <2>2, <2>3, <2>4, <2>5 DEF Placed, Working, Written, Undone
<1>5. Counted' /\ Undecided'
  <2>1. pc'[w] = "start" => /\ status[job[w]] \in {"queued", "cancelling"}
                            /\ started[job[w]] <= resumes[job[w]]
    BY <1>h, <1>s DEF AtGate
  <2>2. \A t \in Tasks : t # job[w] => started'[t] = started[t]
    BY <1>s DEF TypeOK
  <2>3. pc'[w] = "start" => started'[job[w]] = started[job[w]] + 1
    BY <1>h, <1>s DEF TypeOK
  <2>4. ASSUME NEW t \in Tasks
        PROVE  /\ started'[t] <= 1 + resumes[t]
               /\ status[t] \in {"absent", "waiting_approval", "rejected"} => started'[t] = 0
    <3>1. /\ started[t] <= 1 + resumes[t] /\ started[t] \in Nat /\ resumes[t] \in 0 .. 2
          /\ status[t] \in {"absent", "waiting_approval", "rejected"} => started[t] = 0
      BY DEF Counted, TypeOK
    <3>2. CASE t = job[w] /\ pc'[w] = "start"
      BY <2>1, <2>3, <3>1, <3>2
    <3>3. CASE started'[t] = started[t]
      BY <3>1, <3>3
    <3> QED
      BY <1>s, <2>2, <3>2, <3>3
  <2> QED
    BY <2>4 DEF Counted, Undecided, Real
<1>6. Planned'
  BY <1>0, WaitingTasks DEF Planned, MayRun, TypeOK, Real
<1> QED
  BY <1>1, <1>2, <1>3, <1>4, <1>5, <1>6 DEF IInv

LEMMA LeaveStep ==
    ASSUME TypeOK, Assigned, Locked, Requested, Placed, Counted, Undecided, Planned,
           NEW w \in Workers, Leave(w)
    PROVE  IInv'
<1> USE LifecycleAssumption DEF Leave, Goto, durable, process
<1>0. Waiting' = Waiting /\ Distinct'
  BY SameQueue DEF Assigned
<1>1. TypeOK'
  BY DEF TypeOK, Statuses, Terminal, Interrupted, PlanStates, Reservations,
      Grants, WorkerStates, Ops
<1>2. Assigned' /\ Locked'
  <2>1. /\ pc'[w] = "idle" /\ job'[w] = NoTask
        /\ \A u \in Workers : u # w => pc'[u] = pc[u] /\ job'[u] = job[u]
    BY DEF TypeOK
  <2>2. NoTask \notin Waiting
    BY WaitingTasks DEF TypeOK
  <2> QED
    BY <1>0, <2>1, <2>2 DEF Assigned, Locked
<1>3. Requested'
  BY LiveStatus DEF Requested, TypeOK, Assigned, Locked, Placed, Working,
      Live, Interrupted, AtGate
<1>4. Placed'
  BY <1>0, WaitingTasks DEF Placed, AtGate, Requested, TypeOK, Assigned,
      Locked, Working, Interrupted, Written, Undone
<1>5. Counted' /\ Undecided'
  BY DEF Counted, Undecided, Requested, TypeOK, Real
<1>6. Planned'
  BY <1>0, WaitingTasks DEF Planned, MayRun, TypeOK, Real
<1> QED
  BY <1>1, <1>2, <1>3, <1>4, <1>5, <1>6 DEF IInv

-----------------------------------------------------------------------------
(* The handlers and the exports.                                            *)

(* A decision changes the state of a plan and nothing else of it.            *)
LEMMA Decided ==
    ASSUME NEW p, NEW N, NEW S, p \in [Tasks -> [version : N, state : S, fixture : BOOLEAN]],
           NEW t \in Tasks, NEW s \in S
    PROVE  [p EXCEPT ![t].state = s] \in [Tasks -> [version : N, state : S, fixture : BOOLEAN]]
<1>1. [p[t] EXCEPT !.state = s] \in [version : N, state : S, fixture : BOOLEAN]
  OBVIOUS
<1> QED
  BY <1>1

LEMMA CreateTaskStep ==
    ASSUME TypeOK, Assigned, Locked, Requested, Placed, Counted, Undecided, Planned,
           NEW t \in Tasks, CreateTask(t)
    PROVE  IInv'
<1> USE LifecycleAssumption DEF CreateTask, durable, volatile, process
<1>0. Waiting' = Waiting /\ Distinct'
  BY SameQueue DEF Assigned
<1>1. TypeOK'
  BY DEF TypeOK, Statuses, Terminal, Interrupted, PlanStates, Reservations,
      Grants, WorkerStates, Ops
<1>2. Assigned' /\ Locked'
  BY <1>0 DEF Assigned, Locked, TypeOK
<1>3. Requested'
  BY LiveStatus DEF Requested, TypeOK, Assigned, Locked, Placed, Working,
      Live, Interrupted, AtGate
<1>4. Placed'
  BY <1>0, WaitingTasks DEF Placed, AtGate, Requested, TypeOK, Assigned,
      Locked, Working, Interrupted, Written, Undone
<1>5. Counted' /\ Undecided'
  BY DEF Counted, Undecided, Requested, TypeOK, Real
<1>6. Planned'
  BY <1>0, WaitingTasks DEF Planned, MayRun, TypeOK, Real
<1> QED
  BY <1>1, <1>2, <1>3, <1>4, <1>5, <1>6 DEF IInv

LEMMA AuthorizePlanningStep ==
    ASSUME TypeOK, Assigned, Locked, Requested, Placed, Counted, Undecided, Planned,
           NEW t \in Tasks, AuthorizePlanning(t)
    PROVE  IInv'
<1> USE LifecycleAssumption DEF AuthorizePlanning, volatile, process
<1>0. Waiting' = Waiting /\ Distinct'
  BY SameQueue DEF Assigned
<1>1. TypeOK'
  BY DEF TypeOK, Statuses, Terminal, Interrupted, PlanStates, Reservations,
      Grants, WorkerStates, Ops
<1>2. Assigned' /\ Locked'
  BY <1>0 DEF Assigned, Locked, TypeOK
<1>3. Requested'
  BY LiveStatus DEF Requested, TypeOK, Assigned, Locked, Placed, Working,
      Live, Interrupted, AtGate
<1>4. Placed'
  BY <1>0, WaitingTasks DEF Placed, AtGate, Requested, TypeOK, Assigned,
      Locked, Working, Interrupted, Written, Undone
<1>5. Counted' /\ Undecided'
  BY DEF Counted, Undecided, Requested, TypeOK, Real
<1>6. Planned'
  BY <1>0, WaitingTasks DEF Planned, MayRun, TypeOK, Real
<1> QED
  BY <1>1, <1>2, <1>3, <1>4, <1>5, <1>6 DEF IInv

LEMMA GeneratePlanStep ==
    ASSUME TypeOK, Assigned, Locked, Requested, Placed, Counted, Undecided, Planned,
           NEW t \in Tasks, GeneratePlan(t)
    PROVE  IInv'
<1> USE LifecycleAssumption DEF GeneratePlan, Plannable, NewVersion, volatile,
    process
<1>0. Waiting' = Waiting /\ Distinct'
  BY SameQueue DEF Assigned
<1>1. TypeOK'
  BY DEF TypeOK, Statuses, Terminal, Interrupted, PlanStates, Reservations,
      Grants, WorkerStates, Ops
<1>2. Assigned' /\ Locked'
  BY <1>0 DEF Assigned, Locked, TypeOK
<1>3. Requested'
  BY LiveStatus DEF Requested, TypeOK, Assigned, Locked, Placed, Working,
      Live, Interrupted, AtGate
<1>4. Placed'
  BY <1>0, WaitingTasks DEF Placed, AtGate, Requested, TypeOK, Assigned,
      Locked, Working, Interrupted, Written, Undone
<1>5. Counted' /\ Undecided'
  BY DEF Counted, Undecided, Requested, TypeOK, Real
<1>6. Planned'
  <2>1. t \notin Live
    BY LiveStatus
  <2>2. t \notin Waiting /\ \A w \in Workers : job[w] # t
    BY <2>1 DEF Live
  <2> QED
    BY <1>0, <2>2, WaitingTasks DEF Planned, MayRun, TypeOK, Real
<1> QED
  BY <1>1, <1>2, <1>3, <1>4, <1>5, <1>6 DEF IInv

LEMMA ApproveCommitStep ==
    ASSUME TypeOK, Assigned, Locked, Requested, Placed, Counted, Undecided, Planned,
           NEW t \in Tasks, ApproveCommit(t)
    PROVE  IInv'
<1> USE LifecycleAssumption DEF ApproveCommit, Reviewable, Fundable,
    Acceptable, Prepared, process
<1>0. Waiting' = Waiting \union {t} /\ Distinct' /\ t \notin Waiting
      /\ \A w \in Workers : job[w] # t
  BY Joining DEF Assigned, Live, TypeOK
<1>1. TypeOK'
  <2>1. queue' \in Seq(Tasks) /\ Len(queue') = Len(queue) + 1 /\ Len(queue) \in Nat
    BY DEF TypeOK
  <2>2. Len(queue') <= MaxQueueSize
    BY <2>1
  <2>3. plan' \in [Tasks -> [version : 0 .. MaxPlanVersions, state : PlanStates, fixture : BOOLEAN]]
    BY Decided DEF TypeOK, PlanStates
  <2>4. grant' \in [Tasks -> Grants] /\ reservation' \in [Tasks -> Reservations]
    BY DEF TypeOK, Grants, Reservations
  <2> QED
    BY <2>1, <2>2, <2>3, <2>4 DEF TypeOK, Statuses, Interrupted, Ops
<1>2. Assigned' /\ Locked'
  BY <1>0 DEF Assigned, Locked, TypeOK
<1>3. Requested'
  <2>1. status'[t] = "queued" /\ gate'[t] = "closed" /\ request' = [op |-> "approve", task |-> t]
    BY DEF TypeOK
  <2> QED
    BY <1>0, <2>1 DEF Requested, Counted
<1>4. Placed'
  BY <1>0, WaitingTasks DEF Placed, AtGate, Requested, TypeOK, Assigned,
      Locked, Working, Interrupted, Written, Undone
<1>5. Counted' /\ Undecided'
  BY DEF Counted, Undecided, Requested, TypeOK, Real
<1>6. Planned'
  BY <1>0, WaitingTasks DEF Planned, MayRun, TypeOK, Real
<1> QED
  BY <1>1, <1>2, <1>3, <1>4, <1>5, <1>6 DEF IInv

LEMMA ApproveRolledBackStep ==
    ASSUME TypeOK, Assigned, Locked, Requested, Placed, Counted, Undecided, Planned,
           NEW t \in Tasks, ApproveRolledBack(t)
    PROVE  IInv'
<1> USE LifecycleAssumption DEF ApproveRolledBack, Reviewable, Fundable,
    Prepared, RolledBack, volatile, process
<1>0. Waiting' = Waiting /\ Distinct'
  BY SameQueue DEF Assigned
<1>1. TypeOK'
  BY DEF TypeOK, Statuses, Terminal, Interrupted, PlanStates, Reservations,
      Grants, WorkerStates, Ops
<1>2. Assigned' /\ Locked'
  BY <1>0 DEF Assigned, Locked, TypeOK
<1>3. Requested'
  BY LiveStatus DEF Requested, TypeOK, Assigned, Locked, Placed, Working,
      Live, Interrupted, AtGate
<1>4. Placed'
  BY <1>0, WaitingTasks DEF Placed, AtGate, Requested, TypeOK, Assigned,
      Locked, Working, Interrupted, Written, Undone
<1>5. Counted' /\ Undecided'
  BY DEF Counted, Undecided, Requested, TypeOK, Real
<1>6. Planned'
  BY <1>0, WaitingTasks DEF Planned, MayRun, TypeOK, Real
<1> QED
  BY <1>1, <1>2, <1>3, <1>4, <1>5, <1>6 DEF IInv

LEMMA ModifyPlanStep ==
    ASSUME TypeOK, Assigned, Locked, Requested, Placed, Counted, Undecided, Planned,
           NEW t \in Tasks, ModifyPlan(t)
    PROVE  IInv'
<1> USE LifecycleAssumption DEF ModifyPlan, Reviewable, NewVersion, volatile,
    process
<1>0. Waiting' = Waiting /\ Distinct'
  BY SameQueue DEF Assigned
<1>1. TypeOK'
  BY DEF TypeOK, Statuses, Terminal, Interrupted, PlanStates, Reservations,
      Grants, WorkerStates, Ops
<1>2. Assigned' /\ Locked'
  BY <1>0 DEF Assigned, Locked, TypeOK
<1>3. Requested'
  BY LiveStatus DEF Requested, TypeOK, Assigned, Locked, Placed, Working,
      Live, Interrupted, AtGate
<1>4. Placed'
  BY <1>0, WaitingTasks DEF Placed, AtGate, Requested, TypeOK, Assigned,
      Locked, Working, Interrupted, Written, Undone
<1>5. Counted' /\ Undecided'
  BY DEF Counted, Undecided, Requested, TypeOK, Real
<1>6. Planned'
  <2>1. t \notin Live
    BY LiveStatus
  <2>2. t \notin Waiting /\ \A w \in Workers : job[w] # t
    BY <2>1 DEF Live
  <2> QED
    BY <1>0, <2>2, WaitingTasks DEF Planned, MayRun, TypeOK, Real
<1> QED
  BY <1>1, <1>2, <1>3, <1>4, <1>5, <1>6 DEF IInv

LEMMA RejectPlanStep ==
    ASSUME TypeOK, Assigned, Locked, Requested, Placed, Counted, Undecided, Planned,
           NEW t \in Tasks, RejectPlan(t)
    PROVE  IInv'
<1> USE LifecycleAssumption DEF RejectPlan, Reviewable, Revoked, ExportsFollow, AuditFails, process
<1>0. Waiting' = Waiting /\ Distinct'
  BY SameQueue DEF Assigned
<1>1. TypeOK'
  <2>1. plan' \in [Tasks -> [version : 0 .. MaxPlanVersions, state : PlanStates, fixture : BOOLEAN]]
    BY Decided DEF TypeOK, PlanStates
  <2>2. grant' \in [Tasks -> Grants] /\ status' \in [Tasks -> Statuses]
    BY DEF TypeOK, Statuses, Terminal, Grants
  <2>3. exporting' \in [Tasks -> {"no", "settle", "render"}]
    BY DEF TypeOK
  <2> QED
    BY <2>1, <2>2, <2>3 DEF TypeOK
<1>2. Assigned' /\ Locked'
  BY <1>0 DEF Assigned, Locked, TypeOK
<1>3. Requested'
  BY LiveStatus DEF Requested, TypeOK, Assigned, Locked, Placed, Working,
      Live, Interrupted, AtGate
<1>4. Placed'
  BY <1>0, WaitingTasks DEF Placed, AtGate, Requested, TypeOK, Assigned,
      Locked, Working, Interrupted, Written, Undone
<1>5. Counted' /\ Undecided'
  BY DEF Counted, Undecided, Requested, TypeOK, Real
<1>6. Planned'
  BY <1>0, WaitingTasks DEF Planned, MayRun, TypeOK, Real
<1> QED
  BY <1>1, <1>2, <1>3, <1>4, <1>5, <1>6 DEF IInv

LEMMA CancelRevokeStep ==
    ASSUME TypeOK, Assigned, Locked, Requested, Placed, Counted, Undecided, Planned,
           NEW t \in Tasks, CancelRevoke(t)
    PROVE  IInv'
<1> USE LifecycleAssumption DEF CancelRevoke, Cancellable, Revoked, process
<1>0. Waiting' = Waiting /\ Distinct'
  BY SameQueue DEF Assigned
<1>1. TypeOK'
  BY DEF TypeOK, Statuses, Terminal, Interrupted, PlanStates, Reservations,
      Grants, WorkerStates, Ops
<1>2. Assigned' /\ Locked'
  BY <1>0 DEF Assigned, Locked, TypeOK
<1>3. Requested'
  <2>1. status[t] \in Interrupted \union {"interrupted", "failed", "degraded", "waiting_approval"}
    BY DEF TypeOK, Statuses, Terminal
  <2> QED
    BY <2>1 DEF Requested, TypeOK, Terminal, Placed
<1>4. Placed'
  BY <1>0, WaitingTasks DEF Placed, AtGate, Requested, TypeOK, Assigned,
      Locked, Working, Interrupted, Written, Undone
<1>5. Counted' /\ Undecided'
  BY DEF Counted, Undecided, Requested, TypeOK, Real
<1>6. Planned'
  BY <1>0, WaitingTasks DEF Planned, MayRun, TypeOK, Real
<1> QED
  BY <1>1, <1>2, <1>3, <1>4, <1>5, <1>6 DEF IInv

LEMMA ResumeCommitStep ==
    ASSUME TypeOK, Assigned, Locked, Requested, Placed, Counted, Undecided, Planned,
           NEW t \in Tasks, ResumeCommit(t)
    PROVE  IInv'
<1> USE LifecycleAssumption DEF ResumeCommit, ResumesLeft, Acceptable, process
<1>0. Waiting' = Waiting \union {t} /\ Distinct' /\ t \notin Waiting
      /\ \A w \in Workers : job[w] # t
  BY Joining DEF Assigned, Live, TypeOK
<1>1. TypeOK'
  <2>1. queue' \in Seq(Tasks) /\ Len(queue') = Len(queue) + 1 /\ Len(queue) \in Nat
    BY DEF TypeOK
  <2>2. Len(queue') <= MaxQueueSize
    BY <2>1
  <2>3. status' \in [Tasks -> Statuses]
    BY DEF TypeOK, Statuses, Interrupted
  <2>4. request' \in [op : Ops, task : Tasks \union {NoTask}]
    BY DEF Ops
  <2> QED
    BY <2>1, <2>2, <2>3, <2>4 DEF TypeOK, Statuses, Interrupted, Ops
<1>2. Assigned' /\ Locked'
  BY <1>0 DEF Assigned, Locked, TypeOK
<1>3. Requested'
  <2>1. status'[t] = "queued" /\ gate'[t] = "closed" /\ request' = [op |-> "resume", task |-> t]
    BY DEF TypeOK
  <2> QED
    BY <1>0, <2>1 DEF Requested, TypeOK
<1>4. Placed'
  BY <1>0, WaitingTasks DEF Placed, AtGate, Requested, TypeOK, Assigned,
      Locked, Working, Interrupted, Written, Undone
<1>5. Counted' /\ Undecided'
  BY DEF Counted, Undecided, Requested, TypeOK, Real
<1>6. Planned'
  BY <1>0, WaitingTasks DEF Planned, MayRun, TypeOK, Real
<1> QED
  BY <1>1, <1>2, <1>3, <1>4, <1>5, <1>6 DEF IInv

LEMMA RetryExportsStep ==
    ASSUME TypeOK, Assigned, Locked, Requested, Placed, Counted, Undecided, Planned,
           NEW t \in Tasks, RetryExports(t)
    PROVE  IInv'
<1> USE LifecycleAssumption DEF RetryExports, durable, process
<1>0. Waiting' = Waiting /\ Distinct'
  BY SameQueue DEF Assigned
<1>1. TypeOK'
  BY DEF TypeOK, Statuses, Terminal, Interrupted, PlanStates, Reservations,
      Grants, WorkerStates, Ops
<1>2. Assigned' /\ Locked'
  BY <1>0 DEF Assigned, Locked, TypeOK
<1>3. Requested'
  BY LiveStatus DEF Requested, TypeOK, Assigned, Locked, Placed, Working,
      Live, Interrupted, AtGate
<1>4. Placed'
  BY <1>0, WaitingTasks DEF Placed, AtGate, Requested, TypeOK, Assigned,
      Locked, Working, Interrupted, Written, Undone
<1>5. Counted' /\ Undecided'
  BY DEF Counted, Undecided, TypeOK, Real, Terminal
<1>6. Planned'
  BY <1>0, WaitingTasks DEF Planned, MayRun, TypeOK, Real
<1> QED
  BY <1>1, <1>2, <1>3, <1>4, <1>5, <1>6 DEF IInv

LEMMA ApproveAdmitStep ==
    ASSUME TypeOK, Assigned, Locked, Requested, Placed, Counted, Undecided, Planned,
           ApproveAdmit
    PROVE  IInv'
<1> USE LifecycleAssumption DEF ApproveAdmit, Idle, process
<1>0. Waiting' = Waiting /\ Distinct'
  BY SameQueue DEF Assigned
<1>1. TypeOK'
  BY DEF TypeOK, Statuses, Terminal, Interrupted, PlanStates, Reservations,
      Grants, WorkerStates, Ops
<1>2. Assigned' /\ Locked'
  BY <1>0 DEF Assigned, Locked, TypeOK
<1>3. Requested'
  BY LiveStatus DEF Requested, TypeOK, Assigned, Locked, Placed, Working,
      Live, Interrupted, AtGate
<1>4. Placed'
  <2>1. PICK t \in Tasks : t = request.task
    BY DEF Locked
  <2>2. status[t] = "queued" /\ started[t] <= resumes[t]
    <3>1. status[t] = "queued" /\ started[t] = 0
      BY <2>1 DEF Requested
    <3>2. resumes[t] \in 0 .. 2
      BY DEF TypeOK
    <3> QED
      BY <3>1, <3>2
  <2>3. gate'[t] = "admitted" /\ \A u \in Tasks : u # t => gate'[u] = gate[u]
    BY <2>1 DEF TypeOK
  <2>4. AtGate(t)'
    BY <2>2, <2>3 DEF AtGate
  <2>5. \A u \in Tasks : u # t /\ AtGate(u) => AtGate(u)'
    BY <2>1, <2>3 DEF AtGate
  <2>6. \A w \in Workers : pc[w] = "gate" => job[w] \in Tasks
    BY DEF TypeOK, Assigned
  <2> QED
    BY <1>0, <2>2, <2>3, <2>4, <2>5, <2>6, WaitingTasks DEF Placed, TypeOK
<1>5. Counted' /\ Undecided'
  BY DEF Counted, Undecided, Requested, TypeOK, Real
<1>6. Planned'
  BY <1>0, WaitingTasks DEF Planned, MayRun, TypeOK, Real
<1> QED
  BY <1>1, <1>2, <1>3, <1>4, <1>5, <1>6 DEF IInv

LEMMA ApproveFailsStep ==
    ASSUME TypeOK, Assigned, Locked, Requested, Placed, Counted, Undecided, Planned,
           ApproveFails
    PROVE  IInv'
<1> USE LifecycleAssumption DEF ApproveFails, Idle, Refused, process
<1>0. Waiting' = Waiting /\ Distinct'
  BY SameQueue DEF Assigned
<1>1. TypeOK'
  BY DEF TypeOK, Statuses, Terminal, Interrupted, PlanStates, Reservations,
      Grants, WorkerStates, Ops
<1>2. Assigned' /\ Locked'
  BY <1>0 DEF Assigned, Locked, TypeOK
<1>3. Requested'
  BY LiveStatus DEF Requested, TypeOK, Assigned, Locked, Placed, Working,
      Live, Interrupted, AtGate
<1>4. Placed'
  BY <1>0, WaitingTasks DEF Placed, AtGate, Requested, TypeOK, Assigned,
      Locked, Working, Interrupted, Written, Undone
<1>5. Counted' /\ Undecided'
  BY DEF Counted, Undecided, Requested, TypeOK, Real
<1>6. Planned'
  BY <1>0, WaitingTasks DEF Planned, MayRun, TypeOK, Real
<1> QED
  BY <1>1, <1>2, <1>3, <1>4, <1>5, <1>6 DEF IInv

LEMMA CancelDirectStep ==
    ASSUME TypeOK, Assigned, Locked, Requested, Placed, Counted, Undecided, Planned,
           CancelDirect
    PROVE  IInv'
<1> USE LifecycleAssumption DEF CancelDirect, ExportsFollow, AuditFails, Idle, process
<1>0. Waiting' = Waiting /\ Distinct'
  BY SameQueue DEF Assigned
<1>1. TypeOK'
  <2>1. request.task \in Tasks
    BY DEF Locked
  <2>2. status' \in [Tasks -> Statuses]
    BY <2>1 DEF TypeOK, Statuses, Terminal
  <2>3. /\ exporting' \in {exporting, [exporting EXCEPT ![request.task] = "settle"]}
        /\ lock' \in {lock, "free"}
        /\ request' \in {Idle, [op |-> "cancel_export", task |-> request.task]}
    BY DEF TypeOK
  <2>u. UNCHANGED <<plan, reservation, result, events, resumes, grant, queue, job,
                    cancelSet, gate, pc, started, open, restarts, setting>>
    BY DEF process
  <2> HIDE DEF CancelDirect
  <2>4. exporting' \in [Tasks -> {"no", "settle", "render"}]
    BY <2>3, Updated DEF TypeOK
  <2>5. lock' \in {"free", "request"} \union Workers
    BY <2>3 DEF TypeOK
  <2>6. request' \in [op : Ops, task : Tasks \union {NoTask}]
    BY <2>1, <2>3 DEF Ops
  <2> QED
    BY <2>2, <2>4, <2>5, <2>6, <2>u DEF TypeOK
<1>2. Assigned' /\ Locked'
  <2>1. Assigned'
    BY <1>0 DEF Assigned
  <2>2. lock = "request" /\ \A w \in Workers : pc[w] # "conclude"
    BY DEF Locked
  <2>3. request'.op # "idle" => request' = [op |-> "cancel_export", task |-> request.task] /\ lock' = lock
    BY DEF TypeOK
  <2>4. pc' = pc /\ request.task \in Tasks
    BY DEF Locked
  <2>5. Locked'
    <3> HIDE DEF CancelDirect
    <3> QED
      BY <2>2, <2>3, <2>4 DEF Locked
  <2> QED
    BY <2>1, <2>5
<1>3. Requested'
  BY LiveStatus DEF Requested, TypeOK, Assigned, Locked, Placed, Working,
      Live, Interrupted, AtGate
<1>4. Placed'
  BY <1>0, WaitingTasks DEF Placed, AtGate, Requested, TypeOK, Assigned,
      Locked, Working, Interrupted, Written, Undone
<1>5. Counted' /\ Undecided'
  BY DEF Counted, Undecided, Requested, TypeOK, Real
<1>6. Planned'
  BY <1>0, WaitingTasks DEF Planned, MayRun, TypeOK, Real
<1> QED
  BY <1>1, <1>2, <1>3, <1>4, <1>5, <1>6 DEF IInv

LEMMA CancelSignalStep ==
    ASSUME TypeOK, Assigned, Locked, Requested, Placed, Counted, Undecided, Planned,
           CancelSignal
    PROVE  IInv'
<1> USE LifecycleAssumption DEF CancelSignal, Idle, durable, process
<1>0. Waiting' = Waiting /\ Distinct'
  BY SameQueue DEF Assigned
<1>1. TypeOK'
  <2>1. request.task \in Tasks
    BY DEF Locked
  <2> QED
    BY <2>1 DEF TypeOK, Ops
<1>2. Assigned' /\ Locked'
  BY <1>0 DEF Assigned, Locked, TypeOK
<1>3. Requested'
  BY LiveStatus DEF Requested, TypeOK, Assigned, Locked, Placed, Working,
      Live, Interrupted, AtGate
<1>4. Placed'
  BY <1>0, WaitingTasks DEF Placed, AtGate, Requested, TypeOK, Assigned,
      Locked, Working, Interrupted, Written, Undone
<1>5. Counted' /\ Undecided'
  BY DEF Counted, Undecided, Requested, TypeOK, Real
<1>6. Planned'
  BY <1>0, WaitingTasks DEF Planned, MayRun, TypeOK, Real
<1> QED
  BY <1>1, <1>2, <1>3, <1>4, <1>5, <1>6 DEF IInv

LEMMA CancelWriteStep ==
    ASSUME TypeOK, Assigned, Locked, Requested, Placed, Counted, Undecided, Planned,
           CancelWrite
    PROVE  IInv'
<1> USE LifecycleAssumption DEF CancelWrite, Idle, process
<1>0. Waiting' = Waiting /\ Distinct'
  BY SameQueue DEF Assigned
<1>1. TypeOK'
  <2>1. request.task \in Tasks
    BY DEF Locked
  <2>2. status' \in [Tasks -> Statuses] /\ request' \in [op : Ops, task : Tasks \union {NoTask}]
    BY <2>1 DEF TypeOK, Statuses, Terminal, Interrupted, Ops
  <2>3. /\ exporting' \in [Tasks -> {"no", "settle", "render"}]
        /\ lock' \in {"free", "request"} \union Workers
    BY <2>1 DEF TypeOK
  <2>4. \/ events' = events
        \/ events' = [events EXCEPT ![request.task] = @ \union {"task_cancel_requested"}]
    OBVIOUS
  <2>5. events' \in [Tasks -> SUBSET ({"task_cancel_requested"} \union TerminalEvents)]
    <3> HIDE DEF CancelWrite
    <3>1. /\ events \in [Tasks -> SUBSET ({"task_cancel_requested"} \union TerminalEvents)]
          /\ events[request.task] \union {"task_cancel_requested"}
                \in SUBSET ({"task_cancel_requested"} \union TerminalEvents)
      BY <2>1 DEF TypeOK
    <3> QED
      BY <2>4, <3>1, Updated
  <2> QED
    BY <2>2, <2>3, <2>5 DEF TypeOK
<1>2. Assigned' /\ Locked'
  BY <1>0 DEF Assigned, Locked, TypeOK
<1>3. Requested'
  BY LiveStatus DEF Requested, TypeOK, Assigned, Locked, Placed, Working,
      Live, Interrupted, AtGate
<1>4. Placed'
  BY <1>0, WaitingTasks DEF Placed, AtGate, Requested, TypeOK, Assigned,
      Locked, Working, Interrupted, Written, Undone
<1>5. Counted' /\ Undecided'
  BY DEF Counted, Undecided, Requested, TypeOK, Real
<1>6. Planned'
  BY <1>0, WaitingTasks DEF Planned, MayRun, TypeOK, Real
<1> QED
  BY <1>1, <1>2, <1>3, <1>4, <1>5, <1>6 DEF IInv

LEMMA ResumeAdmitStep ==
    ASSUME TypeOK, Assigned, Locked, Requested, Placed, Counted, Undecided, Planned,
           ResumeAdmit
    PROVE  IInv'
<1> USE LifecycleAssumption DEF ResumeAdmit, Idle, process
<1>0. Waiting' = Waiting /\ Distinct'
  BY SameQueue DEF Assigned
<1>r. PICK t \in Tasks : t = request.task
  BY DEF Locked
<1>c. /\ resumes[t] \in 0 .. 1 /\ resumes'[t] = resumes[t] + 1
      /\ \A u \in Tasks : u # t => resumes'[u] = resumes[u]
  BY <1>r DEF Requested, TypeOK
<1>1. TypeOK'
  <2>1. resumes' \in [Tasks -> 0 .. 2]
    <3>1. resumes[t] + 1 \in 0 .. 2
      BY <1>c
    <3> QED
      BY <1>r, <3>1 DEF TypeOK
  <2> QED
    BY <2>1 DEF TypeOK, Ops
<1>2. Assigned' /\ Locked'
  BY <1>0 DEF Assigned, Locked, TypeOK
<1>3. Requested'
  BY LiveStatus DEF Requested, TypeOK, Assigned, Locked, Placed, Working,
      Live, Interrupted, AtGate
<1>4. Placed'
  <2>1. status[t] = "queued"
    BY <1>r DEF Requested
  <2>2. gate'[t] = "admitted" /\ \A u \in Tasks : u # t => gate'[u] = gate[u]
    BY <1>r DEF TypeOK
  <2>3. started[t] <= resumes'[t]
    <3>1. started[t] <= 1 + resumes[t] /\ started[t] \in Nat
      BY DEF Counted, TypeOK
    <3> QED
      BY <1>c, <3>1
  <2>4. AtGate(t)'
    BY <2>1, <2>2, <2>3 DEF AtGate
  <2>5. \A u \in Tasks : u # t /\ AtGate(u) => AtGate(u)'
    BY <1>r, <1>c, <2>2 DEF AtGate
  <2>6. \A w \in Workers : pc[w] = "gate" => job[w] \in Tasks
    BY DEF TypeOK, Assigned
  <2> QED
    BY <1>0, <2>1, <2>2, <2>4, <2>5, <2>6, WaitingTasks DEF Placed, TypeOK
<1>5. Counted' /\ Undecided'
  <2>1. ASSUME NEW u \in Tasks PROVE started[u] <= 1 + resumes'[u]
    <3>1. started[u] <= 1 + resumes[u] /\ started[u] \in Nat /\ resumes[u] \in 0 .. 2
      BY DEF Counted, TypeOK
    <3>2. CASE u = t
      BY <1>c, <3>1, <3>2
    <3>3. CASE u # t
      BY <1>c, <3>1, <3>3
    <3> QED
      BY <3>2, <3>3
  <2> QED
    BY <2>1 DEF Counted, Undecided, Real
<1>6. Planned'
  BY <1>0, WaitingTasks DEF Planned, MayRun, TypeOK, Real
<1> QED
  BY <1>1, <1>2, <1>3, <1>4, <1>5, <1>6 DEF IInv

LEMMA ResumeFailsStep ==
    ASSUME TypeOK, Assigned, Locked, Requested, Placed, Counted, Undecided, Planned,
           ResumeFails
    PROVE  IInv'
<1> USE LifecycleAssumption DEF ResumeFails, Idle, Refused, process
<1>0. Waiting' = Waiting /\ Distinct'
  BY SameQueue DEF Assigned
<1>1. TypeOK'
  BY DEF TypeOK, Statuses, Terminal, Interrupted, PlanStates, Reservations,
      Grants, WorkerStates, Ops
<1>2. Assigned' /\ Locked'
  BY <1>0 DEF Assigned, Locked, TypeOK
<1>3. Requested'
  BY LiveStatus DEF Requested, TypeOK, Assigned, Locked, Placed, Working,
      Live, Interrupted, AtGate
<1>4. Placed'
  BY <1>0, WaitingTasks DEF Placed, AtGate, Requested, TypeOK, Assigned,
      Locked, Working, Interrupted, Written, Undone
<1>5. Counted' /\ Undecided'
  BY DEF Counted, Undecided, Requested, TypeOK, Real
<1>6. Planned'
  BY <1>0, WaitingTasks DEF Planned, MayRun, TypeOK, Real
<1> QED
  BY <1>1, <1>2, <1>3, <1>4, <1>5, <1>6 DEF IInv

LEMMA ExportSettleStep ==
    ASSUME TypeOK, Assigned, Locked, Requested, Placed, Counted, Undecided, Planned,
           NEW t \in Tasks, ExportSettle(t)
    PROVE  IInv'
<1> USE LifecycleAssumption DEF ExportSettle, Settled, process
<1>0. Waiting' = Waiting /\ Distinct'
  BY SameQueue DEF Assigned
<1>1. TypeOK'
  BY DEF TypeOK, Statuses, Terminal, Interrupted, PlanStates, Reservations,
      Grants, WorkerStates, Ops
<1>2. Assigned' /\ Locked'
  BY <1>0 DEF Assigned, Locked, TypeOK
<1>3. Requested'
  BY LiveStatus DEF Requested, TypeOK, Assigned, Locked, Placed, Working,
      Live, Interrupted, AtGate
<1>4. Placed'
  BY <1>0, WaitingTasks DEF Placed, AtGate, Requested, TypeOK, Assigned,
      Locked, Working, Interrupted, Written, Undone
<1>5. Counted' /\ Undecided'
  BY DEF Counted, Undecided, Requested, TypeOK, Real
<1>6. Planned'
  BY <1>0, WaitingTasks DEF Planned, MayRun, TypeOK, Real
<1> QED
  BY <1>1, <1>2, <1>3, <1>4, <1>5, <1>6 DEF IInv

LEMMA ExportReadyStep ==
    ASSUME TypeOK, Assigned, Locked, Requested, Placed, Counted, Undecided, Planned,
           NEW t \in Tasks, ExportReady(t)
    PROVE  IInv'
<1> USE LifecycleAssumption DEF ExportReady, ExportEnds, Announced, Idle, process
<1>0. Waiting' = Waiting /\ Distinct'
  BY SameQueue DEF Assigned
<1>1. TypeOK'
  <2>1. pc' \in [Workers -> WorkerStates] /\ lock' \in {"free", "request"} \union Workers
    BY DEF TypeOK, WorkerStates
  <2>2. events' \in [Tasks -> SUBSET ({"task_cancel_requested"} \union TerminalEvents)]
    BY DEF TypeOK, TerminalEvents
  <2>3. /\ status' \in [Tasks -> Statuses] /\ request' \in [op : Ops, task : Tasks \union {NoTask}]
        /\ exporting' \in [Tasks -> {"no", "settle", "render"}]
    BY DEF TypeOK, Statuses, Terminal, Ops
  <2> QED
    BY <2>1, <2>2, <2>3 DEF TypeOK
<1>2. Assigned' /\ Locked'
  BY <1>0 DEF Assigned, Locked, TypeOK
<1>3. Requested'
  BY LiveStatus DEF Requested, TypeOK, Assigned, Locked, Placed, Working,
      Live, Interrupted, AtGate
<1>4. Placed'
  BY <1>0, WaitingTasks DEF Placed, AtGate, Requested, TypeOK, Assigned,
      Locked, Working, Interrupted, Written, Undone
<1>5. Counted' /\ Undecided'
  BY DEF Counted, Undecided, Requested, TypeOK, Real
<1>6. Planned'
  BY <1>0, WaitingTasks DEF Planned, MayRun, TypeOK, Real
<1> QED
  BY <1>1, <1>2, <1>3, <1>4, <1>5, <1>6 DEF IInv

LEMMA ExportFailsStep ==
    ASSUME TypeOK, Assigned, Locked, Requested, Placed, Counted, Undecided, Planned,
           NEW t \in Tasks, ExportFails(t)
    PROVE  IInv'
<1> USE LifecycleAssumption DEF ExportFails, ExportEnds, Announced, Downgraded, Idle, process
<1>0. Waiting' = Waiting /\ Distinct'
  BY SameQueue DEF Assigned
<1>1. TypeOK'
  <2>1. pc' \in [Workers -> WorkerStates] /\ lock' \in {"free", "request"} \union Workers
    BY DEF TypeOK, WorkerStates
  <2>2. events' \in [Tasks -> SUBSET ({"task_cancel_requested"} \union TerminalEvents)]
    BY DEF TypeOK, TerminalEvents
  <2>3. /\ status' \in [Tasks -> Statuses] /\ request' \in [op : Ops, task : Tasks \union {NoTask}]
        /\ exporting' \in [Tasks -> {"no", "settle", "render"}]
    BY DEF TypeOK, Statuses, Terminal, Ops
  <2> QED
    BY <2>1, <2>2, <2>3 DEF TypeOK
<1>2. Assigned' /\ Locked'
  BY <1>0 DEF Assigned, Locked, TypeOK
<1>3. Requested'
  BY LiveStatus DEF Requested, TypeOK, Assigned, Locked, Placed, Working,
      Live, Interrupted, AtGate
<1>4. Placed'
  BY <1>0, WaitingTasks DEF Placed, AtGate, Requested, TypeOK, Assigned,
      Locked, Working, Interrupted, Written, Undone
<1>5. Counted' /\ Undecided'
  BY DEF Counted, Undecided, Requested, TypeOK, Real
<1>6. Planned'
  BY <1>0, WaitingTasks DEF Planned, MayRun, TypeOK, Real
<1> QED
  BY <1>1, <1>2, <1>3, <1>4, <1>5, <1>6 DEF IInv

LEMMA ExportRaisesStep ==
    ASSUME TypeOK, Assigned, Locked, Requested, Placed, Counted, Undecided, Planned,
           NEW t \in Tasks, ExportRaises(t)
    PROVE  IInv'
<1> USE LifecycleAssumption DEF ExportRaises, ExportEnds, Announced, Downgraded, Idle, process
<1>0. Waiting' = Waiting /\ Distinct'
  BY SameQueue DEF Assigned
<1>1. TypeOK'
  <2>1. pc' \in [Workers -> WorkerStates] /\ lock' \in {"free", "request"} \union Workers
    BY DEF TypeOK, WorkerStates
  <2>e. events' \in {events, [events EXCEPT ![t] = @ \union {"task_terminal_no_exports"}]}
    OBVIOUS
  <2>2. events' \in [Tasks -> SUBSET ({"task_cancel_requested"} \union TerminalEvents)]
    <3> HIDE DEF ExportRaises
    <3>1. /\ events \in [Tasks -> SUBSET ({"task_cancel_requested"} \union TerminalEvents)]
          /\ events[t] \union {"task_terminal_no_exports"}
                \in SUBSET ({"task_cancel_requested"} \union TerminalEvents)
      BY DEF TypeOK, TerminalEvents
    <3> QED
      BY <2>e, <3>1, Updated
  <2>3. /\ status' \in [Tasks -> Statuses] /\ request' \in [op : Ops, task : Tasks \union {NoTask}]
        /\ exporting' \in [Tasks -> {"no", "settle", "render"}]
    BY DEF TypeOK, Statuses, Terminal, Ops
  <2> QED
    BY <2>1, <2>2, <2>3 DEF TypeOK
<1>2. Assigned' /\ Locked'
  BY <1>0 DEF Assigned, Locked, TypeOK
<1>3. Requested'
  BY LiveStatus DEF Requested, TypeOK, Assigned, Locked, Placed, Working,
      Live, Interrupted, AtGate
<1>4. Placed'
  <2>d. status' \in {status, Downgraded(t)}
    OBVIOUS
  <2>1. \A u \in Tasks : \/ status'[u] = status[u]
                         \/ status[u] = "completed" /\ status'[u] = "degraded"
    <3> HIDE DEF ExportRaises
    <3> TAKE u \in Tasks
    <3>1. CASE status' = status
      BY <3>1
    <3>2. CASE status' = Downgraded(t) /\ status[t] = "completed"
      <4>1. status' = [status EXCEPT ![t] = "degraded"]
        BY <3>2
      <4> QED
        BY <3>2, <4>1 DEF TypeOK
    <3> QED
      BY <2>d, <3>1, <3>2
  <2>2. \A u \in Workers : \/ pc'[u] = pc[u]
                           \/ pc[u] = "export" /\ pc'[u] = "failing"
                           \/ pc[u] = "closing" /\ pc'[u] = "leaving"
    <3> DEFINE holders == {w \in Workers : pc[w] \in {"export", "closing"} /\ job[w] = t}
    <3>1. pc' = [w \in Workers |-> IF w \notin holders THEN pc[w]
                                   ELSE IF pc[w] = "export" THEN "failing" ELSE "leaving"]
      OBVIOUS
    <3> HIDE DEF ExportRaises
    <3> QED
      BY <3>1
  <2>3. request'.op \in {"approve", "resume"} <=> request.op \in {"approve", "resume"}
    BY DEF TypeOK
  <2>4. \A u \in Tasks : AtGate(u) => AtGate(u)'
    BY <2>1 DEF AtGate
  <2>5. \A u \in Workers : pc[u] # "idle" => job[u] \in Tasks
    BY Held
  <2> QED
    BY <1>0, <2>1, <2>2, <2>4, <2>5, WaitingTasks
       DEF Placed, TypeOK, Working, Interrupted, Written, Undone
<1>5. Counted' /\ Undecided'
  BY DEF Counted, Undecided, Requested, TypeOK, Real
<1>6. Planned'
  BY <1>0, WaitingTasks DEF Planned, MayRun, TypeOK, Real
<1> QED
  BY <1>1, <1>2, <1>3, <1>4, <1>5, <1>6 DEF IInv

LEMMA CloseStep ==
    ASSUME TypeOK, Assigned, Locked, Requested, Placed, Counted, Undecided, Planned,
           Close
    PROVE  IInv'
<1> USE LifecycleAssumption DEF Close, durable, volatile, process
<1>0. Waiting' = Waiting /\ Distinct'
  BY SameQueue DEF Assigned
<1>1. TypeOK'
  BY DEF TypeOK, Statuses, Terminal, Interrupted, PlanStates, Reservations,
      Grants, WorkerStates, Ops
<1>2. Assigned' /\ Locked'
  BY <1>0 DEF Assigned, Locked, TypeOK
<1>3. Requested'
  BY LiveStatus DEF Requested, TypeOK, Assigned, Locked, Placed, Working,
      Live, Interrupted, AtGate
<1>4. Placed'
  BY <1>0, WaitingTasks DEF Placed, AtGate, Requested, TypeOK, Assigned,
      Locked, Working, Interrupted, Written, Undone
<1>5. Counted' /\ Undecided'
  BY DEF Counted, Undecided, Requested, TypeOK, Real
<1>6. Planned'
  BY <1>0, WaitingTasks DEF Planned, MayRun, TypeOK, Real
<1> QED
  BY <1>1, <1>2, <1>3, <1>4, <1>5, <1>6 DEF IInv

LEMMA CloseDeadlineStep ==
    ASSUME TypeOK, Assigned, Locked, Requested, Placed, Counted, Undecided, Planned,
           CloseDeadline
    PROVE  IInv'
<1> USE LifecycleAssumption DEF CloseDeadline, durable, process
<1>0. Waiting' = Waiting /\ Distinct'
  BY SameQueue DEF Assigned
<1>1. TypeOK'
  <2>1. Live \subseteq Tasks
    BY WaitingTasks DEF Live, TypeOK
  <2> QED
    BY <2>1 DEF TypeOK
<1>2. Assigned' /\ Locked'
  BY <1>0 DEF Assigned, Locked, TypeOK
<1>3. Requested'
  BY LiveStatus DEF Requested, TypeOK, Assigned, Locked, Placed, Working,
      Live, Interrupted, AtGate
<1>4. Placed'
  BY <1>0, WaitingTasks DEF Placed, AtGate, Requested, TypeOK, Assigned,
      Locked, Working, Interrupted, Written, Undone
<1>5. Counted' /\ Undecided'
  BY DEF Counted, Undecided, Requested, TypeOK, Real
<1>6. Planned'
  BY <1>0, WaitingTasks DEF Planned, MayRun, TypeOK, Real
<1> QED
  BY <1>1, <1>2, <1>3, <1>4, <1>5, <1>6 DEF IInv

-----------------------------------------------------------------------------
(* The process is lost.                                                     *)

LEMMA RestartStep == ASSUME TypeOK, Assigned, Locked, Requested, Placed, Counted, Undecided, Planned, Restart
                     PROVE  IInv'
<1> USE LifecycleAssumption DEF Restart
<1>0. Waiting' = {} /\ Distinct'
  BY NoQueue DEF Waiting, Distinct
<1>1. TypeOK'
  <2>1. /\ status' \in [Tasks -> Statuses] /\ reservation' \in [Tasks -> Reservations]
        /\ request' \in [op : Ops, task : Tasks \union {NoTask}]
        /\ pc' \in [Workers -> WorkerStates] /\ job' \in [Workers -> Tasks \union {NoTask}]
    BY DEF TypeOK, Statuses, Reservations, Settled, Idle, Ops, WorkerStates
  <2> QED
    BY <2>1 DEF TypeOK
<1>2. Assigned' /\ Locked'
  BY <1>0 DEF Assigned, Locked, Idle
<1>3. Requested'
  BY DEF Requested, Idle
<1>4. Placed'
  BY <1>0 DEF Placed, Working, Written, TypeOK
<1>5. Counted' /\ Undecided'
  BY DEF Counted, Undecided, Settled, Real, Interrupted, TypeOK
<1>6. Planned'
  BY <1>0 DEF Planned, MayRun, Real
<1> QED
  BY <1>1, <1>2, <1>3, <1>4, <1>5, <1>6 DEF IInv

-----------------------------------------------------------------------------
(* The inductive invariant.                                                 *)

LEMMA InitIInv == Init => IInv
<1> SUFFICES ASSUME Init PROVE IInv
  OBVIOUS
<1> USE LifecycleAssumption DEF Init
<1>0. Waiting = {} /\ Distinct
  BY NoQueue
<1>1. TypeOK
  <2>1. setting \in Settings /\ queue \in Seq(Tasks) /\ Len(queue) = 0
    OBVIOUS
  <2> QED
    BY <2>1 DEF TypeOK, Statuses, PlanStates, Reservations, Grants,
        WorkerStates, Ops, Idle
<1>2. Assigned /\ Locked
  BY <1>0 DEF Assigned, Locked, Idle
<1>3. Requested /\ Placed
  BY <1>0 DEF Requested, Placed, Idle, Working, Written
<1>4. Counted /\ Undecided /\ Planned
  BY <1>0 DEF Counted, Undecided, Planned, MayRun, Real
<1> QED
  BY <1>1, <1>2, <1>3, <1>4 DEF IInv

LEMMA NextIInv == IInv /\ [Next]_vars => IInv'
<1> SUFFICES ASSUME IInv, [Next]_vars PROVE IInv'
  OBVIOUS
<1> USE DEF IInv
<1>1. CASE \E t \in Tasks : Requests(t)
  BY <1>1, CreateTaskStep, AuthorizePlanningStep, GeneratePlanStep,
      ApproveCommitStep, ApproveRolledBackStep, ModifyPlanStep,
      RejectPlanStep, CancelRevokeStep, ResumeCommitStep, RetryExportsStep
      DEF Requests
<1>2. CASE \E t \in Tasks : Exports(t)
  BY <1>2, ExportSettleStep, ExportReadyStep, ExportFailsStep, ExportRaisesStep DEF Exports
<1>3. CASE RequestContinues
  BY <1>3, ApproveAdmitStep, ApproveFailsStep, CancelDirectStep,
      CancelSignalStep, CancelWriteStep, ResumeAdmitStep, ResumeFailsStep
      DEF RequestContinues
<1>4. CASE \E w \in Workers : Executes(w)
  BY <1>4, TakeStep, PassGateStep, LeaveStep, WorkerSteps DEF Executes
<1>5. CASE Close \/ CloseDeadline \/ Restart
  BY <1>5, CloseStep, CloseDeadlineStep, RestartStep
<1>6. CASE UNCHANGED vars
  <2>1. Waiting' = Waiting /\ (\A t : AtGate(t)' <=> AtGate(t)) /\ (\A t : MayRun(t)' <=> MayRun(t))
    BY <1>6 DEF vars, durable, volatile, process, Waiting, AtGate, MayRun, Real
  <2>2. TypeOK' /\ Assigned' /\ Locked'
    BY <1>6, <2>1 DEF vars, durable, volatile, process, TypeOK, Assigned,
        Distinct, Locked
  <2>3. Requested' /\ Placed'
    BY <1>6, <2>1 DEF vars, durable, volatile, process, Requested, Placed
  <2>4. Counted' /\ Undecided' /\ Planned'
    BY <1>6, <2>1 DEF vars, durable, volatile, process, Counted,
        Undecided, Planned, Real
  <2> QED
    BY <2>2, <2>3, <2>4
<1> QED
  BY <1>1, <1>2, <1>3, <1>4, <1>5, <1>6 DEF Next

LEMMA Invariance == Spec => []IInv
  BY InitIInv, NextIInv, PTL DEF Spec

-----------------------------------------------------------------------------
(* The variables keep their types; the queue stays within its capacity.     *)
THEOREM TypeCorrect == Spec => []TypeOK
  BY Invariance, PTL DEF IInv

(* No worker passes its gate without an approved plan, or a demo task       *)
(* without any: through resumes, failures of the stores and restarts.       *)
THEOREM PlansAreApproved == Spec => []OnlyApprovedPlansRun
<1>1. IInv => OnlyApprovedPlansRun
  BY DEF IInv, OnlyApprovedPlansRun, Assigned, Planned, MayRun
<1> QED
  BY <1>1, Invariance, PTL

(* A task that waits for its decision holds nothing that would refuse it,   *)
(* whatever approvals were refused before.                                  *)
THEOREM ApprovalIsOpen == Spec => []WaitingTaskIsApprovable
<1>1. IInv => WaitingTaskIsApprovable
  BY LiveStatus DEF IInv, WaitingTaskIsApprovable, Undecided
<1> QED
  BY <1>1, Invariance, PTL

(* A rejected task was never executed and is not in the executor.           *)
THEOREM RejectionIsInert == Spec => []RejectedIsInert
<1>1. IInv => RejectedIsInert
  BY LiveStatus DEF IInv, RejectedIsInert, Counted
<1> QED
  BY <1>1, Invariance, PTL

(* Executions are at most one per approval and accepted resume, and resumes *)
(* at most two, for any number of restarts.                                 *)
THEOREM ExecutionsAreBounded == Spec => []RecoveryIsBounded
<1>1. IInv => RecoveryIsBounded
  <2> SUFFICES ASSUME IInv, NEW t \in Tasks
               PROVE  resumes[t] <= 2 /\ started[t] <= 1 + resumes[t]
    BY DEF RecoveryIsBounded
  <2>1. resumes[t] \in 0 .. 2
    BY DEF IInv, TypeOK
  <2> QED
    BY <2>1 DEF IInv, Counted
<1> QED
  BY <1>1, Invariance, PTL

-----------------------------------------------------------------------------
(* What no step does.                                                       *)

(* Only a request that knows the task undecided, interrupted or under way,  *)
(* or the worker that executes it, writes its status; the exports downgrade *)
(* a success.                                                               *)
Stands(t) ==
    /\ status[t] \in {"cancelled", "rejected"} => status'[t] = status[t]
    /\ status[t] = "completed" =>
          \/ status'[t] \in {"completed", "degraded"}
          \/ t \in Live /\ status'[t] = "failed"
    /\ status[t] \in {"degraded", "failed"} /\ t \notin Live /\ request.task # t =>
          status'[t] = status[t]

LEMMA FinalStep == ASSUME IInv, [Next]_vars, NEW t \in Tasks PROVE Stands(t)
<1> USE DEF IInv
<1>1. CASE \E u \in Tasks : Requests(u)
  <2> SUFFICES ASSUME NEW u \in Tasks, Requests(u)
               PROVE  status'[t] = status[t] \/ status[t] \notin Terminal
    BY <1>1 DEF Stands, Terminal
  <2> USE DEF Terminal
  <2>1. CASE CreateTask(u) \/ AuthorizePlanning(u) \/ GeneratePlan(u)
    BY <2>1 DEF CreateTask, AuthorizePlanning, GeneratePlan, TypeOK
  <2>2. CASE ApproveCommit(u) \/ ApproveRolledBack(u) \/ ModifyPlan(u) \/ RejectPlan(u)
    BY <2>2 DEF ApproveCommit, ApproveRolledBack, ModifyPlan, RejectPlan,
        Reviewable, TypeOK
  <2>3. CASE CancelRevoke(u) \/ ResumeCommit(u) \/ RetryExports(u)
    BY <2>3 DEF CancelRevoke, ResumeCommit, RetryExports, durable, TypeOK
  <2> QED
    BY <2>1, <2>2, <2>3 DEF Requests
<1>2. CASE \E u \in Tasks : Exports(u)
  <2>1. status' \in {status} \union {Downgraded(u) : u \in Tasks}
    BY <1>2 DEF Exports, ExportSettle, ExportReady, ExportFails, ExportRaises
  <2>2. \A u \in Tasks : \/ Downgraded(u) = status
                         \/ status[u] = "completed" /\ Downgraded(u) = [status EXCEPT ![u] = "degraded"]
    BY DEF Downgraded
  <2> QED
    BY <2>1, <2>2 DEF Stands, TypeOK
<1>3. CASE RequestContinues
  <2>1. CASE ApproveAdmit \/ CancelSignal \/ ResumeAdmit
    BY <2>1 DEF ApproveAdmit, CancelSignal, ResumeAdmit, durable, Stands
  <2>2. CASE ApproveFails \/ ResumeFails
    BY <2>2 DEF ApproveFails, ResumeFails, Requested, TypeOK, Stands
  <2>3. CASE CancelDirect \/ CancelWrite
    BY <2>3 DEF CancelDirect, CancelWrite, Requested, Interrupted, TypeOK, Stands
  <2> QED
    BY <1>3, <2>1, <2>2, <2>3 DEF RequestContinues
<1>4. CASE \E w \in Workers : Executes(w)
  <2> PICK w \in Workers : Executes(w)
    BY <1>4
  <2>1. /\ pc[w] \in Working \ {"failing"} => status[job[w]] \in Interrupted
        /\ pc[w] = "failing" => status[job[w]] # "rejected"
        /\ pc[w] # "idle" => job[w] \in Live
    BY LifecycleAssumption DEF Placed, Written, Undone, Live, Assigned, TypeOK
  <2> USE DEF Moves, Writes, WritesAndExports, WritesUnaudited, Working, Interrupted
  <2>2. CASE Take(w) \/ PassGate(w) \/ CheckUsage(w) \/ PreflightRefuses(w) \/ Leave(w)
    BY <2>2 DEF Take, PassGate, CheckUsage, PreflightRefuses, Leave, durable, Stands
  <2>3. CASE DemoPhase(w) \/ DemoFinish(w)
    BY <2>1, <2>3 DEF DemoPhase, DemoFinish, durable, TypeOK, Stands
  <2>4. CASE ResearchRefused(w) \/ ResearchBegin(w) \/ PlanRefused(w)
    BY <2>1, <2>4 DEF ResearchRefused, ResearchBegin, PlanRefused, durable, TypeOK, Stands
  <2>5. CASE ResearchStops(w) \/ PublishResult(w) \/ Conclude(w)
    BY <2>1, <2>5 DEF ResearchStops, PublishResult, Conclude, durable, TypeOK, Stands
  <2>6. CASE FinishCancelled(w) \/ FinishUncertain(w) \/ FinishUnavailable(w)
    BY <2>1, <2>6 DEF FinishCancelled, FinishUncertain, FinishUnavailable, durable,
        TypeOK, Stands
  <2>7. CASE FinishFailed(w)
    BY <2>1, <2>7 DEF FinishFailed, durable, TypeOK, Stands
  <2> QED
    BY <2>2, <2>3, <2>4, <2>5, <2>6, <2>7 DEF Executes
<1>5. CASE Close \/ CloseDeadline \/ Restart
  <2>1. CASE Close \/ CloseDeadline
    BY <2>1 DEF Close, CloseDeadline, durable, Stands
  <2>2. CASE Restart
    <3>1. status[t] \in Terminal => status'[t] = status[t]
      BY <2>2 DEF Restart, Interrupted, Terminal
    <3> QED
      BY <3>1 DEF Stands, Terminal
  <2> QED
    BY <1>5, <2>1, <2>2
<1>6. CASE UNCHANGED vars
  BY <1>6 DEF vars, durable, Stands
<1> QED
  BY <1>1, <1>2, <1>3, <1>4, <1>5, <1>6 DEF Next

(* Cancelled and rejected are final.  A success is taken back only by the   *)
(* worker that still has the task, when an error follows the commit, or     *)
(* downgraded when its exports fail; an outcome whose task left the         *)
(* executor stands.  Neither a late cancellation nor a restart overwrites   *)
(* any of them.                                                             *)
THEOREM OutcomesAreFinal == Spec => DecidedStatusIsFinal
<1>1. IInv /\ [Next]_vars =>
        [\A t \in Tasks :
            /\ status[t] \in {"cancelled", "rejected"} => status'[t] = status[t]
            /\ status[t] = "completed" =>
                  \/ status'[t] \in {"completed", "degraded"}
                  \/ t \in Live /\ status'[t] = "failed"
            /\ status[t] \in {"degraded", "failed"} /\ t \notin Live /\ request.task # t =>
                  status'[t] = status[t]]_vars
  BY FinalStep DEF Stands
<1> QED
  BY <1>1, Invariance, PTL DEF Spec, DecidedStatusIsFinal

LEMMA ExposureStep ==
    ASSUME TypeOK, [Next]_vars, NEW t \in setting.real, reservation[t] # "none"
    PROVE  reservation'[t] \in {reservation[t], "reconciliation_required"}
<1>0. t \in Tasks
  BY LifecycleAssumption DEF TypeOK
<1> USE <1>0
<1>1. CASE \E u \in Tasks : Requests(u)
  <2> SUFFICES ASSUME NEW u \in Tasks, Requests(u)
               PROVE  reservation'[t] = reservation[t]
    BY <1>1
  <2>1. CASE CreateTask(u) \/ AuthorizePlanning(u) \/ GeneratePlan(u)
    BY <2>1 DEF CreateTask, AuthorizePlanning, GeneratePlan, TypeOK
  <2>2. CASE ApproveCommit(u)
    BY <2>2 DEF ApproveCommit, Fundable, Real, TypeOK
  <2>3. CASE ApproveRolledBack(u) \/ ModifyPlan(u) \/ RejectPlan(u)
    BY <2>3 DEF ApproveRolledBack, RolledBack, ModifyPlan, RejectPlan
  <2>4. CASE CancelRevoke(u) \/ ResumeCommit(u) \/ RetryExports(u)
    BY <2>4 DEF CancelRevoke, ResumeCommit, RetryExports, durable
  <2> QED
    BY <2>1, <2>2, <2>3, <2>4 DEF Requests
<1>2. CASE \E u \in Tasks : Exports(u)
  BY <1>2 DEF Exports, ExportSettle, Settled, Real, ExportReady, ExportFails, ExportRaises, TypeOK
<1>3. CASE RequestContinues
  <2>1. CASE ApproveFails
    BY <2>1 DEF ApproveFails, TypeOK
  <2>2. CASE ~ApproveFails
    BY <1>3, <2>2 DEF RequestContinues, ApproveAdmit, CancelDirect, CancelSignal,
                      CancelWrite, ResumeAdmit, ResumeFails, durable
  <2> QED
    BY <2>1, <2>2
<1>4. CASE \E w \in Workers : Executes(w)
  <2> SUFFICES ASSUME NEW w \in Workers, Executes(w)
               PROVE  reservation'[t] = reservation[t]
    BY <1>4
  <2> USE DEF Moves, Writes, WritesAndExports, WritesUnaudited, durable
  <2>1. CASE Take(w) \/ PassGate(w) \/ CheckUsage(w) \/ PreflightRefuses(w) \/ Leave(w)
    BY <2>1 DEF Take, PassGate, CheckUsage, PreflightRefuses, Leave
  <2>2. CASE DemoPhase(w) \/ DemoFinish(w) \/ ResearchRefused(w) \/ ResearchBegin(w) \/ PlanRefused(w)
    BY <2>2 DEF DemoPhase, DemoFinish, ResearchRefused, ResearchBegin, PlanRefused
  <2>3. CASE ResearchStops(w) \/ PublishResult(w) \/ Conclude(w)
    BY <2>3 DEF ResearchStops, PublishResult, Conclude
  <2>4. CASE FinishCancelled(w) \/ FinishUncertain(w) \/ FinishUnavailable(w) \/ FinishFailed(w)
    BY <2>4 DEF FinishCancelled, FinishUncertain, FinishUnavailable, FinishFailed
  <2> QED
    BY <2>1, <2>2, <2>3, <2>4 DEF Executes
<1>5. CASE Close \/ CloseDeadline \/ Restart
  BY <1>5 DEF Close, CloseDeadline, Restart, Settled, Real, durable, TypeOK
<1>6. CASE UNCHANGED vars
  BY <1>6 DEF vars, durable
<1> QED
  BY <1>1, <1>2, <1>3, <1>4, <1>5, <1>6 DEF Next

(* The exposure of a real task, once reserved, is kept or handed over to    *)
(* reconciliation; no step frees it.                                        *)
THEOREM RealExposureIsKept == Spec => ExposureIsKept
<1>1. TypeOK /\ [Next]_vars =>
        [\A t \in setting.real : reservation[t] # "none" =>
            reservation'[t] \in {reservation[t], "reconciliation_required"}]_vars
  BY ExposureStep
<1> QED
  BY <1>1, TypeCorrect, PTL DEF Spec, ExposureIsKept

-----------------------------------------------------------------------------
(* Cancellation and publication.  The cancel event of a live task tells     *)
(* what its status, its events and its grant say; what is published was not *)
(* told to stop.                                                            *)

Told ==
    /\ \A t \in Tasks : status[t] = "cancelling" /\ t \in Live => t \in cancelSet
    /\ request.op = "cancel_write" /\ request.task \in Live => request.task \in cancelSet

(* A recorded cancellation of a real task has revoked its authorizations.   *)
Withdrawn ==
    /\ \A t \in Tasks : Real(t) /\ "task_cancel_requested" \in events[t] =>
          grant[t] = "revoked" /\ (t \in Live => t \in cancelSet)
    /\ \A t \in Tasks : Real(t) /\ status[t] \in Interrupted => grant[t] # "none"
    /\ request.op \in {"cancel_signal", "cancel_write"} /\ Real(request.task) =>
          grant[request.task] = "revoked"
    /\ request.op = "approve" /\ Real(request.task) => grant[request.task] = "prepared"

Concluded ==
    \A w \in Workers : pc[w] = "conclude" => status[job[w]] # "cancelling" /\ result[job[w]]

CInv == Told /\ Withdrawn /\ Concluded /\ CompletedHasResult

LEMMA LiveTypes == ASSUME TypeOK PROVE Live \subseteq Tasks
  BY WaitingTasks DEF Live, TypeOK

LEMMA SameLive == ASSUME queue' = queue, job' = job PROVE Live' = Live
  BY DEF Live, Waiting

LEMMA LiveTakes ==
    ASSUME TypeOK, Assigned, NEW w \in Workers, Take(w)
    PROVE  Live' = Live
<1>1. Waiting' = Waiting \ {Head(queue)} /\ Head(queue) \in Waiting /\ Head(queue) \in Tasks
  BY Leaving DEF TypeOK, Assigned, Take
<1>2. job[w] = NoTask /\ job'[w] = Head(queue) /\ \A u \in Workers : u # w => job'[u] = job[u]
  BY DEF TypeOK, Assigned, Take
<1>3. {job'[u] : u \in Workers} \ {NoTask}
        = ({job[u] : u \in Workers} \ {NoTask}) \union {Head(queue)}
  BY <1>1, <1>2, LifecycleAssumption
<1> QED
  BY <1>1, <1>3 DEF Live

LEMMA LiveLeaves ==
    ASSUME TypeOK, Assigned, NEW w \in Workers, Leave(w)
    PROVE  Live' \subseteq Live /\ job[w] \notin Live'
<1>1. Waiting' = Waiting /\ job[w] \in Tasks /\ job[w] \notin Waiting
  BY SameQueue, Held DEF Leave
<1>2. job'[w] = NoTask /\ \A u \in Workers : u # w => job'[u] = job[u] /\ job[u] # job[w]
  BY Held DEF TypeOK, Leave
<1> QED
  BY <1>1, <1>2, LifecycleAssumption DEF Live

LEMMA LiveJoins ==
    ASSUME TypeOK, Assigned, NEW t \in Tasks, ApproveCommit(t) \/ ResumeCommit(t)
    PROVE  t \notin Live /\ Live' = Live \union {t}
<1>1. t \notin Live /\ queue' = Append(queue, t) /\ job' = job
  BY DEF ApproveCommit, ResumeCommit, Acceptable
<1>2. Waiting' = Waiting \union {t}
  BY <1>1, Joining DEF TypeOK, Assigned, Live
<1> QED
  BY <1>1, <1>2, LifecycleAssumption DEF Live

(* The requests.                                                            *)
LEMMA CancelRequests ==
    ASSUME IInv, CInv, NEW t \in Tasks, Requests(t)
    PROVE  CInv'
<1> USE LifecycleAssumption DEF IInv, CInv, process
<1>c. \A w \in Workers : pc[w] = "conclude" => job[w] \in Tasks
  BY DEF TypeOK, Assigned
<1>1. CASE CreateTask(t) \/ AuthorizePlanning(t) \/ GeneratePlan(t)
  <2>1. Live' = Live
    BY <1>1, SameLive DEF CreateTask, AuthorizePlanning, GeneratePlan, volatile
  <2>s. \A u \in Tasks : status'[u] = status[u] \/ status'[u] = "waiting_approval"
    BY <1>1 DEF CreateTask, AuthorizePlanning, GeneratePlan, TypeOK
  <2>2. Told' /\ Concluded' /\ CompletedHasResult'
    BY <1>1, <1>c, <2>1, <2>s DEF CreateTask, AuthorizePlanning,
        GeneratePlan, volatile, Told,
                      Concluded, CompletedHasResult, Research, Real
  <2>3. Withdrawn'
    BY <1>1, <2>1 DEF CreateTask, AuthorizePlanning, GeneratePlan,
        volatile, Withdrawn,
                      Interrupted, Real, TypeOK, Locked
  <2> QED
    BY <2>2, <2>3
<1>2. CASE ApproveCommit(t)
  <2>1. t \notin Live /\ Live' = Live \union {t}
    BY <1>2, LiveJoins
  <2>2. status'[t] = "queued" /\ \A u \in Tasks : u # t => status'[u] = status[u]
    BY <1>2 DEF ApproveCommit, TypeOK
  <2>3. \A w \in Workers : job[w] # t
    BY <2>1 DEF Live
  <2>4. Told' /\ Concluded' /\ CompletedHasResult'
    BY <1>2, <2>1, <2>2, <2>3 DEF ApproveCommit, Told, Concluded,
        CompletedHasResult, Research, Real,
                                  TypeOK, Locked
  <2>5. Real(t) => grant[t] \in {"planning", "prepared"} /\ grant'[t] = "prepared"
    BY <1>2 DEF ApproveCommit, Fundable, Prepared, TypeOK
  <2>6. \A u \in Tasks : u # t => grant'[u] = grant[u]
    BY <1>2 DEF ApproveCommit, Prepared, TypeOK
  <2>7. Withdrawn'
    BY <1>2, <2>1, <2>2, <2>5, <2>6 DEF ApproveCommit, Withdrawn, Real
  <2> QED
    BY <2>4, <2>7
<1>3. CASE ApproveRolledBack(t) \/ ModifyPlan(t)
  <2>1. Live' = Live
    BY <1>3, SameLive DEF ApproveRolledBack, ModifyPlan, volatile
  <2>2. Told' /\ Concluded' /\ CompletedHasResult'
    BY <1>3, <2>1 DEF ApproveRolledBack, ModifyPlan, volatile, Told, Concluded,
                      CompletedHasResult, Research, Real
  <2>3. /\ Real(t) => (grant'[t] = grant[t] \/ (grant[t] \in {"planning", "prepared"} /\ grant'[t] # "none"))
        /\ ~Real(t) => grant'[t] = grant[t] \/ grant'[t] # "none"
        /\ \A u \in Tasks : u # t => grant'[u] = grant[u]
    BY <1>3 DEF ApproveRolledBack, ModifyPlan, Fundable, Prepared, TypeOK
  <2>4. request.op = "idle"
    BY <1>3 DEF ApproveRolledBack, ModifyPlan, Reviewable, Locked
  <2>5. Withdrawn'
    BY <1>3, <2>1, <2>3, <2>4 DEF ApproveRolledBack, ModifyPlan, volatile,
        Withdrawn, Real
  <2> QED
    BY <2>2, <2>5
<1>4. CASE RejectPlan(t) \/ CancelRevoke(t)
  <2>1. Live' = Live
    BY <1>4, SameLive DEF RejectPlan, CancelRevoke
  <2>2. request.op = "idle" /\ (RejectPlan(t) => status[t] = "waiting_approval")
    BY <1>4 DEF RejectPlan, CancelRevoke, Reviewable, Locked
  <2>s. \A u \in Tasks : status'[u] = status[u] \/ status'[u] = "rejected"
    BY <1>4 DEF RejectPlan, CancelRevoke, TypeOK
  <2>r. request'.op # "cancel_write"
    BY <1>4, <2>2 DEF RejectPlan, CancelRevoke
  <2>u. UNCHANGED <<result, job, pc, cancelSet, setting>>
    BY <1>4 DEF RejectPlan, CancelRevoke
  <2>3. Told' /\ Concluded' /\ CompletedHasResult'
    BY <1>c, <2>1, <2>s, <2>r, <2>u DEF Told, Concluded,
        CompletedHasResult, Research, Real
  <2>4. /\ grant[t] = "none" => grant' = grant
        /\ grant[t] # "none" => grant'[t] = "revoked"
        /\ \A u \in Tasks : u # t => grant'[u] = grant[u]
    BY <1>4 DEF RejectPlan, CancelRevoke, Revoked, TypeOK
  <2>5. CASE RejectPlan(t)
    BY <2>1, <2>2, <2>3, <2>4, <2>5 DEF RejectPlan, Withdrawn, Real,
        Interrupted, TypeOK
  <2>6. CASE CancelRevoke(t)
    <3>1. request'.op = "cancel_signal" => status[t] \in Interrupted
      BY <2>6 DEF CancelRevoke, Cancellable, Statuses, TypeOK
    <3>2. request'.task = t /\ request'.op \in {"cancel_signal", "cancel_direct"}
      BY <2>6 DEF CancelRevoke
    <3> QED
      BY <2>1, <2>3, <2>4, <2>6, <3>1, <3>2 DEF CancelRevoke, Withdrawn, Real
  <2> QED
    BY <1>4, <2>5, <2>6
<1>5. CASE ResumeCommit(t)
  <2>1. t \notin Live /\ Live' = Live \union {t}
    BY <1>5, LiveJoins
  <2>2. status'[t] = "queued" /\ \A u \in Tasks : u # t => status'[u] = status[u]
    BY <1>5 DEF ResumeCommit, TypeOK
  <2>3. \A w \in Workers : job[w] # t
    BY <2>1 DEF Live
  <2>4. Told' /\ Concluded' /\ CompletedHasResult'
    BY <1>5, <2>1, <2>2, <2>3 DEF ResumeCommit, Told, Concluded,
        CompletedHasResult, Research, Real,
                                  TypeOK, Locked
  <2>5. Real(t) => grant[t] = "execution"
    BY <1>5 DEF ResumeCommit
  <2>6. Withdrawn'
    BY <1>5, <2>1, <2>2, <2>5 DEF ResumeCommit, Withdrawn, Real
  <2> QED
    BY <2>4, <2>6
<1>6. CASE RetryExports(t)
  <2>1. Live' = Live
    BY <1>6, SameLive DEF RetryExports
  <2> QED
    BY <1>6, <2>1 DEF RetryExports, durable, Told, Withdrawn, Concluded,
        CompletedHasResult,
                      Research, Real
<1> QED
  BY <1>1, <1>2, <1>3, <1>4, <1>5, <1>6 DEF Requests

LEMMA CancelContinues ==
    ASSUME IInv, CInv, RequestContinues
    PROVE  CInv'
<1> USE DEF IInv, CInv, process
<1>0. Live' = Live
  BY SameLive DEF RequestContinues, ApproveAdmit, ApproveFails,
      CancelDirect, CancelSignal,
                  CancelWrite, ResumeAdmit, ResumeFails
<1>r. PICK t \in Tasks : t = request.task
  BY DEF Locked, RequestContinues, ApproveAdmit, ApproveFails, CancelDirect,
      CancelSignal,
         CancelWrite, ResumeAdmit, ResumeFails
<1>c. \A w \in Workers : pc[w] = "conclude" => job[w] \in Tasks
  BY DEF TypeOK, Assigned
<1>1. CASE ApproveAdmit
  <2>1. /\ ~Real(t) => grant' = grant
        /\ Real(t) => grant[t] = "prepared" /\ grant'[t] = "execution"
        /\ \A u \in Tasks : u # t => grant'[u] = grant[u]
    BY <1>1, <1>r DEF ApproveAdmit, Withdrawn, TypeOK
  <2>2. Told' /\ Concluded' /\ CompletedHasResult'
    BY <1>0, <1>1 DEF ApproveAdmit, Told, Concluded, CompletedHasResult,
        Research, Real, Idle
  <2>3. Withdrawn'
    BY <1>0, <1>1, <2>1 DEF ApproveAdmit, Withdrawn, Real, Idle
  <2> QED
    BY <2>2, <2>3
<1>2. CASE ApproveFails \/ ResumeFails
  <2>1. status'[t] = "interrupted" /\ \A u \in Tasks : u # t => status'[u] = status[u]
    BY <1>2, <1>r DEF ApproveFails, ResumeFails, TypeOK
  <2>2. Told' /\ Concluded' /\ CompletedHasResult'
    BY <1>0, <1>2, <1>c, <2>1 DEF ApproveFails, ResumeFails, Told, Concluded,
                                  CompletedHasResult, Research, Real, Idle
  <2>3. Withdrawn'
    BY <1>0, <1>2, <2>1 DEF ApproveFails, ResumeFails, Withdrawn, Real,
        Idle, Interrupted
  <2> QED
    BY <2>2, <2>3
<1>3. CASE CancelDirect
  <2>1. status'[t] = "cancelled" /\ \A u \in Tasks : u # t => status'[u] = status[u]
    BY <1>3, <1>r DEF CancelDirect, TypeOK
  <2>2. request'.op \notin {"approve", "cancel_signal", "cancel_write"}
    BY <1>3 DEF CancelDirect, Idle, TypeOK
  <2>3. Told' /\ Concluded' /\ CompletedHasResult'
    BY <1>0, <1>3, <2>1, <2>2 DEF CancelDirect, Told, Concluded,
        CompletedHasResult, Research, Real,
                                  TypeOK, Locked
  <2>4. Withdrawn'
    BY <1>0, <1>3, <2>1, <2>2 DEF CancelDirect, Withdrawn, Real, Interrupted
  <2> QED
    BY <2>3, <2>4
<1>4. CASE CancelSignal
  <2>1. \/ t \in Live /\ cancelSet' = cancelSet \union {t} /\ request' = [request EXCEPT !.op = "cancel_write"]
           /\ request'.op = "cancel_write" /\ request'.task = t
        \/ t \notin Live /\ cancelSet' = cancelSet /\ request' = Idle
    BY <1>4, <1>r DEF CancelSignal, TypeOK
  <2>2. Told' /\ Concluded' /\ CompletedHasResult'
    BY <1>0, <1>4, <2>1 DEF CancelSignal, durable, Told, Concluded,
        CompletedHasResult, Research,
                            Real, Idle
  <2>3. Withdrawn'
    BY <1>0, <1>4, <1>r, <2>1 DEF CancelSignal, durable, Withdrawn, Real, Idle
  <2> QED
    BY <2>2, <2>3
<1>5. CASE CancelWrite
  <2>1. status'[t] = "cancelling" /\ \A u \in Tasks : u # t => status'[u] = status[u] /\ events'[u] = events[u]
    BY <1>5, <1>r DEF CancelWrite, TypeOK
  <2>2. \A w \in Workers : pc[w] # "conclude"
    BY <1>5, LifecycleAssumption DEF CancelWrite, Locked
  <2>3. Told' /\ Concluded' /\ CompletedHasResult'
    BY <1>0, <1>5, <1>r, <2>1, <2>2 DEF CancelWrite, Told, Concluded,
        CompletedHasResult, Research,
                                        Real, Idle
  <2>e. events'[t] \subseteq events[t] \union {"task_cancel_requested"}
    BY <1>5, <1>r DEF CancelWrite, TypeOK
  <2>4. Withdrawn'
    BY <1>0, <1>5, <1>r, <2>1, <2>e DEF CancelWrite, Withdrawn, Told, Real, Idle
  <2> QED
    BY <2>3, <2>4
<1>6. CASE ResumeAdmit
  BY <1>0, <1>6 DEF ResumeAdmit, Told, Withdrawn, Concluded,
      CompletedHasResult, Research, Real, Idle
<1> QED
  BY <1>1, <1>2, <1>3, <1>4, <1>5, <1>6 DEF RequestContinues

LEMMA CancelExports ==
    ASSUME IInv, CInv, NEW t \in Tasks, Exports(t)
    PROVE  CInv'
<1> USE DEF IInv, CInv, process
<1>0. Live' = Live
  BY SameLive DEF Exports, ExportSettle, ExportReady, ExportFails, ExportRaises
<1>1. CASE ExportSettle(t)
  BY <1>0, <1>1 DEF ExportSettle, Told, Withdrawn, Concluded,
      CompletedHasResult, Research, Real
<1>2. CASE ExportReady(t) \/ ExportFails(t) \/ ExportRaises(t)
  <2>1. \A u \in Tasks : "task_cancel_requested" \in events'[u] <=> "task_cancel_requested" \in events[u]
    <3>1. CASE events' = events
      BY <3>1
    <3>2. CASE \E k \in {"exports_ready", "task_terminal_no_exports"} :
                  events' = [events EXCEPT ![t] = events[t] \union {k}]
      <4>1. PICK k \in {"exports_ready", "task_terminal_no_exports"} :
                events' = [events EXCEPT ![t] = events[t] \union {k}]
        BY <3>2
      <4>2. events'[t] = events[t] \union {k} /\ \A u \in Tasks : u # t => events'[u] = events[u]
        BY <4>1 DEF TypeOK
      <4> QED
        BY <4>1, <4>2
    <3> QED
      BY <1>2, <3>1, <3>2 DEF ExportReady, ExportFails, ExportRaises, Announced
  <2>2. \A u \in Tasks : \/ status'[u] = status[u]
                         \/ status[u] = "completed" /\ status'[u] = "degraded"
    <3>1. status' \in {status, Downgraded(t)}
      BY <1>2 DEF ExportReady, ExportFails, ExportRaises
    <3> QED
      BY <3>1 DEF Downgraded, TypeOK
  <2>e. ExportEnds(t, "leaving") \/ ExportEnds(t, "failing")
    BY <1>2 DEF ExportReady, ExportFails, ExportRaises
  <2>3. request' \in {request, Idle} /\ \A w \in Workers : pc'[w] = "conclude" => pc[w] = "conclude"
    BY <2>e DEF ExportEnds
  <2>4. \A w \in Workers : pc[w] = "conclude" => job[w] \in Tasks
    BY DEF TypeOK, Assigned
  <2>5. UNCHANGED <<result, grant, cancelSet, job, setting>>
    BY <1>2 DEF ExportReady, ExportFails, ExportRaises
  <2>6. Told' /\ Concluded' /\ CompletedHasResult'
    BY <1>0, <2>2, <2>3, <2>4, <2>5 DEF Told, Concluded,
        CompletedHasResult, Research, Real, Idle
  <2>7. Withdrawn'
    BY <1>0, <2>1, <2>2, <2>3, <2>5 DEF Withdrawn, Real, Idle, Interrupted
  <2> QED
    BY <2>6, <2>7
<1> QED
  BY <1>1, <1>2 DEF Exports

(* The workers: one moves on, or writes a status that is not cancelling.    *)
LEMMA CancelMoves ==
    ASSUME IInv, CInv, NEW w \in Workers,
           \A u \in Workers : u # w => pc'[u] = pc[u],
           pc'[w] = "conclude" => result'[job[w]] /\ status[job[w]] # "cancelling",
           result' = result \/ (pc[w] \in Working /\ result' = [result EXCEPT ![job[w]] = TRUE]),
           UNCHANGED <<status, events, grant, queue, job, cancelSet, request, setting>>
    PROVE  CInv'
<1>0. Live' = Live
  BY SameLive
<1>1. \A t \in Tasks : result[t] => result'[t]
  BY DEF IInv, TypeOK
<1>2. \A u \in Workers : pc[u] = "conclude" => job[u] \in Tasks
  BY DEF IInv, TypeOK, Assigned
<1>3. Told' /\ Withdrawn'
  BY <1>0 DEF CInv, Told, Withdrawn, Real
<1>4. Concluded' /\ CompletedHasResult'
  BY <1>1, <1>2 DEF CInv, Concluded, CompletedHasResult, Research, Real
<1> QED
  BY <1>3, <1>4 DEF CInv

LEMMA CancelWrites ==
    ASSUME IInv, CInv, NEW w \in Workers, NEW s, s # "cancelling",
           pc[w] \in Working, pc'[w] # "conclude",
           \A u \in Workers : u # w => pc'[u] = pc[u],
           status' = [status EXCEPT ![job[w]] = s],
           s = "completed" => ~Research(job[w]) \/ result[job[w]],
           s \in Interrupted => status[job[w]] \in Interrupted,
           UNCHANGED <<result, events, grant, queue, job, cancelSet, request, setting>>
    PROVE  CInv'
<1>0. Live' = Live
  BY SameLive
<1>1. /\ job[w] \in Tasks /\ status'[job[w]] = s
      /\ \A t \in Tasks : t # job[w] => status'[t] = status[t]
      /\ \A u \in Workers : u # w => job[u] # job[w]
  BY Held DEF IInv, TypeOK, Placed, Working
<1>2. \A u \in Workers : pc[u] = "conclude" => job[u] \in Tasks
  BY DEF IInv, TypeOK, Assigned
<1>3. Told'
  BY <1>0, <1>1 DEF CInv, Told
<1>4. Withdrawn'
  BY <1>0, <1>1 DEF CInv, Withdrawn, Real
<1>5. Concluded' /\ CompletedHasResult'
  BY <1>1, <1>2 DEF CInv, Concluded, CompletedHasResult, Research, Real
<1> QED
  BY <1>3, <1>4, <1>5 DEF CInv

LEMMA CancelExecutes ==
    ASSUME IInv, CInv, NEW w \in Workers, Executes(w)
    PROVE  CInv'
<1> USE DEF Moves, Goto, Writes, WritesAndExports, WritesUnaudited, ExportsFollow,
            Working, durable, process
<1>i. pc[w] \in Working \ {"failing"} => status[job[w]] \in Interrupted
  BY DEF IInv, Placed
<1>n. Interrupted \intersect {"completed", "degraded", "failed", "cancelled", "interrupted"} = {}
  BY DEF Interrupted
<1>p. pc \in [Workers -> WorkerStates]
  BY DEF IInv, TypeOK
<1>l. pc[w] # "idle" => job[w] \in Live /\ job[w] \in Tasks
  BY LifecycleAssumption, Held DEF IInv, Live, TypeOK
<1>1. CASE Take(w)
  <2>1. Live' = Live
    BY <1>1, LiveTakes DEF IInv
  <2>2. pc'[w] = "gate" /\ \A u \in Workers : u # w => pc'[u] = pc[u] /\ job'[u] = job[u]
    BY <1>1, <1>p DEF Take, IInv, TypeOK
  <2>3. Told' /\ Withdrawn'
    BY <1>1, <2>1 DEF Take, CInv, Told, Withdrawn, Real
  <2>4. Concluded' /\ CompletedHasResult'
    BY <1>1, <2>2 DEF Take, CInv, Concluded, CompletedHasResult, Research, Real
  <2> QED
    BY <2>3, <2>4 DEF CInv
<1>2. CASE PassGate(w)
  BY <1>2, <1>p, CancelMoves DEF PassGate
<1>3. CASE CheckUsage(w) \/ PreflightRefuses(w) \/ ResearchRefused(w) \/ PlanRefused(w) \/ ResearchStops(w)
  BY <1>3, <1>p, CancelMoves DEF CheckUsage, PreflightRefuses,
      ResearchRefused, PlanRefused, ResearchStops
<1>4. CASE DemoPhase(w)
  <2>1. CASE CancelIsSet(w)
    BY <1>4, <1>p, <2>1, CancelMoves DEF DemoPhase
  <2>2. CASE ~CancelIsSet(w)
    BY <1>4, <1>p, <1>i, <1>n, <2>2, CancelWrites DEF DemoPhase
  <2> QED
    BY <2>1, <2>2
<1>5. CASE DemoFinish(w)
  <2>1. CASE CancelIsSet(w)
    BY <1>5, <1>p, <2>1, CancelMoves DEF DemoFinish
  <2>2. CASE ~CancelIsSet(w)
    <3>1. PICK s \in {"completed", "degraded"} :
              WritesAndExports(w, s, "export") \/ WritesUnaudited(w, s, "failing")
      BY <1>5, <2>2 DEF DemoFinish
    <3>2. ~Research(job[w])
      BY <1>5 DEF DemoFinish, Research
    <3> QED
      BY <1>5, <1>p, <1>n, <3>1, <3>2, CancelWrites DEF DemoFinish
  <2> QED
    BY <2>1, <2>2
<1>6. CASE ResearchBegin(w)
  <2>1. CASE CancelIsSet(w)
    BY <1>6, <1>p, <2>1, CancelMoves DEF ResearchBegin
  <2>2. CASE ~CancelIsSet(w)
    BY <1>6, <1>p, <1>i, <1>n, <2>2, CancelWrites DEF ResearchBegin
  <2> QED
    BY <2>1, <2>2
<1>7. CASE PublishResult(w)
  <2>1. CASE CancelIsSet(w)
    BY <1>7, <1>p, <2>1, CancelMoves DEF PublishResult
  <2>2. CASE ~CancelIsSet(w)
    <3>1. status[job[w]] # "cancelling"
      BY <1>7, <1>l, <2>2 DEF PublishResult, CancelIsSet, CInv, Told
    <3>2. result' = [result EXCEPT ![job[w]] = TRUE] /\ result'[job[w]]
      BY <1>7, <1>l, <2>2 DEF PublishResult, ResultStored, IInv, TypeOK
    <3> QED
      BY <1>7, <1>p, <2>2, <3>1, <3>2, CancelMoves DEF PublishResult
  <2> QED
    BY <2>1, <2>2
<1>8. CASE Conclude(w)
  <2>1. PICK s \in {"completed", "degraded", "failed", status[job[w]]} :
            WritesAndExports(w, s, "export") \/ WritesUnaudited(w, s, "failing")
    BY <1>8 DEF Conclude
  <2>2. result[job[w]] /\ status[job[w]] \in Interrupted \ {"cancelling"}
    BY <1>8, <1>i DEF Conclude, CInv, Concluded
  <2>3. s # "cancelling" /\ pc[w] \in Working
    BY <1>8, <2>2 DEF Conclude
  <2> QED
    BY <1>p, <2>1, <2>2, <2>3, CancelWrites
<1>9. CASE FinishCancelled(w) \/ FinishUncertain(w) \/ FinishUnavailable(w)
  BY <1>9, <1>p, <1>n, CancelWrites DEF FinishCancelled, FinishUncertain,
      FinishUnavailable
<1>10. CASE FinishFailed(w)
  <2>1. CASE status[job[w]] \in {"cancelled", "rejected"}
    BY <1>10, <1>p, <2>1, CancelMoves DEF FinishFailed
  <2>2. CASE status[job[w]] \notin {"cancelled", "rejected"}
    BY <1>10, <1>p, <1>i, <1>n, <2>2, CancelWrites DEF FinishFailed
  <2> QED
    BY <2>1, <2>2
<1>11. CASE Leave(w)
  <2>1. Live' \subseteq Live /\ job[w] \notin Live'
    BY <1>11, LiveLeaves DEF IInv
  <2>2. pc'[w] = "idle" /\ \A u \in Workers : u # w => pc'[u] = pc[u] /\ job'[u] = job[u]
    BY <1>11, <1>p DEF Leave, IInv, TypeOK
  <2>3. Told' /\ Withdrawn'
    BY <1>11, <2>1 DEF Leave, CInv, Told, Withdrawn, Real
  <2>4. Concluded' /\ CompletedHasResult'
    BY <1>11, <2>2 DEF Leave, CInv, Concluded, CompletedHasResult, Research, Real
  <2> QED
    BY <2>3, <2>4 DEF CInv
<1> QED
  BY <1>1, <1>2, <1>3, <1>4, <1>5, <1>6, <1>7, <1>8, <1>9, <1>10, <1>11 DEF Executes

LEMMA NextCInv == IInv /\ CInv /\ [Next]_vars => CInv'
<1> SUFFICES ASSUME IInv, CInv, [Next]_vars PROVE CInv'
  OBVIOUS
<1>1. CASE Close \/ CloseDeadline \/ UNCHANGED vars
  <2>1. Live' = Live
    BY <1>1, SameLive DEF Close, CloseDeadline, vars, volatile
  <2>2. cancelSet \subseteq cancelSet' /\ UNCHANGED <<durable, pc, job, request, setting>>
    BY <1>1 DEF Close, CloseDeadline, vars, volatile, process, durable
  <2> QED
    BY <2>1, <2>2 DEF CInv, Told, Withdrawn, Concluded,
        CompletedHasResult, Research, Real, durable
<1>2. CASE Restart
  <2>1. Live' = {}
    BY <1>2, NoQueue DEF Restart, Live, Waiting
  <2>2. Told' /\ Concluded'
    BY <1>2, <2>1 DEF Restart, Told, Concluded, Idle
  <2>3. Withdrawn' /\ CompletedHasResult'
    BY <1>2, <2>1 DEF Restart, CInv, Withdrawn, CompletedHasResult,
        Research, Real, Idle, Interrupted
  <2> QED
    BY <2>2, <2>3 DEF CInv
<1> QED
  BY <1>1, <1>2, CancelRequests, CancelContinues, CancelExports,
      CancelExecutes DEF Next

LEMMA CancelInvariance == Spec => []CInv
<1>1. Init => CInv
  BY NoQueue DEF Init, CInv, Told, Withdrawn, Concluded, CompletedHasResult,
      Live, Idle, Interrupted
<1> QED
  BY <1>1, NextCInv, Invariance, PTL DEF Spec

(* A research task is reported as completed only with its result stored.    *)
THEOREM CompletionHasResult == Spec => []CompletedHasResult
  BY CancelInvariance, PTL DEF CInv

(* Nothing is published for a task whose live submission was told to stop,  *)
(* and nobody reports such a task as completed.                             *)
LEMMA PublishStep ==
    ASSUME IInv, CInv, [Next]_vars, NEW t \in Tasks
    PROVE  /\ Real(t) /\ "task_cancel_requested" \in events[t] => result'[t] = result[t]
           /\ status[t] = "cancelling" => status'[t] # "completed"
<1> USE DEF process, durable
<1>1. CASE \E u \in Tasks : Requests(u)
  <2> SUFFICES ASSUME NEW u \in Tasks, Requests(u)
               PROVE  result' = result /\ (status'[t] = status[t] \/ status'[t] # "completed")
    BY <1>1
  <2>1. result' = result
    BY DEF Requests, CreateTask, AuthorizePlanning, GeneratePlan,
        ApproveCommit, ApproveRolledBack,
           ModifyPlan, RejectPlan, CancelRevoke, ResumeCommit, RetryExports
  <2>2. status'[t] = status[t] \/ status'[t] \in {"waiting_approval", "queued", "rejected"}
    BY DEF Requests, CreateTask, AuthorizePlanning, GeneratePlan,
        ApproveCommit, ApproveRolledBack,
           ModifyPlan, RejectPlan, CancelRevoke, ResumeCommit, RetryExports, IInv, TypeOK
  <2> QED
    BY <2>1, <2>2
<1>2. CASE \E u \in Tasks : Exports(u)
  <2>1. PICK u \in Tasks : Exports(u)
    BY <1>2
  <2>2. result' = result /\ status' \in {status, Downgraded(u)}
    BY <2>1 DEF Exports, ExportSettle, ExportReady, ExportFails, ExportRaises
  <2> QED
    BY <2>2 DEF Downgraded, IInv, TypeOK
<1>3. CASE RequestContinues
  <2>1. result' = result
    BY <1>3 DEF RequestContinues, ApproveAdmit, ApproveFails,
        CancelDirect, CancelSignal,
                CancelWrite, ResumeAdmit, ResumeFails
  <2>2. status'[t] = status[t] \/ status'[t] \in {"interrupted", "cancelled", "cancelling"}
    BY <1>3 DEF RequestContinues, ApproveAdmit, ApproveFails,
        CancelDirect, CancelSignal,
                CancelWrite, ResumeAdmit, ResumeFails, IInv, TypeOK
  <2> QED
    BY <2>1, <2>2
<1>4. CASE \E w \in Workers : Executes(w)
  <2> SUFFICES ASSUME NEW w \in Workers, Executes(w)
               PROVE  /\ Real(t) /\ "task_cancel_requested" \in events[t] => result'[t] = result[t]
                      /\ status[t] = "cancelling" => status'[t] # "completed"
    BY <1>4
  <2> USE DEF Moves, Writes, WritesAndExports, WritesUnaudited
  <2>l. pc[w] \in Working => job[w] \in Live /\ job[w] \in Tasks
    BY LifecycleAssumption, Held DEF IInv, Live, TypeOK, Working
  <2>1. CASE Take(w) \/ PassGate(w) \/ CheckUsage(w) \/ PreflightRefuses(w) \/ Leave(w)
    BY <2>1 DEF Take, PassGate, CheckUsage, PreflightRefuses, Leave
  <2>2. CASE ResearchRefused(w) \/ PlanRefused(w) \/ ResearchStops(w)
    BY <2>2 DEF ResearchRefused, PlanRefused, ResearchStops
  <2>3. CASE DemoPhase(w) \/ ResearchBegin(w)
    BY <2>3 DEF DemoPhase, ResearchBegin, IInv, TypeOK
  <2>4. CASE DemoFinish(w)
    <3>1. CancelIsSet(w) => UNCHANGED <<status, result>>
      BY <2>4 DEF DemoFinish
    <3>2. ~CancelIsSet(w) => status[job[w]] # "cancelling"
      BY <2>4, <2>l DEF DemoFinish, CancelIsSet, CInv, Told, Working
    <3>3. ~CancelIsSet(w) => \E s \in {"completed", "degraded"} :
              status' = [status EXCEPT ![job[w]] = s] /\ result' = result
      BY <2>4 DEF DemoFinish
    <3> HIDE DEF Writes, WritesAndExports, WritesUnaudited
    <3> QED
      BY <3>1, <3>2, <3>3 DEF IInv, TypeOK
  <2>5. CASE PublishResult(w)
    <3>1. CancelIsSet(w) => UNCHANGED <<status, result>>
      BY <2>5 DEF PublishResult
    <3>2. ~CancelIsSet(w) => job[w] # t \/ ~(Real(t) /\ "task_cancel_requested" \in events[t])
      BY <2>5, <2>l DEF PublishResult, CancelIsSet, CInv, Withdrawn, Working
    <3> QED
      BY <2>5, <3>1, <3>2 DEF PublishResult, ResultStored, IInv, TypeOK
  <2>6. CASE Conclude(w)
    <3>1. status[job[w]] # "cancelling"
      BY <2>6 DEF Conclude, CInv, Concluded
    <3>2. PICK s \in {"completed", "degraded", "failed", status[job[w]]} :
              status' = [status EXCEPT ![job[w]] = s] /\ result' = result
      BY <2>6 DEF Conclude
    <3> HIDE DEF Writes, WritesAndExports, WritesUnaudited
    <3> QED
      BY <3>1, <3>2 DEF IInv, TypeOK
  <2>7. CASE FinishCancelled(w) \/ FinishUncertain(w) \/ FinishUnavailable(w) \/ FinishFailed(w)
    BY <2>7 DEF FinishCancelled, FinishUncertain, FinishUnavailable,
        FinishFailed, IInv, TypeOK
  <2> QED
    BY <2>1, <2>2, <2>3, <2>4, <2>5, <2>6, <2>7 DEF Executes
<1>5. CASE Close \/ CloseDeadline \/ Restart
  BY <1>5 DEF Close, CloseDeadline, Restart
<1>6. CASE UNCHANGED vars
  BY <1>6 DEF vars
<1> QED
  BY <1>1, <1>2, <1>3, <1>4, <1>5, <1>6 DEF Next

(* After a recorded cancellation no result of a real task is published, for *)
(* any number of restarts.                                                  *)
THEOREM CancelledStaysUnpublished == Spec => CancelledRealNeverPublishes
<1>1. IInv /\ CInv /\ [Next]_vars =>
        [\A t \in setting.real : "task_cancel_requested" \in events[t] =>
            result'[t] = result[t]]_vars
  BY PublishStep, LifecycleAssumption DEF IInv, TypeOK, Real
<1> QED
  BY <1>1, Invariance, CancelInvariance, PTL DEF Spec, CancelledRealNeverPublishes

(* No step takes a task from cancelling to completed.                       *)
THEOREM CancellingIsNoSuccess == Spec => CancellingNeverCompletes
<1>1. IInv /\ CInv /\ [Next]_vars =>
        [\A t \in Tasks : status[t] = "cancelling" => status'[t] # "completed"]_vars
  BY PublishStep
<1> QED
  BY <1>1, Invariance, CancelInvariance, PTL DEF Spec, CancellingNeverCompletes

(* What runs was approved, what waits or was rejected is nowhere in the     *)
(* executor, what completed has its result.                                 *)
THEOREM DecisionsAreKept == Spec => []DecisionsHold
  BY PlansAreApproved, ApprovalIsOpen, RejectionIsInert, CompletionHasResult, PTL
     DEF DecisionsHold

(* No step takes back an outcome, a cancellation or the exposure of a real  *)
(* task.                                                                    *)
THEOREM NothingIsUndone == Spec => NothingIsTakenBack
  BY OutcomesAreFinal, CancellingIsNoSuccess, RealExposureIsKept DEF NothingIsTakenBack

-----------------------------------------------------------------------------
(* The funds of what was admitted.                                          *)

(* A worker whose run may still need the reservation.                       *)
Executing == {"start", "run", "phases", "researching", "conclude", "cancelling",
              "uncertain", "unavailable"}

(* A task whose exports are written has no execution ahead or under way.    *)
Unexported ==
    /\ \A t \in Tasks : status[t] = "interrupted" => exporting[t] = "no"
    /\ request.op \in {"approve", "resume"} => exporting[request.task] = "no"
    /\ \A t \in Waiting : gate[t] # "refused" => exporting[t] = "no"
    /\ \A w \in Workers :
          (pc[w] = "gate" /\ gate[job[w]] # "refused") \/ pc[w] \in Executing => exporting[job[w]] = "no"

(* The reservation is open from the commit of the approval on, also where a *)
(* run was interrupted and nothing else was lost.                           *)
Spent(t) == started[t] = 1 + resumes[t]
Due(t) ==
    gate[t] = "admitted" /\ (resumes[t] = 0 \/ (restarts = 0 /\ started[t] = resumes[t]))
        => reservation[t] = "open"
FundsHold ==
    /\ request.op = "approve" => reservation[request.task] = "open"
    /\ request.op = "resume" /\ restarts = 0 /\ Spent(request.task) => reservation[request.task] = "open"
    /\ \A t \in Waiting : Due(t)
    /\ \A w \in Workers : /\ pc[w] = "gate" => Due(job[w])
                          /\ pc[w] \in Executing /\ Undisturbed(job[w]) => reservation[job[w]] = "open"
    /\ \A t \in Tasks : status[t] = "interrupted" /\ restarts = 0 /\ Spent(t) => reservation[t] = "open"

FInv == Unexported /\ FundsHold

(* Who is in the executor, and what an undecided task cannot be.            *)
LEMMA Occupied ==
    ASSUME IInv
    PROVE  /\ \A w \in Workers : pc[w] # "idle" => job[w] \in Tasks /\ job[w] \in Live
           /\ \A t \in Waiting : t \in Tasks /\ t \in Live
           /\ \A t \in Live : status[t] \notin {"absent", "waiting_approval", "rejected"}
           /\ request.op # "idle" => request.task \in Tasks
  BY Held, WaitingTasks, LiveStatus, LifecycleAssumption DEF IInv, Live, TypeOK, Locked

(* A task whose status is final has no execution ahead or under way.        *)
LEMMA FinalIsPast ==
    ASSUME IInv, NEW t \in Tasks, status[t] \in Terminal \union {"interrupted"}
    PROVE  /\ request.op \in {"approve", "resume"} => request.task # t
           /\ t \in Waiting => gate[t] = "refused"
           /\ \A w \in Workers : job[w] = t =>
                 pc[w] \notin Executing /\ (pc[w] = "gate" => gate[t] = "refused")
<1>1. request.op \in {"approve", "resume"} => request.task # t
  BY DEF IInv, Requested, Terminal
<1>2. AtGate(t) => gate[t] = "refused"
  BY <1>1 DEF IInv, TypeOK, AtGate, Terminal
<1> QED
  BY <1>1, <1>2 DEF IInv, Placed, Terminal, Interrupted, Executing, Working

LEMMA FundRequests ==
    ASSUME IInv, FInv, NEW t \in Tasks, Requests(t)
    PROVE  FInv'
<1> USE DEF FInv, process
<1>t. status \in [Tasks -> Statuses] /\ reservation \in [Tasks -> Reservations]
      /\ gate \in [Tasks -> {"closed", "admitted", "refused"}]
      /\ exporting \in [Tasks -> {"no", "settle", "render"}]
  BY DEF IInv, TypeOK
<1>1. CASE CreateTask(t) \/ GeneratePlan(t) \/ ApproveRolledBack(t) \/ ModifyPlan(t)
  <2>1. UNCHANGED <<reservation, resumes, volatile, started, process>>
    BY <1>1 DEF CreateTask, GeneratePlan, ApproveRolledBack, ModifyPlan, RolledBack
  <2>2. \A u \in Tasks : status'[u] = "interrupted" => status[u] = "interrupted"
    BY <1>1, <1>t DEF CreateTask, GeneratePlan, ApproveRolledBack, ModifyPlan
  <2>3. Waiting' = Waiting
    BY <2>1, SameQueue DEF volatile
  <2>4. Unexported'
    BY <2>1, <2>2, <2>3 DEF Unexported, volatile
  <2>5. FundsHold'
    BY <2>1, <2>2, <2>3 DEF FundsHold, Due, Spent, Undisturbed, volatile
  <2> QED
    BY <2>4, <2>5
<1>2. CASE AuthorizePlanning(t)
  <2>1. UNCHANGED <<status, resumes, volatile, started, process>>
    BY <1>2 DEF AuthorizePlanning
  <2>2. \A u : reservation[u] = "open" => reservation'[u] = "open"
    BY <1>2, <1>t DEF AuthorizePlanning
  <2>3. Waiting' = Waiting
    BY <2>1, SameQueue DEF volatile
  <2>4. Unexported'
    BY <2>1, <2>3 DEF Unexported, volatile
  <2>5. FundsHold'
    BY <2>1, <2>2, <2>3 DEF FundsHold, Due, Spent, Undisturbed, volatile
  <2> QED
    BY <2>4, <2>5
<1>3. CASE ApproveCommit(t) \/ ResumeCommit(t)
  <2>1. t \notin Live /\ queue' = Append(queue, t)
    BY <1>3 DEF ApproveCommit, ResumeCommit, Acceptable
  <2>2. Waiting' = Waiting \union {t} /\ t \notin Waiting
    BY <2>1, Joining DEF IInv, TypeOK, Assigned, Live
  <2>3. \A w \in Workers : job[w] # t
    BY <2>1, LifecycleAssumption DEF Live
  <2>4. exporting[t] = "no" /\ request'.task = t
    BY <1>3 DEF ApproveCommit, ResumeCommit, Reviewable, IInv, Undecided, Unexported
  <2>5. /\ UNCHANGED <<resumes, job, pc, exporting, started, restarts>>
        /\ gate' = [gate EXCEPT ![t] = "closed"]
        /\ \A u \in Tasks : status'[u] = "interrupted" => status[u] = "interrupted"
        /\ \A u \in Tasks : reservation[u] = "open" => reservation'[u] = "open"
    BY <1>3, <1>t DEF ApproveCommit, ResumeCommit
  <2>6. /\ gate'[t] = "closed" /\ \A u \in Tasks : u # t => gate'[u] = gate[u]
    BY <1>t, <2>5
  <2>7. Unexported'
    BY <2>2, <2>3, <2>4, <2>5, <2>6, Occupied DEF Unexported, Executing
  <2>8. /\ request'.op = "approve" => reservation'[t] = "open"
        /\ request'.op = "resume" /\ restarts = 0 /\ Spent(t) => reservation'[t] = "open"
    BY <1>3, <1>t DEF ApproveCommit, ResumeCommit, FundsHold
  <2>9. \A u \in Tasks : Due(u) => Due(u)'
    BY <2>5, <2>6 DEF Due
  <2>10. FundsHold'
    <3>1. \A u \in Waiting' : Due(u)'
      BY <2>2, <2>6, <2>9, Occupied DEF FundsHold, Due
    <3>2. \A w \in Workers : pc'[w] = "gate" => Due(job[w])'
      BY <2>5, <2>9, Occupied DEF FundsHold, Due
    <3>3. \A w \in Workers : pc'[w] \in Executing /\ Undisturbed(job[w])' => reservation'[job'[w]] = "open"
      BY <2>5, Occupied DEF FundsHold, Undisturbed, Executing
    <3>4. \A u \in Tasks : status'[u] = "interrupted" /\ restarts' = 0 /\ Spent(u)' => reservation'[u] = "open"
      BY <2>5 DEF FundsHold, Spent
    <3> QED
      BY <2>4, <2>5, <2>8, <3>1, <3>2, <3>3, <3>4 DEF FundsHold, Spent
  <2> QED
    BY <2>7, <2>10
<1>4. CASE RejectPlan(t) \/ RetryExports(t)
  <2>1. UNCHANGED <<reservation, resumes, queue, job, gate, pc, request, started, restarts>>
    BY <1>4 DEF RejectPlan, RetryExports, durable
  <2>2. /\ \A u \in Tasks : u # t => status'[u] = status[u] /\ exporting'[u] = exporting[u]
        /\ status'[t] \in Terminal
    BY <1>4, <1>t DEF RejectPlan, ExportsFollow, AuditFails, RetryExports, durable, Terminal
  <2>3. Waiting' = Waiting
    BY <2>1, SameQueue
  <2>4. /\ request.op \in {"approve", "resume"} => request.task # t
        /\ t \in Waiting => gate[t] = "refused"
        /\ \A w \in Workers : job[w] = t =>
              pc[w] \notin Executing /\ (pc[w] = "gate" => gate[t] = "refused")
    <3>1. CASE RejectPlan(t)
      BY <3>1, Occupied DEF RejectPlan, Reviewable, IInv, Locked, Executing
    <3>2. CASE RetryExports(t)
      BY <3>2, FinalIsPast DEF RetryExports
    <3> QED
      BY <1>4, <3>1, <3>2
  <2>5. Unexported'
    BY <2>1, <2>2, <2>3, <2>4, Occupied DEF Unexported, Terminal, Executing
  <2>6. FundsHold'
    BY <2>1, <2>2, <2>3 DEF FundsHold, Due, Spent, Undisturbed, Terminal
  <2> QED
    BY <2>5, <2>6
<1>5. CASE CancelRevoke(t)
  <2>1. /\ UNCHANGED <<status, reservation, resumes, queue, job, gate, pc, exporting, started, restarts>>
        /\ request'.op \notin {"approve", "resume"}
    BY <1>5 DEF CancelRevoke
  <2>2. Waiting' = Waiting
    BY <2>1, SameQueue
  <2> QED
    BY <2>1, <2>2 DEF Unexported, FundsHold, Due, Spent, Undisturbed
<1> QED
  BY <1>1, <1>2, <1>3, <1>4, <1>5 DEF Requests

LEMMA FundContinues ==
    ASSUME IInv, FInv, RequestContinues
    PROVE  FInv'
<1> USE DEF FInv, process
<1>r. PICK t \in Tasks : t = request.task
  BY DEF IInv, Locked, RequestContinues, ApproveAdmit, ApproveFails, CancelDirect,
      CancelSignal, CancelWrite, ResumeAdmit, ResumeFails
<1>t. status \in [Tasks -> Statuses] /\ reservation \in [Tasks -> Reservations]
      /\ gate \in [Tasks -> {"closed", "admitted", "refused"}]
      /\ resumes \in [Tasks -> 0 .. 2] /\ started \in [Tasks -> Nat] /\ restarts \in Nat
      /\ exporting \in [Tasks -> {"no", "settle", "render"}]
  BY DEF IInv, TypeOK
<1>q. queue' = queue /\ job' = job /\ Waiting' = Waiting /\ pc' = pc
      /\ started' = started /\ restarts' = restarts
  BY SameQueue DEF RequestContinues, ApproveAdmit, ApproveFails, CancelDirect,
      CancelSignal, CancelWrite, ResumeAdmit, ResumeFails
<1>1. CASE ApproveAdmit \/ ResumeAdmit
  <2>1. /\ UNCHANGED <<status, reservation, exporting>> /\ request' = Idle
        /\ gate'[t] = "admitted" /\ \A u \in Tasks : u # t => gate'[u] = gate[u]
        /\ \A u \in Tasks : u # t => resumes'[u] = resumes[u]
        /\ resumes'[t] = IF request.op = "approve" THEN resumes[t] ELSE resumes[t] + 1
        /\ request.op \in {"approve", "resume"}
    BY <1>1, <1>r, <1>t DEF ApproveAdmit, ResumeAdmit
  <2>2. exporting[t] = "no" /\ status[t] = "queued"
        /\ \A w \in Workers : job[w] = t => pc[w] = "gate"
    BY <1>r, <2>1 DEF Unexported, IInv, Requested
  <2>3. Unexported'
    BY <1>q, <2>1, <2>2, Occupied DEF Unexported, Idle, Executing
  <2>4. Due(t)'
    BY <1>r, <1>t, <1>q, <2>1 DEF Due, FundsHold, Spent
  <2>5. \A u \in Tasks : u # t /\ Due(u) => Due(u)'
    BY <1>q, <2>1 DEF Due
  <2>6. FundsHold'
    <3>1. \A u \in Waiting' : Due(u)'
      BY <1>q, <2>4, <2>5, Occupied DEF FundsHold, Due
    <3>2. \A w \in Workers : pc'[w] = "gate" => Due(job[w])'
      BY <1>q, <2>4, <2>5, Occupied DEF FundsHold, Due
    <3>3. \A w \in Workers : pc'[w] \in Executing /\ Undisturbed(job[w])' => reservation'[job'[w]] = "open"
      BY <1>q, <2>1, <2>2, Occupied DEF FundsHold, Undisturbed, Executing
    <3>4. \A u \in Tasks : status'[u] = "interrupted" /\ restarts' = 0 /\ Spent(u)' => reservation'[u] = "open"
      BY <1>q, <2>1, <2>2 DEF FundsHold, Spent
    <3> QED
      BY <1>q, <2>1, <3>1, <3>2, <3>3, <3>4 DEF FundsHold, Idle
  <2> QED
    BY <2>3, <2>6
<1>2. CASE ApproveFails \/ ResumeFails
  <2>1. /\ UNCHANGED <<resumes, exporting>> /\ request' = Idle
        /\ gate'[t] = "refused" /\ \A u \in Tasks : u # t => gate'[u] = gate[u]
        /\ status'[t] = "interrupted" /\ \A u \in Tasks : u # t => status'[u] = status[u]
        /\ \A u \in Tasks : u # t \/ request.op = "resume" => reservation'[u] = reservation[u]
        /\ request.op \in {"approve", "resume"}
    BY <1>2, <1>r, <1>t DEF ApproveFails, ResumeFails, Refused
  <2>2. exporting[t] = "no" /\ \A w \in Workers : job[w] = t => pc[w] = "gate"
    BY <1>r, <2>1 DEF Unexported, IInv, Requested
  <2>3. Unexported'
    BY <1>q, <2>1, <2>2, Occupied DEF Unexported, Idle, Executing
  <2>4. Due(t)'
    BY <2>1 DEF Due
  <2>5. \A u \in Tasks : u # t /\ Due(u) => Due(u)'
    BY <1>q, <2>1 DEF Due
  <2>6. restarts = 0 /\ Spent(t)' => reservation'[t] = "open"
    <3>1. CASE request.op = "approve"
      <4>1. started[t] = 0 /\ resumes'[t] \in Nat /\ started' = started
        BY <1>r, <1>t, <1>q, <2>1, <3>1 DEF IInv, Requested
      <4> QED
        BY <4>1 DEF Spent
    <3>2. CASE request.op = "resume"
      BY <1>r, <1>q, <2>1, <3>2 DEF FundsHold, Spent
    <3> QED
      BY <2>1, <3>1, <3>2
  <2>7. FundsHold'
    <3>1. \A u \in Waiting' : Due(u)'
      BY <1>q, <2>4, <2>5, Occupied DEF FundsHold, Due
    <3>2. \A w \in Workers : pc'[w] = "gate" => Due(job[w])'
      BY <1>q, <2>4, <2>5, Occupied DEF FundsHold, Due
    <3>3. \A w \in Workers : pc'[w] \in Executing /\ Undisturbed(job[w])' => reservation'[job'[w]] = "open"
      BY <1>q, <2>1, <2>2, Occupied DEF FundsHold, Undisturbed, Executing
    <3>4. \A u \in Tasks : status'[u] = "interrupted" /\ restarts' = 0 /\ Spent(u)' => reservation'[u] = "open"
      BY <1>q, <2>1, <2>6 DEF FundsHold, Spent
    <3> QED
      BY <1>q, <2>1, <3>1, <3>2, <3>3, <3>4 DEF FundsHold, Idle
  <2> QED
    BY <2>3, <2>7
<1>3. CASE CancelDirect
  <2>1. /\ UNCHANGED <<resumes, gate, reservation>>
        /\ request' = [request EXCEPT !.op = "cancel_export"] \/ request' = Idle
        /\ request.op = "cancel_direct"
        /\ status'[t] = "cancelled" /\ \A u \in Tasks : u # t => status'[u] = status[u]
        /\ \A u \in Tasks : u # t => exporting'[u] = exporting[u]
    BY <1>3, <1>r, <1>t DEF CancelDirect, ExportsFollow, AuditFails
  <2>2. request'.op \notin {"approve", "resume"}
    BY <2>1 DEF Idle, IInv, TypeOK
  <2>3. /\ t \in Waiting => gate[t] = "refused"
        /\ \A w \in Workers : job[w] = t =>
              pc[w] \notin Executing /\ (pc[w] = "gate" => gate[t] = "refused")
    <3>1. status[t] \in {"waiting_approval", "interrupted"}
      BY <1>r, <2>1 DEF IInv, Requested
    <3>2. CASE status[t] = "waiting_approval"
      BY <3>2, Occupied DEF Executing
    <3>3. CASE status[t] = "interrupted"
      BY <3>3, FinalIsPast
    <3> QED
      BY <3>1, <3>2, <3>3
  <2>4. Unexported'
    BY <1>q, <2>1, <2>2, <2>3, Occupied DEF Unexported, Executing
  <2>5. FundsHold'
    BY <1>q, <2>1, <2>2 DEF FundsHold, Due, Spent, Undisturbed
  <2> QED
    BY <2>4, <2>5
<1>4. CASE CancelSignal \/ CancelWrite
  <2>1. /\ UNCHANGED <<resumes, gate, reservation, exporting>>
        /\ \A u \in Tasks : status'[u] = "interrupted" => status[u] = "interrupted"
        /\ request'.op \notin {"approve", "resume"}
    BY <1>4, <1>t DEF CancelSignal, CancelWrite, durable, Idle, IInv, TypeOK
  <2>2. Unexported'
    BY <1>q, <2>1 DEF Unexported
  <2>3. FundsHold'
    BY <1>q, <2>1 DEF FundsHold, Due, Spent, Undisturbed
  <2> QED
    BY <2>2, <2>3
<1> QED
  BY <1>1, <1>2, <1>3, <1>4 DEF RequestContinues

LEMMA FundExports ==
    ASSUME IInv, FInv, NEW t \in Tasks, Exports(t)
    PROVE  FInv'
<1> USE DEF FInv, process
<1>t. status \in [Tasks -> Statuses] /\ reservation \in [Tasks -> Reservations]
      /\ pc \in [Workers -> WorkerStates] /\ exporting \in [Tasks -> {"no", "settle", "render"}]
  BY DEF IInv, TypeOK
<1>q. UNCHANGED <<queue, job, gate, resumes, started, restarts>> /\ Waiting' = Waiting
  BY SameQueue DEF Exports, ExportSettle, ExportReady, ExportFails, ExportRaises
<1>1. CASE ExportSettle(t)
  <2>1. /\ UNCHANGED <<status, pc, request>> /\ exporting[t] # "no"
        /\ \A u \in Tasks : u # t => reservation'[u] = reservation[u]
        /\ \A u \in Tasks : exporting[u] = "no" => exporting'[u] = "no"
    BY <1>1, <1>t DEF ExportSettle
  <2>2. Unexported'
    BY <1>q, <2>1, Occupied DEF Unexported, Executing
  <2>3. FundsHold'
    <3>1. \A u \in Tasks : u # t /\ Due(u) => Due(u)'
      BY <1>q, <2>1 DEF Due
    <3>2. gate[t] = "refused" => Due(t)'
      BY <1>q DEF Due
    <3>3. \A u \in Waiting' : Due(u)'
      BY <1>q, <2>1, <3>1, <3>2, Occupied DEF FundsHold, Unexported
    <3>4. \A w \in Workers : pc'[w] = "gate" => Due(job[w])'
      BY <1>q, <2>1, <3>1, <3>2, Occupied DEF FundsHold, Unexported, Due
    <3>5. \A w \in Workers : pc'[w] \in Executing /\ Undisturbed(job[w])' => reservation'[job'[w]] = "open"
      BY <1>q, <2>1, Occupied DEF FundsHold, Unexported, Undisturbed, Executing
    <3>6. /\ request'.op = "approve" => reservation'[request'.task] = "open"
          /\ request'.op = "resume" /\ restarts' = 0 /\ Spent(request.task)' => reservation'[request'.task] = "open"
      BY <1>q, <2>1, Occupied DEF FundsHold, Unexported, Spent
    <3>7. \A u \in Tasks : status'[u] = "interrupted" /\ restarts' = 0 /\ Spent(u)' => reservation'[u] = "open"
      BY <1>q, <2>1 DEF FundsHold, Unexported, Spent
    <3> QED
      BY <3>3, <3>4, <3>5, <3>6, <3>7 DEF FundsHold
  <2> QED
    BY <2>2, <2>3
<1>2. CASE ExportReady(t) \/ ExportFails(t) \/ ExportRaises(t)
  <2>a. ExportEnds(t, "leaving") \/ ExportEnds(t, "failing")
    BY <1>2 DEF ExportReady, ExportFails, ExportRaises
  <2>b. reservation' = reservation /\ status' \in {status, Downgraded(t)}
    BY <1>2 DEF ExportReady, ExportFails, ExportRaises
  <2>1. /\ reservation' = reservation
        /\ \A u \in Tasks : status'[u] = "interrupted" => status[u] = "interrupted"
        /\ \A u \in Tasks : exporting[u] = "no" => exporting'[u] = "no"
        /\ request' \in {request, Idle}
        /\ \A w \in Workers : pc'[w] = pc[w] \/ pc'[w] \in {"leaving", "failing"}
    BY <2>a, <2>b, <1>t DEF Downgraded, ExportEnds
  <2>2. Unexported'
    BY <1>q, <2>1, Occupied DEF Unexported, Executing, Idle
  <2>3. FundsHold'
    BY <1>q, <2>1 DEF FundsHold, Due, Spent, Undisturbed, Idle, Executing
  <2> QED
    BY <2>2, <2>3
<1> QED
  BY <1>1, <1>2 DEF Exports

(* A worker moves on, or writes an outcome.                                 *)
LEMMA FundMoves ==
    ASSUME IInv, FInv, NEW w \in Workers, pc'[w] # "gate",
           pc'[w] \in Executing => pc[w] \in Executing, \A u \in Workers : u # w => pc'[u] = pc[u],
           \A u \in Tasks : status'[u] = "interrupted" => status[u] = "interrupted",
           UNCHANGED <<reservation, resumes, queue, job, gate, request, exporting, started, restarts>>
    PROVE  FInv'
<1>0. Waiting' = Waiting
  BY SameQueue
<1>1. Unexported'
  BY <1>0 DEF FInv, Unexported, Executing
<1>2. FundsHold'
  BY <1>0 DEF FInv, FundsHold, Due, Spent, Undisturbed, Executing
<1> QED
  BY <1>1, <1>2 DEF FInv

LEMMA FundOutcomes ==
    ASSUME IInv, FInv, NEW w \in Workers, pc[w] \in Working,
           pc'[w] \in {"export", "closing"}, \A u \in Workers : u # w => pc'[u] = pc[u],
           \A u \in Tasks : status'[u] = "interrupted" => status[u] = "interrupted" /\ u # job[w],
           \A u \in Tasks : u # job[w] => exporting'[u] = exporting[u],
           UNCHANGED <<reservation, resumes, queue, job, gate, request, started, restarts>>
    PROVE  FInv'
<1>0. Waiting' = Waiting
  BY SameQueue
<1>1. /\ job[w] \in Tasks /\ job[w] \notin Waiting /\ \A u \in Workers : u # w => job[u] # job[w]
      /\ request.op \in {"approve", "resume"} => request.task # job[w]
  BY Held DEF IInv, Working, Requested
<1>2. Unexported'
  BY <1>0, <1>1, Occupied DEF FInv, Unexported, Executing
<1>3. FundsHold'
  BY <1>0 DEF FInv, FundsHold, Due, Spent, Undisturbed, Executing
<1> QED
  BY <1>2, <1>3 DEF FInv

LEMMA FundExecutes ==
    ASSUME IInv, FInv, NEW w \in Workers, Executes(w)
    PROVE  FInv'
<1> USE DEF Moves, Goto, Writes, WritesAndExports, WritesUnaudited, ExportsFollow, AuditFails,
            Working, durable, process
<1>t. status \in [Tasks -> Statuses] /\ pc \in [Workers -> WorkerStates]
      /\ started \in [Tasks -> Nat] /\ resumes \in [Tasks -> 0 .. 2]
      /\ exporting \in [Tasks -> {"no", "settle", "render"}]
  BY DEF IInv, TypeOK
<1>l. pc[w] # "idle" => job[w] \in Tasks /\ job[w] \notin Waiting
                        /\ \A u \in Workers : u # w => job[u] # job[w]
  BY Held DEF IInv
<1>1. CASE Take(w)
  <2>1. Waiting' = Waiting \ {Head(queue)} /\ Head(queue) \in Waiting /\ Head(queue) \in Tasks
    BY <1>1, Leaving DEF IInv, TypeOK, Assigned, Take
  <2>2. /\ pc'[w] = "gate" /\ job'[w] = Head(queue)
        /\ \A u \in Workers : u # w => pc'[u] = pc[u] /\ job'[u] = job[u]
        /\ UNCHANGED <<status, reservation, resumes, gate, request, exporting, started, restarts>>
    BY <1>1 DEF Take, IInv, TypeOK
  <2>3. Unexported'
    BY <2>1, <2>2 DEF FInv, Unexported, Executing
  <2>4. \A u : Due(u)' <=> Due(u)
    BY <2>2 DEF Due
  <2>5. FundsHold'
    BY <2>1, <2>2, <2>4 DEF FInv, FundsHold, Spent, Undisturbed, Executing
  <2> QED
    BY <2>3, <2>5 DEF FInv
<1>2. CASE PassGate(w)
  <2>1. /\ pc[w] = "gate" /\ gate[job[w]] # "closed" /\ \A u \in Workers : u # w => pc'[u] = pc[u]
        /\ UNCHANGED <<status, reservation, resumes, queue, job, gate, request, exporting, restarts>>
        /\ \A u \in Tasks : u # job[w] => started'[u] = started[u]
    BY <1>2, <1>t DEF PassGate
  <2>2. \/ gate[job[w]] = "admitted" /\ pc'[w] = "start" /\ started'[job[w]] = started[job[w]] + 1
        \/ pc'[w] = "leaving" /\ started' = started
    BY <1>2, <1>t, <1>l DEF PassGate, Admitted
  <2>3. Waiting' = Waiting
    BY <2>1, SameQueue
  <2>4. Unexported'
    BY <2>1, <2>2, <2>3 DEF FInv, Unexported, Executing
  <2>5. \A u \in Tasks : u # job[w] /\ Due(u) => Due(u)'
    BY <2>1 DEF Due
  <2>6. CASE pc'[w] = "leaving" /\ started' = started
    <3>1. \A u : Due(u)' <=> Due(u)
      BY <2>1, <2>6 DEF Due
    <3>2. \A u \in Workers : pc'[u] = pc[u] \/ pc'[u] = "leaving"
      BY <2>1, <2>6
    <3> QED
      BY <2>1, <2>3, <2>4, <2>6, <3>1, <3>2 DEF FInv, FundsHold, Spent, Undisturbed, Executing
  <2>7. CASE gate[job[w]] = "admitted" /\ pc'[w] = "start" /\ started'[job[w]] = started[job[w]] + 1
    <3>1. Undisturbed(job[w])' => reservation[job[w]] = "open"
      BY <1>t, <1>l, <2>1, <2>7 DEF FInv, FundsHold, Due, Undisturbed
    <3>2. /\ status[job[w]] # "interrupted"
          /\ request.op \in {"approve", "resume"} => request.task # job[w]
      BY <2>1, <2>7 DEF IInv, Placed, AtGate, Requested
    <3>3. \A u \in Waiting' : Due(u)'
      BY <1>l, <2>1, <2>3, <2>5, Occupied DEF FInv, FundsHold
    <3>4. \A u \in Workers : pc'[u] = "gate" => Due(job[u])'
      BY <1>l, <2>1, <2>5, <2>7, Occupied DEF FInv, FundsHold, Due
    <3>5. \A u \in Workers : pc'[u] \in Executing /\ Undisturbed(job[u])' => reservation'[job'[u]] = "open"
      BY <1>l, <2>1, <2>7, <3>1, Occupied DEF FInv, FundsHold, Undisturbed, Executing
    <3>6. /\ request'.op = "approve" => reservation'[request'.task] = "open"
          /\ request'.op = "resume" /\ restarts' = 0 /\ Spent(request.task)' => reservation'[request'.task] = "open"
      BY <2>1, <3>2, Occupied DEF FInv, FundsHold, Spent
    <3>7. \A u \in Tasks : status'[u] = "interrupted" /\ restarts' = 0 /\ Spent(u)' => reservation'[u] = "open"
      BY <2>1, <3>2 DEF FInv, FundsHold, Spent
    <3> QED
      BY <2>4, <3>3, <3>4, <3>5, <3>6, <3>7 DEF FInv, FundsHold
  <2> QED
    BY <2>2, <2>6, <2>7
<1>3. CASE CheckUsage(w) \/ PreflightRefuses(w) \/ ResearchRefused(w) \/ PlanRefused(w) \/ ResearchStops(w)
  BY <1>3, <1>t, FundMoves DEF CheckUsage, PreflightRefuses, ResearchRefused, PlanRefused,
     ResearchStops, Executing
<1>4. CASE DemoPhase(w) \/ ResearchBegin(w)
  <2>1. /\ pc[w] \in Executing /\ pc'[w] # "gate" /\ \A u \in Workers : u # w => pc'[u] = pc[u]
        /\ \A u \in Tasks : status'[u] = "interrupted" => status[u] = "interrupted"
        /\ UNCHANGED <<reservation, resumes, queue, job, gate, request, exporting, started, restarts>>
    BY <1>4, <1>t DEF DemoPhase, ResearchBegin, Executing
  <2> QED
    BY <2>1, FundMoves
<1>5. CASE DemoFinish(w)
  <2>1. CASE CancelIsSet(w)
    BY <1>5, <1>t, <2>1, FundMoves DEF DemoFinish, Executing
  <2>2. CASE ~CancelIsSet(w)
    <3>1. PICK s \in {"completed", "degraded"} :
              WritesAndExports(w, s, "export") \/ WritesUnaudited(w, s, "failing")
      BY <1>5, <2>2 DEF DemoFinish
    <3>2. CASE WritesAndExports(w, s, "export")
      BY <1>5, <1>t, <1>l, <3>2, FundOutcomes DEF DemoFinish
    <3>3. CASE WritesUnaudited(w, s, "failing")
      BY <1>t, <1>l, <3>3, FundMoves DEF Executing
    <3> QED
      BY <3>1, <3>2, <3>3
  <2> QED
    BY <2>1, <2>2
<1>6. CASE PublishResult(w)
  <2>1. /\ pc[w] \in Executing /\ pc'[w] # "gate" /\ \A u \in Workers : u # w => pc'[u] = pc[u]
        /\ UNCHANGED <<status, reservation, resumes, queue, job, gate, request, exporting, started, restarts>>
    BY <1>6, <1>t DEF PublishResult, Executing
  <2> QED
    BY <2>1, FundMoves
<1>7. CASE Conclude(w)
  <2>1. CASE \E s \in {"completed", "degraded", "failed"} : WritesAndExports(w, s, "export")
    BY <1>7, <1>t, <1>l, <2>1, FundOutcomes DEF Conclude
  <2>2. CASE \E s \in {"completed", "degraded", "failed", status[job[w]]} :
                 WritesUnaudited(w, s, "failing")
    BY <1>t, <1>l, <2>2, FundMoves DEF Executing
  <2> QED
    BY <1>7, <2>1, <2>2 DEF Conclude
<1>8. CASE FinishCancelled(w) \/ FinishUnavailable(w)
  <2>1. CASE \E s \in {"cancelled", "degraded"}, next \in {"export", "closing"} :
                 WritesAndExports(w, s, next)
    BY <1>8, <1>t, <1>l, <2>1, FundOutcomes DEF FinishCancelled, FinishUnavailable
  <2>2. CASE \E s \in {"cancelled", "degraded"}, next \in {"failing", "leaving"} :
                 WritesUnaudited(w, s, next)
    BY <1>t, <1>l, <2>2, FundMoves DEF Executing
  <2> QED
    BY <1>8, <2>1, <2>2 DEF FinishCancelled, FinishUnavailable
<1>9. CASE FinishFailed(w)
  <2>1. CASE status[job[w]] \in {"cancelled", "rejected"}
    BY <1>9, <1>t, <2>1, FundMoves DEF FinishFailed, Executing
  <2>2. CASE status[job[w]] \notin {"cancelled", "rejected"}
    <3>1. CASE WritesAndExports(w, "failed", "closing")
      BY <1>9, <1>t, <1>l, <3>1, FundOutcomes DEF FinishFailed
    <3>2. CASE WritesUnaudited(w, "failed", "leaving")
      BY <1>t, <1>l, <3>2, FundMoves DEF Executing
    <3> QED
      BY <1>9, <2>2, <3>1, <3>2 DEF FinishFailed
  <2> QED
    BY <2>1, <2>2
<1>10. CASE FinishUncertain(w)
  <2>1. /\ pc[w] \in Executing /\ pc'[w] = "leaving" /\ \A u \in Workers : u # w => pc'[u] = pc[u]
        /\ \A u \in Tasks : u # job[w] => status'[u] = status[u]
        /\ UNCHANGED <<reservation, resumes, queue, job, gate, request, exporting, started, restarts>>
    BY <1>10, <1>t DEF FinishUncertain, Executing
  <2>2. exporting[job[w]] = "no"
    BY <2>1 DEF FInv, Unexported
  <2>3. restarts = 0 /\ Spent(job[w]) => reservation[job[w]] = "open"
    BY <2>1 DEF FInv, FundsHold, Spent, Undisturbed
  <2>4. Waiting' = Waiting
    BY <2>1, SameQueue
  <2>5. Unexported'
    BY <2>1, <2>2, <2>4 DEF FInv, Unexported, Executing
  <2>6. FundsHold'
    BY <2>1, <2>3, <2>4 DEF FInv, FundsHold, Due, Spent, Undisturbed, Executing
  <2> QED
    BY <2>5, <2>6 DEF FInv
<1>11. CASE Leave(w)
  <2>1. /\ pc'[w] = "idle" /\ \A u \in Workers : u # w => pc'[u] = pc[u] /\ job'[u] = job[u]
        /\ UNCHANGED <<status, reservation, resumes, queue, gate, request, exporting, started, restarts>>
    BY <1>11, <1>t DEF Leave, IInv, TypeOK
  <2>2. Waiting' = Waiting
    BY <2>1, SameQueue
  <2>3. \A u : Due(u)' <=> Due(u)
    BY <2>1 DEF Due
  <2> QED
    BY <2>1, <2>2, <2>3 DEF FInv, Unexported, FundsHold, Spent, Undisturbed, Executing
<1> QED
  BY <1>1, <1>2, <1>3, <1>4, <1>5, <1>6, <1>7, <1>8, <1>9, <1>10, <1>11 DEF Executes

LEMMA NextFInv == IInv /\ FInv /\ [Next]_vars => FInv'
<1> SUFFICES ASSUME IInv, FInv, [Next]_vars PROVE FInv'
  OBVIOUS
<1>1. CASE Close \/ CloseDeadline \/ UNCHANGED vars
  <2>1. UNCHANGED <<durable, queue, job, gate, pc, request, exporting, started, restarts>>
    BY <1>1 DEF Close, CloseDeadline, vars, volatile, process, durable
  <2>2. Waiting' = Waiting
    BY <2>1, SameQueue
  <2>3. \A u : Due(u)' <=> Due(u)
    BY <2>1 DEF Due, durable
  <2> QED
    BY <2>1, <2>2, <2>3 DEF FInv, Unexported, FundsHold, Spent, Undisturbed, durable
<1>2. CASE Restart
  <2>1. Waiting' = {}
    BY <1>2, NoQueue DEF Restart, Waiting
  <2>2. restarts' # 0
    BY <1>2 DEF Restart, IInv, TypeOK
  <2>3. \A w \in Workers : pc'[w] = "idle"
    BY <1>2 DEF Restart
  <2>4. Unexported' /\ FundsHold'
    BY <1>2, <2>1, <2>2, <2>3 DEF Restart, Unexported, FundsHold, Idle, Executing
  <2> QED
    BY <2>4 DEF FInv
<1> QED
  BY <1>1, <1>2, FundRequests, FundContinues, FundExports, FundExecutes DEF Next

(* Whatever the setting and however often the process is lost: an admitted  *)
(* run finds its reservation open, unless it resumes what a restart or a    *)
(* failed audit write handed to reconciliation.                             *)
THEOREM AdmissionIsFunded == Spec => []AdmittedWorkIsFunded
<1>1. Init => FInv
  BY NoQueue DEF Init, FInv, Unexported, FundsHold, Idle, Executing
<1>2. FInv => AdmittedWorkIsFunded
  BY DEF FInv, FundsHold, AdmittedWorkIsFunded, Funded, Executing
<1> QED
  BY <1>1, <1>2, NextFInv, Invariance, PTL DEF Spec
=============================================================================
