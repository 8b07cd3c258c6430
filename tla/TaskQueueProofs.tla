-------------------------- MODULE TaskQueueProofs --------------------------
(***************************************************************************)
(* Proofs about TaskQueue, for any tasks, workers, capacity and number of  *)
(* submissions.  The handle table is right because of three facts kept     *)
(* together: a submission is in one place, a task has one live submission, *)
(* and the numbers of live and finished submissions were issued.           *)
(***************************************************************************)
EXTENDS TaskQueue, SequenceTheorems, FiniteSetTheorems, TLAPS

(* Guards and expressions of one line, visible in every proof.              *)
USE DEF MayQueue, PoolIsOver, ActiveTask, HandlePopped, CountDone, Laggards

(* Workers that hold an item have one, and live or finished submissions     *)
(* carry numbers already issued: the next one is new.                       *)
ItemsAreReal == \A w \in Busy : item[w] \in Submission
NumbersAreIssued == \A s \in handles \union finished : s[2] <= issued[s[1]]

(* The part of the invariant that the items and their places decide.        *)
Places ==
    /\ HandlesMatchLive
    /\ ServedOnce
    /\ ItemsAreReal
    /\ NumbersAreIssued
    /\ UnfinishedCountsItems

IInv == QueueTypeOK /\ Places

-----------------------------------------------------------------------------
(* A step that moves no item and changes no category of a worker.           *)
LEMMA QuietSteps ==
    ASSUME Places,
           UNCHANGED <<queue, unfinished, handles, issued, finished, item>>,
           \A w \in Workers : thread'[w] \in Serving <=> thread[w] \in Serving,
           \A w \in Workers : thread'[w] \in Holding <=> thread[w] \in Holding
    PROVE  Places'
<1>1. Busy' = Busy
  BY DEF Busy
<1>2. Queued' = Queued
  BY DEF Queued
<1>3. HeldBy(Serving)' = HeldBy(Serving)
  BY DEF HeldBy
<1>4. HandlesMatchLive'
  BY <1>2, <1>3 DEF Places, HandlesMatchLive
<1>5. ServedOnce'
  BY <1>2, <1>3 DEF Places, ServedOnce
<1> QED
  BY <1>1, <1>4, <1>5 DEF Places, ItemsAreReal, NumbersAreIssued, UnfinishedCountsItems

LEMMA BusyIsFinite ==
    /\ IsFiniteSet(Busy)
    /\ Cardinality(Busy) \in Nat
<1>1. IsFiniteSet(Busy)
  BY QueueAssumption, FS_Subset DEF Busy
<1> QED
  BY <1>1, FS_CardinalityType

-----------------------------------------------------------------------------
(* A new submission has a number that none before it had.                   *)
LEMMA SubmitKeepsPlaces ==
    ASSUME QueueTypeOK, Places, NEW t \in Tasks, Submit(t)
    PROVE  Places' /\ queue' \in Seq(Submission) /\ handles' \subseteq Submission
<1> DEFINE s == <<t, issued[t] + 1>>
<1>1. s \in Submission
  BY QueueAssumption DEF Submit, QueueTypeOK, Submission
<1>2. s \notin handles \union finished
  BY DEF Submit, QueueTypeOK, Places, NumbersAreIssued
<1>3. /\ queue' = Append(queue, s)
      /\ queue \in Seq(Submission)
      /\ handles' = handles \union {s}
      /\ UNCHANGED <<item, finished>>
  BY DEF Submit, QueueTypeOK
<1>4. /\ queue' \in Seq(Submission)
      /\ Len(queue') = Len(queue) + 1
      /\ \A i \in 1 .. Len(queue) : queue'[i] = queue[i]
      /\ queue'[Len(queue) + 1] = s
      /\ DOMAIN queue = 1 .. Len(queue)
      /\ DOMAIN queue' = 1 .. Len(queue) + 1
      /\ Len(queue) \in Nat
  BY <1>1, <1>3, AppendProperties, LenProperties
<1> HIDE DEF s
<1>5. Queued' = Queued \union {s}
  BY <1>4 DEF Queued
<1>6. \A w \in Workers : /\ thread'[w] \in Serving <=> thread[w] \in Serving
                         /\ thread'[w] \in Holding <=> thread[w] \in Holding
  BY DEF Submit, Revived, Serving, Holding, QueueTypeOK
<1>7. HeldBy(Serving)' = HeldBy(Serving) /\ Busy' = Busy
  BY <1>3, <1>6 DEF HeldBy, Busy
<1>8. HandlesMatchLive'
  <2>1. \A h \in handles : h[1] # s[1]
    BY DEF Submit, s
  <2> QED
    BY <2>1, <1>3, <1>5, <1>7 DEF Places, HandlesMatchLive
<1>9. ServedOnce'
  <2>1. s \notin Queued /\ s \notin HeldBy(Serving)
    BY <1>2 DEF Places, HandlesMatchLive
  <2>2. \A i, j \in DOMAIN queue' : queue'[i] = queue'[j] => i = j
    BY <1>4, <2>1 DEF Places, ServedOnce, Queued
  <2>3. (Queued \intersect HeldBy(Serving))' = {} /\ (handles \intersect finished)' = {}
    BY <2>1, <1>2, <1>3, <1>5, <1>7 DEF Places, ServedOnce
  <2> QED
    BY <2>2, <2>3, <1>3, <1>6 DEF Places, ServedOnce
<1>10. ItemsAreReal'
  BY <1>3, <1>7 DEF Places, ItemsAreReal
<1>11. NumbersAreIssued'
  BY <1>3 DEF Places, NumbersAreIssued, Submit, QueueTypeOK, s, Submission
<1>12. UnfinishedCountsItems'
  BY <1>4, <1>7, BusyIsFinite DEF Places, UnfinishedCountsItems, Submit, QueueTypeOK
<1> QED
  BY <1>1, <1>3, <1>4, <1>8, <1>9, <1>10, <1>11, <1>12 DEF Places, QueueTypeOK

(* get() moves the oldest item from the queue to the worker.                *)
LEMMA GetKeepsPlaces ==
    ASSUME QueueTypeOK, Places, NEW w \in Workers, Get(w)
    PROVE  Places' /\ queue' \in Seq(Submission) /\ item'[w] \in Submission
<1>1. /\ queue \in Seq(Submission) /\ queue # <<>>
      /\ queue' = Tail(queue)
      /\ thread[w] = "polling" /\ thread' = [thread EXCEPT ![w] = "taken"]
      /\ item' = [item EXCEPT ![w] = Head(queue)]
      /\ UNCHANGED <<unfinished, handles, issued, finished>>
  BY DEF Get, QueueTypeOK
<1>2. /\ queue[1] = Head(queue)
      /\ Head(queue) \in Submission
      /\ queue' \in Seq(Submission)
      /\ Len(queue) \in Nat \ {0}
      /\ Len(queue') = Len(queue) - 1
      /\ \A i \in 1 .. Len(queue') : queue'[i] = queue[i + 1]
      /\ DOMAIN queue = 1 .. Len(queue)
      /\ DOMAIN queue' = 1 .. Len(queue')
  BY <1>1, HeadTailProperties, LenProperties, EmptySeq
<1>3. item'[w] = queue[1] /\ thread'[w] = "taken"
  BY <1>1, <1>2 DEF QueueTypeOK
<1>4. \A v \in Workers : v # w => item'[v] = item[v] /\ thread'[v] = thread[v]
  BY <1>1 DEF QueueTypeOK
<1>5. Queued = Queued' \union {queue[1]} /\ queue[1] \notin Queued'
  <2>1. \A i \in 1 .. Len(queue) : i = 1 \/ i - 1 \in 1 .. Len(queue')
    BY <1>2
  <2>2. \A i \in 1 .. Len(queue') : queue'[i] \in Queued /\ queue'[i] # queue[1]
    BY <1>2 DEF Queued, Places, ServedOnce
  <2>3. \A i \in 1 .. Len(queue) : queue[i] = queue[1] \/ queue[i] \in Queued'
    <3> SUFFICES ASSUME NEW i \in 1 .. Len(queue), i # 1 PROVE queue[i] \in Queued'
      OBVIOUS
    <3>1. i - 1 \in DOMAIN queue' /\ queue'[i - 1] = queue[i]
      BY <2>1, <1>2
    <3> QED
      BY <3>1 DEF Queued
  <2>4. queue[1] \in Queued
    BY <1>2 DEF Queued
  <2>5. /\ Queued = {queue[i] : i \in 1 .. Len(queue)}
        /\ Queued' = {queue'[i] : i \in 1 .. Len(queue')}
    BY <1>2 DEF Queued
  <2> QED
    BY <2>2, <2>3, <2>4, <2>5
<1>6. HeldBy(Serving)' = HeldBy(Serving) \union {queue[1]}
  BY <1>1, <1>3, <1>4 DEF HeldBy, Serving
<1>7. HandlesMatchLive'
  BY <1>1, <1>5, <1>6 DEF Places, HandlesMatchLive
<1>8. ServedOnce'
  <2>1. \A i, j \in DOMAIN queue' : queue'[i] = queue'[j] => i = j
    <3> SUFFICES ASSUME NEW i \in 1 .. Len(queue'), NEW j \in 1 .. Len(queue'),
                        queue'[i] = queue'[j]
                 PROVE  i = j
      BY <1>2
    <3>1. i + 1 \in DOMAIN queue /\ j + 1 \in DOMAIN queue /\ queue[i + 1] = queue[j + 1]
      BY <1>2
    <3>2. i + 1 = j + 1
      BY <3>1 DEF Places, ServedOnce
    <3> QED
      BY <3>2
  <2>2. queue[1] \notin HeldBy(Serving)
    BY <1>5 DEF Places, ServedOnce
  <2>3. \A u, v \in Workers :
           thread'[u] \in Serving /\ thread'[v] \in Serving /\ item'[u] = item'[v] => u = v
    <3> SUFFICES ASSUME NEW u \in Workers, NEW v \in Workers, thread'[u] \in Serving,
                        thread'[v] \in Serving, item'[u] = item'[v]
                 PROVE  u = v
      OBVIOUS
    <3>1. \A x \in Workers \ {w} : thread'[x] = thread[x] /\ item'[x] = item[x]
      BY <1>3, <1>4
    <3>2. item'[w] = queue[1]
      BY <1>3, <1>4
    <3>3. \A x \in Workers \ {w} : thread'[x] \in Serving => item'[x] # queue[1]
      BY <2>2, <3>1 DEF HeldBy
    <3>4. CASE u # w /\ v # w
      BY <3>1, <3>4 DEF Places, ServedOnce
    <3>5. CASE u = w \/ v = w
      BY <3>2, <3>3, <3>5
    <3> QED BY <3>4, <3>5
  <2> QED
    BY <2>1, <2>2, <2>3, <1>1, <1>5, <1>6 DEF Places, ServedOnce
<1>9. Busy' = Busy \union {w} /\ w \notin Busy
  BY <1>1, <1>3, <1>4 DEF Busy, Holding, Serving
<1>10. ItemsAreReal'
  <2>1. \A v \in Busy' : v = w \/ (v \in Busy /\ v \in Workers /\ v # w)
    BY <1>9 DEF Busy
  <2>2. item'[w] \in Submission
    BY <1>2, <1>3
  <2>3. \A v \in Busy : v # w => item'[v] \in Submission
    BY <1>4 DEF Places, ItemsAreReal, Busy
  <2> QED
    BY <2>1, <2>2, <2>3 DEF ItemsAreReal
<1>11. UnfinishedCountsItems'
  <2>1. Cardinality(Busy') = Cardinality(Busy) + 1
    BY <1>9, BusyIsFinite, FS_AddElement
  <2> QED
    BY <2>1, <1>1, <1>2, BusyIsFinite DEF Places, UnfinishedCountsItems
<1> QED
  BY <1>1, <1>2, <1>3, <1>7, <1>8, <1>10, <1>11 DEF Places, NumbersAreIssued

(* The clean-up pops the handle by its task: the only one of that task.     *)
LEMMA CleanupKeepsPlaces ==
    ASSUME QueueTypeOK, Places, NEW w \in Workers, Cleanup(w)
    PROVE  Places' /\ item[w] \in Submission
<1>1. /\ thread[w] \in {"returned", "raised"} /\ thread'[w] \in {"cleaned", "crashed"}
      /\ \A v \in Workers : v # w => thread'[v] = thread[v]
      /\ handles' = {h \in handles : h[1] # item[w][1]}
      /\ finished' = finished \union {item[w]}
      /\ UNCHANGED <<queue, unfinished, issued, item>>
  BY DEF Cleanup, QueueTypeOK
<1>2. w \in Busy /\ Busy' = Busy
  BY <1>1 DEF Busy, Holding, Serving
<1>3. item[w] \in Submission /\ item[w] \in HeldBy(Serving)
  BY <1>1, <1>2 DEF Places, ItemsAreReal, HeldBy, Serving
<1>4. handles' = handles \ {item[w]}
  BY <1>1, <1>3 DEF Places, HandlesMatchLive
<1>5. Queued' = Queued
  BY <1>1 DEF Queued
<1>6. HeldBy(Serving)' = HeldBy(Serving) \ {item[w]}
  BY <1>1 DEF HeldBy, Serving, Places, ServedOnce
<1>7. HandlesMatchLive'
  BY <1>3, <1>4, <1>5, <1>6 DEF Places, HandlesMatchLive, ServedOnce
<1>8. ServedOnce'
  <2>1. \A v \in Workers : thread'[v] \in Serving => thread[v] \in Serving
    BY <1>1 DEF Serving
  <2> QED
    BY <2>1, <1>1, <1>4, <1>5, <1>6 DEF Places, ServedOnce
<1>9. NumbersAreIssued'
  BY <1>1, <1>3, <1>4 DEF Places, NumbersAreIssued, HandlesMatchLive
<1> QED
  BY <1>1, <1>2, <1>3, <1>7, <1>8, <1>9 DEF Places, ItemsAreReal, UnfinishedCountsItems

(* task_done() is counted once for each item, so the count is never wrong.  *)
LEMMA TaskDoneKeepsPlaces ==
    ASSUME QueueTypeOK, Places, NEW w \in Workers, TaskDone(w)
    PROVE  Places' /\ unfinished' \in Nat
<1>1. /\ thread[w] \in {"cleaned", "crashed"} /\ thread'[w] \in {"polling", "dead"}
      /\ \A v \in Workers : v # w => thread'[v] = thread[v] /\ item'[v] = item[v]
      /\ unfinished' = unfinished - 1
      /\ queue \in Seq(Submission)
      /\ UNCHANGED <<queue, handles, issued, finished>>
  BY DEF TaskDone, QueueTypeOK
<1>2. w \in Busy /\ Busy' = Busy \ {w}
  BY <1>1 DEF Busy, Holding, Serving
<1>3. Cardinality(Busy') = Cardinality(Busy) - 1 /\ Cardinality(Busy) # 0
  BY <1>2, BusyIsFinite, FS_RemoveElement, FS_EmptySet
<1>4. Len(queue) \in Nat
  BY <1>1, LenProperties
<1>5. UnfinishedCountsItems' /\ unfinished' \in Nat
  BY <1>1, <1>3, <1>4, BusyIsFinite DEF Places, UnfinishedCountsItems
<1>6. Queued' = Queued
  BY <1>1 DEF Queued
<1>7. \A v \in Workers : /\ thread'[v] \in Serving <=> thread[v] \in Serving
                         /\ thread'[v] \in Serving => item'[v] = item[v]
  BY <1>1 DEF Serving
<1>8. HeldBy(Serving)' = HeldBy(Serving)
  BY <1>7 DEF HeldBy
<1>9. HandlesMatchLive' /\ ServedOnce'
  BY <1>1, <1>6, <1>7, <1>8 DEF Places, HandlesMatchLive, ServedOnce
<1>10. ItemsAreReal'
  BY <1>1, <1>2 DEF Places, ItemsAreReal, Busy
<1> QED
  BY <1>1, <1>5, <1>9, <1>10 DEF Places, NumbersAreIssued

-----------------------------------------------------------------------------
(* The inductive invariant: types and places.                               *)
LEMMA InitIInv == QueueInit => IInv
<1> SUFFICES ASSUME QueueInit PROVE IInv
  OBVIOUS
<1>1. Queued = {} /\ HeldBy(Serving) = {} /\ Busy = {}
  BY DEF QueueInit, Queued, HeldBy, Busy, Serving, Holding
<1>2. Places
  BY <1>1, FS_EmptySet, EmptySeq
     DEF QueueInit, Places, HandlesMatchLive, ServedOnce, ItemsAreReal,
         NumbersAreIssued, UnfinishedCountsItems, Serving
<1>3. queue \in Seq(Submission)
  BY EmptySeq DEF QueueInit
<1>4. /\ issued \in [Tasks -> 0 .. MaxSubmissions]
      /\ thread \in [Workers -> WorkerStates]
      /\ item \in [Workers -> Submission \union {NoSubmission}]
  BY QueueAssumption DEF QueueInit, WorkerStates
<1> QED
  BY <1>2, <1>3, <1>4 DEF QueueInit, QueueTypeOK, IInv

LEMMA NextIInv == IInv /\ [QueueNext]_queueVars => IInv'
<1> SUFFICES ASSUME QueueTypeOK, Places, [QueueNext]_queueVars PROVE IInv'
  BY DEF IInv
<1>1. ASSUME NEW t \in Tasks, Submit(t) PROVE IInv'
  <2>1. issued' \in [Tasks -> 0 .. MaxSubmissions] /\ unfinished' \in Nat
    BY <1>1, QueueAssumption DEF Submit, QueueTypeOK
  <2>2. thread' \in [Workers -> WorkerStates]
    BY <1>1 DEF Submit, QueueTypeOK, Revived, WorkerStates
  <2> QED
    BY <1>1, <2>1, <2>2, SubmitKeepsPlaces DEF Submit, QueueTypeOK, callVars, IInv
<1>2. ASSUME NEW t \in Tasks, Cancel(t) PROVE IInv'
  BY <1>2, QuietSteps DEF Cancel, QueueTypeOK, callVars, IInv
<1>3. ASSUME NEW w \in Workers, Get(w) PROVE IInv'
  <2>1. thread' \in [Workers -> WorkerStates]
    BY <1>3 DEF Get, QueueTypeOK, WorkerStates
  <2>2. item' \in [Workers -> Submission \union {NoSubmission}]
    BY <1>3, GetKeepsPlaces DEF Get, QueueTypeOK
  <2> QED
    BY <1>3, <2>1, <2>2, GetKeepsPlaces DEF Get, QueueTypeOK, callVars, IInv
<1>4. ASSUME NEW w \in Workers, IdleExit(w) PROVE IInv'
  BY <1>4, QuietSteps DEF IdleExit, QueueTypeOK, WorkerStates, Serving, Holding, callVars, IInv
<1>5. ASSUME NEW w \in Workers, Begin(w) PROVE IInv'
  <2>1. item[w] \in Submission
    BY <1>5 DEF Begin, Places, ItemsAreReal, Busy, Holding, Serving
  <2>2. active' \subseteq Tasks
    BY <1>5, <2>1 DEF Begin, QueueTypeOK, Submission
  <2> QED
    BY <1>5, <2>2, QuietSteps DEF Begin, QueueTypeOK, WorkerStates, Serving, Holding, callVars, IInv
<1>6. ASSUME NEW w \in Workers, CallbackReturns(w) PROVE IInv'
  BY <1>6, QuietSteps DEF CallbackReturns, QueueTypeOK, WorkerStates, Serving, Holding, callVars, IInv
<1>7. ASSUME NEW w \in Workers, CallbackRaises(w) PROVE IInv'
  BY <1>7, QuietSteps DEF CallbackRaises, QueueTypeOK, WorkerStates, Serving, Holding, callVars, IInv
<1>8. ASSUME NEW w \in Workers, Cleanup(w) PROVE IInv'
  BY <1>8, CleanupKeepsPlaces DEF Cleanup, QueueTypeOK, WorkerStates, callVars, IInv
<1>9. ASSUME NEW w \in Workers, TaskDone(w) PROVE IInv'
  BY <1>9, TaskDoneKeepsPlaces DEF TaskDone, QueueTypeOK, WorkerStates, callVars, IInv
<1>10. CASE ShutdownBegin
  BY <1>10, QuietSteps DEF ShutdownBegin, QueueTypeOK, IInv
<1>11. CASE ShutdownDrained
  BY <1>11, QuietSteps DEF ShutdownDrained, QueueTypeOK, IInv
<1>12. CASE ShutdownDeadline
  BY <1>12, QuietSteps DEF ShutdownDeadline, QueueTypeOK, IInv
<1>13. CASE ShutdownReturn
  BY <1>13, QuietSteps DEF ShutdownReturn, QueueTypeOK, IInv
<1>14. CASE UNCHANGED queueVars
  BY <1>14, QuietSteps DEF queueVars, callVars, QueueTypeOK, IInv
<1> QED
  BY <1>1, <1>2, <1>3, <1>4, <1>5, <1>6, <1>7, <1>8, <1>9, <1>10, <1>11, <1>12,
     <1>13, <1>14 DEF QueueNext, Worker

LEMMA Invariance == QueueSpec => []IInv
BY InitIInv, NextIInv, PTL DEF QueueSpec

(* Every variable keeps its type; unfinished_tasks never goes below zero    *)
(* (queue.Queue would raise ValueError in the worker).                      *)
THEOREM TypeCorrect == QueueSpec => []QueueTypeOK
<1>1. IInv => QueueTypeOK
  BY DEF IInv
<1> QED
  BY <1>1, Invariance, PTL

(* The handle table is exactly the live submissions, one per task.          *)
THEOREM HandlesAreLive == QueueSpec => []HandlesMatchLive
<1>1. IInv => HandlesMatchLive
  BY DEF IInv, Places
<1> QED
  BY <1>1, Invariance, PTL

(* No submission is executed twice, and none is live after it finished.     *)
THEOREM EachServedOnce == QueueSpec => []ServedOnce
<1>1. IInv => ServedOnce
  BY DEF IInv, Places
<1> QED
  BY <1>1, Invariance, PTL

(* unfinished_tasks, which shutdown() trusts, is exact.                     *)
THEOREM CountIsExact == QueueSpec => []UnfinishedCountsItems
<1>1. IInv => UnfinishedCountsItems
  BY DEF IInv, Places
<1> QED
  BY <1>1, Invariance, PTL

-----------------------------------------------------------------------------
(* shutdown(). What is live is in the snapshot, then cancelled: the pool is *)
(* closed before the snapshot is taken, so nothing is added later.          *)
Informed ==
    /\ shutdown # "idle" => ~accepting
    /\ shutdown = "draining" => handles \subseteq snapshot
    /\ shutdown \in {"joining", "returned"} => handles \subseteq cancelled

(* With a count of zero nothing is live.                                    *)
LEMMA NothingCountedNothingLive ==
    ASSUME QueueTypeOK, Places, unfinished = 0
    PROVE  handles = {}
<1>1. Len(queue) \in Nat /\ DOMAIN queue = 1 .. Len(queue)
  BY LenProperties DEF QueueTypeOK
<1>2. Len(queue) = 0 /\ Cardinality(Busy) = 0
  BY <1>1, BusyIsFinite DEF Places, UnfinishedCountsItems
<1>3. Busy = {} /\ Queued = {}
  BY <1>1, <1>2, BusyIsFinite, FS_EmptySet DEF Queued
<1>4. HeldBy(Serving) = {}
  BY <1>3 DEF HeldBy, Busy, Holding
<1> QED
  BY <1>3, <1>4 DEF Places, HandlesMatchLive

(* Whatever is live when shutdown() has returned was told to stop.          *)
THEOREM LaggardsAreTold == QueueSpec => []LaggardsAreCancelled
<1>1. QueueInit => Informed
  BY DEF QueueInit, Informed
<1>2. IInv /\ Informed /\ [QueueNext]_queueVars => Informed'
  <2> SUFFICES ASSUME QueueTypeOK, Places, Informed, [QueueNext]_queueVars PROVE Informed'
    BY DEF IInv
  <2>1. ASSUME NEW t \in Tasks, Submit(t) \/ Cancel(t) PROVE Informed'
    BY <2>1 DEF Submit, Cancel, Informed, callVars
  <2>2. ASSUME NEW w \in Workers, Worker(w) PROVE Informed'
    BY <2>2 DEF Worker, Get, IdleExit, Begin, CallbackReturns, CallbackRaises,
                Cleanup, TaskDone, Informed, callVars
  <2>3. CASE ShutdownBegin
    BY <2>3 DEF ShutdownBegin, Informed
  <2>4. CASE ShutdownDrained
    BY <2>4, NothingCountedNothingLive DEF ShutdownDrained, Informed
  <2>5. CASE ShutdownDeadline
    BY <2>5 DEF ShutdownDeadline, Informed
  <2>6. CASE ShutdownReturn
    BY <2>6 DEF ShutdownReturn, Informed
  <2>7. CASE UNCHANGED queueVars
    BY <2>7 DEF queueVars, callVars, Informed
  <2> QED
    BY <2>1, <2>2, <2>3, <2>4, <2>5, <2>6, <2>7 DEF QueueNext
<1>3. Informed => LaggardsAreCancelled
  BY DEF Informed, LaggardsAreCancelled
<1> QED
  BY <1>1, <1>2, <1>3, Invariance, PTL DEF QueueSpec

(* Handles, queue, counter and snapshot account for every submission.       *)
THEOREM AllIsTracked == QueueSpec => []SubmissionsAreTracked
  BY HandlesAreLive, EachServedOnce, CountIsExact, LaggardsAreTold, PTL
     DEF SubmissionsAreTracked

(* While callbacks do not raise, a thread ends only when the closed pool    *)
(* has nothing left, so a queued item always has a thread to take it.       *)
Attended ==
    /\ \A w \in Workers : thread[w] \notin {"raised", "crashed"}
    /\ queue # <<>> => \E w \in Workers : thread[w] # "dead"
    /\ shutdown # "idle" => ~accepting
    /\ shutdown = "returned" /\ drained => \A w \in Workers : thread[w] = "dead"

(* shutdown() returning True means the accepted work was served, as long as *)
(* no callback has raised (queue.py:93-114).                                *)
THEOREM DrainIsTrue == QueueSpec => DrainedMeansServed
<1>1. QueueInit => Attended
  BY DEF QueueInit, Attended
<1>2. IInv /\ Attended /\ [QueueNext]_queueVars /\ CallbacksReturn' => Attended'
  <2> SUFFICES ASSUME QueueTypeOK, Places, Attended, [QueueNext]_queueVars, CallbacksReturn'
               PROVE  Attended'
    BY DEF IInv
  <2>1. ASSUME NEW t \in Tasks, Submit(t) PROVE Attended'
    BY <2>1, QueueAssumption DEF Submit, Revived, Attended, QueueTypeOK, callVars
  <2>2. ASSUME NEW t \in Tasks, Cancel(t) PROVE Attended'
    BY <2>2 DEF Cancel, Attended, callVars
  <2>3. ASSUME NEW w \in Workers, Get(w) PROVE Attended'
    BY <2>3 DEF Get, Attended, QueueTypeOK, callVars
  <2>4. ASSUME NEW w \in Workers, IdleExit(w) PROVE Attended'
    BY <2>4 DEF IdleExit, Attended, QueueTypeOK, callVars
  <2>5. ASSUME NEW w \in Workers, Begin(w) \/ CallbackReturns(w) \/ CallbackRaises(w)
        PROVE  Attended'
    <3>1. CASE CallbackRaises(w)
      BY <3>1 DEF CallbackRaises, CallbacksReturn, QueueTypeOK
    <3>2. CASE Begin(w) \/ CallbackReturns(w)
      BY <3>2 DEF Begin, CallbackReturns, Attended, QueueTypeOK, callVars
    <3> QED
      BY <2>5, <3>1, <3>2
  <2>6. ASSUME NEW w \in Workers, Cleanup(w) \/ TaskDone(w) PROVE Attended'
    <3>1. /\ thread[w] \in {"returned", "cleaned"} /\ thread'[w] \in {"cleaned", "polling"}
          /\ \A v \in Workers : v # w => thread'[v] = thread[v]
          /\ UNCHANGED <<accepting, queue, shutdown, drained>>
      BY <2>6 DEF Cleanup, TaskDone, Attended, QueueTypeOK, callVars
    <3>2. \A v \in Workers : thread'[v] \notin {"raised", "crashed"}
      BY <3>1 DEF Attended
    <3>3. thread'[w] # "dead" /\ thread[w] # "dead"
      BY <3>1
    <3> QED
      BY <3>1, <3>2, <3>3 DEF Attended
  <2>7. CASE ShutdownBegin \/ ShutdownDrained \/ ShutdownDeadline
    BY <2>7 DEF ShutdownBegin, ShutdownDrained, ShutdownDeadline, Attended
  <2>8. CASE ShutdownReturn
    BY <2>8, Zenon DEF ShutdownReturn, Attended
  <2>9. CASE UNCHANGED queueVars
    BY <2>9 DEF queueVars, callVars, Attended
  <2> QED
    BY <2>1, <2>2, <2>3, <2>4, <2>5, <2>6, <2>7, <2>8, <2>9 DEF QueueNext, Worker
<1>3. IInv /\ Attended => ServedWhenDrained
  <2> SUFFICES ASSUME QueueTypeOK, Places, Attended, shutdown = "returned", drained
               PROVE  handles = {}
    BY DEF IInv, ServedWhenDrained
  <2>1. Queued = {}
    BY DEF Attended, Queued
  <2>2. HeldBy(Serving) = {}
    BY DEF Attended, HeldBy, Serving
  <2> QED
    BY <2>1, <2>2 DEF Places, HandlesMatchLive
<1> QED
  BY <1>1, <1>2, <1>3, Invariance, PTL DEF QueueSpec, DrainedMeansServed

-----------------------------------------------------------------------------
(* TaskQueue implements QueueContract: a slot is busy from get() to the     *)
(* clean-up, and every other step leaves the contract's state alone.        *)
THEOREM Implements == QueueSpec => ImplementsContract
<1>1. QueueInit => Contract!Init
  BY DEF QueueInit, Contract!Init, Slot, Serving
<1>2. IInv /\ [QueueNext]_queueVars => [Contract!Next]_(Contract!vars)
  <2> SUFFICES ASSUME QueueTypeOK, Places, [QueueNext]_queueVars
               PROVE  Contract!Next \/ UNCHANGED Contract!vars
    BY DEF IInv
  <2> USE DEF Contract!vars
  <2>1. ASSUME UNCHANGED <<accepting, queue, finished, item>>,
               \A w \in Workers : thread'[w] \in Serving <=> thread[w] \in Serving
        PROVE  UNCHANGED Contract!vars
    BY <2>1 DEF Slot
  <2>2. ASSUME NEW t \in Tasks, Submit(t) PROVE Contract!Next
    <3> DEFINE s == <<t, issued[t] + 1>>
    <3>1. s \in Contract!Submission
      BY <2>2, QueueAssumption DEF Submit, QueueTypeOK, Contract!Submission
    <3>2. s \notin finished
      BY <2>2 DEF Submit, QueueTypeOK, Places, NumbersAreIssued
    <3>3. \A l \in Contract!Live : l[1] # s[1]
      <4>1. Contract!Live \subseteq Queued \union HeldBy(Serving)
        BY DEF Contract!Live, Contract!Waiting, Contract!Executing, Slot, Queued, HeldBy
      <4> QED
        BY <4>1, <2>2 DEF Submit, Places, HandlesMatchLive
    <3>4. UNCHANGED Slot
      BY <2>2 DEF Submit, Slot, Revived, Serving, QueueTypeOK
    <3>5. Contract!Accept(s)
      BY <2>2, <3>2, <3>3, <3>4 DEF Submit, Contract!Accept
    <3> QED
      BY <3>1, <3>5 DEF Contract!Next
  <2>3. ASSUME NEW w \in Workers, Get(w) PROVE Contract!Next
    <3>1. Slot[w] = NoSubmission
      BY <2>3 DEF Get, Slot, Serving
    <3>2. Slot' = [Slot EXCEPT ![w] = Head(queue)]
      BY <2>3 DEF Get, Slot, Serving, QueueTypeOK
    <3>3. Contract!Start(w)
      BY <2>3, <3>1, <3>2 DEF Get, Contract!Start
    <3> QED
      BY <3>3 DEF Contract!Next
  <2>4. ASSUME NEW w \in Workers, Cleanup(w) PROVE Contract!Next
    <3>1. Slot[w] = item[w] /\ item[w] \in Submission
      BY <2>4, CleanupKeepsPlaces DEF Cleanup, Slot, Serving
    <3>2. Slot' = [Slot EXCEPT ![w] = NoSubmission]
      BY <2>4 DEF Cleanup, Slot, Serving, QueueTypeOK
    <3>3. Contract!Settle(w)
      BY <2>4, <3>1, <3>2, QueueAssumption DEF Cleanup, Contract!Settle
    <3> QED
      BY <3>3 DEF Contract!Next
  <2>5. CASE ShutdownBegin
    <3>1. Contract!Close
      BY <2>5 DEF ShutdownBegin, Contract!Close, Slot
    <3> QED
      BY <3>1 DEF Contract!Next
  <2>6. ASSUME NEW t \in Tasks, Cancel(t) PROVE UNCHANGED Contract!vars
    BY <2>6, <2>1 DEF Cancel
  <2>7. ASSUME NEW w \in Workers, IdleExit(w) \/ Begin(w) PROVE UNCHANGED Contract!vars
    BY <2>7, <2>1 DEF IdleExit, Begin, Serving, QueueTypeOK
  <2>8. ASSUME NEW w \in Workers, CallbackReturns(w) \/ CallbackRaises(w)
        PROVE  UNCHANGED Contract!vars
    BY <2>8, <2>1 DEF CallbackReturns, CallbackRaises, Serving, QueueTypeOK
  <2>9. ASSUME NEW w \in Workers, TaskDone(w) PROVE UNCHANGED Contract!vars
    BY <2>9 DEF TaskDone, Slot, Serving, QueueTypeOK
  <2>10. CASE ShutdownDrained \/ ShutdownDeadline \/ ShutdownReturn
    BY <2>10, <2>1 DEF ShutdownDrained, ShutdownDeadline, ShutdownReturn
  <2>11. CASE UNCHANGED queueVars
    BY <2>11, <2>1 DEF queueVars
  <2> QED
    BY <2>2, <2>3, <2>4, <2>5, <2>6, <2>7, <2>8, <2>9, <2>10, <2>11 DEF QueueNext, Worker
<1> QED
  BY <1>1, <1>2, Invariance, PTL DEF QueueSpec, ImplementsContract, Contract!Spec
=============================================================================
