--------------------------- MODULE EffectsProofs ---------------------------
(***************************************************************************)
(* Theorems about what reaches the outside and what it costs: the effect   *)
(* journal of a task, the reservations of several, the planning calls and  *)
(* the restore fence.  The four components share no variable; each has a   *)
(* part of its own below, with its inductive invariant.                    *)
(***************************************************************************)
EXTENDS EffectJournal, BudgetReservations, LivePlanning, RestoreFence,
        SequenceTheorems, SumTheorems, TLAPS

-----------------------------------------------------------------------------
(* The effect journal: any number of stages and calls, every ceiling.      *)

(* Only a run has coroutines, and one that is under way has a pending row.  *)
Attended ==
    \A e \in Effects :
        /\ pc[e] # "off" => running
        /\ pc[e] \in InFlight => state[e] = "pending"

(* Every dispatch has an attempt of its own.                                *)
DispatchesCounted ==
    \A e \in Effects :
        /\ state[e] = "absent" => attempts[e] = 0
        /\ sent[e] <= attempts[e]
        /\ pc[e] \in {"intent", "verified"} => sent[e] < attempts[e]

(* A call that may be admitted, or is about to be sent, was never sent.     *)
Fresh ==
    \A c \in Calls :
        /\ sent[c] <= 1
        /\ state[c] \in {"absent", "retryable"} => sent[c] = 0
        /\ pc[c] \in {"intent", "verified"} => sent[c] = 0

JournalInv == TypeOK /\ Attended /\ DispatchesCounted /\ Fresh /\ RunsKnowTheirPast /\ LedgerIsBacked

RowStates == {"absent", "pending", "completed", "retryable", "unknown"}
Places == {"off", "answered"} \union InFlight \union Over

(* The type invariant with its sets named, for the provers.                 *)
LEMMA JournalTypes ==
    TypeOK <=>
        /\ state \in [Effects -> RowStates]
        /\ attempts \in [Effects -> 0 .. 2]
        /\ measured \in [Calls -> Nat \union {Unmeasured}]
        /\ projected \subseteq Calls
        /\ authorized \in BOOLEAN
        /\ cancelled \in BOOLEAN
        /\ running \in BOOLEAN
        /\ pc \in [Effects -> Places]
        /\ sent \in [Effects -> Nat]
        /\ resumes \in 0 .. MaxResumes
        /\ restarts \in 0 .. MaxRestarts
  BY DEF TypeOK, RowStates, Places

LEMMA JournalInitially == Init => JournalInv
<1> SUFFICES ASSUME Init PROVE JournalInv
  OBVIOUS
<1> USE JournalAssumption DEF Init, Effects
<1>1. TypeOK
  <2>1. MaxResumes \in Nat /\ MaxRestarts \in Nat
    OBVIOUS
  <2>2. 0 \in 0 .. MaxResumes /\ 0 \in 0 .. MaxRestarts
    BY <2>1
  <2>3. /\ state \in [Effects -> RowStates] /\ attempts \in [Effects -> 0 .. 2]
        /\ measured \in [Calls -> Nat \union {Unmeasured}]
        /\ pc \in [Effects -> Places] /\ sent \in [Effects -> Nat]
    BY DEF RowStates, Places
  <2>4. projected \subseteq Calls /\ authorized \in BOOLEAN /\ cancelled \in BOOLEAN
        /\ running \in BOOLEAN /\ resumes \in 0 .. MaxResumes
        /\ restarts \in 0 .. MaxRestarts
    BY <2>2
  <2> QED
    BY <2>3, <2>4, JournalTypes
<1>2. Attended /\ DispatchesCounted /\ Fresh
  BY DEF Attended, DispatchesCounted, Fresh, InFlight
<1>3. RunsKnowTheirPast /\ LedgerIsBacked
  BY DEF RunsKnowTheirPast, LedgerIsBacked, Uncertain, Measured
<1> QED
  BY <1>1, <1>2, <1>3 DEF JournalInv

LEMMA JournalPreserved == JournalInv /\ [Next]_vars => JournalInv'
<1> SUFFICES ASSUME TypeOK, Attended, DispatchesCounted, Fresh, RunsKnowTheirPast, LedgerIsBacked,
                    [Next]_vars
             PROVE  JournalInv'
  BY DEF JournalInv
<1> USE JournalAssumption DEF Effects, Goto, InFlight, Over, Uncertain, Measured
<1>1. CASE UNCHANGED vars
  BY <1>1 DEF JournalInv, TypeOK, Attended, DispatchesCounted, Fresh, RunsKnowTheirPast, LedgerIsBacked, vars, rows
<1>2. ASSUME NEW e \in Effects, Replay(e) PROVE JournalInv'
  <2> USE <1>2 DEF Replay, Reached, rows
  <2>1. TypeOK'
    BY JournalTypes DEF TypeOK
  <2>2. Attended' /\ DispatchesCounted'
    BY JournalTypes DEF RowStates, Places, Attended, DispatchesCounted
  <2>3. Fresh'
    BY JournalTypes DEF RowStates, Places, Attended, DispatchesCounted, Fresh
  <2>4. RunsKnowTheirPast' /\ LedgerIsBacked'
    BY JournalTypes DEF RowStates, Places, Attended, RunsKnowTheirPast, LedgerIsBacked
  <2> QED
    BY <2>1, <2>2, <2>3, <2>4 DEF JournalInv
<1>3. ASSUME NEW e \in Effects, Admit(e) PROVE JournalInv'
  <2> USE <1>3 DEF Admit, Reached, Admissible, AttemptLimit, rows
  <2>0. attempts[e] \in 0 .. 1
    BY JournalTypes DEF DispatchesCounted
  <2>1. TypeOK'
    BY <2>0, JournalTypes DEF TypeOK
  <2>2. Attended' /\ DispatchesCounted'
    BY JournalTypes DEF RowStates, Places, Attended, DispatchesCounted
  <2>3. Fresh'
    BY JournalTypes DEF RowStates, Places, Attended, DispatchesCounted, Fresh
  <2>4. RunsKnowTheirPast' /\ LedgerIsBacked'
    BY JournalTypes DEF RowStates, Places, Attended, RunsKnowTheirPast, LedgerIsBacked
  <2> QED
    BY <2>1, <2>2, <2>3, <2>4 DEF JournalInv
<1>4. ASSUME NEW e \in Effects, Refuse(e) PROVE JournalInv'
  <2> USE <1>4 DEF Refuse, Reached, rows
  <2>1. TypeOK'
    BY JournalTypes DEF TypeOK
  <2>2. Attended' /\ DispatchesCounted'
    BY JournalTypes DEF RowStates, Places, Attended, DispatchesCounted
  <2>3. Fresh'
    BY JournalTypes DEF RowStates, Places, Attended, DispatchesCounted, Fresh
  <2>4. RunsKnowTheirPast' /\ LedgerIsBacked'
    BY JournalTypes DEF RowStates, Places, Attended, RunsKnowTheirPast, LedgerIsBacked
  <2> QED
    BY <2>1, <2>2, <2>3, <2>4 DEF JournalInv
<1>5. ASSUME NEW e \in Effects, Verify(e) PROVE JournalInv'
  <2> USE <1>5 DEF Verify, rows
  <2>1. TypeOK'
    BY JournalTypes DEF TypeOK
  <2>2. Attended' /\ DispatchesCounted'
    BY JournalTypes DEF RowStates, Places, Attended, DispatchesCounted
  <2>3. Fresh'
    BY JournalTypes DEF RowStates, Places, Attended, DispatchesCounted, Fresh
  <2>4. RunsKnowTheirPast' /\ LedgerIsBacked'
    BY JournalTypes DEF RowStates, Places, Attended, RunsKnowTheirPast, LedgerIsBacked
  <2> QED
    BY <2>1, <2>2, <2>3, <2>4 DEF JournalInv
<1>6. ASSUME NEW e \in Effects, Send(e) PROVE JournalInv'
  <2> USE <1>6 DEF Send, rows
  <2>1. TypeOK'
    BY JournalTypes DEF TypeOK
  <2>2. Attended' /\ DispatchesCounted'
    BY JournalTypes DEF RowStates, Places, Attended, DispatchesCounted
  <2>3. Fresh'
    BY JournalTypes DEF RowStates, Places, Attended, DispatchesCounted, Fresh
  <2>4. RunsKnowTheirPast' /\ LedgerIsBacked'
    BY JournalTypes DEF RowStates, Places, Attended, RunsKnowTheirPast, LedgerIsBacked
  <2> QED
    BY <2>1, <2>2, <2>3, <2>4 DEF JournalInv
<1>7. ASSUME NEW e \in Effects, Project(e) PROVE JournalInv'
  <2> USE <1>7 DEF Project, Projects, rows
  <2>1. TypeOK'
    BY JournalTypes DEF TypeOK
  <2>2. Attended' /\ DispatchesCounted'
    BY JournalTypes DEF RowStates, Places, Attended, DispatchesCounted
  <2>3. Fresh'
    BY JournalTypes DEF RowStates, Places, Attended, DispatchesCounted, Fresh
  <2>4. RunsKnowTheirPast' /\ LedgerIsBacked'
    BY JournalTypes DEF RowStates, Places, Attended, RunsKnowTheirPast, LedgerIsBacked
  <2> QED
    BY <2>1, <2>2, <2>3, <2>4 DEF JournalInv
<1>8. ASSUME NEW e \in Effects, ProjectRaises(e) PROVE JournalInv'
  <2> USE <1>8 DEF ProjectRaises, rows
  <2>1. TypeOK'
    BY JournalTypes DEF TypeOK
  <2>2. Attended' /\ DispatchesCounted'
    BY JournalTypes DEF RowStates, Places, Attended, DispatchesCounted
  <2>3. Fresh'
    BY JournalTypes DEF RowStates, Places, Attended, DispatchesCounted, Fresh
  <2>4. RunsKnowTheirPast' /\ LedgerIsBacked'
    BY JournalTypes DEF RowStates, Places, Attended, RunsKnowTheirPast, LedgerIsBacked
  <2> QED
    BY <2>1, <2>2, <2>3, <2>4 DEF JournalInv
<1>9. ASSUME NEW c \in Calls, Confirm(c) PROVE JournalInv'
  <2> USE <1>9 DEF Confirm, rows
  <2>1. TypeOK'
    BY JournalTypes DEF TypeOK
  <2>2. Attended' /\ DispatchesCounted'
    BY JournalTypes DEF RowStates, Places, Attended, DispatchesCounted
  <2>3. Fresh'
    BY JournalTypes DEF RowStates, Places, Attended, DispatchesCounted, Fresh
  <2>4. RunsKnowTheirPast' /\ LedgerIsBacked'
    BY JournalTypes DEF RowStates, Places, Attended, RunsKnowTheirPast, LedgerIsBacked
  <2> QED
    BY <2>1, <2>2, <2>3, <2>4 DEF JournalInv
<1>10. ASSUME NEW c \in Calls, Doubt(c) PROVE JournalInv'
  <2> USE <1>10 DEF Doubt, rows
  <2>1. TypeOK'
    BY JournalTypes DEF TypeOK
  <2>2. Attended' /\ DispatchesCounted'
    BY JournalTypes DEF RowStates, Places, Attended, DispatchesCounted
  <2>3. Fresh'
    BY JournalTypes DEF RowStates, Places, Attended, DispatchesCounted, Fresh
  <2>4. RunsKnowTheirPast' /\ LedgerIsBacked'
    BY JournalTypes DEF RowStates, Places, Attended, RunsKnowTheirPast, LedgerIsBacked
  <2> QED
    BY <2>1, <2>2, <2>3, <2>4 DEF JournalInv
<1>11. ASSUME NEW s \in Stages, StageCompletes(s) PROVE JournalInv'
  <2> USE <1>11 DEF StageCompletes, rows
  <2>1. TypeOK'
    BY JournalTypes DEF TypeOK
  <2>2. Attended' /\ DispatchesCounted'
    BY JournalTypes DEF RowStates, Places, Attended, DispatchesCounted
  <2>3. Fresh'
    BY JournalTypes DEF RowStates, Places, Attended, DispatchesCounted, Fresh
  <2>4. RunsKnowTheirPast' /\ LedgerIsBacked'
    BY JournalTypes DEF RowStates, Places, Attended, RunsKnowTheirPast, LedgerIsBacked
  <2> QED
    BY <2>1, <2>2, <2>3, <2>4 DEF JournalInv
<1>12. ASSUME NEW s \in Stages, StageFails(s) PROVE JournalInv'
  <2> USE <1>12 DEF StageFails, rows
  <2>1. TypeOK'
    BY JournalTypes DEF TypeOK
  <2>2. Attended' /\ DispatchesCounted'
    BY JournalTypes DEF RowStates, Places, Attended, DispatchesCounted
  <2>3. Fresh'
    BY JournalTypes DEF RowStates, Places, Attended, DispatchesCounted, Fresh
  <2>4. RunsKnowTheirPast' /\ LedgerIsBacked'
    BY JournalTypes DEF RowStates, Places, Attended, RunsKnowTheirPast, LedgerIsBacked
  <2> QED
    BY <2>1, <2>2, <2>3, <2>4 DEF JournalInv
<1>13. CASE RunEnds
  <2> USE <1>13 DEF RunEnds, rows
  <2>1. TypeOK'
    BY JournalTypes DEF TypeOK
  <2>2. Attended' /\ DispatchesCounted'
    BY JournalTypes DEF RowStates, Places, Attended, DispatchesCounted
  <2>3. Fresh'
    BY JournalTypes DEF RowStates, Places, Attended, DispatchesCounted, Fresh
  <2>4. RunsKnowTheirPast' /\ LedgerIsBacked'
    BY JournalTypes DEF RowStates, Places, Attended, RunsKnowTheirPast, LedgerIsBacked
  <2> QED
    BY <2>1, <2>2, <2>3, <2>4 DEF JournalInv
<1>14. CASE Report
  <2> USE <1>14 DEF Report, rows
  <2>1. TypeOK'
    BY JournalTypes DEF TypeOK
  <2>2. Attended' /\ DispatchesCounted'
    BY JournalTypes DEF RowStates, Places, Attended, DispatchesCounted
  <2>3. Fresh'
    BY JournalTypes DEF RowStates, Places, Attended, DispatchesCounted, Fresh
  <2>4. RunsKnowTheirPast' /\ LedgerIsBacked'
    BY JournalTypes DEF RowStates, Places, Attended, RunsKnowTheirPast, LedgerIsBacked
  <2> QED
    BY <2>1, <2>2, <2>3, <2>4 DEF JournalInv
<1>15. CASE Revoke
  <2> USE <1>15 DEF Revoke, rows
  <2>1. TypeOK'
    BY JournalTypes DEF TypeOK
  <2>2. Attended' /\ DispatchesCounted'
    BY JournalTypes DEF RowStates, Places, Attended, DispatchesCounted
  <2>3. Fresh'
    BY JournalTypes DEF RowStates, Places, Attended, DispatchesCounted, Fresh
  <2>4. RunsKnowTheirPast' /\ LedgerIsBacked'
    BY JournalTypes DEF RowStates, Places, Attended, RunsKnowTheirPast, LedgerIsBacked
  <2> QED
    BY <2>1, <2>2, <2>3, <2>4 DEF JournalInv
<1>16. CASE Signal
  <2> USE <1>16 DEF Signal, rows
  <2>1. TypeOK'
    BY JournalTypes DEF TypeOK
  <2>2. Attended' /\ DispatchesCounted'
    BY JournalTypes DEF RowStates, Places, Attended, DispatchesCounted
  <2>3. Fresh'
    BY JournalTypes DEF RowStates, Places, Attended, DispatchesCounted, Fresh
  <2>4. RunsKnowTheirPast' /\ LedgerIsBacked'
    BY JournalTypes DEF RowStates, Places, Attended, RunsKnowTheirPast, LedgerIsBacked
  <2> QED
    BY <2>1, <2>2, <2>3, <2>4 DEF JournalInv
<1>17. CASE Crash
  <2> USE <1>17 DEF Crash, rows
  <2>0. restarts + 1 \in 0 .. MaxRestarts
    BY JournalTypes
  <2>1. TypeOK'
    BY <2>0, JournalTypes DEF TypeOK
  <2>2. Attended' /\ DispatchesCounted'
    BY JournalTypes DEF RowStates, Places, Attended, DispatchesCounted
  <2>3. Fresh'
    BY JournalTypes DEF RowStates, Places, Attended, DispatchesCounted, Fresh
  <2>4. RunsKnowTheirPast' /\ LedgerIsBacked'
    BY JournalTypes DEF RowStates, Places, Attended, RunsKnowTheirPast, LedgerIsBacked
  <2> QED
    BY <2>1, <2>2, <2>3, <2>4 DEF JournalInv
<1>18. CASE Resume
  <2> USE <1>18 DEF Resume, MayResume, Doubtful, Recoverable, rows
  <2>1. TypeOK'
    BY JournalTypes DEF TypeOK
  <2>2. Attended' /\ DispatchesCounted'
    BY JournalTypes DEF RowStates, Places, Attended, DispatchesCounted
  <2>3. Fresh'
    BY JournalTypes DEF RowStates, Places, Attended, DispatchesCounted, Fresh
  <2>4. RunsKnowTheirPast' /\ LedgerIsBacked'
    BY JournalTypes DEF RowStates, Places, Attended, RunsKnowTheirPast, LedgerIsBacked
  <2> QED
    BY <2>1, <2>2, <2>3, <2>4 DEF JournalInv
<1> QED
  BY <1>1, <1>2, <1>3, <1>4, <1>5, <1>6, <1>7, <1>8, <1>9, <1>10, <1>11, <1>12, <1>13, <1>14, <1>15, <1>16, <1>17, <1>18 DEF Next

-----------------------------------------------------------------------------
LEMMA JournalInvariant == Spec => []JournalInv
  BY JournalInitially, JournalPreserved, PTL DEF Spec

(* The journal, its coroutines and its counters keep their types; at most   *)
(* two attempts are ever admitted (effects.py:362-368).                     *)
THEOREM JournalTypeCorrect == Spec => []TypeOK
  BY JournalInvariant, PTL DEF JournalInv

(* No call to the outside is dispatched twice, and no stage more than       *)
(* twice, whatever is lost, cancelled, late or resumed (effects.py:389-398, *)
(* 156-200).                                                                *)
THEOREM CallsAreSentOnce == Spec => []NothingIsReissued
<1>1. JournalInv => NothingIsReissued
  <2> SUFFICES ASSUME JournalInv PROVE NothingIsReissued
    OBVIOUS
  <2>1. \A c \in Calls : sent[c] <= 1
    BY DEF JournalInv, Fresh
  <2>2. ASSUME NEW s \in Stages PROVE sent[s] <= 2
    <3>1. s \in Effects
      BY DEF Effects
    <3>2. sent[s] <= attempts[s] /\ attempts[s] \in 0 .. 2 /\ sent[s] \in Nat
      BY <3>1, JournalTypes DEF JournalInv, DispatchesCounted
    <3> QED
      BY <3>2
  <2> QED
    BY <2>1, <2>2 DEF NothingIsReissued
<1> QED
  BY <1>1, JournalInvariant, PTL

(* A run never goes on over a call of an earlier run that is in doubt       *)
(* (effects.py:156-190).                                                    *)
THEOREM NoRunOverDoubt == Spec => []RunsKnowTheirPast
  BY JournalInvariant, PTL DEF JournalInv

(* What the runtime ledger charged is a measurement the journal still holds *)
(* (effects.py:544-575).                                                    *)
THEOREM ChargesAreMeasured == Spec => []LedgerIsBacked
  BY JournalInvariant, PTL DEF JournalInv

(* A call is measured when it is over; what it was confirmed to cost is     *)
(* within its ceiling.                                                      *)
Priced ==
    \A c \in Calls :
        /\ state[c] \in {"absent", "retryable", "pending"} => measured[c] = Unmeasured
        /\ state[c] = "completed" => measured[c] \in Nat /\ measured[c] <= Reserve[c]
        /\ pc[c] = "answered" => state[c] = "completed"

SpendInv == Priced /\ EnvelopeHolds

(* What a step may do to a call it does not admit.                          *)
CallMoves(c) ==
    /\ c \in Live' => c \in Live
    /\ measured'[c] = measured[c] \/ measured[c] = Unmeasured

LEMMA StepMovesCalls ==
    ASSUME JournalInv, Priced, Next, NEW c \in Calls
    PROVE  (~ Admit(c) => CallMoves(c)) /\ (Admit(c) => measured' = measured)
<1> USE DEF CallMoves, Live
<1>1. /\ Effects = Stages \union Calls
      /\ Stages \intersect Calls = {}
      /\ state \in [Effects -> RowStates]
      /\ measured \in [Calls -> Nat \union {Unmeasured}]
      /\ pc[c] \in InFlight => state[c] = "pending"
  BY JournalAssumption, JournalTypes DEF JournalInv, Attended, Effects
<1>2. Admit(c) => measured' = measured
  BY DEF Admit
<1>3. ASSUME NEW e \in Effects, ~ Admit(c),
             Replay(e) \/ Admit(e) \/ Refuse(e) \/ Verify(e) \/ Send(e) \/ Project(e) \/ ProjectRaises(e)
      PROVE  CallMoves(c)
  <2>1. measured' = measured
    BY <1>3 DEF Replay, Admit, Refuse, Verify, Send, Project, ProjectRaises, rows
  <2>2. CASE e = c /\ ProjectRaises(e)
    BY <2>1, <2>2, <1>1 DEF ProjectRaises, Priced
  <2>3. CASE e # c \/ ~ ProjectRaises(e)
    BY <2>1, <2>3, <1>1, <1>3 DEF Replay, Admit, Refuse, Verify, Send, Project, ProjectRaises, rows
  <2> QED BY <2>2, <2>3
<1>4. ASSUME NEW d \in Calls, Confirm(d) \/ Doubt(d)
      PROVE  CallMoves(c)
  <2>1. c = d => state[c] = "pending" /\ measured[c] = Unmeasured
    BY <1>1, <1>4 DEF Confirm, Doubt, InFlight, Priced
  <2>2. c # d => state'[c] = state[c] /\ measured'[c] = measured[c]
    BY <1>1, <1>4 DEF Confirm, Doubt
  <2> QED BY <2>1, <2>2
<1>5. ASSUME NEW s \in Stages, StageCompletes(s) \/ StageFails(s)
      PROVE  CallMoves(c)
  BY <1>1, <1>5 DEF StageCompletes, StageFails
<1>6. CASE RunEnds \/ Report \/ Revoke \/ Signal \/ Crash
  BY <1>6 DEF RunEnds, Report, Revoke, Signal, Crash, rows
<1>7. CASE Resume
  BY <1>1, <1>7 DEF Resume
<1> QED BY <1>2, <1>3, <1>4, <1>5, <1>6, <1>7 DEF Next

LEMMA PricedPreserved == JournalInv /\ Priced /\ [Next]_vars => Priced'
<1> SUFFICES ASSUME JournalInv, Priced, [Next]_vars PROVE Priced'
  OBVIOUS
<1> DEFINE Good(c) ==
        /\ state[c] \in {"absent", "retryable", "pending"} => measured[c] = Unmeasured
        /\ state[c] = "completed" => measured[c] \in Nat /\ measured[c] <= Reserve[c]
        /\ pc[c] = "answered" => state[c] = "completed"
<1>1. SUFFICES ASSUME NEW c \in Calls, Next PROVE Good(c)'
  BY DEF Priced, vars, rows
<1>2. /\ Effects = Stages \union Calls
      /\ Stages \intersect Calls = {}
      /\ Reserve[c] \in Nat
      /\ state \in [Effects -> RowStates]
      /\ measured \in [Calls -> Nat \union {Unmeasured}]
      /\ pc \in [Effects -> Places]
      /\ pc[c] \in InFlight => state[c] = "pending"
      /\ pc[c] # "off" => running
  BY JournalAssumption, JournalTypes DEF JournalInv, Attended, Effects
<1>3. /\ state[c] \in {"absent", "retryable", "pending"} => measured[c] = Unmeasured
      /\ state[c] = "completed" => measured[c] \in Nat /\ measured[c] <= Reserve[c]
      /\ pc[c] = "answered" => state[c] = "completed"
  BY DEF Priced
<1>4. ASSUME NEW e \in Effects,
             Replay(e) \/ Admit(e) \/ Refuse(e) \/ Verify(e) \/ Send(e) \/ Project(e) \/ ProjectRaises(e)
      PROVE  Good(c)'
  <2>1. measured' = measured
    BY <1>4 DEF Replay, Admit, Refuse, Verify, Send, Project, ProjectRaises, rows
  <2>2. CASE e # c
    <3>1. state'[c] = state[c] /\ pc'[c] = pc[c]
      BY <2>2, <1>2, <1>4 DEF Replay, Admit, Refuse, Verify, Send, Project, ProjectRaises, rows, Goto
    <3> QED BY <2>1, <3>1, <1>3
  <2>3. CASE e = c
    <3>1. CASE Admit(c)
      BY <3>1, <2>1, <1>2, <1>3 DEF Admit, Admissible, Goto
    <3>2. CASE Replay(c) \/ Refuse(c) \/ Send(c) \/ Project(c)
      BY <3>2, <2>1, <1>2, <1>3 DEF Replay, Refuse, Send, Project, Goto, rows
    <3>3. CASE Verify(c)
      BY <3>3, <2>1, <1>2, <1>3 DEF Verify, Goto, InFlight
    <3>4. CASE ProjectRaises(c)
      BY <3>4, <2>1, <1>2, <1>3 DEF ProjectRaises, Goto
    <3> QED BY <1>4, <2>3, <3>1, <3>2, <3>3, <3>4
  <2> QED BY <2>2, <2>3
<1>5. ASSUME NEW d \in Calls, Confirm(d) \/ Doubt(d)
      PROVE  Good(c)'
  <2>1. CASE c = d /\ Confirm(d)
    BY <2>1, <1>2 DEF Confirm, Goto
  <2>2. CASE c = d /\ Doubt(d)
    BY <2>2, <1>2 DEF Doubt, Goto
  <2>3. CASE c # d
    BY <2>3, <1>2, <1>3, <1>5 DEF Confirm, Doubt, Goto
  <2> QED BY <1>5, <2>1, <2>2, <2>3
<1>6. ASSUME NEW s \in Stages, StageCompletes(s) \/ StageFails(s)
      PROVE  Good(c)'
  <2>1. CASE StageCompletes(s)
    BY <2>1, <1>2, <1>3 DEF StageCompletes, Goto
  <2>2. CASE StageFails(s)
    BY <2>2, <1>2, <1>3 DEF StageFails
  <2> QED BY <1>6, <2>1, <2>2
<1>7. CASE RunEnds \/ Report \/ Revoke \/ Signal \/ Crash
  BY <1>7, <1>2, <1>3 DEF RunEnds, Report, Revoke, Signal, Crash, rows
<1>8. CASE Resume
  BY <1>8, <1>2, <1>3 DEF Resume, MayResume, Recoverable, Doubtful, Uncertain
<1> QED BY <1>1, <1>4, <1>5, <1>6, <1>7, <1>8 DEF Next

(* What is held against the envelope, for the sums.                         *)
HoldingsAreSound ==
    /\ IsFiniteSet(Live) /\ Live \subseteq Calls
    /\ \A c \in Calls : Ceiling(c) \in Nat /\ Ceiling(c) <= Reserve[c]
    /\ \A c \in Live : Held(c) \in Nat /\ Ceiling(c) <= Held(c)

LEMMA Holdings == JournalInv /\ Priced => HoldingsAreSound
<1> SUFFICES ASSUME JournalInv, Priced PROVE HoldingsAreSound
  OBVIOUS
<1>1. /\ IsFiniteSet(Calls) /\ Live \subseteq Calls
      /\ \A c \in Calls : Reserve[c] \in Nat /\ measured[c] \in Nat \union {Unmeasured}
  BY JournalAssumption DEF JournalInv, TypeOK, Live
<1>2. \A c \in Calls : Ceiling(c) \in Nat /\ Ceiling(c) <= Reserve[c]
  BY <1>1 DEF Ceiling
<1>3. ASSUME NEW c \in Live PROVE Held(c) \in Nat /\ Ceiling(c) <= Held(c)
  <2>1. state[c] = "completed" => measured[c] \in Nat /\ measured[c] <= Reserve[c]
    BY <1>1 DEF Priced
  <2>2. Unmeasured \notin Nat
    BY JournalAssumption
  <2> QED BY <1>1, <2>1, <2>2 DEF Held, Larger, Ceiling
<1> QED BY <1>1, <1>2, <1>3, FS_Subset DEF HoldingsAreSound

LEMMA EnvelopePreserved == JournalInv /\ SpendInv /\ [Next]_vars => EnvelopeHolds'
<1> SUFFICES ASSUME JournalInv, Priced, EnvelopeHolds, [Next]_vars PROVE EnvelopeHolds'
  BY DEF SpendInv
<1> DEFINE old == [c \in Live |-> Ceiling(c)]
           new == [c \in Live' |-> Ceiling(c)']
           held == [c \in Live |-> Held(c)]
<1>1. CASE UNCHANGED vars
  BY <1>1 DEF EnvelopeHolds, Live, Ceiling, vars, rows
<1>2. CASE Next
  <2>1. JournalInv' /\ Priced'
    BY JournalPreserved, PricedPreserved
  <2>2. /\ IsFiniteSet(Live) /\ Live \subseteq Calls
        /\ \A c \in Calls : Ceiling(c) \in Nat /\ Ceiling(c) <= Reserve[c]
        /\ \A c \in Live : Held(c) \in Nat /\ Ceiling(c) <= Held(c)
    BY Holdings DEF HoldingsAreSound
  <2>3. /\ Live' \subseteq Calls
        /\ \A c \in Calls : Ceiling(c)' \in Nat /\ Ceiling(c)' <= Reserve[c]
    <3>1. HoldingsAreSound'
      BY <2>1, Holdings, PTL
    <3> QED BY <3>1 DEF HoldingsAreSound
  <2>4. \A c \in Calls : CallMoves(c) \/ Admit(c) => Ceiling(c)' <= Ceiling(c)
    <3> SUFFICES ASSUME NEW c \in Calls, CallMoves(c) \/ Admit(c) PROVE Ceiling(c)' <= Ceiling(c)
      OBVIOUS
    <3>1. CASE measured'[c] = measured[c]
      BY <3>1, <2>2 DEF Ceiling
    <3>2. CASE measured[c] = Unmeasured
      BY <3>2, <2>2, <2>3 DEF Ceiling
    <3> QED BY <3>1, <3>2 DEF CallMoves, Admit
  <2>5. EnvelopeHolds <=> SumFunctionOnSet(old, Live) <= Envelope
    BY DEF EnvelopeHolds, SumFunction
  <2>6. EnvelopeHolds' <=> SumFunctionOnSet(new, Live') <= Envelope
    BY DEF EnvelopeHolds, SumFunction
  <2>7. Envelope \in Nat
    BY JournalAssumption
  <2>8. CASE \A c \in Calls : ~ Admit(c)
    <3>1. \A c \in Calls : CallMoves(c)
      BY <1>2, <2>8, StepMovesCalls
    <3>2. Live' \subseteq Live
      BY <2>3, <3>1 DEF CallMoves
    <3>3. \A c \in Live' : new[c] \in Nat /\ new[c] <= old[c]
      BY <2>2, <2>3, <2>4, <3>1, <3>2
    <3>4. \A c \in Live : old[c] \in Nat
      BY <2>2
    <3> HIDE DEF old, new
    <3>5. SumFunctionOnSet(new, Live') <= SumFunctionOnSet(old, Live)
      BY <2>2, <3>2, <3>3, <3>4, SumShrinks
    <3>6. SumFunctionOnSet(old, Live) \in Nat /\ SumFunctionOnSet(new, Live') \in Nat
      BY <2>2, <3>2, <3>3, <3>4, FS_Subset, SumType
    <3> QED BY <2>5, <2>6, <2>7, <3>5, <3>6
  <2>9. CASE \E c \in Calls : Admit(c)
    <3>1. PICK c \in Calls : Admit(c)
      BY <2>9
    <3>2. /\ c \notin Live /\ Live' = Live \cup {c}
          /\ SumFunctionOnSet(held, Live) + Reserve[c] <= Envelope
          /\ measured' = measured
      <4>1. state \in [Effects -> RowStates] /\ c \in Effects
        BY JournalTypes DEF JournalInv, Effects
      <4> QED BY <3>1, <4>1 DEF Admit, Admissible, Live, Committed, SumFunction
    <3>3. /\ \A d \in Live : new[d] \in Nat /\ new[d] <= held[d] /\ held[d] \in Nat
          /\ new[c] \in Nat /\ new[c] <= Reserve[c] /\ Reserve[c] \in Nat
      BY <2>2, <2>3, <3>2, JournalAssumption DEF Ceiling
    <3> HIDE DEF new, held
    <3>4. SumFunctionOnSet(new, Live \cup {c}) = new[c] + SumFunctionOnSet(new, Live)
      BY <2>2, <3>2, <3>3, SumAdd
    <3>5. /\ SumFunctionOnSet(new, Live) <= SumFunctionOnSet(held, Live)
          /\ SumFunctionOnSet(new, Live) \in Nat
          /\ SumFunctionOnSet(held, Live) \in Nat
      BY <2>2, <3>3, SumMonotone, SumType
    <3> QED BY <2>6, <2>7, <3>2, <3>3, <3>4, <3>5
  <2> QED BY <2>8, <2>9
<1> QED BY <1>1, <1>2

(* What a task may cost is bounded whatever its calls answer: run() admits  *)
(* a call only with its ceiling within what the envelope has left, and      *)
(* never takes a ceiling off before the call is measured (effects.py:       *)
(* 408-450, authorization.py:265-302).                                      *)
THEOREM SpendIsBounded == Spec => []SpendIsMeasured
<1>1. Init => Priced /\ EnvelopeHolds
  <2> SUFFICES ASSUME Init PROVE Priced /\ EnvelopeHolds
    OBVIOUS
  <2>1. Priced
    BY DEF Init, Priced, Effects
  <2>2. Live = {}
    BY DEF Init, Live, Effects
  <2>3. SumFunctionOnSet([c \in Live |-> Ceiling(c)], Live) = 0
    BY <2>2, SumEmpty
  <2> QED BY <2>1, <2>3, JournalAssumption DEF EnvelopeHolds, SumFunction
<1>2. JournalInv /\ SpendInv /\ [Next]_vars => SpendInv'
  BY PricedPreserved, EnvelopePreserved DEF SpendInv
<1>3. JournalInv /\ SpendInv => SpendIsMeasured
  BY DEF JournalInv, SpendInv, SpendIsMeasured
<1> QED BY <1>1, <1>2, <1>3, JournalInvariant, PTL DEF Spec, SpendInv

-----------------------------------------------------------------------------
(* Reservations: any tasks and amounts, any number of start-ups.           *)

(* A real task is never settled, a demo has nothing to project, and one     *)
(* that runs has an open reservation.                                       *)
RealIsNotSettled == \A t \in RealTasks : row[t] # NoRow => row[t].settled = NotSettled
DemoIsProjected == \A t \in Tasks \ RealTasks : unprojected[t] = 0
RunningIsOpen == \A t \in Tasks \ RealTasks : stage[t] = "running" => Open(t)

(* What a start-up has yet to announce was reserved.                        *)
AuditsHaveRows == \A t \in audits : row[t] # NoRow

BudgetInv ==
    /\ BudgetTypeOK /\ SettlementIsFinal
    /\ RealIsNotSettled /\ DemoIsProjected /\ RunningIsOpen /\ AuditsHaveRows

(* What a step may do to the row of a task.                                 *)
RowMoves(t) ==
    \/ row'[t] = row[t]
    \/ row'[t] = Unconfirmed(t, usage[t])
    \/ ~Real(t) /\ row'[t] = Settled(t, usage[t])
    \/ row[t] = NoRow /\ \E amount \in Amounts : row'[t] = Reserved(amount)

(* A step that lets a task run, or charges it, leaves its row alone; a task *)
(* that comes to run has an open row, and what is charged is a real task, a *)
(* running one, or one with something to project.                           *)
TaskMoves(t) ==
    /\ RowMoves(t)
    /\ stage'[t] = "running" => row'[t] = row[t] /\ (stage[t] = "running" \/ Open(t))
    /\ usage'[t] # usage[t] =>
          /\ row'[t] = row[t]
          /\ Real(t) \/ stage[t] = "running" \/ unprojected[t] > 0
    /\ ~Real(t) /\ unprojected[t] = 0 => unprojected'[t] = 0

-----------------------------------------------------------------------------
(* Marking an open row keeps it open and its exposure.                      *)
LEMMA MarkedRow ==
    ASSUME BudgetTypeOK, NEW t \in Tasks, NEW used \in Nat
    PROVE  LET new == Unconfirmed(t, used) IN
           /\ new \in Rows \union {NoRow}
           /\ Open(t) => /\ new \in Rows
                         /\ new.settled = NotSettled /\ new.required = TRUE
                         /\ new.reserved = row[t].reserved
                         /\ new.recorded >= row[t].recorded
           /\ ~Open(t) => new = row[t]
<1>1. row[t] \in Rows \union {NoRow}
  BY DEF BudgetTypeOK
<1>2. CASE Open(t)
  <2>1. row[t] \in Rows
    BY <1>1, <1>2 DEF Open
  <2> DEFINE more == LargerOf(row[t].recorded, used)
  <2>2. more \in Nat /\ more >= row[t].recorded
    BY <2>1 DEF Rows, LargerOf
  <2>3. Unconfirmed(t, used) = [row[t] EXCEPT !.required = TRUE, !.recorded = more]
    BY <1>2 DEF Unconfirmed
  <2> HIDE DEF more
  <2> QED  BY <1>2, <2>1, <2>2, <2>3 DEF Open, Rows
<1>3. CASE ~Open(t)
  BY <1>1, <1>3 DEF Unconfirmed
<1> QED  BY <1>2, <1>3

(* Settling an open row gives it the usage for ever.                        *)
LEMMA SettledRow ==
    ASSUME BudgetTypeOK, NEW t \in Tasks, NEW used \in Nat
    PROVE  LET new == Settled(t, used) IN
           /\ new \in Rows \union {NoRow}
           /\ Open(t) => new \in Rows /\ new.settled = used
           /\ ~Open(t) => new = row[t]
<1>1. row[t] \in Rows \union {NoRow}
  BY DEF BudgetTypeOK
<1>2. CASE Open(t)
  BY <1>1, <1>2 DEF Open, Settled, Rows
<1>3. CASE ~Open(t)
  BY <1>1, <1>3 DEF Settled
<1> QED  BY <1>2, <1>3

(* A new row is open and says nothing is spent.                             *)
LEMMA ReservedRow ==
    ASSUME NEW amount \in Amounts
    PROVE  /\ Reserved(amount) \in Rows
           /\ Reserved(amount) # NoRow
           /\ Reserved(amount).settled = NotSettled
<1>1. Reserved(amount) \in Rows
  BY BudgetAssumption DEF Reserved, Rows
<1> QED  BY <1>1, BudgetAssumption DEF Reserved

-----------------------------------------------------------------------------
(* Every step moves every task in one of these ways.                        *)
LEMMA StepMoves ==
    ASSUME BudgetTypeOK, [BudgetNext]_budgetVars, NEW t \in Tasks
    PROVE  TaskMoves(t)
<1> USE DEF TaskMoves, RowMoves
<1>1. CASE UNCHANGED budgetVars
  BY <1>1 DEF budgetVars
<1>2. ASSUME NEW u \in Tasks, NEW amount \in Amounts, ReserveBudget(u, amount)
      PROVE  TaskMoves(t)
  <2>1. UNCHANGED <<usage, unprojected>>
    BY <1>2 DEF ReserveBudget
  <2>2. /\ row'[t] = IF t = u THEN Reserved(amount) ELSE row[t]
        /\ stage'[t] # "running" \/ t # u
        /\ t # u => stage'[t] = stage[t]
        /\ row[u] = NoRow
    BY <1>2 DEF ReserveBudget, BudgetTypeOK
  <2> QED  BY <2>1, <2>2
<1>3. ASSUME NEW u \in Tasks, Bind(u) \/ ResumeTask(u)
      PROVE  TaskMoves(t)
  BY <1>3 DEF Bind, ResumeTask, BudgetTypeOK
<1>4. ASSUME NEW u \in Tasks, AdmissionFails(u)
      PROVE  TaskMoves(t)
  <2>1. UNCHANGED <<usage, unprojected>>
    BY <1>4 DEF AdmissionFails
  <2>2. /\ row'[t] = IF t = u THEN Unconfirmed(u, usage[u]) ELSE row[t]
        /\ stage'[t] = IF t = u THEN "interrupted" ELSE stage[t]
    BY <1>4 DEF AdmissionFails, BudgetTypeOK
  <2> QED  BY <2>1, <2>2
<1>5. ASSUME NEW u \in Tasks, CheckUsage(u)
      PROVE  TaskMoves(t)
  <2>1. UNCHANGED <<usage, unprojected>>
    BY <1>5 DEF CheckUsage
  <2>2. CASE Open(u) /\ row' = row /\ stage' = [stage EXCEPT ![u] = "running"]
    BY <2>1, <2>2 DEF BudgetTypeOK
  <2>3. CASE /\ stage' = [stage EXCEPT ![u] = "terminal"]
             /\ row' = row \/ row' = [row EXCEPT ![u] = Closed(u)]
    <3>1. stage'[t] = IF t = u THEN "terminal" ELSE stage[t]
      BY <2>3 DEF BudgetTypeOK
    <3>2. row'[t] = row[t] \/ (t = u /\ row'[t] = Closed(u))
      BY <2>3 DEF BudgetTypeOK
    <3>3. RowMoves(t)
      BY <3>2 DEF Closed
    <3> QED  BY <2>1, <3>1, <3>2, <3>3
  <2> QED  BY <1>5, <2>2, <2>3 DEF CheckUsage
<1>6. ASSUME NEW u \in Tasks, Spend(u)
      PROVE  TaskMoves(t)
  <2>1. UNCHANGED <<stage, row>>
    BY <1>6 DEF Spend
  <2>2. CASE Real(u) /\ unprojected' = [unprojected EXCEPT ![u] = @ + 1] /\ usage' = usage
    BY <2>1, <2>2 DEF BudgetTypeOK
  <2>3. CASE /\ stage[u] = "running" /\ unprojected' = unprojected
             /\ usage' = [usage EXCEPT ![u] = @ + 1]
    BY <2>1, <2>3 DEF BudgetTypeOK
  <2> QED  BY <1>6, <2>2, <2>3 DEF Spend
<1>7. ASSUME NEW u \in Tasks, ProjectUsage(u)
      PROVE  TaskMoves(t)
  BY <1>7 DEF ProjectUsage, BudgetTypeOK
<1>8. ASSUME NEW u \in Tasks, Settle(u)
      PROVE  TaskMoves(t)
  <2>1. UNCHANGED <<usage, unprojected>>
    BY <1>8 DEF Settle
  <2>2. /\ row'[t] = IF t = u THEN Closed(u) ELSE row[t]
        /\ stage'[t] = IF t = u THEN "terminal" ELSE stage[t]
    BY <1>8 DEF Settle, BudgetTypeOK
  <2>3. RowMoves(t)
    BY <2>2 DEF Closed
  <2> QED  BY <2>1, <2>2, <2>3
<1>9. CASE BudgetCrash \/ Started \/ \E u \in Tasks : AuditOne(u)
  BY <1>9 DEF BudgetCrash, Started, AuditOne
<1>10. CASE Start
  <2>1. /\ UNCHANGED <<usage, unprojected>>
        /\ stage'[t] = Abandoned(stage[t])
        /\ row'[t] = row[t] \/ row'[t] = Closed(t)
    BY <1>10 DEF Start
  <2>2. stage'[t] # "running"
    BY <2>1 DEF Abandoned
  <2>3. RowMoves(t)
    BY <2>1 DEF Closed
  <2> QED  BY <2>1, <2>2, <2>3
<1> QED
  BY <1>1, <1>2, <1>3, <1>4, <1>5, <1>6, <1>7, <1>8, <1>9, <1>10 DEF BudgetNext

(* The row of a task that moved is a row, and what a move does to it.       *)
LEMMA RowAfter ==
    ASSUME BudgetTypeOK, NEW t \in Tasks, RowMoves(t)
    PROVE  /\ row'[t] \in Rows \union {NoRow}
           /\ row[t] # NoRow => row'[t] # NoRow
           /\ row'[t] = row[t] \/ ~Real(t) \/ row'[t].settled = NotSettled
           /\ \/ row'[t] = row[t]
              \/ row'[t].settled = NotSettled
              \/ row'[t].settled = usage[t]
           /\ Open(t) /\ Real(t) =>
                 /\ row'[t] # NoRow /\ row'[t].settled = NotSettled
                 /\ row'[t].reserved = row[t].reserved
                 /\ row'[t].recorded >= row[t].recorded
                 /\ row[t].required => row'[t].required
<1>1. row[t] \in Rows \union {NoRow} /\ usage[t] \in Nat
  BY DEF BudgetTypeOK
<1>2. CASE row'[t] = row[t]
  <2>1. Open(t) => row[t] \in Rows
    BY <1>1 DEF Open
  <2> QED  BY <1>1, <1>2, <2>1 DEF Open, Rows
<1>3. CASE row'[t] # row[t] /\ row'[t] = Unconfirmed(t, usage[t])
  <2>1. Open(t)
    BY <1>1, <1>3, MarkedRow
  <2>2. /\ row'[t] \in Rows /\ row'[t].settled = NotSettled /\ row'[t].required = TRUE
        /\ row'[t].reserved = row[t].reserved
        /\ row'[t].recorded >= row[t].recorded
    BY <1>1, <1>3, <2>1, MarkedRow
  <2> QED  BY <2>2, BudgetAssumption
<1>4. CASE row'[t] # row[t] /\ ~Real(t) /\ row'[t] = Settled(t, usage[t])
  BY <1>1, <1>4, SettledRow, BudgetAssumption
<1>5. CASE row'[t] # row[t] /\ row[t] = NoRow /\ \E amount \in Amounts : row'[t] = Reserved(amount)
  BY <1>5, ReservedRow DEF Open
<1> QED  BY <1>2, <1>3, <1>4, <1>5 DEF RowMoves

(* The rest of the state keeps its type.                                    *)
LEMMA BudgetTypePreserved ==
    ASSUME BudgetTypeOK, AuditsHaveRows, [BudgetNext]_budgetVars
    PROVE  BudgetTypeOK'
<1>r. row' \in [Tasks -> Rows \union {NoRow}]
  <2>1. \A t \in Tasks : row'[t] \in Rows \union {NoRow}
    BY StepMoves, RowAfter DEF TaskMoves
  <2>2. row' = [t \in Tasks |-> row'[t]]
    BY DEF BudgetTypeOK, BudgetNext, budgetVars, ReserveBudget, Bind, AdmissionFails, CheckUsage,
       ResumeTask, Spend, ProjectUsage, Settle, AuditOne, BudgetCrash, Start, Started
  <2> QED  BY <2>1, <2>2
<1>a. MaxStartups \in Nat
  BY BudgetAssumption
<1>1. CASE UNCHANGED budgetVars
  BY <1>1, <1>r DEF budgetVars, BudgetTypeOK
<1>2. ASSUME NEW t \in Tasks, NEW amount \in Amounts, ReserveBudget(t, amount)
      PROVE  BudgetTypeOK'
  BY <1>2, <1>r DEF ReserveBudget, BudgetTypeOK
<1>3. ASSUME NEW t \in Tasks, Bind(t) \/ ResumeTask(t) \/ AdmissionFails(t) \/ Settle(t)
      PROVE  BudgetTypeOK'
  BY <1>3, <1>r DEF Bind, ResumeTask, AdmissionFails, Settle, BudgetTypeOK
<1>4. ASSUME NEW t \in Tasks, CheckUsage(t)
      PROVE  BudgetTypeOK'
  BY <1>4, <1>r DEF CheckUsage, BudgetTypeOK
<1>5. ASSUME NEW t \in Tasks, Spend(t) \/ ProjectUsage(t)
      PROVE  BudgetTypeOK'
  BY <1>5, <1>r DEF Spend, ProjectUsage, BudgetTypeOK
<1>6. ASSUME NEW t \in Tasks, AuditOne(t)
      PROVE  BudgetTypeOK'
  <2>1. t \in audits /\ audits \subseteq Tasks
    BY <1>6 DEF AuditOne, BudgetTypeOK
  <2>2. row[t] \in Rows
    BY <2>1 DEF BudgetTypeOK, AuditsHaveRows
  <2>3. reconciled' \in [Tasks -> Rows \union {NoEvent}]
    BY <1>6, <2>2 DEF AuditOne, BudgetTypeOK
  <2> QED  BY <1>6, <1>r, <2>1, <2>3 DEF AuditOne, BudgetTypeOK
<1>7. CASE BudgetCrash \/ Started
  BY <1>7, <1>r, <1>a DEF BudgetCrash, Started, BudgetTypeOK
<1>8. CASE Start
  <2>1. stage' \in [Tasks -> {"waiting", "queued", "running", "interrupted", "terminal"}]
    BY <1>8 DEF Start, Abandoned, BudgetTypeOK
  <2>2. audits' \subseteq Tasks
    BY <1>8 DEF Start
  <2> QED  BY <1>8, <1>r, <2>1, <2>2 DEF Start, BudgetTypeOK
<1> QED
  BY <1>1, <1>2, <1>3, <1>4, <1>5, <1>6, <1>7, <1>8 DEF BudgetNext

(* The initial state satisfies the invariant.                               *)
LEMMA BudgetInitially == BudgetInit => BudgetInv
BY BudgetAssumption
   DEF BudgetInit, BudgetInv, BudgetTypeOK, RealIsNotSettled, DemoIsProjected, RunningIsOpen,
       SettlementIsFinal, AuditsHaveRows

(* The invariant is inductive: what is charged is open or real, so that a   *)
(* settlement meets no later charge.                                        *)
LEMMA BudgetPreserved == BudgetInv /\ [BudgetNext]_budgetVars => BudgetInv'
<1> SUFFICES ASSUME BudgetInv, [BudgetNext]_budgetVars PROVE BudgetInv'  OBVIOUS
<1>t. BudgetTypeOK /\ RealTasks \subseteq Tasks
  BY BudgetAssumption DEF BudgetInv
<1>1. BudgetTypeOK'
  BY BudgetTypePreserved DEF BudgetInv
<1>2. \A t \in Tasks : TaskMoves(t)
  BY <1>t, StepMoves
<1>3. RealIsNotSettled'
  <2> SUFFICES ASSUME NEW t \in RealTasks, row'[t] # NoRow
               PROVE  row'[t].settled = NotSettled
    BY DEF RealIsNotSettled
  <2>1. row'[t] = row[t] \/ row'[t].settled = NotSettled
    BY <1>t, <1>2, RowAfter DEF TaskMoves, Real
  <2> QED  BY <2>1 DEF BudgetInv, RealIsNotSettled
<1>4. DemoIsProjected'
  BY <1>2 DEF TaskMoves, Real, BudgetInv, DemoIsProjected
<1>5. RunningIsOpen'
  BY <1>2 DEF TaskMoves, Real, BudgetInv, RunningIsOpen, Open
<1>6. SettlementIsFinal'
  <2> SUFFICES ASSUME NEW t \in Tasks, row'[t] # NoRow, row'[t].settled # NotSettled
               PROVE  row'[t].settled = usage'[t]
    BY DEF SettlementIsFinal
  <2>1. CASE row'[t] # row[t]
    <3>1. usage'[t] = usage[t]
      BY <1>2, <2>1 DEF TaskMoves
    <3>2. row'[t].settled = usage[t]
      BY <1>t, <1>2, <2>1, RowAfter DEF TaskMoves
    <3> QED  BY <3>1, <3>2
  <2>2. CASE row'[t] = row[t]
    <3>1. row[t].settled = usage[t] /\ ~Open(t)
      BY <2>2 DEF BudgetInv, SettlementIsFinal, Open
    <3>2. ~Real(t)
      BY <2>2 DEF BudgetInv, RealIsNotSettled, Real
    <3>3. stage[t] # "running"
      BY <3>1, <3>2 DEF BudgetInv, RunningIsOpen, Real
    <3>4. ~(unprojected[t] > 0)
      BY <3>2 DEF BudgetInv, DemoIsProjected, Real
    <3>5. usage'[t] = usage[t]
      BY <1>2, <3>2, <3>3, <3>4 DEF TaskMoves
    <3> QED  BY <2>2, <3>1, <3>5
  <2> QED  BY <2>1, <2>2
<1>7. AuditsHaveRows'
  <2> SUFFICES ASSUME NEW t \in audits' PROVE row'[t] # NoRow
    BY DEF AuditsHaveRows
  <2>1. t \in Tasks
    BY <1>1 DEF BudgetTypeOK
  <2>2. t \in audits \/ (Start /\ Open(t))
    BY DEF BudgetNext, budgetVars, ReserveBudget, Bind, AdmissionFails, CheckUsage, ResumeTask,
       Spend, ProjectUsage, Settle, AuditOne, BudgetCrash, Start, Started
  <2>3. row[t] # NoRow
    BY <2>2 DEF BudgetInv, AuditsHaveRows, Open
  <2> QED  BY <1>t, <1>2, <2>1, <2>3, RowAfter DEF TaskMoves
<1> QED  BY <1>1, <1>3, <1>4, <1>5, <1>6, <1>7 DEF BudgetInv

-----------------------------------------------------------------------------
(* The rows, figures and stages are of their types (delivery/budget.py).    *)
THEOREM BudgetTypeCorrect == BudgetSpec => []BudgetTypeOK
<1>1. BudgetInv => BudgetTypeOK
  BY DEF BudgetInv
<1> QED
  BY BudgetInitially, BudgetPreserved, <1>1, PTL DEF BudgetSpec

(* A settlement is the whole usage of the task, whatever is retried,        *)
(* crashed or started in between (budget.py:260-266; service.py:1590).      *)
THEOREM SettlementsAreFinal == BudgetSpec => []SettlementIsFinal
<1>1. BudgetInv => SettlementIsFinal
  BY DEF BudgetInv
<1> QED
  BY BudgetInitially, BudgetPreserved, <1>1, PTL DEF BudgetSpec

(* No step but a reservation opens a row or raises what one has reserved.   *)
LEMMA RowsOnlyClose ==
    ASSUME BudgetTypeOK, BudgetNext, NEW t \in Tasks,
           \A u \in Tasks, amount \in Amounts : ~ ReserveBudget(u, amount)
    PROVE  Open(t)' => Open(t) /\ row'[t].reserved = row[t].reserved
<1>1. row'[t] \in {row[t], Unconfirmed(t, usage[t]), Settled(t, usage[t])}
  <2>1. CASE Start
    BY <2>1 DEF Start, Closed
  <2>2. CASE BudgetCrash \/ Started
    BY <2>2 DEF BudgetCrash, Started
  <2>3. ASSUME NEW u \in Tasks,
               \/ Bind(u) \/ AdmissionFails(u) \/ CheckUsage(u) \/ ResumeTask(u)
               \/ Spend(u) \/ ProjectUsage(u) \/ Settle(u) \/ AuditOne(u)
        PROVE  row'[t] \in {row[t], Unconfirmed(t, usage[t]), Settled(t, usage[t])}
    <3>1. \/ row' = row
          \/ row' = [row EXCEPT ![u] = Unconfirmed(u, usage[u])]
          \/ row' = [row EXCEPT ![u] = Closed(u)]
      BY <2>3 DEF Bind, AdmissionFails, CheckUsage, ResumeTask, Spend, ProjectUsage, Settle, AuditOne
    <3> QED BY <3>1 DEF Closed, BudgetTypeOK
  <2> QED BY <2>1, <2>2, <2>3 DEF BudgetNext
<1>2. usage[t] \in Nat /\ NotSettled \notin Nat
  BY BudgetAssumption DEF BudgetTypeOK
<1>3. CASE Open(t)
  <2>1. CASE row'[t] = row[t]
    BY <1>3, <2>1
  <2>2. CASE row'[t] = Unconfirmed(t, usage[t])
    BY <1>2, <1>3, <2>2, MarkedRow
  <2>3. CASE row'[t] = Settled(t, usage[t])
    <3>1. row'[t].settled = usage[t]
      BY <1>2, <1>3, <2>3, SettledRow
    <3> QED BY <1>2, <3>1 DEF Open
  <2> QED BY <1>1, <2>1, <2>2, <2>3
<1>4. CASE ~ Open(t)
  BY <1>1, <1>4 DEF Open, Unconfirmed, Settled
<1> QED BY <1>3, <1>4

LEMMA Promises ==
    ASSUME BudgetTypeOK
    PROVE  /\ IsFiniteSet(Opened) /\ Opened \subseteq Tasks
           /\ \A t \in Opened : /\ row[t].reserved \in Nat /\ Exposure(t) \in Nat
                                /\ row[t].reserved <= Exposure(t)
<1>1. IsFiniteSet(Opened) /\ Opened \subseteq Tasks
  BY BudgetAssumption, FS_Subset DEF Opened
<1>2. \A t \in Opened : row[t] \in Rows
  BY DEF Opened, Open, BudgetTypeOK
<1> QED BY <1>1, <1>2 DEF Rows, Exposure, LargerOf

LEMMA CapacityPreserved == BudgetTypeOK /\ CapacityIsShared /\ [BudgetNext]_budgetVars => CapacityIsShared'
<1> SUFFICES ASSUME BudgetTypeOK, CapacityIsShared, [BudgetNext]_budgetVars PROVE CapacityIsShared'
  OBVIOUS
<1> DEFINE old == [t \in Opened |-> row[t].reserved]
           new == [t \in Opened' |-> row'[t].reserved]
           due == [t \in Opened |-> Exposure(t)]
<1>1. CapacityIsShared <=> SumFunctionOnSet(old, Opened) <= Capacity
  BY DEF CapacityIsShared, SumFunction, ReservedAmount
<1>2. CapacityIsShared' <=> SumFunctionOnSet(new, Opened') <= Capacity
  BY DEF CapacityIsShared, SumFunction, ReservedAmount
<1>3. Capacity \in Nat /\ Amounts \subseteq Nat
  BY BudgetAssumption
<1>4. /\ IsFiniteSet(Opened) /\ Opened \subseteq Tasks
      /\ \A t \in Opened : old[t] \in Nat /\ due[t] \in Nat /\ old[t] <= due[t]
  BY Promises
<1>5. CASE UNCHANGED budgetVars
  BY <1>5 DEF CapacityIsShared, Opened, Open, ReservedAmount, budgetVars
<1>6. CASE BudgetNext /\ \A u \in Tasks, amount \in Amounts : ~ ReserveBudget(u, amount)
  <2>1. \A t \in Tasks : Open(t)' => Open(t) /\ row'[t].reserved = row[t].reserved
    BY <1>6, RowsOnlyClose
  <2>2. Opened' \subseteq Opened /\ \A t \in Opened' : new[t] = old[t]
    BY <2>1 DEF Opened
  <2> HIDE DEF old, new
  <2>3. SumFunctionOnSet(new, Opened') <= SumFunctionOnSet(old, Opened)
    BY <1>4, <2>2, SumShrinks
  <2>4. SumFunctionOnSet(new, Opened') \in Nat /\ SumFunctionOnSet(old, Opened) \in Nat
    BY <1>4, <2>2, FS_Subset, SumType
  <2> QED BY <1>1, <1>2, <1>3, <2>3, <2>4
<1>7. ASSUME NEW u \in Tasks, NEW amount \in Amounts, ReserveBudget(u, amount)
      PROVE  CapacityIsShared'
  <2>1. /\ SumFunctionOnSet(due, Opened) + amount <= Capacity
        /\ row[u] = NoRow
        /\ row' = [row EXCEPT ![u] = Reserved(amount)]
    BY <1>7 DEF ReserveBudget, Promised, SumFunction
  <2>2. /\ u \notin Opened /\ Opened' = Opened \cup {u}
        /\ new[u] = amount /\ \A t \in Opened : new[t] = old[t]
    <3>1. Reserved(amount) # NoRow /\ Reserved(amount).settled = NotSettled /\ Reserved(amount).reserved = amount
      BY ReservedRow DEF Reserved
    <3> QED BY <2>1, <3>1 DEF Opened, Open, BudgetTypeOK
  <2> HIDE DEF old, new, due
  <2>3. SumFunctionOnSet(new, Opened \cup {u}) = new[u] + SumFunctionOnSet(new, Opened)
    BY <1>3, <1>4, <2>2, SumAdd
  <2>4. /\ SumFunctionOnSet(new, Opened) <= SumFunctionOnSet(due, Opened)
        /\ SumFunctionOnSet(new, Opened) \in Nat
        /\ SumFunctionOnSet(due, Opened) \in Nat
    BY <1>4, <2>2, SumMonotone, SumType
  <2>5. SumFunctionOnSet(new, Opened') = amount + SumFunctionOnSet(new, Opened)
    BY <2>2, <2>3
  <2> QED BY <1>2, <1>3, <2>1, <2>4, <2>5
<1> QED BY <1>5, <1>6, <1>7

(* What is promised to the tasks together never exceeds the capacity: a     *)
(* reservation is admitted against the exposure of every open row, and no   *)
(* crash, start-up, overrun or settlement adds to what is reserved          *)
(* (budget.py:183-190; service.py:1534-1535).                               *)
THEOREM ReservationsAreHonoured == BudgetSpec => []ReservationsHold
<1>1. BudgetInit => CapacityIsShared
  <2> SUFFICES ASSUME BudgetInit PROVE CapacityIsShared
    OBVIOUS
  <2>1. Opened = {}
    BY DEF BudgetInit, Opened, Open
  <2>2. SumFunctionOnSet([t \in Opened |-> ReservedAmount(t)], Opened) = 0
    BY <2>1, SumEmpty
  <2> QED BY <2>2, BudgetAssumption DEF CapacityIsShared, SumFunction
<1>2. BudgetInv => BudgetTypeOK /\ SettlementIsFinal
  BY DEF BudgetInv
<1> QED
  BY BudgetInitially, BudgetPreserved, CapacityPreserved, <1>1, <1>2, PTL DEF BudgetSpec, ReservationsHold

(* The exposure of a real task is never given back, however often the       *)
(* process is lost (budget.py:369; service.py:290).                         *)
THEOREM ExposureOnlyGrows == BudgetSpec => RealExposureIsHeld
<1> DEFINE Charged == \A t \in RealTasks : Open(t) =>
                       /\ Open(t)'
                       /\ Exposure(t)' >= Exposure(t)
                       /\ row[t].required => row'[t].required
<1>1. BudgetInv /\ [BudgetNext]_budgetVars => [Charged]_budgetVars
  <2> SUFFICES ASSUME BudgetInv, [BudgetNext]_budgetVars, NEW t \in RealTasks, Open(t)
               PROVE  /\ Open(t)'
                      /\ Exposure(t)' >= Exposure(t)
                      /\ row[t].required => row'[t].required
    OBVIOUS
  <2>1. t \in Tasks /\ BudgetTypeOK /\ BudgetTypeOK' /\ Real(t)
    BY BudgetAssumption, BudgetTypePreserved DEF BudgetInv, Real
  <2>2. /\ row'[t] # NoRow /\ row'[t].settled = NotSettled
        /\ row'[t].reserved = row[t].reserved
        /\ row'[t].recorded >= row[t].recorded
        /\ row[t].required => row'[t].required
    BY <2>1, StepMoves, RowAfter DEF TaskMoves
  <2>3. row[t] \in Rows /\ row'[t] \in Rows
    BY <2>1, <2>2 DEF Open, BudgetTypeOK
  <2>4. /\ row[t].reserved \in Nat /\ row[t].recorded \in Nat
        /\ row'[t].reserved \in Nat /\ row'[t].recorded \in Nat
    BY <2>3 DEF Rows
  <2>5. Exposure(t)' >= Exposure(t)
    BY <2>2, <2>4 DEF Exposure, LargerOf
  <2> QED  BY <2>2, <2>5 DEF Open
<1> QED
  BY BudgetInitially, BudgetPreserved, <1>1, PTL DEF BudgetSpec, RealExposureIsHeld

-----------------------------------------------------------------------------
(* Planning calls: any number of generations, calls, plan versions, crashes. *)

PhaseJournal ==
    /\ phase \in [Generations -> {"absent", "pending", "active", "superseded", "revoked"}]
    /\ call \in [Generations -> {"absent", "pending", "retryable", "completed", "unknown"}]
    /\ dispatched \in [Generations -> Nat]

(* What Gate A has written by the time it activates a phase.                *)
OnRecord(g) == reserved /\ g \in recorded /\ <<"authorized", g>> \in announced

(* Gate A writes in its order.                                              *)
GateAIsOrdered ==
    handler.kind = "gateA" =>
        /\ handler.gen \in Generations
        /\ handler.at = "committed" => reserved /\ handler.gen \in recorded
        /\ handler.at = "announced" => OnRecord(handler.gen)

(* A phase becomes active at the end of Gate A.                             *)
ActiveIsOnRecord == \A g \in Generations : phase[g] = "active" => OnRecord(g)

(* The planner's call has a pending row from the intent on, and is not out  *)
(* before it is sent; the phase was active when it was verified.            *)
PlannerHasItsCall ==
    /\ planner \in [at : {"idle", "registered", "read", "intent", "verified", "sent", "answered",
                           "drafted", "published"},
                     gen : 0 .. MaxGenerations, via : 0 .. MaxGenerations]
    /\ planner.at \notin {"idle", "registered"} => planner.via \in Generations
    /\ planner.at \in {"intent", "verified", "sent"} => call[planner.via] = "pending"
    /\ planner.at \in {"intent", "verified"} => dispatched[planner.via] = 0
    /\ planner.at = "verified" => OnRecord(planner.via)

(* Each dispatch is one of the calls that count, and these are bounded.     *)
DispatchIsCounted ==
    /\ \A g \in Generations : dispatched[g] <= 1 /\ (dispatched[g] > 0 => g \in Counted)
    /\ Cardinality(Counted) <= PhaseCalls

(* A task with an approved plan is no longer in review.                     *)
ApprovalLeavesReview == version \in Nat /\ (approved # 0 => status # "waiting")

PlanningInv ==
    /\ PhaseJournal /\ GateAIsOrdered /\ ActiveIsOnRecord /\ PlannerHasItsCall
    /\ DispatchIsOnRecord /\ DispatchIsCounted /\ ApprovalLeavesReview

-----------------------------------------------------------------------------
(* The generations are finitely many, and so are the calls that count.      *)
LEMMA CountsAreFinite ==
    /\ IsFiniteSet(Generations)
    /\ \A S \in SUBSET Generations : IsFiniteSet(S) /\ Cardinality(S) \in Nat
    /\ PhaseCalls \in Nat
<1>1. 1 \in Int /\ MaxGenerations \in Int /\ PhaseCalls \in Nat
  BY PlanningAssumption
<1>2. IsFiniteSet(Generations)
  BY <1>1, FS_Interval DEF Generations
<1>3. \A S \in SUBSET Generations : IsFiniteSet(S)
  BY <1>2, FS_Subset
<1>4. \A S \in SUBSET Generations : Cardinality(S) \in Nat
  BY <1>3, FS_CardinalityType
<1> QED  BY <1>1, <1>2, <1>3, <1>4

(* The initial state satisfies the invariant.                               *)
LEMMA PlanningInitially == PlanningInit => PlanningInv
<1> SUFFICES ASSUME PlanningInit PROVE PlanningInv  OBVIOUS
<1>1. PhaseJournal /\ GateAIsOrdered /\ ActiveIsOnRecord /\ PlannerHasItsCall
  BY PlanningAssumption
     DEF PlanningInit, PhaseJournal, GateAIsOrdered, ActiveIsOnRecord, PlannerHasItsCall, NoHandler,
         NoPlanner
<1>2. DispatchIsOnRecord /\ ApprovalLeavesReview
  BY DEF PlanningInit, DispatchIsOnRecord, ApprovalLeavesReview
<1>3. Counted = {}
  BY DEF PlanningInit, Counted
<1>4. DispatchIsCounted
  BY <1>3, FS_EmptySet, CountsAreFinite DEF PlanningInit, DispatchIsCounted
<1> QED  BY <1>1, <1>2, <1>4 DEF PlanningInv

(* A step that sends nothing and leaves rows, phases and records alone, or  *)
(* only adds to the records, keeps what does not depend on handler, planner *)
(* and plan.                                                                *)
LEMMA RecordsOnlyGrow ==
    ASSUME PlanningInv, UNCHANGED <<call, dispatched>>,
           phase' \in [Generations -> {"absent", "pending", "active", "superseded", "revoked"}],
           reserved => reserved', recorded \subseteq recorded', announced \subseteq announced',
           \A g \in Generations : phase'[g] = "active" => phase[g] = "active" \/ OnRecord(g)
    PROVE  /\ PhaseJournal' /\ ActiveIsOnRecord' /\ DispatchIsOnRecord' /\ DispatchIsCounted'
           /\ planner' = planner => PlannerHasItsCall'
           /\ \A g \in Generations : OnRecord(g) => OnRecord(g)'
<1>1. \A g : OnRecord(g) => OnRecord(g)'
  BY DEF OnRecord
<1>2. PhaseJournal'
  BY DEF PlanningInv, PhaseJournal
<1>3. ActiveIsOnRecord'
  BY <1>1 DEF PlanningInv, ActiveIsOnRecord
<1>4. DispatchIsOnRecord'
  BY DEF PlanningInv, DispatchIsOnRecord
<1>5. DispatchIsCounted'
  BY DEF PlanningInv, DispatchIsCounted, Counted
<1>6. planner' = planner => PlannerHasItsCall'
  BY <1>1 DEF PlanningInv, PlannerHasItsCall
<1> QED  BY <1>1, <1>2, <1>3, <1>4, <1>5, <1>6

(* Gate A, its failures, and the end of the phases.                         *)
LEMMA GatePreserves ==
    ASSUME PlanningInv,
           \/ \E g \in Generations : AuthorizeTask(g)
           \/ PreparePhase \/ CommitGateA \/ AnnounceGateA \/ ActivatePhase \/ GateAFails
    PROVE  PlanningInv'
<1>u. UNCHANGED <<call, dispatched, planner, version, approved, status>>
  BY DEF AuthorizeTask, PreparePhase, CommitGateA, AnnounceGateA, ActivatePhase, GateAFails,
     journal, task
<1>a. ApprovalLeavesReview'
  BY <1>u DEF PlanningInv, ApprovalLeavesReview
<1>1. CASE \E g \in Generations : AuthorizeTask(g)
  <2>1. UNCHANGED <<phase, reserved, recorded, announced>>
    BY <1>1 DEF AuthorizeTask, task
  <2>2. GateAIsOrdered'
    BY <1>1 DEF AuthorizeTask, Step, GateAIsOrdered
  <2> QED  BY <1>u, <1>a, <2>1, <2>2, RecordsOnlyGrow DEF PlanningInv, PhaseJournal
<1>2. CASE PreparePhase
  <2>1. UNCHANGED <<reserved, recorded, announced>> /\ handler.gen \in Generations
    BY <1>2 DEF PreparePhase, task, PlanningInv, GateAIsOrdered
  <2>2. GateAIsOrdered'
    BY <1>2, <2>1 DEF PreparePhase, Step, Release, NoHandler, GateAIsOrdered
  <2>3. /\ phase' \in [Generations -> {"absent", "pending", "active", "superseded", "revoked"}]
        /\ \A g \in Generations : phase'[g] = "active" => phase[g] = "active"
    BY <1>2 DEF PreparePhase, PlanningInv, PhaseJournal
  <2> QED  BY <1>u, <1>a, <2>1, <2>2, <2>3, RecordsOnlyGrow DEF PlanningInv
<1>3. CASE CommitGateA
  <2>1. UNCHANGED <<phase, announced>> /\ reserved' /\ recorded \subseteq recorded'
    BY <1>3 DEF CommitGateA, journal
  <2>2. GateAIsOrdered'
    BY <1>3 DEF CommitGateA, Step, PlanningInv, GateAIsOrdered
  <2> QED  BY <1>u, <1>a, <2>1, <2>2, RecordsOnlyGrow DEF PlanningInv, PhaseJournal
<1>4. CASE AnnounceGateA
  <2>1. UNCHANGED <<phase, reserved, recorded>> /\ announced \subseteq announced'
    BY <1>4 DEF AnnounceGateA, journal
  <2>2. GateAIsOrdered'
    BY <1>4 DEF AnnounceGateA, Step, PlanningInv, GateAIsOrdered, OnRecord
  <2> QED  BY <1>u, <1>a, <2>1, <2>2, RecordsOnlyGrow DEF PlanningInv, PhaseJournal
<1>5. CASE ActivatePhase
  <2>1. UNCHANGED <<reserved, recorded, announced>> /\ OnRecord(handler.gen)
    BY <1>5 DEF ActivatePhase, task, PlanningInv, GateAIsOrdered
  <2>2. GateAIsOrdered'
    BY <1>5 DEF ActivatePhase, Release, NoHandler, GateAIsOrdered
  <2>3. /\ phase' \in [Generations -> {"absent", "pending", "active", "superseded", "revoked"}]
        /\ \A g \in Generations : phase'[g] = "active" => phase[g] = "active" \/ g = handler.gen
    BY <1>5 DEF ActivatePhase, Activated, PlanningInv, PhaseJournal
  <2>4. \A g \in Generations : phase'[g] = "active" => phase[g] = "active" \/ OnRecord(g)
    BY <2>1, <2>3
  <2> QED  BY <1>u, <1>a, <2>1, <2>2, <2>3, <2>4, RecordsOnlyGrow DEF PlanningInv
<1>6. CASE GateAFails
  <2>1. UNCHANGED <<phase, reserved, recorded, announced>>
    BY <1>6 DEF GateAFails, journal, task
  <2>2. GateAIsOrdered'
    BY <1>6 DEF GateAFails, Release, NoHandler, GateAIsOrdered
  <2> QED  BY <1>u, <1>a, <2>1, <2>2, RecordsOnlyGrow DEF PlanningInv, PhaseJournal
<1> QED  BY <1>1, <1>2, <1>3, <1>4, <1>5, <1>6

(* What the planner and the review do without touching a call.              *)
LEMMA ReviewPreserves ==
    ASSUME PlanningInv,
           \/ RepeatPlan \/ Modify \/ Approve \/ ApproveEndsPlanning \/ Reject \/ Cancel
           \/ EndTask \/ CloseWhilePlanning \/ DeadlinePasses \/ CrashInPlanning
    PROVE  PlanningInv'
<1>1. /\ UNCHANGED <<call, dispatched, reserved, recorded>> /\ announced \subseteq announced'
      /\ phase' \in {phase, Ended}
      /\ handler' = handler \/ handler'.kind # "gateA"
      /\ planner' = planner \/ planner' = NoPlanner
  BY DEF RepeatPlan, Modify, Approve, ApproveEndsPlanning, Reject, Cancel, EndTask,
     CloseWhilePlanning, DeadlinePasses, CrashInPlanning, journal, task, Step, Release, NoHandler
<1>2. /\ phase' \in [Generations -> {"absent", "pending", "active", "superseded", "revoked"}]
      /\ \A g \in Generations : phase'[g] = "active" => phase[g] = "active"
  BY <1>1 DEF Ended, PlanningInv, PhaseJournal
<1>3. /\ PhaseJournal' /\ ActiveIsOnRecord' /\ DispatchIsOnRecord' /\ DispatchIsCounted'
      /\ planner' = planner => PlannerHasItsCall'
      /\ \A g \in Generations : OnRecord(g) => OnRecord(g)'
  BY <1>1, <1>2, RecordsOnlyGrow
<1>4. PlannerHasItsCall'
  BY <1>1, <1>3, PlanningAssumption DEF NoPlanner, PlannerHasItsCall
<1>5. GateAIsOrdered'
  BY <1>1, <1>3 DEF PlanningInv, GateAIsOrdered
<1>6. ApprovalLeavesReview'
  BY DEF PlanningInv, ApprovalLeavesReview, RepeatPlan, Modify, Approve, ApproveEndsPlanning, Reject,
     Cancel, EndTask, CloseWhilePlanning, DeadlinePasses, CrashInPlanning, journal, task, Reviewable
<1> QED  BY <1>3, <1>4, <1>5, <1>6 DEF PlanningInv

(* The planner before and after its call.                                   *)
LEMMA PlannerPreserves ==
    ASSUME PlanningInv,
           \/ StartPlanning \/ ReadPhase \/ ReplayCall \/ CallRefused \/ VerifyCall
           \/ PlanUnusable \/ PlanRead \/ Publish \/ PublishFails \/ AnnouncePlan
    PROVE  PlanningInv'
<1>1. /\ UNCHANGED <<call, dispatched, phase, reserved, recorded, handler, status, approved>>
      /\ announced \subseteq announced'
  BY DEF StartPlanning, ReadPhase, ReplayCall, CallRefused, VerifyCall, PlanUnusable, PlanRead,
     Publish, PublishFails, AnnouncePlan, PlannerGivesUp, journal, task
<1>2. /\ PhaseJournal' /\ ActiveIsOnRecord' /\ DispatchIsOnRecord' /\ DispatchIsCounted'
      /\ \A g \in Generations : OnRecord(g) => OnRecord(g)'
  BY <1>1, RecordsOnlyGrow DEF PlanningInv, PhaseJournal
<1>3. GateAIsOrdered'
  BY <1>1, <1>2 DEF PlanningInv, GateAIsOrdered
<1>4. ApprovalLeavesReview'
  <2>1. version' = version \/ version' = version + 1
    BY DEF StartPlanning, ReadPhase, ReplayCall, CallRefused, VerifyCall, PlanUnusable, PlanRead,
       Publish, PublishFails, AnnouncePlan, PlannerGivesUp, journal, task
  <2> QED  BY <1>1, <2>1 DEF PlanningInv, ApprovalLeavesReview
<1>5. PlannerHasItsCall'
  <2>t. /\ planner \in [at : {"idle", "registered", "read", "intent", "verified", "sent",
                              "answered", "drafted", "published"},
                        gen : 0 .. MaxGenerations, via : 0 .. MaxGenerations]
        /\ MaxGenerations \in Nat
    BY PlanningAssumption DEF PlanningInv, PlannerHasItsCall
  <2>1. CASE planner' = NoPlanner
    BY <2>1, <2>t DEF NoPlanner, PlannerHasItsCall
  <2>2. CASE StartPlanning
    <3>1. PICK g \in Generations : planner' = [at |-> "registered", gen |-> g, via |-> 0]
      BY <2>2 DEF StartPlanning, ActivePhase
    <3> QED  BY <2>t, <3>1 DEF PlannerHasItsCall, Generations
  <2>3. CASE ReadPhase
    <3>1. PICK g \in Generations : planner' = [planner EXCEPT !.at = "read", !.via = g]
      BY <2>3 DEF ReadPhase, ActivePhase
    <3>2. planner'.at = "read" /\ planner'.via = g
      BY <2>t, <3>1
    <3>3. g \in 0 .. MaxGenerations
      BY <2>t DEF Generations
    <3>4. planner' \in [at : {"read"}, gen : 0 .. MaxGenerations, via : 0 .. MaxGenerations]
      BY <2>t, <3>1, <3>3
    <3> QED  BY <3>2, <3>4 DEF PlannerHasItsCall
  <2>4. CASE VerifyCall
    <3>1. /\ planner'.at = "verified" /\ planner'.via = planner.via
          /\ planner.at = "intent" /\ phase[planner.via] = "active"
          /\ planner' \in [at : {"verified"}, gen : 0 .. MaxGenerations, via : 0 .. MaxGenerations]
      BY <2>4, <2>t DEF VerifyCall, Plan, Authorized
    <3>2. OnRecord(planner.via) /\ planner.via \in Generations
      BY <3>1 DEF PlanningInv, PlannerHasItsCall, ActiveIsOnRecord
    <3> QED  BY <1>1, <1>2, <3>1, <3>2 DEF PlanningInv, PlannerHasItsCall
  <2>5. CASE ReplayCall \/ PlanRead \/ Publish
    <3>1. /\ planner'.at \in {"answered", "drafted", "published"} /\ planner'.via = planner.via
          /\ planner.at \in {"read", "answered", "drafted"}
          /\ planner' \in [at : {"answered", "drafted", "published"},
                           gen : 0 .. MaxGenerations, via : 0 .. MaxGenerations]
      BY <2>5, <2>t DEF ReplayCall, PlanRead, Publish, Plan
    <3> QED  BY <3>1 DEF PlanningInv, PlannerHasItsCall
  <2> QED
    BY <2>1, <2>2, <2>3, <2>4, <2>5 DEF CallRefused, PlanUnusable, PublishFails,
       AnnouncePlan, PlannerGivesUp
<1> QED  BY <1>2, <1>3, <1>4, <1>5 DEF PlanningInv

(* One more call counts when it is admitted, one less when it is not sent.  *)
LEMMA CountedBy ==
    ASSUME PhaseJournal, NEW g \in Generations
    PROVE  /\ call' = [call EXCEPT ![g] = "pending"] => Counted' = Counted \union {g}
           /\ call' = [call EXCEPT ![g] = "retryable"] => Counted' = Counted \ {g}
           /\ \A end \in {"completed", "unknown"} :
                 g \in Counted /\ call' = [call EXCEPT ![g] = end] => Counted' = Counted
BY DEF PhaseJournal, Counted

(* The call itself.                                                         *)
LEMMA CallPreserves ==
    ASSUME PlanningInv, AdmitCall \/ CallUnsent \/ SendCall \/ ConfirmCall \/ CallInDoubt
    PROVE  PlanningInv'
<1> DEFINE g == planner.via
<1>1. /\ UNCHANGED <<phase, reserved, recorded, announced, handler, status, approved, version>>
      /\ g \in Generations
  BY DEF AdmitCall, CallUnsent, SendCall, ConfirmCall, CallInDoubt, PlannerGivesUp, journal, task,
     PlanningInv, PlannerHasItsCall
<1>t. /\ planner \in [at : {"idle", "registered", "read", "intent", "verified", "sent",
                            "answered", "drafted", "published"},
                      gen : 0 .. MaxGenerations, via : 0 .. MaxGenerations]
      /\ MaxGenerations \in Nat /\ PhaseJournal
  BY PlanningAssumption DEF PlanningInv, PlannerHasItsCall
<1>2. GateAIsOrdered' /\ ActiveIsOnRecord' /\ ApprovalLeavesReview'
  BY <1>1 DEF PlanningInv, GateAIsOrdered, ActiveIsOnRecord, ApprovalLeavesReview, OnRecord
<1>3. CASE AdmitCall
  <2>1. /\ call[g] = "absent" /\ call' = [call EXCEPT ![g] = "pending"]
        /\ dispatched' = dispatched /\ Cardinality(Counted) < PhaseCalls
        /\ planner'.at = "intent" /\ planner'.via = g
        /\ planner' \in [at : {"intent"}, gen : 0 .. MaxGenerations, via : 0 .. MaxGenerations]
    BY <1>3, <1>t DEF AdmitCall, CallAdmissible, Plan
  <2>2. dispatched[g] = 0
    BY <1>1, <2>1 DEF PlanningInv, PhaseJournal, DispatchIsCounted, Counted
  <2>3. PhaseJournal' /\ DispatchIsOnRecord'
    BY <1>1, <1>t, <2>1 DEF PlanningInv, PhaseJournal, DispatchIsOnRecord
  <2>4. call'[g] = "pending"
    BY <1>1, <1>t, <2>1 DEF PhaseJournal
  <2>5. PlannerHasItsCall'
    BY <1>1, <2>1, <2>2, <2>4 DEF PlannerHasItsCall
  <2>6. Counted' = Counted \union {g}
    BY <1>1, <1>t, <2>1, CountedBy
  <2>7. Cardinality(Counted \union {g}) <= PhaseCalls
    <3>1. Counted \in SUBSET Generations
      BY DEF Counted
    <3>2. Cardinality(Counted) \in Nat /\ IsFiniteSet(Counted) /\ PhaseCalls \in Nat
      BY <3>1, CountsAreFinite
    <3>3. \/ Cardinality(Counted \union {g}) = Cardinality(Counted)
          \/ Cardinality(Counted \union {g}) = Cardinality(Counted) + 1
      BY <3>2, FS_AddElement
    <3> QED  BY <2>1, <3>2, <3>3
  <2>8. DispatchIsCounted'
    BY <2>1, <2>6, <2>7 DEF PlanningInv, DispatchIsCounted
  <2> QED  BY <1>2, <2>3, <2>5, <2>8 DEF PlanningInv
<1>4. CASE CallUnsent
  <2>1. /\ call' = [call EXCEPT ![g] = "retryable"] /\ dispatched' = dispatched
        /\ planner' = NoPlanner /\ planner.at = "intent"
    BY <1>4 DEF CallUnsent, PlannerGivesUp
  <2>2. dispatched[g] = 0
    BY <2>1 DEF PlanningInv, PlannerHasItsCall
  <2>3. PhaseJournal' /\ DispatchIsOnRecord'
    BY <1>1, <1>t, <2>1 DEF PlanningInv, PhaseJournal, DispatchIsOnRecord
  <2>4. PlannerHasItsCall'
    BY <1>t, <2>1 DEF NoPlanner, PlannerHasItsCall
  <2>5. Counted' = Counted \ {g}
    BY <1>1, <1>t, <2>1, CountedBy
  <2>6. Cardinality(Counted \ {g}) <= PhaseCalls
    <3>1. Counted \in SUBSET Generations /\ Counted \ {g} \in SUBSET Generations
      BY DEF Counted
    <3>2. /\ Cardinality(Counted) \in Nat /\ IsFiniteSet(Counted) /\ PhaseCalls \in Nat
          /\ Cardinality(Counted \ {g}) \in Nat
      BY <3>1, CountsAreFinite
    <3>3. Cardinality(Counted \ {g}) <= Cardinality(Counted)
      BY <3>2, FS_Subset
    <3> QED  BY <3>2, <3>3 DEF PlanningInv, DispatchIsCounted
  <2>7. DispatchIsCounted'
    BY <2>1, <2>2, <2>5, <2>6 DEF PlanningInv, DispatchIsCounted
  <2> QED  BY <1>2, <2>3, <2>4, <2>7 DEF PlanningInv
<1>5. CASE SendCall
  <2>1. /\ call' = call /\ dispatched' = [dispatched EXCEPT ![g] = @ + 1]
        /\ planner.at = "verified" /\ planner'.at = "sent" /\ planner'.via = g
        /\ planner' \in [at : {"sent"}, gen : 0 .. MaxGenerations, via : 0 .. MaxGenerations]
    BY <1>5, <1>t DEF SendCall, Plan, journal
  <2>2. OnRecord(g) /\ dispatched[g] = 0 /\ call[g] = "pending"
    BY <2>1 DEF PlanningInv, PlannerHasItsCall
  <2>3. \A h \in Generations : dispatched'[h] = IF h = g THEN 1 ELSE dispatched[h]
    BY <1>1, <1>t, <2>1, <2>2 DEF PhaseJournal
  <2>4. PhaseJournal'
    BY <1>1, <1>t, <2>1 DEF PhaseJournal
  <2>5. DispatchIsOnRecord'
    BY <1>1, <2>2, <2>3 DEF PlanningInv, DispatchIsOnRecord, OnRecord
  <2>6. PlannerHasItsCall'
    BY <1>1, <2>1, <2>2 DEF PlannerHasItsCall
  <2>7. Counted' = Counted /\ g \in Counted
    BY <1>1, <2>1, <2>2 DEF Counted
  <2>8. DispatchIsCounted'
    BY <2>3, <2>7 DEF PlanningInv, DispatchIsCounted
  <2> QED  BY <1>2, <2>4, <2>5, <2>6, <2>8 DEF PlanningInv
<1>6. CASE ConfirmCall \/ CallInDoubt
  <2>1. PICK end \in {"completed", "unknown"} : call' = [call EXCEPT ![g] = end]
    BY <1>6 DEF ConfirmCall, CallInDoubt
  <2>2. dispatched' = dispatched /\ planner.at = "sent"
    BY <1>6 DEF ConfirmCall, CallInDoubt, PlannerGivesUp
  <2>3. g \in Counted
    BY <1>1, <2>2 DEF PlanningInv, PlannerHasItsCall, Counted
  <2>4. Counted' = Counted
    BY <1>1, <1>t, <2>1, <2>3, CountedBy
  <2>5. PhaseJournal' /\ DispatchIsOnRecord' /\ DispatchIsCounted'
    BY <1>1, <1>t, <2>1, <2>2, <2>4
       DEF PlanningInv, PhaseJournal, DispatchIsOnRecord, DispatchIsCounted
  <2>6. PlannerHasItsCall'
    <3>1. CASE planner' = NoPlanner
      BY <1>t, <3>1 DEF NoPlanner, PlannerHasItsCall
    <3>2. CASE planner' = [planner EXCEPT !.at = "answered"]
      <4>1. /\ planner'.at = "answered" /\ planner'.via = g
            /\ planner' \in [at : {"answered"}, gen : 0 .. MaxGenerations,
                             via : 0 .. MaxGenerations]
        BY <1>t, <3>2
      <4> QED  BY <1>1, <4>1 DEF PlannerHasItsCall
    <3> QED  BY <1>6, <3>1, <3>2 DEF ConfirmCall, CallInDoubt, Plan, PlannerGivesUp
  <2> QED  BY <1>2, <2>5, <2>6 DEF PlanningInv
<1> QED  BY <1>3, <1>4, <1>5, <1>6

(* The invariant is inductive.                                              *)
LEMMA PlanningPreserved == PlanningInv /\ [PlanningNext]_planningVars => PlanningInv'
<1> SUFFICES ASSUME PlanningInv, [PlanningNext]_planningVars PROVE PlanningInv'  OBVIOUS
<1>1. CASE UNCHANGED planningVars
  <2>1. GateAIsOrdered' /\ ApprovalLeavesReview'
    BY <1>1 DEF planningVars, task, PlanningInv, GateAIsOrdered, ApprovalLeavesReview, OnRecord
  <2>2. UNCHANGED <<call, dispatched, phase, reserved, recorded, announced, planner>>
    BY <1>1 DEF planningVars, journal, task
  <2> QED  BY <2>1, <2>2, RecordsOnlyGrow DEF PlanningInv, PhaseJournal
<1>2. CASE PlanningNext
  BY <1>2, GatePreserves, ReviewPreserves, PlannerPreserves, CallPreserves DEF PlanningNext
<1> QED  BY <1>1, <1>2

-----------------------------------------------------------------------------
(* No planning call goes out that is not on record in the task database,    *)
(* none twice, and not more than the allowance in all generations together  *)
(* (service.py:958-1032, authorization.py:252-302).                         *)
THEOREM CallsAreAuthorized == PlanningSpec => []PlanningCallsAreAuthorized
<1>1. PlanningInv => PlanningCallsAreAuthorized
  <2> SUFFICES ASSUME PlanningInv PROVE PlanningCallsAreAuthorized  OBVIOUS
  <2> DEFINE out == {g \in Generations : dispatched[g] > 0}
  <2>1. out \subseteq Counted /\ Counted \in SUBSET Generations /\ out \in SUBSET Generations
    BY DEF PlanningInv, DispatchIsCounted, Counted
  <2>2. /\ IsFiniteSet(Counted) /\ Cardinality(Counted) \in Nat /\ Cardinality(out) \in Nat
        /\ PhaseCalls \in Nat
    BY <2>1, CountsAreFinite
  <2>3. Cardinality(out) <= Cardinality(Counted)
    BY <2>1, <2>2, FS_Subset
  <2>4. Cardinality(out) <= PhaseCalls
    BY <2>2, <2>3 DEF PlanningInv, DispatchIsCounted
  <2> QED
    BY <2>4 DEF PlanningInv, DispatchIsCounted, PlanningCallsAreAuthorized, AllowanceIsShared
<1> QED
  BY PlanningInitially, PlanningPreserved, <1>1, PTL DEF PlanningSpec

(* The approved plan stays the current one: nobody publishes or modifies    *)
(* behind an approval (service.py:433, 1088-1170).                          *)
THEOREM ApprovedPlanIsCurrent == PlanningSpec => ApprovedPlanStands
<1> DEFINE Stands == /\ status # "waiting" => version' = version
                     /\ approved # 0 => approved' = approved
<1>1. PlanningInv /\ [PlanningNext]_planningVars => [Stands]_planningVars
  <2> SUFFICES ASSUME PlanningInv, PlanningNext PROVE Stands
    OBVIOUS
  <2>1. status # "waiting" => version' = version /\ approved' = approved
    BY DEF PlanningNext, AuthorizeTask, PreparePhase, CommitGateA, AnnounceGateA, ActivatePhase,
       GateAFails, RepeatPlan, StartPlanning, ReadPhase, AdmitCall, ReplayCall, CallRefused,
       VerifyCall, CallUnsent, SendCall, ConfirmCall, CallInDoubt, PlanUnusable, PlanRead, Publish,
       MayPublish, PublishFails, AnnouncePlan, Modify, Approve, Reviewable, ApproveEndsPlanning,
       Reject, Cancel, EndTask, CloseWhilePlanning, DeadlinePasses, CrashInPlanning,
       PlannerGivesUp, journal, task
  <2> QED  BY <2>1 DEF PlanningInv, ApprovalLeavesReview
<1> QED
  BY PlanningInitially, PlanningPreserved, <1>1, PTL DEF PlanningSpec, ApprovedPlanStands

-----------------------------------------------------------------------------
(* The restore fence: any operations, directories, archives and stops.     *)

Journals == [Operations -> {"absent", "pending", "completed", "unknown"}]
Results == SUBSET Operations
Trees == [effects : Journals, tasks : Results, fence : BOOLEAN]
Raised == {StagedFence}

(* What a tool has gathered: the journal first, the results next, the fence *)
(* of a restore at last.                                                    *)
Gathered(tree) ==
    \/ tree = << >>
    \/ \E j \in Journals : tree = <<j>>
    \/ \E j \in Journals, r \in Results : tree = <<j, r>>
    \/ \E j \in Journals, r \in Results, f \in Raised : tree = <<j, r, f>>

Archives == [copies : Journals \X Results, sound : BOOLEAN]

TreesOK == trees \in Seq(Trees) /\ Len(trees) >= 1 /\ serving \in 0 .. Len(trees)

ToolOK ==
    /\ tool = [job |-> tool.job, of |-> tool.of, tree |-> tool.tree]
    /\ tool.job \in {"none", "backup", "restore"}
    /\ Gathered(tool.tree)
    /\ tool.job = "backup" => tool.of \in 1 .. Len(trees) /\ Len(tool.tree) <= 2
    /\ tool.job = "restore" => tool.of \in 1 .. Len(archives)

CallsOK ==
    /\ flight \in [Operations -> {"off", "intent", "sent"}]
    /\ issued \in [Operations -> Nat]

FenceTypeOK == TreesOK /\ archives \in Seq(Archives) /\ ToolOK /\ CallsOK

(* Every directory but the first was restored and has its fence.            *)
CopiesAreFenced == \A t \in 2 .. Len(trees) : trees[t].fence

(* A call under way is one of the first directory, which has a row for it.   *)
CallsAreAtHome ==
    \A o \in Operations :
        flight[o] # "off" => serving = 1 /\ trees[1].effects[o] = "pending"

(* What the first directory has no row for,  and what is intended only, was  *)
(* never sent.                                                              *)
SentIsKnown ==
    \A o \in Operations :
        /\ issued[o] <= 1
        /\ trees[1].effects[o] = "absent" \/ flight[o] = "intent" => issued[o] = 0

FenceInv == FenceTypeOK /\ CopiesAreFenced /\ CallsAreAtHome /\ SentIsKnown

-----------------------------------------------------------------------------
(* Appending to one part.                                                   *)
LEMMA SecondPart ==
    ASSUME NEW a, NEW b
    PROVE  Append(<<a>>, b) = <<a, b>>
<1> DEFINE S == {a, b}
<1>1. /\ <<a>> \in Seq(S) /\ <<a, b>> \in Seq(S) /\ b \in S
      /\ Len(<<a>>) = 1 /\ Len(<<a, b>>) = 2
  OBVIOUS
<1> DEFINE grown == Append(<<a>>, b)
<1>2. grown \in Seq(S) /\ Len(grown) = 2 /\ grown[1] = a /\ grown[2] = b
  <2>1. /\ grown \in Seq(S) /\ Len(grown) = Len(<<a>>) + 1
        /\ \A i \in 1 .. Len(<<a>>) : grown[i] = <<a>>[i]
        /\ grown[Len(<<a>>) + 1] = b
    BY <1>1, AppendProperties
  <2> HIDE DEF grown
  <2> QED  BY <1>1, <2>1
<1> HIDE DEF grown
<1>3. \A i \in 1 .. Len(grown) : grown[i] = <<a, b>>[i]
  BY <1>2
<1> HIDE DEF S
<1>4. grown = <<a, b>>
  BY <1>1, <1>2, <1>3, SeqEqual
<1> QED  BY <1>4 DEF grown

(* Appending to two parts.                                                  *)
LEMMA ThirdPart ==
    ASSUME NEW a, NEW b, NEW c
    PROVE  Append(<<a, b>>, c) = <<a, b, c>>
<1> DEFINE S == {a, b, c}
<1>1. /\ <<a, b>> \in Seq(S) /\ <<a, b, c>> \in Seq(S) /\ c \in S
      /\ Len(<<a, b>>) = 2 /\ Len(<<a, b, c>>) = 3
  OBVIOUS
<1> DEFINE grown == Append(<<a, b>>, c)
<1>2. grown \in Seq(S) /\ Len(grown) = 3 /\ grown[1] = a /\ grown[2] = b /\ grown[3] = c
  <2>1. /\ grown \in Seq(S) /\ Len(grown) = Len(<<a, b>>) + 1
        /\ \A i \in 1 .. Len(<<a, b>>) : grown[i] = <<a, b>>[i]
        /\ grown[Len(<<a, b>>) + 1] = c
    BY <1>1, AppendProperties
  <2> HIDE DEF grown
  <2> QED  BY <1>1, <2>1
<1> HIDE DEF grown
<1>3. \A i \in 1 .. Len(grown) : grown[i] = <<a, b, c>>[i]
  BY <1>2
<1> HIDE DEF S
<1>4. grown = <<a, b, c>>
  BY <1>1, <1>2, <1>3, SeqEqual
<1> QED  BY <1>4 DEF grown

(* Two parts are a copy of each database.                                   *)
LEMMA TwoGathered ==
    ASSUME NEW tree, Gathered(tree), Len(tree) = 2
    PROVE  tree \in Journals \X Results
BY DEF Gathered

(* The next part of the right kind is gathered.                             *)
LEMMA GatheredGrows ==
    ASSUME NEW tree, Gathered(tree), NEW part,
           \/ tree = << >> /\ part \in Journals
           \/ Len(tree) = 1 /\ part \in Results
           \/ Len(tree) = 2 /\ part \in Raised
    PROVE  Gathered(Append(tree, part)) /\ Len(Append(tree, part)) = Len(tree) + 1
<1>1. CASE tree = << >> /\ part \in Journals
  <2>1. Append(tree, part) = <<part>>
    BY <1>1
  <2> QED  BY <1>1, <2>1 DEF Gathered
<1>2. CASE Len(tree) = 1 /\ part \in Results
  <2>1. PICK j \in Journals : tree = <<j>>
    BY <1>2 DEF Gathered
  <2>2. Append(tree, part) = <<j, part>>
    BY <2>1, SecondPart
  <2> QED  BY <1>2, <2>2 DEF Gathered
<1>3. CASE Len(tree) = 2 /\ part \in Raised
  <2>1. PICK j \in Journals, r \in Results : tree = <<j, r>>
    BY <1>3 DEF Gathered
  <2>2. Append(tree, part) = <<j, r, part>>
    BY <2>1, ThirdPart
  <2> QED  BY <1>3, <2>2 DEF Gathered
<1> QED  BY <1>1, <1>2, <1>3

(* The journal is copied first, the results of the task database next.      *)
LEMMA TwoDatabases ==
    Len(Databases) = 2 /\ Databases[1] = "effects" /\ Databases[2] = "tasks"
BY DEF Databases

(* The initial state satisfies the invariant.                               *)
LEMMA FenceInitially == FenceInit => FenceInv
<1> SUFFICES ASSUME FenceInit PROVE FenceInv  OBVIOUS
<1>1. Unused \in Trees
  BY DEF Unused, Trees, Journals, Results
<1>2. trees \in Seq(Trees) /\ Len(trees) = 1 /\ trees[1] = Unused
  BY <1>1 DEF FenceInit
<1>3. TreesOK
  BY <1>2 DEF FenceInit, TreesOK
<1>4. Gathered(<< >>) /\ << >> \in Seq(Archives)
  BY DEF Gathered
<1>5. ToolOK
  BY <1>4 DEF FenceInit, ToolOK, NoTool
<1>6. CallsOK
  BY DEF FenceInit, CallsOK, Landed
<1>7. CopiesAreFenced
  BY <1>2 DEF CopiesAreFenced
<1>8. CallsAreAtHome /\ SentIsKnown
  BY DEF CallsAreAtHome, SentIsKnown, FenceInit, Landed
<1> QED
  BY <1>3, <1>4, <1>5, <1>6, <1>7, <1>8 DEF FenceInv, FenceTypeOK, FenceInit

(* A directory of the right type takes the place of one: the sequence keeps *)
(* its type, and the tool what it works on.                                 *)
LEMMA TreeIsChanged ==
    ASSUME FenceTypeOK, NEW t \in 1 .. Len(trees), NEW new \in Trees,
           trees' = [trees EXCEPT ![t] = new],
           UNCHANGED <<archives, tool, serving>>
    PROVE  /\ TreesOK' /\ ToolOK' /\ archives' \in Seq(Archives)
           /\ Len(trees') = Len(trees)
           /\ trees'[t] = new
           /\ \A i \in 1 .. Len(trees) : i # t => trees'[i] = trees[i]
<1>1. /\ trees' \in Seq(Trees) /\ Len(trees') = Len(trees)
      /\ \A i \in 1 .. Len(trees) : trees'[i] = IF i = t THEN new ELSE trees[i]
  BY ExceptSeq DEF FenceTypeOK, TreesOK
<1>2. TreesOK'
  BY <1>1 DEF FenceTypeOK, TreesOK
<1>3. ToolOK'
  BY <1>1 DEF FenceTypeOK, ToolOK
<1> QED  BY <1>1, <1>2, <1>3 DEF FenceTypeOK

(* The journal of the first directory gets another row for an operation.     *)
LEMMA RowIsWritten ==
    ASSUME FenceInv, serving = 1, NEW o \in Operations,
           NEW line \in {"pending", "completed", "unknown"},
           trees' = [trees EXCEPT ![serving].effects[o] = line],
           UNCHANGED <<archives, tool, serving>>
    PROVE  /\ TreesOK' /\ ToolOK' /\ archives' \in Seq(Archives)
           /\ CopiesAreFenced'
           /\ trees'[1].effects[o] = line
           /\ \A p \in Operations : p # o => trees'[1].effects[p] = trees[1].effects[p]
<1> DEFINE new == [trees[1] EXCEPT !.effects[o] = line]
<1>1. trees[1] \in Trees /\ 1 \in 1 .. Len(trees)
  BY DEF FenceInv, FenceTypeOK, TreesOK
<1>2. /\ new \in Trees
      /\ new.effects = [trees[1].effects EXCEPT ![o] = line]
      /\ trees[1].effects \in Journals
  BY <1>1 DEF Trees, Journals
<1>3. trees' = [trees EXCEPT ![1] = new]
  OBVIOUS
<1> HIDE DEF new
<1>4. /\ TreesOK' /\ ToolOK' /\ archives' \in Seq(Archives)
      /\ Len(trees') = Len(trees) /\ trees'[1] = new
      /\ \A i \in 1 .. Len(trees) : i # 1 => trees'[i] = trees[i]
  BY <1>1, <1>2, <1>3, TreeIsChanged DEF FenceInv
<1>5. CopiesAreFenced'
  BY <1>4 DEF FenceInv, CopiesAreFenced
<1>6. /\ trees'[1].effects[o] = line
      /\ \A p \in Operations : p # o => trees'[1].effects[p] = trees[1].effects[p]
  BY <1>2, <1>4 DEF Journals
<1> QED  BY <1>4, <1>5, <1>6

(* The service: an intent and a dispatch are of the first directory, the    *)
(* only one without a fence.                                                *)
LEMMA CallsPreserve ==
    ASSUME FenceInv, NEW o \in Operations, Intend(o) \/ Dispatch(o) \/ SettleCall(o) \/ Keep(o)
    PROVE  FenceInv'
<1> USE DEF FenceInv
<1>1. CASE Intend(o)
  <2>1. serving = 1 /\ trees[1].effects[o] = "absent"
    BY <1>1 DEF Intend, Fenced, Row, CopiesAreFenced, FenceTypeOK, TreesOK
  <2>2. /\ TreesOK' /\ ToolOK' /\ archives' \in Seq(Archives)
        /\ CopiesAreFenced'
        /\ trees'[1].effects[o] = "pending"
        /\ \A p \in Operations : p # o => trees'[1].effects[p] = trees[1].effects[p]
    BY <1>1, <2>1, RowIsWritten DEF Intend
  <2>3. CallsOK' /\ CallsAreAtHome' /\ SentIsKnown'
    BY <1>1, <2>1, <2>2
       DEF Intend, Fly, FenceTypeOK, CallsOK, CallsAreAtHome, SentIsKnown
  <2> QED  BY <2>2, <2>3 DEF FenceTypeOK
<1>2. CASE Dispatch(o)
  <2>1. TreesOK' /\ ToolOK' /\ archives' \in Seq(Archives) /\ CopiesAreFenced'
    BY <1>2 DEF Dispatch, FenceTypeOK, TreesOK, ToolOK, CopiesAreFenced
  <2>2. CallsOK' /\ CallsAreAtHome' /\ SentIsKnown'
    BY <1>2 DEF Dispatch, Fly, FenceTypeOK, CallsOK, CallsAreAtHome, SentIsKnown
  <2> QED  BY <2>1, <2>2 DEF FenceTypeOK
<1>3. CASE SettleCall(o)
  <2>1. serving = 1 /\ flight[o] = "sent"
    BY <1>3 DEF SettleCall, CallsAreAtHome
  <2>2. PICK line \in {"completed", "unknown"} :
           trees' = [trees EXCEPT ![serving].effects[o] = line]
    BY <1>3 DEF SettleCall
  <2>3. /\ TreesOK' /\ ToolOK' /\ archives' \in Seq(Archives)
        /\ CopiesAreFenced'
        /\ trees'[1].effects[o] = line
        /\ \A p \in Operations : p # o => trees'[1].effects[p] = trees[1].effects[p]
    BY <1>3, <2>1, <2>2, RowIsWritten DEF SettleCall
  <2>4. CallsOK' /\ CallsAreAtHome' /\ SentIsKnown'
    BY <1>3, <2>1, <2>3
       DEF SettleCall, Fly, FenceTypeOK, CallsOK, CallsAreAtHome, SentIsKnown
  <2> QED  BY <2>3, <2>4 DEF FenceTypeOK
<1>4. CASE Keep(o)
  <2> DEFINE new == [trees[serving] EXCEPT !.tasks = @ \union {o}]
  <2>1. serving \in 1 .. Len(trees) /\ trees[serving] \in Trees
    BY <1>4 DEF Keep, FenceTypeOK, TreesOK
  <2>2. /\ new \in Trees /\ new.effects = trees[serving].effects
        /\ new.fence = trees[serving].fence
    BY <2>1 DEF Trees, Results
  <2>3. trees' = [trees EXCEPT ![serving] = new] /\ UNCHANGED <<archives, tool, serving>>
    BY <1>4 DEF Keep
  <2> HIDE DEF new
  <2>4. /\ TreesOK' /\ ToolOK' /\ archives' \in Seq(Archives)
        /\ Len(trees') = Len(trees)
        /\ trees'[serving] = new
        /\ \A i \in 1 .. Len(trees) : i # serving => trees'[i] = trees[i]
    BY <2>1, <2>2, <2>3, TreeIsChanged
  <2>5. \A i \in 1 .. Len(trees) :
           trees'[i].effects = trees[i].effects /\ trees'[i].fence = trees[i].fence
    BY <2>2, <2>4
  <2>6. CopiesAreFenced'
    BY <2>4, <2>5 DEF CopiesAreFenced, FenceTypeOK, TreesOK
  <2>7. trees'[1].effects = trees[1].effects
    BY <2>5 DEF FenceTypeOK, TreesOK
  <2>8. CallsOK' /\ CallsAreAtHome' /\ SentIsKnown'
    BY <1>4, <2>7 DEF Keep, FenceTypeOK, CallsOK, CallsAreAtHome, SentIsKnown
  <2> QED  BY <2>4, <2>6, <2>8 DEF FenceTypeOK
<1> QED  BY <1>1, <1>2, <1>3, <1>4

(* Stopping and serving.                                                    *)
LEMMA ServicePreserves ==
    ASSUME FenceInv, Stop \/ Serve
    PROVE  FenceInv'
<1> USE DEF FenceInv
<1>1. CASE Stop
  <2>1. TreesOK' /\ ToolOK' /\ archives' \in Seq(Archives) /\ CopiesAreFenced'
    BY <1>1 DEF Stop, FenceTypeOK, TreesOK, ToolOK, CopiesAreFenced
  <2>2. CallsOK' /\ CallsAreAtHome' /\ SentIsKnown'
    BY <1>1 DEF Stop, Landed, FenceTypeOK, CallsOK, CallsAreAtHome, SentIsKnown
  <2> QED  BY <2>1, <2>2 DEF FenceTypeOK
<1>2. CASE Serve
  <2>1. \A o \in Operations : flight[o] = "off"
    BY <1>2 DEF Serve, CallsAreAtHome
  <2>2. TreesOK' /\ ToolOK' /\ archives' \in Seq(Archives) /\ CopiesAreFenced'
    BY <1>2 DEF Serve, FenceTypeOK, TreesOK, ToolOK, CopiesAreFenced
  <2>3. CallsOK' /\ CallsAreAtHome' /\ SentIsKnown'
    BY <1>2, <2>1 DEF Serve, FenceTypeOK, CallsOK, CallsAreAtHome, SentIsKnown
  <2> QED  BY <2>2, <2>3 DEF FenceTypeOK
<1> QED  BY <1>1, <1>2

(* What leaves the directories and the service alone keeps the invariant if *)
(* it keeps the types of archives and tool.                                 *)
LEMMA Elsewhere ==
    ASSUME FenceInv, ToolOK', archives' \in Seq(Archives),
           UNCHANGED <<trees, serving, flight, issued>>
    PROVE  FenceInv'
BY DEF FenceInv, FenceTypeOK, TreesOK, CallsOK, CopiesAreFenced, CallsAreAtHome, SentIsKnown

(* A tool that is done, and one that starts, have gathered nothing.         *)
LEMMA NothingGathered == Gathered(<< >>) /\ Len(<< >>) = 0
BY DEF Gathered

(* A tool gathers the next part.                                            *)
LEMMA ToolGathers ==
    ASSUME FenceInv, NEW part,
           \/ tool.tree = << >> /\ part \in Journals
           \/ Len(tool.tree) = 1 /\ part \in Results
           \/ Len(tool.tree) = 2 /\ part \in Raised /\ tool.job # "backup",
           tool' = [tool EXCEPT !.tree = Append(tool.tree, part)],
           UNCHANGED <<trees, archives>>
    PROVE  ToolOK'
<1>1. ToolOK /\ Gathered(tool.tree)
  BY DEF FenceInv, FenceTypeOK, ToolOK
<1>2. /\ Gathered(Append(tool.tree, part))
      /\ Len(Append(tool.tree, part)) = Len(tool.tree) + 1
  BY <1>1, GatheredGrows
<1> DEFINE grown == Append(tool.tree, part)
<1>3. tool' = [job |-> tool.job, of |-> tool.of, tree |-> grown]
  BY <1>1 DEF ToolOK
<1> HIDE DEF grown
<1>4. tool'.tree = grown /\ tool'.job = tool.job /\ tool'.of = tool.of
  BY <1>3
<1>a. tool' = [job |-> tool'.job, of |-> tool'.of, tree |-> tool'.tree]
  BY <1>3, <1>4, Zenon
<1>b. Len(grown) = Len(tool.tree) + 1
  BY <1>2 DEF grown
<1>5. tool.job = "backup" => Len(tool'.tree) <= 2
  <2> SUFFICES ASSUME tool.job = "backup" PROVE Len(grown) <= 2
    BY <1>4
  <2>1. CASE tool.tree = << >>
    BY <1>b, <2>1
  <2>2. CASE Len(tool.tree) = 1
    BY <1>b, <2>2
  <2> QED  BY <2>1, <2>2
<1>6. Gathered(tool'.tree)
  BY <1>2, <1>4 DEF grown
<1> QED  BY <1>1, <1>4, <1>a, <1>5, <1>6 DEF ToolOK

(* Backup, damage and the first steps of a restore.                         *)
LEMMA ToolsPreserve ==
    ASSUME FenceInv,
           \/ GiveUp \/ StartBackup \/ Snapshot \/ PublishArchive \/ Damage
           \/ StartRestore \/ Unpack \/ StageFence
    PROVE  FenceInv'
<1>s. UNCHANGED <<trees, serving, flight, issued>>
  BY DEF GiveUp, StartBackup, Snapshot, PublishArchive, Damage, StartRestore, Unpack, StageFence
<1>t. /\ trees \in Seq(Trees) /\ Len(trees) \in Nat /\ archives \in Seq(Archives)
      /\ Len(archives) \in Nat /\ ToolOK /\ Gathered(tool.tree)
      /\ tool = [job |-> tool.job, of |-> tool.of, tree |-> tool.tree]
      /\ tool.job = "backup" => tool.of \in 1 .. Len(trees) /\ Len(tool.tree) <= 2
      /\ tool.job = "restore" => tool.of \in 1 .. Len(archives)
  BY DEF FenceInv, FenceTypeOK, TreesOK, ToolOK
<1>1. CASE GiveUp
  <2>1. ToolOK' /\ archives' \in Seq(Archives)
    BY <1>1, <1>t, NothingGathered DEF GiveUp, NoTool, ToolOK
  <2> QED  BY <1>s, <2>1, Elsewhere
<1>2. CASE StartBackup
  <2>1. ToolOK' /\ archives' \in Seq(Archives)
    BY <1>2, <1>t, NothingGathered DEF StartBackup, ToolOK
  <2> QED  BY <1>s, <2>1, Elsewhere
<1>3. CASE StartRestore
  <2>1. ToolOK' /\ archives' \in Seq(Archives)
    BY <1>3, <1>t, NothingGathered DEF StartRestore, ToolOK
  <2> QED  BY <1>s, <2>1, Elsewhere
<1>4. CASE Snapshot
  <2> DEFINE next == Databases[Len(tool.tree) + 1]
             part == trees[tool.of][next]
  <2>1. /\ trees[tool.of] \in Trees
        /\ tool.tree = << >> \/ \E j \in Journals : tool.tree = <<j>>
    BY <1>4, <1>t, TwoDatabases DEF Snapshot, Gathered
  <2>2. tool' = [tool EXCEPT !.tree = Append(tool.tree, part)] /\ UNCHANGED <<trees, archives>>
    BY <1>4 DEF Snapshot
  <2>3. CASE tool.tree = << >>
    <3>1. part = trees[tool.of].effects
      BY <2>3, TwoDatabases
    <3> HIDE DEF part
    <3>2. part \in Journals
      BY <2>1, <3>1 DEF Trees
    <3>3. ToolOK'
      BY <2>2, <2>3, <3>2, ToolGathers
    <3> QED  BY <1>s, <1>t, <2>2, <3>3, Elsewhere
  <2>4. CASE \E j \in Journals : tool.tree = <<j>>
    <3>1. Len(tool.tree) = 1
      BY <2>4
    <3>2. part = trees[tool.of].tasks
      BY <3>1, TwoDatabases
    <3> HIDE DEF part
    <3>3. part \in Results
      BY <2>1, <3>2 DEF Trees
    <3>4. ToolOK'
      BY <2>2, <3>1, <3>3, ToolGathers
    <3> QED  BY <1>s, <1>t, <2>2, <3>4, Elsewhere
  <2> QED  BY <2>1, <2>3, <2>4
<1>5. CASE PublishArchive
  <2> DEFINE made == [copies |-> tool.tree, sound |-> TRUE]
  <2>1. Len(tool.tree) = 2
    BY <1>5, TwoDatabases DEF PublishArchive
  <2>2. tool.tree \in Journals \X Results
    BY <1>t, <2>1, TwoGathered
  <2>3. made \in Archives
    BY <2>2 DEF Archives
  <2>4. archives' = Append(archives, made) /\ tool' = NoTool
    BY <1>5 DEF PublishArchive
  <2> HIDE DEF made
  <2>5. archives' \in Seq(Archives)
    BY <1>t, <2>3, <2>4, AppendProperties
  <2>6. ToolOK'
    BY <2>4, NothingGathered DEF NoTool, ToolOK
  <2> QED  BY <1>s, <2>5, <2>6, Elsewhere
<1>6. CASE Damage
  <2>1. PICK a \in 1 .. Len(archives) : archives' = [archives EXCEPT ![a].sound = FALSE]
    BY <1>6 DEF Damage
  <2> DEFINE damaged == [archives[a] EXCEPT !.sound = FALSE]
  <2>2. archives[a] \in Archives
    BY <1>t
  <2>3. damaged \in Archives
    BY <2>2 DEF Archives
  <2>4. archives' = [archives EXCEPT ![a] = damaged]
    BY <2>1
  <2> HIDE DEF damaged
  <2>5. archives' \in Seq(Archives) /\ Len(archives') = Len(archives)
    BY <1>t, <2>3, <2>4, ExceptSeq
  <2>6. tool' = tool /\ trees' = trees
    BY <1>6 DEF Damage
  <2>7. ToolOK'
    BY <1>t, <2>5, <2>6 DEF ToolOK
  <2> QED  BY <1>s, <2>5, <2>7, Elsewhere
<1>7. CASE Unpack
  <2> DEFINE part == archives[tool.of].copies[Len(tool.tree) + 1]
  <2>1. /\ archives[tool.of] \in Archives
        /\ tool.tree = << >> \/ \E j \in Journals : tool.tree = <<j>>
    BY <1>7, <1>t, TwoDatabases DEF Unpack, Gathered
  <2>2. tool' = [tool EXCEPT !.tree = Append(tool.tree, part)] /\ UNCHANGED <<trees, archives>>
    BY <1>7 DEF Unpack
  <2>3. CASE tool.tree = << >>
    <3>1. part = archives[tool.of].copies[1]
      BY <2>3
    <3> HIDE DEF part
    <3>2. part \in Journals
      BY <2>1, <3>1 DEF Archives
    <3>3. ToolOK'
      BY <2>2, <2>3, <3>2, ToolGathers
    <3> QED  BY <1>s, <1>t, <2>2, <3>3, Elsewhere
  <2>4. CASE \E j \in Journals : tool.tree = <<j>>
    <3>1. Len(tool.tree) = 1
      BY <2>4
    <3>2. part = archives[tool.of].copies[2]
      BY <3>1
    <3> HIDE DEF part
    <3>3. part \in Results
      BY <2>1, <3>2 DEF Archives
    <3>4. ToolOK'
      BY <2>2, <3>1, <3>3, ToolGathers
    <3> QED  BY <1>s, <1>t, <2>2, <3>4, Elsewhere
  <2> QED  BY <2>1, <2>3, <2>4
<1>8. CASE StageFence
  <2>1. Len(tool.tree) = 2 /\ tool.job = "restore" /\ StagedFence \in Raised
    BY <1>8, TwoDatabases DEF StageFence, Raised
  <2>2. tool' = [tool EXCEPT !.tree = Append(tool.tree, StagedFence)] /\ UNCHANGED <<trees, archives>>
    BY <1>8 DEF StageFence
  <2>3. ToolOK'
    BY <2>1, <2>2, ToolGathers
  <2> QED  BY <1>s, <1>t, <2>2, <2>3, Elsewhere
<1> QED  BY <1>1, <1>2, <1>3, <1>4, <1>5, <1>6, <1>7, <1>8

(* A restored directory has its fence.                                      *)
LEMMA PublishPreserves ==
    ASSUME FenceInv, PublishTree
    PROVE  FenceInv'
<1> DEFINE new == [effects |-> tool.tree[1], tasks |-> tool.tree[2], fence |-> tool.tree[3]]
<1>1. Len(tool.tree) = 3 /\ Gathered(tool.tree)
  BY TwoDatabases DEF PublishTree, FenceInv, FenceTypeOK, ToolOK
<1>2. PICK j \in Journals, r \in Results, f \in Raised : tool.tree = <<j, r, f>>
  BY <1>1 DEF Gathered
<1>a. new = [effects |-> j, tasks |-> r, fence |-> f]
  BY <1>2
<1>b. new \in Trees /\ new.fence
  BY <1>a DEF Trees, Raised, StagedFence
<1>3. /\ trees' = Append(trees, new) /\ tool' = NoTool
      /\ UNCHANGED <<archives, serving, flight, issued>>
  BY DEF PublishTree
<1> HIDE DEF new
<1>4. /\ trees' \in Seq(Trees) /\ Len(trees') = Len(trees) + 1
      /\ trees'[Len(trees) + 1] = new
      /\ \A i \in 1 .. Len(trees) : trees'[i] = trees[i]
      /\ Len(trees) \in Nat /\ Len(trees) >= 1
  BY <1>b, <1>3, AppendProperties DEF FenceInv, FenceTypeOK, TreesOK
<1>5. TreesOK'
  BY <1>3, <1>4 DEF FenceInv, FenceTypeOK, TreesOK
<1>6. ToolOK'
  BY <1>3, NothingGathered DEF NoTool, ToolOK
<1>7. CopiesAreFenced'
  BY <1>b, <1>4 DEF FenceInv, CopiesAreFenced
<1>8. trees'[1] = trees[1]
  BY <1>4
<1>9. CallsOK' /\ CallsAreAtHome' /\ SentIsKnown' /\ archives' \in Seq(Archives)
  BY <1>3, <1>8 DEF FenceInv, FenceTypeOK, CallsOK, CallsAreAtHome, SentIsKnown
<1> QED  BY <1>5, <1>6, <1>7, <1>9 DEF FenceInv, FenceTypeOK

(* The invariant is inductive.                                              *)
LEMMA FencePreserved == FenceInv /\ [FenceNext]_fenceVars => FenceInv'
<1> SUFFICES ASSUME FenceInv, [FenceNext]_fenceVars PROVE FenceInv'  OBVIOUS
<1>1. CASE UNCHANGED fenceVars
  <2>1. ToolOK' /\ archives' \in Seq(Archives)
    BY <1>1 DEF fenceVars, FenceInv, FenceTypeOK, ToolOK
  <2> QED  BY <1>1, <2>1, Elsewhere DEF fenceVars
<1>2. CASE FenceNext
  BY <1>2, CallsPreserve, ServicePreserves, ToolsPreserve, PublishPreserves DEF FenceNext
<1> QED  BY <1>1, <1>2

(* No operation goes out twice, from whatever directory the service runs,   *)
(* however backups, restores and restores of their backups follow on each   *)
(* other (operations/backup.py, restore_fence.py, effects.py).              *)
THEOREM CallsGoOutOnce == FenceSpec => []NothingIsRepeated
<1>1. FenceInv => NothingIsRepeated
  BY DEF FenceInv, SentIsKnown, NothingIsRepeated
<1> QED
  BY FenceInitially, FencePreserved, <1>1, PTL DEF FenceSpec

=============================================================================
