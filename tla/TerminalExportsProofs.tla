----------------------- MODULE TerminalExportsProofs -----------------------
(***************************************************************************)
(* Theorems about TerminalExports, for every set of writers and any number *)
(* of faults and restarts.  Formats are stored in one order, so a writer   *)
(* that is past the first one has found it compatible with what it read.   *)
(***************************************************************************)
EXTENDS TerminalExports, TLAPS

(* A writer at its n-th format has the ones before it stored, and one about *)
(* to announce the exports has all of them.                                 *)
Filled ==
    \A w \in Writers :
        /\ pc[w] = "put" => /\ next[w] \in 1 .. 4
                            /\ \A i \in 1 .. next[w] - 1 : stored[Formats[i]] # Missing
        /\ pc[w] = "announce" => Stored = AllFormats

(* What is stored, and what a writer past the first format has read, is of  *)
(* the moment the JSON report describes.                                    *)
SameMoment(v) ==
    /\ stored["json"] # Missing
    /\ v.row = stored["json"].row
    /\ v.log = stored["json"].log
Alike ==
    ~result => /\ \A f \in Stored : SameMoment(stored[f])
               /\ \A w \in Writers : pc[w] = "put" /\ next[w] > 1 => SameMoment(view[w])

IInv == ExportTypeOK /\ Filled /\ ReadyMeansStored /\ Alike

-----------------------------------------------------------------------------
LEMMA FormatsAre ==
    /\ Len(Formats) = 4
    /\ DOMAIN Formats = 1 .. 4
    /\ Formats[1] = "json" /\ Formats[2] = "markdown"
    /\ Formats[3] = "html" /\ Formats[4] = "pdf"
    /\ AllFormats = {"json", "markdown", "html", "pdf"}
    /\ \A i \in 1 .. 4 : Formats[i] \in AllFormats
<1>1. /\ Len(Formats) = 4
      /\ DOMAIN Formats = 1 .. 4
      /\ Formats[1] = "json" /\ Formats[2] = "markdown"
      /\ Formats[3] = "html" /\ Formats[4] = "pdf"
  BY DEF Formats
<1>2. AllFormats = {Formats[1], Formats[2], Formats[3], Formats[4]}
  BY <1>1 DEF AllFormats
<1> QED
  BY <1>1, <1>2

(* The ledger gains at most the event appended.                             *)
LEMMA Appending ==
    ASSUME log \in Seq(Events), NEW e \in Events
    PROVE  /\ Appended(e) \in Seq(Events)
           /\ \A i \in DOMAIN Appended(e) : Appended(e)[i] = e \/
                 \E j \in DOMAIN log : log[j] = Appended(e)[i]
<1>1. CASE \E i \in DOMAIN log : log[i] = e
  BY <1>1 DEF Appended
<1>2. CASE ~\E i \in DOMAIN log : log[i] = e
  <2>1. Appended(e) = Append(log, e)
    BY <1>2 DEF Appended
  <2>2. DOMAIN log = 1 .. Len(log) /\ Len(log) \in Nat
    OBVIOUS
  <2>3. DOMAIN Append(log, e) = 1 .. Len(log) + 1
    OBVIOUS
  <2>4. ASSUME NEW i \in 1 .. Len(log) + 1
        PROVE  Append(log, e)[i] = e \/ \E j \in DOMAIN log : log[j] = Append(log, e)[i]
    <3>1. CASE i = Len(log) + 1
      BY <3>1
    <3>2. CASE i # Len(log) + 1
      <4>1. i \in 1 .. Len(log) /\ Append(log, e)[i] = log[i]
        BY <3>2, <2>2
      <4> QED
        BY <4>1, <2>2
    <3> QED
      BY <3>1, <3>2
  <2> QED
    BY <2>1, <2>3, <2>4
<1> QED
  BY <1>1, <1>2

LEMMA NotNewlyReady ==
    ASSUME log \in Seq(Events), NEW e \in Events, log' = Appended(e),
           e.kind # "exports_ready", Logged("exports_ready")'
    PROVE  Logged("exports_ready")
  BY Appending DEF Logged

LEMMA ContentIsAView ==
    ASSUME NEW f \in AllFormats, NEW v \in Views
    PROVE  /\ Content(f, v) \in Views
           /\ Content(f, v) # Missing
           /\ ~result => Content(f, v).row = v.row /\ Content(f, v).log = v.log
<1>1. Content(f, v) \in Views
  <2>1. [row |-> v.row, log |-> v.log, present |-> {}] \in Views
    BY DEF Views
  <2>2. <<>> \in Seq(Events) /\ [row |-> Missing, log |-> <<>>, present |-> {}] \in Views
    BY DEF Views
  <2> QED
    BY <2>1, <2>2 DEF Content
<1>2. ~result => Content(f, v).row = v.row /\ Content(f, v).log = v.log
  BY DEF Content
<1> QED
  BY <1>1, <1>2, ExportAssumption

-----------------------------------------------------------------------------
LEMMA InitIInv == ExportInit => IInv
<1> SUFFICES ASSUME ExportInit PROVE IInv
  OBVIOUS
<1> USE ExportAssumption DEF ExportInit
<1>1. ExportTypeOK
  <2>1. <<>> \in Seq(Events) /\ NoView \in Views
    BY DEF Views, NoView
  <2>2. row \in Rows
    BY DEF Rows
  <2>3. next \in [Writers -> 1 .. Len(Formats) + 1]
    BY FormatsAre
  <2> QED
    BY <2>1, <2>2, <2>3 DEF ExportTypeOK
<1>2. Filled
  BY DEF Filled
<1>3. ReadyMeansStored /\ Alike
  BY DEF ReadyMeansStored, Logged, Alike, Stored
<1> QED
  BY <1>1, <1>2, <1>3 DEF IInv

(* A writer that leaves takes nothing of another writer with it.            *)
LEMMA Leaving ==
    ASSUME ExportTypeOK, NEW w \in Writers, Leave(w)
    PROVE  /\ pc' = [pc EXCEPT ![w] = "idle"]
           /\ view' \in [Writers -> Views]
           /\ next' \in [Writers -> 1 .. Len(Formats) + 1]
           /\ error' \in [Writers -> Faults \union {"none"}]
           /\ \A u \in Writers : u # w => view'[u] = view[u] /\ next'[u] = next[u]
<1>1. NoView \in Views
  BY DEF NoView, Views
<1> QED
  BY <1>1, FormatsAre DEF Leave, Goto, ExportTypeOK

(* A step that moves one writer elsewhere than to "put" and "announce", and *)
(* leaves the reports and the claim that they are ready alone.              *)
LEMMA Elsewhere ==
    ASSUME ExportTypeOK, Filled, ReadyMeansStored, Alike,
           NEW w \in Writers, NEW where \in {"idle", "read_row", "read_log", "read_stored",
                                            "failed", "downgrade"},
           pc' = [pc EXCEPT ![w] = where],
           Logged("exports_ready")' => Logged("exports_ready"),
           UNCHANGED <<result, stored>>,
           \A u \in Writers : pc[u] = "put" /\ u # w => view'[u] = view[u] /\ next'[u] = next[u]
    PROVE  Filled' /\ ReadyMeansStored' /\ Alike'
<1>1. \A u \in Writers : pc'[u] \in {"put", "announce"} => u # w /\ pc'[u] = pc[u]
  BY DEF ExportTypeOK
<1>2. Stored' = Stored
  BY DEF Stored
<1>3. Filled'
  BY <1>1, <1>2 DEF Filled
<1>4. ReadyMeansStored'
  BY <1>2 DEF ReadyMeansStored
<1>5. Alike'
  <2>1. stored' = stored /\ result' = result
    OBVIOUS
  <2>2. \A u \in Writers : pc'[u] = "put" =>
            pc[u] = "put" /\ view'[u] = view[u] /\ next'[u] = next[u]
    BY <1>1
  <2> QED
    BY <2>1, <2>2, <1>2 DEF Alike, SameMoment
<1> QED
  BY <1>3, <1>4, <1>5

LEMMA PutStep ==
    ASSUME ExportTypeOK, Filled, ReadyMeansStored, Alike, NEW w \in Writers, Put(w)
    PROVE  IInv'
<1> DEFINE n == next[w]
           f == Formats[n]
           c == Content(f, view[w])
<1>1. n \in 1 .. 4 /\ f \in AllFormats /\ view[w] \in Views
  BY FormatsAre DEF Filled, Put, ExportTypeOK
<1>2. c \in Views /\ c # Missing /\ (~result => c.row = view[w].row /\ c.log = view[w].log)
  BY <1>1, ContentIsAView
<1> HIDE DEF n, f, c
<1>3. CASE ~Compatible(f, c)
  <2>1. /\ error' = [error EXCEPT ![w] = "conflict"] /\ pc' = [pc EXCEPT ![w] = "failed"]
        /\ UNCHANGED <<stored, next, result, row, log, view, faults, restarts>>
    BY <1>3 DEF Put, Goto, n, f, c
  <2>2. ExportTypeOK'
    BY <2>1 DEF ExportTypeOK, Faults
  <2>3. Logged("exports_ready")' => Logged("exports_ready")
    BY <2>1 DEF Logged
  <2>4. Filled' /\ ReadyMeansStored' /\ Alike'
    BY <2>1, <2>3, Elsewhere
  <2> QED
    BY <2>2, <2>4 DEF IInv
<1>4. CASE Compatible(f, c)
  <2>1. /\ stored' = [stored EXCEPT ![f] = c] /\ next' = [next EXCEPT ![w] = n + 1]
        /\ pc' = [pc EXCEPT ![w] = IF n = 4 THEN "announce" ELSE "put"]
        /\ UNCHANGED <<error, result, row, log, view, faults, restarts>>
    BY <1>4, FormatsAre DEF Put, Goto, AfterStoring, n, f, c
  <2>2. stored[f] \in {Missing, c}
    BY <1>4 DEF Compatible
  <2>3. \A g \in AllFormats : stored[g] # Missing => stored'[g] = stored[g]
    BY <2>1, <2>2, <1>1, <1>2 DEF ExportTypeOK
  <2>4. stored'[f] = c
    BY <2>1, <1>1 DEF ExportTypeOK
  <2>5. \A g \in AllFormats : stored'[g] # Missing => g = f \/ stored'[g] = stored[g]
    BY <2>1, <1>1 DEF ExportTypeOK
  <2>6. ExportTypeOK'
    <3>1. stored' \in [AllFormats -> Views \union {Missing}]
      BY <2>1, <1>2 DEF ExportTypeOK
    <3>2. next' \in [Writers -> 1 .. Len(Formats) + 1]
      BY <2>1, <1>1, FormatsAre DEF ExportTypeOK
    <3> QED
      BY <2>1, <3>1, <3>2 DEF ExportTypeOK
  <2>7. \A i \in 1 .. n : stored'[Formats[i]] # Missing
    <3> SUFFICES ASSUME NEW i \in 1 .. n PROVE stored'[Formats[i]] # Missing
      OBVIOUS
    <3>1. CASE i = n
      BY <3>1, <2>4, <1>2 DEF f
    <3>2. CASE i # n
      <4>1. i \in 1 .. n - 1 /\ i \in 1 .. 4
        BY <3>2, <1>1
      <4>2. stored[Formats[i]] # Missing /\ Formats[i] \in AllFormats
        BY <4>1, FormatsAre DEF Filled, Put, n
      <4> QED
        BY <4>2, <2>3
    <3> QED
      BY <3>1, <3>2
  <2>8. Stored = AllFormats => Stored' = AllFormats
    BY <2>3 DEF Stored
  <2>9. n = 4 => Stored' = AllFormats
    BY <2>7, FormatsAre DEF Stored
  <2>10. Filled'
    <3> SUFFICES ASSUME NEW u \in Writers
                 PROVE  /\ pc'[u] = "put" => /\ next'[u] \in 1 .. 4
                                             /\ \A i \in 1 .. next'[u] - 1 : stored'[Formats[i]] # Missing
                        /\ pc'[u] = "announce" => Stored' = AllFormats
      BY DEF Filled
    <3>1. CASE u = w
      <4>1. next'[u] = n + 1 /\ pc'[u] = IF n = 4 THEN "announce" ELSE "put"
        BY <3>1, <2>1 DEF ExportTypeOK
      <4>2. \A i \in 1 .. (n + 1) - 1 : stored'[Formats[i]] # Missing
        BY <2>7, <1>1
      <4> QED
        BY <4>1, <4>2, <2>9, <1>1
    <3>2. CASE u # w
      <4>1. next'[u] = next[u] /\ pc'[u] = pc[u]
        BY <3>2, <2>1 DEF ExportTypeOK
      <4>2. ASSUME pc[u] = "put"
            PROVE  next[u] \in 1 .. 4 /\ \A i \in 1 .. next[u] - 1 : stored'[Formats[i]] # Missing
        <5>1. next[u] \in 1 .. 4
          BY <4>2 DEF Filled
        <5>2. ASSUME NEW i \in 1 .. next[u] - 1 PROVE stored'[Formats[i]] # Missing
          <6>1. stored[Formats[i]] # Missing /\ i \in 1 .. 4
            BY <4>2, <5>1 DEF Filled
          <6> QED
            BY <6>1, <2>3, FormatsAre
        <5> QED
          BY <5>1, <5>2
      <4> QED
        BY <4>1, <4>2, <2>8 DEF Filled
    <3> QED
      BY <3>1, <3>2
  <2>11. ReadyMeansStored'
    BY <2>1, <2>8 DEF ReadyMeansStored, Logged
  <2>12. Alike'
    <3> SUFFICES ASSUME ~result PROVE Alike'
      BY <2>1 DEF Alike
    <3>1. f = "json" <=> n = 1
      BY <1>1, FormatsAre DEF f
    <3>2. stored'["json"] # Missing /\ c.row = stored'["json"].row /\ c.log = stored'["json"].log
      <4>1. CASE n = 1
        BY <4>1, <3>1, <2>4, <1>2
      <4>2. CASE n # 1
        <5>1. n > 1
          BY <4>2, <1>1
        <5>2. /\ stored["json"] # Missing
              /\ view[w].row = stored["json"].row /\ view[w].log = stored["json"].log
          BY <5>1 DEF Alike, SameMoment, Put, n
        <5>3. stored'["json"] = stored["json"]
          BY <5>2, <2>3, FormatsAre
        <5> QED
          BY <5>2, <5>3, <1>2
      <4> QED
        BY <4>1, <4>2
    <3>3. ASSUME NEW g \in Stored' PROVE SameMoment(stored[g])'
      <4>1. CASE g = f
        BY <4>1, <3>2, <2>4 DEF SameMoment
      <4>2. CASE g # f
        <5>1. stored'[g] = stored[g] /\ g \in Stored
          BY <4>2, <2>5 DEF Stored
        <5>2. SameMoment(stored[g])
          BY <5>1 DEF Alike
        <5>3. stored'["json"] = stored["json"]
          BY <5>2, <2>3, FormatsAre DEF SameMoment
        <5> QED
          BY <5>1, <5>2, <5>3 DEF SameMoment
      <4> QED
        BY <4>1, <4>2
    <3>4. ASSUME NEW u \in Writers, pc'[u] = "put", next'[u] > 1 PROVE SameMoment(view[u])'
      <4>1. CASE u = w
        BY <4>1, <3>2, <1>2, <2>1 DEF SameMoment
      <4>2. CASE u # w
        <5>1. next'[u] = next[u] /\ pc'[u] = pc[u] /\ view' = view
          BY <4>2, <2>1 DEF ExportTypeOK
        <5>2. SameMoment(view[u])
          BY <5>1, <3>4 DEF Alike
        <5>3. stored'["json"] = stored["json"]
          BY <5>2, <2>3, FormatsAre DEF SameMoment
        <5> QED
          BY <5>1, <5>2, <5>3 DEF SameMoment
      <4> QED
        BY <4>1, <4>2
    <3> QED
      BY <3>3, <3>4 DEF Alike
  <2> QED
    BY <2>6, <2>10, <2>11, <2>12 DEF IInv
<1> QED
  BY <1>3, <1>4

LEMMA ReadStoredStep ==
    ASSUME ExportTypeOK, Filled, ReadyMeansStored, Alike, NEW w \in Writers, ReadStored(w)
    PROVE  IInv'
<1>1. /\ view' = [view EXCEPT ![w].present = Stored]
      /\ next' = [next EXCEPT ![w] = 1]
      /\ pc' = [pc EXCEPT ![w] = AfterReading]
      /\ pc[w] = "read_stored"
      /\ UNCHANGED <<result, row, log, stored, error, faults, restarts>>
  BY DEF ReadStored, Goto
<1>2. ExportTypeOK'
  <2>1. Stored \subseteq AllFormats /\ view' \in [Writers -> Views]
    BY <1>1 DEF Stored, ExportTypeOK, Views
  <2>2. next' \in [Writers -> 1 .. Len(Formats) + 1]
    BY <1>1, FormatsAre DEF ExportTypeOK
  <2> QED
    BY <1>1, <2>1, <2>2 DEF ExportTypeOK, AfterReading
<1>3. Stored' = Stored
  BY <1>1 DEF Stored
<1>4. \A u \in Writers : u # w => pc'[u] = pc[u] /\ next'[u] = next[u] /\ view'[u] = view[u]
  BY <1>1 DEF ExportTypeOK
<1>5. next'[w] = 1 /\ (pc'[w] = "announce" => Stored = AllFormats)
  BY <1>1 DEF ExportTypeOK, AfterReading
<1>6. Filled'
  BY <1>1, <1>3, <1>4, <1>5 DEF Filled
<1>7. ReadyMeansStored'
  BY <1>1, <1>3 DEF ReadyMeansStored, Logged
<1>8. Alike'
  BY <1>1, <1>3, <1>4, <1>5 DEF Alike, SameMoment
<1> QED
  BY <1>2, <1>6, <1>7, <1>8 DEF IInv

LEMMA AnnounceStep ==
    ASSUME ExportTypeOK, Filled, ReadyMeansStored, Alike, NEW w \in Writers, Announce(w)
    PROVE  IInv'
<1>1. /\ log' = Appended(Event("exports_ready"))
      /\ Leave(w)
      /\ UNCHANGED <<result, row, stored, faults, restarts>>
  BY DEF Announce
<1>2. Event("exports_ready") \in Events
  BY DEF Event, Events
<1>3. ExportTypeOK'
  BY <1>1, <1>2, Appending, Leaving DEF ExportTypeOK
<1>4. Stored' = Stored /\ Stored = AllFormats
  BY <1>1 DEF Stored, Filled, Announce
<1>5. \A u \in Writers : pc'[u] \in {"put", "announce"} =>
          pc'[u] = pc[u] /\ view'[u] = view[u] /\ next'[u] = next[u]
  BY <1>1, Leaving DEF ExportTypeOK
<1>6. Filled'
  BY <1>1, <1>4, <1>5 DEF Filled
<1>7. Alike'
  BY <1>1, <1>4, <1>5 DEF Alike, SameMoment
<1>8. ReadyMeansStored'
  BY <1>4 DEF ReadyMeansStored
<1> QED
  BY <1>3, <1>6, <1>7, <1>8 DEF IInv

(* The other steps of a writer, and a restart, are nowhere near a report.   *)
LEMMA OtherSteps ==
    ASSUME ExportTypeOK, Filled, ReadyMeansStored, Alike, NEW w \in Writers,
           Enter(w) \/ ReadRow(w) \/ ReadLog(w) \/ Fault(w) \/ AnnounceFailure(w) \/ Downgrade(w)
    PROVE  IInv'
<1> USE DEF Goto
<1>1. CASE Enter(w)
  <2>1. Event("budget_settled") \in Events /\ Event("budget_settled").kind # "exports_ready"
    BY DEF Event, Events
  <2>2. ExportTypeOK'
    BY <1>1, <2>1, Appending DEF Enter, ExportTypeOK
  <2>3. Logged("exports_ready")' => Logged("exports_ready")
    BY <1>1, <2>1, NotNewlyReady DEF Enter, ExportTypeOK
  <2> QED
    BY <1>1, <2>2, <2>3, Elsewhere DEF Enter, IInv
<1>2. CASE ReadRow(w)
  <2>1. ExportTypeOK'
    BY <1>2 DEF ReadRow, ExportTypeOK, Views
  <2>2. \A u \in Writers : pc[u] = "put" /\ u # w => view'[u] = view[u] /\ next'[u] = next[u]
    BY <1>2 DEF ReadRow, ExportTypeOK
  <2> QED
    BY <1>2, <2>1, <2>2, Elsewhere DEF ReadRow, IInv, Logged
<1>3. CASE ReadLog(w)
  <2>1. ExportTypeOK'
    BY <1>3 DEF ReadLog, ExportTypeOK, Views
  <2>2. \A u \in Writers : pc[u] = "put" /\ u # w => view'[u] = view[u] /\ next'[u] = next[u]
    BY <1>3 DEF ReadLog, ExportTypeOK
  <2> QED
    BY <1>3, <2>1, <2>2, Elsewhere DEF ReadLog, IInv, Logged
<1>4. CASE Fault(w)
  <2>1. faults + 1 \in 0 .. MaxFaults
    BY <1>4, ExportAssumption DEF Fault, ExportTypeOK
  <2>2. ExportTypeOK'
    BY <1>4, <2>1 DEF Fault, ExportTypeOK, FailureType, Faults
  <2> QED
    BY <1>4, <2>2, Elsewhere DEF Fault, IInv, Logged
<1>5. CASE AnnounceFailure(w)
  <2> DEFINE e == [kind |-> "task_terminal_no_exports", why |-> error[w]]
  <2>1. e \in Events /\ e.kind # "exports_ready"
    BY DEF ExportTypeOK, Events
  <2> HIDE DEF e
  <2>2. log' = log \/ log' = Appended(e)
    BY <1>5 DEF AnnounceFailure, e
  <2>3. UNCHANGED <<result, row, stored, faults, restarts>>
    BY <1>5 DEF AnnounceFailure
  <2>4. log' \in Seq(Events)
    BY <2>1, <2>2, Appending DEF ExportTypeOK
  <2>5. Logged("exports_ready")' => Logged("exports_ready")
    BY <2>1, <2>2, NotNewlyReady DEF ExportTypeOK, Logged
  <2>6. CASE Leave(w)
    <3>1. ExportTypeOK'
      BY <2>3, <2>4, <2>6, Leaving DEF ExportTypeOK
    <3> QED
      BY <2>3, <2>5, <2>6, <3>1, Leaving, Elsewhere DEF IInv
  <2>7. CASE pc' = [pc EXCEPT ![w] = "downgrade"] /\ UNCHANGED <<view, next, error>>
    <3>1. ExportTypeOK'
      BY <2>3, <2>4, <2>7 DEF ExportTypeOK
    <3> QED
      BY <2>3, <2>5, <2>7, <3>1, Elsewhere DEF IInv
  <2> QED
    BY <1>5, <2>6, <2>7 DEF AnnounceFailure
<1>6. CASE Downgrade(w)
  <2>1. Leave(w) /\ UNCHANGED <<result, log, stored, faults, restarts>>
    BY <1>6 DEF Downgrade
  <2>2. row' \in Rows
    BY <1>6 DEF Downgrade, ExportTypeOK, Rows
  <2>3. ExportTypeOK'
    BY <2>1, <2>2, Leaving DEF ExportTypeOK
  <2>4. Logged("exports_ready")' => Logged("exports_ready")
    BY <2>1 DEF Logged
  <2> QED
    BY <2>1, <2>3, <2>4, Leaving, Elsewhere DEF IInv
<1> QED
  BY <1>1, <1>2, <1>3, <1>4, <1>5, <1>6

LEMMA RestartStep ==
    ASSUME ExportTypeOK, Filled, ReadyMeansStored, Alike, Restart
    PROVE  IInv'
<1>1. ExportTypeOK'
  <2>1. NoView \in Views
    BY DEF NoView, Views
  <2>2. restarts + 1 \in 0 .. MaxRestarts
    BY ExportAssumption DEF Restart, ExportTypeOK
  <2>3. next' \in [Writers -> 1 .. Len(Formats) + 1]
    BY FormatsAre DEF Restart
  <2> QED
    BY <2>1, <2>2, <2>3 DEF Restart, ExportTypeOK
<1>2. Filled' /\ ReadyMeansStored' /\ Alike'
  BY DEF Restart, Filled, ReadyMeansStored, Alike, SameMoment, Stored, Logged
<1> QED
  BY <1>1, <1>2 DEF IInv

LEMMA NextIInv == IInv /\ [ExportNext]_exportVars => IInv'
<1> SUFFICES ASSUME ExportTypeOK, Filled, ReadyMeansStored, Alike, [ExportNext]_exportVars PROVE IInv'
  BY DEF IInv
<1>1. CASE UNCHANGED exportVars
  BY <1>1 DEF exportVars, IInv, ExportTypeOK, Filled, ReadyMeansStored, Alike, SameMoment, Stored, Logged
<1>2. ASSUME NEW w \in Writers, Writes(w) \/ Fault(w) PROVE IInv'
  BY <1>2, PutStep, ReadStoredStep, AnnounceStep, OtherSteps DEF Writes
<1> QED
  BY <1>1, <1>2, RestartStep DEF ExportNext

-----------------------------------------------------------------------------
LEMMA Invariance == ExportSpec => []IInv
  BY InitIInv, NextIInv, PTL DEF ExportSpec

(* What the export path reads, writes and appends keeps its type.           *)
THEOREM TypeCorrect == ExportSpec => []ExportTypeOK
  BY Invariance, PTL DEF IInv

(* The ready event implies four stored reports, whoever stored them         *)
(* (service.py:1728-1740, 1773-1787).                                       *)
THEOREM ReadyIsTrue == ExportSpec => []ReadyMeansStored
  BY Invariance, PTL DEF IInv

(* The reports of a task without a result are of one moment, though writers *)
(* that read different ones may store them (store.py:216-221).              *)
THEOREM ReportsAreOfOneMoment == ExportSpec => []ReportsAgree
<1>1. IInv => ReportsAgree
  BY DEF IInv, Alike, SameMoment, ReportsAgree
<1> QED
  BY <1>1, Invariance, PTL
=============================================================================
