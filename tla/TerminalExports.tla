-------------------------- MODULE TerminalExports --------------------------
(***************************************************************************)
(* The terminal exports of one task (delivery/service.py, _write_exports): *)
(* the reservation is settled, four report formats are rendered from what  *)
(* the task row, the events and the stored artifacts say, each is stored   *)
(* in a transaction of its own, and an event closes the stream.            *)
(*                                                                         *)
(* Several writers can be in it at once: the worker that ended the task    *)
(* and the requests of POST .../report/retry, which takes no lock.         *)
(***************************************************************************)
EXTENDS Naturals, Sequences

CONSTANTS Writers,          \* the threads that may write the exports
          MaxFaults,        \* bound: failures of a renderer or of the store
          MaxRestarts,      \* bound: losses of the process
          Missing

Formats == <<"json", "markdown", "html", "pdf">>
AllFormats == {Formats[i] : i \in DOMAIN Formats}
Faults == {"render", "store", "conflict"}

Rows == [status : {"completed", "failed", "degraded"}, note : BOOLEAN]
Events == [kind : {"budget_settled", "exports_ready", "task_terminal_no_exports"},
           why : Faults \union {"none"}]
Views == [row : Rows \union {Missing}, log : Seq(Events), present : SUBSET AllFormats]

ASSUME ExportAssumption ==
    /\ MaxFaults \in Nat
    /\ MaxRestarts \in Nat
    /\ Missing \notin Views

VARIABLES
    row,        \* the task row: its status, and whether the note that the
                \* exports could not be rendered is among its degradations
    log,        \* the events the export path appends, oldest first
    result,     \* is a research result stored for the task?
    stored,     \* the report artifacts: what each was rendered from
    pc,         \* where each writer is
    view,       \* what each writer read: row, events, formats present
    next,       \* the format each writer stores next
    error,      \* the type of error each writer met
    faults,
    restarts

exportVars == <<row, log, result, stored, pc, view, next, error, faults, restarts>>

Stored == {f \in AllFormats : stored[f] # Missing}
Logged(kind) == \E i \in DOMAIN log : log[i].kind = kind
Appended(e) == IF \E i \in DOMAIN log : log[i] = e THEN log ELSE Append(log, e)
Event(kind) == [kind |-> kind, why |-> "none"]

NoView == [row |-> Missing, log |-> <<>>, present |-> {}]

(* What a format says. The JSON report quotes the row and the events; the   *)
(* others also list the artifacts present, or are the stored result's own   *)
(* report.                                                                  *)
Content(f, v) ==
    IF f = "json" THEN [row |-> v.row, log |-> v.log, present |-> {}]
    ELSE IF result THEN [row |-> Missing, log |-> <<>>, present |-> {}]
    ELSE v

ExportInit ==
    /\ row \in [status : {"completed", "failed"}, note : {FALSE}]
    /\ log = <<>>
    /\ result \in BOOLEAN
    /\ stored = [f \in AllFormats |-> Missing]
    /\ pc = [w \in Writers |-> "idle"]
    /\ view = [w \in Writers |-> NoView]
    /\ next = [w \in Writers |-> 1]
    /\ error = [w \in Writers |-> "none"]
    /\ faults = 0
    /\ restarts = 0

Goto(w, where) == pc' = [pc EXCEPT ![w] = where]

(* _write_exports returns, or an exception leaves it: its locals are gone.  *)
Leave(w) ==
    /\ Goto(w, "idle")
    /\ view' = [view EXCEPT ![w] = NoView]
    /\ next' = [next EXCEPT ![w] = 1]
    /\ error' = [error EXCEPT ![w] = "none"]

(* A terminal path, or a retry request, enters _write_exports: the          *)
(* settlement and its event come first.                                     *)
Enter(w) ==
    /\ pc[w] = "idle"
    /\ log' = Appended(Event("budget_settled"))
    /\ Goto(w, "read_row")
    /\ UNCHANGED <<result, row, stored, view, next, error, faults, restarts>>

ReadRow(w) ==
    /\ pc[w] = "read_row"
    /\ view' = [view EXCEPT ![w].row = row]
    /\ Goto(w, "read_log")
    /\ UNCHANGED <<result, row, log, stored, next, error, faults, restarts>>

ReadLog(w) ==
    /\ pc[w] = "read_log"
    /\ view' = [view EXCEPT ![w].log = log]
    /\ Goto(w, "read_stored")
    /\ UNCHANGED <<result, row, log, stored, next, error, faults, restarts>>

AfterReading == IF Stored = AllFormats THEN "announce" ELSE "put"

(* With all formats there, only the event is left to append.                *)
ReadStored(w) ==
    /\ pc[w] = "read_stored"
    /\ view' = [view EXCEPT ![w].present = Stored]
    /\ next' = [next EXCEPT ![w] = 1]
    /\ Goto(w, AfterReading)
    /\ UNCHANGED <<result, row, log, stored, error, faults, restarts>>

OneFormatShort(w) == IF next[w] = Len(Formats) - 1 THEN "announce" ELSE "put"
AfterStoring(w) == IF next[w] = Len(Formats) THEN "announce" ELSE "put"

Overwritten(f, c) == TRUE
Compatible(f, c) == stored[f] \in {Missing, c}

(* add_artifact: the same content again is accepted, another is a conflict. *)
Put(w) ==
    /\ pc[w] = "put"
    /\ LET f == Formats[next[w]]
           c == Content(f, view[w])
       IN  IF Compatible(f, c)
           THEN /\ stored' = [stored EXCEPT ![f] = c]
                /\ next' = [next EXCEPT ![w] = @ + 1]
                /\ Goto(w, AfterStoring(w))
                /\ UNCHANGED error
           ELSE /\ error' = [error EXCEPT ![w] = "conflict"]
                /\ Goto(w, "failed")
                /\ UNCHANGED <<stored, next>>
    /\ UNCHANGED <<result, row, log, view, faults, restarts>>

FailureType(w) == IF next[w] = 1 THEN "render" ELSE "store"

(* All formats are rendered before the first is stored; the store may fail  *)
(* at any of them.                                                          *)
Fault(w) ==
    /\ faults < MaxFaults
    /\ pc[w] = "put"
    /\ faults' = faults + 1
    /\ error' = [error EXCEPT ![w] = FailureType(w)]
    /\ Goto(w, "failed")
    /\ UNCHANGED <<result, row, log, stored, view, next, restarts>>

EndUnannounced(w) ==
    /\ pc[w] = "announce"
    /\ Leave(w)
    /\ UNCHANGED <<result, row, log, stored, faults, restarts>>

Announce(w) ==
    /\ pc[w] = "announce"
    /\ log' = Appended(Event("exports_ready"))
    /\ Leave(w)
    /\ UNCHANGED <<result, row, stored, faults, restarts>>

(* The failure event has one stable key and carries the error's type: with  *)
(* another type the ledger refuses it, and the exception leaves             *)
(* _write_exports.                                                          *)
AnnounceFailure(w) ==
    /\ pc[w] = "failed"
    /\ LET e == [kind |-> "task_terminal_no_exports", why |-> error[w]]
           refused == \E i \in DOMAIN log : log[i].kind = e.kind /\ log[i] # e
       IN  \/ refused /\ Leave(w) /\ UNCHANGED log
           \/ /\ ~refused
              /\ log' = Appended(e)
              /\ Goto(w, "downgrade")
              /\ UNCHANGED <<view, next, error>>
    /\ UNCHANGED <<result, row, stored, faults, restarts>>

(* The note, and the withdrawal of a success claim.                         *)
Downgrade(w) ==
    /\ pc[w] = "downgrade"
    /\ row' = [status |-> IF row.status = "completed" THEN "degraded" ELSE row.status,
               note |-> TRUE]
    /\ Leave(w)
    /\ UNCHANGED <<result, log, stored, faults, restarts>>

Restart ==
    /\ restarts < MaxRestarts
    /\ restarts' = restarts + 1
    /\ pc' = [w \in Writers |-> "idle"]
    /\ view' = [w \in Writers |-> NoView]
    /\ next' = [w \in Writers |-> 1]
    /\ error' = [w \in Writers |-> "none"]
    /\ UNCHANGED <<result, row, log, stored, faults>>

Writes(w) ==
    \/ Enter(w) \/ ReadRow(w) \/ ReadLog(w) \/ ReadStored(w) \/ Put(w)
    \/ Announce(w) \/ AnnounceFailure(w) \/ Downgrade(w)

ExportNext ==
    \/ \E w \in Writers : Writes(w) \/ Fault(w)
    \/ Restart

ExportSpec == ExportInit /\ [][ExportNext]_exportVars

(* A writer goes on, and somebody asks again as long as it is of use.        *)
ExportFairSpec == ExportSpec /\ \A w \in Writers : WF_exportVars(Writes(w))

-----------------------------------------------------------------------------
ExportTypeOK ==
    /\ row \in Rows
    /\ log \in Seq(Events)
    /\ result \in BOOLEAN
    /\ stored \in [AllFormats -> Views \union {Missing}]
    /\ pc \in [Writers -> {"idle", "read_row", "read_log", "read_stored", "put",
                           "announce", "failed", "downgrade"}]
    /\ view \in [Writers -> Views]
    /\ next \in [Writers -> 1 .. Len(Formats) + 1]
    /\ error \in [Writers -> Faults \union {"none"}]
    /\ faults \in 0 .. MaxFaults
    /\ restarts \in 0 .. MaxRestarts

(* The event that tells the client to fetch the reports is in the ledger    *)
(* only when all four are stored, whoever stored them and whatever was lost *)
(* in between (service.py:1728-1740, 1772-1787).                            *)
ReadyMeansStored == Logged("exports_ready") => Stored = AllFormats

(* A stored report describes the task at one moment: formats stored by      *)
(* different writers, or before and after a restart, were rendered from the *)
(* same row and the same events (store.py:216-221 refuses a mix).           *)
ReportsAgree ==
    ~result => \A f, g \in Stored :
        stored[f].row = stored[g].row /\ stored[f].log = stored[g].log

(* The note that the exports could not be rendered, and the downgrade, are  *)
(* not given to a task whose four reports exist ("says what actually        *)
(* happened", service.py:1686).                                             *)
NoteIsTruthful ==
    [][~row.note /\ row'.note => Stored # AllFormats]_exportVars

(* A terminal task whose exports were asked for gets them or an event that  *)
(* says it did not, whichever writer, fault or restart interferes           *)
(* (service.py:1688-1697, 1728-1740, 1772-1787).                            *)
StreamIsClosed ==
    (\E w \in Writers : pc[w] # "idle")
        ~> (Logged("exports_ready") \/ Logged("task_terminal_no_exports"))
=============================================================================
