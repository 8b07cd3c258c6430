---------------------------- MODULE EventStream ----------------------------
(***************************************************************************)
(* The events of one task on their way to the browser: the durable ledger  *)
(* (workflow/storage.py, append_event and replay), the endpoint that       *)
(* replays and follows it (api/events.py, follow_sse), and the hook that   *)
(* reads the stream and reconnects (frontend/src/hooks/useTaskEvents.ts).  *)
(*                                                                         *)
(* An event is named by its sequence number, the position in the ledger;   *)
(* only its kind matters.  A connection is cut at any moment, with what is *)
(* on the wire.                                                            *)
(***************************************************************************)
EXTENDS Naturals, Sequences, SequencesExt

CONSTANTS Progress,        \* kinds of progress events
          Heard,           \* the kinds the hook listens to (EVENT_KINDS)
          MaxEvents,       \* bound: events of the task
          MaxAttempts,     \* MAX_ATTEMPTS of the hook
          MaxCuts,         \* bound: connections cut
          MaxRetries,      \* bound: clicks on "retry now"
          End              \* the stream_end frame

(* SSE_TERMINAL_EVENT_KINDS, and TERMINAL_KINDS of the hook.                *)
TerminalKinds == {"exports_ready", "task_terminal_no_exports"}
Kinds == Progress \union TerminalKinds

ASSUME StreamAssumption ==
    /\ TerminalKinds \subseteq Heard
    /\ {MaxEvents, MaxAttempts, MaxCuts, MaxRetries} \subseteq Nat
    /\ End \notin Nat

VARIABLES
    ledger,     \* kinds of the persisted events; the index is the sequence
    stream,     \* the generator: "off", "on", or "ending"
    cursor,     \* its cursor: sequence of the last event it yielded, or 0
    pending,    \* sequences it read from the ledger and has not yielded
    closing,    \* does the batch it read hold a terminal event?
    wire,       \* frames on their way to the client
    timeline,   \* events of the hook
    last,       \* lastSequenceRef, or 0
    terminal,   \* terminalRef
    client,     \* "connecting", "open", "waiting" for the timer, "error",
                \* or "closed"
    attempt,    \* attemptIndex of the connection
    cuts,
    retries

serverVars == <<stream, cursor, pending, closing>>
clientVars == <<timeline, last, terminal, client, attempt>>
streamVars == <<ledger, serverVars, wire, clientVars, cuts, retries>>

AfterSkipping(n) == [i \in 1 .. (Len(ledger) - n - 1) |-> n + 1 + i]
After(n) == [i \in 1 .. (Len(ledger) - n) |-> n + i]
HasTerminal(batch) == \E i \in DOMAIN batch : ledger[batch[i]] \in TerminalKinds

StreamInit ==
    /\ ledger = <<>>
    /\ stream = "off"
    /\ cursor = 0
    /\ pending = <<>>
    /\ closing = FALSE
    /\ wire = <<>>
    /\ timeline = <<>>
    /\ last = 0
    /\ terminal = FALSE
    /\ client = "connecting"
    /\ attempt = 0
    /\ cuts = 0
    /\ retries = 0

(* append_event. A terminal kind has one stable key: a second one is        *)
(* ignored. A retried export appends exports_ready after the failure event. *)
Publish(kind) ==
    /\ Len(ledger) < MaxEvents
    /\ kind \in TerminalKinds => \A i \in DOMAIN ledger : ledger[i] # kind
    /\ ledger' = Append(ledger, kind)
    /\ UNCHANGED <<serverVars, wire, clientVars, cuts, retries>>

-----------------------------------------------------------------------------
(* The endpoint.                                                            *)

EndIsSeen == last > 0 /\ ledger[last] \in TerminalKinds

(* The request arrives with the client's last sequence; what follows it is  *)
(* read, and the kind of the cursor tells whether the client has seen the   *)
(* end already.                                                             *)
Accept ==
    /\ client = "connecting"
    /\ stream = "off"
    /\ cursor' = last
    /\ IF EndIsSeen
       THEN stream' = "ending" /\ pending' = <<>> /\ closing' = FALSE
       ELSE stream' = "on" /\ pending' = After(last) /\ closing' = HasTerminal(After(last))
    /\ client' = "open"
    /\ UNCHANGED <<ledger, wire, timeline, last, terminal, attempt, cuts, retries>>

(* The batch is yielded to its end, terminal event or not.                  *)
Yield ==
    /\ stream = "on"
    /\ pending # <<>>
    /\ wire' = Append(wire, Head(pending))
    /\ cursor' = Head(pending)
    /\ pending' = Tail(pending)
    /\ stream' = IF closing /\ Len(pending) = 1 THEN "ending" ELSE "on"
    /\ UNCHANGED <<ledger, closing, clientVars, cuts, retries>>

Poll ==
    /\ stream = "on"
    /\ pending = <<>>
    /\ Len(ledger) > cursor
    /\ pending' = After(cursor)
    /\ closing' = HasTerminal(After(cursor))
    /\ UNCHANGED <<ledger, stream, cursor, wire, clientVars, cuts, retries>>

StreamEnd ==
    /\ stream = "ending"
    /\ wire' = Append(wire, End)
    /\ stream' = "off"
    /\ closing' = FALSE
    /\ UNCHANGED <<ledger, cursor, pending, clientVars, cuts, retries>>

-----------------------------------------------------------------------------
(* The hook.                                                                *)

(* teardown: the source is closed, nothing more of it is read, and the      *)
(* server finds the client gone.                                            *)
Teardown ==
    /\ wire' = <<>>
    /\ stream' = "off"
    /\ pending' = <<>>
    /\ closing' = FALSE
    /\ UNCHANGED cursor

Closes == terminal' = TRUE /\ client' = "closed" /\ Teardown

(* A named event nobody listens to is dropped by the browser; one that was  *)
(* received before is dropped by its sequence.  The terminal event closes   *)
(* the hook, and so does stream_end, which comes behind it.                 *)
Receive ==
    /\ client = "open"
    /\ wire # <<>>
    /\ LET n == Head(wire)
           fresh == n # End /\ ledger[n] \in Heard /\ n > last
           over == n = End \/ (fresh /\ ledger[n] \in TerminalKinds)
       IN  /\ IF fresh
              THEN timeline' = Append(timeline, n) /\ last' = n
              ELSE UNCHANGED <<timeline, last>>
           /\ IF over
              THEN Closes
              ELSE wire' = Tail(wire) /\ UNCHANGED <<terminal, client, serverVars>>
    /\ UNCHANGED <<ledger, attempt, cuts, retries>>

GivesUpEarly == attempt + 1 >= MaxAttempts
GivesUp == attempt + 1 > MaxAttempts

(* onerror: the timeline is kept, and the attempts are not counted afresh   *)
(* after a connection that worked.                                          *)
Cut ==
    /\ cuts < MaxCuts
    /\ client \in {"connecting", "open"}
    /\ cuts' = cuts + 1
    /\ Teardown
    /\ IF GivesUp
       THEN client' = "error" /\ UNCHANGED attempt
       ELSE client' = "waiting" /\ attempt' = attempt + 1
    /\ UNCHANGED <<ledger, timeline, last, terminal, retries>>

TimerFires ==
    /\ client = "waiting"
    /\ client' = "connecting"
    /\ UNCHANGED <<ledger, serverVars, wire, timeline, last, terminal, attempt,
                   cuts, retries>>

(* The user reconnects, whatever the connection is doing.                   *)
RetryNow ==
    /\ retries < MaxRetries
    /\ ~terminal
    /\ retries' = retries + 1
    /\ attempt' = 0
    /\ client' = "connecting"
    /\ Teardown
    /\ UNCHANGED <<ledger, timeline, last, terminal, cuts>>

StreamNext ==
    \/ \E kind \in Kinds : Publish(kind)
    \/ Accept \/ Yield \/ Poll \/ StreamEnd
    \/ Receive \/ Cut \/ TimerFires \/ RetryNow

StreamSpec == StreamInit /\ [][StreamNext]_streamVars

(* The server answers and polls, frames arrive, timers fire.                *)
StreamFairSpec ==
    /\ StreamSpec
    /\ WF_streamVars(Accept) /\ WF_streamVars(Yield \/ StreamEnd) /\ WF_streamVars(Poll)
    /\ WF_streamVars(Receive) /\ WF_streamVars(TimerFires)

-----------------------------------------------------------------------------
StreamTypeOK ==
    /\ ledger \in Seq(Kinds) /\ Len(ledger) <= MaxEvents
    /\ stream \in {"off", "on", "ending"}
    /\ cursor \in 0 .. MaxEvents
    /\ pending \in Seq(1 .. MaxEvents)
    /\ closing \in BOOLEAN
    /\ wire \in Seq(1 .. MaxEvents \union {End})
    /\ timeline \in Seq(1 .. MaxEvents)
    /\ last \in 0 .. MaxEvents
    /\ terminal \in BOOLEAN
    /\ client \in {"connecting", "open", "waiting", "error", "closed"}
    /\ attempt \in 0 .. MaxAttempts
    /\ cuts \in 0 .. MaxCuts
    /\ retries \in 0 .. MaxRetries

(* The timeline holds, in order and once each, every event the hook listens *)
(* to up to the last one received: cuts, replays and manual retries neither *)
(* lose nor repeat any (useTaskEvents.ts:97-98, 121-126; storage.py:303).   *)
TimelineHasNoGap ==
    /\ \A i, j \in DOMAIN timeline : i < j => timeline[i] < timeline[j]
    /\ Range(timeline) = {n \in 1 .. last : ledger[n] \in Heard}

(* The hook stops for good only on the end of the task: the terminal event  *)
(* is the last thing in its timeline (useTaskEvents.ts:128-133, 138-147).   *)
ClosedAfterTheEnd ==
    terminal => timeline # <<>> /\ ledger[Last(timeline)] \in TerminalKinds

(* The timeline is what the ledger says, to its end.                        *)
TimelineIsWhole == StreamTypeOK /\ TimelineHasNoGap /\ ClosedAfterTheEnd

(* Once the task has ended the hook learns it, however the connection       *)
(* behaves, unless it is cut more often than the hook retries: only then    *)
(* does the hook stop with an error (useTaskEvents.ts:149-167;              *)
(* events.py:53-79).                                                        *)
EndIsLearned ==
    (\E i \in DOMAIN ledger : ledger[i] \in TerminalKinds)
        ~> (terminal \/ (client = "error" /\ cuts > MaxAttempts))
=============================================================================
