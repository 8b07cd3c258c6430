------------------------- MODULE EventStreamProofs -------------------------
(***************************************************************************)
(* Theorems about EventStream, for any number of events, cuts and retries. *)
(***************************************************************************)
EXTENDS EventStream, SequenceTheorems, TLAPS

(* Frames on the wire before stream_end, which only a generator that is     *)
(* done has sent, and the last event the client has read of this            *)
(* connection, whether it heard it or not.                                  *)
Frames == IF stream = "off" THEN Len(wire) - 1 ELSE Len(wire)
Read == cursor - Frames

(* Server, wire and hook hold numbers of events that exist.                 *)
CursorsExist == last <= Len(ledger) /\ cursor <= Len(ledger)

(* The timeline ends with the last sequence, and the hook is done exactly   *)
(* when that is the end of the task.                                        *)
TerminalIsLast ==
    /\ IF timeline = <<>> THEN last = 0 ELSE last > 0 /\ timeline[Len(timeline)] = last
    /\ terminal <=> last > 0 /\ ledger[last] \in TerminalKinds
    /\ terminal => client = "closed"

(* Without a connection nothing is on its way.                              *)
QuietWhenNotOpen ==
    client # "open" => wire = <<>> /\ pending = <<>> /\ stream = "off"

(* What is on the wire, read from the ledger, and still in the ledger       *)
(* follows on what was read, and that on what was heard, without a gap.     *)
NoGapInFlight ==
    client = "open" =>
        /\ stream = "off" => Len(wire) > 0 /\ wire[Len(wire)] = End
        /\ \A i \in 1 .. Frames : wire[i] = Read + i
        /\ last <= Read
        /\ \A n \in last + 1 .. Read : ledger[n] \notin Heard
        /\ \A i \in 1 .. Len(pending) : pending[i] = cursor + i
        /\ cursor + Len(pending) <= Len(ledger)

(* A generator that closes, or has closed, has the end of the task before   *)
(* it: the client reads that first.                                         *)
EndIsAhead ==
    client = "open" =>
        /\ stream # "on" => pending = <<>>
        /\ stream = "on" /\ pending = <<>> => ~closing
        /\ stream # "on" \/ closing =>
              \E n \in Read + 1 .. cursor + Len(pending) : ledger[n] \in TerminalKinds

IInv ==
    /\ StreamTypeOK /\ CursorsExist /\ TimelineHasNoGap /\ TerminalIsLast
    /\ QuietWhenNotOpen /\ NoGapInFlight /\ EndIsAhead

-----------------------------------------------------------------------------
(* What is read from the ledger after a number follows on it to the end.    *)
LEMMA ReadsOn ==
    ASSUME StreamTypeOK, NEW n \in Nat, n <= Len(ledger)
    PROVE  /\ After(n) \in Seq(1 .. MaxEvents)
           /\ Len(After(n)) = Len(ledger) - n
           /\ \A i \in 1 .. Len(After(n)) : After(n)[i] = n + i
  <1>1. Len(ledger) \in Nat /\ Len(ledger) <= MaxEvents BY LenProperties DEF StreamTypeOK
  <1>2. MaxEvents \in Nat BY StreamAssumption
  <1>3. PICK k \in Nat : k = Len(ledger) - n BY <1>1
  <1>4. After(n) = [i \in 1 .. k |-> n + i] BY <1>3 DEF After
  <1>5. \A i \in 1 .. k : n + i \in 1 .. MaxEvents BY <1>1, <1>2, <1>3
  <1>6. After(n) \in [1 .. k -> 1 .. MaxEvents] BY <1>4, <1>5
  <1>7. After(n) \in Seq(1 .. MaxEvents) BY <1>6, SeqDef
  <1>8. Len(After(n)) = k
    <2>1. DOMAIN After(n) = 1 .. k BY <1>4
    <2>2. DOMAIN After(n) = 1 .. Len(After(n)) /\ Len(After(n)) \in Nat BY <1>7, LenProperties
    <2> QED BY <2>1, <2>2
  <1> QED BY <1>3, <1>4, <1>7, <1>8

-----------------------------------------------------------------------------
(* Every step keeps the types.                                              *)
LEMMA TypesStay == StreamTypeOK /\ CursorsExist /\ [StreamNext]_streamVars => StreamTypeOK'
  <1> SUFFICES ASSUME StreamTypeOK, CursorsExist, [StreamNext]_streamVars PROVE StreamTypeOK'
    OBVIOUS
  <1>0. {MaxEvents, MaxAttempts, MaxCuts, MaxRetries} \subseteq Nat BY StreamAssumption
  <1>1. <<>> \in Seq(1 .. MaxEvents) /\ <<>> \in Seq(1 .. MaxEvents \union {End})
    BY EmptySeq
  <1>2. ASSUME NEW kind \in Kinds, Publish(kind) PROVE StreamTypeOK'
    <2>1. ledger' \in Seq(Kinds) /\ Len(ledger') = Len(ledger) + 1
      BY <1>2, AppendProperties DEF StreamTypeOK, Publish
    <2>2. Len(ledger') <= MaxEvents
      BY <1>0, <1>2, <2>1, LenProperties DEF StreamTypeOK, Publish
    <2> QED BY <1>2, <2>1, <2>2 DEF StreamTypeOK, Publish, serverVars, clientVars
  <1>3. CASE Accept
    <2>1. After(last) \in Seq(1 .. MaxEvents)
      BY ReadsOn DEF StreamTypeOK, CursorsExist
    <2>2. HasTerminal(After(last)) \in BOOLEAN BY DEF HasTerminal
    <2> QED BY <1>1, <1>3, <2>1, <2>2 DEF StreamTypeOK, Accept
  <1>4. CASE Yield
    <2>1. /\ Head(pending) \in 1 .. MaxEvents
          /\ Tail(pending) \in Seq(1 .. MaxEvents)
      BY <1>4, HeadTailProperties DEF StreamTypeOK, Yield
    <2>2. wire' \in Seq(1 .. MaxEvents \union {End})
      BY <1>4, <2>1, AppendProperties DEF StreamTypeOK, Yield
    <2> QED BY <1>0, <1>4, <2>1, <2>2 DEF StreamTypeOK, Yield, clientVars
  <1>5. CASE Poll
    <2>1. After(cursor) \in Seq(1 .. MaxEvents)
      BY ReadsOn DEF StreamTypeOK, CursorsExist
    <2>2. HasTerminal(After(cursor)) \in BOOLEAN BY DEF HasTerminal
    <2> QED BY <1>5, <2>1, <2>2 DEF StreamTypeOK, Poll, clientVars
  <1>6. CASE StreamEnd
    <2>1. wire' \in Seq(1 .. MaxEvents \union {End})
      BY <1>6, AppendProperties DEF StreamTypeOK, StreamEnd
    <2> QED BY <1>6, <2>1 DEF StreamTypeOK, StreamEnd, clientVars
  <1>7. CASE Receive
    <2>1. /\ Head(wire) \in 1 .. MaxEvents \union {End}
          /\ Tail(wire) \in Seq(1 .. MaxEvents \union {End})
      BY <1>7, HeadTailProperties DEF StreamTypeOK, Receive
    <2>2. timeline' \in Seq(1 .. MaxEvents) /\ last' \in 0 .. MaxEvents
      <3>1. CASE UNCHANGED <<timeline, last>>
        BY <3>1 DEF StreamTypeOK
      <3>2. CASE /\ Head(wire) # End
                 /\ timeline' = Append(timeline, Head(wire)) /\ last' = Head(wire)
        <4>1. Head(wire) \in 1 .. MaxEvents BY <2>1, <3>2
        <4>2. timeline \in Seq(1 .. MaxEvents) BY DEF StreamTypeOK
        <4>3. timeline' \in Seq(1 .. MaxEvents) BY <3>2, <4>1, <4>2, AppendProperties
        <4> QED BY <1>0, <3>2, <4>1, <4>3
      <3> QED BY <1>7, <3>1, <3>2 DEF Receive
    <2>3. /\ wire' \in Seq(1 .. MaxEvents \union {End})
          /\ pending' \in Seq(1 .. MaxEvents)
          /\ stream' \in {"off", "on", "ending"}
          /\ client' \in {"connecting", "open", "waiting", "error", "closed"}
          /\ closing' \in BOOLEAN /\ terminal' \in BOOLEAN /\ cursor' = cursor
      BY <1>1, <1>7, <2>1 DEF StreamTypeOK, Receive, Closes, Teardown, serverVars
    <2> QED BY <1>7, <2>2, <2>3 DEF StreamTypeOK, Receive
  <1>8. CASE Cut
    <2>1. attempt' \in 0 .. MaxAttempts /\ cuts' \in 0 .. MaxCuts
      BY <1>0, <1>8 DEF StreamTypeOK, Cut, GivesUp
    <2>2. client' \in {"connecting", "open", "waiting", "error", "closed"}
      BY <1>8 DEF Cut
    <2> QED BY <1>1, <1>8, <2>1, <2>2 DEF StreamTypeOK, Cut, Teardown
  <1>9. CASE TimerFires
    BY <1>9 DEF StreamTypeOK, TimerFires, serverVars
  <1>10. CASE RetryNow
    <2>1. attempt' \in 0 .. MaxAttempts /\ retries' \in 0 .. MaxRetries
      BY <1>0, <1>10 DEF StreamTypeOK, RetryNow
    <2> QED BY <1>1, <1>10, <2>1 DEF StreamTypeOK, RetryNow, Teardown
  <1>11. CASE UNCHANGED streamVars
    BY <1>11 DEF StreamTypeOK, streamVars, serverVars, clientVars
  <1> QED BY <1>2, <1>3, <1>4, <1>5, <1>6, <1>7, <1>8, <1>9, <1>10, <1>11 DEF StreamNext

-----------------------------------------------------------------------------
(* What the hook holds stands when it hears nothing and its end is kept.    *)
LEMMA HookStands ==
    ASSUME IInv, UNCHANGED <<ledger, timeline, last, terminal>>,
           terminal => client' = "closed"
    PROVE  TimelineHasNoGap' /\ TerminalIsLast'
  BY DEF IInv, TimelineHasNoGap, TerminalIsLast

(* A step that tears the connection down, or leaves it down, keeps the rest.*)
LEMMA DownStands ==
    ASSUME IInv, UNCHANGED <<ledger, timeline, last, terminal, cursor>>,
           terminal => client' = "closed", client' # "open",
           wire' = <<>> /\ pending' = <<>> /\ stream' = "off", StreamTypeOK'
    PROVE  IInv'
  <1>1. TimelineHasNoGap' /\ TerminalIsLast' BY HookStands
  <1>2. CursorsExist' BY DEF IInv, CursorsExist
  <1> QED BY <1>1, <1>2 DEF IInv, QuietWhenNotOpen, NoGapInFlight, EndIsAhead

(* A new event is behind everything that is held anywhere.                  *)
LEMMA PublishKeeps ==
    ASSUME IInv, NEW kind \in Kinds, Publish(kind), StreamTypeOK'
    PROVE  IInv'
  <1>1. /\ Len(ledger') = Len(ledger) + 1
        /\ \A i \in 1 .. Len(ledger) : ledger'[i] = ledger[i]
    BY AppendProperties DEF IInv, StreamTypeOK, Publish
  <1>2. Len(ledger) \in Nat /\ Len(wire) \in Nat /\ Len(pending) \in Nat
    BY LenProperties DEF IInv, StreamTypeOK
  <1>3. UNCHANGED <<stream, cursor, pending, closing, wire, timeline, last, terminal, client>>
    BY DEF Publish, serverVars, clientVars
  <1>4. /\ last \in Nat /\ last <= Len(ledger)
        /\ cursor \in Nat /\ cursor <= Len(ledger)
    BY <1>2 DEF IInv, CursorsExist, StreamTypeOK
  <1>5. CursorsExist' BY <1>1, <1>2, <1>3, <1>4 DEF CursorsExist
  <1>6. TimelineHasNoGap'
    <2>1. \A n \in 1 .. last : ledger'[n] = ledger[n] BY <1>1, <1>2, <1>4
    <2> QED BY <1>3, <2>1 DEF IInv, TimelineHasNoGap
  <1>7. TerminalIsLast'
    BY <1>1, <1>2, <1>3, <1>4 DEF IInv, TerminalIsLast
  <1>8. QuietWhenNotOpen' BY <1>3 DEF IInv, QuietWhenNotOpen
  <1>9. ASSUME client = "open"
        PROVE  /\ Frames' = Frames /\ Read' = Read /\ Frames \in Nat
               /\ Read \in Int /\ last <= Read /\ Read <= cursor
    BY <1>2, <1>3, <1>4, <1>9 DEF IInv, NoGapInFlight, Frames, Read
  <1>10. NoGapInFlight'
    <2> SUFFICES ASSUME client = "open" PROVE NoGapInFlight'
      BY <1>3 DEF NoGapInFlight
    <2>1. ASSUME NEW n \in last + 1 .. Read PROVE ledger'[n] \notin Heard
      <3>1. n \in 1 .. Len(ledger) BY <1>2, <1>4, <1>9
      <3>2. ledger[n] \notin Heard BY DEF IInv, NoGapInFlight
      <3> QED BY <1>1, <3>1, <3>2
    <2> QED BY <1>1, <1>2, <1>3, <1>4, <1>9, <2>1 DEF IInv, NoGapInFlight
  <1>11. EndIsAhead'
    <2> SUFFICES ASSUME client = "open" PROVE EndIsAhead'
      BY <1>3 DEF EndIsAhead
    <2>1. ASSUME NEW n \in Read + 1 .. cursor + Len(pending) PROVE ledger'[n] = ledger[n]
      <3>1. cursor + Len(pending) <= Len(ledger) BY DEF IInv, NoGapInFlight
      <3>2. n \in 1 .. Len(ledger) BY <1>2, <1>4, <1>9, <3>1
      <3> QED BY <1>1, <3>2
    <2> QED BY <1>3, <1>9, <2>1 DEF IInv, EndIsAhead
  <1> QED BY <1>5, <1>6, <1>7, <1>8, <1>10, <1>11 DEF IInv

-----------------------------------------------------------------------------
(* The endpoint goes on where the client stands: it has not seen the end,   *)
(* which would have closed it.                                              *)
LEMMA AcceptKeeps ==
    ASSUME IInv, Accept, StreamTypeOK' PROVE IInv'
  <1>1. last \in Nat /\ last <= Len(ledger) /\ Len(ledger) \in Nat
    BY LenProperties DEF IInv, StreamTypeOK, CursorsExist
  <1>2. ~EndIsSeen BY DEF IInv, Accept, TerminalIsLast, EndIsSeen
  <1>3. ~terminal BY DEF IInv, Accept, TerminalIsLast
  <1>4. wire = <<>> /\ Len(wire) = 0 BY DEF IInv, Accept, QuietWhenNotOpen
  <1>5. /\ stream' = "on" /\ client' = "open" /\ cursor' = last
        /\ pending' = After(last) /\ closing' = HasTerminal(After(last))
        /\ UNCHANGED <<ledger, wire, timeline, last, terminal>>
    BY <1>2 DEF Accept
  <1>6. /\ After(last) \in Seq(1 .. MaxEvents)
        /\ Len(After(last)) = Len(ledger) - last
        /\ \A i \in 1 .. Len(After(last)) : After(last)[i] = last + i
    BY <1>1, ReadsOn DEF IInv
  <1>7. Frames' = 0 /\ Read' = last BY <1>1, <1>4, <1>5 DEF Frames, Read
  <1>8. CursorsExist' BY <1>1, <1>5 DEF CursorsExist
  <1>9. TimelineHasNoGap' /\ TerminalIsLast' BY <1>3, <1>5, HookStands
  <1>10. QuietWhenNotOpen' BY <1>5 DEF QuietWhenNotOpen
  <1>11. NoGapInFlight' BY <1>1, <1>5, <1>6, <1>7 DEF NoGapInFlight
  <1>12. EndIsAhead'
    <2>1. DOMAIN After(last) = 1 .. Len(After(last)) BY <1>6, LenProperties
    <2>2. closing' => \E n \in last + 1 .. last + Len(After(last)) :
                          ledger[n] \in TerminalKinds
      <3> SUFFICES ASSUME closing'
                   PROVE  \E n \in last + 1 .. last + Len(After(last)) :
                              ledger[n] \in TerminalKinds
        OBVIOUS
      <3>1. PICK i \in 1 .. Len(After(last)) : ledger[After(last)[i]] \in TerminalKinds
        BY <1>5, <2>1 DEF HasTerminal
      <3>2. last + i \in last + 1 .. last + Len(After(last)) BY <1>1, <1>6, <3>1
      <3> QED BY <1>6, <3>1, <3>2
    <2>3. After(last) = <<>> => ~closing'
      BY <1>5, <2>1 DEF HasTerminal
    <2> QED BY <1>5, <1>7, <2>2, <2>3 DEF EndIsAhead
  <1> QED BY <1>8, <1>9, <1>10, <1>11, <1>12 DEF IInv

(* The next event of the batch goes on the wire, behind the one before it.  *)
LEMMA YieldKeeps ==
    ASSUME IInv, Yield, StreamTypeOK' PROVE IInv'
  <1>1. client = "open" BY DEF IInv, Yield, QuietWhenNotOpen
  <1>2. Len(ledger) \in Nat /\ Len(wire) \in Nat /\ Len(pending) \in Nat \ {0}
    BY LenProperties, EmptySeq DEF IInv, StreamTypeOK, Yield
  <1>3. cursor \in Nat /\ last \in Nat BY DEF IInv, StreamTypeOK
  <1>4. /\ Len(Tail(pending)) = Len(pending) - 1
        /\ \A i \in 1 .. Len(pending) - 1 : Tail(pending)[i] = pending[i + 1]
        /\ Head(pending) \in 1 .. MaxEvents /\ Tail(pending) \in Seq(1 .. MaxEvents)
    BY HeadTailProperties DEF IInv, StreamTypeOK, Yield
  <1>5. Head(pending) = pending[1] OBVIOUS
  <1>6. \A i \in 1 .. Len(pending) : pending[i] = cursor + i
    BY <1>1 DEF IInv, NoGapInFlight
  <1>7. Head(pending) = cursor + 1 BY <1>2, <1>5, <1>6
  <1>8. /\ UNCHANGED <<ledger, closing, timeline, last, terminal, client>>
        /\ cursor' = cursor + 1 /\ pending' = Tail(pending)
        /\ stream = "on" /\ wire' = Append(wire, cursor + 1)
        /\ stream' = IF closing /\ Len(pending) = 1 THEN "ending" ELSE "on"
    BY <1>7 DEF Yield, clientVars
  <1>9. /\ Len(wire') = Len(wire) + 1 /\ wire'[Len(wire) + 1] = cursor + 1
        /\ \A i \in 1 .. Len(wire) : wire'[i] = wire[i]
    <2>1. wire \in Seq(1 .. MaxEvents \union {End})
          /\ cursor + 1 \in 1 .. MaxEvents \union {End}
      BY <1>4, <1>7 DEF IInv, StreamTypeOK
    <2> QED BY <1>8, <2>1, AppendProperties
  <1>10. /\ Frames = Len(wire) /\ Frames' = Len(wire) + 1
         /\ Read = cursor - Len(wire) /\ Read' = Read
    BY <1>2, <1>3, <1>8, <1>9 DEF Frames, Read
  <1>11. cursor + Len(pending) <= Len(ledger) BY <1>1 DEF IInv, NoGapInFlight
  <1>12. CursorsExist'
    BY <1>2, <1>3, <1>8, <1>11 DEF IInv, CursorsExist
  <1>13. TimelineHasNoGap' /\ TerminalIsLast'
    BY <1>1, <1>8, HookStands DEF IInv, TerminalIsLast
  <1>14. QuietWhenNotOpen' BY <1>1, <1>8 DEF QuietWhenNotOpen
  <1>15. NoGapInFlight'
    <2>1. \A i \in 1 .. Len(wire) : wire[i] = Read + i
      BY <1>1, <1>10 DEF IInv, NoGapInFlight
    <2>2. ASSUME NEW i \in 1 .. Len(wire) + 1 PROVE wire'[i] = Read + i
      BY <1>2, <1>3, <1>9, <1>10, <2>1
    <2>3. ASSUME NEW i \in 1 .. Len(Tail(pending)) PROVE Tail(pending)[i] = cursor + 1 + i
      BY <1>2, <1>3, <1>4, <1>6
    <2>4. cursor + 1 + Len(Tail(pending)) <= Len(ledger) BY <1>2, <1>3, <1>4, <1>11
    <2>5. last <= Read /\ \A n \in last + 1 .. Read : ledger[n] \notin Heard
      BY <1>1 DEF IInv, NoGapInFlight
    <2> QED BY <1>8, <1>10, <2>2, <2>3, <2>4, <2>5 DEF NoGapInFlight
  <1>16. EndIsAhead'
    <2>1. closing => \E n \in Read + 1 .. cursor + Len(pending) : ledger[n] \in TerminalKinds
      BY <1>1, <1>8 DEF IInv, EndIsAhead
    <2>2. cursor + 1 + Len(Tail(pending)) = cursor + Len(pending) BY <1>2, <1>3, <1>4
    <2>3. Tail(pending) = <<>> <=> Len(pending) = 1
      <3>1. Len(<<>>) = 0 BY EmptySeq
      <3>2. Tail(pending) # <<>> => Len(Tail(pending)) # 0 BY <1>4, EmptySeq
      <3>3. Tail(pending) = <<>> <=> Len(Tail(pending)) = 0 BY <3>1, <3>2
      <3> QED BY <1>2, <1>4, <3>3
    <2> QED BY <1>8, <1>10, <2>1, <2>2, <2>3 DEF EndIsAhead
  <1> QED BY <1>12, <1>13, <1>14, <1>15, <1>16 DEF IInv

-----------------------------------------------------------------------------
(* A poll reads on from the cursor to the end of the ledger.                *)
LEMMA PollKeeps ==
    ASSUME IInv, Poll, StreamTypeOK' PROVE IInv'
  <1>1. client = "open" BY DEF IInv, Poll, QuietWhenNotOpen
  <1>2. Len(ledger) \in Nat /\ Len(wire) \in Nat /\ cursor \in Nat /\ last \in Nat
    BY LenProperties DEF IInv, StreamTypeOK
  <1>3. /\ UNCHANGED <<ledger, stream, cursor, wire, timeline, last, terminal, client>>
        /\ stream = "on" /\ pending = <<>> /\ cursor < Len(ledger)
        /\ pending' = After(cursor) /\ closing' = HasTerminal(After(cursor))
    BY <1>2 DEF Poll, clientVars
  <1>4. /\ After(cursor) \in Seq(1 .. MaxEvents)
        /\ Len(After(cursor)) = Len(ledger) - cursor
        /\ \A i \in 1 .. Len(After(cursor)) : After(cursor)[i] = cursor + i
    <2>1. StreamTypeOK /\ cursor <= Len(ledger) BY DEF IInv, CursorsExist
    <2> QED BY <1>2, <2>1, ReadsOn
  <1>5. /\ Frames = Len(wire) /\ Frames' = Frames
        /\ Read = cursor - Len(wire) /\ Read' = Read
    BY <1>2, <1>3 DEF Frames, Read
  <1>6. CursorsExist' BY <1>3 DEF IInv, CursorsExist
  <1>7. TimelineHasNoGap' /\ TerminalIsLast'
    BY <1>1, <1>3, HookStands DEF IInv, TerminalIsLast
  <1>8. QuietWhenNotOpen' BY <1>1, <1>3 DEF QuietWhenNotOpen
  <1>9. NoGapInFlight'
    <2>1. /\ \A i \in 1 .. Frames : wire[i] = Read + i
          /\ last <= Read
          /\ \A n \in last + 1 .. Read : ledger[n] \notin Heard
      BY <1>1 DEF IInv, NoGapInFlight
    <2>2. cursor + Len(After(cursor)) <= Len(ledger) BY <1>2, <1>4
    <2> QED BY <1>3, <1>4, <1>5, <2>1, <2>2 DEF NoGapInFlight
  <1>10. EndIsAhead'
    <2>1. DOMAIN After(cursor) = 1 .. Len(After(cursor)) BY <1>4, LenProperties
    <2>2. ASSUME closing'
          PROVE  \E n \in Read + 1 .. cursor + Len(After(cursor)) : ledger[n] \in TerminalKinds
      <3>1. PICK i \in 1 .. Len(After(cursor)) : ledger[After(cursor)[i]] \in TerminalKinds
        BY <1>3, <2>1, <2>2 DEF HasTerminal
      <3>2. cursor + i \in Read + 1 .. cursor + Len(After(cursor)) BY <1>2, <1>4, <1>5, <3>1
      <3> QED BY <1>4, <3>1, <3>2
    <2>3. After(cursor) # <<>> BY <1>2, <1>3, <1>4, EmptySeq
    <2> QED BY <1>3, <1>5, <2>2, <2>3 DEF EndIsAhead
  <1> QED BY <1>6, <1>7, <1>8, <1>9, <1>10 DEF IInv

-----------------------------------------------------------------------------
(* stream_end goes behind the last frame.                                   *)
LEMMA StreamEndKeeps ==
    ASSUME IInv, StreamEnd, StreamTypeOK' PROVE IInv'
  <1>1. client = "open" BY DEF IInv, StreamEnd, QuietWhenNotOpen
  <1>2. Len(ledger) \in Nat /\ Len(wire) \in Nat /\ cursor \in Nat /\ last \in Nat
    BY LenProperties DEF IInv, StreamTypeOK
  <1>3. /\ UNCHANGED <<ledger, cursor, pending, timeline, last, terminal, client>>
        /\ stream = "ending" /\ stream' = "off" /\ wire' = Append(wire, End)
    BY DEF StreamEnd, clientVars
  <1>4. /\ Len(wire') = Len(wire) + 1 /\ wire'[Len(wire) + 1] = End
        /\ \A i \in 1 .. Len(wire) : wire'[i] = wire[i]
    BY <1>3, AppendProperties DEF IInv, StreamTypeOK
  <1>5. Frames = Len(wire) /\ Frames' = Frames /\ Read' = Read
    BY <1>2, <1>3, <1>4 DEF Frames, Read
  <1>6. CursorsExist' BY <1>3 DEF IInv, CursorsExist
  <1>7. TimelineHasNoGap' /\ TerminalIsLast'
    BY <1>1, <1>3, HookStands DEF IInv, TerminalIsLast
  <1>8. QuietWhenNotOpen' BY <1>1, <1>3 DEF QuietWhenNotOpen
  <1>9. NoGapInFlight'
    BY <1>1, <1>2, <1>3, <1>4, <1>5 DEF IInv, NoGapInFlight
  <1>10. EndIsAhead'
    BY <1>1, <1>3, <1>5 DEF IInv, EndIsAhead
  <1> QED BY <1>6, <1>7, <1>8, <1>9, <1>10 DEF IInv

-----------------------------------------------------------------------------
(* The frame the client reads next is the event after the last it read,     *)
(* never stream_end: the end of the task, which closes the hook, is ahead.  *)
LEMMA NextFrame ==
    ASSUME IInv, client = "open", wire # <<>>
    PROVE  /\ Frames \in Nat \ {0} /\ Read \in Nat /\ Head(wire) = Read + 1
           /\ Read + 1 <= cursor /\ Read + 1 <= Len(ledger)
           /\ Head(wire) # End
  <1>1. /\ Len(ledger) \in Nat /\ Len(wire) \in Nat \ {0} /\ cursor \in Nat
        /\ last \in Nat /\ Len(pending) \in Nat
    BY LenProperties, EmptySeq DEF IInv, StreamTypeOK
  <1>2. Frames \in Nat BY <1>1 DEF Frames
  <1>3. Frames # 0
    <2>1. SUFFICES ASSUME Frames = 0 PROVE FALSE
      OBVIOUS
    <2>2. stream = "off" BY <1>1, <2>1 DEF Frames
    <2>3. Read = cursor BY <1>1, <2>1 DEF Read
    <2>4. pending = <<>> /\ Len(pending) = 0 BY <2>2, EmptySeq DEF IInv, EndIsAhead
    <2>5. \E n \in Read + 1 .. cursor + Len(pending) : ledger[n] \in TerminalKinds
      BY <2>2 DEF IInv, EndIsAhead
    <2> QED BY <1>1, <2>3, <2>4, <2>5
  <1>4. last <= Read /\ \A i \in 1 .. Frames : wire[i] = Read + i
    BY DEF IInv, NoGapInFlight
  <1>5. Read = cursor - Frames BY DEF Read
  <1>6. Head(wire) = wire[1] OBVIOUS
  <1>7. Head(wire) = Read + 1 BY <1>2, <1>3, <1>4, <1>6
  <1>8. Read \in Nat /\ Read + 1 <= cursor BY <1>1, <1>2, <1>3, <1>4, <1>5
  <1>9. cursor <= Len(ledger) BY DEF IInv, CursorsExist
  <1>10. End \notin Nat BY StreamAssumption
  <1> QED BY <1>1, <1>2, <1>3, <1>7, <1>8, <1>9, <1>10

(* An event heard for the first time goes behind the timeline, which holds  *)
(* all that was heard before it.                                            *)
LEMMA TimelineGrows ==
    ASSUME IInv, client = "open", wire # <<>>, ledger' = ledger,
           NEW n, n = Head(wire), ledger[n] \in Heard,
           timeline' = Append(timeline, n), last' = n
    PROVE  /\ TimelineHasNoGap'
           /\ timeline' # <<>> /\ timeline'[Len(timeline')] = last' /\ last' > 0
  <1>1. n = Read + 1 /\ Read \in Nat /\ n \in Nat /\ n <= Len(ledger) /\ n <= cursor
    BY NextFrame
  <1>2. /\ last \in Nat /\ last <= Read
        /\ \A m \in last + 1 .. Read : ledger[m] \notin Heard
    BY DEF IInv, StreamTypeOK, NoGapInFlight
  <1>3. n \in 1 .. MaxEvents
    BY <1>1, StreamAssumption DEF IInv, StreamTypeOK
  <1>4. /\ timeline \in Seq(1 .. MaxEvents) /\ Len(timeline) \in Nat
        /\ DOMAIN timeline = 1 .. Len(timeline)
    BY LenProperties DEF IInv, StreamTypeOK
  <1>5. /\ timeline' \in Seq(1 .. MaxEvents) /\ timeline' # <<>>
        /\ Len(timeline') = Len(timeline) + 1
        /\ \A i \in 1 .. Len(timeline) : timeline'[i] = timeline[i]
        /\ timeline'[Len(timeline) + 1] = n
    BY <1>3, <1>4, AppendProperties
  <1>6. DOMAIN timeline' = 1 .. Len(timeline) + 1 BY <1>5, LenProperties
  <1>7. /\ \A i, j \in 1 .. Len(timeline) : i < j => timeline[i] < timeline[j]
        /\ Range(timeline) = {m \in 1 .. last : ledger[m] \in Heard}
    BY <1>4 DEF IInv, TimelineHasNoGap
  <1>8. \A i \in 1 .. Len(timeline) : timeline[i] \in 1 .. last
    BY <1>4, <1>7 DEF Range
  <1>9. ASSUME NEW i \in DOMAIN timeline', NEW j \in DOMAIN timeline', i < j
        PROVE  timeline'[i] < timeline'[j]
    <2>1. i \in 1 .. Len(timeline) BY <1>4, <1>6, <1>9
    <2>2. CASE j = Len(timeline) + 1
      BY <1>1, <1>2, <1>5, <1>8, <2>1, <2>2
    <2>3. CASE j \in 1 .. Len(timeline)
      BY <1>5, <1>7, <1>9, <2>1, <2>3
    <2> QED BY <1>4, <1>6, <2>2, <2>3
  <1>10. Range(timeline') = Range(timeline) \union {n}
    BY <1>4, <1>5, <1>6 DEF Range
  <1>11. {m \in 1 .. n : ledger[m] \in Heard}
            = {m \in 1 .. last : ledger[m] \in Heard} \union {n}
    <2>1. ASSUME NEW m \in 1 .. n, ledger[m] \in Heard PROVE m \in 1 .. last \/ m = n
      BY <1>1, <1>2, <2>1
    <2>2. ASSUME NEW m \in 1 .. last PROVE m \in 1 .. n
      BY <1>1, <1>2
    <2>3. n \in 1 .. n BY <1>1
    <2> QED BY <2>1, <2>2, <2>3
  <1>12. TimelineHasNoGap'
    BY <1>7, <1>9, <1>10, <1>11 DEF TimelineHasNoGap
  <1> QED BY <1>1, <1>5, <1>12

(* The hook reads the next event: hears it, drops it, or closes on it.      *)
LEMMA ReceiveKeeps ==
    ASSUME IInv, Receive, StreamTypeOK' PROVE IInv'
  <1> DEFINE n == Head(wire)
  <1>1. client = "open" /\ wire # <<>> /\ ledger' = ledger BY DEF Receive
  <1>2. /\ Frames \in Nat \ {0} /\ Read \in Nat /\ n = Read + 1
        /\ Read + 1 <= cursor /\ Read + 1 <= Len(ledger) /\ n # End
    BY <1>1, NextFrame
  <1>3. /\ last \in Nat /\ last <= Read /\ last < n /\ n \in Nat
        /\ \A m \in last + 1 .. Read : ledger[m] \notin Heard
    <2>1. last \in Nat BY DEF IInv, StreamTypeOK
    <2>2. last <= Read /\ \A m \in last + 1 .. Read : ledger[m] \notin Heard
      BY <1>1 DEF IInv, NoGapInFlight
    <2> QED BY <1>2, <2>1, <2>2
  <1>4. Len(ledger) \in Nat /\ Len(wire) \in Nat \ {0} /\ cursor \in Nat
    BY <1>1, LenProperties, EmptySeq DEF IInv, StreamTypeOK
  <1>5. ~terminal BY <1>1 DEF IInv, TerminalIsLast
  <1>6. TerminalKinds \subseteq Heard BY StreamAssumption
  <1>7. ledger[n] \in Heard => timeline' = Append(timeline, n) /\ last' = n
    BY <1>2, <1>3 DEF Receive
  <1>8. ledger[n] \notin Heard => UNCHANGED <<timeline, last>>
    BY DEF Receive
  <1>9. ledger[n] \in TerminalKinds => terminal' = TRUE /\ client' = "closed" /\ Teardown
    BY <1>2, <1>3, <1>6 DEF Receive, Closes
  <1>10. ledger[n] \notin TerminalKinds =>
            /\ wire' = Tail(wire)
            /\ UNCHANGED <<terminal, client, stream, cursor, pending, closing>>
    BY <1>2 DEF Receive, serverVars
  <1>11. cursor' = cursor BY <1>9, <1>10 DEF Teardown
  <1>12. n <= Len(ledger) /\ n > 0 BY <1>2
  <1> HIDE DEF n
  <1>13. CursorsExist'
    BY <1>1, <1>7, <1>8, <1>11, <1>12 DEF IInv, CursorsExist
  <1>14. TimelineHasNoGap' /\ TerminalIsLast'
    <2>1. CASE ledger[n] \in Heard
      <3>1. /\ TimelineHasNoGap' /\ timeline' # <<>>
            /\ timeline'[Len(timeline')] = last' /\ last' > 0
        BY <1>1, <1>7, <2>1, TimelineGrows DEF n
      <3>2. terminal' <=> ledger[n] \in TerminalKinds
        BY <1>5, <1>9, <1>10
      <3>3. terminal' => client' = "closed" BY <1>9, <3>2
      <3> QED BY <1>1, <1>7, <2>1, <3>1, <3>2, <3>3 DEF TerminalIsLast
    <2>2. CASE ledger[n] \notin Heard
      <3>1. UNCHANGED <<ledger, timeline, last, terminal>> BY <1>1, <1>6, <1>8, <1>10, <2>2
      <3> QED BY <1>5, <3>1, HookStands
    <2> QED BY <2>1, <2>2
  <1>15. CASE ledger[n] \in TerminalKinds
    <2>1. /\ client' = "closed" /\ wire' = <<>> /\ pending' = <<>> /\ stream' = "off"
      BY <1>9, <1>15 DEF Teardown
    <2> QED BY <1>13, <1>14, <2>1
            DEF IInv, QuietWhenNotOpen, NoGapInFlight, EndIsAhead
  <1>16. CASE ledger[n] \notin TerminalKinds
    <2>1. /\ wire' = Tail(wire) /\ client' = "open"
          /\ UNCHANGED <<ledger, terminal, client, stream, cursor, pending, closing>>
      BY <1>1, <1>10, <1>16
    <2>2. Len(wire') = Len(wire) - 1 /\ \A i \in 1 .. Len(wire) - 1 : wire'[i] = wire[i + 1]
      BY <1>1, <2>1, HeadTailProperties DEF IInv, StreamTypeOK
    <2>3. Frames' = Frames - 1 /\ Read' = n
      <3>1. Frames' = Frames - 1 BY <1>4, <2>1, <2>2 DEF Frames
      <3>2. Read = cursor - Frames /\ Read' = cursor - Frames' BY <2>1 DEF Read
      <3> QED BY <1>2, <1>4, <3>1, <3>2
    <2>4. QuietWhenNotOpen' BY <2>1 DEF QuietWhenNotOpen
    <2>5. /\ last' <= n
          /\ \A m \in last' + 1 .. n : ledger[m] \notin Heard
      BY <1>2, <1>3, <1>7, <1>8
    <2>6. stream = "off" => Len(wire') > 0 /\ wire'[Len(wire')] = End
      <3> SUFFICES ASSUME stream = "off" PROVE Len(wire') > 0 /\ wire'[Len(wire')] = End
        OBVIOUS
      <3>1. Frames = Len(wire) - 1 BY DEF Frames
      <3>2. Len(wire) > 1 BY <1>2, <1>4, <3>1
      <3>3. wire[Len(wire)] = End BY <1>1 DEF IInv, NoGapInFlight
      <3> QED BY <1>4, <2>2, <3>2, <3>3
    <2>7. Frames <= Len(wire) BY <1>4 DEF Frames
    <2>8. ASSUME NEW i \in 1 .. Frames' PROVE wire'[i] = n + i
      <3>1. \A j \in 1 .. Frames : wire[j] = Read + j BY <1>1 DEF IInv, NoGapInFlight
      <3>2. i + 1 \in 1 .. Frames /\ i \in 1 .. Len(wire) - 1
        BY <1>2, <1>4, <2>3, <2>7
      <3>3. wire'[i] = Read + (i + 1) BY <2>2, <3>1, <3>2
      <3> QED BY <1>2, <2>3, <3>2, <3>3
    <2>9. NoGapInFlight'
      BY <1>1, <2>1, <2>3, <2>5, <2>6, <2>8 DEF IInv, NoGapInFlight
    <2>10. EndIsAhead'
      <3>1. ASSUME stream # "on" \/ closing
            PROVE  \E m \in n + 1 .. cursor + Len(pending) : ledger[m] \in TerminalKinds
        <4>1. PICK m \in Read + 1 .. cursor + Len(pending) : ledger[m] \in TerminalKinds
          BY <1>1, <3>1 DEF IInv, EndIsAhead
        <4>2. m # n BY <1>16, <4>1
        <4>3. Len(pending) \in Nat BY LenProperties DEF IInv, StreamTypeOK
        <4> QED BY <1>2, <1>4, <4>1, <4>2, <4>3
      <3> QED BY <1>1, <2>1, <2>3, <3>1 DEF IInv, EndIsAhead
    <2> QED BY <1>13, <1>14, <2>4, <2>9, <2>10 DEF IInv
  <1> QED BY <1>15, <1>16

-----------------------------------------------------------------------------
LEMMA InitHolds == StreamInit => IInv
  <1> SUFFICES ASSUME StreamInit PROVE IInv
    OBVIOUS
  <1>1. {MaxEvents, MaxAttempts, MaxCuts, MaxRetries} \subseteq Nat BY StreamAssumption
  <1>2. /\ \A S : <<>> \in Seq(S)
        /\ Len(<<>>) = 0 /\ DOMAIN <<>> = {}
    <2>1. \A S : <<>> \in Seq(S) BY EmptySeq
    <2>2. Len(<<>>) = 0 BY EmptySeq
    <2>3. DOMAIN <<>> = 1 .. Len(<<>>) BY <2>1, LenProperties
    <2> QED BY <2>1, <2>2, <2>3
  <1>3. StreamTypeOK
    <2>1. /\ 0 \in 0 .. MaxEvents /\ 0 \in 0 .. MaxAttempts
          /\ 0 \in 0 .. MaxCuts /\ 0 \in 0 .. MaxRetries /\ 0 <= MaxEvents
      BY <1>1
    <2> QED BY <1>2, <2>1 DEF StreamInit, StreamTypeOK
  <1>4. TimelineHasNoGap BY <1>2 DEF StreamInit, TimelineHasNoGap, Range
  <1> QED BY <1>2, <1>3, <1>4
          DEF StreamInit, IInv, CursorsExist, TerminalIsLast, QuietWhenNotOpen, NoGapInFlight, EndIsAhead

LEMMA StepHolds == IInv /\ [StreamNext]_streamVars => IInv'
  <1> SUFFICES ASSUME IInv, [StreamNext]_streamVars PROVE IInv'
    OBVIOUS
  <1>1. StreamTypeOK' BY TypesStay DEF IInv
  <1>2. ASSUME NEW kind \in Kinds, Publish(kind) PROVE IInv'
    BY <1>1, <1>2, PublishKeeps
  <1>3. CASE Accept BY <1>1, <1>3, AcceptKeeps
  <1>4. CASE Yield BY <1>1, <1>4, YieldKeeps
  <1>5. CASE Poll BY <1>1, <1>5, PollKeeps
  <1>6. CASE StreamEnd BY <1>1, <1>6, StreamEndKeeps
  <1>7. CASE Receive BY <1>1, <1>7, ReceiveKeeps
  <1>8. CASE Cut
    <2>1. ~terminal BY <1>8 DEF IInv, TerminalIsLast, Cut
    <2> QED BY <1>1, <1>8, <2>1, DownStands DEF Cut, Teardown
  <1>9. CASE TimerFires
    <2>1. /\ ~terminal /\ wire = <<>> /\ pending = <<>> /\ stream = "off"
      BY <1>9 DEF IInv, TerminalIsLast, QuietWhenNotOpen, TimerFires
    <2> QED BY <1>1, <1>9, <2>1, DownStands DEF TimerFires, serverVars
  <1>10. CASE RetryNow
    BY <1>1, <1>10, DownStands DEF RetryNow, Teardown
  <1>11. CASE UNCHANGED streamVars
    BY <1>1, <1>11 DEF streamVars, serverVars, clientVars, IInv, CursorsExist, TimelineHasNoGap,
       TerminalIsLast, QuietWhenNotOpen, NoGapInFlight, EndIsAhead, Frames, Read
  <1> QED BY <1>2, <1>3, <1>4, <1>5, <1>6, <1>7, <1>8, <1>9, <1>10, <1>11 DEF StreamNext

(* However the connection is cut and retried, the timeline of the hook is   *)
(* the ledger up to the last event received, every event it listens to once *)
(* and in order, and the hook is done only behind the terminal event.       *)
THEOREM TimelineIsAlwaysWhole == StreamSpec => []TimelineIsWhole
  <1>1. IInv => TimelineIsWhole
    <2>1. IInv => ClosedAfterTheEnd
      BY DEF IInv, TerminalIsLast, ClosedAfterTheEnd, Last
    <2> QED BY <2>1 DEF IInv, TimelineIsWhole
  <1> QED BY <1>1, InitHolds, StepHolds, PTL DEF StreamSpec
=============================================================================
