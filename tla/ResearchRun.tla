---------------------------- MODULE ResearchRun ----------------------------
(***************************************************************************)
(* One live research task: a fixed program of stages, each journaled with  *)
(* its value, and of saves and events between them, which the service      *)
(* starts and whose result it publishes.  The process may die at any       *)
(* point; a resumed run walks the program again from its start, replays    *)
(* the stages that completed and repeats the rest.  Every stage sends one  *)
(* external request, journaled on its own.  The service tells its own      *)
(* events in the same ledger, which the result holds a copy of.            *)
(*                                                                         *)
(* Papers are numbers in rank order.  A value carries the time at which    *)
(* its operation produced it.                                              *)
(***************************************************************************)
EXTENDS Integers, Sequences, FiniteSets, SequencesExt

CONSTANTS
    SearchAnswers,     \* records [found, ok]
    ExpansionAnswers,  \* the same; empty when no citation expander is composed
    Fate,              \* paper |-> "kept", "excluded" or "legacy"
    MinPapers, MaxPapers, MaxDiscovered,
    Scopes,            \* how many subquestions the approved plan has
    WallClock, ApprovedDeadline,
    MaxSessions,       \* the first and the resumed ones, three in the code
    MaxTime            \* bound

ASSUME ResearchAssumption ==
    /\ IsFiniteSet(DOMAIN Fate) /\ DOMAIN Fate \subseteq Nat
    /\ SearchAnswers \cup ExpansionAnswers \subseteq [found : SUBSET (DOMAIN Fate), ok : BOOLEAN]
    /\ {MinPapers, MaxPapers, MaxDiscovered, Scopes, WallClock, ApprovedDeadline,
        MaxSessions, MaxTime} \subseteq Nat

VARIABLES
    journal,    \* stage key |-> [state, tries, value]
    requests,   \* stage key |-> [state, answer] of its external request
    saved,      \* name |-> content: the run's artifacts, and the service's "published" result
    timeline,   \* the kinds of the ledger events, the service's among them
    todo,       \* what is left of the program in this process
    papers,     \* the selected papers of this process
    lifecycle,  \* paper |-> [stage, at] in this process
    deadline,   \* ResearchStages.deadline in this process
    runState,   \* "queued", "walking", "staging", "calling", "returning", "publishing",
                \* "interrupted", "failed", "cancelled", "finished"
    cancelSet, now, sessions,
    firstStart, sent, refused  \* history; refused: the contents the store refused, [name, content]

researchVars == <<journal, requests, saved, timeline, todo, papers, lifecycle, deadline, runState,
                  cancelSet, now, sessions, firstStart, sent, refused>>

-----------------------------------------------------------------------------
None == "none"
Found == DOMAIN Fate
Key(kind, x) == <<kind, x>>
Plain(kind) == Key(kind, 0)
Keys == {Plain(s) : s \in {"start", "search", "citations", "verify", "synthesis"}}
          \cup {Key(s, p) : s \in {"acquire", "ingest"}, p \in Found}
          \cup {Key(s, q) : s \in {"retrieve", "analyze"}, q \in 1 .. Scopes}

Value(k) == journal[k].value
Snapshot == Value(Plain("search"))
Expansion == Value(Plain("citations"))
Reliability == Value(Plain("verify"))

AnswersTo(k) ==
    CASE k = Plain("search")    -> SearchAnswers
      [] k = Plain("citations") -> ExpansionAnswers
      [] k = Plain("verify")    -> {[included |-> TRUE, outcome |-> "succeeded"],
                                    [included |-> FALSE, outcome |-> "degraded"]}
      [] k[1] = "analyze"       -> {"consistent", "conflicting"}
      [] k = Plain("synthesis") -> {"usable", "failed"}
      [] OTHER                  -> {"ok"}

-----------------------------------------------------------------------------
\* The program: steps <<kind, argument>>, each checking the cancel flag or not.
Do(kind, x) == <<[kind |-> kind, on |-> x]>>
ForEach(s, Part(_)) == FlattenSeq([i \in DOMAIN s |-> Part(s[i])])
ScopeSeq == [i \in 1 .. Scopes |-> i]

Opening ==
    Do("stage", Plain("start")) \o Do("stage", Plain("search"))
      \o (IF ExpansionAnswers = {} THEN <<>> ELSE Do("stage", Plain("citations")))
      \o Do("select", None)
Acquisition(p) == Do("stage", Key("acquire", p)) \o Do("mark", <<p, "acquired">>)
                    \o Do("stage", Key("ingest", p)) \o Do("mark", <<p, "ingested">>)
Body(chosen) ==
    Do("save", "search") \o Do("event", "search")
      \o ForEach(chosen, Acquisition)
      \o ForEach(ScopeSeq, LAMBDA q : Do("stage", Key("retrieve", q))) \o Do("event", "retrieval")
      \o ForEach(ScopeSeq, LAMBDA q : Do("stage", Key("analyze", q))) \o Do("save", "analysis")
      \o ForEach(chosen, LAMBDA p : Do("mark", <<p, "analyzed">>))
      \o Do("save", "citations") \o Do("event", "citations") \o Do("event", "evidence")
      \o Do("merge", None) \o Do("stage", Plain("verify"))
      \o Do("save", "verification") \o Do("event", "verification") \o Do("report", None)
Closing == Do("check", None) \o Do("event", "synthesis") \o Do("save", "result")

Step == Head(todo)
Onward == todo' = Tail(todo)
Ends(s) == runState' = s /\ todo' = <<>>

\* RuntimeLedger.append_event: one event per stable key; each interruption and resumption has its own.
Tell(kind) == timeline' = Append(timeline, kind)
TellOnce(kind) == IF kind \in ToSet(timeline) THEN UNCHANGED timeline ELSE Tell(kind)

\* The service marks the task interrupted, then tells so unless the process dies in between.
Interrupts == Ends("interrupted") /\ (Tell("task_interrupted") \/ UNCHANGED timeline)
\* A failed operation is uncertain, one that the cancel flag stopped is not.
EndsUncertain == IF cancelSet THEN Ends("cancelled") /\ UNCHANGED timeline ELSE Interrupts

\* Ranked papers, then the expansion's, filtered by year, access and criteria.
Lower(p, S) == Cardinality({q \in S : q < p})
Sorted(S) == [i \in 1 .. Cardinality(S) |-> CHOOSE p \in S : Lower(p, S) = i - 1]
Accepted(S) == {p \in S : Fate[p] # "excluded"}
Ranked == Sorted(Accepted(Snapshot.answer.found))
Discovered ==
    IF ExpansionAnswers = {} THEN <<>>
    ELSE LET all == Expansion.answer.found
             few == {p \in all : Lower(p, all) < MaxDiscovered}
         IN  Sorted(Accepted(few \ Snapshot.answer.found))
Accessible == Ranked \o Discovered
Selection == SubSeq(Accessible, 1, IF Len(Accessible) < MaxPapers THEN Len(Accessible)
                                                                  ELSE MaxPapers)

\* The clock of the lifecycle gate and of the citation graph is the snapshot's.
StampOfSession == now
Stamp == Snapshot.at

OutcomeOfReport == Reliability.answer.outcome
FinalOutcome ==
    IF Reliability.answer.outcome = "succeeded"
         /\ (~Snapshot.answer.ok \/ (ExpansionAnswers # {} /\ ~Expansion.answer.ok))
    THEN "degraded" ELSE Reliability.answer.outcome

Content(name) ==
    CASE name = "search"       -> Snapshot
      [] name = "analysis"     -> [q \in 1 .. Scopes |-> Value(Key("analyze", q))]
      [] name = "citations"    -> [nodes |-> lifecycle, at |-> Stamp]
      [] name = "verification" -> Reliability
      [] name = "result"       -> [papers |-> papers, lifecycle |-> lifecycle,
                                   outcome |-> FinalOutcome, timeline |-> timeline]

-----------------------------------------------------------------------------
ResearchInit ==
    /\ journal = [k \in Keys |-> [state |-> "absent", tries |-> 0, value |-> None]]
    /\ requests = [k \in Keys |-> [state |-> "absent", answer |-> None]]
    /\ saved = <<>> /\ timeline = <<"plan_approved">>
    /\ todo = <<>> /\ papers = <<>> /\ lifecycle = <<>> /\ deadline = 0
    /\ runState = "queued" /\ cancelSet = FALSE
    /\ now = 0 /\ sessions = 1
    /\ firstStart = None /\ sent = [k \in Keys |-> 0] /\ refused = {}

\* The service runs the task: a fresh pipeline object, the program from its start;
\* a result that it already published is taken as it is.
StartSession ==
    /\ runState = "queued"
    /\ IF cancelSet THEN Ends("cancelled")
       ELSE IF "published" \in DOMAIN saved THEN Ends("returning")
       ELSE runState' = "walking" /\ todo' = Opening
    /\ papers' = <<>> /\ lifecycle' = <<>> /\ deadline' = 0
    /\ UNCHANGED <<journal, requests, saved, timeline, cancelSet, now, sessions, firstStart, sent,
                   refused>>

\* A stage with the cancel flag set starts nothing and replays nothing.
StopAtStage ==
    /\ runState = "walking" /\ Step.kind \in {"stage", "check"} /\ cancelSet
    /\ Ends("cancelled")
    /\ UNCHANGED <<journal, requests, saved, timeline, papers, lifecycle, deadline, cancelSet, now,
                   sessions, firstStart, sent, refused>>

Checked ==
    /\ runState = "walking" /\ Step.kind = "check" /\ ~cancelSet
    /\ Onward
    /\ UNCHANGED <<journal, requests, saved, timeline, papers, lifecycle, deadline, runState,
                   cancelSet, now, sessions, firstStart, sent, refused>>

\* The deadline of a session is that of the journaled start, however late it resumes.
DeadlineFromNow(start) == IF now + WallClock < ApprovedDeadline THEN now + WallClock
                                                                ELSE ApprovedDeadline
DeadlineOf(start) == IF start + WallClock < ApprovedDeadline THEN start + WallClock
                                                             ELSE ApprovedDeadline
NewDeadline(k, value) == IF k = Plain("start") THEN DeadlineOf(value.at) ELSE deadline

Replay ==
    /\ runState = "walking" /\ Step.kind = "stage" /\ ~cancelSet
    /\ journal[Step.on].state = "completed"
    /\ Onward
    /\ deadline' = NewDeadline(Step.on, Value(Step.on))
    /\ UNCHANGED <<journal, requests, saved, timeline, papers, lifecycle, runState, cancelSet, now,
                   sessions, firstStart, sent, refused>>

\* A resumption leaves no stage in doubt and none without an attempt, so that the journal
\* refuses none here.
BeginStage ==
    /\ runState = "walking" /\ Step.kind = "stage" /\ ~cancelSet
    /\ journal[Step.on].state \in {"absent", "retryable"} /\ journal[Step.on].tries < 2
    /\ journal' = [journal EXCEPT ![Step.on].state = "pending", ![Step.on].tries = @ + 1]
    /\ runState' = "staging"
    /\ UNCHANGED <<requests, saved, timeline, todo, papers, lifecycle, deadline, cancelSet, now,
                   sessions, firstStart, sent, refused>>

\* The operation's request: journaled as pending, then sent.
Dispatch ==
    /\ runState = "staging" /\ Step.on # Plain("start") /\ ~cancelSet /\ now < deadline
    /\ requests[Step.on].state = "absent"
    /\ requests' = [requests EXCEPT ![Step.on].state = "pending"]
    /\ sent' = [sent EXCEPT ![Step.on] = @ + 1]
    /\ runState' = "calling"
    /\ UNCHANGED <<journal, saved, timeline, todo, papers, lifecycle, deadline, cancelSet, now,
                   sessions, firstStart, refused>>

Answered ==
    /\ runState = "calling"
    /\ \E a \in AnswersTo(Step.on) :
         requests' = [requests EXCEPT ![Step.on] = [state |-> "completed", answer |-> a]]
    /\ runState' = "staging"
    /\ UNCHANGED <<journal, saved, timeline, todo, papers, lifecycle, deadline, cancelSet, now,
                   sessions, firstStart, sent, refused>>

\* A request whose fate is not known, or that cancellation or the deadline interrupts.
RequestInDoubt ==
    /\ runState = "calling"
    /\ requests' = [requests EXCEPT ![Step.on].state = "unknown"]
    /\ journal' = [journal EXCEPT ![Step.on].state = "unknown"]
    /\ EndsUncertain
    /\ UNCHANGED <<saved, papers, lifecycle, deadline, cancelSet, now, sessions,
                   firstStart, sent, refused>>

\* The operation raises: the deadline elapsed, the flag is set, or a local error.
StageFails ==
    /\ runState = "staging"
    /\ journal' = [journal EXCEPT ![Step.on].state = "unknown"]
    /\ EndsUncertain
    /\ UNCHANGED <<requests, saved, papers, lifecycle, deadline, cancelSet, now, sessions,
                   firstStart, sent, refused>>

\* The authorization ended before the dispatch: the operation may be repeated, the task may not.
NotDispatched ==
    /\ runState = "staging" /\ Step.on # Plain("start")
    /\ requests[Step.on].state = "absent" /\ (cancelSet \/ now >= ApprovedDeadline)
    /\ journal' = [journal EXCEPT ![Step.on].state = "retryable"]
    /\ Ends("failed")
    /\ UNCHANGED <<requests, saved, timeline, papers, lifecycle, deadline, cancelSet, now, sessions,
                   firstStart, sent, refused>>

CompleteStage ==
    /\ runState = "staging"
    /\ Step.on = Plain("start") \/ (requests[Step.on].state = "completed" /\ now < deadline)
    /\ LET value == [answer |-> requests[Step.on].answer, at |-> now] IN
       /\ journal' = [journal EXCEPT ![Step.on].state = "completed", ![Step.on].value = value]
       /\ deadline' = NewDeadline(Step.on, value)
    /\ firstStart' = IF Step.on = Plain("start") /\ firstStart = None THEN now ELSE firstStart
    /\ runState' = "walking" /\ Onward
    /\ UNCHANGED <<requests, saved, timeline, papers, lifecycle, cancelSet, now, sessions, sent, refused>>

-----------------------------------------------------------------------------
\* Choose the papers; too few, or one with no modern arXiv route, fails the run.
Select ==
    /\ runState = "walking" /\ Step.kind = "select"
    /\ IF Len(Selection) < MinPapers \/ \E i \in DOMAIN Selection : Fate[Selection[i]] = "legacy"
       THEN Ends("failed") /\ UNCHANGED <<papers, lifecycle>>
       ELSE /\ papers' = Selection
            /\ lifecycle' = [p \in ToSet(Selection) |-> [stage |-> "access_resolved", at |-> Stamp]]
            /\ todo' = Body(Selection)
            /\ UNCHANGED runState
    /\ UNCHANGED <<journal, requests, saved, timeline, deadline, cancelSet, now, sessions,
                   firstStart, sent, refused>>

Gates == [acquired |-> "access_resolved", ingested |-> "acquired", analyzed |-> "ingested"]

\* CitationLifecycleGate._advance
Mark ==
    /\ runState = "walking" /\ Step.kind = "mark"
    /\ LET p == Step.on[1]  stage == Step.on[2] IN
       IF lifecycle[p].stage = Gates[stage]
       THEN /\ lifecycle' = [lifecycle EXCEPT ![p] = [stage |-> stage, at |-> Stamp]]
            /\ Onward /\ UNCHANGED runState
       ELSE Ends("failed") /\ UNCHANGED lifecycle
    /\ UNCHANGED <<journal, requests, saved, timeline, papers, deadline, cancelSet, now, sessions,
                   firstStart, sent, refused>>

\* Claims and evidence of several subquestions must agree where they share an identity.
Merge ==
    /\ runState = "walking" /\ Step.kind = "merge"
    /\ IF \E q \in 1 .. Scopes : Value(Key("analyze", q)).answer = "conflicting"
       THEN Ends("failed") ELSE Onward /\ UNCHANGED runState
    /\ UNCHANGED <<journal, requests, saved, timeline, papers, lifecycle, deadline, cancelSet, now,
                   sessions, firstStart, sent, refused>>

\* Only a report with a claim in it pays for a narrative; a generation that failed is not reported.
Report ==
    /\ runState = "walking" /\ Step.kind = "report"
    /\ todo' = Do("check", None)
                 \o (IF Reliability.answer.included
                     THEN Do("stage", Plain("synthesis")) \o Do("usable", None) ELSE <<>>)
                 \o Closing
    /\ UNCHANGED <<journal, requests, saved, timeline, papers, lifecycle, deadline, runState,
                   cancelSet, now, sessions, firstStart, sent, refused>>

\* A synthesis whose stored value is a failed generation fails the run.
Usable ==
    /\ runState = "walking" /\ Step.kind = "usable"
    /\ IF Value(Plain("synthesis")).answer = "usable"
       THEN Onward /\ UNCHANGED runState ELSE Ends("failed")
    /\ UNCHANGED <<journal, requests, saved, timeline, papers, lifecycle, deadline, cancelSet, now,
                   sessions, firstStart, sent, refused>>

\* ArtifactStore.put: the same content again is accepted, another one is a conflict.
Save ==
    /\ runState = "walking" /\ Step.kind = "save"
    /\ LET name == Step.on IN
       IF name \in DOMAIN saved /\ saved[name] # Content(name)
       THEN /\ Ends("failed") /\ UNCHANGED saved
            /\ refused' = refused \cup {[name |-> name, content |-> Content(name)]}
       ELSE /\ saved' = [n \in DOMAIN saved \cup {name} |->
                           IF n = name THEN Content(name) ELSE saved[n]]
            /\ IF name = "result" THEN Ends("returning") ELSE Onward /\ UNCHANGED runState
            /\ UNCHANGED refused
    /\ UNCHANGED <<journal, requests, timeline, papers, lifecycle, deadline, cancelSet, now,
                   sessions, firstStart, sent>>

Event ==
    /\ runState = "walking" /\ Step.kind = "event"
    /\ TellOnce(Step.on)
    /\ Onward
    /\ UNCHANGED <<journal, requests, saved, papers, lifecycle, deadline, runState, cancelSet, now,
                   sessions, firstStart, sent, refused>>

-----------------------------------------------------------------------------
\* Under the lock of the service: its own copy of the result, then the status and the event.
Publish ==
    /\ runState = "returning"
    /\ IF cancelSet THEN Ends("cancelled") /\ UNCHANGED saved
       ELSE /\ saved' = [n \in DOMAIN saved \cup {"published"} |->
                           IF n \in DOMAIN saved THEN saved[n] ELSE saved["result"]]
            /\ runState' = "publishing" /\ UNCHANGED todo
    /\ UNCHANGED <<journal, requests, timeline, papers, lifecycle, deadline, cancelSet, now,
                   sessions, firstStart, sent, refused>>

CloseTask ==
    /\ runState = "publishing"
    /\ Ends("finished") /\ TellOnce("workflow_finished")
    /\ UNCHANGED <<journal, requests, saved, papers, lifecycle, deadline, cancelSet, now,
                   sessions, firstStart, sent, refused>>

\* Usage not projected to the ledger refuses a session at its start, and its result at its end.
RefuseUnsynced ==
    /\ runState \in {"queued", "returning"} /\ ~cancelSet
    /\ Interrupts
    /\ UNCHANGED <<journal, requests, saved, papers, lifecycle, deadline, cancelSet, now,
                   sessions, firstStart, sent, refused>>

-----------------------------------------------------------------------------
Live == runState \in {"walking", "staging", "calling"}
Running == Live \/ runState \in {"queued", "returning"}

\* The process dies; the next start-up finds the task and tells.
CrashRun ==
    /\ Running \/ runState = "publishing"
    /\ Interrupts
    /\ UNCHANGED <<journal, requests, saved, papers, lifecycle, deadline, cancelSet, now,
                   sessions, firstStart, sent, refused>>

\* The authorization is revoked and the flag set, and an interrupted task ends with that;
\* a running one goes on while the cancellation is told.
CancelRun ==
    /\ ~cancelSet /\ cancelSet' = TRUE
    /\ \/ Running /\ UNCHANGED <<runState, todo>>
       \/ runState = "interrupted" /\ Ends("cancelled")
    /\ UNCHANGED <<journal, requests, saved, timeline, papers, lifecycle, deadline, now,
                   sessions, firstStart, sent, refused>>

CancelIsTold ==
    /\ Running /\ cancelSet /\ "task_cancel_requested" \notin ToSet(timeline)
    /\ Tell("task_cancel_requested")
    /\ UNCHANGED <<journal, requests, saved, todo, papers, lifecycle, deadline, runState,
                   cancelSet, now, sessions, firstStart, sent, refused>>

\* resume_task: an authorized task of which only stages may be in doubt, never a request.
InDoubt == {"pending", "unknown"}
Recoverable ==
    /\ \A k \in Keys : requests[k].state \notin InDoubt
    /\ \A k \in Keys : journal[k].state \in InDoubt => journal[k].tries < 2
ResumeRun ==
    /\ runState = "interrupted" /\ sessions < MaxSessions
    /\ ~cancelSet /\ now < ApprovedDeadline /\ Recoverable
    /\ journal' = [k \in Keys |-> IF journal[k].state \in InDoubt
                                  THEN [journal[k] EXCEPT !.state = "retryable"] ELSE journal[k]]
    /\ runState' = "queued" /\ Tell("task_resume_requested") /\ sessions' = sessions + 1
    /\ UNCHANGED <<requests, saved, todo, papers, lifecycle, deadline, cancelSet, now,
                   firstStart, sent, refused>>

Elapse ==
    /\ now < MaxTime /\ runState \notin {"failed", "cancelled", "finished"}
    /\ now' = now + 1
    /\ UNCHANGED <<journal, requests, saved, timeline, todo, papers, lifecycle, deadline, runState,
                   cancelSet, sessions, firstStart, sent, refused>>

ResearchNext ==
    \/ StartSession \/ StopAtStage \/ Checked \/ Replay \/ BeginStage
    \/ Dispatch \/ Answered \/ RequestInDoubt \/ StageFails \/ NotDispatched \/ CompleteStage
    \/ Select \/ Mark \/ Merge \/ Report \/ Usable \/ Save \/ Event
    \/ Publish \/ CloseTask \/ RefuseUnsynced
    \/ CrashRun \/ CancelRun \/ CancelIsTold \/ ResumeRun \/ Elapse

ResearchSpec == ResearchInit /\ [][ResearchNext]_researchVars

-----------------------------------------------------------------------------
\* A resumed run reproduces what an earlier one saved: content derived from the
\* journaled stages never depends on the session that derives it.  The one thing
\* that does is the timeline in the result, which the events of the interruption
\* and the resumption have made longer; only there is an artifact refused, and
\* never once the service has published a result.
\* No request of a task reaches a provider twice.
ResumeReproduces ==
    /\ \A k \in Keys : sent[k] <= 1
    /\ \A r \in refused :
         /\ r.name = "result" /\ "published" \notin DOMAIN saved
         /\ r.content = [saved["result"] EXCEPT !.timeline = r.content.timeline]
         /\ IsStrictPrefix(saved["result"].timeline, r.content.timeline)

\* What research that had been saved promises its resumption: that it is accepted.
\* The code refuses it where the process dies before the service has published.
SavedResearchResumes == refused = {}

\* No request leaves after the wall clock of the first session or the approved
\* deadline, however often the task is resumed.
DispatchIsInTime ==
    [][sent' # sent => now < firstStart + WallClock /\ now < ApprovedDeadline]_researchVars

\* A saved result is earned: every paper in it was acquired, ingested and analysed,
\* its timeline tells every event of the program once and in order, whatever the
\* service told between them, and it succeeded only when the search, the expansion
\* and the verification all did.  What is published is what the run saved.
Story == <<"search", "retrieval", "citations", "evidence", "verification", "synthesis">>
InOrder(t) ==
    \A i, j \in DOMAIN t, m, n \in DOMAIN Story :
        t[i] = Story[m] /\ t[j] = Story[n] => (i < j <=> m < n)
ResultIsEarned ==
    "result" \in DOMAIN saved =>
      LET r == saved["result"] IN
      /\ Len(r.papers) >= MinPapers
      /\ \A p \in ToSet(r.papers) :
           /\ r.lifecycle[p].stage = "analyzed"
           /\ \A s \in {"acquire", "ingest"} : requests[Key(s, p)].state = "completed"
      /\ ToSet(Story) \subseteq ToSet(r.timeline) /\ InOrder(r.timeline)
      /\ "published" \in DOMAIN saved => saved["published"] = r
      /\ r.outcome = "succeeded" =>
           /\ requests[Plain("search")].answer.ok
           /\ ExpansionAnswers # {} => requests[Plain("citations")].answer.ok
           /\ requests[Plain("synthesis")].answer = "usable"
=============================================================================
