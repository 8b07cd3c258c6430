---------------------------- MODULE WorkflowGraph ----------------------------
(***************************************************************************)
(* The M3 research workflow: a checkpointed graph of nodes (plan, approval,*)
(* search rounds, parallel paper workers, finalize) over three stores that *)
(* commit separately: the checkpoint, the artifact store and the runtime   *)
(* ledger of charges and events.  A crash keeps the stores and restarts    *)
(* the node of the last checkpoint from its beginning.                     *)
(*                                                                         *)
(* Papers are numbers; a search answer lists them in increasing order.     *)
(***************************************************************************)
EXTENDS Integers, Sequences, FiniteSets, FiniteSetsExt, Functions

CONSTANTS
    Papers, Subquestions,
    Answers,     \* what the search service may answer: records [papers, covered]
    Limits,      \* approved budget: [rounds, queries, api, candidates, fulltext, workers]
    MaxCrashes   \* bound: how often the process dies

ASSUME WorkflowAssumption ==
    /\ Papers \subseteq Int /\ IsFiniteSet(Papers)
    /\ Answers \subseteq [papers : SUBSET Papers, covered : SUBSET Subquestions]
    /\ Limits \in [rounds : Nat, queries : Nat, api : Nat, candidates : Nat,
                   fulltext : Nat, workers : Nat]
    /\ MaxCrashes \in Nat

VARIABLES
    checkpoint,  \* the last checkpoint of the thread
    artifacts,   \* artifact store: draft, approved plan, rounds, paper results
    charges,     \* runtime ledger, budget_effects: plan, calls, results, papers
    announced,   \* runtime ledger, events: the set of stable keys
    step,        \* where the process is inside the node; "down" when it is not running
    pending,     \* the answer or the state update the running node holds
    worker,      \* paper |-> where its worker is inside this process
    asked,       \* history: the rounds the search service was asked for
    crashes, conflict

workflowVars == <<checkpoint, artifacts, charges, announced, step, pending, worker, asked,
                  crashes, conflict>>

-----------------------------------------------------------------------------
Unbilled == -1
Indices == 0 .. Limits.rounds
Nothing == [kind |-> "nothing"]
Update(c) == [kind |-> "update", state |-> c]

History == SubSeq(artifacts.rounds, 1, checkpoint.rounds)
Seen(h) == UNION {h[i].papers : i \in DOMAIN h}
Covered(h) == UNION {h[i].covered : i \in DOMAIN h}
Round == checkpoint.rounds
CandidatesUsed == SumFunctionOnSet(charges.results,
                                   {i \in Indices : charges.results[i] # Unbilled})
FirstOf(S, n) == {p \in S : Cardinality({q \in S : q < p}) < n}
Bounded == FirstOf(checkpoint.selected, Limits.fulltext)

\* AdaptiveSearchAgent.next_action: a reason to stop, or "search".
Saturated(h) ==
    LET last == h[Len(h)] IN
    /\ last.found = {} \/ 5 * last.fresh < Cardinality(last.found)  \* nothing found is nothing new
    /\ last.covered \subseteq Covered(SubSeq(h, 1, Len(h) - 1))
NextAction(h) ==
    IF h # <<>> /\ Subquestions \subseteq Covered(h) THEN "coverage_complete"
    ELSE IF Len(h) >= Limits.rounds  THEN "max_rounds"
    ELSE IF Len(h) >= Limits.queries THEN "query_budget_exhausted"
    ELSE IF h # <<>> /\ Saturated(h) THEN "saturated"
    ELSE "search"

AfterSearch(c) ==
    [c EXCEPT !.node = IF c.stop = "none" THEN "search"
                       ELSE IF c.selected = {} THEN "finalize" ELSE "papers"]

At(node, s) == checkpoint.node = node /\ step = s
Announce(key) == announced' = announced \cup {key}
Return(c) == step' = "return" /\ pending' = Update(c)
Move(s) == step' = s /\ UNCHANGED pending

-----------------------------------------------------------------------------
WorkflowInit ==
    /\ checkpoint = [node |-> "create_plan", status |-> "created", rounds |-> 0,
                     selected |-> {}, stop |-> "none", failed |-> {}]
    /\ artifacts = [draft |-> FALSE, approved |-> "none", rounds |-> <<>>,
                    papers |-> [p \in Papers |-> "none"]]
    /\ charges = [plan |-> FALSE, calls |-> {}, results |-> [i \in Indices |-> Unbilled],
                  papers |-> {}]
    /\ announced = {}
    /\ step = "begin" /\ pending = Nothing
    /\ worker = [p \in Papers |-> "idle"]
    /\ asked = {}
    /\ crashes = 0 /\ conflict = FALSE

\* create_plan: the draft, then its charge, then its event.  A draft that is
\* already stored skips the rest.
Planned == [checkpoint EXCEPT !.node = "approval", !.status = "waiting_approval"]
DraftPlan ==
    /\ At("create_plan", "begin")
    /\ \/ artifacts.draft /\ Return(Planned) /\ UNCHANGED artifacts
       \/ ~artifacts.draft /\ artifacts' = [artifacts EXCEPT !.draft = TRUE] /\ Move("drafted")
    /\ UNCHANGED <<checkpoint, charges, announced, worker, asked, crashes, conflict>>
ChargePlan ==
    /\ At("create_plan", "drafted")
    /\ charges' = [charges EXCEPT !.plan = TRUE] /\ Move("charged")
    /\ UNCHANGED <<checkpoint, artifacts, announced, worker, asked, crashes, conflict>>
AnnouncePlan ==
    /\ At("create_plan", "charged")
    /\ Announce(<<"plan-created">>) /\ Return(Planned)
    /\ UNCHANGED <<checkpoint, artifacts, charges, worker, asked, crashes, conflict>>

\* approve_plan: announce, interrupt; the resumed node runs again with the decision.
RequestApproval ==
    /\ At("approval", "begin")
    /\ Announce(<<"approval-requested">>) /\ Move("interrupted")
    /\ UNCHANGED <<checkpoint, artifacts, charges, worker, asked, crashes, conflict>>
Reject ==
    /\ At("approval", "interrupted")
    /\ Announce(<<"plan-rejected">>)
    /\ Return([checkpoint EXCEPT !.node = "finalize", !.status = "rejected",
                                 !.stop = "plan_rejected"])
    /\ UNCHANGED <<checkpoint, artifacts, charges, worker, asked, crashes, conflict>>
\* approve or modify: another decision after a crash meets the stored plan of the first.
Approve(action) ==
    /\ At("approval", "interrupted")
    /\ artifacts.approved \in {"none", action}
    /\ artifacts' = [artifacts EXCEPT !.approved = action] /\ Move("approved")
    /\ UNCHANGED <<checkpoint, charges, announced, worker, asked, crashes, conflict>>
AnnounceApproval ==
    /\ At("approval", "approved")
    /\ Announce(<<"plan-approved">>)
    /\ Return([checkpoint EXCEPT !.node = "search", !.status = "running"])
    /\ UNCHANGED <<checkpoint, artifacts, charges, worker, asked, crashes, conflict>>

\* search, before the call: stop, reuse the stored round, or charge the call.
StopSearch ==
    /\ At("search", "begin") /\ NextAction(History) # "search"
    /\ Announce(<<"search-stop", NextAction(History)>>)
    /\ Return(AfterSearch([checkpoint EXCEPT !.stop = NextAction(History)]))
    /\ UNCHANGED <<checkpoint, artifacts, charges, worker, asked, crashes, conflict>>
Counted(r) == AfterSearch([checkpoint EXCEPT !.rounds = @ + 1, !.selected = @ \cup r.new])
ReuseRound ==
    /\ At("search", "begin") /\ NextAction(History) = "search"
    /\ Len(artifacts.rounds) > Round
    /\ Return(Counted(artifacts.rounds[Round + 1]))
    /\ UNCHANGED <<checkpoint, artifacts, charges, announced, worker, asked, crashes, conflict>>
Degraded(reason) == AfterSearch([checkpoint EXCEPT !.stop = reason, !.status = "degraded"])
CallAffordable ==
    \/ Round \in charges.calls
    \/ Cardinality(charges.calls) + 1 <= Min({Limits.queries, Limits.api})
ChargeCall ==
    /\ At("search", "begin") /\ NextAction(History) = "search"
    /\ Len(artifacts.rounds) = Round
    /\ \/ /\ CallAffordable /\ Move("call")
          /\ charges' = [charges EXCEPT !.calls = @ \cup {Round}]
          /\ UNCHANGED announced
       \/ /\ ~CallAffordable /\ Return(Degraded("search_budget_exhausted"))
          /\ Announce(<<"search-budget", Round>>) /\ UNCHANGED charges
    /\ UNCHANGED <<checkpoint, artifacts, worker, asked, crashes, conflict>>

\* The search service answers, or the call times out.
Search(answer) ==
    /\ At("search", "call")
    /\ asked' = asked \cup {Round}
    /\ step' = "answered" /\ pending' = [kind |-> "answer", answer |-> answer]
    /\ UNCHANGED <<checkpoint, artifacts, charges, announced, worker, crashes, conflict>>
SearchTimesOut ==
    /\ At("search", "call")
    /\ asked' = asked \cup {Round}
    /\ Announce(<<"search-timeout", Round>>) /\ Return(Degraded("search_timed_out"))
    /\ UNCHANGED <<checkpoint, artifacts, charges, worker, crashes, conflict>>

\* What is kept of an answer: new papers up to what the candidate budget has left.
KeepUpToLimit(answer) ==
    LET fresh == answer.papers \ Seen(History)
        new == FirstOf(fresh, Limits.candidates)
    IN  [new |-> new, fresh |-> Cardinality(fresh), found |-> answer.papers,
         papers |-> (answer.papers \cap Seen(History)) \cup new, covered |-> answer.covered]
Keep(answer) ==
    LET fresh == answer.papers \ Seen(History)
        new == FirstOf(fresh, Max({0, Limits.candidates - CandidatesUsed}))
    IN  [new |-> new, fresh |-> Cardinality(fresh), found |-> answer.papers,
         papers |-> (answer.papers \cap Seen(History)) \cup new, covered |-> answer.covered]
\* charge is idempotent for the same delta and refuses another one.
BillResults ==
    /\ At("search", "answered") /\ pending.kind = "answer"
    /\ LET r == Keep(pending.answer)
           billed == charges.results[Round]
       IN  \/ /\ billed \in {Unbilled, Cardinality(r.new)}
              /\ charges' = [charges EXCEPT !.results[Round] = Cardinality(r.new)]
              /\ step' = "billed" /\ pending' = [kind |-> "round", round |-> r]
              /\ UNCHANGED conflict
           \/ /\ billed \notin {Unbilled, Cardinality(r.new)}
              /\ conflict' = TRUE /\ step' = "down" /\ pending' = Nothing
              /\ UNCHANGED charges
    /\ UNCHANGED <<checkpoint, artifacts, announced, worker, asked, crashes>>
StoreRound ==
    /\ At("search", "billed")
    /\ artifacts' = [artifacts EXCEPT !.rounds = Append(@, pending.round)] /\ Move("stored")
    /\ UNCHANGED <<checkpoint, charges, announced, worker, asked, crashes, conflict>>
AnnounceRound ==
    /\ At("search", "stored")
    /\ Announce(<<"search", Round>>) /\ Return(Counted(pending.round))
    /\ UNCHANGED <<checkpoint, artifacts, charges, worker, asked, crashes, conflict>>

\* paper_worker, one per selected paper: charge, wait for a slot, analyse, store, announce.
WorkerAt(p, s) == At("papers", "begin") /\ p \in Bounded /\ worker[p] = s
WorkerTo(p, s) == worker' = [worker EXCEPT ![p] = s]
Slots == Limits.workers
Admit(p) ==
    /\ WorkerAt(p, "idle")
    /\ \/ artifacts.papers[p] # "none" /\ WorkerTo(p, "done") /\ UNCHANGED charges
       \/ /\ artifacts.papers[p] = "none" /\ WorkerTo(p, "charged")
          /\ charges' = [charges EXCEPT !.papers = @ \cup {p}]
    /\ UNCHANGED <<checkpoint, artifacts, announced, step, pending, asked, crashes, conflict>>
Analyse(p) ==
    /\ WorkerAt(p, "charged")
    /\ Cardinality({q \in Papers : worker[q] = "running"}) < Slots
    /\ WorkerTo(p, "running")
    /\ UNCHANGED <<checkpoint, artifacts, charges, announced, step, pending, asked, crashes,
                   conflict>>
StoreResult(p, status) ==
    /\ WorkerAt(p, "running")
    /\ artifacts' = [artifacts EXCEPT !.papers[p] = status]
    /\ WorkerTo(p, "stored")
    /\ UNCHANGED <<checkpoint, charges, announced, step, pending, asked, crashes, conflict>>
AnnounceResult(p) ==
    /\ WorkerAt(p, "stored")
    /\ Announce(<<"paper", p>>) /\ WorkerTo(p, "done")
    /\ UNCHANGED <<checkpoint, artifacts, charges, step, pending, asked, crashes, conflict>>
\* The reducers merge the branches when every worker has returned.
JoinWorkers ==
    /\ At("papers", "begin") /\ \A p \in Bounded : worker[p] = "done"
    /\ Return([checkpoint EXCEPT !.node = "finalize",
                    !.failed = {p \in Bounded : artifacts.papers[p] # "succeeded"}])
    /\ UNCHANGED <<checkpoint, artifacts, charges, announced, worker, asked, crashes, conflict>>

Outcome(c) == IF c.status = "rejected" THEN "rejected"
              ELSE IF c.status = "degraded" \/ c.failed # {} THEN "degraded" ELSE "completed"
Finalize ==
    /\ At("finalize", "begin")
    /\ Announce(<<"final", Outcome(checkpoint)>>)
    /\ Return([checkpoint EXCEPT !.node = "end", !.status = Outcome(checkpoint)])
    /\ UNCHANGED <<checkpoint, artifacts, charges, worker, asked, crashes, conflict>>

\* The checkpointer saves the node's return value; the next node begins.
Commit ==
    /\ step = "return"
    /\ checkpoint' = pending.state
    /\ step' = "begin" /\ pending' = Nothing
    /\ worker' = [p \in Papers |-> "idle"]
    /\ UNCHANGED <<artifacts, charges, announced, asked, crashes, conflict>>
Crash ==
    /\ step # "down" /\ crashes < MaxCrashes /\ checkpoint.node # "end"
    /\ crashes' = crashes + 1
    /\ step' = "down" /\ pending' = Nothing /\ worker' = [p \in Papers |-> "idle"]
    /\ UNCHANGED <<checkpoint, artifacts, charges, announced, asked, conflict>>
Resume ==
    /\ step = "down"
    /\ step' = "begin"
    /\ UNCHANGED <<checkpoint, artifacts, charges, announced, pending, worker, asked, crashes,
                   conflict>>
\* delete_thread is refused for a thread that is not terminal.
DeleteThread ==
    /\ checkpoint.node = "end" /\ step = "begin"
    /\ step' = "deleted"
    /\ UNCHANGED <<checkpoint, artifacts, charges, announced, pending, worker, asked, crashes,
                   conflict>>

WorkflowNext ==
    \/ DraftPlan \/ ChargePlan \/ AnnouncePlan
    \/ RequestApproval \/ Reject \/ AnnounceApproval
    \/ \E action \in {"approve", "modify"} : Approve(action)
    \/ StopSearch \/ ReuseRound \/ ChargeCall \/ SearchTimesOut
    \/ \E answer \in Answers : Search(answer)
    \/ BillResults \/ StoreRound \/ AnnounceRound
    \/ \E p \in Papers :
          \/ Admit(p) \/ Analyse(p) \/ AnnounceResult(p)
          \/ \E status \in {"succeeded", "failed", "timed_out"} : StoreResult(p, status)
    \/ JoinWorkers \/ Finalize \/ Commit
    \/ Crash \/ Resume \/ DeleteThread

WorkflowSpec == WorkflowInit /\ [][WorkflowNext]_workflowVars

-----------------------------------------------------------------------------
\* The stores agree across crashes: the ledger holds exactly what each stored
\* round brought in, a call or an analysis that happened was charged before,
\* and the approved limits bound both.  (graph.py:199-262, workers.py:48-60.)
EffectsArePaid ==
    /\ \A i \in 1 .. Len(artifacts.rounds) :
          charges.results[i - 1] = Cardinality(artifacts.rounds[i].new)
    /\ asked \subseteq charges.calls
    /\ \A p \in Papers : artifacts.papers[p] # "none" => p \in charges.papers
    /\ CandidatesUsed <= Limits.candidates
    /\ Cardinality(charges.papers) <= Limits.fulltext

\* A run that ends "completed" analysed, with success, every paper its stored
\* rounds selected up to the full-text limit, and stopped for a search reason;
\* a rejected run asked nobody anything.  (graph.py:312-327.)
OutcomeIsHonest ==
    checkpoint.node = "end" =>
        /\ checkpoint.status = "completed" =>
              /\ checkpoint.stop \notin {"search_timed_out", "search_budget_exhausted"}
              /\ \A p \in FirstOf(UNION {artifacts.rounds[i].new : i \in DOMAIN artifacts.rounds},
                                  Limits.fulltext) : artifacts.papers[p] = "succeeded"
        /\ checkpoint.status = "rejected" =>
              charges.calls = {} /\ charges.papers = {} /\ artifacts.rounds = <<>>

\* What a thread reports is what it did and paid for, however often its process
\* died between a store, a charge and an event (graph.py:199-262, 312-327).
WorkflowIsAccounted == EffectsArePaid /\ OutcomeIsHonest
=============================================================================
