----------------------------- MODULE MCDelivery -----------------------------
(* The executor, the terminal exports and the event stream, each on a small  *)
(* instance of its own: two tasks, two workers and one queue place; the      *)
(* ending worker with a retry request beside it; one progress kind the hook  *)
(* listens to and one the service emits that the hook does not know.  They   *)
(* share no variable: "part" says which one a behaviour is about, and the    *)
(* others stay in one of their initial states.                               *)
EXTENDS TaskQueue, TerminalExports, EventStream

CONSTANTS Parts, t1, t2, w1, w2, worker, retry
VARIABLE part

MCTasks == {t1, t2}
MCWorkers == {w1, w2}
WithRetry == {worker, retry}
MCProgress == {"task_created", "planning_authorized"}
MCHeard == {"task_created"} \union TerminalKinds

MCInit ==
    /\ part \in Parts
    /\ QueueInit /\ ExportInit /\ StreamInit
    /\ part # "exports" => row.status = "completed" /\ ~result

MCNext ==
    /\ part' = part
    /\ \/ part = "queue" /\ QueueNext /\ UNCHANGED <<exportVars, streamVars>>
       \/ part = "exports" /\ ExportNext /\ UNCHANGED <<queueVars, streamVars>>
       \/ part = "stream" /\ StreamNext /\ UNCHANGED <<queueVars, exportVars>>

mcVars == <<part, queueVars, exportVars, streamVars>>
MCSpec == MCInit /\ [][MCNext]_mcVars

(* The fairness of ExportFairSpec and StreamFairSpec, for the part explored; *)
(* an idle executor has no step a worker could take, so its own needs no     *)
(* condition.                                                                *)
MCFairSpec ==
    /\ MCSpec
    /\ QueueFairness
    /\ \A w \in Writers : WF_exportVars(part = "exports" /\ Writes(w))
    /\ WF_streamVars(part = "stream" /\ Accept)
    /\ WF_streamVars(part = "stream" /\ (Yield \/ StreamEnd))
    /\ WF_streamVars(part = "stream" /\ Poll)
    /\ WF_streamVars(part = "stream" /\ Receive)
    /\ WF_streamVars(part = "stream" /\ TimerFires)
=============================================================================
