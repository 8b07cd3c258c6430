----------------------------- MODULE MCEffects ------------------------------
(* What reaches the outside and what it costs: the journal of a task, the    *)
(* reservations of several, the planning calls and the restore fence.  They  *)
(* share no variable: "part" says which one a behaviour is about.            *)
(*                                                                           *)
(* The journal has two stages, the first making two concurrent calls that do *)
(* not fit the envelope together unless the first one is cheaper than its    *)
(* ceiling.  A demo task and a real one, or the real one alone, share the    *)
(* capacity of the reservations.                                             *)
EXTENDS EffectJournal, BudgetReservations, LivePlanning, RestoreFence

CONSTANTS a, b, c, demo, real, Parts
VARIABLE part

MCCalls == {a, b, c}
MCStageOf == [x \in MCCalls |-> IF x = c THEN 2 ELSE 1]
MCReserve == [x \in MCCalls |-> CASE x = a -> 3 [] x = b -> 2 [] x = c -> 1]

Both == {demo, real}
OneReal == {real}

MCInit == part \in Parts /\ Init /\ BudgetInit /\ PlanningInit /\ FenceInit

MCNext ==
    /\ part' = part
    /\ \/ part = "journal" /\ Next /\ UNCHANGED <<budgetVars, planningVars, fenceVars>>
       \/ part = "budget" /\ BudgetNext /\ UNCHANGED <<vars, planningVars, fenceVars>>
       \/ part = "planning" /\ PlanningNext /\ UNCHANGED <<vars, budgetVars, fenceVars>>
       \/ part = "fence" /\ FenceNext /\ UNCHANGED <<vars, budgetVars, planningVars>>

mcVars == <<part, vars, budgetVars, planningVars, fenceVars>>
MCSpec == MCInit /\ [][MCNext]_mcVars
=============================================================================
