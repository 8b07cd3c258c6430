----------------------------- MODULE MCStudies ------------------------------
(* The offline studies and their ledgers.  They share no variable: "part"    *)
(* says which one a behaviour is about, and the others stay in one of their  *)
(* initial states.                                                           *)
EXTENDS AblationRunner, SchemeComparison, ProspectiveGate, ObservationLedger,
        PairedExperiment, BlindReview

CONSTANT Parts
VARIABLE part

MCVariantOrder == <<"V-off", "V-on">>
MCScope == <<"inside", "write">>
MCClaimOf == <<1, 1>>
MCSeeds == {{}, {1}}

AblationPart ==
    /\ part = "ablation" \/ (part # "ablation" /\ policy = "stop")
    /\ AblationInit
ReviewPart ==
    /\ \/ part = "blind"
       \/ /\ part # "blind"
          /\ lineEndings = "LF"
          /\ reports = [q \in ReviewQuestions |-> [b3 |-> NoAnswer, b4 |-> NoAnswer]]
    /\ ReviewInit

MCInit ==
    /\ part \in Parts
    /\ AblationPart /\ ComparisonInit /\ GateInit /\ LedgerInit /\ PairedInit /\ ReviewPart

MCNext ==
    /\ part' = part
    /\ \/ part = "ablation" /\ AblationNext
             /\ UNCHANGED <<comparisonVars, gateVars, ledgerVars, pairedVars, reviewVars>>
       \/ part = "schemes" /\ ComparisonNext
             /\ UNCHANGED <<ablationVars, gateVars, ledgerVars, pairedVars, reviewVars>>
       \/ part = "gate" /\ GateNext
             /\ UNCHANGED <<ablationVars, comparisonVars, ledgerVars, pairedVars, reviewVars>>
       \/ part = "observations" /\ LedgerNext
             /\ UNCHANGED <<ablationVars, comparisonVars, gateVars, pairedVars, reviewVars>>
       \/ part = "paired" /\ PairedNext
             /\ UNCHANGED <<ablationVars, comparisonVars, gateVars, ledgerVars, reviewVars>>
       \/ part = "blind" /\ ReviewNext
             /\ UNCHANGED <<ablationVars, comparisonVars, gateVars, ledgerVars, pairedVars>>

mcVars == <<part, ablationVars, comparisonVars, gateVars, ledgerVars, pairedVars, reviewVars>>
MCSpec == MCInit /\ [][MCNext]_mcVars
=============================================================================
