-------------------------- MODULE MCTaskLifecycle --------------------------
(* TaskLifecycle on small instances: two deterministic demo tasks, or one   *)
(* task of any kind; one worker thread (the default of the service).        *)
EXTENDS TaskLifecycle

CONSTANTS t1, t2, w1

OneTask == {t1}
TwoTasks == {t1, t2}
OneWorker == {w1}

Deterministic == {[real |-> {}, offline |-> FALSE, live |-> FALSE]}
LiveOnly == {[real |-> OneTask, offline |-> FALSE, live |-> TRUE]}
Researching == {[real |-> {}, offline |-> TRUE, live |-> FALSE],
                [real |-> OneTask, offline |-> FALSE, live |-> TRUE]}
=============================================================================
