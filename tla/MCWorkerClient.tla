---------------------------- MODULE MCWorkerClient --------------------------
(* A lease shared by a reading, a mutating and an exec caller.             *)
EXTENDS WorkerClient, TLC

CONSTANTS reads, saves, runs

MCCall == [k \in Callers |-> CASE k = reads -> "read"
                               [] k = saves -> "mutate"
                               [] OTHER     -> "exec"]
=============================================================================
