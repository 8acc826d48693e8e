---------------------------- MODULE MCWorkerExec ----------------------------
(* One exec of any kind, and one control request of each kind for it.      *)
EXTENDS WorkerExec, TLC

CONSTANTS e1, close, cancel, resize

MCOp == [r \in Requests |-> CASE r = close  -> "close"
                             [] r = cancel -> "cancel"
                             [] OTHER      -> "resize"]
MCOf == [r \in Requests |-> e1]
=============================================================================
