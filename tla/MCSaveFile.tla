---------------------------- MODULE MCSaveFile -----------------------------
(* Two editors of one name: both hold permits, or one is local.            *)
EXTENDS SaveFile, TLC

CONSTANTS e1, e2

Mixed   == {[e \in Editors |-> IF e = e1 THEN "permit" ELSE "local"]}
Locals  == {[e \in Editors |-> "local"]}
Permits == {[e \in Editors |-> "permit"]}
=============================================================================
