-------------------------- MODULE MCWorkerScheduler -------------------------
(* Sessions of few requests: a control request, a process on pipes, one on *)
(* a terminal and a resize of it, one whose output is dropped, bulk reads, *)
(* a read stamped with another incarnation.                                *)
EXTENDS WorkerScheduler, TLC

CONSTANTS health, exec, pty, tool, resize, read1, read2, late

MCClass == [r \in Requests |-> CASE r \in {health, resize} -> "control"
                                [] r \in {exec, pty, tool} -> "standard"
                                [] OTHER                  -> "bulk"]
MCExecs   == Requests \cap {exec, pty, tool}
MCPtys    == Requests \cap {pty}
MCResizes == Requests \cap {resize}
MCDropped == Requests \cap {tool}
MCStale   == Requests \cap {late}

Short     == [r \in Requests |-> IF r \in {pty, read2} THEN 0 ELSE 1]
Long      == [r \in Requests |-> IF r = exec THEN 0 ELSE 2]
Two       == [r \in Requests |-> 2]

Pairs == {{pty, read2}, {pty, health}, {pty, resize}, {tool}, {health, Events}, {read1, Events}}
Few   == {{exec}, {read1, late}}
=============================================================================
