---------------------------- MODULE MCStreamFlow ----------------------------
(* Small instances of StreamFlow for TLC: one stream alone, of any kind and *)
(* with everything that may befall it, or two streams that share a lane of *)
(* one chunk, where the caller of s1 keeps reading and nobody promises to  *)
(* read s2.  Two streams are not cancelled, and neither their sources nor  *)
(* the transport fails, which the stream alone shows as well.              *)
EXTENDS StreamFlow, TLC

CONSTANTS s1, s2

Alone == kind[s2] = "ranged"
Shared == ~Alone

ScenarioInit ==
  /\ Init
  /\ \/ kind[s2] = "ranged" /\ size[s2] = 0
     \/ kind = (s1 :> "whole" @@ s2 :> "exec") /\ size = (s1 :> 1 @@ s2 :> 3)

ScenarioNext ==
  /\ Next
  /\ Alone => ~Open(s2)
  /\ Shared => /\ ~Terminate /\ ~Drop(s1)
               /\ \A s \in Streams : ~CallerCancels(s) /\ ~SourceFails(s)

ScenarioFairness ==
  /\ \A s \in Streams : /\ WF_vars(Pump(s) /\ (Alone => ~Open(s2))) /\ WF_vars(Writer(s))
                        /\ WF_vars(WorkerReader(s)) /\ WF_vars(ClientReader(s))
  /\ \A s \in Readers : WF_vars(Read(s))

ScenarioSpec == ScenarioInit /\ [][ScenarioNext]_vars /\ ScenarioFairness
=============================================================================
