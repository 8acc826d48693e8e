------------------------- MODULE WorkerClientProofs -------------------------
(***************************************************************************)
(* Proofs about WorkerClient for any callers, any number of connections    *)
(* and any faults.  Three parts of the state are independent enough to     *)
(* have an inductive invariant each: the lease (who may create a           *)
(* connection and who owns the live one), the mutations (where a prepared  *)
(* mutation may be written and whether it ran) and the replies (where the  *)
(* one reply of a call is on its way).                                     *)
(***************************************************************************)
EXTENDS WorkerClient, FiniteSetTheorems, TLAPS

CallSteps == {"connect", "serialize", "recheck", "open", "hello", "install", "admit",
              "insert", "write", "wait", "apply", "read", "exit", "done"}
Connecting == {"recheck", "open", "hello", "install"}
Results == {"none", "closed", "lost", "refused", "done"}
RetireSteps == {"idle", "lock", "take", "ask", "bye", "reap", "leave", "clear", "done"}
Bodies == {"read", "exec", "prepare", "apply"}

CallsTyped ==
  /\ pc \in [Callers -> CallSteps] /\ result \in [Callers -> Results]
  /\ at \in [Callers -> Nat] /\ prepared \in [Callers -> Nat]
LeaseTyped ==
  /\ made \in 0..MaxConns /\ alive \subseteq 1..made /\ slot \in Nat
  /\ retiring \in [{Closer, Stopper} -> [step : RetireSteps, conn : Nat]]
WorkTyped ==
  /\ requests \in [Conns -> SUBSET [of : Callers, body : Bodies]]
  /\ applied \in [Callers -> Seq(Nat)]
ClientTyped == CallsTyped /\ LeaseTyped /\ WorkTyped

CloseStep == retiring[Closer].step

(* Who is between Serialize and Install, or inside close, holds the        *)
(* connecting lock; nobody else does.                                      *)
Holders ==
  /\ \A k \in Callers : pc[k] \in Connecting <=> connecting = k
  /\ CloseStep \in {"take", "ask", "bye", "reap", "leave"} <=> connecting = Closer

Kept == alive \ stray

(* The live connection that is not lost, if any, is the slot's, or is the  *)
(* one the connecting caller greets or is about to install, or is being    *)
(* retired by close.                                                       *)
Owned ==
  /\ \A k \in Callers : pc[k] = "open" => Kept = {}
  /\ \A k \in Callers : pc[k] \in {"hello", "install"} => Kept \subseteq {at[k]}
  /\ CloseStep \in {"ask", "bye"} => Kept \subseteq {retiring[Closer].conn}
  /\ CloseStep \in {"reap", "leave", "done"} => Kept = {}
  /\ (CloseStep \in {"idle", "lock", "take"}
       /\ \A k \in Callers : pc[k] \notin {"hello", "install"}) => Kept \subseteq {slot}

(* After close nobody connects any more.                                   *)
Barred ==
  /\ CloseStep # "idle" => closed
  /\ CloseStep # "clear"
  /\ CloseStep = "done" => \A k \in Callers : pc[k] \notin {"open", "hello", "install"}

LeaseInv == Holders /\ Owned /\ Barred

(* A caller that has sent its apply either waits for the reply or has      *)
(* returned without a claim that it never ran.                             *)
Submitted(k) == pc[k] = "wait" \/ (pc[k] = "done" /\ result[k] \in {"lost", "done"})
Sent(k) == \E c \in Conns : [of |-> k, body |-> "apply"] \in requests[c]

MutationInv(k) ==
  /\ Call[k] # "mutate" => prepared[k] = None
  /\ pc[k] # "done" => result[k] = "none"
  /\ pc[k] \in {"connect", "serialize", "recheck", "open", "hello", "install"}
       => prepared[k] = None
  /\ (prepared[k] # None /\ pc[k] \in {"admit", "insert", "write", "wait"}) => at[k] = prepared[k]
  /\ Sent(k) => prepared[k] # None /\ applied[k] = <<>> /\ Submitted(k)
  /\ \A c \in Conns : [of |-> k, body |-> "apply"] \in requests[c] => c = prepared[k]
  /\ prepared[k] = None => applied[k] = <<>>
  /\ applied[k] # <<>> => applied[k] = <<prepared[k]>> /\ Submitted(k)

AuthorityInv == \A k \in Callers : MutationInv(k)

USE DEF None, CallSteps, Results, RetireSteps, Bodies
-----------------------------------------------------------------------------
(* The other threads of the client are no callers.                         *)
LEMMA Threads ==
  /\ Closer # Stopper /\ Closer # Free /\ Stopper # Free
  /\ Closer \notin Callers /\ Stopper \notin Callers /\ Free \notin Callers
BY ClientThreadAssumption DEF Closer, Stopper, Free

(* Every step keeps the types of what the two invariants speak about.      *)
LEMMA TypedStep == ASSUME ClientTyped, Next PROVE ClientTyped'
<1> USE DEF Conns
<1>1. ASSUME NEW k \in Callers, Connect(k) PROVE ClientTyped'
  <2>1. CallsTyped'
    BY <1>1 DEF Connect, Returns, Takes, Steps, caller, worker, far, lease, ClientTyped, CallsTyped, LeaseTyped
  <2>2. LeaseTyped'
    BY <1>1 DEF Connect, lease, ClientTyped, LeaseTyped
  <2>3. WorkTyped'
    BY <1>1 DEF Connect, worker, far, ClientTyped, WorkTyped
  <2> QED BY <2>1, <2>2, <2>3 DEF ClientTyped
<1>2. ASSUME NEW k \in Callers, Serialize(k) PROVE ClientTyped'
  BY <1>2 DEF ClientTyped, CallsTyped, LeaseTyped, WorkTyped, Serialize, Steps, caller, worker, far, lease
<1>3. ASSUME NEW k \in Callers, Recheck(k) PROVE ClientTyped'
  <2>1. CallsTyped'
    BY <1>3 DEF Recheck, Returns, Takes, Steps, caller, worker, far, lease, ClientTyped, CallsTyped, LeaseTyped
  <2>2. LeaseTyped'
    BY <1>3 DEF Recheck, lease, ClientTyped, LeaseTyped
  <2>3. WorkTyped'
    BY <1>3 DEF Recheck, worker, far, ClientTyped, WorkTyped
  <2> QED BY <2>1, <2>2, <2>3 DEF ClientTyped
<1>4. ASSUME NEW k \in Callers, Spawn(k) PROVE ClientTyped'
  <2>1. CallsTyped'
    BY <1>4, ClientAssumption DEF Spawn, Steps, caller, worker, far, lease, ClientTyped, CallsTyped, LeaseTyped
  <2>2. LeaseTyped'
    BY <1>4, ClientAssumption DEF Spawn, lease, ClientTyped, LeaseTyped
  <2>3. WorkTyped'
    BY <1>4, ClientAssumption DEF Spawn, worker, far, ClientTyped, WorkTyped
  <2> QED BY <2>1, <2>2, <2>3 DEF ClientTyped
<1>5. ASSUME NEW k \in Callers, SpawnFails(k) PROVE ClientTyped'
  BY <1>5 DEF ClientTyped, CallsTyped, LeaseTyped, WorkTyped, SpawnFails, Returns, caller, worker, far, lease
<1>6. ASSUME NEW k \in Callers, Install(k) PROVE ClientTyped'
  BY <1>6 DEF ClientTyped, CallsTyped, LeaseTyped, WorkTyped, Install, Steps, caller, worker, far, lease
<1>7. ASSUME NEW k \in Callers, Admit(k) PROVE ClientTyped'
  BY <1>7 DEF ClientTyped, CallsTyped, LeaseTyped, WorkTyped, Admit, Steps, Returns, caller, worker, far, lease
<1>8. ASSUME NEW k \in Callers, Insert(k) PROVE ClientTyped'
  BY <1>8 DEF ClientTyped, CallsTyped, LeaseTyped, WorkTyped, Insert, Steps, Returns, caller, worker, far, lease
<1>9. ASSUME NEW k \in Callers, Write(k) PROVE ClientTyped'
  <2>1. Request(k) \in [of : Callers, body : Bodies]
    BY <1>9, ClientAssumption DEF Request
  <2>2. CallsTyped'
    BY <1>9 DEF Write, Steps, Returns, caller, ClientTyped, CallsTyped
  <2>3. LeaseTyped'
    BY <1>9 DEF Write, lease, ClientTyped, LeaseTyped
  <2>4. applied' = applied /\ (requests' = requests
         \/ requests' = [requests EXCEPT ![at[k]] = @ \union {Request(k)}])
    BY <1>9 DEF Write
  <2>5. WorkTyped'
    BY <2>1, <2>4 DEF ClientTyped, WorkTyped
  <2> QED BY <2>2, <2>3, <2>5 DEF ClientTyped
<1>10. ASSUME NEW k \in Callers, Wait(k) PROVE ClientTyped'
  BY <1>10 DEF ClientTyped, CallsTyped, LeaseTyped, WorkTyped, Wait, Steps, Returns, caller, worker, far, lease
<1>11. ASSUME NEW k \in Callers, Apply(k) PROVE ClientTyped'
  <2>1. CallsTyped'
    BY <1>11 DEF Apply, Steps, Returns, Takes, caller, worker, far, lease, ClientTyped, CallsTyped, LeaseTyped
  <2>2. LeaseTyped'
    BY <1>11 DEF Apply, lease, ClientTyped, LeaseTyped
  <2>3. WorkTyped'
    BY <1>11 DEF Apply, worker, far, ClientTyped, WorkTyped
  <2> QED BY <2>1, <2>2, <2>3 DEF ClientTyped
<1>12. ASSUME NEW k \in Callers, ReadEnds(k) PROVE ClientTyped'
  BY <1>12 DEF ClientTyped, CallsTyped, LeaseTyped, WorkTyped, ReadEnds, Steps, Returns, caller, worker, far, lease
<1>13. ASSUME NEW k \in Callers, WaitExit(k) PROVE ClientTyped'
  BY <1>13 DEF ClientTyped, CallsTyped, LeaseTyped, WorkTyped, WaitExit, Returns, caller, worker, far, lease
<1>14. ASSUME NEW c \in Conns, RouteResult(c) PROVE ClientTyped'
  BY <1>14 DEF ClientTyped, CallsTyped, LeaseTyped, WorkTyped, RouteResult, caller, worker, far, lease
<1>15. ASSUME NEW c \in Conns, DeliverReply(c) PROVE ClientTyped'
  BY <1>15 DEF ClientTyped, CallsTyped, LeaseTyped, WorkTyped, DeliverReply, caller, worker, far, lease
<1>16. ASSUME NEW c \in Conns, RouteLast(c) PROVE ClientTyped'
  BY <1>16 DEF ClientTyped, CallsTyped, LeaseTyped, WorkTyped, RouteLast, Terminates, caller, worker, far, lease
<1>17. ASSUME NEW c \in Conns, RouteExit(c) PROVE ClientTyped'
  BY <1>17 DEF ClientTyped, CallsTyped, LeaseTyped, WorkTyped, RouteExit, caller, worker, far, lease
<1>18. ASSUME NEW c \in Conns, StreamCloses(c) PROVE ClientTyped'
  BY <1>18 DEF ClientTyped, CallsTyped, LeaseTyped, WorkTyped, StreamCloses, Terminates, caller, worker, far, lease
<1>19. ASSUME NEW c \in Conns, DrainPending(c) PROVE ClientTyped'
  BY <1>19 DEF ClientTyped, CallsTyped, LeaseTyped, WorkTyped, DrainPending, caller, worker, far, lease
<1>20. ASSUME NEW c \in Conns, DrainStreams(c) PROVE ClientTyped'
  BY <1>20 DEF ClientTyped, CallsTyped, LeaseTyped, WorkTyped, DrainStreams, caller, worker, far, lease
<1>21. ASSUME NEW c \in Conns, ReapChild(c) PROVE ClientTyped'
  BY <1>21 DEF ClientTyped, CallsTyped, LeaseTyped, WorkTyped, ReapChild, Gone, caller, worker, far, lease
<1>22. ASSUME NEW c \in Conns, Serve(c) PROVE ClientTyped'
  BY <1>22 DEF ClientTyped, CallsTyped, LeaseTyped, WorkTyped, Serve, Publishes, caller, worker, far, lease
<1>23. ASSUME NEW c \in Conns, Finish(c) PROVE ClientTyped'
  BY <1>23 DEF ClientTyped, CallsTyped, LeaseTyped, WorkTyped, Finish, Publishes, caller, worker, far, lease
<1>24. ASSUME NEW c \in Conns, Bye(c) PROVE ClientTyped'
  BY <1>24 DEF ClientTyped, CallsTyped, LeaseTyped, WorkTyped, Bye, Publishes, caller, worker, far, lease
<1>25. ASSUME NEW c \in Conns, Leaves(c) PROVE ClientTyped'
  BY <1>25 DEF ClientTyped, CallsTyped, LeaseTyped, WorkTyped, Leaves, Gone, Publishes, caller, worker, far, lease
<1>26. ASSUME NEW c \in Conns, Crash(c) PROVE ClientTyped'
  BY <1>26 DEF ClientTyped, CallsTyped, LeaseTyped, WorkTyped, Crash, Gone, Publishes, caller, worker, far, lease
<1>27. ASSUME NEW c \in Conns, Corrupt(c) PROVE ClientTyped'
  BY <1>27 DEF ClientTyped, CallsTyped, LeaseTyped, WorkTyped, Corrupt, Publishes, caller, worker, far, lease
<1>28. ASSUME CloseFlags PROVE ClientTyped'
  BY <1>28 DEF ClientTyped, CallsTyped, LeaseTyped, WorkTyped, CloseFlags, Goes, caller, worker, far, lease
<1>29. ASSUME CloseLocks PROVE ClientTyped'
  BY <1>29 DEF ClientTyped, CallsTyped, LeaseTyped, WorkTyped, CloseLocks, Goes, caller, worker, far, lease
<1>30. ASSUME CloseTakes PROVE ClientTyped'
  <2>1. CallsTyped'
    BY <1>30 DEF CloseTakes, caller, ClientTyped, CallsTyped
  <2>2. LeaseTyped'
    BY <1>30 DEF CloseTakes, Goes, ClientTyped, LeaseTyped
  <2>3. WorkTyped'
    BY <1>30 DEF CloseTakes, worker, far, ClientTyped, WorkTyped
  <2> QED BY <2>1, <2>2, <2>3 DEF ClientTyped
<1>31. ASSUME CloseLeaves PROVE ClientTyped'
  BY <1>31 DEF ClientTyped, CallsTyped, LeaseTyped, WorkTyped, CloseLeaves, Goes, caller, worker, far, lease
<1>32. ASSUME ShutdownTakes PROVE ClientTyped'
  <2>1. CallsTyped'
    BY <1>32 DEF ShutdownTakes, caller, ClientTyped, CallsTyped
  <2>2. LeaseTyped'
    BY <1>32 DEF ShutdownTakes, Goes, ClientTyped, LeaseTyped
  <2>3. WorkTyped'
    BY <1>32 DEF ShutdownTakes, worker, far, ClientTyped, WorkTyped
  <2> QED BY <2>1, <2>2, <2>3 DEF ClientTyped
<1>33. ASSUME ShutdownUnlocks PROVE ClientTyped'
  BY <1>33 DEF ClientTyped, CallsTyped, LeaseTyped, WorkTyped, ShutdownUnlocks, Goes, caller, worker, far, lease
<1>34. ASSUME ShutdownClears PROVE ClientTyped'
  BY <1>34 DEF ClientTyped, CallsTyped, LeaseTyped, WorkTyped, ShutdownClears, Goes, caller, worker, far, lease
<1>35. ASSUME NEW t \in {Closer, Stopper}, RetireAsks(t) PROVE ClientTyped'
  BY <1>35 DEF ClientTyped, CallsTyped, LeaseTyped, WorkTyped, RetireAsks, Goes, caller, worker, far, lease
<1>36. ASSUME NEW t \in {Closer, Stopper}, RetireTerminates(t) PROVE ClientTyped'
  BY <1>36 DEF ClientTyped, CallsTyped, LeaseTyped, WorkTyped, RetireTerminates, Goes, Terminates, caller, worker, far, lease
<1>37. ASSUME NEW t \in {Closer, Stopper}, RetireReaped(t) PROVE ClientTyped'
  BY <1>37 DEF ClientTyped, CallsTyped, LeaseTyped, WorkTyped, RetireReaped, Goes, caller, worker, far, lease
<1>38. ASSUME NEW k \in Callers, Greeted(k) PROVE ClientTyped'
  BY <1>38 DEF ClientTyped, CallsTyped, LeaseTyped, WorkTyped, Greeted, Steps, caller, worker, far, lease
<1>39. ASSUME NEW k \in Callers, HandshakeFails(k) PROVE ClientTyped'
  BY <1>39 DEF ClientTyped, CallsTyped, LeaseTyped, WorkTyped, HandshakeFails, Returns
<1>40. ASSUME NEW c \in Conns, RouteWelcome(c) PROVE ClientTyped'
  BY <1>40 DEF ClientTyped, CallsTyped, LeaseTyped, WorkTyped, RouteWelcome, caller, far, lease
<1> QED
  BY <1>1, <1>2, <1>3, <1>4, <1>5, <1>6, <1>7, <1>8, <1>9, <1>10, <1>11, <1>12, <1>13,
     <1>14, <1>15, <1>16, <1>17, <1>18, <1>19, <1>20, <1>21, <1>22, <1>23, <1>24, <1>25, <1>26,
     <1>27, <1>28, <1>29, <1>30, <1>31, <1>32, <1>33, <1>34, <1>35, <1>36, <1>37, <1>38, <1>39, <1>40
  DEF Next, CallerRuns, ReaderRuns, TerminateRuns, CloseRuns, StopRuns, RetireRuns, WorkerRuns

-----------------------------------------------------------------------------
(* The lease.                                                              *)

(* A connection that dies, and nothing else about the lease.               *)
LEMMA DeathKeepsLease ==
  ASSUME LeaseInv, Kept' \subseteq Kept, retiring'[Closer] = retiring[Closer],
         UNCHANGED <<pc, at, slot, connecting, closed>>
  PROVE  LeaseInv'
BY DEF LeaseInv, Holders, Owned, Barred, CloseStep

(* A caller that neither holds nor takes the connecting lock.              *)
LEMMA CallKeepsLease ==
  ASSUME ClientTyped, LeaseInv, NEW k \in Callers, NEW step \in CallSteps \ Connecting,
         pc[k] \notin Connecting, pc' = [pc EXCEPT ![k] = step],
         \A j \in Callers \ {k} : at'[j] = at[j],
         UNCHANGED <<alive, stray, slot, connecting, closed, retiring>>
  PROVE  LeaseInv'
<1> USE DEF Connecting
<1>1. \A j \in Callers : pc'[j] \in Connecting <=> pc[j] \in Connecting
  BY DEF ClientTyped, CallsTyped
<1>2. \A j \in Callers : pc'[j] \in Connecting => j # k /\ pc'[j] = pc[j] /\ at'[j] = at[j]
  BY DEF ClientTyped, CallsTyped
<1>3. \A j \in Callers : pc'[j] \in {"hello", "install"} <=> pc[j] \in {"hello", "install"}
  BY DEF ClientTyped, CallsTyped
<1>4. Holders'
  BY <1>1 DEF LeaseInv, Holders, CloseStep
<1>5. Owned'
  BY <1>2, <1>3 DEF LeaseInv, Owned, CloseStep, Kept
<1>6. Barred'
  BY <1>2 DEF LeaseInv, Barred, CloseStep
<1> QED BY <1>4, <1>5, <1>6 DEF LeaseInv

LEMMA LeaseStep == ASSUME ClientTyped, LeaseInv, Next PROVE LeaseInv'
<1> USE Threads
<1>1. ASSUME NEW k \in Callers, Connect(k) PROVE LeaseInv'
  <2>1. PICK step \in CallSteps \ Connecting : pc' = [pc EXCEPT ![k] = step]
    BY <1>1 DEF Connect, Returns, Steps, Takes, Connecting
  <2>2. pc[k] \notin Connecting /\ \A j \in Callers \ {k} : at'[j] = at[j]
    BY <1>1 DEF Connect, Returns, Steps, Takes, Connecting, ClientTyped, CallsTyped
  <2>3. UNCHANGED <<alive, stray, slot, connecting, closed, retiring>>
    BY <1>1 DEF Connect, lease
  <2> QED BY <2>1, <2>2, <2>3, CallKeepsLease
<1>2. ASSUME NEW k \in Callers, Serialize(k) PROVE LeaseInv'
  <2>1. Holders'
    BY <1>2 DEF Serialize, Steps, caller, worker, far, lease, ClientTyped, CallsTyped, LeaseTyped, LeaseInv, Connecting, Usable, ClosedAgain, UsableAgain, Holders, CloseStep
  <2>2. Owned'
    BY <1>2 DEF Serialize, Steps, caller, worker, far, lease, ClientTyped, CallsTyped, LeaseTyped, LeaseInv, Connecting, Usable, ClosedAgain, UsableAgain, Holders, Owned, Kept, CloseStep
  <2>3. Barred'
    BY <1>2 DEF Serialize, Steps, caller, worker, far, lease, ClientTyped, CallsTyped, LeaseTyped, LeaseInv, Connecting, Usable, ClosedAgain, UsableAgain, Holders, Barred, CloseStep
  <2> QED BY <2>1, <2>2, <2>3 DEF LeaseInv
<1>3. ASSUME NEW k \in Callers, Recheck(k) PROVE LeaseInv'
  <2>1. Holders'
    BY <1>3 DEF Recheck, Returns, Takes, Steps, caller, worker, far, lease, ClientTyped, CallsTyped, LeaseTyped, LeaseInv, Connecting, Usable, ClosedAgain, UsableAgain, Holders, CloseStep
  <2>2. Owned'
    <3>1. pc[k] = "recheck" /\ connecting = k /\ \A j \in Callers : pc[j] \in Connecting => j = k
      BY <1>3 DEF Recheck, LeaseInv, Holders, Connecting
    <3>2. UNCHANGED <<alive, stray, slot, retiring>> /\ \A j \in Callers : j # k => pc'[j] = pc[j]
      BY <1>3 DEF Recheck, Returns, Steps, Takes, ClientTyped, CallsTyped
    <3>3. \A j \in Callers : pc[j] \notin {"open", "hello", "install"}
      BY <3>1 DEF Connecting
    <3>4. CASE pc'[k] \notin {"open", "hello", "install"}
      <4>1. \A j \in Callers : pc'[j] \notin {"open", "hello", "install"}
        BY <3>2, <3>3, <3>4
      <4> QED BY <3>2, <3>3, <4>1 DEF LeaseInv, Owned, CloseStep, Kept
    <3>5. CASE pc'[k] \in {"open", "hello", "install"}
      <4>1. ~closed /\ ~Usable /\ pc'[k] = "open"
        BY <1>3, <3>5 DEF Recheck, Returns, Steps, Takes, ClosedAgain, UsableAgain, ClientTyped, CallsTyped
      <4>2. CloseStep = "idle"
        BY <4>1 DEF LeaseInv, Barred
      <4>3. Kept \subseteq {slot}
        BY <3>3, <4>2 DEF LeaseInv, Owned
      <4>4. Kept = {}
        BY <4>1, <4>3 DEF Usable, Kept, ClientTyped, LeaseTyped
      <4>5. Kept' = {}
        BY <3>2, <4>4 DEF Kept
      <4> QED BY <3>2, <4>5 DEF Owned, CloseStep
    <3> QED BY <3>4, <3>5
  <2>3. Barred'
    BY <1>3 DEF Recheck, Returns, Takes, Steps, caller, worker, far, lease, ClientTyped, CallsTyped, LeaseTyped, LeaseInv, Connecting, Usable, ClosedAgain, UsableAgain, Holders, Barred, CloseStep
  <2> QED BY <2>1, <2>2, <2>3 DEF LeaseInv
<1>4. ASSUME NEW k \in Callers, Spawn(k) PROVE LeaseInv'
  <2>1. Holders'
    BY <1>4 DEF Spawn, Steps, caller, worker, far, lease, ClientTyped, CallsTyped, LeaseTyped, LeaseInv, Connecting, Usable, ClosedAgain, UsableAgain, Holders, CloseStep
  <2>2. Owned'
    <3>1. pc[k] = "open" /\ connecting = k /\ \A j \in Callers : pc[j] \in Connecting => j = k
      BY <1>4 DEF Spawn, LeaseInv, Holders, Connecting
    <3>2. Kept = {}
      BY <3>1 DEF LeaseInv, Owned
    <3>3. CloseStep \in {"idle", "lock"}
      <4>1. CloseStep \in RetireSteps
        BY DEF ClientTyped, LeaseTyped, CloseStep
      <4> QED BY <3>1, <4>1 DEF LeaseInv, Holders, Barred
    <3>4. Kept' \subseteq {made'} /\ at'[k] = made' /\ pc'[k] = "hello" /\ UNCHANGED retiring
      BY <1>4, <3>2 DEF Spawn, Steps, Kept, ClientTyped, CallsTyped
    <3>5. \A j \in Callers : j # k => pc'[j] = pc[j] /\ pc[j] \notin Connecting
      BY <1>4, <3>1 DEF Spawn, Steps, ClientTyped, CallsTyped
    <3> QED BY <3>3, <3>4, <3>5 DEF Owned, CloseStep, Connecting
  <2>3. Barred'
    BY <1>4 DEF Spawn, Steps, caller, worker, far, lease, ClientTyped, CallsTyped, LeaseTyped, LeaseInv, Connecting, Usable, ClosedAgain, UsableAgain, Holders, Barred, CloseStep
  <2> QED BY <2>1, <2>2, <2>3 DEF LeaseInv
<1>5. ASSUME NEW k \in Callers, SpawnFails(k) PROVE LeaseInv'
  <2>1. Holders'
    BY <1>5 DEF SpawnFails, Returns, caller, worker, far, lease, ClientTyped, CallsTyped, LeaseTyped, LeaseInv, Connecting, Usable, ClosedAgain, UsableAgain, Holders, CloseStep
  <2>2. Owned'
    BY <1>5 DEF SpawnFails, Returns, caller, worker, far, lease, ClientTyped, CallsTyped, LeaseTyped, LeaseInv, Connecting, Usable, ClosedAgain, UsableAgain, Holders, Owned, Kept, CloseStep
  <2>3. Barred'
    BY <1>5 DEF SpawnFails, Returns, caller, worker, far, lease, ClientTyped, CallsTyped, LeaseTyped, LeaseInv, Connecting, Usable, ClosedAgain, UsableAgain, Holders, Barred, CloseStep
  <2> QED BY <2>1, <2>2, <2>3 DEF LeaseInv
<1>6. ASSUME NEW k \in Callers, Install(k) PROVE LeaseInv'
  <2>1. Holders'
    BY <1>6 DEF Install, Steps, caller, worker, far, lease, ClientTyped, CallsTyped, LeaseTyped, LeaseInv, Connecting, Usable, ClosedAgain, UsableAgain, Holders, CloseStep
  <2>2. Owned'
    BY <1>6 DEF Install, Steps, caller, worker, far, lease, ClientTyped, CallsTyped, LeaseTyped, LeaseInv, Connecting, Usable, ClosedAgain, UsableAgain, Holders, Owned, Kept, CloseStep
  <2>3. Barred'
    BY <1>6 DEF Install, Steps, caller, worker, far, lease, ClientTyped, CallsTyped, LeaseTyped, LeaseInv, Connecting, Usable, ClosedAgain, UsableAgain, Holders, Barred, CloseStep
  <2> QED BY <2>1, <2>2, <2>3 DEF LeaseInv
<1>7. ASSUME NEW k \in Callers, Admit(k) PROVE LeaseInv'
  <2>1. PICK step \in CallSteps \ Connecting : pc' = [pc EXCEPT ![k] = step]
    BY <1>7 DEF Admit, Returns, Steps, Takes, Connecting
  <2>2. pc[k] \notin Connecting /\ \A j \in Callers \ {k} : at'[j] = at[j]
    BY <1>7 DEF Admit, Returns, Steps, Takes, Connecting, ClientTyped, CallsTyped
  <2>3. UNCHANGED <<alive, stray, slot, connecting, closed, retiring>>
    BY <1>7 DEF Admit, lease
  <2> QED BY <2>1, <2>2, <2>3, CallKeepsLease
<1>8. ASSUME NEW k \in Callers, Insert(k) PROVE LeaseInv'
  <2>1. PICK step \in CallSteps \ Connecting : pc' = [pc EXCEPT ![k] = step]
    BY <1>8 DEF Insert, Returns, Steps, Takes, Connecting
  <2>2. pc[k] \notin Connecting /\ \A j \in Callers \ {k} : at'[j] = at[j]
    BY <1>8 DEF Insert, Returns, Steps, Takes, Connecting, ClientTyped, CallsTyped
  <2>3. UNCHANGED <<alive, stray, slot, connecting, closed, retiring>>
    BY <1>8 DEF Insert, lease
  <2> QED BY <2>1, <2>2, <2>3, CallKeepsLease
<1>9. ASSUME NEW k \in Callers, Write(k) PROVE LeaseInv'
  <2>1. PICK step \in CallSteps \ Connecting : pc' = [pc EXCEPT ![k] = step]
    BY <1>9 DEF Write, Returns, Steps, Takes, Connecting
  <2>2. pc[k] \notin Connecting /\ \A j \in Callers \ {k} : at'[j] = at[j]
    BY <1>9 DEF Write, Returns, Steps, Takes, Connecting, ClientTyped, CallsTyped
  <2>3. UNCHANGED <<alive, stray, slot, connecting, closed, retiring>>
    BY <1>9 DEF Write, lease
  <2> QED BY <2>1, <2>2, <2>3, CallKeepsLease
<1>10. ASSUME NEW k \in Callers, Wait(k) PROVE LeaseInv'
  <2>1. PICK step \in CallSteps \ Connecting : pc' = [pc EXCEPT ![k] = step]
    BY <1>10 DEF Wait, Returns, Steps, Takes, Connecting
  <2>2. pc[k] \notin Connecting /\ \A j \in Callers \ {k} : at'[j] = at[j]
    BY <1>10 DEF Wait, Returns, Steps, Takes, Connecting, ClientTyped, CallsTyped
  <2>3. UNCHANGED <<alive, stray, slot, connecting, closed, retiring>>
    BY <1>10 DEF Wait, lease
  <2> QED BY <2>1, <2>2, <2>3, CallKeepsLease
<1>11. ASSUME NEW k \in Callers, Apply(k) PROVE LeaseInv'
  <2>1. PICK step \in CallSteps \ Connecting : pc' = [pc EXCEPT ![k] = step]
    BY <1>11 DEF Apply, Returns, Steps, Takes, Connecting
  <2>2. pc[k] \notin Connecting /\ \A j \in Callers \ {k} : at'[j] = at[j]
    BY <1>11 DEF Apply, Returns, Steps, Takes, Connecting, ClientTyped, CallsTyped
  <2>3. UNCHANGED <<alive, stray, slot, connecting, closed, retiring>>
    BY <1>11 DEF Apply, lease
  <2> QED BY <2>1, <2>2, <2>3, CallKeepsLease
<1>12. ASSUME NEW k \in Callers, ReadEnds(k) PROVE LeaseInv'
  <2>1. PICK step \in CallSteps \ Connecting : pc' = [pc EXCEPT ![k] = step]
    BY <1>12 DEF ReadEnds, Returns, Steps, Takes, Connecting
  <2>2. pc[k] \notin Connecting /\ \A j \in Callers \ {k} : at'[j] = at[j]
    BY <1>12 DEF ReadEnds, Returns, Steps, Takes, Connecting, ClientTyped, CallsTyped
  <2>3. UNCHANGED <<alive, stray, slot, connecting, closed, retiring>>
    BY <1>12 DEF ReadEnds, lease
  <2> QED BY <2>1, <2>2, <2>3, CallKeepsLease
<1>13. ASSUME NEW k \in Callers, WaitExit(k) PROVE LeaseInv'
  <2>1. PICK step \in CallSteps \ Connecting : pc' = [pc EXCEPT ![k] = step]
    BY <1>13 DEF WaitExit, Returns, Steps, Takes, Connecting
  <2>2. pc[k] \notin Connecting /\ \A j \in Callers \ {k} : at'[j] = at[j]
    BY <1>13 DEF WaitExit, Returns, Steps, Takes, Connecting, ClientTyped, CallsTyped
  <2>3. UNCHANGED <<alive, stray, slot, connecting, closed, retiring>>
    BY <1>13 DEF WaitExit, lease
  <2> QED BY <2>1, <2>2, <2>3, CallKeepsLease
<1>14. ASSUME NEW c \in Conns, RouteResult(c) PROVE LeaseInv'
  BY <1>14, DeathKeepsLease DEF Kept, RouteResult, caller, worker, far, lease
<1>15. ASSUME NEW c \in Conns, DeliverReply(c) PROVE LeaseInv'
  BY <1>15, DeathKeepsLease DEF Kept, DeliverReply, caller, worker, far, lease
<1>16. ASSUME NEW c \in Conns, RouteLast(c) PROVE LeaseInv'
  BY <1>16, DeathKeepsLease DEF Kept, RouteLast, Terminates, lease, caller
<1>17. ASSUME NEW c \in Conns, RouteExit(c) PROVE LeaseInv'
  BY <1>17, DeathKeepsLease DEF Kept, RouteExit, caller, worker, far, lease
<1>18. ASSUME NEW c \in Conns, StreamCloses(c) PROVE LeaseInv'
  BY <1>18, DeathKeepsLease DEF Kept, StreamCloses, Terminates, lease, caller
<1>19. ASSUME NEW c \in Conns, DrainPending(c) PROVE LeaseInv'
  BY <1>19, DeathKeepsLease DEF Kept, DrainPending, caller, worker, far, lease
<1>20. ASSUME NEW c \in Conns, DrainStreams(c) PROVE LeaseInv'
  BY <1>20, DeathKeepsLease DEF Kept, DrainStreams, caller, worker, far, lease
<1>21. ASSUME NEW c \in Conns, ReapChild(c) PROVE LeaseInv'
  BY <1>21, DeathKeepsLease DEF Kept, ReapChild, Gone, caller, worker, far, lease
<1>22. ASSUME NEW c \in Conns, Serve(c) PROVE LeaseInv'
  BY <1>22, DeathKeepsLease DEF Kept, Serve, Publishes, caller, worker, far, lease
<1>23. ASSUME NEW c \in Conns, Finish(c) PROVE LeaseInv'
  BY <1>23, DeathKeepsLease DEF Kept, Finish, Publishes, caller, worker, far, lease
<1>24. ASSUME NEW c \in Conns, Bye(c) PROVE LeaseInv'
  BY <1>24, DeathKeepsLease DEF Kept, Bye, Publishes, caller, worker, far, lease
<1>25. ASSUME NEW c \in Conns, Leaves(c) PROVE LeaseInv'
  BY <1>25, DeathKeepsLease DEF Kept, Leaves, Gone, Publishes, caller, worker, far, lease
<1>26. ASSUME NEW c \in Conns, Crash(c) PROVE LeaseInv'
  BY <1>26, DeathKeepsLease DEF Kept, Crash, Gone, Publishes, caller, worker, far, lease
<1>27. ASSUME NEW c \in Conns, Corrupt(c) PROVE LeaseInv'
  BY <1>27, DeathKeepsLease DEF Kept, Corrupt, Publishes, caller, worker, far, lease
<1>28. ASSUME CloseFlags PROVE LeaseInv'
  <2>1. Holders'
    BY <1>28 DEF CloseFlags, Goes, caller, worker, far, lease, ClientTyped, CallsTyped, LeaseTyped, LeaseInv, Connecting, Usable, ClosedAgain, UsableAgain, Holders, CloseStep
  <2>2. Owned'
    BY <1>28 DEF CloseFlags, Goes, caller, worker, far, lease, ClientTyped, CallsTyped, LeaseTyped, LeaseInv, Connecting, Usable, ClosedAgain, UsableAgain, Holders, Owned, Kept, CloseStep
  <2>3. Barred'
    BY <1>28 DEF CloseFlags, Goes, caller, worker, far, lease, ClientTyped, CallsTyped, LeaseTyped, LeaseInv, Connecting, Usable, ClosedAgain, UsableAgain, Holders, Barred, CloseStep
  <2> QED BY <2>1, <2>2, <2>3 DEF LeaseInv
<1>29. ASSUME CloseLocks PROVE LeaseInv'
  <2>1. Holders'
    BY <1>29 DEF CloseLocks, Goes, caller, worker, far, lease, ClientTyped, CallsTyped, LeaseTyped, LeaseInv, Connecting, Usable, ClosedAgain, UsableAgain, Holders, CloseStep
  <2>2. Owned'
    BY <1>29 DEF CloseLocks, Goes, caller, worker, far, lease, ClientTyped, CallsTyped, LeaseTyped, LeaseInv, Connecting, Usable, ClosedAgain, UsableAgain, Holders, Owned, Kept, CloseStep
  <2>3. Barred'
    BY <1>29 DEF CloseLocks, Goes, caller, worker, far, lease, ClientTyped, CallsTyped, LeaseTyped, LeaseInv, Connecting, Usable, ClosedAgain, UsableAgain, Holders, Barred, CloseStep
  <2> QED BY <2>1, <2>2, <2>3 DEF LeaseInv
<1>30. ASSUME CloseTakes PROVE LeaseInv'
  <2>1. Holders'
    BY <1>30 DEF CloseTakes, caller, worker, far, lease, ClientTyped, CallsTyped, LeaseTyped, LeaseInv, Connecting, Usable, ClosedAgain, UsableAgain, Holders, CloseStep
  <2>2. Owned'
    BY <1>30 DEF CloseTakes, caller, worker, far, lease, ClientTyped, CallsTyped, LeaseTyped, LeaseInv, Connecting, Usable, ClosedAgain, UsableAgain, Holders, Owned, Kept, CloseStep
  <2>3. Barred'
    BY <1>30 DEF CloseTakes, caller, worker, far, lease, ClientTyped, CallsTyped, LeaseTyped, LeaseInv, Connecting, Usable, ClosedAgain, UsableAgain, Holders, Barred, CloseStep
  <2> QED BY <2>1, <2>2, <2>3 DEF LeaseInv
<1>31. ASSUME CloseLeaves PROVE LeaseInv'
  <2>1. Holders'
    BY <1>31 DEF CloseLeaves, Goes, caller, worker, far, lease, ClientTyped, CallsTyped, LeaseTyped, LeaseInv, Connecting, Usable, ClosedAgain, UsableAgain, Holders, CloseStep
  <2>2. Owned'
    BY <1>31 DEF CloseLeaves, Goes, caller, worker, far, lease, ClientTyped, CallsTyped, LeaseTyped, LeaseInv, Connecting, Usable, ClosedAgain, UsableAgain, Holders, Owned, Kept, CloseStep
  <2>3. Barred'
    BY <1>31 DEF CloseLeaves, Goes, caller, worker, far, lease, ClientTyped, CallsTyped, LeaseTyped, LeaseInv, Connecting, Usable, ClosedAgain, UsableAgain, Holders, Barred, CloseStep
  <2> QED BY <2>1, <2>2, <2>3 DEF LeaseInv
<1>32. ASSUME ShutdownTakes PROVE LeaseInv'
  <2>1. retiring'[Closer] = retiring[Closer]
    BY <1>32 DEF ShutdownTakes, Goes, ClientTyped, LeaseTyped
  <2> QED BY <1>32, <2>1, DeathKeepsLease DEF ShutdownTakes, Kept, caller
<1>33. ASSUME ShutdownUnlocks PROVE LeaseInv'
  <2>1. retiring'[Closer] = retiring[Closer]
    BY <1>33 DEF ShutdownUnlocks, Goes, ClientTyped, LeaseTyped
  <2> QED BY <1>33, <2>1, DeathKeepsLease DEF ShutdownUnlocks, Kept, caller
<1>34. ASSUME ShutdownClears PROVE LeaseInv'
  <2>1. retiring'[Closer] = retiring[Closer]
    BY <1>34 DEF ShutdownClears, Goes, ClientTyped, LeaseTyped
  <2>2. /\ slot' = None /\ stray' = stray \union ({slot} \ {None})
        /\ UNCHANGED <<alive, pc, at, connecting, closed>>
    BY <1>34 DEF ShutdownClears, caller
  <2>3. None \notin alive
    BY DEF ClientTyped, LeaseTyped
  <2>4. Kept' \subseteq Kept /\ (Kept \subseteq {slot} => Kept' = {})
    BY <2>2, <2>3 DEF Kept
  <2> QED BY <2>1, <2>2, <2>4 DEF LeaseInv, Holders, Owned, Barred, CloseStep
<1>35. ASSUME NEW t \in {Closer, Stopper}, RetireAsks(t) PROVE LeaseInv'
  <2>1. CASE t = Stopper
    <3>1. retiring'[Closer] = retiring[Closer]
      BY <1>35, <2>1 DEF RetireAsks, Goes, ClientTyped, LeaseTyped
    <3> QED BY <1>35, <3>1, DeathKeepsLease DEF RetireAsks, Terminates, Kept, caller, lease
  <2>2. CASE t = Closer
    <3>1. Holders'
      BY <1>35, <2>2 DEF RetireAsks, Goes, Terminates, lease, caller, ClientTyped, LeaseTyped, LeaseInv, Holders, Kept, CloseStep
    <3>2. Owned'
      BY <1>35, <2>2 DEF RetireAsks, Goes, Terminates, lease, caller, ClientTyped, LeaseTyped, LeaseInv, Owned, Kept, CloseStep
    <3>3. Barred'
      BY <1>35, <2>2 DEF RetireAsks, Goes, Terminates, lease, caller, ClientTyped, LeaseTyped, LeaseInv, Barred, Kept, CloseStep
    <3> QED BY <3>1, <3>2, <3>3 DEF LeaseInv
  <2> QED BY <2>1, <2>2
<1>36. ASSUME NEW t \in {Closer, Stopper}, RetireTerminates(t) PROVE LeaseInv'
  <2>1. CASE t = Stopper
    <3>1. retiring'[Closer] = retiring[Closer]
      BY <1>36, <2>1 DEF RetireTerminates, Goes, ClientTyped, LeaseTyped
    <3> QED BY <1>36, <3>1, DeathKeepsLease DEF RetireTerminates, Terminates, Kept, caller, lease
  <2>2. CASE t = Closer
    <3>1. Holders'
      BY <1>36, <2>2 DEF RetireTerminates, Goes, Terminates, lease, caller, ClientTyped, LeaseTyped, LeaseInv, Holders, Kept, CloseStep
    <3>2. Owned'
      BY <1>36, <2>2 DEF RetireTerminates, Goes, Terminates, lease, caller, ClientTyped, LeaseTyped, LeaseInv, Owned, Kept, CloseStep
    <3>3. Barred'
      BY <1>36, <2>2 DEF RetireTerminates, Goes, Terminates, lease, caller, ClientTyped, LeaseTyped, LeaseInv, Barred, Kept, CloseStep
    <3> QED BY <3>1, <3>2, <3>3 DEF LeaseInv
  <2> QED BY <2>1, <2>2
<1>37. ASSUME NEW t \in {Closer, Stopper}, RetireReaped(t) PROVE LeaseInv'
  <2>1. CASE t = Stopper
    <3>1. retiring'[Closer] = retiring[Closer]
      BY <1>37, <2>1 DEF RetireReaped, Goes, ClientTyped, LeaseTyped
    <3> QED BY <1>37, <3>1, DeathKeepsLease DEF RetireReaped, Terminates, Kept, caller, lease
  <2>2. CASE t = Closer
    <3>1. Holders'
      BY <1>37, <2>2 DEF RetireReaped, Goes, Terminates, lease, caller, ClientTyped, LeaseTyped, LeaseInv, Holders, Kept, CloseStep
    <3>2. Owned'
      BY <1>37, <2>2 DEF RetireReaped, Goes, Terminates, lease, caller, ClientTyped, LeaseTyped, LeaseInv, Owned, Kept, CloseStep
    <3>3. Barred'
      BY <1>37, <2>2 DEF RetireReaped, Goes, Terminates, lease, caller, ClientTyped, LeaseTyped, LeaseInv, Barred, Kept, CloseStep
    <3> QED BY <3>1, <3>2, <3>3 DEF LeaseInv
  <2> QED BY <2>1, <2>2
<1>38. ASSUME NEW k \in Callers, Greeted(k) PROVE LeaseInv'
  <2>1. Holders'
    BY <1>38 DEF Greeted, Steps, lease, ClientTyped, CallsTyped, LeaseTyped, LeaseInv, Connecting, Holders, CloseStep
  <2>2. Owned'
    BY <1>38 DEF Greeted, Steps, lease, ClientTyped, CallsTyped, LeaseTyped, LeaseInv, Connecting, Holders, Owned, Kept, CloseStep
  <2>3. Barred'
    BY <1>38 DEF Greeted, Steps, lease, ClientTyped, CallsTyped, LeaseTyped, LeaseInv, Connecting, Holders, Barred, CloseStep
  <2> QED BY <2>1, <2>2, <2>3 DEF LeaseInv
<1>39. ASSUME NEW k \in Callers, HandshakeFails(k) PROVE LeaseInv'
  <2>1. Holders'
    BY <1>39 DEF HandshakeFails, Returns, ClientTyped, CallsTyped, LeaseTyped, LeaseInv, Connecting, Holders, CloseStep
  <2>2. Owned'
    <3>1. Kept \subseteq {at[k]}
      BY <1>39 DEF HandshakeFails, LeaseInv, Owned
    <3>2. Kept' = {}
      BY <1>39, <3>1 DEF HandshakeFails, Kept
    <3> QED BY <3>2 DEF Owned
  <2>3. Barred'
    BY <1>39 DEF HandshakeFails, Returns, ClientTyped, CallsTyped, LeaseTyped, LeaseInv, Connecting, Holders, Barred, CloseStep
  <2> QED BY <2>1, <2>2, <2>3 DEF LeaseInv
<1>40. ASSUME NEW c \in Conns, RouteWelcome(c) PROVE LeaseInv'
  BY <1>40, DeathKeepsLease DEF Kept, RouteWelcome, caller, lease
<1> QED
  BY <1>1, <1>2, <1>3, <1>4, <1>5, <1>6, <1>7, <1>8, <1>9, <1>10, <1>11, <1>12, <1>13,
     <1>14, <1>15, <1>16, <1>17, <1>18, <1>19, <1>20, <1>21, <1>22, <1>23, <1>24, <1>25, <1>26,
     <1>27, <1>28, <1>29, <1>30, <1>31, <1>32, <1>33, <1>34, <1>35, <1>36, <1>37, <1>38, <1>39, <1>40
  DEF Next, CallerRuns, ReaderRuns, TerminateRuns, CloseRuns, StopRuns, RetireRuns, WorkerRuns

-----------------------------------------------------------------------------
(* The mutations.                                                          *)

(* A worker that forgets requests, and nothing else about the mutations.   *)
LEMMA ForgettingKeepsAuthority ==
  ASSUME AuthorityInv, \A c \in Conns : requests'[c] \subseteq requests[c],
         UNCHANGED <<caller, applied>>
  PROVE  AuthorityInv'
BY DEF AuthorityInv, MutationInv, Sent, Submitted, caller

(* What a step of another caller does to the invariant of j: nothing.      *)
LEMMA OthersKeepAuthority ==
  ASSUME NEW j \in Callers, MutationInv(j),
         pc'[j] = pc[j], result'[j] = result[j], at'[j] = at[j], prepared'[j] = prepared[j],
         applied'[j] = applied[j],
         \A c \in Conns : [of |-> j, body |-> "apply"] \in requests'[c]
                           <=> [of |-> j, body |-> "apply"] \in requests[c]
  PROVE  MutationInv(j)'
BY DEF MutationInv, Sent, Submitted

LEMMA AuthorityStep == ASSUME ClientTyped, AuthorityInv, Next PROVE AuthorityInv'
<1>1. ASSUME NEW k \in Callers, Connect(k) PROVE AuthorityInv'
  <2>1. ASSUME NEW j \in Callers, j # k PROVE MutationInv(j)'
    BY <1>1, <2>1, OthersKeepAuthority
    DEF Connect, Returns, Steps, Takes, caller, worker, far, ClientTyped, CallsTyped, WorkTyped, AuthorityInv
  <2>2. MutationInv(k)'
    BY <1>1 DEF Connect, Returns, Steps, Takes, worker, far, ClientTyped, CallsTyped, WorkTyped, AuthorityInv, MutationInv, Sent, Submitted
  <2> QED BY <2>1, <2>2 DEF AuthorityInv
<1>2. ASSUME NEW k \in Callers, Serialize(k) PROVE AuthorityInv'
  <2>1. ASSUME NEW j \in Callers, j # k PROVE MutationInv(j)'
    BY <1>2, <2>1, OthersKeepAuthority
    DEF Serialize, Returns, Steps, Takes, caller, worker, far, ClientTyped, CallsTyped, WorkTyped, AuthorityInv
  <2>2. MutationInv(k)'
    BY <1>2 DEF Serialize, Returns, Steps, Takes, worker, far, ClientTyped, CallsTyped, WorkTyped, AuthorityInv, MutationInv, Sent, Submitted
  <2> QED BY <2>1, <2>2 DEF AuthorityInv
<1>3. ASSUME NEW k \in Callers, Recheck(k) PROVE AuthorityInv'
  <2>1. ASSUME NEW j \in Callers, j # k PROVE MutationInv(j)'
    BY <1>3, <2>1, OthersKeepAuthority
    DEF Recheck, Returns, Steps, Takes, caller, worker, far, ClientTyped, CallsTyped, WorkTyped, AuthorityInv
  <2>2. MutationInv(k)'
    BY <1>3 DEF Recheck, Returns, Steps, Takes, worker, far, ClientTyped, CallsTyped, WorkTyped, AuthorityInv, MutationInv, Sent, Submitted
  <2> QED BY <2>1, <2>2 DEF AuthorityInv
<1>4. ASSUME NEW k \in Callers, Spawn(k) PROVE AuthorityInv'
  <2>1. ASSUME NEW j \in Callers, j # k PROVE MutationInv(j)'
    BY <1>4, <2>1, OthersKeepAuthority
    DEF Spawn, Returns, Steps, Takes, caller, worker, far, ClientTyped, CallsTyped, WorkTyped, AuthorityInv
  <2>2. MutationInv(k)'
    BY <1>4 DEF Spawn, Returns, Steps, Takes, worker, far, ClientTyped, CallsTyped, WorkTyped, AuthorityInv, MutationInv, Sent, Submitted
  <2> QED BY <2>1, <2>2 DEF AuthorityInv
<1>5. ASSUME NEW k \in Callers, SpawnFails(k) PROVE AuthorityInv'
  <2>1. ASSUME NEW j \in Callers, j # k PROVE MutationInv(j)'
    BY <1>5, <2>1, OthersKeepAuthority
    DEF SpawnFails, Returns, Steps, Takes, caller, worker, far, ClientTyped, CallsTyped, WorkTyped, AuthorityInv
  <2>2. MutationInv(k)'
    BY <1>5 DEF SpawnFails, Returns, Steps, Takes, worker, far, ClientTyped, CallsTyped, WorkTyped, AuthorityInv, MutationInv, Sent, Submitted
  <2> QED BY <2>1, <2>2 DEF AuthorityInv
<1>6. ASSUME NEW k \in Callers, Install(k) PROVE AuthorityInv'
  <2>1. ASSUME NEW j \in Callers, j # k PROVE MutationInv(j)'
    BY <1>6, <2>1, OthersKeepAuthority
    DEF Install, Returns, Steps, Takes, caller, worker, far, ClientTyped, CallsTyped, WorkTyped, AuthorityInv
  <2>2. MutationInv(k)'
    BY <1>6 DEF Install, Returns, Steps, Takes, worker, far, ClientTyped, CallsTyped, WorkTyped, AuthorityInv, MutationInv, Sent, Submitted
  <2> QED BY <2>1, <2>2 DEF AuthorityInv
<1>7. ASSUME NEW k \in Callers, Admit(k) PROVE AuthorityInv'
  <2>1. ASSUME NEW j \in Callers, j # k PROVE MutationInv(j)'
    BY <1>7, <2>1, OthersKeepAuthority
    DEF Admit, Returns, Steps, Takes, caller, worker, far, ClientTyped, CallsTyped, WorkTyped, AuthorityInv
  <2>2. MutationInv(k)'
    BY <1>7 DEF Admit, Returns, Steps, Takes, worker, far, ClientTyped, CallsTyped, WorkTyped, AuthorityInv, MutationInv, Sent, Submitted
  <2> QED BY <2>1, <2>2 DEF AuthorityInv
<1>8. ASSUME NEW k \in Callers, Insert(k) PROVE AuthorityInv'
  <2>1. ASSUME NEW j \in Callers, j # k PROVE MutationInv(j)'
    BY <1>8, <2>1, OthersKeepAuthority
    DEF Insert, Returns, Steps, Takes, caller, worker, far, ClientTyped, CallsTyped, WorkTyped, AuthorityInv
  <2>2. MutationInv(k)'
    BY <1>8 DEF Insert, Returns, Steps, Takes, worker, far, ClientTyped, CallsTyped, WorkTyped, AuthorityInv, MutationInv, Sent, Submitted
  <2> QED BY <2>1, <2>2 DEF AuthorityInv
<1>9. ASSUME NEW k \in Callers, Write(k) PROVE AuthorityInv'
  <2>1. \/ requests' = requests
        \/ requests' = [requests EXCEPT ![at[k]] = @ \union {Request(k)}] /\ pc'[k] = "wait"
    BY <1>9 DEF Write, Steps, ClientTyped, CallsTyped
  <2>2. UNCHANGED <<at, prepared, applied>>
    BY <1>9 DEF Write
  <2>3. ASSUME NEW j \in Callers, j # k PROVE MutationInv(j)'
    <3>1. Request(k) # [of |-> j, body |-> "apply"]
      BY <2>3 DEF Request
    <3>2. pc'[j] = pc[j] /\ result'[j] = result[j]
      BY <1>9, <2>3 DEF Write, Steps, Returns, ClientTyped, CallsTyped
    <3> QED
      BY <2>1, <2>2, <2>3, <3>1, <3>2, OthersKeepAuthority
      DEF AuthorityInv, ClientTyped, WorkTyped
  <2>4. applied[k] = <<>> /\ ~Sent(k) /\ result[k] = "none"
    BY <1>9 DEF Write, AuthorityInv, MutationInv, Submitted
  <2>5. Sent(k)' => prepared[k] # None
    <3>1. Request(k) = [of |-> k, body |-> "apply"] => prepared[k] # None
      BY ClientAssumption DEF Request
    <3>2. ASSUME NEW c \in Conns, [of |-> k, body |-> "apply"] \in requests'[c],
                 [of |-> k, body |-> "apply"] \notin requests[c]
          PROVE  [of |-> k, body |-> "apply"] = Request(k)
      BY <2>1, <3>2 DEF ClientTyped, WorkTyped
    <3> QED BY <2>4, <3>1, <3>2 DEF Sent
  <2>6. \A c \in Conns : [of |-> k, body |-> "apply"] \in requests'[c] => c = at[k]
    BY <2>1, <2>4 DEF Sent, ClientTyped, WorkTyped
  <2>7. \/ pc'[k] = "wait" /\ result'[k] = "none"
        \/ pc'[k] = "done" /\ result'[k] = "lost" /\ requests' = requests
    BY <1>9, <2>4 DEF Write, Steps, Returns, ClientTyped, CallsTyped
  <2>8. MutationInv(k)'
    BY <1>9, <2>2, <2>4, <2>5, <2>6, <2>7 DEF Write, AuthorityInv, MutationInv, Sent, Submitted
  <2> QED BY <2>3, <2>8 DEF AuthorityInv
<1>10. ASSUME NEW k \in Callers, Wait(k) PROVE AuthorityInv'
  <2>1. ASSUME NEW j \in Callers, j # k PROVE MutationInv(j)'
    BY <1>10, <2>1, OthersKeepAuthority
    DEF Wait, Returns, Steps, Takes, caller, worker, far, ClientTyped, CallsTyped, WorkTyped, AuthorityInv
  <2>2. MutationInv(k)'
    BY <1>10 DEF Wait, Returns, Steps, Takes, worker, far, ClientTyped, CallsTyped, WorkTyped, AuthorityInv, MutationInv, Sent, Submitted
  <2> QED BY <2>1, <2>2 DEF AuthorityInv
<1>11. ASSUME NEW k \in Callers, Apply(k) PROVE AuthorityInv'
  <2>1. ASSUME NEW j \in Callers, j # k PROVE MutationInv(j)'
    BY <1>11, <2>1, OthersKeepAuthority
    DEF Apply, Returns, Steps, Takes, caller, worker, far, ClientTyped, CallsTyped, WorkTyped, AuthorityInv
  <2>2. MutationInv(k)'
    BY <1>11 DEF Apply, Returns, Steps, Takes, Usable, SameSession, worker, far, ClientTyped, CallsTyped, WorkTyped, AuthorityInv, MutationInv, Sent, Submitted
  <2> QED BY <2>1, <2>2 DEF AuthorityInv
<1>12. ASSUME NEW k \in Callers, ReadEnds(k) PROVE AuthorityInv'
  <2>1. ASSUME NEW j \in Callers, j # k PROVE MutationInv(j)'
    BY <1>12, <2>1, OthersKeepAuthority
    DEF ReadEnds, Returns, Steps, Takes, caller, worker, far, ClientTyped, CallsTyped, WorkTyped, AuthorityInv
  <2>2. MutationInv(k)'
    BY <1>12 DEF ReadEnds, Returns, Steps, Takes, worker, far, ClientTyped, CallsTyped, WorkTyped, AuthorityInv, MutationInv, Sent, Submitted
  <2> QED BY <2>1, <2>2 DEF AuthorityInv
<1>13. ASSUME NEW k \in Callers, WaitExit(k) PROVE AuthorityInv'
  <2>1. ASSUME NEW j \in Callers, j # k PROVE MutationInv(j)'
    BY <1>13, <2>1, OthersKeepAuthority
    DEF WaitExit, Returns, Steps, Takes, caller, worker, far, ClientTyped, CallsTyped, WorkTyped, AuthorityInv
  <2>2. MutationInv(k)'
    BY <1>13 DEF WaitExit, Returns, Steps, Takes, worker, far, ClientTyped, CallsTyped, WorkTyped, AuthorityInv, MutationInv, Sent, Submitted
  <2> QED BY <2>1, <2>2 DEF AuthorityInv
<1>14. ASSUME NEW c \in Conns, RouteResult(c) PROVE AuthorityInv'
  BY <1>14, ForgettingKeepsAuthority DEF RouteResult, worker, far
<1>15. ASSUME NEW c \in Conns, DeliverReply(c) PROVE AuthorityInv'
  BY <1>15, ForgettingKeepsAuthority DEF DeliverReply, worker, far, caller, AuthorityInv, MutationInv, Sent, Submitted
<1>16. ASSUME NEW c \in Conns, RouteLast(c) PROVE AuthorityInv'
  BY <1>16, ForgettingKeepsAuthority DEF RouteLast, worker, far, caller, AuthorityInv, MutationInv, Sent, Submitted
<1>17. ASSUME NEW c \in Conns, RouteExit(c) PROVE AuthorityInv'
  BY <1>17, ForgettingKeepsAuthority DEF RouteExit, worker, far, caller, AuthorityInv, MutationInv, Sent, Submitted
<1>18. ASSUME NEW c \in Conns, StreamCloses(c) PROVE AuthorityInv'
  BY <1>18, ForgettingKeepsAuthority DEF StreamCloses, worker, far
<1>19. ASSUME NEW c \in Conns, DrainPending(c) PROVE AuthorityInv'
  BY <1>19, ForgettingKeepsAuthority DEF DrainPending, worker, far, caller, AuthorityInv, MutationInv, Sent, Submitted
<1>20. ASSUME NEW c \in Conns, DrainStreams(c) PROVE AuthorityInv'
  BY <1>20, ForgettingKeepsAuthority DEF DrainStreams, worker, far, caller, AuthorityInv, MutationInv, Sent, Submitted
<1>21. ASSUME NEW c \in Conns, ReapChild(c) PROVE AuthorityInv'
  BY <1>21, ForgettingKeepsAuthority DEF ReapChild, Gone, ClientTyped, WorkTyped
<1>22. ASSUME NEW c \in Conns, Serve(c) PROVE AuthorityInv'
  <2> SUFFICES ASSUME NEW k \in Callers PROVE MutationInv(k)'
    BY DEF AuthorityInv
  <2>1. PICK r \in requests[c] : Serve(c)!1!(r)
    BY <1>22 DEF Serve
  <2>2. r \in [of : Callers, body : Bodies]
    BY <2>1 DEF ClientTyped, WorkTyped
  <2>3. requests' = [requests EXCEPT ![c] = @ \ {r}] /\ UNCHANGED caller
    BY <2>1 DEF Publishes
  <2>4. CASE r = [of |-> k, body |-> "apply"]
    <3>1. prepared[k] = c /\ c # None /\ applied[k] = <<>> /\ Submitted(k)
      BY <2>1, <2>4 DEF AuthorityInv, MutationInv, Sent
    <3>2. applied'[k] = <<c>>
      BY <2>1, <2>4, <3>1 DEF ClientTyped, WorkTyped
    <3>3. ~Sent(k)'
      BY <2>3, <2>4, <3>1 DEF AuthorityInv, MutationInv, Sent, ClientTyped, WorkTyped
    <3> QED
      BY <2>3, <3>1, <3>2, <3>3 DEF AuthorityInv, MutationInv, Sent, Submitted, caller
  <2>5. CASE r # [of |-> k, body |-> "apply"]
    <3>1. applied'[k] = applied[k]
      BY <2>1, <2>2, <2>5 DEF ClientTyped, WorkTyped
    <3> QED
      BY <2>3, <2>5, <3>1, OthersKeepAuthority DEF AuthorityInv, caller, ClientTyped, WorkTyped
  <2> QED BY <2>4, <2>5
<1>23. ASSUME NEW c \in Conns, Finish(c) PROVE AuthorityInv'
  BY <1>23, ForgettingKeepsAuthority DEF Finish, Publishes, worker, far
<1>24. ASSUME NEW c \in Conns, Bye(c) PROVE AuthorityInv'
  BY <1>24, ForgettingKeepsAuthority DEF Bye, Publishes, worker, far
<1>25. ASSUME NEW c \in Conns, Leaves(c) PROVE AuthorityInv'
  BY <1>25, ForgettingKeepsAuthority DEF Leaves, Gone, Publishes, ClientTyped, WorkTyped
<1>26. ASSUME NEW c \in Conns, Crash(c) PROVE AuthorityInv'
  BY <1>26, ForgettingKeepsAuthority DEF Crash, Gone, Publishes, ClientTyped, WorkTyped
<1>27. ASSUME NEW c \in Conns, Corrupt(c) PROVE AuthorityInv'
  BY <1>27, ForgettingKeepsAuthority DEF Corrupt, Publishes, worker, far
<1>28. ASSUME CloseFlags PROVE AuthorityInv'
  BY <1>28, ForgettingKeepsAuthority DEF CloseFlags, worker, far
<1>29. ASSUME CloseLocks PROVE AuthorityInv'
  BY <1>29, ForgettingKeepsAuthority DEF CloseLocks, worker, far
<1>30. ASSUME CloseTakes PROVE AuthorityInv'
  BY <1>30, ForgettingKeepsAuthority DEF CloseTakes, worker, far
<1>31. ASSUME CloseLeaves PROVE AuthorityInv'
  BY <1>31, ForgettingKeepsAuthority DEF CloseLeaves, worker, far
<1>32. ASSUME ShutdownTakes PROVE AuthorityInv'
  BY <1>32, ForgettingKeepsAuthority DEF ShutdownTakes, worker, far
<1>33. ASSUME ShutdownUnlocks PROVE AuthorityInv'
  BY <1>33, ForgettingKeepsAuthority DEF ShutdownUnlocks, worker, far
<1>34. ASSUME ShutdownClears PROVE AuthorityInv'
  BY <1>34, ForgettingKeepsAuthority DEF ShutdownClears, worker, far
<1>35. ASSUME NEW t \in {Closer, Stopper}, RetireAsks(t) PROVE AuthorityInv'
  BY <1>35, ForgettingKeepsAuthority DEF RetireAsks, worker, far
<1>36. ASSUME NEW t \in {Closer, Stopper}, RetireTerminates(t) PROVE AuthorityInv'
  BY <1>36, ForgettingKeepsAuthority DEF RetireTerminates, worker, far
<1>37. ASSUME NEW t \in {Closer, Stopper}, RetireReaped(t) PROVE AuthorityInv'
  BY <1>37, ForgettingKeepsAuthority DEF RetireReaped, worker, far
<1>38. ASSUME NEW k \in Callers, Greeted(k) PROVE AuthorityInv'
  <2>1. ASSUME NEW j \in Callers, j # k PROVE MutationInv(j)'
    BY <1>38, <2>1, OthersKeepAuthority
    DEF Greeted, Steps, worker, far, ClientTyped, CallsTyped, AuthorityInv
  <2>2. MutationInv(k)'
    BY <1>38 DEF Greeted, Steps, worker, far, ClientTyped, CallsTyped, AuthorityInv, MutationInv, Sent, Submitted
  <2> QED BY <2>1, <2>2 DEF AuthorityInv
<1>39. ASSUME NEW k \in Callers, HandshakeFails(k) PROVE AuthorityInv'
  <2>1. ASSUME NEW j \in Callers, j # k PROVE MutationInv(j)'
    BY <1>39, <2>1, OthersKeepAuthority
    DEF HandshakeFails, Returns, worker, far, ClientTyped, CallsTyped, AuthorityInv
  <2>2. MutationInv(k)'
    BY <1>39 DEF HandshakeFails, Returns, worker, far, ClientTyped, CallsTyped, AuthorityInv, MutationInv, Sent, Submitted
  <2> QED BY <2>1, <2>2 DEF AuthorityInv
<1>40. ASSUME NEW c \in Conns, RouteWelcome(c) PROVE AuthorityInv'
  BY <1>40, ForgettingKeepsAuthority DEF RouteWelcome, far
<1> QED
  BY <1>1, <1>2, <1>3, <1>4, <1>5, <1>6, <1>7, <1>8, <1>9, <1>10, <1>11, <1>12, <1>13,
     <1>14, <1>15, <1>16, <1>17, <1>18, <1>19, <1>20, <1>21, <1>22, <1>23, <1>24, <1>25, <1>26,
     <1>27, <1>28, <1>29, <1>30, <1>31, <1>32, <1>33, <1>34, <1>35, <1>36, <1>37, <1>38, <1>39, <1>40
  DEF Next, CallerRuns, ReaderRuns, TerminateRuns, CloseRuns, StopRuns, RetireRuns, WorkerRuns

-----------------------------------------------------------------------------
LEMMA InitHolds == ASSUME Init PROVE ClientTyped /\ LeaseInv /\ AuthorityInv
<1>1. ClientTyped
  BY ClientAssumption DEF Init, ClientTyped, CallsTyped, LeaseTyped, WorkTyped
<1>2. LeaseInv
  BY Threads
  DEF Init, LeaseInv, Holders, Owned, Kept, Barred, CloseStep, Connecting
<1>3. AuthorityInv
  BY DEF Init, AuthorityInv, MutationInv, Sent, Submitted
<1> QED BY <1>1, <1>2, <1>3

LEMMA StutterTyped == ASSUME ClientTyped, UNCHANGED vars PROVE ClientTyped'
BY DEF vars, caller, lease, worker, far, ClientTyped, CallsTyped, LeaseTyped, WorkTyped

LEMMA LeaseHolds == Spec => [](ClientTyped /\ LeaseInv)
<1>1. Init => ClientTyped /\ LeaseInv
  BY InitHolds
<1>2. ClientTyped /\ LeaseInv /\ [Next]_vars => ClientTyped' /\ LeaseInv'
  BY TypedStep, LeaseStep, StutterTyped, DeathKeepsLease DEF Kept, vars, caller, lease
<1> QED BY <1>1, <1>2, PTL DEF Spec

(* Worker::connection, close and shutdown: whoever connects, whatever      *)
(* handshake fails and whenever the lease is closed or shut down, at most  *)
(* one connection is alive beside those the lease has lost: of failed      *)
(* handshakes (Client_handshake) and of a slot that shutdown cleared under *)
(* a new connection (Client_shutdown).                                     *)
THEOREM LeaseOwnsOneWorker == Spec => []OneLiveWorker
<1>1. ClientTyped /\ LeaseInv => OneLiveWorker
  <2> SUFFICES ASSUME ClientTyped, LeaseInv PROVE Cardinality(Kept) <= 1
    BY DEF OneLiveWorker, Kept
  <2>1. PICK x \in Nat : Kept \subseteq {x}
    <3>1. CASE \E k \in Callers : pc[k] \in {"hello", "install"}
      BY <3>1 DEF LeaseInv, Owned, ClientTyped, CallsTyped
    <3>2. CASE ~\E k \in Callers : pc[k] \in {"hello", "install"}
      <4>1. CloseStep \in RetireSteps
        BY DEF ClientTyped, LeaseTyped, CloseStep
      <4>2. CloseStep # "clear"
        BY DEF LeaseInv, Barred
      <4>3. retiring[Closer].conn \in Nat /\ slot \in Nat
        BY DEF ClientTyped, LeaseTyped
      <4>4. CASE CloseStep \in {"ask", "bye"}
        BY <4>3, <4>4 DEF LeaseInv, Owned
      <4>5. CASE CloseStep \in {"reap", "leave", "done"}
        BY <4>3, <4>5 DEF LeaseInv, Owned
      <4>6. CASE CloseStep \in {"idle", "lock", "take"}
        BY <3>2, <4>3, <4>6 DEF LeaseInv, Owned
      <4> QED BY <4>1, <4>2, <4>4, <4>5, <4>6
    <3> QED BY <3>1, <3>2
  <2>2. Kept = {} \/ Kept = {x}
    BY <2>1
  <2>3. Cardinality({}) = 0 /\ Cardinality({x}) = 1
    BY FS_EmptySet, FS_Singleton
  <2> QED BY <2>2, <2>3
<1> QED BY <1>1, LeaseHolds, PTL

(* Worker::close: once it has returned, no connection is alive beside      *)
(* those the lease has lost, and no attempt to connect that it raced can   *)
(* leave one.                                                              *)
THEOREM CloseIsFinal == Spec => []ClosedLeavesNone
<1>1. LeaseInv => ClosedLeavesNone
  BY DEF LeaseInv, Owned, Kept, CloseStep, ClosedLeavesNone
<1> QED BY <1>1, LeaseHolds, PTL

(* Worker::apply: a prepared mutation runs at most once, in the session    *)
(* that prepared it, and never when its caller was told it was refused.    *)
THEOREM MutationsStay == Spec => []MutationsNotReplayed
<1>1. Init => ClientTyped /\ AuthorityInv
  BY InitHolds
<1>2. ClientTyped /\ AuthorityInv /\ [Next]_vars => ClientTyped' /\ AuthorityInv'
  BY TypedStep, AuthorityStep, StutterTyped, ForgettingKeepsAuthority DEF vars, worker, far
<1>3. AuthorityInv => MutationsNotReplayed
  <2> SUFFICES ASSUME AuthorityInv, NEW k \in Callers
               PROVE  /\ Len(applied[k]) <= 1
                      /\ \A i \in DOMAIN applied[k] : applied[k][i] = prepared[k]
                      /\ result[k] \in {"refused", "closed"} => applied[k] = <<>>
    BY DEF MutationsNotReplayed
  <2>1. applied[k] = <<>> \/ applied[k] = <<prepared[k]>>
    BY DEF AuthorityInv, MutationInv
  <2>2. result[k] \in {"refused", "closed"} => applied[k] = <<>>
    BY DEF AuthorityInv, MutationInv, Submitted
  <2>3. Len(applied[k]) <= 1 /\ \A i \in DOMAIN applied[k] : applied[k][i] = prepared[k]
    <3>1. ASSUME NEW s, s = <<>> PROVE Len(s) = 0 /\ DOMAIN s = {}
      BY <3>1
    <3>2. ASSUME NEW x, NEW s, s = <<x>> PROVE Len(s) = 1 /\ DOMAIN s = {1} /\ s[1] = x
      BY <3>2
    <3>3. CASE applied[k] = <<>>
      BY <3>1, <3>3
    <3>4. CASE applied[k] = <<prepared[k]>>
      BY <3>2, <3>4
    <3> QED BY <2>1, <3>3, <3>4
  <2> QED BY <2>2, <2>3
<1> QED BY <1>1, <1>2, <1>3, PTL DEF Spec

-----------------------------------------------------------------------------
(* The reply of a call.  It passes from the pending registry to the reader *)
(* (or to the thread that drains the registry) and into the channel, and a *)
(* caller registers again only after it has taken the last one.            *)
RepliesTyped ==
  /\ pending \in [Conns -> SUBSET Callers] /\ reader \in [Conns -> Callers \union {"read", "ended", Free}]
  /\ answer \in [Callers -> {"none", "lost", "outcome"}]
ReplyOf(k) ==
  /\ pc[k] \notin {"write", "wait", "done"} => answer[k] = "none"
  /\ \A c \in Conns : k \in pending[c] =>
       at[k] = c /\ pc[k] \in {"write", "wait"} /\ answer[k] = "none" /\ reader[c] # k
  /\ \A c \in Conns : reader[c] = k =>
       at[k] = c /\ pc[k] \in {"write", "wait", "done"} /\ answer[k] = "none"
ReplyInv == RepliesTyped /\ \A k \in Callers : ReplyOf(k)

(* Steps that leave replies, callers and their connections as they are.    *)
replyVars == <<pending, reader, answer, pc, at>>
LEMMA RepliesElsewhere == ASSUME ReplyInv, UNCHANGED replyVars PROVE ReplyInv'
BY DEF ReplyInv, RepliesTyped, ReplyOf, replyVars

(* A caller that is between two calls has no reply anywhere.               *)
LEMMA CallKeepsReplies ==
  ASSUME ClientTyped, ReplyInv, NEW k \in Callers, pc[k] \notin {"write", "wait", "done"},
         \A j \in Callers \ {k} : pc'[j] = pc[j] /\ at'[j] = at[j],
         UNCHANGED <<pending, answer>>, RepliesTyped',
         \A c \in Conns : reader'[c] \in Callers => reader'[c] = reader[c]
  PROVE  ReplyInv'
<1>1. answer[k] = "none" /\ \A c \in Conns : k \notin pending[c] /\ reader[c] # k
  BY DEF ReplyInv, ReplyOf
<1>2. ASSUME NEW j \in Callers PROVE ReplyOf(j)'
  <2>1. ReplyOf(j)
    BY DEF ReplyInv
  <2>2. \A c \in Conns : reader'[c] = j => reader[c] = j
    OBVIOUS
  <2>3. CASE j = k
    BY <1>1, <2>2, <2>3 DEF ReplyOf
  <2>4. CASE j # k
    BY <2>1, <2>2, <2>4 DEF ReplyOf, RepliesTyped, ReplyInv
  <2> QED BY <2>3, <2>4
<1> QED BY <1>2 DEF ReplyInv

(* The reader moves on without a reply in its hands.                       *)
LEMMA ReaderKeepsReplies ==
  ASSUME ReplyInv, NEW c \in Conns, NEW where \in {"read", "ended"},
         reader' = [reader EXCEPT ![c] = where], UNCHANGED <<pending, answer, pc, at>>
  PROVE  ReplyInv'
<1>1. where \notin Callers
  BY ClientThreadAssumption
<1> QED BY <1>1 DEF ReplyInv, RepliesTyped, ReplyOf

LEMMA InsertKeepsReplies ==
  ASSUME ClientTyped, ReplyInv, NEW k \in Callers, Insert(k) PROVE ReplyInv'
<1>1. /\ pc[k] = "insert" /\ UNCHANGED <<reader, answer, at>>
      /\ pc \in [Callers -> CallSteps]
  BY DEF Insert, ClientTyped, CallsTyped
<1>2. answer[k] = "none" /\ \A c \in Conns : k \notin pending[c] /\ reader[c] # k
  BY <1>1 DEF ReplyInv, ReplyOf
<1>3. CASE pending' = pending
  BY <1>1, <1>3, CallKeepsReplies DEF Insert, Steps, Returns, ReplyInv, RepliesTyped
<1>4. CASE pending' = [pending EXCEPT ![at[k]] = @ \union {k}] /\ pc' = [pc EXCEPT ![k] = "write"]
  <2>1. \A c \in Conns : pending'[c] = IF c = at[k] THEN pending[c] \union {k} ELSE pending[c]
    BY <1>4 DEF ReplyInv, RepliesTyped
  <2>2. RepliesTyped'
    BY <1>1, <1>4 DEF ReplyInv, RepliesTyped
  <2>3. ASSUME NEW j \in Callers PROVE ReplyOf(j)'
    <3>1. CASE j = k
      BY <1>1, <1>2, <1>4, <2>1, <3>1 DEF ReplyOf
    <3>2. CASE j # k
      BY <1>1, <1>4, <2>1, <3>2 DEF ReplyInv, ReplyOf
    <3> QED BY <3>1, <3>2
  <2> QED BY <2>2, <2>3 DEF ReplyInv
<1> QED BY <1>3, <1>4 DEF Insert, Steps

LEMMA WriteKeepsReplies ==
  ASSUME ClientTyped, ReplyInv, NEW k \in Callers, Write(k) PROVE ReplyInv'
<1>1. /\ pc[k] = "write" /\ UNCHANGED <<reader, answer, at>>
      /\ pc \in [Callers -> CallSteps]
  BY DEF Write, ClientTyped, CallsTyped
<1>2. CASE pending' = pending /\ pc' = [pc EXCEPT ![k] = "wait"]
  BY <1>1, <1>2 DEF ReplyInv, RepliesTyped, ReplyOf
<1>3. CASE pending' = [pending EXCEPT ![at[k]] = @ \ {k}] /\ pc' = [pc EXCEPT ![k] = "done"]
  <2>1. RepliesTyped'
    BY <1>1, <1>3 DEF ReplyInv, RepliesTyped
  <2>2. \A c \in Conns : pending'[c] = IF c = at[k] THEN pending[c] \ {k} ELSE pending[c]
    BY <1>3 DEF ReplyInv, RepliesTyped
  <2>3. ASSUME NEW j \in Callers PROVE ReplyOf(j)'
    <3>1. CASE j = k
      BY <1>1, <1>3, <2>2, <3>1 DEF ReplyInv, ReplyOf
    <3>2. CASE j # k
      BY <1>1, <1>3, <2>2, <3>2 DEF ReplyInv, ReplyOf
    <3> QED BY <3>1, <3>2
  <2> QED BY <2>1, <2>3 DEF ReplyInv
<1> QED BY <1>2, <1>3 DEF Write, Steps, Returns

LEMMA WaitKeepsReplies ==
  ASSUME ClientTyped, ReplyInv, NEW k \in Callers, Wait(k) PROVE ReplyInv'
<1>1. /\ answer[k] # "none" /\ answer' = [answer EXCEPT ![k] = "none"]
      /\ UNCHANGED <<pending, reader, at>> /\ \A j \in Callers \ {k} : pc'[j] = pc[j]
  BY DEF Wait, Steps, Returns, registry, ClientTyped, CallsTyped
<1>2. \A c \in Conns : k \notin pending[c] /\ reader[c] # k
  BY <1>1 DEF ReplyInv, ReplyOf
<1>3. RepliesTyped'
  BY <1>1 DEF ReplyInv, RepliesTyped
<1>4. ASSUME NEW j \in Callers PROVE ReplyOf(j)'
  <2>1. CASE j = k
    BY <1>1, <1>2, <2>1 DEF ReplyOf, ReplyInv, RepliesTyped
  <2>2. CASE j # k
    BY <1>1, <2>2 DEF ReplyInv, ReplyOf, RepliesTyped
  <2> QED BY <2>1, <2>2
<1> QED BY <1>3, <1>4 DEF ReplyInv

LEMMA DrainKeepsReplies ==
  ASSUME ReplyInv, NEW c \in Conns, DrainPending(c) PROVE ReplyInv'
<1>1. /\ answer' = [k \in Callers |-> IF k \in pending[c] THEN "lost" ELSE answer[k]]
      /\ pending' = [pending EXCEPT ![c] = {}] /\ UNCHANGED <<reader, pc, at>>
  BY DEF DrainPending, Drained
<1>2. RepliesTyped'
  BY <1>1 DEF ReplyInv, RepliesTyped
<1>3. ASSUME NEW j \in Callers PROVE ReplyOf(j)'
  <2>1. ReplyOf(j) /\ \A d \in Conns : pending'[d] = IF d = c THEN {} ELSE pending[d]
    BY <1>1 DEF ReplyInv, RepliesTyped
  <2>2. CASE j \in pending[c]
    BY <1>1, <2>1, <2>2 DEF ReplyOf
  <2>3. CASE j \notin pending[c]
    BY <1>1, <2>1, <2>3 DEF ReplyOf
  <2> QED BY <2>2, <2>3
<1> QED BY <1>2, <1>3 DEF ReplyInv

LEMMA RouteKeepsReplies ==
  ASSUME ReplyInv, NEW c \in Conns, RouteResult(c) PROVE ReplyInv'
<1> DEFINE k == Arrived(c).of
<1>1. UNCHANGED <<answer, pc, at>>
  BY DEF RouteResult, caller
<1>2. CASE k \in pending[c]
  <2>1. /\ k \in Callers /\ ReplyOf(k)
        /\ pending' = [pending EXCEPT ![c] = @ \ {k}] /\ reader' = [reader EXCEPT ![c] = k]
    BY <1>2 DEF RouteResult, Taken, ReplyInv, RepliesTyped
  <2> HIDE DEF k
  <2>2. RepliesTyped'
    BY <1>1, <2>1 DEF ReplyInv, RepliesTyped
  <2>3. /\ \A d \in Conns : pending'[d] = IF d = c THEN pending[d] \ {k} ELSE pending[d]
        /\ \A d \in Conns : reader'[d] = IF d = c THEN k ELSE reader[d]
    BY <2>1 DEF ReplyInv, RepliesTyped
  <2>4. ASSUME NEW j \in Callers PROVE ReplyOf(j)'
    <3>1. ReplyOf(j)
      BY DEF ReplyInv
    <3>2. CASE j = k
      BY <1>1, <1>2, <2>1, <2>3, <3>2 DEF ReplyOf
    <3>3. CASE j # k
      <4>1. \A d \in Conns : (j \in pending'[d] => j \in pending[d])
                             /\ (reader'[d] = j => reader[d] = j)
        BY <2>3, <3>3
      <4> QED BY <1>1, <3>1, <4>1 DEF ReplyOf
    <3> QED BY <3>2, <3>3
  <2> QED BY <2>2, <2>4 DEF ReplyInv
<1>3. CASE k \notin pending[c]
  BY <1>1, <1>3, ReaderKeepsReplies DEF RouteResult, ReaderGoesOn
<1> QED BY <1>2, <1>3

LEMMA DeliveryKeepsReplies ==
  ASSUME ReplyInv, NEW c \in Conns, DeliverReply(c) PROVE ReplyInv'
<1>1. PICK k \in Callers : k = reader[c]
  BY DEF DeliverReply
<1>2. PICK where \in {"read", "ended"} : reader' = [reader EXCEPT ![c] = where]
  BY DEF DeliverReply, ReaderGoesOn
<1>3. answer' = [answer EXCEPT ![k] = "outcome"] /\ UNCHANGED <<pending, pc, at>>
  BY <1>1 DEF DeliverReply
<1>4. where \notin Callers
  BY ClientThreadAssumption
<1>5. ReplyOf(k) /\ RepliesTyped
  BY DEF ReplyInv
<1>6. RepliesTyped'
  BY <1>2, <1>3, <1>5 DEF RepliesTyped
<1>7. \A d \in Conns : reader'[d] = IF d = c THEN where ELSE reader[d]
  BY <1>2, <1>5 DEF RepliesTyped
<1>8. ASSUME NEW j \in Callers PROVE ReplyOf(j)'
  <2>1. ReplyOf(j) /\ answer'[j] = IF j = k THEN "outcome" ELSE answer[j]
    BY <1>3, <1>5 DEF ReplyInv, RepliesTyped
  <2>2. CASE j = k
    <3>1. at[k] = c /\ pc[k] \in {"write", "wait", "done"}
      BY <1>1, <1>5 DEF ReplyOf
    <3>2. \A d \in Conns : k \notin pending[d]
      BY <1>1, <1>5, <3>1 DEF ReplyOf
    <3>3. \A d \in Conns : reader'[d] # k
      BY <1>1, <1>4, <1>5, <1>7, <3>1 DEF ReplyOf
    <3> QED BY <1>3, <2>2, <3>1, <3>2, <3>3 DEF ReplyOf
  <2>3. CASE j # k
    BY <1>3, <1>4, <1>7, <2>1, <2>3 DEF ReplyOf
  <2> QED BY <2>2, <2>3
<1> QED BY <1>6, <1>8 DEF ReplyInv

(* Every step keeps replies single.                                        *)
LEMMA RepliesStep == ASSUME ClientTyped, ReplyInv, Next PROVE ReplyInv'
<1>1. ASSUME NEW k \in Callers, Connect(k) PROVE ReplyInv'
  <2>1. /\ pc[k] \notin {"write", "wait", "done"} /\ UNCHANGED <<pending, answer, reader>>
        /\ \A j \in Callers \ {k} : pc'[j] = pc[j] /\ at'[j] = at[j]
    BY <1>1 DEF Connect, Returns, Takes, Steps, caller, worker, far, lease, registry, ClientTyped, CallsTyped
  <2>2. RepliesTyped'
    BY <2>1 DEF ReplyInv, RepliesTyped
  <2> QED BY <2>1, <2>2, CallKeepsReplies
<1>2. ASSUME NEW k \in Callers, Serialize(k) PROVE ReplyInv'
  <2>1. /\ pc[k] \notin {"write", "wait", "done"} /\ UNCHANGED <<pending, answer, reader>>
        /\ \A j \in Callers \ {k} : pc'[j] = pc[j] /\ at'[j] = at[j]
    BY <1>2 DEF Serialize, Steps, caller, worker, far, lease, registry, ClientTyped, CallsTyped
  <2>2. RepliesTyped'
    BY <2>1 DEF ReplyInv, RepliesTyped
  <2> QED BY <2>1, <2>2, CallKeepsReplies
<1>3. ASSUME NEW k \in Callers, Recheck(k) PROVE ReplyInv'
  <2>1. /\ pc[k] \notin {"write", "wait", "done"} /\ UNCHANGED <<pending, answer, reader>>
        /\ \A j \in Callers \ {k} : pc'[j] = pc[j] /\ at'[j] = at[j]
    BY <1>3 DEF Recheck, Returns, Takes, Steps, caller, worker, far, lease, registry, ClientTyped, CallsTyped
  <2>2. RepliesTyped'
    BY <2>1 DEF ReplyInv, RepliesTyped
  <2> QED BY <2>1, <2>2, CallKeepsReplies
<1>4. ASSUME NEW k \in Callers, Spawn(k) PROVE ReplyInv'
  <2>1. /\ pc[k] = "open" /\ UNCHANGED <<pending, answer>>
        /\ \A j \in Callers \ {k} : pc'[j] = pc[j] /\ at'[j] = at[j]
        /\ reader' = [reader EXCEPT ![made'] = "read"]
    BY <1>4 DEF Spawn, Steps, registry, ClientTyped, CallsTyped
  <2>2. "read" \notin Callers
    BY ClientThreadAssumption
  <2>3. RepliesTyped' /\ \A c \in Conns : reader'[c] \in Callers => reader'[c] = reader[c]
    BY <2>1, <2>2 DEF ReplyInv, RepliesTyped
  <2> QED BY <2>1, <2>3, CallKeepsReplies
<1>5. ASSUME NEW k \in Callers, SpawnFails(k) PROVE ReplyInv'
  <2>1. /\ pc[k] \notin {"write", "wait", "done"} /\ UNCHANGED <<pending, answer, reader>>
        /\ \A j \in Callers \ {k} : pc'[j] = pc[j] /\ at'[j] = at[j]
    BY <1>5 DEF SpawnFails, Returns, caller, worker, far, lease, registry, ClientTyped, CallsTyped
  <2>2. RepliesTyped'
    BY <2>1 DEF ReplyInv, RepliesTyped
  <2> QED BY <2>1, <2>2, CallKeepsReplies
<1>6. ASSUME NEW k \in Callers, Install(k) PROVE ReplyInv'
  <2>1. /\ pc[k] \notin {"write", "wait", "done"} /\ UNCHANGED <<pending, answer, reader>>
        /\ \A j \in Callers \ {k} : pc'[j] = pc[j] /\ at'[j] = at[j]
    BY <1>6 DEF Install, Steps, caller, worker, far, lease, registry, ClientTyped, CallsTyped
  <2>2. RepliesTyped'
    BY <2>1 DEF ReplyInv, RepliesTyped
  <2> QED BY <2>1, <2>2, CallKeepsReplies
<1>7. ASSUME NEW k \in Callers, Admit(k) PROVE ReplyInv'
  <2>1. /\ pc[k] \notin {"write", "wait", "done"} /\ UNCHANGED <<pending, answer, reader>>
        /\ \A j \in Callers \ {k} : pc'[j] = pc[j] /\ at'[j] = at[j]
    BY <1>7 DEF Admit, Steps, Returns, caller, worker, far, lease, registry, ClientTyped, CallsTyped
  <2>2. RepliesTyped'
    BY <2>1 DEF ReplyInv, RepliesTyped
  <2> QED BY <2>1, <2>2, CallKeepsReplies
<1>8. ASSUME NEW k \in Callers, Insert(k) PROVE ReplyInv'
  BY <1>8, InsertKeepsReplies
<1>9. ASSUME NEW k \in Callers, Write(k) PROVE ReplyInv'
  BY <1>9, WriteKeepsReplies
<1>10. ASSUME NEW k \in Callers, Wait(k) PROVE ReplyInv'
  BY <1>10, WaitKeepsReplies
<1>11. ASSUME NEW k \in Callers, Apply(k) PROVE ReplyInv'
  <2>1. /\ pc[k] \notin {"write", "wait", "done"} /\ UNCHANGED <<pending, answer, reader>>
        /\ \A j \in Callers \ {k} : pc'[j] = pc[j] /\ at'[j] = at[j]
    BY <1>11 DEF Apply, Steps, Returns, Takes, caller, worker, far, lease, registry, ClientTyped, CallsTyped
  <2>2. RepliesTyped'
    BY <2>1 DEF ReplyInv, RepliesTyped
  <2> QED BY <2>1, <2>2, CallKeepsReplies
<1>12. ASSUME NEW k \in Callers, ReadEnds(k) PROVE ReplyInv'
  <2>1. /\ pc[k] \notin {"write", "wait", "done"} /\ UNCHANGED <<pending, answer, reader>>
        /\ \A j \in Callers \ {k} : pc'[j] = pc[j] /\ at'[j] = at[j]
    BY <1>12 DEF ReadEnds, Steps, Returns, caller, worker, far, lease, registry, ClientTyped, CallsTyped
  <2>2. RepliesTyped'
    BY <2>1 DEF ReplyInv, RepliesTyped
  <2> QED BY <2>1, <2>2, CallKeepsReplies
<1>13. ASSUME NEW k \in Callers, WaitExit(k) PROVE ReplyInv'
  <2>1. /\ pc[k] \notin {"write", "wait", "done"} /\ UNCHANGED <<pending, answer, reader>>
        /\ \A j \in Callers \ {k} : pc'[j] = pc[j] /\ at'[j] = at[j]
    BY <1>13 DEF WaitExit, Returns, caller, worker, far, lease, registry, ClientTyped, CallsTyped
  <2>2. RepliesTyped'
    BY <2>1 DEF ReplyInv, RepliesTyped
  <2> QED BY <2>1, <2>2, CallKeepsReplies
<1>14. ASSUME NEW c \in Conns, RouteResult(c) PROVE ReplyInv'
  BY <1>14, RouteKeepsReplies
<1>15. ASSUME NEW c \in Conns, DeliverReply(c) PROVE ReplyInv'
  BY <1>15, DeliveryKeepsReplies
<1>16. ASSUME NEW c \in Conns, RouteLast(c) PROVE ReplyInv'
  BY <1>16, ReaderKeepsReplies DEF RouteLast, Terminates, caller, worker, far, lease, registry, ReaderGoesOn
<1>17. ASSUME NEW c \in Conns, RouteExit(c) PROVE ReplyInv'
  BY <1>17, ReaderKeepsReplies DEF RouteExit, caller, worker, far, lease, registry, ReaderGoesOn
<1>18. ASSUME NEW c \in Conns, StreamCloses(c) PROVE ReplyInv'
  BY <1>18, ReaderKeepsReplies DEF StreamCloses, Terminates, caller, worker, far, lease, registry, ReaderGoesOn
<1>19. ASSUME NEW c \in Conns, DrainPending(c) PROVE ReplyInv'
  BY <1>19, DrainKeepsReplies
<1>20. ASSUME NEW c \in Conns, DrainStreams(c) PROVE ReplyInv'
  BY <1>20, RepliesElsewhere DEF DrainStreams, caller, worker, far, lease, registry, replyVars
<1>21. ASSUME NEW c \in Conns, ReapChild(c) PROVE ReplyInv'
  BY <1>21, RepliesElsewhere DEF ReapChild, Gone, caller, worker, far, lease, registry, replyVars
<1>22. ASSUME NEW c \in Conns, Serve(c) PROVE ReplyInv'
  BY <1>22, RepliesElsewhere DEF Serve, Publishes, caller, worker, far, lease, registry, replyVars
<1>23. ASSUME NEW c \in Conns, Finish(c) PROVE ReplyInv'
  BY <1>23, RepliesElsewhere DEF Finish, Publishes, caller, worker, far, lease, registry, replyVars
<1>24. ASSUME NEW c \in Conns, Bye(c) PROVE ReplyInv'
  BY <1>24, RepliesElsewhere DEF Bye, Publishes, caller, worker, far, lease, registry, replyVars
<1>25. ASSUME NEW c \in Conns, Leaves(c) PROVE ReplyInv'
  BY <1>25, RepliesElsewhere DEF Leaves, Gone, Publishes, caller, worker, far, lease, registry, replyVars
<1>26. ASSUME NEW c \in Conns, Crash(c) PROVE ReplyInv'
  BY <1>26, RepliesElsewhere DEF Crash, Gone, Publishes, caller, worker, far, lease, registry, replyVars
<1>27. ASSUME NEW c \in Conns, Corrupt(c) PROVE ReplyInv'
  BY <1>27, RepliesElsewhere DEF Corrupt, Publishes, caller, worker, far, lease, registry, replyVars
<1>28. ASSUME CloseFlags PROVE ReplyInv'
  BY <1>28, RepliesElsewhere DEF CloseFlags, Goes, caller, worker, far, lease, registry, replyVars
<1>29. ASSUME CloseLocks PROVE ReplyInv'
  BY <1>29, RepliesElsewhere DEF CloseLocks, Goes, caller, worker, far, lease, registry, replyVars
<1>30. ASSUME CloseTakes PROVE ReplyInv'
  BY <1>30, RepliesElsewhere DEF CloseTakes, caller, worker, far, lease, registry, replyVars
<1>31. ASSUME CloseLeaves PROVE ReplyInv'
  BY <1>31, RepliesElsewhere DEF CloseLeaves, Goes, caller, worker, far, lease, registry, replyVars
<1>32. ASSUME ShutdownTakes PROVE ReplyInv'
  BY <1>32, RepliesElsewhere DEF ShutdownTakes, Goes, caller, worker, far, lease, registry, replyVars
<1>33. ASSUME ShutdownUnlocks PROVE ReplyInv'
  BY <1>33, RepliesElsewhere DEF ShutdownUnlocks, Goes, caller, worker, far, lease, registry, replyVars
<1>34. ASSUME ShutdownClears PROVE ReplyInv'
  BY <1>34, RepliesElsewhere DEF ShutdownClears, Goes, caller, worker, far, lease, registry, replyVars
<1>35. ASSUME NEW t \in {Closer, Stopper}, RetireAsks(t) PROVE ReplyInv'
  BY <1>35, RepliesElsewhere DEF RetireAsks, Goes, caller, worker, far, lease, registry, replyVars
<1>36. ASSUME NEW t \in {Closer, Stopper}, RetireTerminates(t) PROVE ReplyInv'
  BY <1>36, RepliesElsewhere DEF RetireTerminates, Goes, Terminates, caller, worker, far, lease, registry, replyVars
<1>37. ASSUME NEW t \in {Closer, Stopper}, RetireReaped(t) PROVE ReplyInv'
  BY <1>37, RepliesElsewhere DEF RetireReaped, Goes, caller, worker, far, lease, registry, replyVars
<1>38. ASSUME NEW k \in Callers, Greeted(k) PROVE ReplyInv'
  <2>1. /\ pc[k] \notin {"write", "wait", "done"} /\ UNCHANGED <<pending, answer, reader>>
        /\ \A j \in Callers \ {k} : pc'[j] = pc[j] /\ at'[j] = at[j]
    BY <1>38 DEF Greeted, Steps, registry, ClientTyped, CallsTyped
  <2>2. RepliesTyped'
    BY <2>1 DEF ReplyInv, RepliesTyped
  <2> QED BY <2>1, <2>2, CallKeepsReplies
<1>39. ASSUME NEW k \in Callers, HandshakeFails(k) PROVE ReplyInv'
  <2>1. /\ pc[k] \notin {"write", "wait", "done"} /\ UNCHANGED <<pending, answer, reader>>
        /\ \A j \in Callers \ {k} : pc'[j] = pc[j] /\ at'[j] = at[j]
    BY <1>39 DEF HandshakeFails, Returns, registry, ClientTyped, CallsTyped
  <2>2. RepliesTyped'
    BY <2>1 DEF ReplyInv, RepliesTyped
  <2> QED BY <2>1, <2>2, CallKeepsReplies
<1>40. ASSUME NEW c \in Conns, RouteWelcome(c) PROVE ReplyInv'
  BY <1>40, ReaderKeepsReplies DEF RouteWelcome, caller, registry, ReaderGoesOn
<1> QED
  BY <1>1, <1>2, <1>3, <1>4, <1>5, <1>6, <1>7, <1>8, <1>9, <1>10, <1>11, <1>12, <1>13,
     <1>14, <1>15, <1>16, <1>17, <1>18, <1>19, <1>20, <1>21, <1>22, <1>23, <1>24, <1>25, <1>26,
     <1>27, <1>28, <1>29, <1>30, <1>31, <1>32, <1>33, <1>34, <1>35, <1>36, <1>37, <1>38, <1>39, <1>40
  DEF Next, CallerRuns, ReaderRuns, TerminateRuns, CloseRuns, StopRuns, RetireRuns, WorkerRuns

(* The steps that write a caller's channel.                                *)
LEMMA AnswersStep ==
  ASSUME ClientTyped, ReplyInv, Next, NEW k \in Callers, answer[k] # "none"
  PROVE  answer'[k] \in {answer[k], "none"}
<1>1. ASSUME NEW j \in Callers, Connect(j) PROVE answer'[k] \in {answer[k], "none"}
  BY <1>1 DEF Connect, caller
<1>2. ASSUME NEW j \in Callers, Serialize(j) PROVE answer'[k] \in {answer[k], "none"}
  BY <1>2 DEF Serialize, caller
<1>3. ASSUME NEW j \in Callers, Recheck(j) PROVE answer'[k] \in {answer[k], "none"}
  BY <1>3 DEF Recheck, caller
<1>4. ASSUME NEW j \in Callers, Spawn(j) PROVE answer'[k] \in {answer[k], "none"}
  BY <1>4 DEF Spawn, caller
<1>5. ASSUME NEW j \in Callers, SpawnFails(j) PROVE answer'[k] \in {answer[k], "none"}
  BY <1>5 DEF SpawnFails, caller
<1>6. ASSUME NEW j \in Callers, Install(j) PROVE answer'[k] \in {answer[k], "none"}
  BY <1>6 DEF Install, caller
<1>7. ASSUME NEW j \in Callers, Admit(j) PROVE answer'[k] \in {answer[k], "none"}
  BY <1>7 DEF Admit, caller
<1>8. ASSUME NEW j \in Callers, Insert(j) PROVE answer'[k] \in {answer[k], "none"}
  BY <1>8 DEF Insert, caller
<1>9. ASSUME NEW j \in Callers, Write(j) PROVE answer'[k] \in {answer[k], "none"}
  BY <1>9 DEF Write, caller
<1>10. ASSUME NEW j \in Callers, Wait(j) PROVE answer'[k] \in {answer[k], "none"}
  BY <1>10 DEF Wait, ReplyInv, RepliesTyped
<1>11. ASSUME NEW j \in Callers, Apply(j) PROVE answer'[k] \in {answer[k], "none"}
  BY <1>11 DEF Apply, caller
<1>12. ASSUME NEW j \in Callers, ReadEnds(j) PROVE answer'[k] \in {answer[k], "none"}
  BY <1>12 DEF ReadEnds, caller
<1>13. ASSUME NEW j \in Callers, WaitExit(j) PROVE answer'[k] \in {answer[k], "none"}
  BY <1>13 DEF WaitExit, caller
<1>14. ASSUME NEW c \in Conns, RouteResult(c) PROVE answer'[k] \in {answer[k], "none"}
  BY <1>14 DEF RouteResult, caller
<1>15. ASSUME NEW c \in Conns, DeliverReply(c) PROVE answer'[k] \in {answer[k], "none"}
  BY <1>15 DEF DeliverReply, ReplyInv, RepliesTyped, ReplyOf
<1>16. ASSUME NEW c \in Conns, RouteLast(c) PROVE answer'[k] \in {answer[k], "none"}
  BY <1>16 DEF RouteLast, caller
<1>17. ASSUME NEW c \in Conns, RouteExit(c) PROVE answer'[k] \in {answer[k], "none"}
  BY <1>17 DEF RouteExit, caller
<1>18. ASSUME NEW c \in Conns, StreamCloses(c) PROVE answer'[k] \in {answer[k], "none"}
  BY <1>18 DEF StreamCloses, caller
<1>19. ASSUME NEW c \in Conns, DrainPending(c) PROVE answer'[k] \in {answer[k], "none"}
  BY <1>19 DEF DrainPending, Drained, ReplyInv, RepliesTyped, ReplyOf
<1>20. ASSUME NEW c \in Conns, DrainStreams(c) PROVE answer'[k] \in {answer[k], "none"}
  BY <1>20 DEF DrainStreams, caller
<1>21. ASSUME NEW c \in Conns, ReapChild(c) PROVE answer'[k] \in {answer[k], "none"}
  BY <1>21 DEF ReapChild, caller
<1>22. ASSUME NEW c \in Conns, Serve(c) PROVE answer'[k] \in {answer[k], "none"}
  BY <1>22 DEF Serve, caller, Publishes
<1>23. ASSUME NEW c \in Conns, Finish(c) PROVE answer'[k] \in {answer[k], "none"}
  BY <1>23 DEF Finish, caller, Publishes
<1>24. ASSUME NEW c \in Conns, Bye(c) PROVE answer'[k] \in {answer[k], "none"}
  BY <1>24 DEF Bye, caller, Publishes
<1>25. ASSUME NEW c \in Conns, Leaves(c) PROVE answer'[k] \in {answer[k], "none"}
  BY <1>25 DEF Leaves, caller, Publishes
<1>26. ASSUME NEW c \in Conns, Crash(c) PROVE answer'[k] \in {answer[k], "none"}
  BY <1>26 DEF Crash, caller, Publishes
<1>27. ASSUME NEW c \in Conns, Corrupt(c) PROVE answer'[k] \in {answer[k], "none"}
  BY <1>27 DEF Corrupt, caller, Publishes
<1>28. ASSUME CloseFlags PROVE answer'[k] \in {answer[k], "none"}
  BY <1>28 DEF CloseFlags, caller
<1>29. ASSUME CloseLocks PROVE answer'[k] \in {answer[k], "none"}
  BY <1>29 DEF CloseLocks, caller
<1>30. ASSUME CloseTakes PROVE answer'[k] \in {answer[k], "none"}
  BY <1>30 DEF CloseTakes, caller
<1>31. ASSUME CloseLeaves PROVE answer'[k] \in {answer[k], "none"}
  BY <1>31 DEF CloseLeaves, caller
<1>32. ASSUME ShutdownTakes PROVE answer'[k] \in {answer[k], "none"}
  BY <1>32 DEF ShutdownTakes, caller
<1>33. ASSUME ShutdownUnlocks PROVE answer'[k] \in {answer[k], "none"}
  BY <1>33 DEF ShutdownUnlocks, caller
<1>34. ASSUME ShutdownClears PROVE answer'[k] \in {answer[k], "none"}
  BY <1>34 DEF ShutdownClears, caller
<1>35. ASSUME NEW t \in {Closer, Stopper}, RetireAsks(t) PROVE answer'[k] \in {answer[k], "none"}
  BY <1>35 DEF RetireAsks, caller
<1>36. ASSUME NEW t \in {Closer, Stopper}, RetireTerminates(t) PROVE answer'[k] \in {answer[k], "none"}
  BY <1>36 DEF RetireTerminates, caller
<1>37. ASSUME NEW t \in {Closer, Stopper}, RetireReaped(t) PROVE answer'[k] \in {answer[k], "none"}
  BY <1>37 DEF RetireReaped, caller
<1>38. ASSUME NEW j \in Callers, Greeted(j) PROVE answer'[k] \in {answer[k], "none"}
  BY <1>38 DEF Greeted
<1>39. ASSUME NEW j \in Callers, HandshakeFails(j) PROVE answer'[k] \in {answer[k], "none"}
  BY <1>39 DEF HandshakeFails
<1>40. ASSUME NEW c \in Conns, RouteWelcome(c) PROVE answer'[k] \in {answer[k], "none"}
  BY <1>40 DEF RouteWelcome, caller
<1> QED
  BY <1>1, <1>2, <1>3, <1>4, <1>5, <1>6, <1>7, <1>8, <1>9, <1>10, <1>11, <1>12, <1>13,
     <1>14, <1>15, <1>16, <1>17, <1>18, <1>19, <1>20, <1>21, <1>22, <1>23, <1>24, <1>25, <1>26,
     <1>27, <1>28, <1>29, <1>30, <1>31, <1>32, <1>33, <1>34, <1>35, <1>36, <1>37, <1>38, <1>39, <1>40
  DEF Next, CallerRuns, ReaderRuns, TerminateRuns, CloseRuns, StopRuns, RetireRuns, WorkerRuns

(* The channel of a call holds one reply at a time: what the reader hands  *)
(* over, what the drain of a dead connection hands over and what a caller  *)
(* has not taken yet never overwrite each other (client/conn.rs, the       *)
(* pending registry).                                                      *)
THEOREM RepliesAreSingle == Spec => RepliedOnce
<1> DEFINE NotReplaced == \A k \in Callers : answer[k] # "none" => answer'[k] \in {answer[k], "none"}
<1>1. Init => ClientTyped /\ ReplyInv
  <2>1. Init => ReplyInv
    BY ClientThreadAssumption DEF Init, ReplyInv, RepliesTyped, ReplyOf, Free
  <2> QED BY <2>1, InitHolds
<1>2. ClientTyped /\ ReplyInv /\ [Next]_vars => ClientTyped' /\ ReplyInv'
  <2>1. ReplyInv /\ UNCHANGED vars => ReplyInv'
    BY RepliesElsewhere DEF vars, replyVars, registry, caller
  <2> QED BY <2>1, TypedStep, RepliesStep, StutterTyped
<1>3. ClientTyped /\ ReplyInv /\ [Next]_vars => [NotReplaced]_vars
  BY AnswersStep
<1> QED BY <1>1, <1>2, <1>3, PTL DEF Spec, RepliedOnce
=============================================================================
