----------------------- MODULE WorkerSchedulerProofs ------------------------
(***************************************************************************)
(* Proofs about WorkerScheduler for any requests, budgets and lanes.       *)
(* RegistryInv is about admission: where a request's thread is says        *)
(* whether its id is registered, and where an exec is says who owns its    *)
(* permit.  OutcomeInv follows the one outcome of a request, OpeningInv    *)
(* the opening of a stream across the two lanes, and ExitInv the last      *)
(* chunk of an exec up to the exit that must come behind it.               *)
(***************************************************************************)
EXTENDS WorkerScheduler, FiniteSetTheorems, TLAPS

Steps == {"absent", "new", "refused", "run", "launch", "reply", "stream", "settle", "done"}
Active == {"run", "launch", "reply", "stream", "settle"}

Bulk(S)  == {r \in S : Class[r] = "bulk"}
Other(S) == {r \in S : Class[r] # "control"}

(* A registered request is one whose thread runs; an exec holds its permit *)
(* from the acquisition on, first as a launch and then as an entry.        *)
Registered ==
  /\ pc \in [Requests -> Steps]
  /\ requests = {r \in Requests : pc[r] \in Active}
  /\ entries \subseteq {r \in Execs : pc[r] \notin {"absent", "new", "refused", "run", "launch"}}
  /\ Launching \subseteq Execs
Permits ==
  /\ bulk = Cardinality(Bulk(requests))
  /\ execs = Cardinality(entries) + Cardinality(Launching)
Reserve ==
  /\ Cardinality(Other(requests)) <= SharedSlots
  /\ Cardinality(requests) <= MaxPending
  /\ Cardinality(Bulk(requests)) <= MaxReads
RegistryInv == Registered /\ Permits /\ Reserve

(* A request has no outcome before it replies and one ever after, unless   *)
(* it was handed to a terminal, which answers what it still holds; the one *)
(* being refused has none yet, and the one being admitted is authorized.   *)
Resolved ==
  \A r \in Requests :
    /\ pc[r] \in {"absent", "new", "run", "launch", "reply"} => outcomes[r] = 0
    /\ pc[r] \in {"stream", "settle", "done"} /\ r \notin Resizes => outcomes[r] = 1
    /\ outcomes[r] <= 1
Owed ==
  /\ handed \subseteq Resizes
  /\ \A r \in handed : pc[r] \in {"settle", "done"} /\ outcomes[r] = 0
AtReader ==
  /\ reader = "refuse" =>
       subject \in Requests /\ pc[subject] = "refused" /\ outcomes[subject] = 0
  /\ reader = "admit" =>
       subject \in Requests /\ pc[subject] = "new" /\ subject \notin Stale
OutcomeInv ==
  /\ pc \in [Requests -> Steps] /\ outcomes \in [Requests -> Nat]
  /\ Resolved /\ Owed /\ AtReader

-----------------------------------------------------------------------------
LEMMA SharedSlotsNat == SharedSlots \in Nat /\ SharedSlots <= MaxPending
BY SchedulerAssumption DEF SharedSlots

(* Sets of requests are finite.                                            *)
LEMMA Finite ==
  ASSUME NEW S \in SUBSET Requests
  PROVE  IsFiniteSet(S) /\ Cardinality(S) \in Nat
<1>1. IsFiniteSet(S)
  BY FS_Subset, SchedulerAssumption
<1> QED BY <1>1, FS_CardinalityType

(* One request joins a set, or leaves it.                                  *)
LEMMA Joins ==
  ASSUME NEW S \in SUBSET Requests, NEW r \in Requests, r \notin S
  PROVE  Cardinality(S \union {r}) = Cardinality(S) + 1
BY Finite, FS_AddElement

LEMMA LeavesSet ==
  ASSUME NEW S \in SUBSET Requests, NEW r \in S
  PROVE  Cardinality(S \ {r}) = Cardinality(S) - 1
BY Finite, FS_RemoveElement

LEMMA ExecsAreRequests ==
  /\ Execs \subseteq Requests
  /\ \A r \in Execs : Kind(r) = "exec" /\ Class[r] = "standard"
  /\ \A r \in Requests \ Execs : Kind(r) = Class[r] /\ Kind(r) # "exec"
BY SchedulerAssumption DEF Kind

-----------------------------------------------------------------------------
outVars == <<pc, outcomes, reader, subject>>

(* Steps of the session threads that do not refuse.                        *)
LEMMA OutcomeElsewhere ==
  ASSUME OutcomeInv, UNCHANGED <<pc, outcomes>>, handed' \subseteq handed,
         reader' \notin {"refuse", "admit"} \/ UNCHANGED <<reader, subject>>
  PROVE  OutcomeInv'
BY DEF OutcomeInv, Resolved, Owed, AtReader

(* Every step keeps the outcomes.                                          *)
LEMMA OutcomeStep == ASSUME OutcomeInv, Next PROVE OutcomeInv'
<1>1. ASSUME NEW r \in Requests, TakeHandle(r) PROVE OutcomeInv'
  BY <1>1, OutcomeElsewhere DEF TakeHandle, owners, ends, world
<1>2. ASSUME FlipToken PROVE OutcomeInv'
  BY <1>2, OutcomeElsewhere DEF FlipToken, owners, ends, world
<1>3. ASSUME WakeProducers PROVE OutcomeInv'
  BY <1>3, OutcomeElsewhere DEF WakeProducers, owners, ends, world
<1>4. ASSUME Leave PROVE OutcomeInv'
  BY <1>4, OutcomeElsewhere DEF Leave, owners, ends, world
<1>5. ASSUME Drained PROVE OutcomeInv'
  BY <1>5, OutcomeElsewhere DEF Drained, owners, ends, world
<1>6. ASSUME SendBye PROVE OutcomeInv'
  BY <1>6, OutcomeElsewhere DEF SendBye, owners, ends, world
<1>7. ASSUME Halt PROVE OutcomeInv'
  BY <1>7, OutcomeElsewhere DEF Halt, owners, ends, world
<1>8. ASSUME Join PROVE OutcomeInv'
  BY <1>8, OutcomeElsewhere DEF Join, owners, ends, world
<1>9. ASSUME PopControl PROVE OutcomeInv'
  BY <1>9, OutcomeElsewhere DEF PopControl, Pops, owners, ends, world
<1>10. ASSUME PopData PROVE OutcomeInv'
  BY <1>10, OutcomeElsewhere DEF PopData, Pops, owners, ends, world
<1>11. ASSUME PopNothing PROVE OutcomeInv'
  BY <1>11, OutcomeElsewhere DEF PopNothing, owners, ends, world
<1>12. ASSUME WriterHalts PROVE OutcomeInv'
  BY <1>12, OutcomeElsewhere DEF WriterHalts, owners, ends, world
<1>13. ASSUME Write PROVE OutcomeInv'
  BY <1>13, OutcomeElsewhere DEF Write, owners, ends, world
<1>14. ASSUME WriteFails PROVE OutcomeInv'
  BY <1>14, OutcomeElsewhere DEF WriteFails, owners, ends, world
<1>15. ASSUME PeerFails PROVE OutcomeInv'
  BY <1>15, OutcomeElsewhere DEF PeerFails, owners, ends, world
<1>16. ASSUME SendEvent PROVE OutcomeInv'
  BY <1>16, OutcomeElsewhere DEF SendEvent, owners, ends, world
<1>17. ASSUME NEW r \in Requests, TakeStops(r) PROVE OutcomeInv'
  BY <1>17, OutcomeElsewhere DEF TakeStops, Pumps, owners, ends, world
<1>18. ASSUME NEW r \in Requests, TakeDiscards(r) PROVE OutcomeInv'
  BY <1>18, OutcomeElsewhere DEF TakeDiscards, Pumps, owners, ends, world
<1>19. ASSUME NEW r \in Requests, TakeCredit(r) PROVE OutcomeInv'
  BY <1>19, OutcomeElsewhere DEF TakeCredit, Pumps, owners, ends, world
<1>20. ASSUME NEW r \in Requests, Reads(r) PROVE OutcomeInv'
  BY <1>20, OutcomeElsewhere DEF Reads, Pumps, AfterDrain, owners, ends, world
<1>21. ASSUME NEW r \in Requests, Grant(r) PROVE OutcomeInv'
  BY <1>21, OutcomeElsewhere DEF Grant, owners, ends, world
<1>22. ASSUME NEW r \in Requests, Abandon(r) PROVE OutcomeInv'
  BY <1>22, OutcomeElsewhere DEF Abandon, owners, ends, world
<1>23. ASSUME NEW r \in Requests, InputEnds(r) PROVE OutcomeInv'
  BY <1>23, OutcomeElsewhere DEF InputEnds, owners, ends, world
<1>24. ASSUME NEW r \in Requests, PushEnqueues(r) PROVE OutcomeInv'
  BY <1>24, OutcomeElsewhere DEF PushEnqueues, Pumps, owners, ends, world
<1>25. ASSUME NEW r \in Requests, PushAbandons(r) PROVE OutcomeInv'
  BY <1>25, OutcomeElsewhere DEF PushAbandons, Pumps, owners, ends, world
<1>26. ASSUME NEW r \in Requests, PushFinds(r) PROVE OutcomeInv'
  BY <1>26, OutcomeElsewhere DEF PushFinds, owners, ends, world
<1>27. ASSUME NEW r \in Requests, PushParks(r) PROVE OutcomeInv'
  BY <1>27, OutcomeElsewhere DEF PushParks, owners, ends, world
<1>28. ASSUME NEW r \in Requests, EndStream(r) PROVE OutcomeInv'
  BY <1>28, OutcomeElsewhere DEF EndStream, Pumps, owners, ends, world
<1>29. ASSUME NEW r \in Requests, FlushStarts(r) PROVE OutcomeInv'
  BY <1>29, OutcomeElsewhere DEF FlushStarts, Tails, owners, ends, world
<1>30. ASSUME NEW r \in Requests, FlushEnds(r) PROVE OutcomeInv'
  BY <1>30, OutcomeElsewhere DEF FlushEnds, Tails, owners, ends, world
<1>31. ASSUME NEW r \in Requests, FlushFinds(r) PROVE OutcomeInv'
  BY <1>31, OutcomeElsewhere DEF FlushFinds, owners, ends, world
<1>32. ASSUME NEW r \in Requests, FlushParks(r) PROVE OutcomeInv'
  BY <1>32, OutcomeElsewhere DEF FlushParks, owners, ends, world
<1>33. ASSUME NEW r \in Requests, SendExit(r) PROVE OutcomeInv'
  BY <1>33, OutcomeElsewhere DEF SendExit, owners, ends, world
<1>34. ASSUME NEW r \in Requests, Joined(r) PROVE OutcomeInv'
  BY <1>34, OutcomeElsewhere DEF Joined, Tails, owners, ends, world
<1>35. ASSUME RevokeExecs PROVE OutcomeInv'
  BY <1>35, OutcomeElsewhere DEF RevokeExecs, RevokeLeases, owners, ends, world
<1>36. ASSUME NEW r \in Requests, FlowRevoke(r) PROVE OutcomeInv'
  BY <1>36, OutcomeElsewhere DEF FlowRevoke, RevokeLeases, owners, ends, world
<1>37. ASSUME NEW t \in Threads, ParkOnControl(t) PROVE OutcomeInv'
  BY <1>37, OutcomeElsewhere DEF ParkOnControl, owners, ends, world
<1>38. ASSUME SendRefusal PROVE OutcomeInv'
  BY <1>38 DEF SendRefusal, world, OutcomeInv, Resolved, Owed, AtReader, Steps
<1>39. ASSUME NEW r \in Requests, AnswerResize(r) PROVE OutcomeInv'
  BY <1>39, SchedulerAssumption DEF AnswerResize, ends, OutcomeInv, Resolved, Owed, AtReader, Steps
<1>40. ASSUME NEW r \in Requests, Refuse(r) PROVE OutcomeInv'
  BY <1>40 DEF Refuse, world, OutcomeInv, Resolved, Owed, AtReader, Steps
<1>41. ASSUME NEW r \in Requests, Authorize(r) PROVE OutcomeInv'
  <2>1. pc[r] = "new" /\ outcomes[r] = 0 /\ r \notin handed
    BY <1>41 DEF Authorize, OutcomeInv, Resolved, Owed
  <2>2. CASE Authorized(r)
    BY <1>41, <2>1, <2>2 DEF Authorize, Authorized, world, OutcomeInv, Resolved, Owed, AtReader
  <2>3. CASE ~Authorized(r)
    <3>1. /\ pc' = [pc EXCEPT ![r] = "refused"] /\ subject' = r /\ reader' = "refuse"
          /\ outcomes' = outcomes /\ handed' = handed
      BY <1>41, <2>3 DEF Authorize, world
    <3> HIDE DEF Authorize
    <3> QED BY <2>1, <3>1 DEF OutcomeInv, Resolved, Owed, AtReader, Steps
  <2> QED BY <2>2, <2>3
<1>42. ASSUME NEW r \in Requests, Admit(r) PROVE OutcomeInv'
  BY <1>42 DEF Admit, ends, world, OutcomeInv, Resolved, Owed, AtReader, Steps
<1>43. ASSUME NEW r \in Requests, Launched(r) PROVE OutcomeInv'
  BY <1>43 DEF Launched, ends, world, OutcomeInv, Resolved, Owed, AtReader, Steps
<1>44. ASSUME NEW r \in Requests, LaunchFails(r) PROVE OutcomeInv'
  BY <1>44 DEF LaunchFails, ends, world, OutcomeInv, Resolved, Owed, AtReader, Steps
<1>45. ASSUME NEW r \in Requests, Reply(r) PROVE OutcomeInv'
  <2>1. pc[r] = "reply" /\ outcomes[r] = 0 /\ r \notin handed
    BY <1>45 DEF Reply, OutcomeInv, Resolved, Owed
  <2>2. /\ outcomes' = [outcomes EXCEPT ![r] = @ + 1]
        /\ UNCHANGED <<handed, reader, subject>>
    BY <1>45 DEF Reply, ends, world
  <2>3. PICK step \in {"stream", "settle"} : pc' = [pc EXCEPT ![r] = step]
    BY <1>45 DEF Reply
  <2> QED BY <2>1, <2>2, <2>3 DEF OutcomeInv, Resolved, Owed, AtReader, Steps
<1>46. ASSUME NEW r \in Requests, StreamEnds(r) PROVE OutcomeInv'
  BY <1>46 DEF StreamEnds, AfterStream, ends, world, OutcomeInv, Resolved, Owed, AtReader, Steps
<1>47. ASSUME NEW r \in Requests, Settle(r) PROVE OutcomeInv'
  BY <1>47 DEF Settle, ends, world, OutcomeInv, Resolved, Owed, AtReader, Steps
<1>48. ASSUME NEW r \in Requests, ExecRefused(r) PROVE OutcomeInv'
  BY <1>48 DEF ExecRefused, Runs, ends, world, OutcomeInv, Resolved, Owed, AtReader, Steps
<1>49. ASSUME NEW r \in Requests, AcquireExec(r) PROVE OutcomeInv'
  BY <1>49 DEF AcquireExec, Runs, ends, world, OutcomeInv, Resolved, Owed, AtReader, Steps
<1>50. ASSUME NEW r \in Requests, OpenRead(r) PROVE OutcomeInv'
  BY <1>50 DEF OpenRead, Runs, ends, world, OutcomeInv, Resolved, Owed, AtReader, Steps
<1>51. ASSUME NEW r \in Requests, Dispatch(r) PROVE OutcomeInv'
  BY <1>51 DEF Dispatch, Runs, ends, world, OutcomeInv, Resolved, Owed, AtReader, Steps
<1>52. ASSUME NEW r \in Requests, HandOver(r) PROVE OutcomeInv'
  BY <1>52, SchedulerAssumption DEF HandOver, Runs, ends, world, OutcomeInv, Resolved, Owed, AtReader, Steps
<1> QED
  BY <1>1, <1>2, <1>3, <1>4, <1>5, <1>6, <1>7, <1>8, <1>9, <1>10,
     <1>11, <1>12, <1>13, <1>14, <1>15, <1>16, <1>17, <1>18, <1>19, <1>20,
     <1>21, <1>22, <1>23, <1>24, <1>25, <1>26, <1>27, <1>28, <1>29, <1>30,
     <1>31, <1>32, <1>33, <1>34, <1>35, <1>36, <1>37, <1>38, <1>39, <1>40,
     <1>41, <1>42, <1>43, <1>44, <1>45, <1>46, <1>47, <1>48, <1>49, <1>50,
     <1>51, <1>52
  DEF Next, ReaderStep, ReaderRuns, WriterRuns, Transport, RequestRuns, Threads,
      ReadReturns, ChildWrites, KilledJoined, ChildEnds

LEMMA OutcomeInvariant == Spec => []OutcomeInv
<1>1. Init => OutcomeInv
  BY DEF Init, OutcomeInv, Resolved, Owed, AtReader, Steps
<1>2. OutcomeInv /\ [Next]_vars => OutcomeInv'
  <2>1. OutcomeInv /\ UNCHANGED vars => OutcomeInv'
    BY OutcomeElsewhere DEF vars, owners, ends, world
  <2> QED BY <2>1, OutcomeStep
<1> QED BY <1>1, <1>2, PTL DEF Spec

(* Every request is answered at most once, whichever of its own thread,    *)
(* the input loop and the input thread of a terminal owns its reply, and   *)
(* one that has settled has been answered unless it is a resize, which is  *)
(* settled when it is handed over (serve.rs, run_request and               *)
(* admit_request; serve/process/pty.rs, enqueue_resize).                   *)
THEOREM OutcomesAreSingle == Spec => []OneOutcome
<1>1. OutcomeInv => OneOutcome
  BY DEF OutcomeInv, Resolved, OneOutcome
<1> QED BY OutcomeInvariant, <1>1, PTL

-----------------------------------------------------------------------------
(* Steps that leave what RegistryInv speaks about as it is.                *)
regVars == <<requests, bulk, execs, entries, pc>>

LEMMA RegistryUntouched == ASSUME RegistryInv, UNCHANGED regVars PROVE RegistryInv'
<1>1. Launching' = Launching
  BY DEF Launching, regVars
<1>2. Registered'
  BY <1>1 DEF RegistryInv, Registered, regVars
<1>3. Permits' /\ Reserve'
  BY <1>1 DEF RegistryInv, Permits, Reserve, regVars, SharedSlots, Bulk, Other
<1> QED BY <1>2, <1>3 DEF RegistryInv

(* A thread that moves on inside the registry: the id stays registered and *)
(* permits stay with their owners.                                         *)
LEMMA RegistryMoves ==
  ASSUME RegistryInv, NEW r \in Requests, NEW where \in {"reply", "stream", "settle"},
         pc[r] \in {"run", "reply", "stream"},
         pc' = [pc EXCEPT ![r] = where],
         UNCHANGED <<requests, bulk, execs, entries>>
  PROVE  RegistryInv'
<1>1. Launching' = Launching
  BY DEF Launching, RegistryInv, Registered, Steps
<1>2. Registered'
  BY <1>1 DEF RegistryInv, Registered, Steps, Active
<1>3. Permits' /\ Reserve'
  BY <1>1 DEF RegistryInv, Permits, Reserve, SharedSlots, Bulk, Other
<1> QED BY <1>2, <1>3 DEF RegistryInv

(* Whoever takes execs out of the table gives back one permit each.        *)
LEMMA RegistryRevokes ==
  ASSUME RegistryInv, NEW victims \in SUBSET entries, RevokeLeases(victims),
         UNCHANGED <<requests, bulk, pc>>
  PROVE  RegistryInv'
<1>1. Launching' = Launching
  BY DEF Launching
<1>2. entries \subseteq Requests
  BY ExecsAreRequests DEF RegistryInv, Registered
<1>3. Cardinality(entries \ victims) = Cardinality(entries) - Cardinality(victims)
  <2>1. IsFiniteSet(entries) /\ entries \intersect victims = victims
    BY <1>2, Finite
  <2> QED BY <2>1, FS_Difference
<1>4. Registered'
  BY <1>1 DEF RegistryInv, Registered, RevokeLeases
<1>5. Cardinality(entries) \in Nat /\ Cardinality(victims) \in Nat
      /\ Cardinality(Launching) \in Nat
  BY <1>2, Finite DEF Launching
<1>6. Permits'
  BY <1>1, <1>3, <1>5 DEF RegistryInv, Permits, RevokeLeases, Bulk
<1>7. Reserve'
  BY DEF RegistryInv, Reserve, SharedSlots, Bulk, Other
<1> QED BY <1>4, <1>6, <1>7 DEF RegistryInv

LEMMA RegistryAdmits ==
  ASSUME RegistryInv, NEW r \in Requests, pc[r] = "new", Admit(r) PROVE RegistryInv'
<1>1. /\ requests \subseteq Requests /\ r \notin requests
      /\ requests' = requests \union {r}
      /\ pc[r] = "new" /\ pc' = [pc EXCEPT ![r] = "run"]
  BY DEF Admit, RegistryInv, Registered, Active
<1>2. Launching' = Launching
  BY <1>1 DEF Launching, RegistryInv, Registered, Steps
<1>3. Registered'
  BY <1>1, <1>2 DEF RegistryInv, Registered, Steps, Active, Admit
<1>4. Cardinality(requests') = Cardinality(requests) + 1
  BY <1>1, Joins
<1>5. Bulk(requests) \subseteq Requests /\ Other(requests) \subseteq Requests
      /\ r \notin Bulk(requests) /\ r \notin Other(requests)
  BY <1>1 DEF Bulk, Other
<1>6. Bulk(requests') = IF Class[r] = "bulk" THEN Bulk(requests) \union {r} ELSE Bulk(requests)
  BY <1>1 DEF Bulk
<1>7. Other(requests') = IF Class[r] # "control" THEN Other(requests) \union {r}
                         ELSE Other(requests)
  BY <1>1 DEF Other
<1>8. Cardinality(Bulk(requests')) =
        IF Class[r] = "bulk" THEN Cardinality(Bulk(requests)) + 1
        ELSE Cardinality(Bulk(requests))
  BY <1>5, <1>6, Joins
<1>9. Cardinality(Other(requests')) =
        IF Class[r] # "control" THEN Cardinality(Other(requests)) + 1
        ELSE Cardinality(Other(requests))
  BY <1>5, <1>7, Joins
<1>10. /\ Cardinality(requests) \in Nat /\ Cardinality(Bulk(requests)) \in Nat
       /\ Cardinality(Other(requests)) \in Nat
  BY <1>1, <1>5, Finite
<1>11. Permits'
  BY <1>2, <1>8 DEF RegistryInv, Permits, Admit, BulkAfterAdmit
<1>12. Cardinality(Other(requests)) <= Cardinality(requests)
  BY <1>1, Finite, FS_Subset DEF Other
<1>13. Reserve'
  <2>1. Cardinality(requests) < IF Class[r] = "control" THEN MaxPending ELSE SharedSlots
    BY DEF Admit, Admissible
  <2>2. Class[r] = "bulk" => Cardinality(Bulk(requests)) < MaxReads
    BY DEF Admit, Admissible, RegistryInv, Permits
  <2>3. Cardinality(requests') <= MaxPending
    BY <1>4, <1>10, <2>1, SharedSlotsNat, SchedulerAssumption
  <2>4. Cardinality(Bulk(requests')) <= MaxReads
    BY <1>8, <1>10, <2>2, SchedulerAssumption DEF RegistryInv, Reserve
  <2>5. Cardinality(Other(requests')) <= SharedSlots
    BY <1>9, <1>10, <1>12, <2>1, SharedSlotsNat DEF RegistryInv, Reserve
  <2>6. SharedSlots' = SharedSlots /\ Bulk(requests)' = Bulk(requests')
        /\ Other(requests)' = Other(requests')
    BY DEF SharedSlots, Bulk, Other
  <2> QED BY <2>3, <2>4, <2>5, <2>6 DEF Reserve
<1> QED BY <1>3, <1>11, <1>13 DEF RegistryInv

LEMMA RegistrySettles ==
  ASSUME RegistryInv, NEW r \in Requests, Settle(r) PROVE RegistryInv'
<1>1. /\ requests \subseteq Requests /\ r \in requests
      /\ requests' = requests \ {r}
      /\ pc[r] = "settle" /\ pc' = [pc EXCEPT ![r] = "done"]
  BY DEF Settle, RegistryInv, Registered, Active
<1>2. Launching' = Launching
  BY <1>1 DEF Launching, RegistryInv, Registered, Steps
<1>3. Registered'
  BY <1>1, <1>2 DEF RegistryInv, Registered, Steps, Active, Settle
<1>4. Cardinality(requests') = Cardinality(requests) - 1
  BY <1>1, LeavesSet
<1>5. Bulk(requests) \subseteq Requests /\ Other(requests) \subseteq Requests
  BY <1>1 DEF Bulk, Other
<1>6. Bulk(requests') = IF Class[r] = "bulk" THEN Bulk(requests) \ {r} ELSE Bulk(requests)
  BY <1>1 DEF Bulk
<1>7. Other(requests') \in SUBSET Other(requests)
  BY <1>1 DEF Other
<1>8. Cardinality(Bulk(requests')) =
        IF Class[r] = "bulk" THEN Cardinality(Bulk(requests)) - 1
        ELSE Cardinality(Bulk(requests))
  <2>1. Class[r] = "bulk" => r \in Bulk(requests)
    BY <1>1 DEF Bulk
  <2> QED BY <1>5, <1>6, <2>1, LeavesSet
<1>9. Cardinality(Other(requests')) <= Cardinality(Other(requests))
  BY <1>5, <1>7, Finite, FS_Subset
<1>10. /\ Cardinality(requests) \in Nat /\ Cardinality(Bulk(requests)) \in Nat
       /\ Cardinality(Other(requests)) \in Nat /\ Cardinality(Other(requests')) \in Nat
  BY <1>1, <1>5, <1>7, Finite
<1>11. Permits'
  BY <1>2, <1>8 DEF RegistryInv, Permits, Settle, BulkAfterSettle
<1>12. Reserve'
  <2>1. SharedSlots' = SharedSlots /\ Bulk(requests)' = Bulk(requests')
        /\ Other(requests)' = Other(requests')
    BY DEF SharedSlots, Bulk, Other
  <2> QED
    BY <1>4, <1>8, <1>9, <1>10, <2>1, SharedSlotsNat, SchedulerAssumption
    DEF RegistryInv, Reserve
<1> QED BY <1>3, <1>11, <1>12 DEF RegistryInv

(* An exec takes a permit, and its launch fails or enters the table.       *)
LEMMA RegistryLaunches ==
  ASSUME RegistryInv, NEW r \in Requests, AcquireExec(r) \/ Launched(r) \/ LaunchFails(r)
  PROVE  RegistryInv'
<1> DEFINE Held == Cardinality(entries) + Cardinality(Launching)
<1>1. /\ requests' = requests /\ bulk' = bulk /\ Launching \subseteq Requests
      /\ entries \subseteq Requests
  BY ExecsAreRequests DEF AcquireExec, Runs, Launched, LaunchFails, RegistryInv, Registered
<1>2. Cardinality(entries) \in Nat /\ Cardinality(Launching) \in Nat
  BY <1>1, Finite
<1>3. Reserve'
  BY <1>1 DEF RegistryInv, Reserve, SharedSlots, Bulk, Other
<1>4. CASE AcquireExec(r)
  <2>1. r \in Execs /\ pc[r] = "run" /\ pc' = [pc EXCEPT ![r] = "launch"]
        /\ execs' = execs + 1 /\ entries' = entries
    BY <1>4, ExecsAreRequests DEF AcquireExec, Runs
  <2>2. Launching' = Launching \union {r} /\ r \notin Launching
    BY <2>1 DEF Launching, RegistryInv, Registered
  <2>3. Registered'
    BY <1>1, <2>1, <2>2 DEF RegistryInv, Registered, Steps, Active
  <2>4. Cardinality(Launching') = Cardinality(Launching) + 1
    BY <1>1, <2>2, Joins
  <2> QED BY <1>1, <1>2, <1>3, <2>1, <2>3, <2>4 DEF RegistryInv, Permits, Bulk
<1>5. CASE Launched(r)
  <2>1. pc[r] = "launch" /\ pc' = [pc EXCEPT ![r] = "reply"]
        /\ execs' = execs /\ entries' = entries \union {r}
    BY <1>5 DEF Launched
  <2>2. Launching' = Launching \ {r} /\ r \in Launching /\ r \notin entries
    BY <2>1 DEF Launching, RegistryInv, Registered
  <2>3. Registered'
    BY <1>1, <2>1, <2>2 DEF RegistryInv, Registered, Steps, Active
  <2>4. Cardinality(Launching') = Cardinality(Launching) - 1
        /\ Cardinality(entries') = Cardinality(entries) + 1
    BY <1>1, <2>1, <2>2, Joins, LeavesSet
  <2> QED BY <1>1, <1>2, <1>3, <2>1, <2>3, <2>4 DEF RegistryInv, Permits, Bulk
<1>6. CASE LaunchFails(r)
  <2>1. pc[r] = "launch" /\ pc' = [pc EXCEPT ![r] = "reply"]
        /\ execs' = execs - 1 /\ entries' = entries
    BY <1>6 DEF LaunchFails
  <2>2. Launching' = Launching \ {r} /\ r \in Launching
    BY <2>1 DEF Launching, RegistryInv, Registered
  <2>3. Registered'
    BY <1>1, <2>1, <2>2 DEF RegistryInv, Registered, Steps, Active
  <2>4. Cardinality(Launching') = Cardinality(Launching) - 1
    BY <1>1, <2>2, LeavesSet
  <2> QED BY <1>1, <1>2, <1>3, <2>1, <2>3, <2>4 DEF RegistryInv, Permits, Bulk
<1> QED BY <1>4, <1>5, <1>6

LEMMA RegistryJoins ==
  ASSUME RegistryInv, NEW r \in Requests, Joined(r) PROVE RegistryInv'
<1>1. /\ entries' = entries \ {r} /\ pc' = pc /\ requests' = requests /\ bulk' = bulk
      /\ execs' = IF r \in entries THEN execs - 1 ELSE execs
  BY DEF Joined, PermitsAfterJoin, Tails
<1>2. Launching' = Launching
  BY <1>1 DEF Launching
<1>3. entries \subseteq Requests
  BY ExecsAreRequests DEF RegistryInv, Registered
<1>4. /\ Cardinality(entries') = IF r \in entries THEN Cardinality(entries) - 1
                                 ELSE Cardinality(entries)
  BY <1>1, <1>3, Finite, FS_RemoveElement
<1>5. Cardinality(entries) \in Nat /\ Cardinality(Launching) \in Nat
  BY <1>3, Finite DEF Launching
<1>6. Registered'
  BY <1>1, <1>2 DEF RegistryInv, Registered
<1>7. Permits' /\ Reserve'
  BY <1>1, <1>2, <1>4, <1>5 DEF RegistryInv, Permits, Reserve, SharedSlots, Bulk, Other
<1> QED BY <1>6, <1>7 DEF RegistryInv

(* A refusal takes an id that was never registered.                        *)
LEMMA RegistryRefuses ==
  ASSUME RegistryInv, NEW r \in Requests, pc[r] = "new",
         pc' = [pc EXCEPT ![r] = "refused"], UNCHANGED <<requests, bulk, execs, entries>>
  PROVE  RegistryInv'
<1>1. Launching' = Launching
  BY DEF Launching, RegistryInv, Registered, Steps
<1>2. Registered'
  BY <1>1 DEF RegistryInv, Registered, Steps, Active
<1>3. Permits' /\ Reserve'
  BY <1>1 DEF RegistryInv, Permits, Reserve, SharedSlots, Bulk, Other
<1> QED BY <1>2, <1>3 DEF RegistryInv

(* Every step keeps the registry, the permits and the reserve.             *)
LEMMA RegistryStep == ASSUME RegistryInv, OutcomeInv, Next PROVE RegistryInv'
<1>1. ASSUME SendRefusal PROVE RegistryInv'
  BY <1>1, RegistryUntouched DEF SendRefusal, regVars, registry, owners, ends, lanes, flags, vars
<1>2. ASSUME NEW r \in Requests, TakeHandle(r) PROVE RegistryInv'
  BY <1>2, RegistryUntouched DEF TakeHandle, regVars, registry, owners, ends, lanes, flags, vars
<1>3. ASSUME FlipToken PROVE RegistryInv'
  BY <1>3, RegistryUntouched DEF FlipToken, regVars, registry, owners, ends, lanes, flags, vars
<1>4. ASSUME WakeProducers PROVE RegistryInv'
  BY <1>4, RegistryUntouched DEF WakeProducers, regVars, registry, owners, ends, lanes, flags, vars
<1>5. ASSUME Leave PROVE RegistryInv'
  BY <1>5, RegistryUntouched DEF Leave, regVars, registry, owners, ends, lanes, flags, vars
<1>6. ASSUME Drained PROVE RegistryInv'
  BY <1>6, RegistryUntouched DEF Drained, regVars, registry, owners, ends, lanes, flags, vars
<1>7. ASSUME SendBye PROVE RegistryInv'
  BY <1>7, RegistryUntouched DEF SendBye, regVars, registry, owners, ends, lanes, flags, vars
<1>8. ASSUME Halt PROVE RegistryInv'
  BY <1>8, RegistryUntouched DEF Halt, regVars, registry, owners, ends, lanes, flags, vars
<1>9. ASSUME Join PROVE RegistryInv'
  BY <1>9, RegistryUntouched DEF Join, regVars, registry, owners, ends, lanes, flags, vars
<1>10. ASSUME PopControl PROVE RegistryInv'
  BY <1>10, RegistryUntouched DEF PopControl, Pops, regVars, registry, owners, ends, lanes, flags, vars
<1>11. ASSUME PopData PROVE RegistryInv'
  BY <1>11, RegistryUntouched DEF PopData, Pops, regVars, registry, owners, ends, lanes, flags, vars
<1>12. ASSUME PopNothing PROVE RegistryInv'
  BY <1>12, RegistryUntouched DEF PopNothing, regVars, registry, owners, ends, lanes, flags, vars
<1>13. ASSUME WriterHalts PROVE RegistryInv'
  BY <1>13, RegistryUntouched DEF WriterHalts, regVars, registry, owners, ends, lanes, flags, vars
<1>14. ASSUME Write PROVE RegistryInv'
  BY <1>14, RegistryUntouched DEF Write, regVars, registry, owners, ends, lanes, flags, vars
<1>15. ASSUME WriteFails PROVE RegistryInv'
  BY <1>15, RegistryUntouched DEF WriteFails, regVars, registry, owners, ends, lanes, flags, vars
<1>16. ASSUME PeerFails PROVE RegistryInv'
  BY <1>16, RegistryUntouched DEF PeerFails, regVars, registry, owners, ends, lanes, flags, vars
<1>17. ASSUME SendEvent PROVE RegistryInv'
  BY <1>17, RegistryUntouched DEF SendEvent, regVars, registry, owners, ends, lanes, flags, vars
<1>18. ASSUME NEW r \in Requests, AnswerResize(r) PROVE RegistryInv'
  BY <1>18, RegistryUntouched DEF AnswerResize, regVars, registry, owners, ends, lanes, flags, vars
<1>19. ASSUME NEW r \in Requests, TakeStops(r) PROVE RegistryInv'
  BY <1>19, RegistryUntouched DEF TakeStops, Pumps, regVars, registry, owners, ends, lanes, flags, vars
<1>20. ASSUME NEW r \in Requests, TakeDiscards(r) PROVE RegistryInv'
  BY <1>20, RegistryUntouched DEF TakeDiscards, Pumps, regVars, registry, owners, ends, lanes, flags, vars
<1>21. ASSUME NEW r \in Requests, TakeCredit(r) PROVE RegistryInv'
  BY <1>21, RegistryUntouched DEF TakeCredit, Pumps, regVars, registry, owners, ends, lanes, flags, vars
<1>22. ASSUME NEW r \in Requests, Reads(r) PROVE RegistryInv'
  BY <1>22, RegistryUntouched DEF Reads, Pumps, AfterDrain, regVars, registry, owners, ends, lanes, flags, vars
<1>23. ASSUME NEW r \in Requests, Grant(r) PROVE RegistryInv'
  BY <1>23, RegistryUntouched DEF Grant, regVars, registry, owners, ends, lanes, flags, vars
<1>24. ASSUME NEW r \in Requests, Abandon(r) PROVE RegistryInv'
  BY <1>24, RegistryUntouched DEF Abandon, regVars, registry, owners, ends, lanes, flags, vars
<1>25. ASSUME NEW r \in Requests, InputEnds(r) PROVE RegistryInv'
  BY <1>25, RegistryUntouched DEF InputEnds, regVars, registry, owners, ends, lanes, flags, vars
<1>26. ASSUME NEW r \in Requests, PushEnqueues(r) PROVE RegistryInv'
  BY <1>26, RegistryUntouched DEF PushEnqueues, Pumps, regVars, registry, owners, ends, lanes, flags, vars
<1>27. ASSUME NEW r \in Requests, PushAbandons(r) PROVE RegistryInv'
  BY <1>27, RegistryUntouched DEF PushAbandons, Pumps, regVars, registry, owners, ends, lanes, flags, vars
<1>28. ASSUME NEW r \in Requests, PushFinds(r) PROVE RegistryInv'
  BY <1>28, RegistryUntouched DEF PushFinds, regVars, registry, owners, ends, lanes, flags, vars
<1>29. ASSUME NEW r \in Requests, PushParks(r) PROVE RegistryInv'
  BY <1>29, RegistryUntouched DEF PushParks, regVars, registry, owners, ends, lanes, flags, vars
<1>30. ASSUME NEW r \in Requests, EndStream(r) PROVE RegistryInv'
  BY <1>30, RegistryUntouched DEF EndStream, Pumps, regVars, registry, owners, ends, lanes, flags, vars
<1>31. ASSUME NEW r \in Requests, FlushStarts(r) PROVE RegistryInv'
  BY <1>31, RegistryUntouched DEF FlushStarts, Tails, regVars, registry, owners, ends, lanes, flags, vars
<1>32. ASSUME NEW r \in Requests, FlushEnds(r) PROVE RegistryInv'
  BY <1>32, RegistryUntouched DEF FlushEnds, Tails, regVars, registry, owners, ends, lanes, flags, vars
<1>33. ASSUME NEW r \in Requests, FlushFinds(r) PROVE RegistryInv'
  BY <1>33, RegistryUntouched DEF FlushFinds, regVars, registry, owners, ends, lanes, flags, vars
<1>34. ASSUME NEW r \in Requests, FlushParks(r) PROVE RegistryInv'
  BY <1>34, RegistryUntouched DEF FlushParks, regVars, registry, owners, ends, lanes, flags, vars
<1>35. ASSUME NEW r \in Requests, SendExit(r) PROVE RegistryInv'
  BY <1>35, RegistryUntouched DEF SendExit, regVars, registry, owners, ends, lanes, flags, vars
<1>36. ASSUME NEW t \in Threads, ParkOnControl(t) PROVE RegistryInv'
  BY <1>36, RegistryUntouched DEF ParkOnControl, regVars, registry, owners, ends, lanes, flags, vars
<1>37. ASSUME NEW r \in Requests, Admit(r) PROVE RegistryInv'
  <2>1. pc[r] = "new"
    BY <1>37 DEF Admit, OutcomeInv, AtReader
  <2> QED BY <1>37, <2>1, RegistryAdmits
<1>38. ASSUME NEW r \in Requests, Refuse(r) PROVE RegistryInv'
  <2>1. pc[r] = "new" /\ pc' = [pc EXCEPT ![r] = "refused"]
        /\ UNCHANGED <<requests, bulk, execs, entries>>
    BY <1>38 DEF Refuse, OutcomeInv, AtReader, registry
  <2> QED BY <2>1, RegistryRefuses
<1>39. ASSUME NEW r \in Requests, Authorize(r) PROVE RegistryInv'
  <2>1. /\ pc[r] = "new" /\ UNCHANGED <<requests, bulk, execs, entries>>
        /\ pc' = pc \/ pc' = [pc EXCEPT ![r] = "refused"]
    BY <1>39 DEF Authorize, registry
  <2> QED BY <2>1, RegistryRefuses, RegistryUntouched DEF regVars
<1>40. ASSUME NEW r \in Requests, Settle(r) PROVE RegistryInv'
  BY <1>40, RegistrySettles
<1>41. ASSUME NEW r \in Requests, AcquireExec(r) \/ Launched(r) \/ LaunchFails(r) PROVE RegistryInv'
  BY <1>41, RegistryLaunches
<1>42. ASSUME NEW r \in Requests, Joined(r) PROVE RegistryInv'
  BY <1>42, RegistryJoins
<1>43. ASSUME RevokeExecs PROVE RegistryInv'
  BY <1>43, RegistryRevokes DEF RevokeExecs, owners
<1>44. ASSUME NEW r \in Requests, FlowRevoke(r) PROVE RegistryInv'
  BY <1>44, RegistryRevokes DEF FlowRevoke, owners
<1>45. ASSUME NEW r \in Requests, Reply(r) \/ StreamEnds(r) PROVE RegistryInv'
  BY <1>45, RegistryMoves DEF Reply, StreamEnds, AfterStream, registry
<1>46. ASSUME NEW r \in Requests, ExecRefused(r) \/ OpenRead(r) \/ HandOver(r) PROVE RegistryInv'
  BY <1>46, RegistryMoves DEF ExecRefused, OpenRead, HandOver, Runs
<1>47. ASSUME NEW r \in Requests, Dispatch(r) PROVE RegistryInv'
  <2>1. PICK victims \in SUBSET entries : RevokeLeases(victims)
    <3>1. \A victims \in Victims(r) : victims \in SUBSET entries
      BY DEF Victims
    <3> QED BY <1>47, <3>1 DEF Dispatch
  <2>2. victims \in SUBSET entries
    OBVIOUS
  <2>3. /\ pc[r] = "run" /\ pc' = [pc EXCEPT ![r] = "reply"]
        /\ UNCHANGED <<requests, bulk>>
    BY <1>47 DEF Dispatch, Runs
  <2>4. Launching' = Launching
    BY <2>3 DEF Launching, RegistryInv, Registered, Steps
  <2>5. entries \subseteq Requests
    BY ExecsAreRequests DEF RegistryInv, Registered
  <2>6. Cardinality(entries \ victims) = Cardinality(entries) - Cardinality(victims)
    <3>1. IsFiniteSet(entries) /\ entries \intersect victims = victims
      BY <2>2, <2>5, Finite
    <3> QED BY <3>1, FS_Difference
  <2>7. Cardinality(entries) \in Nat /\ Cardinality(victims) \in Nat
        /\ Cardinality(Launching) \in Nat
    BY <2>2, <2>5, Finite DEF Launching
  <2>8. Registered'
    BY <2>1, <2>3, <2>4 DEF RegistryInv, Registered, RevokeLeases, Steps, Active
  <2>9. Permits' /\ Reserve'
    BY <2>1, <2>3, <2>4, <2>6, <2>7
    DEF RegistryInv, Permits, Reserve, RevokeLeases, SharedSlots, Bulk, Other
  <2> QED BY <2>8, <2>9 DEF RegistryInv
<1> QED
  BY <1>1, <1>2, <1>3, <1>4, <1>5, <1>6, <1>7, <1>8, <1>9, <1>10,
     <1>11, <1>12, <1>13, <1>14, <1>15, <1>16, <1>17, <1>18, <1>19, <1>20,
     <1>21, <1>22, <1>23, <1>24, <1>25, <1>26, <1>27, <1>28, <1>29, <1>30,
     <1>31, <1>32, <1>33, <1>34, <1>35, <1>36, <1>37, <1>38, <1>39, <1>40,
     <1>41, <1>42, <1>43, <1>44, <1>45, <1>46, <1>47
  DEF Next, ReaderStep, ReaderRuns, WriterRuns, Transport, RequestRuns, Threads,
      ReadReturns, ChildWrites, KilledJoined, ChildEnds

LEMMA RegistryInit == Init => RegistryInv
<1> SUFFICES ASSUME Init PROVE RegistryInv
  OBVIOUS
<1>1. requests = {} /\ entries = {} /\ Launching = {} /\ Bulk({}) = {} /\ Other({}) = {}
  BY DEF Init, Launching, Bulk, Other
<1>2. Registered
  BY <1>1 DEF Init, Registered, Steps, Active
<1>3. Permits /\ Reserve
  <2>1. bulk = 0 /\ execs = 0
    BY DEF Init
  <2>2. Bulk(requests) = {} /\ Other(requests) = {}
    BY <1>1
  <2>3. Cardinality({}) = 0
    BY FS_EmptySet
  <2> QED
    BY <1>1, <2>1, <2>2, <2>3, SharedSlotsNat, SchedulerAssumption DEF Permits, Reserve
<1> QED BY <1>2, <1>3 DEF RegistryInv

LEMMA RegistryInvariant == Spec => []RegistryInv
<1>1. RegistryInv /\ OutcomeInv /\ [Next]_vars => RegistryInv'
  <2>1. RegistryInv /\ UNCHANGED vars => RegistryInv'
    BY RegistryUntouched DEF vars, registry, owners, regVars
  <2> QED BY <2>1, RegistryStep
<1> QED BY OutcomeInvariant, RegistryInit, <1>1, PTL DEF Spec

(* The budgets that admission and launches are decided on are those of the *)
(* registry and the exec table: no permit is lost or released twice, by    *)
(* whomever an exec is taken out of the table (serve/schedule.rs).         *)
THEOREM CountersAreTrue == Spec => []CountersAgree
<1>1. RegistryInv => CountersAgree
  BY DEF RegistryInv, Permits, CountersAgree, Bulk
<1> QED BY RegistryInvariant, <1>1, PTL

(* Control requests always find the reserve free, and bulk reads keep to   *)
(* their own bound, for any budgets (Scheduler::admit).                    *)
THEOREM ReserveIsKept == Spec => []ReserveKept
<1>1. RegistryInv => ReserveKept
  BY DEF RegistryInv, Reserve, ReserveKept, Bulk, Other
<1> QED BY RegistryInvariant, <1>1, PTL

-----------------------------------------------------------------------------
(* The session implements the ledger of its requests.                      *)
Seen == {r \in Requests : pc[r] \notin {"new", "absent"}}

(* Steps that leave the ledger as it is.                                   *)
LEMMA LedgerElsewhere ==
  ASSUME UNCHANGED <<pc, requests, outcomes, quiesced>> PROVE UNCHANGED Ledger!ledger
BY DEF Ledger!ledger

LEMMA LedgerMoves ==
  ASSUME RegistryInv, NEW r \in Requests, NEW where \in Steps \ {"new", "absent"},
         pc[r] \notin {"new", "absent"}, pc' = [pc EXCEPT ![r] = where],
         UNCHANGED <<requests, outcomes>>
  PROVE  /\ UNCHANGED quiesced => UNCHANGED Ledger!ledger
         /\ quiesced' = TRUE => Ledger!Retire
<1>1. Seen' = Seen
  BY DEF Seen, RegistryInv, Registered, Steps
<1> QED BY <1>1 DEF Seen, Ledger!ledger, Ledger!Retire

(* The first step of an id makes it seen, and no other id.                 *)
LEMMA LedgerSees ==
  ASSUME RegistryInv, NEW r \in Requests, NEW where \in Steps \ {"new", "absent"},
         pc[r] = "new", pc' = [pc EXCEPT ![r] = where]
  PROVE  r \notin Seen /\ Seen' = Seen \union {r}
BY DEF Seen, RegistryInv, Registered, Steps

(* The ledger counts its sets as the session does.                         *)
LEMMA LedgerCounts == ASSUME NEW S PROVE Ledger!Cardinality(S) = Cardinality(S)
BY DEF Ledger!Cardinality, Cardinality

LEMMA RoomIsLedgerRoom ==
  ASSUME RegistryInv, NEW r \in Requests PROVE Admissible(r) <=> Ledger!Room(r)
<1>1. Ledger!OfClass("bulk") = Bulk(requests)
  BY DEF Ledger!OfClass, Bulk
<1> QED BY <1>1, LedgerCounts DEF RegistryInv, Permits, Admissible, Ledger!Room

LEMMA AdmitAccepts ==
  ASSUME RegistryInv, OutcomeInv, NEW r \in Requests, Admit(r) PROVE Ledger!Accept(r)
<1>0. pc[r] = "new" /\ r \notin Stale
  BY DEF Admit, OutcomeInv, AtReader
<1>1. r \notin Seen /\ Seen' = Seen \union {r}
  BY <1>0, LedgerSees DEF Admit, Steps
<1> QED BY <1>0, <1>1, RoomIsLedgerRoom DEF Admit, Seen, world, Ledger!Accept

LEMMA RefuseRejects ==
  ASSUME RegistryInv, OutcomeInv, NEW r \in Requests, Refuse(r) PROVE Ledger!Reject(r)
<1>0. pc[r] = "new"
  BY DEF Refuse, OutcomeInv, AtReader
<1>1. r \notin Seen /\ Seen' = Seen \union {r}
  BY <1>0, LedgerSees DEF Refuse, Steps
<1> QED BY <1>1, RoomIsLedgerRoom DEF Refuse, Seen, registry, world, Ledger!Reject

(* The authority turns an id away for a reason of the ledger's.            *)
LEMMA AuthorityRejects ==
  ASSUME RegistryInv, NEW r \in Requests, Authorize(r)
  PROVE  Ledger!Reject(r) \/ UNCHANGED Ledger!ledger
<1>1. UNCHANGED <<requests, outcomes, quiesced>>
  BY DEF Authorize, registry, world
<1>2. CASE Authorized(r)
  <2>1. pc' = pc
    BY <1>2 DEF Authorize
  <2> QED BY <1>1, <2>1, LedgerElsewhere
<1>3. CASE ~Authorized(r)
  <2>1. pc[r] = "new" /\ pc' = [pc EXCEPT ![r] = "refused"]
    BY <1>3 DEF Authorize
  <2>2. r \notin Seen /\ Seen' = Seen \union {r}
    BY <2>1, LedgerSees DEF Steps
  <2> QED BY <1>1, <1>3, <2>2 DEF Authorized, Seen, Ledger!Reject
<1> QED BY <1>2, <1>3

(* An answer is the first one of an id the session has seen.               *)
LEMMA PushAnswers ==
  ASSUME OutcomeInv, NEW r \in Requests, pc[r] \notin {"new", "absent"}, outcomes[r] = 0,
         outcomes' = [outcomes EXCEPT ![r] = @ + 1], Seen' = Seen,
         UNCHANGED <<requests, quiesced>>
  PROVE  Ledger!Answer(r)
<1>1. r \in Seen
  BY DEF Seen
<1>2. outcomes' = [outcomes EXCEPT ![r] = 1]
  BY DEF OutcomeInv
<1> QED BY <1>1, <1>2 DEF Seen, Ledger!Answer

LEMMA RefusalAnswers ==
  ASSUME OutcomeInv, SendRefusal PROVE subject \in Requests /\ Ledger!Answer(subject)
<1>1. /\ subject \in Requests /\ pc[subject] = "refused" /\ outcomes[subject] = 0
      /\ outcomes' = [outcomes EXCEPT ![subject] = @ + 1]
      /\ pc' = pc /\ requests' = requests /\ quiesced' = quiesced
  BY DEF SendRefusal, OutcomeInv, AtReader, registry, world
<1>2. Seen' = Seen
  BY <1>1 DEF Seen
<1> QED BY <1>1, <1>2, PushAnswers

LEMMA ReplyAnswers ==
  ASSUME RegistryInv, OutcomeInv, NEW r \in Requests, Reply(r) PROVE Ledger!Answer(r)
<1>1. /\ pc[r] = "reply" /\ outcomes[r] = 0 /\ UNCHANGED <<requests, quiesced>>
      /\ outcomes' = [outcomes EXCEPT ![r] = @ + 1]
  BY DEF Reply, OutcomeInv, Resolved, registry, world
<1>2. \E where \in {"settle", "stream"} : pc' = [pc EXCEPT ![r] = where]
  BY DEF Reply
<1>3. Seen' = Seen
  BY <1>1, <1>2 DEF Seen, RegistryInv, Registered, Steps
<1> QED BY <1>1, <1>3, PushAnswers

LEMMA ResizeAnswers ==
  ASSUME OutcomeInv, NEW r \in Requests, AnswerResize(r) PROVE Ledger!Answer(r)
<1>1. /\ pc[r] \in {"settle", "done"} /\ outcomes[r] = 0
      /\ UNCHANGED <<pc, requests, quiesced>>
      /\ outcomes' = [outcomes EXCEPT ![r] = @ + 1]
  BY DEF AnswerResize, OutcomeInv, Owed, registry
<1>2. Seen' = Seen
  BY <1>1 DEF Seen
<1> QED BY <1>1, <1>2, PushAnswers

LEMMA SettleCloses ==
  ASSUME RegistryInv, OutcomeInv, NEW r \in Requests, Settle(r) PROVE Ledger!Close(r)
<1>1. /\ pc[r] = "settle" /\ pc' = [pc EXCEPT ![r] = "done"]
      /\ requests' = requests \ {r} /\ UNCHANGED <<outcomes, quiesced>>
  BY DEF Settle, world
<1>2. r \in requests /\ (outcomes[r] = 1 \/ r \in Resizes)
  BY <1>1 DEF RegistryInv, Registered, Active, OutcomeInv, Resolved
<1>3. Seen' = Seen
  BY <1>1 DEF Seen, RegistryInv, Registered, Steps
<1> QED BY <1>1, <1>2, <1>3 DEF Seen, Ledger!Close

(* Every step of the session is a step of the ledger or leaves it alone.   *)
LEMMA LedgerStep ==
  ASSUME RegistryInv, OutcomeInv, Next PROVE Ledger!Next \/ UNCHANGED Ledger!ledger
<1>1. ASSUME NEW r \in Requests, TakeHandle(r) PROVE Ledger!Next \/ UNCHANGED Ledger!ledger
  BY <1>1, LedgerElsewhere DEF TakeHandle, registry, owners, ends, world
<1>2. ASSUME FlipToken PROVE Ledger!Next \/ UNCHANGED Ledger!ledger
  BY <1>2, LedgerElsewhere DEF FlipToken, registry, owners, ends, world
<1>3. ASSUME WakeProducers PROVE Ledger!Next \/ UNCHANGED Ledger!ledger
  BY <1>3, LedgerElsewhere DEF WakeProducers, registry, owners, ends, world
<1>4. ASSUME Leave PROVE Ledger!Next \/ UNCHANGED Ledger!ledger
  BY <1>4, LedgerElsewhere DEF Leave, registry, owners, ends, world
<1>5. ASSUME Drained PROVE Ledger!Next \/ UNCHANGED Ledger!ledger
  BY <1>5, LedgerElsewhere DEF Drained, registry, owners, ends, world
<1>6. ASSUME SendBye PROVE Ledger!Next \/ UNCHANGED Ledger!ledger
  BY <1>6, LedgerElsewhere DEF SendBye, registry, owners, ends, world
<1>7. ASSUME Halt PROVE Ledger!Next \/ UNCHANGED Ledger!ledger
  BY <1>7, LedgerElsewhere DEF Halt, registry, owners, ends, world
<1>8. ASSUME Join PROVE Ledger!Next \/ UNCHANGED Ledger!ledger
  BY <1>8, LedgerElsewhere DEF Join, registry, owners, ends, world
<1>9. ASSUME PopControl PROVE Ledger!Next \/ UNCHANGED Ledger!ledger
  BY <1>9, LedgerElsewhere DEF PopControl, Pops, registry, owners, ends, world
<1>10. ASSUME PopData PROVE Ledger!Next \/ UNCHANGED Ledger!ledger
  BY <1>10, LedgerElsewhere DEF PopData, Pops, registry, owners, ends, world
<1>11. ASSUME PopNothing PROVE Ledger!Next \/ UNCHANGED Ledger!ledger
  BY <1>11, LedgerElsewhere DEF PopNothing, registry, owners, ends, world
<1>12. ASSUME WriterHalts PROVE Ledger!Next \/ UNCHANGED Ledger!ledger
  BY <1>12, LedgerElsewhere DEF WriterHalts, registry, owners, ends, world
<1>13. ASSUME Write PROVE Ledger!Next \/ UNCHANGED Ledger!ledger
  BY <1>13, LedgerElsewhere DEF Write, registry, owners, ends, world
<1>14. ASSUME WriteFails PROVE Ledger!Next \/ UNCHANGED Ledger!ledger
  BY <1>14, LedgerElsewhere DEF WriteFails, registry, owners, ends, world
<1>15. ASSUME PeerFails PROVE Ledger!Next \/ UNCHANGED Ledger!ledger
  BY <1>15, LedgerElsewhere DEF PeerFails, registry, owners, ends, world
<1>16. ASSUME SendEvent PROVE Ledger!Next \/ UNCHANGED Ledger!ledger
  BY <1>16, LedgerElsewhere DEF SendEvent, registry, owners, ends, world
<1>17. ASSUME NEW r \in Requests, TakeStops(r) PROVE Ledger!Next \/ UNCHANGED Ledger!ledger
  BY <1>17, LedgerElsewhere DEF TakeStops, Pumps, registry, owners, ends, world
<1>18. ASSUME NEW r \in Requests, TakeDiscards(r) PROVE Ledger!Next \/ UNCHANGED Ledger!ledger
  BY <1>18, LedgerElsewhere DEF TakeDiscards, Pumps, registry, owners, ends, world
<1>19. ASSUME NEW r \in Requests, TakeCredit(r) PROVE Ledger!Next \/ UNCHANGED Ledger!ledger
  BY <1>19, LedgerElsewhere DEF TakeCredit, Pumps, registry, owners, ends, world
<1>20. ASSUME NEW r \in Requests, Reads(r) PROVE Ledger!Next \/ UNCHANGED Ledger!ledger
  BY <1>20, LedgerElsewhere DEF Reads, Pumps, AfterDrain, registry, owners, ends, world
<1>21. ASSUME NEW r \in Requests, Grant(r) PROVE Ledger!Next \/ UNCHANGED Ledger!ledger
  BY <1>21, LedgerElsewhere DEF Grant, registry, owners, ends, world
<1>22. ASSUME NEW r \in Requests, Abandon(r) PROVE Ledger!Next \/ UNCHANGED Ledger!ledger
  BY <1>22, LedgerElsewhere DEF Abandon, registry, owners, ends, world
<1>23. ASSUME NEW r \in Requests, InputEnds(r) PROVE Ledger!Next \/ UNCHANGED Ledger!ledger
  BY <1>23, LedgerElsewhere DEF InputEnds, registry, owners, ends, world
<1>24. ASSUME NEW r \in Requests, PushEnqueues(r) PROVE Ledger!Next \/ UNCHANGED Ledger!ledger
  BY <1>24, LedgerElsewhere DEF PushEnqueues, Pumps, registry, owners, ends, world
<1>25. ASSUME NEW r \in Requests, PushAbandons(r) PROVE Ledger!Next \/ UNCHANGED Ledger!ledger
  BY <1>25, LedgerElsewhere DEF PushAbandons, Pumps, registry, owners, ends, world
<1>26. ASSUME NEW r \in Requests, PushFinds(r) PROVE Ledger!Next \/ UNCHANGED Ledger!ledger
  BY <1>26, LedgerElsewhere DEF PushFinds, registry, owners, ends, world
<1>27. ASSUME NEW r \in Requests, PushParks(r) PROVE Ledger!Next \/ UNCHANGED Ledger!ledger
  BY <1>27, LedgerElsewhere DEF PushParks, registry, owners, ends, world
<1>28. ASSUME NEW r \in Requests, EndStream(r) PROVE Ledger!Next \/ UNCHANGED Ledger!ledger
  BY <1>28, LedgerElsewhere DEF EndStream, Pumps, registry, owners, ends, world
<1>29. ASSUME NEW r \in Requests, FlushStarts(r) PROVE Ledger!Next \/ UNCHANGED Ledger!ledger
  BY <1>29, LedgerElsewhere DEF FlushStarts, Tails, registry, owners, ends, world
<1>30. ASSUME NEW r \in Requests, FlushEnds(r) PROVE Ledger!Next \/ UNCHANGED Ledger!ledger
  BY <1>30, LedgerElsewhere DEF FlushEnds, Tails, registry, owners, ends, world
<1>31. ASSUME NEW r \in Requests, FlushFinds(r) PROVE Ledger!Next \/ UNCHANGED Ledger!ledger
  BY <1>31, LedgerElsewhere DEF FlushFinds, registry, owners, ends, world
<1>32. ASSUME NEW r \in Requests, FlushParks(r) PROVE Ledger!Next \/ UNCHANGED Ledger!ledger
  BY <1>32, LedgerElsewhere DEF FlushParks, registry, owners, ends, world
<1>33. ASSUME NEW r \in Requests, SendExit(r) PROVE Ledger!Next \/ UNCHANGED Ledger!ledger
  BY <1>33, LedgerElsewhere DEF SendExit, registry, owners, ends, world
<1>34. ASSUME NEW r \in Requests, Joined(r) PROVE Ledger!Next \/ UNCHANGED Ledger!ledger
  BY <1>34, LedgerElsewhere DEF Joined, Tails, registry, owners, ends, world
<1>35. ASSUME RevokeExecs PROVE Ledger!Next \/ UNCHANGED Ledger!ledger
  BY <1>35 DEF RevokeExecs, RevokeLeases, owners, Ledger!Next, Ledger!Retire
<1>36. ASSUME NEW r \in Requests, FlowRevoke(r) PROVE Ledger!Next \/ UNCHANGED Ledger!ledger
  BY <1>36, LedgerElsewhere DEF FlowRevoke, RevokeLeases, registry, owners, ends, world
<1>37. ASSUME NEW t \in Threads, ParkOnControl(t) PROVE Ledger!Next \/ UNCHANGED Ledger!ledger
  BY <1>37, LedgerElsewhere DEF ParkOnControl, registry, owners, world
<1>38. ASSUME NEW r \in Requests, Admit(r) PROVE Ledger!Next \/ UNCHANGED Ledger!ledger
  BY <1>38, AdmitAccepts DEF Ledger!Next
<1>39. ASSUME NEW r \in Requests, Refuse(r) PROVE Ledger!Next \/ UNCHANGED Ledger!ledger
  BY <1>39, RefuseRejects DEF Ledger!Next
<1>40. ASSUME NEW r \in Requests, Authorize(r) PROVE Ledger!Next \/ UNCHANGED Ledger!ledger
  BY <1>40, AuthorityRejects DEF Ledger!Next
<1>41. ASSUME NEW r \in Requests, Reply(r) PROVE Ledger!Next \/ UNCHANGED Ledger!ledger
  BY <1>41, ReplyAnswers DEF Ledger!Next
<1>42. ASSUME NEW r \in Requests, Settle(r) PROVE Ledger!Next \/ UNCHANGED Ledger!ledger
  BY <1>42, SettleCloses DEF Ledger!Next
<1>43. ASSUME SendRefusal PROVE Ledger!Next \/ UNCHANGED Ledger!ledger
  BY <1>43, RefusalAnswers DEF Ledger!Next
<1>44. ASSUME NEW r \in Requests, AnswerResize(r) PROVE Ledger!Next \/ UNCHANGED Ledger!ledger
  BY <1>44, ResizeAnswers DEF Ledger!Next
<1>45. ASSUME NEW r \in Requests, Launched(r) PROVE Ledger!Next \/ UNCHANGED Ledger!ledger
  BY <1>45, LedgerMoves DEF Launched, Steps, world
<1>46. ASSUME NEW r \in Requests, LaunchFails(r) PROVE Ledger!Next \/ UNCHANGED Ledger!ledger
  BY <1>46, LedgerMoves DEF LaunchFails, Steps, world
<1>47. ASSUME NEW r \in Requests, StreamEnds(r) PROVE Ledger!Next \/ UNCHANGED Ledger!ledger
  BY <1>47, LedgerMoves DEF StreamEnds, registry, AfterStream, Steps, world
<1>48. ASSUME NEW r \in Requests, ExecRefused(r) PROVE Ledger!Next \/ UNCHANGED Ledger!ledger
  BY <1>48, LedgerMoves DEF ExecRefused, Runs, Steps, world
<1>49. ASSUME NEW r \in Requests, AcquireExec(r) PROVE Ledger!Next \/ UNCHANGED Ledger!ledger
  BY <1>49, LedgerMoves DEF AcquireExec, Runs, Steps, world
<1>50. ASSUME NEW r \in Requests, OpenRead(r) PROVE Ledger!Next \/ UNCHANGED Ledger!ledger
  BY <1>50, LedgerMoves DEF OpenRead, Runs, Steps, world
<1>51. ASSUME NEW r \in Requests, Dispatch(r) PROVE Ledger!Next \/ UNCHANGED Ledger!ledger
  <2>1. quiesced' = quiesced \/ quiesced' = TRUE
    BY <1>51 DEF Dispatch
  <2> QED BY <1>51, <2>1, LedgerMoves DEF Dispatch, Runs, Steps, Ledger!Next
<1>52. ASSUME NEW r \in Requests, HandOver(r) PROVE Ledger!Next \/ UNCHANGED Ledger!ledger
  BY <1>52, LedgerMoves DEF HandOver, Runs, Steps
<1> QED
  BY <1>1, <1>2, <1>3, <1>4, <1>5, <1>6, <1>7, <1>8, <1>9, <1>10,
     <1>11, <1>12, <1>13, <1>14, <1>15, <1>16, <1>17, <1>18, <1>19, <1>20,
     <1>21, <1>22, <1>23, <1>24, <1>25, <1>26, <1>27, <1>28, <1>29, <1>30,
     <1>31, <1>32, <1>33, <1>34, <1>35, <1>36, <1>37, <1>38, <1>39, <1>40,
     <1>41, <1>42, <1>43, <1>44, <1>45, <1>46, <1>47, <1>48, <1>49, <1>50,
     <1>51, <1>52
  DEF Next, ReaderStep, ReaderRuns, WriterRuns, Transport, RequestRuns, Threads,
      ReadReturns, ChildWrites, KilledJoined, ChildEnds

(* Whatever the reader, the writer, the request threads and a terminal's   *)
(* input thread do, and in whichever order, a session accepts, rejects,    *)
(* answers and closes its requests as the ledger does: an answer is never  *)
(* given twice and is missing from a closed request only if that is a      *)
(* resize, and no request is turned away while its class has room unless   *)
(* it is stale or a mutation after the quiesce (serve.rs, admit_request    *)
(* and run_request; the guard's check).                                    *)
THEOREM SessionKeepsLedger == Spec => KeepsLedger
<1>1. Init => Ledger!Init
  <2> SUFFICES ASSUME Init PROVE Ledger!Init
    OBVIOUS
  <2>1. PICK session \in Sessions :
          pc = [r \in Requests |-> IF r \in session THEN "new" ELSE "absent"]
    BY DEF Init
  <2>2. Seen = {}
    BY <2>1 DEF Seen
  <2> QED BY <2>2 DEF Init, Seen, Ledger!Init
<1>2. RegistryInv /\ OutcomeInv /\ [Next]_vars => [Ledger!Next]_(Ledger!ledger)
  <2>1. UNCHANGED vars => UNCHANGED Ledger!ledger
    BY LedgerElsewhere DEF vars, registry, owners, world
  <2> QED BY <2>1, LedgerStep
<1> QED
  BY RegistryInvariant, OutcomeInvariant, <1>1, <1>2, PTL
  DEF Spec, KeepsLedger, Ledger!Spec

-----------------------------------------------------------------------------
(* The opening of a stream and its chunks use different lanes.  A chunk    *)
(* exists only after its opening was pushed, and the writer turns to the   *)
(* data lane only when the control lane is empty and its hands are free:   *)
(* by then the opening is on the transport.                                *)
Controls == [frame : {"result", "exit"}, of : Requests] \union {Event, Bye}
Chunks   == [frame : {"chunk"}, of : Requests, last : BOOLEAN]
Reached  == [result : BOOLEAN, chunks : Nat, last : BOOLEAN, exit : BOOLEAN]
Streaming == {"loop", "read", "drain", "push", "end", "done"}

InControl(q) == \E i \in 1..Len(control) : control[i].frame = "result" /\ control[i].of = q
InHandOf(q)  == hand.frame = "result" /\ hand.of = q
Opened(q)    == sent[q].result \/ InHandOf(q) \/ InControl(q)

LanesTyped ==
  /\ control \in Seq(Controls) /\ data \in Seq(Chunks)
  /\ sent \in [Requests -> Reached]
  /\ pump \in [Requests -> {"none", "ready"} \union Streaming]
HandTyped ==
  /\ writer = "write" => hand \in Controls \union Chunks
  /\ writer # "write" => hand = NoFrame
PumpsOpened == \A q \in Requests : pump[q] \in Streaming => halted \/ Opened(q)
DataOpened  == \A i \in 1..Len(data) : Opened(data[i].of)
HandOpened  == hand.frame = "chunk" => sent[hand.of].result
Preceded    == \A q \in Requests : sent[q].chunks > 0 => sent[q].result
OpeningInv ==
  /\ LanesTyped /\ HandTyped /\ Preceded
  /\ peer = "up" => PumpsOpened /\ DataOpened /\ HandOpened

(* Steps that leave the lanes and the writer as they are and start no      *)
(* stream.                                                                 *)
LEMMA OpeningElsewhere ==
  ASSUME OpeningInv, UNCHANGED <<control, data, sent, hand, peer>>,
         writer' = writer \/ (writer # "write" /\ writer' # "write"),
         halted => halted',
         pump' \in [Requests -> {"none", "ready"} \union Streaming],
         \A q \in Requests : pump'[q] \in Streaming => pump[q] \in Streaming
  PROVE  OpeningInv'
<1>1. \A q : Opened(q)' = Opened(q)
  BY DEF Opened, InHandOf, InControl
<1>2. LanesTyped' /\ HandTyped' /\ Preceded'
  BY DEF OpeningInv, LanesTyped, HandTyped, Preceded
<1>3. peer' = "up" => PumpsOpened'
  BY <1>1 DEF OpeningInv, PumpsOpened
<1>4. peer' = "up" => DataOpened' /\ HandOpened'
  <2>1. \A i \in 1..Len(data) : Opened(data[i].of)' = Opened(data[i].of)
    BY <1>1 DEF Opened, InHandOf, InControl
  <2> QED BY <2>1 DEF OpeningInv, DataOpened, HandOpened
<1> QED BY <1>2, <1>3, <1>4 DEF OpeningInv

(* A pushed control frame hides nothing that was pushed before it.         *)
LEMMA ControlPushed ==
  ASSUME OpeningInv, NEW f \in Controls, SendControl(f), UNCHANGED <<sent, hand, writer, peer>>
  PROVE  /\ LanesTyped => control' \in Seq(Controls)
         /\ \A q : Opened(q) => Opened(q)'
         /\ halted' = halted /\ data' = data
         /\ f.frame = "result" => halted \/ Opened(f.of)'
<1>1. control \in Seq(Controls)
  BY DEF OpeningInv, LanesTyped
<1>2. CASE halted
  BY <1>2, <1>1 DEF SendControl, Opened, InHandOf, InControl
<1>3. CASE ~halted
  <2>1. control' \in Seq(Controls) /\ Len(control') = Len(control) + 1
        /\ control'[Len(control) + 1] = f
        /\ \A i \in 1..Len(control) : control'[i] = control[i]
    BY <1>1, <1>3 DEF SendControl
  <2>2. \A q : InControl(q) => InControl(q)'
    BY <1>1, <2>1 DEF InControl
  <2>3. f.frame = "result" => InControl(f.of)'
    BY <1>1, <2>1 DEF InControl
  <2> QED BY <2>1, <2>2, <2>3 DEF SendControl, Opened, InHandOf
<1> QED BY <1>2, <1>3 DEF SendControl

(* The threads that push control frames other than a reply.                *)
LEMMA OpeningPushes ==
  ASSUME OpeningInv, NEW f \in Controls, SendControl(f),
         UNCHANGED <<sent, hand, writer, peer, pump>>
  PROVE  OpeningInv'
<1>1. /\ control' \in Seq(Controls) /\ \A q : Opened(q) => Opened(q)'
      /\ halted' = halted /\ data' = data
  BY ControlPushed DEF OpeningInv
<1>2. LanesTyped' /\ HandTyped' /\ Preceded'
  BY <1>1 DEF OpeningInv, LanesTyped, HandTyped, Preceded
<1>3. peer' = "up" => PumpsOpened' /\ DataOpened' /\ HandOpened'
  BY <1>1 DEF OpeningInv, PumpsOpened, DataOpened, HandOpened
<1> QED BY <1>2, <1>3 DEF OpeningInv

LEMMA OpeningReplies ==
  ASSUME OpeningInv, NEW r \in Requests, Reply(r) PROVE OpeningInv'
<1>1. Result(r) \in Controls /\ Result(r).frame = "result" /\ Result(r).of = r
  BY DEF Result, Controls
<1>2. SendControl(Result(r)) /\ UNCHANGED <<sent, hand, writer, peer>>
  BY DEF Reply, ends
<1>3. /\ control' \in Seq(Controls) /\ \A q : Opened(q) => Opened(q)'
      /\ halted' = halted /\ data' = data /\ (halted \/ Opened(r)')
  BY <1>1, <1>2, ControlPushed DEF OpeningInv
<1>4. pump' = pump \/ pump' = [pump EXCEPT ![r] = "loop"]
  BY DEF Reply
<1>5. LanesTyped' /\ HandTyped' /\ Preceded'
  BY <1>2, <1>3, <1>4 DEF OpeningInv, LanesTyped, HandTyped, Preceded, Streaming
<1>6. peer' = "up" => PumpsOpened'
  BY <1>2, <1>3, <1>4 DEF OpeningInv, LanesTyped, PumpsOpened
<1>7. peer' = "up" => DataOpened' /\ HandOpened'
  BY <1>2, <1>3 DEF OpeningInv, DataOpened, HandOpened
<1> QED BY <1>5, <1>6, <1>7 DEF OpeningInv

(* A chunk enters the data lane only behind its opening.                   *)
LEMMA OpeningProduces ==
  ASSUME OpeningInv, NEW r \in Requests, PushEnqueues(r) \/ EndStream(r) PROVE OpeningInv'
<1>1. /\ pump[r] \in Streaming /\ UNCHANGED <<control, halted, sent, hand, writer, peer>>
      /\ pump' \in [Requests -> {"none", "ready"} \union Streaming]
      /\ \A q \in Requests : pump'[q] \in Streaming => pump[q] \in Streaming
  BY DEF PushEnqueues, EndStream, Pumps, Enqueue, lanes, ends, OpeningInv, LanesTyped, Streaming
<1>2. CASE data' = data
  BY <1>1, <1>2, OpeningElsewhere
<1>3. CASE data' # data
  <2>1. PICK f \in Chunks : f.of = r /\ data' = Append(data, f) /\ ~halted
    <3>1. \A end \in BOOLEAN : Chunk(r, end) \in Chunks /\ Chunk(r, end).of = r
      BY DEF Chunk, Chunks
    <3> QED BY <1>3, <3>1 DEF PushEnqueues, EndStream, Enqueue, lanes
  <2>2. data \in Seq(Chunks)
    BY DEF OpeningInv, LanesTyped
  <2>3. /\ data' \in Seq(Chunks) /\ Len(data') = Len(data) + 1 /\ data'[Len(data) + 1] = f
        /\ \A i \in 1..Len(data) : data'[i] = data[i]
    BY <2>1, <2>2
  <2>4. \A q : Opened(q)' = Opened(q)
    BY <1>1 DEF Opened, InHandOf, InControl
  <2>5. LanesTyped' /\ HandTyped' /\ Preceded'
    BY <1>1, <2>3 DEF OpeningInv, LanesTyped, HandTyped, Preceded
  <2>6. peer' = "up" => PumpsOpened' /\ HandOpened'
    BY <1>1, <2>4 DEF OpeningInv, PumpsOpened, HandOpened
  <2>7. peer' = "up" => DataOpened'
    <3> SUFFICES ASSUME peer' = "up", NEW i \in 1..Len(data') PROVE Opened(data[i].of)'
      BY DEF DataOpened
    <3>1. peer = "up"
      BY <1>1
    <3>2. CASE i = Len(data) + 1
      <4>1. Opened(r)
        BY <1>1, <2>1, <3>1 DEF OpeningInv, PumpsOpened
      <4>2. data'[i].of = r
        BY <2>1, <2>3, <3>2
      <4> QED BY <1>1, <4>1, <4>2 DEF Opened, InHandOf, InControl
    <3>3. CASE i # Len(data) + 1
      <4>1. i \in 1..Len(data)
        BY <2>2, <2>3, <3>3
      <4>2. Opened(data[i].of) /\ data'[i] = data[i]
        BY <2>3, <3>1, <4>1 DEF OpeningInv, DataOpened
      <4> QED BY <1>1, <4>2 DEF Opened, InHandOf, InControl
    <3> QED BY <3>2, <3>3
  <2> QED BY <2>5, <2>6, <2>7 DEF OpeningInv
<1> QED BY <1>2, <1>3

LEMMA OpeningPopsControl == ASSUME OpeningInv, PopControl PROVE OpeningInv'
<1>1. /\ writer = "pop" /\ control # <<>> /\ control' = Tail(control) /\ hand' = Head(control)
      /\ writer' = "write" /\ UNCHANGED <<data, halted, sent, peer, pump>>
  BY DEF PopControl, Pops, owners
<1>2. control \in Seq(Controls) /\ hand.frame # "result"
  BY <1>1 DEF OpeningInv, LanesTyped, HandTyped, NoFrame
<1>3. /\ control' \in Seq(Controls) /\ Len(control') = Len(control) - 1 /\ hand' = control[1]
      /\ hand' \in Controls /\ \A i \in 1..Len(control') : control'[i] = control[i + 1]
  BY <1>1, <1>2
<1>4. \A q : Opened(q) => Opened(q)'
  <2> SUFFICES ASSUME NEW q, InControl(q) PROVE InHandOf(q)' \/ InControl(q)'
    BY <1>1, <1>2 DEF Opened, InHandOf
  <2>1. PICK i \in 1..Len(control) : control[i].frame = "result" /\ control[i].of = q
    BY DEF InControl
  <2>2. CASE i = 1
    BY <1>3, <2>1, <2>2 DEF InHandOf
  <2>3. CASE i # 1
    <3>1. i - 1 \in 1..Len(control') /\ control'[i - 1] = control[i]
      BY <1>2, <1>3, <2>3
    <3> QED BY <2>1, <3>1 DEF InControl
  <2> QED BY <2>2, <2>3
<1>5. LanesTyped' /\ HandTyped' /\ Preceded'
  BY <1>1, <1>3 DEF OpeningInv, LanesTyped, HandTyped, Preceded
<1>6. peer' = "up" => PumpsOpened' /\ DataOpened'
  BY <1>1, <1>4 DEF OpeningInv, PumpsOpened, DataOpened
<1>7. HandOpened'
  BY <1>3 DEF HandOpened, Controls, Event, Bye
<1> QED BY <1>5, <1>6, <1>7 DEF OpeningInv

(* Here the order of the lanes matters: nothing is left in the control     *)
(* lane and the writer holds nothing, so an opened stream's opening has    *)
(* reached the transport.                                                  *)
LEMMA OpeningPopsData == ASSUME OpeningInv, PopData PROVE OpeningInv'
<1>1. /\ writer = "pop" /\ control = <<>> /\ data # <<>> /\ data' = Tail(data)
      /\ hand' = Head(data) /\ writer' = "write"
      /\ UNCHANGED <<control, halted, sent, peer, pump>>
  BY DEF PopData, Pops, owners, DataTurn
<1>2. data \in Seq(Chunks) /\ hand.frame # "result"
  BY <1>1 DEF OpeningInv, LanesTyped, HandTyped, NoFrame
<1>3. \A q : Opened(q) => sent[q].result
  BY <1>1, <1>2 DEF Opened, InHandOf, InControl
<1>4. /\ data' \in Seq(Chunks) /\ Len(data') = Len(data) - 1 /\ hand' = data[1]
      /\ hand' \in Chunks /\ 1 \in 1..Len(data)
      /\ \A i \in 1..Len(data') : data'[i] = data[i + 1] /\ i + 1 \in 1..Len(data)
  BY <1>1, <1>2
<1>5. LanesTyped' /\ HandTyped' /\ Preceded'
  BY <1>1, <1>4 DEF OpeningInv, LanesTyped, HandTyped, Preceded
<1>6. peer' = "up" => HandOpened'
  BY <1>1, <1>3, <1>4 DEF OpeningInv, DataOpened, HandOpened
<1>7. \A q : Opened(q) => Opened(q)'
  BY <1>1, <1>3 DEF Opened
<1>8. peer' = "up" => PumpsOpened'
  BY <1>1, <1>7 DEF OpeningInv, PumpsOpened
<1>9. peer' = "up" => DataOpened'
  BY <1>1, <1>4, <1>7 DEF OpeningInv, DataOpened
<1> QED BY <1>5, <1>6, <1>8, <1>9 DEF OpeningInv

(* What one frame adds to what has reached the transport.                  *)
LEMMA SentAdds ==
  ASSUME NEW s \in Reached, NEW f, f.frame \in {"result", "exit", "chunk"},
         f.frame = "chunk" => f.last \in BOOLEAN
  PROVE  /\ Sent(s, f) \in Reached
         /\ Sent(s, f).result = (s.result \/ f.frame = "result")
         /\ Sent(s, f).chunks > 0 => s.chunks > 0 \/ f.frame = "chunk"
         /\ Sent(s, f).last = (s.last \/ (f.frame = "chunk" /\ f.last))
         /\ Sent(s, f).exit = (s.exit \/ f.frame = "exit")
<1>1. CASE f.frame = "result"
  BY <1>1 DEF Sent, Reached
<1>2. CASE f.frame = "exit"
  BY <1>2 DEF Sent, Reached
<1>3. CASE f.frame = "chunk"
  <2>1. PICK n \in Nat, b \in BOOLEAN : n = s.chunks + 1 /\ b = (s.last \/ f.last)
    BY <1>3 DEF Reached
  <2>2. Sent(s, f) = [s EXCEPT !.chunks = n, !.last = b]
    BY <1>3, <2>1 DEF Sent
  <2>3. /\ Sent(s, f) \in Reached /\ Sent(s, f).last = b /\ Sent(s, f).exit = s.exit
        /\ Sent(s, f).result = s.result
    BY <2>2 DEF Reached
  <2>4. s.exit \in BOOLEAN /\ s.result \in BOOLEAN
    BY DEF Reached
  <2> QED BY <1>3, <2>1, <2>3, <2>4
<1> QED BY <1>1, <1>2, <1>3

LEMMA OpeningWrites == ASSUME OpeningInv, Write PROVE OpeningInv'
<1>1. /\ writer = "write" /\ peer = "up" /\ hand' = NoFrame /\ writer' = "pop"
      /\ UNCHANGED <<control, data, halted, peer, pump>>
  BY DEF Write, owners
<1>2. hand \in Controls \union Chunks
  BY <1>1 DEF OpeningInv, HandTyped
<1>3. /\ sent \in [Requests -> Reached] /\ sent' \in [Requests -> Reached]
      /\ \A q \in Requests : sent[q].result => sent'[q].result
      /\ \A q \in Requests : InHandOf(q) => sent'[q].result
      /\ Preceded'
  <2>1. CASE hand \in {Event, Bye}
    <3>1. sent' = sent /\ hand.frame # "result"
      BY <2>1, ThreadAssumption DEF Write, Event, Bye
    <3> QED BY <3>1 DEF OpeningInv, LanesTyped, Preceded, InHandOf
  <2>2. CASE hand \in [frame : {"result", "exit"}, of : Requests] \union Chunks
    <3> DEFINE r == hand.of
    <3>1. r \in Requests /\ hand.frame \in {"result", "exit", "chunk"}
      BY <2>2 DEF Chunks
    <3>2. sent \in [Requests -> Reached] /\ sent' = [sent EXCEPT ![r] = Sent(sent[r], hand)]
      BY <3>1 DEF Write, OpeningInv, LanesTyped
    <3>3. hand.frame = "chunk" => hand.last \in BOOLEAN /\ sent[r].result
      BY <1>1, <2>2 DEF Chunks, OpeningInv, HandOpened
    <3>4. /\ sent[r] \in Reached /\ Sent(sent[r], hand) \in Reached
          /\ Sent(sent[r], hand).result = (sent[r].result \/ hand.frame = "result")
          /\ Sent(sent[r], hand).chunks > 0 => sent[r].chunks > 0 \/ hand.frame = "chunk"
      BY <3>1, <3>2, <3>3, SentAdds
    <3>5. /\ sent' \in [Requests -> Reached] /\ sent'[r] = Sent(sent[r], hand)
          /\ \A q \in Requests : q # r => sent'[q] = sent[q]
      BY <3>1, <3>2, <3>4
    <3>6. \A q \in Requests : sent[q].result \/ InHandOf(q) => sent'[q].result
      BY <3>4, <3>5 DEF InHandOf
    <3>7. Preceded'
      BY <3>3, <3>4, <3>5 DEF OpeningInv, Preceded
    <3> QED BY <3>2, <3>5, <3>6, <3>7
  <2> QED BY <1>2, <2>1, <2>2 DEF Controls
<1>4. \A q \in Requests : Opened(q) => Opened(q)'
  BY <1>1, <1>3 DEF Opened, InControl
<1>5. LanesTyped' /\ HandTyped' /\ HandOpened'
  BY <1>1, <1>3 DEF OpeningInv, LanesTyped, HandTyped, HandOpened, NoFrame
<1>6. PumpsOpened'
  BY <1>1, <1>4 DEF OpeningInv, PumpsOpened
<1>7. DataOpened'
  <2>1. \A i \in 1..Len(data) : data[i] \in Chunks
    BY DEF OpeningInv, LanesTyped
  <2>2. \A f \in Chunks : f.of \in Requests
    BY DEF Chunks
  <2>3. \A i \in 1..Len(data) : Opened(data[i].of)'
    BY <1>1, <1>4, <2>1, <2>2 DEF OpeningInv, DataOpened, Opened, InHandOf, InControl
  <2> QED BY <1>1, <2>3 DEF DataOpened
<1> QED BY <1>3, <1>5, <1>6, <1>7 DEF OpeningInv

(* After a failed write nothing more reaches the transport.                *)
LEMMA OpeningLost == ASSUME OpeningInv, WriteFails \/ PeerFails PROVE OpeningInv'
<1>1. /\ peer' # "up" /\ UNCHANGED <<control, data, sent, pump>>
      /\ (writer' = writer /\ hand' = hand) \/ (writer' = "halt" /\ hand' = NoFrame)
  BY DEF WriteFails, PeerFails, lanes, owners
<1> QED BY <1>1 DEF OpeningInv, LanesTyped, HandTyped, Preceded

(* Every step keeps the order of openings and chunks.                      *)
LEMMA OpeningStep == ASSUME OpeningInv, OutcomeInv, Next PROVE OpeningInv'
<1>1. ASSUME NEW r \in Requests, Admit(r) PROVE OpeningInv'
  BY <1>1, OpeningElsewhere DEF Admit, OpeningInv, LanesTyped, Streaming, registry, owners, ends, lanes, flags
<1>2. ASSUME NEW r \in Requests, Refuse(r) PROVE OpeningInv'
  BY <1>2, OpeningElsewhere DEF Refuse, OpeningInv, LanesTyped, Streaming, registry, owners, ends, lanes, flags
<1>3. ASSUME NEW r \in Requests, TakeHandle(r) PROVE OpeningInv'
  BY <1>3, OpeningElsewhere DEF TakeHandle, OpeningInv, LanesTyped, Streaming, registry, owners, ends, lanes, flags
<1>4. ASSUME NEW r \in Requests, FlowRevoke(r) PROVE OpeningInv'
  BY <1>4, OpeningElsewhere DEF FlowRevoke, OpeningInv, LanesTyped, Streaming, registry, owners, ends, lanes, flags
<1>5. ASSUME Leave PROVE OpeningInv'
  BY <1>5, OpeningElsewhere DEF Leave, OpeningInv, LanesTyped, Streaming, registry, owners, ends, lanes, flags
<1>6. ASSUME FlipToken PROVE OpeningInv'
  BY <1>6, OpeningElsewhere DEF FlipToken, OpeningInv, LanesTyped, Streaming, registry, owners, ends, lanes, flags
<1>7. ASSUME WakeProducers PROVE OpeningInv'
  BY <1>7, OpeningElsewhere DEF WakeProducers, OpeningInv, LanesTyped, Streaming, registry, owners, ends, lanes, flags
<1>8. ASSUME RevokeExecs PROVE OpeningInv'
  BY <1>8, OpeningElsewhere DEF RevokeExecs, OpeningInv, LanesTyped, Streaming, registry, owners, ends, lanes, flags
<1>9. ASSUME Drained PROVE OpeningInv'
  BY <1>9, OpeningElsewhere DEF Drained, OpeningInv, LanesTyped, Streaming, registry, owners, ends, lanes, flags
<1>10. ASSUME Halt PROVE OpeningInv'
  BY <1>10, OpeningElsewhere DEF Halt, OpeningInv, LanesTyped, Streaming, registry, owners, ends, lanes, flags
<1>11. ASSUME Join PROVE OpeningInv'
  BY <1>11, OpeningElsewhere DEF Join, OpeningInv, LanesTyped, Streaming, registry, owners, ends, lanes, flags
<1>12. ASSUME PopNothing PROVE OpeningInv'
  BY <1>12, OpeningElsewhere DEF PopNothing, OpeningInv, LanesTyped, Streaming, registry, owners, ends, lanes, flags
<1>13. ASSUME WriterHalts PROVE OpeningInv'
  BY <1>13, OpeningElsewhere DEF WriterHalts, OpeningInv, LanesTyped, Streaming, registry, owners, ends, lanes, flags
<1>14. ASSUME NEW r \in Requests, ExecRefused(r) PROVE OpeningInv'
  BY <1>14, OpeningElsewhere DEF ExecRefused, Runs, OpeningInv, LanesTyped, Streaming, registry, owners, ends, lanes, flags
<1>15. ASSUME NEW r \in Requests, AcquireExec(r) PROVE OpeningInv'
  BY <1>15, OpeningElsewhere DEF AcquireExec, Runs, OpeningInv, LanesTyped, Streaming, registry, owners, ends, lanes, flags
<1>16. ASSUME NEW r \in Requests, OpenRead(r) PROVE OpeningInv'
  BY <1>16, OpeningElsewhere DEF OpenRead, Runs, OpeningInv, LanesTyped, Streaming, registry, owners, ends, lanes, flags
<1>17. ASSUME NEW r \in Requests, Dispatch(r) PROVE OpeningInv'
  BY <1>17, OpeningElsewhere DEF Dispatch, Runs, OpeningInv, LanesTyped, Streaming, registry, owners, ends, lanes, flags
<1>18. ASSUME NEW r \in Requests, HandOver(r) PROVE OpeningInv'
  BY <1>18, OpeningElsewhere DEF HandOver, Runs, OpeningInv, LanesTyped, Streaming, registry, owners, ends, lanes, flags
<1>19. ASSUME NEW r \in Requests, Launched(r) PROVE OpeningInv'
  BY <1>19, OpeningElsewhere DEF Launched, OpeningInv, LanesTyped, Streaming, registry, owners, ends, lanes, flags
<1>20. ASSUME NEW r \in Requests, LaunchFails(r) PROVE OpeningInv'
  BY <1>20, OpeningElsewhere DEF LaunchFails, OpeningInv, LanesTyped, Streaming, registry, owners, ends, lanes, flags
<1>21. ASSUME NEW r \in Requests, StreamEnds(r) PROVE OpeningInv'
  BY <1>21, OpeningElsewhere DEF StreamEnds, OpeningInv, LanesTyped, Streaming, registry, owners, ends, lanes, flags
<1>22. ASSUME NEW r \in Requests, Settle(r) PROVE OpeningInv'
  BY <1>22, OpeningElsewhere DEF Settle, OpeningInv, LanesTyped, Streaming, registry, owners, ends, lanes, flags
<1>23. ASSUME NEW r \in Requests, TakeStops(r) PROVE OpeningInv'
  BY <1>23, OpeningElsewhere DEF TakeStops, Pumps, OpeningInv, LanesTyped, Streaming, registry, owners, ends, lanes, flags
<1>24. ASSUME NEW r \in Requests, TakeDiscards(r) PROVE OpeningInv'
  BY <1>24, OpeningElsewhere DEF TakeDiscards, Pumps, OpeningInv, LanesTyped, Streaming, registry, owners, ends, lanes, flags
<1>25. ASSUME NEW r \in Requests, TakeCredit(r) PROVE OpeningInv'
  BY <1>25, OpeningElsewhere DEF TakeCredit, Pumps, OpeningInv, LanesTyped, Streaming, registry, owners, ends, lanes, flags
<1>26. ASSUME NEW r \in Requests, Reads(r) PROVE OpeningInv'
  BY <1>26, OpeningElsewhere DEF Reads, Pumps, AfterDrain, OpeningInv, LanesTyped, Streaming, registry, owners, ends, lanes, flags
<1>27. ASSUME NEW r \in Requests, Grant(r) PROVE OpeningInv'
  BY <1>27, OpeningElsewhere DEF Grant, OpeningInv, LanesTyped, Streaming, registry, owners, ends, lanes, flags
<1>28. ASSUME NEW r \in Requests, Abandon(r) PROVE OpeningInv'
  BY <1>28, OpeningElsewhere DEF Abandon, OpeningInv, LanesTyped, Streaming, registry, owners, ends, lanes, flags
<1>29. ASSUME NEW r \in Requests, InputEnds(r) PROVE OpeningInv'
  BY <1>29, OpeningElsewhere DEF InputEnds, OpeningInv, LanesTyped, Streaming, registry, owners, ends, lanes, flags
<1>30. ASSUME NEW r \in Requests, Authorize(r) PROVE OpeningInv'
  BY <1>30, OpeningElsewhere DEF Authorize, OpeningInv, LanesTyped, Streaming, registry, owners, ends, lanes, flags
<1>31. ASSUME NEW r \in Requests, PushAbandons(r) PROVE OpeningInv'
  BY <1>31, OpeningElsewhere DEF PushAbandons, Pumps, OpeningInv, LanesTyped, Streaming, registry, owners, ends, lanes, flags
<1>32. ASSUME NEW r \in Requests, PushFinds(r) PROVE OpeningInv'
  BY <1>32, OpeningElsewhere DEF PushFinds, OpeningInv, LanesTyped, Streaming, registry, owners, ends, lanes, flags
<1>33. ASSUME NEW r \in Requests, PushParks(r) PROVE OpeningInv'
  BY <1>33, OpeningElsewhere DEF PushParks, OpeningInv, LanesTyped, Streaming, registry, owners, ends, lanes, flags
<1>34. ASSUME NEW r \in Requests, Joined(r) PROVE OpeningInv'
  BY <1>34, OpeningElsewhere DEF Joined, Tails, OpeningInv, LanesTyped, Streaming, registry, owners, ends, lanes, flags
<1>35. ASSUME NEW r \in Requests, FlushStarts(r) PROVE OpeningInv'
  BY <1>35, OpeningElsewhere DEF FlushStarts, Tails, OpeningInv, LanesTyped, Streaming, registry, owners, ends, lanes, flags
<1>36. ASSUME NEW r \in Requests, FlushEnds(r) PROVE OpeningInv'
  BY <1>36, OpeningElsewhere DEF FlushEnds, Tails, OpeningInv, LanesTyped, Streaming, registry, owners, ends, lanes, flags
<1>37. ASSUME NEW r \in Requests, FlushFinds(r) PROVE OpeningInv'
  BY <1>37, OpeningElsewhere DEF FlushFinds, OpeningInv, LanesTyped, Streaming, registry, owners, ends, lanes, flags
<1>38. ASSUME NEW r \in Requests, FlushParks(r) PROVE OpeningInv'
  BY <1>38, OpeningElsewhere DEF FlushParks, OpeningInv, LanesTyped, Streaming, registry, owners, ends, lanes, flags
<1>39. ASSUME NEW t \in Threads, ParkOnControl(t) PROVE OpeningInv'
  BY <1>39, OpeningElsewhere DEF ParkOnControl, OpeningInv, LanesTyped, Streaming, registry, owners, ends, lanes, flags
<1>40. ASSUME SendBye PROVE OpeningInv'
  <2>1. SendControl(Bye) /\ UNCHANGED <<sent, hand, writer, peer, pump>>
    BY <1>40 DEF SendBye, owners, ends
  <2>2. Bye \in Controls
    BY SMT DEF Controls, Bye
  <2> QED BY <2>1, <2>2, OpeningPushes
<1>41. ASSUME SendEvent PROVE OpeningInv'
  <2>1. SendControl(Event) /\ UNCHANGED <<sent, hand, writer, peer, pump>>
    BY <1>41 DEF SendEvent, owners, ends
  <2>2. Event \in Controls
    BY SMT DEF Controls, Event
  <2> QED BY <2>1, <2>2, OpeningPushes
<1>42. ASSUME NEW r \in Requests, SendExit(r) PROVE OpeningInv'
  <2>1. SendControl(Exit(r)) /\ UNCHANGED <<sent, hand, writer, peer, pump>>
    BY <1>42 DEF SendExit, owners, ends
  <2>2. Exit(r) \in Controls
    BY SMT DEF Controls, Exit
  <2> QED BY <2>1, <2>2, OpeningPushes
<1>43. ASSUME SendRefusal PROVE OpeningInv'
  <2>1. SendControl(Result(subject)) /\ UNCHANGED <<sent, hand, writer, peer, pump>>
    BY <1>43 DEF SendRefusal
  <2>2. Result(subject) \in Controls
    BY <1>43 DEF Controls, Result, OutcomeInv, AtReader, SendRefusal
  <2> QED BY <2>1, <2>2, OpeningPushes
<1>44. ASSUME NEW r \in Requests, AnswerResize(r) PROVE OpeningInv'
  <2>1. SendControl(Result(r)) /\ UNCHANGED <<sent, hand, writer, peer, pump>>
    BY <1>44 DEF AnswerResize, ends
  <2>2. Result(r) \in Controls
    BY SMT DEF Controls, Result
  <2> QED BY <2>1, <2>2, OpeningPushes
<1>45. ASSUME NEW r \in Requests, Reply(r) PROVE OpeningInv'
  BY <1>45, OpeningReplies
<1>46. ASSUME NEW r \in Requests, PushEnqueues(r) \/ EndStream(r) PROVE OpeningInv'
  BY <1>46, OpeningProduces
<1>47. ASSUME PopControl PROVE OpeningInv'
  BY <1>47, OpeningPopsControl
<1>48. ASSUME PopData PROVE OpeningInv'
  BY <1>48, OpeningPopsData
<1>49. ASSUME Write PROVE OpeningInv'
  BY <1>49, OpeningWrites
<1>50. ASSUME WriteFails \/ PeerFails PROVE OpeningInv'
  BY <1>50, OpeningLost
<1> QED
  BY <1>1, <1>2, <1>3, <1>4, <1>5, <1>6, <1>7, <1>8, <1>9, <1>10,
     <1>11, <1>12, <1>13, <1>14, <1>15, <1>16, <1>17, <1>18, <1>19, <1>20,
     <1>21, <1>22, <1>23, <1>24, <1>25, <1>26, <1>27, <1>28, <1>29, <1>30,
     <1>31, <1>32, <1>33, <1>34, <1>35, <1>36, <1>37, <1>38, <1>39, <1>40,
     <1>41, <1>42, <1>43, <1>44, <1>45, <1>46, <1>47, <1>48, <1>49, <1>50
  DEF Next, ReaderStep, ReaderRuns, WriterRuns, Transport, RequestRuns, Threads,
      ReadReturns, ChildWrites, KilledJoined, ChildEnds

LEMMA OpeningInvariant == Spec => []OpeningInv
<1>1. Init => OpeningInv
  <2> SUFFICES ASSUME Init PROVE OpeningInv
    OBVIOUS
  <2>1. LanesTyped
    BY DEF Init, LanesTyped, Nothing, Reached
  <2>2. HandTyped /\ Preceded /\ PumpsOpened /\ DataOpened /\ HandOpened
    BY DEF Init, HandTyped, Preceded, PumpsOpened, DataOpened, HandOpened, Nothing, NoFrame,
           Streaming
  <2> QED BY <2>1, <2>2 DEF OpeningInv
<1>2. OpeningInv /\ OutcomeInv /\ [Next]_vars => OpeningInv'
  <2>1. OpeningInv /\ UNCHANGED vars => OpeningInv'
    BY OpeningElsewhere DEF vars, OpeningInv, LanesTyped, registry, owners, ends, lanes, flags
  <2> QED BY <2>1, OpeningStep
<1> QED BY OutcomeInvariant, <1>1, <1>2, PTL DEF Spec

(* On the transport a stream's opening precedes its chunks, although the   *)
(* two use different lanes and any number of threads push and cancel       *)
(* (serve/schedule.rs, pop and push_chunk).                                *)
THEOREM OpeningsComeFirst == Spec => []OpeningPrecedesChunks
<1>1. OpeningInv => OpeningPrecedesChunks
  BY DEF OpeningInv, Preceded, OpeningPrecedesChunks
<1> QED BY OpeningInvariant, <1>1, PTL

-----------------------------------------------------------------------------
(* The exit of an exec and its output.  queued_data and written_data count *)
(* the chunks ever pushed and ever written, so until the session stops     *)
(* their difference is what the lane and the writer's hand hold, and a     *)
(* flush that saw queued_data waits for every chunk that was pushed before *)
(* it: the last one among them.  Within(r, n) says that the terminal chunk *)
(* of r is one of the first n chunks.                                      *)
InHand == IF hand.frame = "chunk" THEN 1 ELSE 0
IsLast(f, r) == f.frame = "chunk" /\ f.of = r /\ f.last
Within(r, n) ==
  \/ sent[r].last
  \/ IsLast(hand, r) /\ written + 1 <= n
  \/ \E i \in 1..Len(data) : IsLast(data[i], r) /\ written + InHand + i <= n

FlowTyped ==
  /\ queued \in Nat /\ written \in Nat /\ target \in [Requests -> Nat]
  /\ tail \in [Requests -> {"none", "join", "flush", "flushing", "exit", "done"}]
Counted == ~stop => queued = written + InHand + Len(data)

(* A pump that is done has pushed its terminal chunk, and the settlement   *)
(* of its exec goes on from there, unless the session is over.             *)
Over == halted \/ stop
Tailed(r) ==
  /\ pump[r] = "done" => Over \/ Within(r, queued)
  /\ tail[r] = "flush" => Over \/ Within(r, queued)
  /\ tail[r] = "flushing" => Over \/ Within(r, target[r])
  /\ tail[r] = "exit" => sent[r].last
ExitFrames ==
  /\ \A i \in 1..Len(control) : control[i].frame = "exit" => sent[control[i].of].last
  /\ hand.frame = "exit" => sent[hand.of].last
Concluded == \A r \in Requests : sent[r].exit => sent[r].last
ExitInv ==
  FlowTyped /\ Counted /\ ExitFrames /\ Concluded /\ \A r \in Requests : Tailed(r)

(* Where a step may take the settlement of an exec.                        *)
TailGoes(q) ==
  \/ tail'[q] \notin {"flush", "flushing", "exit"}
  \/ tail'[q] = tail[q] /\ target'[q] = target[q]
  \/ tail'[q] = "flush" /\ pump[q] = "done"
  \/ tail[q] = "flush" /\ tail'[q] = "flushing" /\ target'[q] = queued
  \/ tail[q] = "flushing" /\ tail'[q] = "exit" /\ ~Over /\ written >= target[q]
TailStays(q) == tail'[q] \notin {"flush", "flushing", "exit"} \/ tail'[q] = tail[q]

(* Steps that leave the lanes and the writer as they are.                  *)
LEMMA ExitElsewhere ==
  ASSUME ExitInv, FlowTyped', UNCHANGED <<control, data, queued, written, sent, hand>>,
         halted => halted', stop => stop',
         \A q \in Requests : pump'[q] = "done" => pump[q] = "done" \/ Over,
         \A q \in Requests : TailGoes(q)
  PROVE  ExitInv'
<1>1. InHand' = InHand /\ (Over => Over')
  BY DEF InHand, Over
<1>2. \A q, n : Within(q, n)' = Within(q, n)
  BY <1>1 DEF Within, IsLast
<1>3. Counted' /\ ExitFrames' /\ Concluded'
  BY <1>1 DEF ExitInv, Counted, ExitFrames, Concluded
<1>4. ASSUME NEW q \in Requests PROVE Tailed(q)'
  <2>1. Tailed(q) /\ TailGoes(q)
    BY DEF ExitInv
  <2>2. \A n : Within(q, n)' = Within(q, n)
    BY <1>2
  <2>3. Within(q, queued)' = Within(q, queued)
    BY <1>1 DEF Within, IsLast
  <2>4. pump'[q] = "done" => Over' \/ Within(q, queued)'
    BY <1>1, <2>1, <2>3 DEF Tailed
  <2>5. tail'[q] = "flush" => Over' \/ Within(q, queued)'
    BY <1>1, <2>1, <2>3 DEF Tailed, TailGoes
  <2>6. tail'[q] = "flushing" => Over' \/ Within(q, target[q])'
    <3>1. Within(q, target[q])' = Within(q, target'[q])
      BY <1>1 DEF Within, IsLast
    <3> QED BY <1>1, <2>1, <3>1 DEF Tailed, TailGoes
  <2>7. tail'[q] = "exit" => sent'[q].last
    <3>1. CASE tail[q] = "exit"
      BY <2>1, <3>1 DEF Tailed
    <3>2. CASE tail[q] = "flushing" /\ ~Over /\ written >= target[q]
      <4>1. Within(q, target[q]) /\ written \in Nat /\ target[q] \in Nat
        BY <2>1, <3>2 DEF Tailed, ExitInv, FlowTyped
      <4>2. ~(written + 1 <= target[q])
            /\ \A i \in 1..Len(data) : ~(written + InHand + i <= target[q])
        BY <3>2, <4>1 DEF InHand
      <4> QED BY <4>1, <4>2 DEF Within
    <3> QED BY <2>1, <3>1, <3>2 DEF TailGoes
  <2> QED BY <2>4, <2>5, <2>6, <2>7 DEF Tailed
<1> QED BY <1>3, <1>4 DEF ExitInv

LEMMA WithinGrows ==
  ASSUME NEW q, NEW n \in Nat, NEW m \in Nat, n <= m, written' \in Nat, Within(q, n)'
  PROVE  Within(q, m)'
<1>1. CASE sent'[q].last
  BY <1>1 DEF Within
<1>2. PICK w \in Nat, h \in Nat : w = written' /\ h = InHand'
  BY DEF InHand
<1>3. (w + 1 <= n => w + 1 <= m) /\ \A i \in Int : w + h + i <= n => w + h + i <= m
  OBVIOUS
<1>4. CASE IsLast(hand, q)' /\ written' + 1 <= n
  <2>1. w + 1 <= m
    BY <1>2, <1>3, <1>4
  <2> QED BY <1>2, <1>4, <2>1 DEF Within
<1>5. ASSUME NEW i \in 1..Len(data'), IsLast(data'[i], q), written' + InHand' + i <= n
      PROVE  Within(q, m)'
  <2>1. w + h + i <= n
    BY <1>2, <1>5
  <2>2. w + h + i <= m
    BY <1>3, <2>1
  <2> QED BY <1>2, <1>5, <2>2 DEF Within
<1> QED BY <1>1, <1>4, <1>5 DEF Within

(* A step that moves frames keeps what the settlements rest on if no       *)
(* terminal chunk falls back.                                              *)
LEMMA TailsKept ==
  ASSUME ExitInv, FlowTyped', queued' >= queued, UNCHANGED target,
         halted => halted', stop => stop',
         NEW q \in Requests, TailStays(q),
         sent[q].last => sent'[q].last,
         \A n \in Nat : Within(q, n) => Over' \/ Within(q, n)',
         pump'[q] = "done" => pump[q] = "done" \/ Over' \/ Within(q, queued)'
  PROVE  Tailed(q)'
<1>1. Tailed(q) /\ queued \in Nat /\ target[q] \in Nat /\ target'[q] = target[q]
      /\ (Over => Over') /\ queued' \in Nat /\ written' \in Nat /\ queued <= queued'
  BY DEF ExitInv, FlowTyped, Over
<1>2. Within(q, queued) => Over' \/ Within(q, queued)'
  <2> SUFFICES ASSUME Within(q, queued), ~Over' PROVE Within(q, queued)'
    OBVIOUS
  <2>1. PICK n \in Nat : n = queued
    BY <1>1
  <2>2. Within(q, n) /\ n <= queued'
    BY <1>1, <2>1
  <2>3. Within(q, n)'
    BY <2>2
  <2>4. PICK m \in Nat : m = queued'
    BY <1>1
  <2>5. Within(q, m)'
    BY <1>1, <2>2, <2>3, <2>4, WithinGrows
  <2> QED BY <2>4, <2>5 DEF Within
<1>3. Within(q, target[q]) => Over' \/ Within(q, target[q])'
  <2>1. PICK n \in Nat : n = target[q]
    BY <1>1
  <2>2. Within(q, n)' => Within(q, target[q])'
    BY <1>1, <2>1 DEF Within, IsLast
  <2> QED BY <2>1, <2>2
<1> QED BY <1>1, <1>2, <1>3 DEF Tailed, TailStays

(* A control frame changes nothing for the chunks; an exit is pushed when  *)
(* the terminal chunk has reached the transport.                           *)
LEMMA ExitPushes ==
  ASSUME OpeningInv, ExitInv, FlowTyped', NEW f \in Controls, SendControl(f),
         f.frame = "exit" => sent[f.of].last,
         UNCHANGED <<sent, hand, stop, target>>,
         \A q \in Requests : (pump'[q] = "done" => pump[q] = "done") /\ TailStays(q)
  PROVE  ExitInv'
<1>1. UNCHANGED <<data, queued, written, halted>> /\ control \in Seq(Controls)
  BY DEF SendControl, OpeningInv, LanesTyped
<1>2. InHand' = InHand /\ queued \in Nat
  BY DEF InHand, ExitInv, FlowTyped
<1>3. \A i \in 1..Len(control') :
        control'[i] = f \/ \E j \in 1..Len(control) : control'[i] = control[j]
  <2>1. CASE halted
    BY <2>1 DEF SendControl
  <2>2. CASE ~halted
    BY <1>1, <2>2 DEF SendControl
  <2> QED BY <2>1, <2>2
<1>4. Counted' /\ ExitFrames' /\ Concluded'
  BY <1>1, <1>2, <1>3 DEF ExitInv, Counted, ExitFrames, Concluded
<1>5. ASSUME NEW q \in Requests PROVE Tailed(q)'
  <2>1. \A n \in Nat : Within(q, n) => Over' \/ Within(q, n)'
    BY <1>1, <1>2 DEF Within, IsLast
  <2> QED BY <1>1, <1>2, <2>1, TailsKept
<1> QED BY <1>4, <1>5 DEF ExitInv

(* The terminal chunk is one of the chunks counted by queued_data.         *)
LEMMA ExitProduces ==
  ASSUME OpeningInv, ExitInv, NEW r \in Requests, PushEnqueues(r) \/ EndStream(r)
  PROVE  ExitInv'
<1>1. /\ UNCHANGED <<control, written, halted, stop, sent, hand, tail, target>>
      /\ pump' = [pump EXCEPT ![r] = pump'[r]]
  BY DEF PushEnqueues, EndStream, Pumps, Enqueue, lanes, ends, flags, OpeningInv, LanesTyped
<1>2. queued' = queued \/ queued' = queued + 1
  BY DEF PushEnqueues, EndStream, Enqueue, lanes
<1>3. FlowTyped' /\ queued' >= queued /\ InHand' = InHand
  BY <1>1, <1>2 DEF ExitInv, FlowTyped, InHand
<1>4. CASE EndStream(r) /\ halted
  <2>1. UNCHANGED <<data, queued>>
    BY <1>4 DEF EndStream, lanes
  <2> QED BY <1>1, <1>3, <1>4, <2>1, ExitElsewhere DEF Over, TailGoes, OpeningInv, LanesTyped
<1>5. CASE ~(EndStream(r) /\ halted)
  <2>1. PICK end \in BOOLEAN : /\ data' = Append(data, Chunk(r, end)) /\ queued' = queued + 1
                               /\ (~end /\ pump'[r] = "done") => stop
    BY <1>5 DEF PushEnqueues, EndStream, Enqueue, Pumps, OpeningInv, LanesTyped
  <2>2. data \in Seq(Chunks) /\ Chunk(r, end) \in Chunks
    BY DEF OpeningInv, LanesTyped, Chunk, Chunks
  <2>3. /\ Len(data') = Len(data) + 1 /\ data'[Len(data) + 1] = Chunk(r, end)
        /\ \A i \in 1..Len(data) : data'[i] = data[i] /\ i \in 1..Len(data')
    BY <2>1, <2>2
  <2>4. Counted' /\ ExitFrames' /\ Concluded'
    <3>1. Len(data) \in Nat /\ InHand \in Nat /\ written \in Nat
      BY <2>2 DEF InHand, ExitInv, FlowTyped
    <3>2. ~stop' => queued' = written' + InHand' + Len(data')
      BY <1>1, <1>3, <2>1, <2>3, <3>1 DEF ExitInv, Counted
    <3> QED BY <1>1, <3>2 DEF ExitInv, Counted, ExitFrames, Concluded
  <2>5. ASSUME NEW q \in Requests PROVE Tailed(q)'
    <3>1. \A n \in Nat : Within(q, n) => Over' \/ Within(q, n)'
      BY <1>1, <1>3, <2>3 DEF Within, IsLast
    <3>2. pump'[q] = "done" => pump[q] = "done" \/ Over' \/ Within(q, queued)'
      <4>1. CASE q # r
        BY <1>1, <4>1 DEF OpeningInv, LanesTyped
      <4>2. CASE q = r /\ end /\ ~stop
        <5>1. IsLast(Chunk(r, end), r)
          BY <4>2 DEF IsLast, Chunk
        <5>2. Len(data) + 1 \in 1..Len(data') /\ Len(data) \in Nat
          BY <2>2, <2>3
        <5>3. written + InHand + (Len(data) + 1) <= queued + 1
          BY <4>2, <5>2 DEF ExitInv, FlowTyped, Counted, InHand
        <5>4. IsLast(data'[Len(data) + 1], r)
                /\ written' + InHand' + (Len(data) + 1) <= queued'
          BY <1>1, <1>3, <2>1, <2>3, <5>1, <5>3
        <5>5. Within(r, queued)'
          BY <5>2, <5>4 DEF Within, IsLast
        <5> QED BY <4>2, <5>5
      <4>3. CASE q = r /\ (~end \/ stop)
        BY <1>1, <2>1, <4>3 DEF Over
      <4> QED BY <4>1, <4>2, <4>3
    <3> QED BY <1>1, <1>3, <3>1, <3>2, TailsKept DEF TailStays
  <2> QED BY <1>3, <2>4, <2>5 DEF ExitInv
<1> QED BY <1>4, <1>5

LEMMA ExitPopsControl == ASSUME OpeningInv, ExitInv, PopControl PROVE ExitInv'
<1>1. /\ writer = "pop" /\ control # <<>> /\ control' = Tail(control) /\ hand' = Head(control)
      /\ UNCHANGED <<data, queued, written, halted, stop, sent, pump, tail, target>>
  BY DEF PopControl, Pops, owners, flags
<1>2. control \in Seq(Controls) /\ hand = NoFrame
  BY <1>1 DEF OpeningInv, LanesTyped, HandTyped
<1>3. /\ Len(control') = Len(control) - 1 /\ hand' = control[1] /\ hand' \in Controls
      /\ 1 \in 1..Len(control)
      /\ \A i \in 1..Len(control') : control'[i] = control[i + 1] /\ i + 1 \in 1..Len(control)
  BY <1>1, <1>2
<1>4. InHand = 0 /\ InHand' = 0 /\ hand.frame # "chunk" /\ hand'.frame # "chunk"
  BY <1>2, <1>3 DEF InHand, NoFrame, Controls, Event, Bye
<1>5. FlowTyped' /\ Counted' /\ Concluded'
  BY <1>1, <1>4 DEF ExitInv, FlowTyped, Counted, Concluded
<1>6. ExitFrames'
  BY <1>1, <1>3 DEF ExitInv, ExitFrames
<1>7. ASSUME NEW q \in Requests PROVE Tailed(q)'
  <2>1. \A n \in Nat : Within(q, n) => Over' \/ Within(q, n)'
    BY <1>1, <1>4 DEF Within, IsLast
  <2> QED BY <1>1, <1>5, <2>1, TailsKept DEF TailStays, ExitInv, FlowTyped
<1> QED BY <1>5, <1>6, <1>7 DEF ExitInv

LEMMA ExitPopsData == ASSUME OpeningInv, ExitInv, PopData PROVE ExitInv'
<1>1. /\ writer = "pop" /\ data # <<>> /\ data' = Tail(data) /\ hand' = Head(data)
      /\ UNCHANGED <<control, queued, written, halted, stop, sent, pump, tail, target>>
  BY DEF PopData, Pops, owners, flags
<1>2. data \in Seq(Chunks) /\ hand = NoFrame
  BY <1>1 DEF OpeningInv, LanesTyped, HandTyped
<1>3. /\ Len(data') = Len(data) - 1 /\ hand' = data[1] /\ hand' \in Chunks
      /\ \A i \in 1..Len(data) : i # 1 => data'[i - 1] = data[i] /\ i - 1 \in 1..Len(data')
  BY <1>1, <1>2
<1>4. InHand = 0 /\ InHand' = 1 /\ hand.frame # "chunk" /\ hand'.frame = "chunk"
  BY <1>2, <1>3 DEF InHand, NoFrame, Chunks
<1>5. FlowTyped' /\ Counted' /\ Concluded' /\ ExitFrames'
  <2>1. Len(data) \in Nat /\ written \in Nat
    BY <1>2 DEF ExitInv, FlowTyped
  <2>2. ~stop' => queued' = written' + InHand' + Len(data')
    BY <1>1, <1>3, <1>4, <2>1 DEF ExitInv, Counted
  <2>3. FlowTyped' /\ Concluded'
    BY <1>1 DEF ExitInv, FlowTyped, Concluded
  <2>4. ExitFrames'
    BY <1>1, <1>4 DEF ExitInv, ExitFrames
  <2> QED BY <2>2, <2>3, <2>4 DEF Counted
<1>6. ASSUME NEW q \in Requests PROVE Tailed(q)'
  <2>1. ASSUME NEW n \in Nat, Within(q, n) PROVE Within(q, n)'
    <3>1. CASE sent[q].last
      BY <1>1, <3>1 DEF Within
    <3>2. ASSUME NEW i \in 1..Len(data), IsLast(data[i], q), written + InHand + i <= n
          PROVE  Within(q, n)'
      <4>1. CASE i = 1
        <5>1. written' + 1 <= n /\ IsLast(hand', q)
          BY <1>1, <1>3, <1>4, <3>2, <4>1 DEF ExitInv, FlowTyped
        <5> QED BY <5>1 DEF Within, IsLast
      <4>2. CASE i # 1
        <5>1. written' + InHand' + (i - 1) <= n
          BY <1>1, <1>4, <3>2 DEF ExitInv, FlowTyped
        <5> QED BY <1>3, <3>2, <4>2, <5>1 DEF Within, IsLast
      <4> QED BY <4>1, <4>2
    <3> QED BY <1>4, <2>1, <3>1, <3>2 DEF Within, IsLast
  <2> QED BY <1>1, <1>5, <2>1, TailsKept DEF TailStays, ExitInv, FlowTyped
<1> QED BY <1>5, <1>6 DEF ExitInv

(* A written chunk leaves the writer's hand for the transport, and an exit *)
(* is written only for an exec whose terminal chunk is there.              *)
LEMMA ExitWrites == ASSUME OpeningInv, ExitInv, Write PROVE ExitInv'
<1>1. /\ writer = "write" /\ hand' = NoFrame
      /\ UNCHANGED <<control, data, queued, halted, stop, pump, tail, target>>
  BY DEF Write, owners, flags
<1>2. hand \in Controls \union Chunks /\ sent \in [Requests -> Reached]
  BY <1>1 DEF OpeningInv, HandTyped, LanesTyped
<1>3. /\ hand.frame = "chunk" => written' = written + 1
      /\ hand.frame # "chunk" => written' = written
  BY DEF Write
<1>4. /\ InHand' = 0 /\ hand'.frame = "none" /\ written' = written + InHand
      /\ written \in Nat
  BY <1>1, <1>3 DEF InHand, NoFrame, ExitInv, FlowTyped
<1>5. /\ \A q \in Requests : sent'[q].last = (sent[q].last \/ IsLast(hand, q))
      /\ \A q \in Requests : sent'[q].exit => sent[q].exit \/ (hand.frame = "exit" /\ hand.of = q)
  <2>1. CASE hand \in {Event, Bye}
    <3>1. sent' = sent /\ hand.frame \notin {"exit", "chunk"}
      BY <2>1, ThreadAssumption DEF Write, Event, Bye
    <3>2. \A q \in Requests : sent[q].last \in BOOLEAN
      BY <1>2 DEF Reached
    <3> QED BY <3>1, <3>2 DEF IsLast
  <2>2. CASE hand \in [frame : {"result", "exit"}, of : Requests] \union Chunks
    <3> DEFINE r == hand.of
    <3>1. r \in Requests /\ hand.frame \in {"result", "exit", "chunk"}
          /\ (hand.frame = "chunk" => hand.last \in BOOLEAN)
      BY <2>2 DEF Chunks
    <3>2. sent' = [sent EXCEPT ![r] = Sent(sent[r], hand)] /\ sent[r] \in Reached
      BY <1>2, <3>1 DEF Write
    <3>3. /\ Sent(sent[r], hand).last = (sent[r].last \/ (hand.frame = "chunk" /\ hand.last))
          /\ Sent(sent[r], hand).exit = (sent[r].exit \/ hand.frame = "exit")
      BY <3>1, <3>2, SentAdds
    <3>4. sent'[r] = Sent(sent[r], hand) /\ \A q \in Requests : q # r => sent'[q] = sent[q]
      BY <1>2, <3>1, <3>2
    <3>5. ASSUME NEW q \in Requests, q # r
          PROVE  /\ sent'[q].last = (sent[q].last \/ IsLast(hand, q))
                 /\ sent'[q].exit => sent[q].exit
      <4>1. sent'[q] = sent[q] /\ sent[q] \in Reached
        BY <1>2, <3>4, <3>5
      <4>2. sent[q].last \in BOOLEAN
        BY <4>1 DEF Reached
      <4> QED BY <3>5, <4>1, <4>2 DEF IsLast
    <3>6. /\ sent'[r].last = (sent[r].last \/ IsLast(hand, r))
          /\ sent'[r].exit => sent[r].exit \/ (hand.frame = "exit" /\ hand.of = r)
      BY <3>3, <3>4 DEF IsLast
    <3> QED BY <3>5, <3>6
  <2> QED BY <1>2, <2>1, <2>2 DEF Controls
<1>6. FlowTyped' /\ Counted'
  <2>1. InHand \in Nat
    BY DEF InHand
  <2> QED BY <1>1, <1>4, <2>1 DEF ExitInv, FlowTyped, Counted
<1>7. Concluded'
  BY <1>5 DEF ExitInv, Concluded, ExitFrames
<1>8. ExitFrames'
  <2>1. ASSUME NEW i \in 1..Len(control), control[i].frame = "exit"
        PROVE  sent'[control[i].of].last
    <3>1. control[i] \in Controls
      BY DEF OpeningInv, LanesTyped
    <3>2. control[i].of \in Requests
      BY <2>1, <3>1 DEF Controls, Event, Bye
    <3> QED BY <1>5, <2>1, <3>2 DEF ExitInv, ExitFrames
  <2> QED BY <1>1, <1>4, <2>1 DEF ExitFrames
<1>9. ASSUME NEW q \in Requests PROVE Tailed(q)'
  <2>1. ASSUME NEW n \in Nat, Within(q, n) PROVE Within(q, n)'
    <3>1. CASE sent[q].last \/ IsLast(hand, q)
      BY <1>5, <3>1 DEF Within
    <3>2. ASSUME NEW i \in 1..Len(data), IsLast(data[i], q), written + InHand + i <= n
          PROVE  Within(q, n)'
      <4>1. written' + InHand' + i <= n
        BY <1>4, <3>2
      <4> QED BY <1>1, <3>2, <4>1 DEF Within, IsLast
    <3> QED BY <2>1, <3>1, <3>2 DEF Within
  <2>2. sent[q].last => sent'[q].last
    BY <1>5
  <2> QED BY <1>1, <1>6, <2>1, <2>2, TailsKept DEF TailStays, ExitInv, FlowTyped
<1> QED BY <1>6, <1>7, <1>8, <1>9 DEF ExitInv

(* A chunk that is lost with the transport ends the session.               *)
LEMMA ExitLost == ASSUME ExitInv, WriteFails PROVE ExitInv'
<1>1. /\ stop' /\ hand' = NoFrame
      /\ UNCHANGED <<control, data, queued, written, halted, sent, pump, tail, target>>
  BY DEF WriteFails, lanes, owners
<1> QED
  BY <1>1 DEF ExitInv, FlowTyped, Counted, ExitFrames, Concluded, Tailed, Over, NoFrame

(* Every step keeps exits behind the output.                               *)
LEMMA ExitStep == ASSUME OutcomeInv, OpeningInv, ExitInv, Next PROVE ExitInv'
<1>1. ASSUME NEW r \in Requests, Admit(r) PROVE ExitInv'
  BY <1>1, ExitElsewhere DEF Admit, ExitInv, FlowTyped, Over, TailGoes, OpeningInv, LanesTyped, registry, owners, ends, lanes, flags
<1>2. ASSUME NEW r \in Requests, Refuse(r) PROVE ExitInv'
  BY <1>2, ExitElsewhere DEF Refuse, ExitInv, FlowTyped, Over, TailGoes, OpeningInv, LanesTyped, registry, owners, ends, lanes, flags
<1>3. ASSUME NEW r \in Requests, TakeHandle(r) PROVE ExitInv'
  BY <1>3, ExitElsewhere DEF TakeHandle, ExitInv, FlowTyped, Over, TailGoes, OpeningInv, LanesTyped, registry, owners, ends, lanes, flags
<1>4. ASSUME NEW r \in Requests, FlowRevoke(r) PROVE ExitInv'
  BY <1>4, ExitElsewhere DEF FlowRevoke, ExitInv, FlowTyped, Over, TailGoes, OpeningInv, LanesTyped, registry, owners, ends, lanes, flags
<1>5. ASSUME Leave PROVE ExitInv'
  BY <1>5, ExitElsewhere DEF Leave, ExitInv, FlowTyped, Over, TailGoes, OpeningInv, LanesTyped, registry, owners, ends, lanes, flags
<1>6. ASSUME FlipToken PROVE ExitInv'
  BY <1>6, ExitElsewhere DEF FlipToken, ExitInv, FlowTyped, Over, TailGoes, OpeningInv, LanesTyped, registry, owners, ends, lanes, flags
<1>7. ASSUME WakeProducers PROVE ExitInv'
  BY <1>7, ExitElsewhere DEF WakeProducers, ExitInv, FlowTyped, Over, TailGoes, OpeningInv, LanesTyped, registry, owners, ends, lanes, flags
<1>8. ASSUME RevokeExecs PROVE ExitInv'
  BY <1>8, ExitElsewhere DEF RevokeExecs, ExitInv, FlowTyped, Over, TailGoes, OpeningInv, LanesTyped, registry, owners, ends, lanes, flags
<1>9. ASSUME Drained PROVE ExitInv'
  BY <1>9, ExitElsewhere DEF Drained, ExitInv, FlowTyped, Over, TailGoes, OpeningInv, LanesTyped, registry, owners, ends, lanes, flags
<1>10. ASSUME Halt PROVE ExitInv'
  BY <1>10, ExitElsewhere DEF Halt, ExitInv, FlowTyped, Over, TailGoes, OpeningInv, LanesTyped, registry, owners, ends, lanes, flags
<1>11. ASSUME Join PROVE ExitInv'
  BY <1>11, ExitElsewhere DEF Join, ExitInv, FlowTyped, Over, TailGoes, OpeningInv, LanesTyped, registry, owners, ends, lanes, flags
<1>12. ASSUME PopNothing PROVE ExitInv'
  BY <1>12, ExitElsewhere DEF PopNothing, ExitInv, FlowTyped, Over, TailGoes, OpeningInv, LanesTyped, registry, owners, ends, lanes, flags
<1>13. ASSUME WriterHalts PROVE ExitInv'
  BY <1>13, ExitElsewhere DEF WriterHalts, ExitInv, FlowTyped, Over, TailGoes, OpeningInv, LanesTyped, registry, owners, ends, lanes, flags
<1>14. ASSUME NEW r \in Requests, ExecRefused(r) PROVE ExitInv'
  BY <1>14, ExitElsewhere DEF ExecRefused, Runs, ExitInv, FlowTyped, Over, TailGoes, OpeningInv, LanesTyped, registry, owners, ends, lanes, flags
<1>15. ASSUME NEW r \in Requests, AcquireExec(r) PROVE ExitInv'
  BY <1>15, ExitElsewhere DEF AcquireExec, Runs, ExitInv, FlowTyped, Over, TailGoes, OpeningInv, LanesTyped, registry, owners, ends, lanes, flags
<1>16. ASSUME NEW r \in Requests, OpenRead(r) PROVE ExitInv'
  BY <1>16, ExitElsewhere DEF OpenRead, Runs, ExitInv, FlowTyped, Over, TailGoes, OpeningInv, LanesTyped, registry, owners, ends, lanes, flags
<1>17. ASSUME NEW r \in Requests, Dispatch(r) PROVE ExitInv'
  BY <1>17, ExitElsewhere DEF Dispatch, Runs, ExitInv, FlowTyped, Over, TailGoes, OpeningInv, LanesTyped, registry, owners, ends, lanes, flags
<1>18. ASSUME NEW r \in Requests, HandOver(r) PROVE ExitInv'
  BY <1>18, ExitElsewhere DEF HandOver, Runs, ExitInv, FlowTyped, Over, TailGoes, OpeningInv, LanesTyped, registry, owners, ends, lanes, flags
<1>19. ASSUME NEW r \in Requests, Launched(r) PROVE ExitInv'
  BY <1>19, ExitElsewhere DEF Launched, ExitInv, FlowTyped, Over, TailGoes, OpeningInv, LanesTyped, registry, owners, ends, lanes, flags
<1>20. ASSUME NEW r \in Requests, LaunchFails(r) PROVE ExitInv'
  BY <1>20, ExitElsewhere DEF LaunchFails, ExitInv, FlowTyped, Over, TailGoes, OpeningInv, LanesTyped, registry, owners, ends, lanes, flags
<1>21. ASSUME NEW r \in Requests, StreamEnds(r) PROVE ExitInv'
  BY <1>21, ExitElsewhere DEF StreamEnds, ExitInv, FlowTyped, Over, TailGoes, OpeningInv, LanesTyped, registry, owners, ends, lanes, flags
<1>22. ASSUME NEW r \in Requests, Settle(r) PROVE ExitInv'
  BY <1>22, ExitElsewhere DEF Settle, ExitInv, FlowTyped, Over, TailGoes, OpeningInv, LanesTyped, registry, owners, ends, lanes, flags
<1>23. ASSUME NEW r \in Requests, TakeStops(r) PROVE ExitInv'
  BY <1>23, ExitElsewhere DEF TakeStops, Pumps, ExitInv, FlowTyped, Over, TailGoes, OpeningInv, LanesTyped, registry, owners, ends, lanes, flags
<1>24. ASSUME NEW r \in Requests, TakeDiscards(r) PROVE ExitInv'
  BY <1>24, ExitElsewhere DEF TakeDiscards, Pumps, ExitInv, FlowTyped, Over, TailGoes, OpeningInv, LanesTyped, registry, owners, ends, lanes, flags
<1>25. ASSUME NEW r \in Requests, TakeCredit(r) PROVE ExitInv'
  BY <1>25, ExitElsewhere DEF TakeCredit, Pumps, ExitInv, FlowTyped, Over, TailGoes, OpeningInv, LanesTyped, registry, owners, ends, lanes, flags
<1>26. ASSUME NEW r \in Requests, Reads(r) PROVE ExitInv'
  BY <1>26, ExitElsewhere DEF Reads, Pumps, AfterDrain, ExitInv, FlowTyped, Over, TailGoes, OpeningInv, LanesTyped, registry, owners, ends, lanes, flags
<1>27. ASSUME NEW r \in Requests, Grant(r) PROVE ExitInv'
  BY <1>27, ExitElsewhere DEF Grant, ExitInv, FlowTyped, Over, TailGoes, OpeningInv, LanesTyped, registry, owners, ends, lanes, flags
<1>28. ASSUME NEW r \in Requests, Abandon(r) PROVE ExitInv'
  BY <1>28, ExitElsewhere DEF Abandon, ExitInv, FlowTyped, Over, TailGoes, OpeningInv, LanesTyped, registry, owners, ends, lanes, flags
<1>29. ASSUME NEW r \in Requests, InputEnds(r) PROVE ExitInv'
  BY <1>29, ExitElsewhere DEF InputEnds, ExitInv, FlowTyped, Over, TailGoes, OpeningInv, LanesTyped, registry, owners, ends, lanes, flags
<1>30. ASSUME NEW r \in Requests, Authorize(r) PROVE ExitInv'
  BY <1>30, ExitElsewhere DEF Authorize, ExitInv, FlowTyped, Over, TailGoes, OpeningInv, LanesTyped, registry, owners, ends, lanes, flags
<1>31. ASSUME NEW r \in Requests, PushAbandons(r) PROVE ExitInv'
  BY <1>31, ExitElsewhere DEF PushAbandons, Pumps, ExitInv, FlowTyped, Over, TailGoes, OpeningInv, LanesTyped, registry, owners, ends, lanes, flags
<1>32. ASSUME NEW r \in Requests, PushFinds(r) PROVE ExitInv'
  BY <1>32, ExitElsewhere DEF PushFinds, ExitInv, FlowTyped, Over, TailGoes, OpeningInv, LanesTyped, registry, owners, ends, lanes, flags
<1>33. ASSUME NEW r \in Requests, PushParks(r) PROVE ExitInv'
  BY <1>33, ExitElsewhere DEF PushParks, ExitInv, FlowTyped, Over, TailGoes, OpeningInv, LanesTyped, registry, owners, ends, lanes, flags
<1>34. ASSUME NEW r \in Requests, Joined(r) PROVE ExitInv'
  BY <1>34, ExitElsewhere DEF Joined, Tails, ExitInv, FlowTyped, Over, TailGoes, OpeningInv, LanesTyped, registry, owners, ends, lanes, flags
<1>35. ASSUME NEW r \in Requests, FlushStarts(r) PROVE ExitInv'
  BY <1>35, ExitElsewhere DEF FlushStarts, Tails, ExitInv, FlowTyped, Over, TailGoes, OpeningInv, LanesTyped, registry, owners, ends, lanes, flags, FlushTarget
<1>36. ASSUME NEW r \in Requests, FlushEnds(r) PROVE ExitInv'
  BY <1>36, ExitElsewhere DEF FlushEnds, Tails, ExitInv, FlowTyped, Over, TailGoes, OpeningInv, LanesTyped, registry, owners, ends, lanes, flags
<1>37. ASSUME NEW r \in Requests, FlushFinds(r) PROVE ExitInv'
  BY <1>37, ExitElsewhere DEF FlushFinds, ExitInv, FlowTyped, Over, TailGoes, OpeningInv, LanesTyped, registry, owners, ends, lanes, flags
<1>38. ASSUME NEW r \in Requests, FlushParks(r) PROVE ExitInv'
  BY <1>38, ExitElsewhere DEF FlushParks, ExitInv, FlowTyped, Over, TailGoes, OpeningInv, LanesTyped, registry, owners, ends, lanes, flags
<1>39. ASSUME PeerFails PROVE ExitInv'
  BY <1>39, ExitElsewhere DEF PeerFails, ExitInv, FlowTyped, Over, TailGoes, OpeningInv, LanesTyped, registry, owners, ends, lanes, flags
<1>40. ASSUME NEW t \in Threads, ParkOnControl(t) PROVE ExitInv'
  BY <1>40, ExitElsewhere DEF ParkOnControl, ExitInv, FlowTyped, Over, TailGoes, OpeningInv, LanesTyped, registry, owners, ends, lanes, flags
<1>41. ASSUME SendBye PROVE ExitInv'
  <2>1. /\ SendControl(Bye) /\ UNCHANGED <<sent, hand, stop, target>>
        /\ FlowTyped'
        /\ \A q \in Requests : (pump'[q] = "done" => pump[q] = "done") /\ TailStays(q)
    BY <1>41 DEF SendBye, SendControl, owners, ends, flags, ExitInv, FlowTyped, TailStays, OpeningInv,
         LanesTyped
  <2>2. Bye \in Controls
    BY SMT DEF Controls, Bye
  <2>3. Bye.frame = "exit" => sent[Bye.of].last
    BY <1>41 DEF Bye
  <2> QED BY <2>1, <2>2, <2>3, ExitPushes
<1>42. ASSUME SendEvent PROVE ExitInv'
  <2>1. /\ SendControl(Event) /\ UNCHANGED <<sent, hand, stop, target>>
        /\ FlowTyped'
        /\ \A q \in Requests : (pump'[q] = "done" => pump[q] = "done") /\ TailStays(q)
    BY <1>42 DEF SendEvent, SendControl, owners, ends, flags, ExitInv, FlowTyped, TailStays, OpeningInv,
         LanesTyped
  <2>2. Event \in Controls
    BY SMT DEF Controls, Event
  <2>3. Event.frame = "exit" => sent[Event.of].last
    BY <1>42 DEF Event
  <2> QED BY <2>1, <2>2, <2>3, ExitPushes
<1>43. ASSUME NEW r \in Requests, SendExit(r) PROVE ExitInv'
  <2>1. /\ SendControl(Exit(r)) /\ UNCHANGED <<sent, hand, stop, target>>
        /\ FlowTyped'
        /\ \A q \in Requests : (pump'[q] = "done" => pump[q] = "done") /\ TailStays(q)
    BY <1>43 DEF SendExit, SendControl, owners, ends, flags, ExitInv, FlowTyped, TailStays, OpeningInv,
         LanesTyped
  <2>2. Exit(r) \in Controls
    BY SMT DEF Controls, Exit
  <2>3. Exit(r).frame = "exit" => sent[Exit(r).of].last
    BY <1>43 DEF Exit, SendExit, ExitInv, Tailed
  <2> QED BY <2>1, <2>2, <2>3, ExitPushes
<1>44. ASSUME SendRefusal PROVE ExitInv'
  <2>1. /\ SendControl(Result(subject)) /\ UNCHANGED <<sent, hand, stop, target>>
        /\ FlowTyped'
        /\ \A q \in Requests : (pump'[q] = "done" => pump[q] = "done") /\ TailStays(q)
    BY <1>44 DEF SendRefusal, SendControl, owners, ends, flags, ExitInv, FlowTyped, TailStays, OpeningInv,
         LanesTyped
  <2>2. Result(subject) \in Controls
    BY <1>44 DEF Controls, Result, OutcomeInv, AtReader, SendRefusal
  <2>3. Result(subject).frame = "exit" => sent[Result(subject).of].last
    BY <1>44 DEF Result
  <2> QED BY <2>1, <2>2, <2>3, ExitPushes
<1>45. ASSUME NEW r \in Requests, Reply(r) PROVE ExitInv'
  <2>1. /\ SendControl(Result(r)) /\ UNCHANGED <<sent, hand, stop, target>>
        /\ FlowTyped'
        /\ \A q \in Requests : (pump'[q] = "done" => pump[q] = "done") /\ TailStays(q)
    BY <1>45 DEF Reply, SendControl, owners, ends, flags, ExitInv, FlowTyped, TailStays, OpeningInv,
         LanesTyped
  <2>2. Result(r) \in Controls
    BY SMT DEF Controls, Result
  <2>3. Result(r).frame = "exit" => sent[Result(r).of].last
    BY <1>45 DEF Result
  <2> QED BY <2>1, <2>2, <2>3, ExitPushes
<1>46. ASSUME NEW r \in Requests, AnswerResize(r) PROVE ExitInv'
  <2>1. /\ SendControl(Result(r)) /\ UNCHANGED <<sent, hand, stop, target>>
        /\ FlowTyped'
        /\ \A q \in Requests : (pump'[q] = "done" => pump[q] = "done") /\ TailStays(q)
    BY <1>46 DEF AnswerResize, SendControl, ends, flags, ExitInv, FlowTyped, TailStays
  <2>2. Result(r) \in Controls
    BY SMT DEF Controls, Result
  <2>3. Result(r).frame = "exit" => sent[Result(r).of].last
    BY DEF Result
  <2> QED BY <2>1, <2>2, <2>3, ExitPushes
<1>47. ASSUME NEW r \in Requests, PushEnqueues(r) \/ EndStream(r) PROVE ExitInv'
  BY <1>47, ExitProduces
<1>48. ASSUME PopControl PROVE ExitInv'
  BY <1>48, ExitPopsControl
<1>49. ASSUME PopData PROVE ExitInv'
  BY <1>49, ExitPopsData
<1>50. ASSUME Write PROVE ExitInv'
  BY <1>50, ExitWrites
<1>51. ASSUME WriteFails PROVE ExitInv'
  BY <1>51, ExitLost
<1> QED
  BY <1>1, <1>2, <1>3, <1>4, <1>5, <1>6, <1>7, <1>8, <1>9, <1>10,
     <1>11, <1>12, <1>13, <1>14, <1>15, <1>16, <1>17, <1>18, <1>19, <1>20,
     <1>21, <1>22, <1>23, <1>24, <1>25, <1>26, <1>27, <1>28, <1>29, <1>30,
     <1>31, <1>32, <1>33, <1>34, <1>35, <1>36, <1>37, <1>38, <1>39, <1>40,
     <1>41, <1>42, <1>43, <1>44, <1>45, <1>46, <1>47, <1>48, <1>49, <1>50,
     <1>51
  DEF Next, ReaderStep, ReaderRuns, WriterRuns, Transport, RequestRuns, Threads,
      ReadReturns, ChildWrites, KilledJoined, ChildEnds

(* The exit of an exec reaches the transport only after the whole of its   *)
(* output, although exits ride the lane that is drained first: a flush     *)
(* waits for what was queued, not for an empty lane                        *)
(* (serve/schedule.rs, flush_data; serve/process.rs).                      *)
THEOREM ExitsComeLast == Spec => []ExitFollowsOutput
<1>1. Init => ExitInv
  BY DEF Init, ExitInv, FlowTyped, Counted, InHand, NoFrame, ExitFrames, Concluded, Tailed, Nothing
<1>2. OutcomeInv /\ OpeningInv /\ ExitInv /\ [Next]_vars => ExitInv'
  <2>1. ExitInv /\ UNCHANGED vars => ExitInv'
    BY ExitElsewhere DEF vars, ExitInv, FlowTyped, TailGoes, registry, owners, ends, lanes, flags
  <2> QED BY <2>1, ExitStep
<1>3. ExitInv => ExitFollowsOutput
  BY DEF ExitInv, Concluded, ExitFollowsOutput
<1> QED BY OutcomeInvariant, OpeningInvariant, <1>1, <1>2, <1>3, PTL DEF Spec
=============================================================================
