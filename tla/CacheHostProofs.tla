-------------------------- MODULE CacheHostProofs --------------------------
(***************************************************************************)
(* Proofs about CacheHost for any editors, objects and contexts, any       *)
(* number of files and crashes anywhere.  One inductive invariant: where   *)
(* the workers of a deployment can be, who holds the lock, what the lease  *)
(* records say, and what a collection knows while it holds the lock.       *)
(***************************************************************************)
EXTENDS CacheHost, TLAPS

Places == {"none", "exec", "named", "locked", "object", "receipt", "record", "admitted",
           "live", "gone"}
Steps == {"new", "verify", "retire", "upload", "check", "receipt", "write", "reread", "probe",
          "probing", "unpin", "start", "joining", "collect", "collecting", "ready", "failed"}

Inodes == [inode : Nat, good : BOOLEAN]
Images == [object : Objects, inode : Nat]
Passes == [at : {"none", "snapshot", "sweep", "object", "receipt"}, pinned : SUBSET Objects,
           left : SUBSET Objects, object : {"none"} \union Objects]

CacheTyped ==
  /\ file \in [Objects -> Inodes] /\ inodes \in Nat \ {0}
  /\ \A o \in Objects : file[o].good => Present(o)
  /\ receipt \in [Objects -> {"none", "torn"} \union Contexts]
  /\ record \in [Workers -> {"none", "torn"} \union Objects]
  /\ lock \in Workers \union {NoOne}
  /\ worker \in [Workers -> Places] /\ exe \in [Workers -> Images]
  /\ bound \in [Workers -> {"none"} \union Contexts]
  /\ pass \in Passes
  /\ deploy \in [Editors -> Steps] /\ may \in [Editors -> BOOLEAN]

(* A deployment starts its probe, and after it its own worker, and both    *)
(* run the artifact.  What an earlier session left admits nobody any more. *)
Early == {"new", "verify", "retire", "upload", "check", "receipt", "write", "reread", "probe"}
Probed == {"unpin", "start", "joining", "collect", "collecting", "ready"}

Launched ==
  /\ worker[Tenant] \in {"admitted", "live", "gone"}
  /\ \A d \in Editors :
       /\ deploy[d] \in Early => worker[<<d, "probe">>] = "none"
       /\ deploy[d] \in Early \union {"probing", "unpin", "start"} => worker[<<d, "live">>] = "none"
       /\ deploy[d] \in Probed => worker[<<d, "probe">>] \in {"live", "gone"}
       /\ \A kind \in {"probe", "live"} :
            worker[<<d, kind>>] # "none" => exe[<<d, kind>>].object = Artifact[d]

(* The lock is held by a worker that is being admitted, or by the live     *)
(* worker of a deployment that collects.                                   *)
Admitting(w) == worker[w] \in {"locked", "object", "receipt", "record"}
Collecting(w) == \E d \in Editors :
  w = <<d, "live">> /\ worker[w] = "live" /\ deploy[d] = "collecting"

Locking ==
  /\ \A w \in Workers : Admitting(w) => lock = w
  /\ lock # NoOne => IF pass.at = "none" THEN Admitting(lock) ELSE Collecting(lock)
  /\ pass.at # "none" => lock # NoOne

(* A serving worker is recorded under the object it runs.                  *)
Recorded ==
  /\ \A w \in Workers : Serving(w) => record[w] = exe[w].object
  /\ ProbeDoesNotPin

(* What a collection has read stays true while it holds the lock.          *)
Sweeping == pass.at \in {"sweep", "object", "receipt"}
Known == Sweeping =>
  /\ \A w \in Workers : record[w] # "torn"
  /\ \A w \in Workers : Serving(w) => exe[w].object \in pass.pinned
  /\ pass.at # "sweep" => pass.object \in Objects \ pass.pinned

HostInv == CacheTyped /\ Launched /\ Locking /\ Recorded /\ Known

(* What a worker has checked under the lock is there until it serves, and  *)
(* as long as it does.                                                     *)
Held(w) == worker[w] \in {"object", "receipt", "record"} \/ Serving(w)
Live(w) == worker[w] \notin {"none", "gone"}
HeldReceipt(w) == worker[w] \in {"receipt", "record"} \/ Serving(w)

Bound ==
  /\ \A w \in Workers : worker[w] # "none" => exe[w].inode # 0
  /\ \A w \in Workers : Live(w) /\ Names(w) => file[exe[w].object].good
  /\ \A w \in Workers : Held(w) => file[exe[w].object].good
  /\ \A w \in Workers : HeldReceipt(w) => receipt[exe[w].object] # "none"

(* A removal of a damaged object finds the damaged object still under its  *)
(* name.  Nothing in the code sees to that: it is what the race of two     *)
(* deployments of one artifact breaks.                                     *)
RetiresDamaged == \A d \in Editors : RetireCorrupt(d) => ~file[Artifact[d]].good
-----------------------------------------------------------------------------
(* The workers of two editors, the two of one, and the tenant are all      *)
(* different.                                                              *)
LEMMA WorkerNames ==
  /\ \A d \in Editors, kind \in {"probe", "live"} : <<d, kind>> \in Workers /\ <<d, kind>> #
        Tenant
  /\ Tenant \in Workers
  /\ \A w \in Workers : w # NoOne
  BY CacheAssumption DEF Workers

(* Whoever collects is alive and in the collecting step of its deployment, *)
(* and nobody is being admitted meanwhile.                                 *)
LEMMA OnlyCollector ==
  ASSUME CacheTyped, Locking, NEW d \in Editors, Collects(d)
  PROVE  /\ worker[<<d, "live">>] = "live" /\ deploy[d] = "collecting"
         /\ \A w \in Workers : ~Admitting(w)
  BY WorkerNames DEF Locking, Collects, Collecting, Admitting

-----------------------------------------------------------------------------
(* Every action keeps the types, and only a file that is there is good.    *)
LEMMA TypedStep == CacheTyped /\ [Next]_vars => CacheTyped'
<1> SUFFICES ASSUME CacheTyped /\ [Next]_vars PROVE CacheTyped'
  OBVIOUS
<1>1. ASSUME NEW w \in Workers, CheckName(w) PROVE CacheTyped'
  BY <1>1 DEF CheckName, Refuse, Gone, To, LockAfter, Names, CacheTyped, Places, Steps,
     deployment, Present
<1>2. ASSUME NEW w \in Workers, TakeLock(w) PROVE CacheTyped'
  BY <1>2 DEF TakeLock, To, CacheTyped, Places, Steps, deployment, Present
<1>3. ASSUME NEW w \in Workers, CheckObject(w) PROVE CacheTyped'
  BY <1>3 DEF CheckObject, Refuse, Gone, To, LockAfter, Names, CacheTyped, Places, Steps,
     deployment, Present
<1>4. ASSUME NEW w \in Workers, CheckReceipt(w) PROVE CacheTyped'
  <2>1. bound' \in [Workers -> {"none"} \union Contexts]
    BY <1>4 DEF CheckReceipt, CacheTyped
  <2>2. worker' \in [Workers -> Places] /\ lock' \in Workers \union {NoOne}
    BY <1>4 DEF CheckReceipt, CacheTyped, Refuse, Gone, To, LockAfter, Places
  <2> QED
    BY <1>4, <2>1, <2>2 DEF CheckReceipt, CacheTyped, Present, deployment
<1>5. ASSUME NEW w \in Workers, CreateRecord(w) PROVE CacheTyped'
  BY <1>5 DEF CreateRecord, To, CacheTyped, Places, Steps, deployment, Present
<1>6. ASSUME NEW w \in Workers, SyncRecord(w) PROVE CacheTyped'
  <2>1. record' \in [Workers -> {"none", "torn"} \union Objects]
    <3>1. exe[w].object \in Objects
      BY DEF CacheTyped, Images
    <3> QED
      BY <1>6, <3>1 DEF SyncRecord, CacheTyped
  <2>2. worker' \in [Workers -> Places] /\ lock' \in Workers \union {NoOne}
    BY <1>6 DEF SyncRecord, CacheTyped, Refuse, Gone, To, Unlock, LockAfter, Places
  <2> QED
    BY <1>6, <2>1, <2>2 DEF SyncRecord, CacheTyped, Present, deployment
<1>7. ASSUME NEW w \in Workers, Welcome(w) PROVE CacheTyped'
  BY <1>7 DEF Welcome, To, cache, CacheTyped, Places, Steps, deployment, Present
<1>8. ASSUME NEW w \in Workers, EndSession(w) PROVE CacheTyped'
  BY <1>8 DEF EndSession, Gone, CacheTyped, Places, Steps, deployment, Present
<1>9. ASSUME NEW w \in Workers, Crash(w) PROVE CacheTyped'
  BY <1>9 DEF Crash, Refuse, Gone, LockAfter, Idle, Passes, CacheTyped, Places, Steps,
     deployment, Present
<1>10. ASSUME NEW d \in Editors, Snapshot(d) PROVE CacheTyped'
  <2>1. pass' \in Passes
    <3>1. Pinned \in SUBSET Objects
      BY DEF Pinned
    <3>2. CASE Unreadable
      BY <1>10, <3>2 DEF Snapshot, Collects, EndPass, Idle, Unlock, Passes
    <3>3. CASE ~Unreadable
      <4>1. pass' = [pass EXCEPT !.at = "sweep", !.pinned = Pinned,
                                 !.left = {o \in Objects : Present(o)}]
        BY <1>10, <3>3 DEF Snapshot
      <4>2. {o \in Objects : Present(o)} \in SUBSET Objects
        OBVIOUS
      <4> QED
        BY <3>1, <4>1, <4>2 DEF CacheTyped, Passes
    <3> QED
      BY <3>2, <3>3
  <2>2. lock' \in Workers \union {NoOne} /\ deploy' \in [Editors -> Steps]
    BY <1>10 DEF Snapshot, Collects, EndPass, Idle, Unlock, CacheTyped, Steps
  <2> QED
    BY <1>10, <2>1, <2>2 DEF Snapshot, CacheTyped, Present, processes
<1>11. ASSUME NEW d \in Editors, CancelPass(d) PROVE CacheTyped'
  BY <1>11 DEF CancelPass, Collects, EndPass, Idle, Unlock, processes, Passes, CacheTyped,
     Places, Steps, Present
<1>12. ASSUME NEW d \in Editors, Judge(d) PROVE CacheTyped'
  <2>1. pass' \in Passes
    <3>1. PICK o \in pass.left :
             \/ EndPass(d, "failed")
             \/ pass' = [pass EXCEPT !.left = pass.left \ {o}]
             \/ pass' = [[pass EXCEPT !.left = pass.left \ {o}]
                           EXCEPT !.at = "object", !.object = o]
      BY <1>12 DEF Judge
    <3>2. o \in Objects /\ pass \in Passes
      BY <3>1 DEF CacheTyped, Passes
    <3>3. CASE EndPass(d, "failed")
      BY <3>3 DEF Collects, EndPass, Idle, Unlock, Passes
    <3>4. [pass EXCEPT !.left = pass.left \ {o}] \in Passes
      BY <3>2 DEF Passes
    <3>5. CASE pass' = [[pass EXCEPT !.left = pass.left \ {o}]
                          EXCEPT !.at = "object", !.object = o]
      BY <3>2, <3>4, <3>5 DEF Passes
    <3> QED
      BY <3>1, <3>3, <3>4, <3>5
  <2>2. lock' \in Workers \union {NoOne} /\ deploy' \in [Editors -> Steps]
    BY <1>12 DEF Judge, Collects, EndPass, Idle, Unlock, CacheTyped, Steps
  <2> QED
    BY <1>12, <2>1, <2>2 DEF Judge, CacheTyped, Present, processes
<1>13. ASSUME NEW d \in Editors, RemoveObject(d) PROVE CacheTyped'
  <2>1. pass' \in Passes
    BY <1>13 DEF RemoveObject, Collects, EndPass, Idle, Unlock, CacheTyped, Passes
  <2>2. lock' \in Workers \union {NoOne} /\ deploy' \in [Editors -> Steps]
    BY <1>13 DEF RemoveObject, Collects, EndPass, Idle, Unlock, CacheTyped, Steps
  <2>3. Absent \in Inodes /\ Absent.good = FALSE
    BY DEF Absent, Inodes
  <2>4. file' \in [Objects -> Inodes]
    BY <1>13, <2>3 DEF RemoveObject, CacheTyped
  <2>5. \A o \in Objects : file'[o].good => file'[o].inode # 0
    BY <1>13, <2>3 DEF RemoveObject, CacheTyped, Present
  <2> QED
    BY <1>13, <2>1, <2>2, <2>4, <2>5 DEF RemoveObject, CacheTyped, Present, processes
<1>14. ASSUME NEW d \in Editors, RemoveReceipt(d) PROVE CacheTyped'
  <2>1. pass' \in Passes
    <3>1. pass' = [pass EXCEPT !.at = "sweep", !.object = "none"] \/ pass' = Idle
      BY <1>14 DEF RemoveReceipt, EndPass
    <3>2. pass \in Passes /\ Idle \in Passes
      BY DEF CacheTyped, Idle, Passes
    <3> QED
      BY <3>1, <3>2 DEF Passes
  <2>2. lock' \in Workers \union {NoOne} /\ deploy' \in [Editors -> Steps]
    BY <1>14 DEF RemoveReceipt, Collects, EndPass, Idle, Unlock, CacheTyped, Steps
  <2>3. receipt' \in [Objects -> {"none", "torn"} \union Contexts]
    BY <1>14 DEF RemoveReceipt, CacheTyped
  <2> QED
    BY <1>14, <2>1, <2>2, <2>3 DEF RemoveReceipt, CacheTyped, Present, processes
<1>15. ASSUME NEW d \in Editors, FinishPass(d) PROVE CacheTyped'
  BY <1>15 DEF FinishPass, Collects, EndPass, Idle, Unlock, processes, Passes, CacheTyped,
     Places, Steps, Present
<1>16. ASSUME NEW d \in Editors, CheckCache(d) PROVE CacheTyped'
  BY <1>16 DEF CheckCache, Moves, Refused, cache, processes, Present, CacheTyped, Places, Steps
<1>17. ASSUME NEW d \in Editors, VerifyCached(d) PROVE CacheTyped'
  BY <1>17 DEF VerifyCached, Moves, Refused, cache, processes, Present, CacheTyped, Places,
     Steps
<1>18. ASSUME NEW d \in Editors, RetireCorrupt(d) PROVE CacheTyped'
  <2>1. Artifact[d] \in Objects
    BY CacheAssumption
  <2>2. Absent \in Inodes /\ Absent.good = FALSE
    BY DEF Inodes, CacheTyped, Absent
  <2>3. deploy' \in [Editors -> Steps] /\ inodes' \in Nat \ {0}
    BY <1>18 DEF RetireCorrupt, Moves, Refused, CacheTyped, Steps
  <2>4. file' = [file EXCEPT ![Artifact[d]] = Absent] \/ file' = file
    BY <1>18 DEF RetireCorrupt
  <2>5. file' \in [Objects -> Inodes]
    BY <2>1, <2>2, <2>4 DEF CacheTyped
  <2>6. \A o \in Objects : file'[o].good => file'[o].inode # 0
    BY <2>1, <2>2, <2>4 DEF CacheTyped, Present
  <2> QED
    BY <1>18, <2>3, <2>5, <2>6 DEF RetireCorrupt, CacheTyped, Present, processes
<1>19. ASSUME NEW d \in Editors, Publish(d) PROVE CacheTyped'
  <2> DEFINE New == [inode |-> inodes + 1, good |-> TRUE]
  <2>1. Artifact[d] \in Objects
    BY CacheAssumption
  <2>2. New \in Inodes /\ New.inode # 0
    BY DEF Inodes, CacheTyped
  <2>3. deploy' \in [Editors -> Steps] /\ inodes' \in Nat \ {0}
    BY <1>19 DEF Publish, Moves, Refused, CacheTyped, Steps
  <2>4. file' = [file EXCEPT ![Artifact[d]] = New] \/ file' = file
    BY <1>19 DEF Publish
  <2> HIDE DEF New
  <2>5. file' \in [Objects -> Inodes]
    BY <2>1, <2>2, <2>4 DEF CacheTyped
  <2>6. \A o \in Objects : file'[o].good => file'[o].inode # 0
    BY <2>1, <2>2, <2>4 DEF CacheTyped, Present
  <2> QED
    BY <1>19, <2>3, <2>5, <2>6 DEF Publish, CacheTyped, Present, processes
<1>20. ASSUME NEW d \in Editors, VerifyObject(d) PROVE CacheTyped'
  BY <1>20 DEF VerifyObject, Moves, Refused, cache, processes, CacheTyped, Places, Steps,
     Present
<1>21. ASSUME NEW d \in Editors, OpenReceipt(d) PROVE CacheTyped'
  BY <1>21 DEF OpenReceipt, Moves, processes, CacheTyped, Places, Steps, Present
<1>22. ASSUME NEW d \in Editors, WriteReceipt(d) PROVE CacheTyped'
  <2>1. Artifact[d] \in Objects /\ Home[d] \in Contexts
    BY CacheAssumption
  <2>2. receipt' \in [Objects -> {"none", "torn"} \union Contexts]
    BY <1>22, <2>1 DEF WriteReceipt, CacheTyped
  <2>3. deploy' \in [Editors -> Steps]
    BY <1>22 DEF WriteReceipt, Moves, Refused, CacheTyped, Steps
  <2> QED
    BY <1>22, <2>2, <2>3 DEF WriteReceipt, CacheTyped, Present, processes
<1>23. ASSUME NEW d \in Editors, RereadReceipt(d) PROVE CacheTyped'
  BY <1>23 DEF RereadReceipt, Moves, Refused, cache, processes, CacheTyped, Places, Steps,
     Present
<1>24. ASSUME NEW d \in Editors, StartProbe(d) PROVE CacheTyped'
  <2> DEFINE image == [object |-> Artifact[d], inode |-> file[Artifact[d]].inode]
  <2>1. <<d, "probe">> \in Workers /\ Artifact[d] \in Objects
    BY CacheAssumption DEF Workers
  <2>2. image \in Images
    BY <2>1 DEF CacheTyped, Inodes, Images
  <2>3. exe' = [exe EXCEPT ![<<d, "probe">>] = image] \/ exe' = exe
    BY <1>24 DEF StartProbe, Start, Launch
  <2> HIDE DEF image
  <2>4. exe' \in [Workers -> Images]
    BY <2>1, <2>2, <2>3 DEF CacheTyped
  <2>5. worker' \in [Workers -> Places]
    BY <1>24, <2>1 DEF StartProbe, Start, Launch, To, CacheTyped, Places
  <2>6. deploy' \in [Editors -> Steps]
    BY <1>24 DEF StartProbe, Start, Moves, Refused, CacheTyped, Steps
  <2> QED
    BY <1>24, <2>4, <2>5, <2>6 DEF StartProbe, Start, CacheTyped, Present, cache
<1>25. ASSUME NEW d \in Editors, ProbeAnswered(d) PROVE CacheTyped'
  BY <1>25 DEF ProbeAnswered, Answered, Moves, Refused, cache, processes, CacheTyped, Places,
     Steps, Present
<1>26. ASSUME NEW d \in Editors, Unpin(d) PROVE CacheTyped'
  BY <1>26 DEF Unpin, RecordAfterProbe, Moves, processes, CacheTyped, Places, Steps, Present
<1>27. ASSUME NEW d \in Editors, StartLive(d) PROVE CacheTyped'
  <2> DEFINE image == [object |-> Artifact[d], inode |-> file[Artifact[d]].inode]
  <2>1. <<d, "live">> \in Workers /\ Artifact[d] \in Objects
    BY CacheAssumption DEF Workers
  <2>2. image \in Images
    BY <2>1 DEF CacheTyped, Inodes, Images
  <2>3. exe' = [exe EXCEPT ![<<d, "live">>] = image] \/ exe' = exe
    BY <1>27 DEF StartLive, Start, Launch
  <2> HIDE DEF image
  <2>4. exe' \in [Workers -> Images]
    BY <2>1, <2>2, <2>3 DEF CacheTyped
  <2>5. worker' \in [Workers -> Places]
    BY <1>27, <2>1 DEF StartLive, Start, Launch, To, CacheTyped, Places
  <2>6. deploy' \in [Editors -> Steps]
    BY <1>27 DEF StartLive, Start, Moves, Refused, CacheTyped, Steps
  <2> QED
    BY <1>27, <2>4, <2>5, <2>6 DEF StartLive, Start, CacheTyped, Present, cache
<1>28. ASSUME NEW d \in Editors, LiveAnswered(d) PROVE CacheTyped'
  BY <1>28 DEF LiveAnswered, Answered, Moves, Refused, cache, processes, CacheTyped, Places,
     Steps, Present
<1>29. ASSUME NEW d \in Editors, BeginPass(d) PROVE CacheTyped'
  <2>1. pass' \in Passes
    BY <1>29 DEF BeginPass, Idle, CacheTyped, Passes
  <2>2. <<d, "live">> \in Workers
    BY DEF Workers
  <2>3. lock' \in Workers \union {NoOne} /\ deploy' \in [Editors -> Steps]
    BY <1>29, <2>2 DEF BeginPass, CacheTyped, Steps
  <2> QED
    BY <1>29, <2>1, <2>3 DEF BeginPass, CacheTyped, Present, processes
<1>30. ASSUME NEW d \in Editors, Abandon(d) PROVE CacheTyped'
  BY <1>30 DEF Abandon, cache, processes, CacheTyped, Places, Steps, Present
<1>31. CASE UNCHANGED vars
  BY <1>31 DEF vars, CacheTyped, Places, Steps, cache, processes, deployment, Present
<1>32. QED
  BY <1>1, <1>2, <1>3, <1>4, <1>5, <1>6, <1>7, <1>8, <1>9, <1>10, <1>11, <1>12, <1>13, <1>14,
     <1>15, <1>16, <1>17, <1>18, <1>19, <1>20, <1>21, <1>22, <1>23, <1>24, <1>25, <1>26, <1>27,
     <1>28, <1>29, <1>30, <1>31 DEF Next, Admits, Sweeps, Deploys

(* Every action keeps what a deployment has launched.                      *)
LEMMA LaunchedStep == CacheTyped /\ Launched /\ Locking /\ [Next]_vars => Launched'
<1> SUFFICES ASSUME CacheTyped /\ Launched /\ Locking /\ [Next]_vars PROVE Launched'
  OBVIOUS
<1> USE WorkerNames
<1>1. ASSUME NEW w \in Workers, CheckName(w) PROVE Launched'
  BY <1>1 DEF CheckName, Refuse, Gone, To, LockAfter, Names, Launched, Early, Probed,
     CacheTyped, Places, Steps, deployment
<1>2. ASSUME NEW w \in Workers, TakeLock(w) PROVE Launched'
  BY <1>2 DEF TakeLock, To, Launched, Early, Probed, CacheTyped, Places, Steps, deployment
<1>3. ASSUME NEW w \in Workers, CheckObject(w) PROVE Launched'
  BY <1>3 DEF CheckObject, Refuse, Gone, To, LockAfter, Names, Launched, Early, Probed,
     CacheTyped, Places, Steps, deployment
<1>4. ASSUME NEW w \in Workers, CheckReceipt(w) PROVE Launched'
  BY <1>4 DEF CheckReceipt, Refuse, Gone, To, LockAfter, Launched, Early, Probed, CacheTyped,
     Places, Steps, deployment
<1>5. ASSUME NEW w \in Workers, CreateRecord(w) PROVE Launched'
  BY <1>5 DEF CreateRecord, To, Launched, Early, Probed, CacheTyped, Places, Steps, deployment
<1>6. ASSUME NEW w \in Workers, SyncRecord(w) PROVE Launched'
  BY <1>6 DEF SyncRecord, Refuse, Gone, To, LockAfter, Unlock, Launched, Early, Probed,
     CacheTyped, Places, Steps, deployment
<1>7. ASSUME NEW w \in Workers, Welcome(w) PROVE Launched'
  BY <1>7 DEF Welcome, To, cache, Launched, Early, Probed, CacheTyped, Places, Steps, deployment
<1>8. ASSUME NEW w \in Workers, EndSession(w) PROVE Launched'
  BY <1>8 DEF EndSession, Gone, Launched, Early, Probed, CacheTyped, Places, Steps, deployment
<1>9. ASSUME NEW w \in Workers, Crash(w) PROVE Launched'
  BY <1>9 DEF Crash, Refuse, Gone, LockAfter, Idle, Launched, Early, Probed, CacheTyped, Places,
     Steps, deployment
<1>10. ASSUME NEW d \in Editors, Snapshot(d) PROVE Launched'
  BY <1>10 DEF Snapshot, Collects, EndPass, Idle, Unlock, processes, Launched, Early, Probed,
     CacheTyped, Places, Steps
<1>11. ASSUME NEW d \in Editors, CancelPass(d) PROVE Launched'
  BY <1>11 DEF CancelPass, Collects, EndPass, Idle, Unlock, processes, Launched, Early, Probed,
     CacheTyped, Places, Steps
<1>12. ASSUME NEW d \in Editors, Judge(d) PROVE Launched'
  <2>1. deploy' = deploy \/ deploy' = [deploy EXCEPT ![d] = "failed"]
    BY <1>12, Zenon DEF Judge, EndPass
  <2>2. UNCHANGED <<worker, exe>>
    BY <1>12 DEF Judge, processes
  <2> QED
    BY <2>1, <2>2 DEF Launched, Early, Probed, CacheTyped, Steps
<1>13. ASSUME NEW d \in Editors, RemoveObject(d) PROVE Launched'
  BY <1>13 DEF RemoveObject, Collects, EndPass, Idle, Unlock, processes, Absent, Present,
     Launched, Early, Probed, CacheTyped, Places, Steps
<1>14. ASSUME NEW d \in Editors, RemoveReceipt(d) PROVE Launched'
  BY <1>14 DEF RemoveReceipt, Collects, EndPass, Idle, Unlock, processes, Launched, Early,
     Probed, CacheTyped, Places, Steps
<1>15. ASSUME NEW d \in Editors, FinishPass(d) PROVE Launched'
  <2>1. deploy[d] = "collecting"
    BY <1>15, OnlyCollector DEF FinishPass
  <2> QED
    BY <1>15, <2>1 DEF FinishPass, EndPass, processes, Launched, Early, Probed, CacheTyped,
       Steps
<1>16. ASSUME NEW d \in Editors, CheckCache(d) PROVE Launched'
  BY <1>16 DEF CheckCache, Moves, Refused, cache, processes, Present, Launched, Early, Probed,
     CacheTyped, Places, Steps
<1>17. ASSUME NEW d \in Editors, VerifyCached(d) PROVE Launched'
  BY <1>17 DEF VerifyCached, Moves, Refused, cache, processes, Present, Launched, Early, Probed,
     CacheTyped, Places, Steps
<1>18. ASSUME NEW d \in Editors, RetireCorrupt(d) PROVE Launched'
  BY <1>18 DEF RetireCorrupt, Moves, Refused, processes, Absent, Present, Launched, Early,
     Probed, CacheTyped, Places, Steps
<1>19. ASSUME NEW d \in Editors, Publish(d) PROVE Launched'
  BY <1>19 DEF Publish, Moves, Refused, processes, Launched, Early, Probed, CacheTyped, Places,
     Steps
<1>20. ASSUME NEW d \in Editors, VerifyObject(d) PROVE Launched'
  BY <1>20 DEF VerifyObject, Moves, Refused, cache, processes, Launched, Early, Probed,
     CacheTyped, Places, Steps
<1>21. ASSUME NEW d \in Editors, OpenReceipt(d) PROVE Launched'
  BY <1>21 DEF OpenReceipt, Moves, processes, Launched, Early, Probed, CacheTyped, Places, Steps
<1>22. ASSUME NEW d \in Editors, WriteReceipt(d) PROVE Launched'
  BY <1>22 DEF WriteReceipt, Moves, Refused, processes, Launched, Early, Probed, CacheTyped,
     Places, Steps
<1>23. ASSUME NEW d \in Editors, RereadReceipt(d) PROVE Launched'
  BY <1>23 DEF RereadReceipt, Moves, Refused, cache, processes, Launched, Early, Probed,
     CacheTyped, Places, Steps
<1>24. ASSUME NEW d \in Editors, StartProbe(d) PROVE Launched'
  <2>1. Artifact[d] \in Objects
    BY CacheAssumption
  <2>2. CASE deploy' = [deploy EXCEPT ![d] = "failed"] /\ UNCHANGED <<worker, exe>>
    BY <2>2 DEF Launched, Early, Probed, CacheTyped, Steps
  <2>3. CASE /\ deploy[d] = "probe" /\ deploy' = [deploy EXCEPT ![d] = "probing"]
             /\ Launch(<<d, "probe">>, Artifact[d])
    <3>1. /\ worker'[<<d, "probe">>] = "exec" /\ exe'[<<d, "probe">>].object = Artifact[d]
          /\ \A w \in Workers : w # <<d, "probe">> => worker'[w] = worker[w] /\ exe'[w] = exe[w]
      BY <2>3 DEF Launch, To, CacheTyped
    <3>2. deploy'[d] = "probing" /\ \A e \in Editors : e # d => deploy'[e] = deploy[e]
      BY <2>3 DEF CacheTyped
    <3>3. worker'[Tenant] = worker[Tenant]
      BY <3>1
    <3>4. ASSUME NEW e \in Editors, e # d
          PROVE  \A kind \in {"probe", "live"} : worker'[<<e, kind>>] = worker[<<e, kind>>]
                                               /\ exe'[<<e, kind>>] = exe[<<e, kind>>]
      BY <3>1, <3>4
    <3>5. \A kind \in {"probe", "live"} : <<d, kind>> # <<d, "probe">> =>
             worker'[<<d, kind>>] = worker[<<d, kind>>] /\ exe'[<<d, kind>>] = exe[<<d, kind>>]
      BY <3>1
    <3> QED
      BY <2>3, <3>1, <3>2, <3>3, <3>4, <3>5 DEF Launched, Early, Probed
  <2> QED
    BY <1>24, <2>2, <2>3 DEF StartProbe, Start, Moves, Refused
<1>25. ASSUME NEW d \in Editors, ProbeAnswered(d) PROVE Launched'
  BY <1>25 DEF ProbeAnswered, Answered, Moves, Refused, cache, processes, Launched, Early,
     Probed, CacheTyped, Places, Steps
<1>26. ASSUME NEW d \in Editors, Unpin(d) PROVE Launched'
  BY <1>26 DEF Unpin, RecordAfterProbe, Moves, processes, Launched, Early, Probed, CacheTyped,
     Places, Steps
<1>27. ASSUME NEW d \in Editors, StartLive(d) PROVE Launched'
  <2>1. Artifact[d] \in Objects
    BY CacheAssumption
  <2>2. CASE deploy' = [deploy EXCEPT ![d] = "failed"] /\ UNCHANGED <<worker, exe>>
    BY <2>2 DEF Launched, Early, Probed, CacheTyped, Steps
  <2>3. CASE /\ deploy[d] = "start" /\ deploy' = [deploy EXCEPT ![d] = "joining"]
             /\ Launch(<<d, "live">>, Artifact[d])
    <3>1. /\ worker'[<<d, "live">>] = "exec" /\ exe'[<<d, "live">>].object = Artifact[d]
          /\ \A w \in Workers : w # <<d, "live">> => worker'[w] = worker[w] /\ exe'[w] = exe[w]
      BY <2>3 DEF Launch, To, CacheTyped
    <3>2. deploy'[d] = "joining" /\ \A e \in Editors : e # d => deploy'[e] = deploy[e]
      BY <2>3 DEF CacheTyped
    <3>3. worker'[Tenant] = worker[Tenant]
      BY <3>1
    <3>4. ASSUME NEW e \in Editors, e # d
          PROVE  \A kind \in {"probe", "live"} : worker'[<<e, kind>>] = worker[<<e, kind>>]
                                               /\ exe'[<<e, kind>>] = exe[<<e, kind>>]
      BY <3>1, <3>4
    <3>5. \A kind \in {"probe", "live"} : <<d, kind>> # <<d, "live">> =>
             worker'[<<d, kind>>] = worker[<<d, kind>>] /\ exe'[<<d, kind>>] = exe[<<d, kind>>]
      BY <3>1
    <3> QED
      BY <2>3, <3>1, <3>2, <3>3, <3>4, <3>5 DEF Launched, Early, Probed
  <2> QED
    BY <1>27, <2>2, <2>3 DEF StartLive, Start, Moves, Refused
<1>28. ASSUME NEW d \in Editors, LiveAnswered(d) PROVE Launched'
  BY <1>28 DEF LiveAnswered, Answered, Moves, Refused, cache, processes, Launched, Early,
     Probed, CacheTyped, Places, Steps
<1>29. ASSUME NEW d \in Editors, BeginPass(d) PROVE Launched'
  BY <1>29 DEF BeginPass, Idle, processes, Launched, Early, Probed, CacheTyped, Places, Steps
<1>30. ASSUME NEW d \in Editors, Abandon(d) PROVE Launched'
  BY <1>30 DEF Abandon, cache, processes, Launched, Early, Probed, CacheTyped, Places, Steps
<1>31. CASE UNCHANGED vars
  BY <1>31 DEF vars, Launched, Early, Probed, CacheTyped, Places, Steps, cache, processes,
     deployment
<1>32. QED
  BY <1>1, <1>2, <1>3, <1>4, <1>5, <1>6, <1>7, <1>8, <1>9, <1>10, <1>11, <1>12, <1>13, <1>14,
     <1>15, <1>16, <1>17, <1>18, <1>19, <1>20, <1>21, <1>22, <1>23, <1>24, <1>25, <1>26, <1>27,
     <1>28, <1>29, <1>30, <1>31 DEF Next, Admits, Sweeps, Deploys

(* Every action keeps the lock with one worker, admitted or collecting.    *)
LEMMA LockingStep == CacheTyped /\ Launched /\ Locking /\ [Next]_vars => Locking'
<1> SUFFICES ASSUME CacheTyped /\ Launched /\ Locking /\ [Next]_vars PROVE Locking'
  OBVIOUS
<1> USE WorkerNames
<1>1. ASSUME NEW w \in Workers, CheckName(w) PROVE Locking'
  BY <1>1 DEF CheckName, Refuse, Gone, To, LockAfter, Names, Locking, Admitting, Collecting,
     Launched, Early, Probed, CacheTyped, Places, Steps, Passes, deployment
<1>2. ASSUME NEW w \in Workers, TakeLock(w) PROVE Locking'
  BY <1>2 DEF TakeLock, To, Locking, Admitting, Collecting, Launched, Early, Probed, CacheTyped,
     Places, Steps, Passes, deployment
<1>3. ASSUME NEW w \in Workers, CheckObject(w) PROVE Locking'
  BY <1>3 DEF CheckObject, Refuse, Gone, To, LockAfter, Names, Locking, Admitting, Collecting,
     Launched, Early, Probed, CacheTyped, Places, Steps, Passes, deployment
<1>4. ASSUME NEW w \in Workers, CheckReceipt(w) PROVE Locking'
  BY <1>4 DEF CheckReceipt, Refuse, Gone, To, LockAfter, Locking, Admitting, Collecting,
     Launched, Early, Probed, CacheTyped, Places, Steps, Passes, deployment
<1>5. ASSUME NEW w \in Workers, CreateRecord(w) PROVE Locking'
  BY <1>5 DEF CreateRecord, To, Locking, Admitting, Collecting, Launched, Early, Probed,
     CacheTyped, Places, Steps, Passes, deployment
<1>6. ASSUME NEW w \in Workers, SyncRecord(w) PROVE Locking'
  BY <1>6 DEF SyncRecord, Refuse, Gone, To, LockAfter, Unlock, Locking, Admitting, Collecting,
     Launched, Early, Probed, CacheTyped, Places, Steps, Passes, deployment
<1>7. ASSUME NEW w \in Workers, Welcome(w) PROVE Locking'
  BY <1>7 DEF Welcome, To, cache, Locking, Admitting, Collecting, Launched, Early, Probed,
     CacheTyped, Places, Steps, Passes, deployment
<1>8. ASSUME NEW w \in Workers, EndSession(w) PROVE Locking'
  BY <1>8 DEF EndSession, Gone, Locking, Admitting, Collecting, Launched, Early, Probed,
     CacheTyped, Places, Steps, Passes, deployment
<1>9. ASSUME NEW w \in Workers, Crash(w) PROVE Locking'
  BY <1>9 DEF Crash, Refuse, Gone, LockAfter, Idle, Locking, Admitting, Collecting, Launched,
     Early, Probed, CacheTyped, Places, Steps, Passes, deployment
<1>10. ASSUME NEW d \in Editors, Snapshot(d) PROVE Locking'
  <2>1. /\ worker[<<d, "live">>] = "live" /\ deploy[d] = "collecting" /\ lock = <<d, "live">>
        /\ \A w \in Workers : ~Admitting(w)
    BY <1>10, OnlyCollector DEF Snapshot, Collects
  <2>2. UNCHANGED worker
    BY <1>10 DEF Snapshot, processes
  <2>3. \/ EndPass(d, "failed")
        \/ pass'.at = "sweep" /\ UNCHANGED <<lock, deploy>>
    BY <1>10 DEF Snapshot, CacheTyped, Passes
  <2>4. \A w \in Workers : ~Admitting(w)'
    BY <2>1, <2>2 DEF Admitting
  <2>5. CASE EndPass(d, "failed")
    BY <2>4, <2>5 DEF EndPass, Idle, Unlock, Locking
  <2>6. CASE pass'.at \in {"sweep", "object"} /\ UNCHANGED <<lock, deploy>>
    <3>1. Collecting(lock)'
      BY <2>1, <2>2, <2>6 DEF Collecting
    <3> QED
      BY <2>1, <2>4, <2>6, <3>1 DEF Locking
  <2> QED
    BY <2>3, <2>5, <2>6
<1>11. ASSUME NEW d \in Editors, CancelPass(d) PROVE Locking'
  BY <1>11 DEF CancelPass, Collects, EndPass, Idle, Unlock, processes, Locking, Admitting,
     Collecting, Launched, Early, Probed, CacheTyped, Places, Steps, Passes
<1>12. ASSUME NEW d \in Editors, Judge(d) PROVE Locking'
  <2>1. /\ worker[<<d, "live">>] = "live" /\ deploy[d] = "collecting" /\ lock = <<d, "live">>
        /\ \A w \in Workers : ~Admitting(w)
    BY <1>12, OnlyCollector DEF Judge, Collects
  <2>2. UNCHANGED worker
    BY <1>12 DEF Judge, processes
  <2>3. \/ EndPass(d, "failed")
        \/ pass'.at \in {"sweep", "object"} /\ UNCHANGED <<lock, deploy>>
    BY <1>12 DEF Judge, CacheTyped, Passes
  <2>4. \A w \in Workers : ~Admitting(w)'
    BY <2>1, <2>2 DEF Admitting
  <2>5. CASE EndPass(d, "failed")
    BY <2>4, <2>5 DEF EndPass, Idle, Unlock, Locking
  <2>6. CASE pass'.at \in {"sweep", "object"} /\ UNCHANGED <<lock, deploy>>
    <3>1. Collecting(lock)'
      BY <2>1, <2>2, <2>6 DEF Collecting
    <3> QED
      BY <2>1, <2>4, <2>6, <3>1 DEF Locking
  <2> QED
    BY <2>3, <2>5, <2>6
<1>13. ASSUME NEW d \in Editors, RemoveObject(d) PROVE Locking'
  BY <1>13 DEF RemoveObject, Collects, EndPass, Idle, Unlock, processes, Absent, Present,
     Locking, Admitting, Collecting, Launched, Early, Probed, CacheTyped, Places, Steps, Passes
<1>14. ASSUME NEW d \in Editors, RemoveReceipt(d) PROVE Locking'
  <2>1. /\ worker[<<d, "live">>] = "live" /\ deploy[d] = "collecting" /\ lock = <<d, "live">>
        /\ \A w \in Workers : ~Admitting(w)
    BY <1>14, OnlyCollector DEF RemoveReceipt, Collects
  <2>2. UNCHANGED worker
    BY <1>14 DEF RemoveReceipt, processes
  <2>3. \/ EndPass(d, "failed")
        \/ pass'.at = "sweep" /\ UNCHANGED <<lock, deploy>>
    BY <1>14 DEF RemoveReceipt, CacheTyped, Passes
  <2>4. \A w \in Workers : ~Admitting(w)'
    BY <2>1, <2>2 DEF Admitting
  <2>5. CASE EndPass(d, "failed")
    BY <2>4, <2>5 DEF EndPass, Idle, Unlock, Locking
  <2>6. CASE pass'.at \in {"sweep", "object"} /\ UNCHANGED <<lock, deploy>>
    <3>1. Collecting(lock)'
      BY <2>1, <2>2, <2>6 DEF Collecting
    <3> QED
      BY <2>1, <2>4, <2>6, <3>1 DEF Locking
  <2> QED
    BY <2>3, <2>5, <2>6
<1>15. ASSUME NEW d \in Editors, FinishPass(d) PROVE Locking'
  BY <1>15 DEF FinishPass, Collects, EndPass, Idle, Unlock, processes, Locking, Admitting,
     Collecting, Launched, Early, Probed, CacheTyped, Places, Steps, Passes
<1>16. ASSUME NEW d \in Editors, CheckCache(d) PROVE Locking'
  BY <1>16 DEF CheckCache, Moves, Refused, cache, processes, Present, Locking, Admitting,
     Collecting, Launched, Early, Probed, CacheTyped, Places, Steps, Passes
<1>17. ASSUME NEW d \in Editors, VerifyCached(d) PROVE Locking'
  BY <1>17 DEF VerifyCached, Moves, Refused, cache, processes, Present, Locking, Admitting,
     Collecting, Launched, Early, Probed, CacheTyped, Places, Steps, Passes
<1>18. ASSUME NEW d \in Editors, RetireCorrupt(d) PROVE Locking'
  BY <1>18 DEF RetireCorrupt, Moves, Refused, processes, Absent, Present, Locking, Admitting,
     Collecting, Launched, Early, Probed, CacheTyped, Places, Steps, Passes
<1>19. ASSUME NEW d \in Editors, Publish(d) PROVE Locking'
  BY <1>19 DEF Publish, Moves, Refused, processes, Locking, Admitting, Collecting, Launched,
     Early, Probed, CacheTyped, Places, Steps, Passes
<1>20. ASSUME NEW d \in Editors, VerifyObject(d) PROVE Locking'
  BY <1>20 DEF VerifyObject, Moves, Refused, cache, processes, Locking, Admitting, Collecting,
     Launched, Early, Probed, CacheTyped, Places, Steps, Passes
<1>21. ASSUME NEW d \in Editors, OpenReceipt(d) PROVE Locking'
  BY <1>21 DEF OpenReceipt, Moves, processes, Locking, Admitting, Collecting, Launched, Early,
     Probed, CacheTyped, Places, Steps, Passes
<1>22. ASSUME NEW d \in Editors, WriteReceipt(d) PROVE Locking'
  BY <1>22 DEF WriteReceipt, Moves, Refused, processes, Locking, Admitting, Collecting,
     Launched, Early, Probed, CacheTyped, Places, Steps, Passes
<1>23. ASSUME NEW d \in Editors, RereadReceipt(d) PROVE Locking'
  BY <1>23 DEF RereadReceipt, Moves, Refused, cache, processes, Locking, Admitting, Collecting,
     Launched, Early, Probed, CacheTyped, Places, Steps, Passes
<1>24. ASSUME NEW d \in Editors, StartProbe(d) PROVE Locking'
  <2>1. /\ deploy[d] = "probe" /\ worker[<<d, "probe">>] = "none"
        /\ deploy' \in {[deploy EXCEPT ![d] = "probing"], [deploy EXCEPT ![d] = "failed"]}
        /\ worker' \in {worker, [worker EXCEPT ![<<d, "probe">>] = "exec"]}
    BY <1>24 DEF StartProbe, Start, Launch, To, Moves, Refused, Launched, Early
  <2>2. UNCHANGED <<lock, pass>>
    BY <1>24 DEF StartProbe, Start, cache
  <2> QED
    BY <2>1, <2>2 DEF Locking, Admitting, Collecting, CacheTyped, Steps
<1>25. ASSUME NEW d \in Editors, ProbeAnswered(d) PROVE Locking'
  BY <1>25 DEF ProbeAnswered, Answered, Moves, Refused, cache, processes, Locking, Admitting,
     Collecting, Launched, Early, Probed, CacheTyped, Places, Steps, Passes
<1>26. ASSUME NEW d \in Editors, Unpin(d) PROVE Locking'
  BY <1>26 DEF Unpin, RecordAfterProbe, Moves, processes, Locking, Admitting, Collecting,
     Launched, Early, Probed, CacheTyped, Places, Steps, Passes
<1>27. ASSUME NEW d \in Editors, StartLive(d) PROVE Locking'
  <2>1. /\ deploy[d] = "start" /\ worker[<<d, "live">>] = "none"
        /\ deploy' \in {[deploy EXCEPT ![d] = "joining"], [deploy EXCEPT ![d] = "failed"]}
        /\ worker' \in {worker, [worker EXCEPT ![<<d, "live">>] = "exec"]}
    BY <1>27 DEF StartLive, Start, Launch, To, Moves, Refused, Launched, Early
  <2>2. UNCHANGED <<lock, pass>>
    BY <1>27 DEF StartLive, Start, cache
  <2> QED
    BY <2>1, <2>2 DEF Locking, Admitting, Collecting, CacheTyped, Steps
<1>28. ASSUME NEW d \in Editors, LiveAnswered(d) PROVE Locking'
  BY <1>28 DEF LiveAnswered, Answered, Moves, Refused, cache, processes, Locking, Admitting,
     Collecting, Launched, Early, Probed, CacheTyped, Places, Steps, Passes
<1>29. ASSUME NEW d \in Editors, BeginPass(d) PROVE Locking'
  <2>1. UNCHANGED worker
    BY <1>29 DEF BeginPass, processes
  <2>2. CASE deploy' = [deploy EXCEPT ![d] = "failed"] /\ UNCHANGED <<lock, pass>>
    BY <1>29, <2>1, <2>2 DEF BeginPass, Locking, Admitting, Collecting, CacheTyped, Steps
  <2>3. CASE /\ lock = NoOne /\ lock' = <<d, "live">> /\ pass' = [Idle EXCEPT !.at = "snapshot"]
             /\ deploy' = [deploy EXCEPT ![d] = "collecting"]
    <3>1. worker'[<<d, "live">>] = "live" /\ deploy'[d] = "collecting" /\ pass'.at = "snapshot"
      BY <1>29, <2>1, <2>3 DEF BeginPass, Idle, CacheTyped
    <3>2. \A w \in Workers : ~Admitting(w)
      BY <2>3 DEF Locking
    <3> QED
      BY <2>1, <2>3, <3>1, <3>2 DEF Locking, Admitting, Collecting
  <2> QED
    BY <1>29, <2>2, <2>3 DEF BeginPass
<1>30. ASSUME NEW d \in Editors, Abandon(d) PROVE Locking'
  BY <1>30 DEF Abandon, cache, processes, Locking, Admitting, Collecting, Launched, Early,
     Probed, CacheTyped, Places, Steps, Passes
<1>31. CASE UNCHANGED vars
  BY <1>31 DEF vars, Locking, Admitting, Collecting, Launched, Early, Probed, CacheTyped,
     Places, Steps, Passes, cache, processes, deployment
<1>32. QED
  BY <1>1, <1>2, <1>3, <1>4, <1>5, <1>6, <1>7, <1>8, <1>9, <1>10, <1>11, <1>12, <1>13, <1>14,
     <1>15, <1>16, <1>17, <1>18, <1>19, <1>20, <1>21, <1>22, <1>23, <1>24, <1>25, <1>26, <1>27,
     <1>28, <1>29, <1>30, <1>31 DEF Next, Admits, Sweeps, Deploys

(* Every action keeps a serving worker recorded and a stopped probe not.   *)
LEMMA RecordedStep == CacheTyped /\ Launched /\ Locking /\ Recorded /\ [Next]_vars => Recorded'
<1> SUFFICES ASSUME CacheTyped /\ Launched /\ Locking /\ Recorded /\ [Next]_vars PROVE Recorded'
  OBVIOUS
<1> USE WorkerNames
<1>1. ASSUME NEW w \in Workers, CheckName(w) PROVE Recorded'
  BY <1>1 DEF CheckName, Refuse, Gone, To, LockAfter, Names, Recorded, Serving, ProbeDoesNotPin,
     Launched, Early, Probed, CacheTyped, Places, Steps, deployment
<1>2. ASSUME NEW w \in Workers, TakeLock(w) PROVE Recorded'
  BY <1>2 DEF TakeLock, To, Recorded, Serving, ProbeDoesNotPin, Launched, Early, Probed,
     CacheTyped, Places, Steps, deployment
<1>3. ASSUME NEW w \in Workers, CheckObject(w) PROVE Recorded'
  BY <1>3 DEF CheckObject, Refuse, Gone, To, LockAfter, Names, Recorded, Serving,
     ProbeDoesNotPin, Launched, Early, Probed, CacheTyped, Places, Steps, deployment
<1>4. ASSUME NEW w \in Workers, CheckReceipt(w) PROVE Recorded'
  BY <1>4 DEF CheckReceipt, Refuse, Gone, To, LockAfter, Recorded, Serving, ProbeDoesNotPin,
     Launched, Early, Probed, CacheTyped, Places, Steps, deployment
<1>5. ASSUME NEW w \in Workers, CreateRecord(w) PROVE Recorded'
  BY <1>5 DEF CreateRecord, To, Recorded, Serving, ProbeDoesNotPin, Launched, Early, Probed,
     CacheTyped, Places, Steps, deployment
<1>6. ASSUME NEW w \in Workers, SyncRecord(w) PROVE Recorded'
  <2>1. worker'[w] \in {"admitted", "gone"} /\ UNCHANGED <<exe, deploy>>
    BY <1>6 DEF SyncRecord, Refuse, Gone, To, deployment, CacheTyped
  <2>2. worker'[w] = "admitted" => record'[w] = exe[w].object
    BY <1>6 DEF SyncRecord, Refuse, Gone, To, CacheTyped
  <2>3. \A v \in Workers : v # w => worker'[v] = worker[v] /\ record'[v] = record[v]
    BY <1>6 DEF SyncRecord, Refuse, Gone, To, CacheTyped
  <2>4. \A v \in Workers : Serving(v)' => record'[v] = exe'[v].object
    BY <2>1, <2>2, <2>3 DEF Recorded, Serving
  <2>5. ProbeDoesNotPin'
    BY <1>6, <2>1, <2>3 DEF SyncRecord, Recorded, ProbeDoesNotPin, Launched, Probed
  <2> QED
    BY <2>4, <2>5 DEF Recorded
<1>7. ASSUME NEW w \in Workers, Welcome(w) PROVE Recorded'
  BY <1>7 DEF Welcome, To, cache, Recorded, Serving, ProbeDoesNotPin, Launched, Early, Probed,
     CacheTyped, Places, Steps, deployment
<1>8. ASSUME NEW w \in Workers, EndSession(w) PROVE Recorded'
  BY <1>8 DEF EndSession, Gone, Recorded, Serving, ProbeDoesNotPin, Launched, Early, Probed,
     CacheTyped, Places, Steps, deployment
<1>9. ASSUME NEW w \in Workers, Crash(w) PROVE Recorded'
  BY <1>9 DEF Crash, Refuse, Gone, LockAfter, Idle, Recorded, Serving, ProbeDoesNotPin,
     Launched, Early, Probed, CacheTyped, Places, Steps, deployment
<1>10. ASSUME NEW d \in Editors, Snapshot(d) PROVE Recorded'
  BY <1>10 DEF Snapshot, Collects, EndPass, Idle, Unlock, processes, Recorded, Serving,
     ProbeDoesNotPin, Launched, Early, Probed, CacheTyped, Places, Steps
<1>11. ASSUME NEW d \in Editors, CancelPass(d) PROVE Recorded'
  BY <1>11 DEF CancelPass, Collects, EndPass, Idle, Unlock, processes, Recorded, Serving,
     ProbeDoesNotPin, Launched, Early, Probed, CacheTyped, Places, Steps
<1>12. ASSUME NEW d \in Editors, Judge(d) PROVE Recorded'
  <2>1. deploy' = deploy \/ deploy' = [deploy EXCEPT ![d] = "failed"]
    BY <1>12, Zenon DEF Judge, EndPass
  <2>2. UNCHANGED <<worker, exe, record>> /\ deploy[d] = "collecting"
    BY <1>12, OnlyCollector DEF Judge, processes
  <2> QED
    BY <2>1, <2>2 DEF Recorded, Serving, ProbeDoesNotPin, CacheTyped, Steps
<1>13. ASSUME NEW d \in Editors, RemoveObject(d) PROVE Recorded'
  BY <1>13 DEF RemoveObject, Collects, EndPass, Idle, Unlock, processes, Absent, Present,
     Recorded, Serving, ProbeDoesNotPin, Launched, Early, Probed, CacheTyped, Places, Steps
<1>14. ASSUME NEW d \in Editors, RemoveReceipt(d) PROVE Recorded'
  BY <1>14 DEF RemoveReceipt, Collects, EndPass, Idle, Unlock, processes, Recorded, Serving,
     ProbeDoesNotPin, Launched, Early, Probed, CacheTyped, Places, Steps
<1>15. ASSUME NEW d \in Editors, FinishPass(d) PROVE Recorded'
  <2>1. deploy[d] = "collecting"
    BY <1>15, OnlyCollector DEF FinishPass
  <2> QED
    BY <1>15, <2>1 DEF FinishPass, EndPass, processes, Recorded, Serving, ProbeDoesNotPin,
       CacheTyped, Steps
<1>16. ASSUME NEW d \in Editors, CheckCache(d) PROVE Recorded'
  BY <1>16 DEF CheckCache, Moves, Refused, cache, processes, Present, Recorded, Serving,
     ProbeDoesNotPin, Launched, Early, Probed, CacheTyped, Places, Steps
<1>17. ASSUME NEW d \in Editors, VerifyCached(d) PROVE Recorded'
  BY <1>17 DEF VerifyCached, Moves, Refused, cache, processes, Present, Recorded, Serving,
     ProbeDoesNotPin, Launched, Early, Probed, CacheTyped, Places, Steps
<1>18. ASSUME NEW d \in Editors, RetireCorrupt(d) PROVE Recorded'
  BY <1>18 DEF RetireCorrupt, Moves, Refused, processes, Absent, Present, Recorded, Serving,
     ProbeDoesNotPin, Launched, Early, Probed, CacheTyped, Places, Steps
<1>19. ASSUME NEW d \in Editors, Publish(d) PROVE Recorded'
  BY <1>19 DEF Publish, Moves, Refused, processes, Recorded, Serving, ProbeDoesNotPin, Launched,
     Early, Probed, CacheTyped, Places, Steps
<1>20. ASSUME NEW d \in Editors, VerifyObject(d) PROVE Recorded'
  BY <1>20 DEF VerifyObject, Moves, Refused, cache, processes, Recorded, Serving,
     ProbeDoesNotPin, Launched, Early, Probed, CacheTyped, Places, Steps
<1>21. ASSUME NEW d \in Editors, OpenReceipt(d) PROVE Recorded'
  BY <1>21 DEF OpenReceipt, Moves, processes, Recorded, Serving, ProbeDoesNotPin, Launched,
     Early, Probed, CacheTyped, Places, Steps
<1>22. ASSUME NEW d \in Editors, WriteReceipt(d) PROVE Recorded'
  BY <1>22 DEF WriteReceipt, Moves, Refused, processes, Recorded, Serving, ProbeDoesNotPin,
     Launched, Early, Probed, CacheTyped, Places, Steps
<1>23. ASSUME NEW d \in Editors, RereadReceipt(d) PROVE Recorded'
  BY <1>23 DEF RereadReceipt, Moves, Refused, cache, processes, Recorded, Serving,
     ProbeDoesNotPin, Launched, Early, Probed, CacheTyped, Places, Steps
<1>24. ASSUME NEW d \in Editors, StartProbe(d) PROVE Recorded'
  BY <1>24 DEF StartProbe, Start, Launch, To, Moves, Refused, cache, Recorded, Serving,
     ProbeDoesNotPin, Launched, Early, Probed, CacheTyped, Places, Steps
<1>25. ASSUME NEW d \in Editors, ProbeAnswered(d) PROVE Recorded'
  BY <1>25 DEF ProbeAnswered, Answered, Moves, Refused, cache, processes, Recorded, Serving,
     ProbeDoesNotPin, Launched, Early, Probed, CacheTyped, Places, Steps
<1>26. ASSUME NEW d \in Editors, Unpin(d) PROVE Recorded'
  BY <1>26 DEF Unpin, RecordAfterProbe, Moves, processes, Recorded, Serving, ProbeDoesNotPin,
     Launched, Early, Probed, CacheTyped, Places, Steps
<1>27. ASSUME NEW d \in Editors, StartLive(d) PROVE Recorded'
  BY <1>27 DEF StartLive, Start, Launch, To, Moves, Refused, cache, Recorded, Serving,
     ProbeDoesNotPin, Launched, Early, Probed, CacheTyped, Places, Steps
<1>28. ASSUME NEW d \in Editors, LiveAnswered(d) PROVE Recorded'
  BY <1>28 DEF LiveAnswered, Answered, Moves, Refused, cache, processes, Recorded, Serving,
     ProbeDoesNotPin, Launched, Early, Probed, CacheTyped, Places, Steps
<1>29. ASSUME NEW d \in Editors, BeginPass(d) PROVE Recorded'
  BY <1>29 DEF BeginPass, Idle, processes, Recorded, Serving, ProbeDoesNotPin, Launched, Early,
     Probed, CacheTyped, Places, Steps
<1>30. ASSUME NEW d \in Editors, Abandon(d) PROVE Recorded'
  BY <1>30 DEF Abandon, cache, processes, Recorded, Serving, ProbeDoesNotPin, Launched, Early,
     Probed, CacheTyped, Places, Steps
<1>31. CASE UNCHANGED vars
  BY <1>31 DEF vars, Recorded, Serving, ProbeDoesNotPin, Launched, Early, Probed, CacheTyped,
     Places, Steps, cache, processes, deployment
<1>32. QED
  BY <1>1, <1>2, <1>3, <1>4, <1>5, <1>6, <1>7, <1>8, <1>9, <1>10, <1>11, <1>12, <1>13, <1>14,
     <1>15, <1>16, <1>17, <1>18, <1>19, <1>20, <1>21, <1>22, <1>23, <1>24, <1>25, <1>26, <1>27,
     <1>28, <1>29, <1>30, <1>31 DEF Next, Admits, Sweeps, Deploys

(* Every action keeps what a collection has read true while it sweeps: a   *)
(* serving worker cannot appear, because its admission needs the lock.     *)
LEMMA KnownStep == CacheTyped /\ Launched /\ Locking /\ Recorded /\ Known /\ [Next]_vars =>
   Known'
<1> SUFFICES ASSUME CacheTyped /\ Launched /\ Locking /\ Recorded /\ Known /\ [Next]_vars PROVE
   Known'
  OBVIOUS
<1> USE WorkerNames
<1>1. ASSUME NEW w \in Workers, CheckName(w) PROVE Known'
  BY <1>1 DEF CheckName, Refuse, Gone, To, LockAfter, Names, Known, Sweeping, Serving, Locking,
     Admitting, Collecting, CacheTyped, Places, Steps, Passes, deployment
<1>2. ASSUME NEW w \in Workers, TakeLock(w) PROVE Known'
  BY <1>2 DEF TakeLock, To, Known, Sweeping, Serving, Locking, Admitting, Collecting,
     CacheTyped, Places, Steps, Passes, deployment
<1>3. ASSUME NEW w \in Workers, CheckObject(w) PROVE Known'
  BY <1>3 DEF CheckObject, Refuse, Gone, To, LockAfter, Names, Known, Sweeping, Serving,
     Locking, Admitting, Collecting, CacheTyped, Places, Steps, Passes, deployment
<1>4. ASSUME NEW w \in Workers, CheckReceipt(w) PROVE Known'
  BY <1>4 DEF CheckReceipt, Refuse, Gone, To, LockAfter, Known, Sweeping, Serving, Locking,
     Admitting, Collecting, CacheTyped, Places, Steps, Passes, deployment
<1>5. ASSUME NEW w \in Workers, CreateRecord(w) PROVE Known'
  BY <1>5 DEF CreateRecord, To, Known, Sweeping, Serving, Locking, Admitting, Collecting,
     CacheTyped, Places, Steps, Passes, deployment
<1>6. ASSUME NEW w \in Workers, SyncRecord(w) PROVE Known'
  BY <1>6 DEF SyncRecord, Refuse, Gone, To, LockAfter, Unlock, Known, Sweeping, Serving,
     Locking, Admitting, Collecting, CacheTyped, Places, Steps, Passes, deployment
<1>7. ASSUME NEW w \in Workers, Welcome(w) PROVE Known'
  BY <1>7 DEF Welcome, To, cache, Known, Sweeping, Serving, Locking, Admitting, Collecting,
     CacheTyped, Places, Steps, Passes, deployment
<1>8. ASSUME NEW w \in Workers, EndSession(w) PROVE Known'
  BY <1>8 DEF EndSession, Gone, Known, Sweeping, Serving, Locking, Admitting, Collecting,
     CacheTyped, Places, Steps, Passes, deployment
<1>9. ASSUME NEW w \in Workers, Crash(w) PROVE Known'
  BY <1>9 DEF Crash, Refuse, Gone, LockAfter, Idle, Known, Sweeping, Serving, Locking,
     Admitting, Collecting, CacheTyped, Places, Steps, Passes, deployment
<1>10. ASSUME NEW d \in Editors, Snapshot(d) PROVE Known'
  <2>1. \/ pass'.at = "none" /\ UNCHANGED <<worker, exe, record>>
        \/ /\ UNCHANGED <<worker, exe, record, deploy>> /\ ~Unreadable
           /\ pass'.at = "sweep" /\ pass'.pinned = Pinned
    <3>1. UNCHANGED <<worker, exe, record>>
      BY <1>10 DEF Snapshot, processes
    <3>2. CASE Unreadable
      BY <1>10, <3>1, <3>2 DEF Snapshot, EndPass, Idle
    <3>3. CASE ~Unreadable
      BY <1>10, <3>1, <3>3 DEF Snapshot, CacheTyped, Passes
    <3> QED
      BY <3>2, <3>3
  <2>2. CASE pass'.at = "none"
    BY <2>2 DEF Known, Sweeping
  <2>3. CASE /\ UNCHANGED <<worker, exe, record, deploy>> /\ ~Unreadable
             /\ pass'.at = "sweep" /\ pass'.pinned = Pinned
    <3>1. \A w \in Workers : Serving(w)' => exe'[w].object \in pass'.pinned
      <4> SUFFICES ASSUME NEW w \in Workers, Serving(w)' PROVE exe[w].object \in Pinned
        BY <2>3
      <4>1. Serving(w)
        BY <2>3 DEF Serving
      <4>2. record[w] = exe[w].object /\ exe[w].object \in Objects
        BY <4>1 DEF Recorded, CacheTyped, Images
      <4> QED
        BY <4>2 DEF Pinned
    <3> QED
      BY <2>3, <3>1 DEF Known, Unreadable
  <2> QED
    BY <2>1, <2>2, <2>3
<1>11. ASSUME NEW d \in Editors, CancelPass(d) PROVE Known'
  BY <1>11 DEF CancelPass, Collects, EndPass, Idle, Unlock, processes, Known, Sweeping, Serving,
     Locking, Admitting, Collecting, CacheTyped, Places, Steps, Passes
<1>12. ASSUME NEW d \in Editors, Judge(d) PROVE Known'
  <2>1. UNCHANGED <<worker, exe, record>> /\ Sweeping
    BY <1>12 DEF Judge, processes, Sweeping
  <2>2. PICK o \in pass.left :
           \/ EndPass(d, "failed")
           \/ /\ UNCHANGED <<lock, deploy>>
              /\ \/ pass' = [pass EXCEPT !.left = pass.left \ {o}]
                 \/ /\ o \notin pass.pinned
                    /\ pass' = [[pass EXCEPT !.left = pass.left \ {o}]
                                  EXCEPT !.at = "object", !.object = o]
    BY <1>12 DEF Judge, KeepObject
  <2>3. o \in Objects
    BY <2>2 DEF CacheTyped, Passes
  <2>4. CASE EndPass(d, "failed")
    BY <2>4 DEF EndPass, Idle, Known, Sweeping
  <2>5. CASE UNCHANGED <<lock, deploy>> /\ pass' = [pass EXCEPT !.left = pass.left \ {o}]
    <3>1. pass'.at = pass.at /\ pass'.pinned = pass.pinned /\ pass'.object = pass.object
      BY <2>5 DEF CacheTyped, Passes
    <3> QED
      BY <2>1, <2>5, <3>1 DEF Known, Sweeping, Serving
  <2>6. CASE /\ UNCHANGED <<lock, deploy>> /\ o \notin pass.pinned
             /\ pass' = [[pass EXCEPT !.left = pass.left \ {o}]
                           EXCEPT !.at = "object", !.object = o]
    <3>1. pass'.pinned = pass.pinned /\ pass'.object = o
      BY <2>6 DEF CacheTyped, Passes
    <3> QED
      BY <2>1, <2>3, <2>6, <3>1 DEF Known, Sweeping, Serving
  <2> QED
    BY <2>2, <2>4, <2>5, <2>6
<1>13. ASSUME NEW d \in Editors, RemoveObject(d) PROVE Known'
  BY <1>13 DEF RemoveObject, Collects, EndPass, Idle, Unlock, processes, Absent, Present, Known,
     Sweeping, Serving, Locking, Admitting, Collecting, CacheTyped, Places, Steps, Passes
<1>14. ASSUME NEW d \in Editors, RemoveReceipt(d) PROVE Known'
  <2>1. UNCHANGED <<worker, exe, record>> /\ Sweeping
    BY <1>14 DEF RemoveReceipt, processes, Sweeping
  <2>2. \/ pass'.at = "none"
        \/ pass'.at = "sweep" /\ pass'.pinned = pass.pinned /\ UNCHANGED deploy
    <3>1. CASE receipt[pass.object] = "none"
      BY <1>14, <3>1 DEF RemoveReceipt, EndPass, Idle
    <3>2. CASE receipt[pass.object] # "none"
      <4>1. pass' = [pass EXCEPT !.at = "sweep", !.object = "none"] /\ UNCHANGED deploy
        BY <1>14, <3>2 DEF RemoveReceipt
      <4> QED
        BY <4>1 DEF CacheTyped, Passes
    <3> QED
      BY <3>1, <3>2
  <2>3. CASE pass'.at = "none"
    BY <2>3 DEF Known, Sweeping
  <2>4. CASE pass'.at = "sweep" /\ pass'.pinned = pass.pinned /\ UNCHANGED deploy
    BY <2>1, <2>4 DEF Known, Sweeping, Serving
  <2> QED
    BY <2>2, <2>3, <2>4
<1>15. ASSUME NEW d \in Editors, FinishPass(d) PROVE Known'
  BY <1>15 DEF FinishPass, Collects, EndPass, Idle, Unlock, processes, Known, Sweeping, Serving,
     Locking, Admitting, Collecting, CacheTyped, Places, Steps, Passes
<1>16. ASSUME NEW d \in Editors, CheckCache(d) PROVE Known'
  BY <1>16 DEF CheckCache, Moves, Refused, cache, processes, Present, Known, Sweeping, Serving,
     Locking, Admitting, Collecting, CacheTyped, Places, Steps, Passes
<1>17. ASSUME NEW d \in Editors, VerifyCached(d) PROVE Known'
  BY <1>17 DEF VerifyCached, Moves, Refused, cache, processes, Present, Known, Sweeping,
     Serving, Locking, Admitting, Collecting, CacheTyped, Places, Steps, Passes
<1>18. ASSUME NEW d \in Editors, RetireCorrupt(d) PROVE Known'
  BY <1>18 DEF RetireCorrupt, Moves, Refused, processes, Absent, Present, Known, Sweeping,
     Serving, Locking, Admitting, Collecting, CacheTyped, Places, Steps, Passes
<1>19. ASSUME NEW d \in Editors, Publish(d) PROVE Known'
  BY <1>19 DEF Publish, Moves, Refused, processes, Known, Sweeping, Serving, Locking, Admitting,
     Collecting, CacheTyped, Places, Steps, Passes
<1>20. ASSUME NEW d \in Editors, VerifyObject(d) PROVE Known'
  BY <1>20 DEF VerifyObject, Moves, Refused, cache, processes, Known, Sweeping, Serving,
     Locking, Admitting, Collecting, CacheTyped, Places, Steps, Passes
<1>21. ASSUME NEW d \in Editors, OpenReceipt(d) PROVE Known'
  BY <1>21 DEF OpenReceipt, Moves, processes, Known, Sweeping, Serving, Locking, Admitting,
     Collecting, CacheTyped, Places, Steps, Passes
<1>22. ASSUME NEW d \in Editors, WriteReceipt(d) PROVE Known'
  BY <1>22 DEF WriteReceipt, Moves, Refused, processes, Known, Sweeping, Serving, Locking,
     Admitting, Collecting, CacheTyped, Places, Steps, Passes
<1>23. ASSUME NEW d \in Editors, RereadReceipt(d) PROVE Known'
  BY <1>23 DEF RereadReceipt, Moves, Refused, cache, processes, Known, Sweeping, Serving,
     Locking, Admitting, Collecting, CacheTyped, Places, Steps, Passes
<1>24. ASSUME NEW d \in Editors, StartProbe(d) PROVE Known'
  BY <1>24 DEF StartProbe, Start, Launch, To, Moves, Refused, cache, Known, Sweeping, Serving,
     Locking, Admitting, Collecting, CacheTyped, Places, Steps, Passes
<1>25. ASSUME NEW d \in Editors, ProbeAnswered(d) PROVE Known'
  BY <1>25 DEF ProbeAnswered, Answered, Moves, Refused, cache, processes, Known, Sweeping,
     Serving, Locking, Admitting, Collecting, CacheTyped, Places, Steps, Passes
<1>26. ASSUME NEW d \in Editors, Unpin(d) PROVE Known'
  BY <1>26 DEF Unpin, RecordAfterProbe, Moves, processes, Known, Sweeping, Serving, Locking,
     Admitting, Collecting, CacheTyped, Places, Steps, Passes
<1>27. ASSUME NEW d \in Editors, StartLive(d) PROVE Known'
  BY <1>27 DEF StartLive, Start, Launch, To, Moves, Refused, cache, Known, Sweeping, Serving,
     Locking, Admitting, Collecting, CacheTyped, Places, Steps, Passes
<1>28. ASSUME NEW d \in Editors, LiveAnswered(d) PROVE Known'
  BY <1>28 DEF LiveAnswered, Answered, Moves, Refused, cache, processes, Known, Sweeping,
     Serving, Locking, Admitting, Collecting, CacheTyped, Places, Steps, Passes
<1>29. ASSUME NEW d \in Editors, BeginPass(d) PROVE Known'
  BY <1>29 DEF BeginPass, Idle, processes, Known, Sweeping, Serving, Locking, Admitting,
     Collecting, CacheTyped, Places, Steps, Passes
<1>30. ASSUME NEW d \in Editors, Abandon(d) PROVE Known'
  BY <1>30 DEF Abandon, cache, processes, Known, Sweeping, Serving, Locking, Admitting,
     Collecting, CacheTyped, Places, Steps, Passes
<1>31. CASE UNCHANGED vars
  BY <1>31 DEF vars, Known, Sweeping, Serving, Locking, Admitting, Collecting, CacheTyped,
     Places, Steps, Passes, cache, processes, deployment
<1>32. QED
  BY <1>1, <1>2, <1>3, <1>4, <1>5, <1>6, <1>7, <1>8, <1>9, <1>10, <1>11, <1>12, <1>13, <1>14,
     <1>15, <1>16, <1>17, <1>18, <1>19, <1>20, <1>21, <1>22, <1>23, <1>24, <1>25, <1>26, <1>27,
     <1>28, <1>29, <1>30, <1>31 DEF Next, Admits, Sweeps, Deploys

-----------------------------------------------------------------------------
(* The cache a session finds: nothing runs but, perhaps, an earlier worker. *)
LEMMA HostInit == Init => HostInv
<1> SUFFICES ASSUME Init PROVE HostInv
  OBVIOUS
<1>1. PICK o \in Objects, state \in {"live", "gone"} :
        /\ state = "live" => file[o].good /\ receipt[o] \in Contexts
        /\ worker = [w \in Workers |-> IF w = Tenant THEN state ELSE "none"]
        /\ \E left \in {o, "torn", "none"} :
             /\ state = "live" => left = o
             /\ record = [w \in Workers |-> IF w = Tenant THEN left ELSE "none"]
        /\ exe = [w \in Workers |-> [object |-> o, inode |-> IF w = Tenant THEN 1 ELSE 0]]
        /\ bound = [w \in Workers |->
             IF w = Tenant /\ state = "live" THEN receipt[o] ELSE "none"]
  BY DEF Init
<1>2. CacheTyped
  <2>1. file \in [Objects -> Inodes] /\ \A x \in Objects : file[x].good => Present(x)
    <3>1. {Absent, [inode |-> 1, good |-> TRUE], [inode |-> 1, good |-> FALSE]} \subseteq
            {i \in Inodes : i.good => i.inode # 0}
      BY DEF Absent, Inodes
    <3> QED
      BY <3>1 DEF Init, Present
  <2>2. exe \in [Workers -> Images]
    BY <1>1 DEF Images
  <2>3. bound \in [Workers -> {"none"} \union Contexts]
    BY <1>1
  <2>4. record \in [Workers -> {"none", "torn"} \union Objects] /\ worker \in [Workers ->
     Places]
    BY <1>1 DEF Places
  <2>5. pass \in Passes
    BY DEF Init, Idle, Passes
  <2> QED
    BY <2>1, <2>2, <2>3, <2>4, <2>5 DEF Init, CacheTyped, Steps
<1>3. \A w \in Workers : w # Tenant => worker[w] = "none"
  BY <1>1
<1>4. worker[Tenant] = state /\ (state = "live" => record[Tenant] = o) /\ exe[Tenant].object = o
  BY <1>1, WorkerNames
<1>5. Launched
  BY <1>3, <1>4, WorkerNames DEF Init, Launched, Probed
<1>6. Locking
  BY <1>3, <1>4 DEF Init, Idle, Locking, Admitting
<1>7. Recorded
  BY <1>1, <1>3, <1>4 DEF Init, Recorded, Serving, ProbeDoesNotPin
<1>8. Known
  BY DEF Init, Idle, Known, Sweeping
<1> QED
  BY <1>2, <1>5, <1>6, <1>7, <1>8 DEF HostInv

(* The invariant of the cache holds in every run.                          *)
LEMMA HostHolds == Spec => []HostInv
<1>1. HostInv /\ [Next]_vars => HostInv'
  BY TypedStep, LaunchedStep, LockingStep, RecordedStep, KnownStep DEF HostInv
<1> QED
  BY HostInit, <1>1, PTL DEF Spec

(* A deployment that has gone on from its probe has no lease record of the *)
(* probe in the cache: activate() in deploy.rs removes it after it stopped *)
(* the probe, and neither the probe's own guard nor a late admission puts  *)
(* it back.                                                                *)
THEOREM ProbesDoNotPin == Spec => []ProbeDoesNotPin
<1>1. HostInv => ProbeDoesNotPin
  BY DEF HostInv, Recorded
<1> QED
  BY HostHolds, <1>1, PTL

(* A collection never removes an object while some lease record cannot be  *)
(* read, and it need not look again: no record can become torn between its *)
(* listing and its removals, since a record is only created under the lock *)
(* (leases() and collect() in serve/cache_gc.rs).                          *)
THEOREM UnreadableKeepsAll == Spec => UnreadableRetiresNothing
<1> DEFINE Reads == \A d \in Editors : RemoveObject(d) /\ Present(pass.object) =>
                      \A w \in Workers : record[w] # "torn"
<1>1. HostInv => Reads
  BY DEF HostInv, Known, Sweeping, RemoveObject
<1>2. HostInv /\ [Next]_vars => [Reads]_vars
  BY <1>1
<1> QED
  BY HostHolds, <1>2, PTL DEF Spec, UnreadableRetiresNothing

-----------------------------------------------------------------------------
(* What a collection retires is not held by anybody: a serving worker's    *)
(* object is pinned, and no worker is between its check and its record.    *)
LEMMA RetiredUnheld ==
  ASSUME HostInv, NEW d \in Editors, Collects(d), pass.at \in {"object", "receipt"}
  PROVE  /\ pass.object \in Objects
         /\ \A w \in Workers : Held(w) => exe[w].object # pass.object
         /\ worker[Tenant] # "gone" => exe[Tenant].object # pass.object
<1>1. pass.object \in Objects \ pass.pinned
  BY DEF HostInv, Known, Sweeping
<1>2. ASSUME NEW w \in Workers, Held(w) PROVE Serving(w)
  BY <1>2, OnlyCollector DEF HostInv, Held, Admitting
<1>3. worker[Tenant] # "gone" => Serving(Tenant)
  BY WorkerNames DEF HostInv, Launched, Serving
<1> QED
  BY <1>1, <1>2, <1>3, WorkerNames DEF HostInv, Known, Sweeping

(* Whatever the editors do, and also when several deploy the same          *)
(* artifact, a collection removes neither the object a serving worker runs *)
(* nor that object's receipt: its pins stay complete while it holds the    *)
(* lock (collect() in serve/cache_gc.rs).                                  *)
THEOREM CollectionSparesServing ==
  Spec => [][\A d \in Editors, w \in Workers :
               (RemoveObject(d) \/ RemoveReceipt(d)) /\ Serving(w) =>
                 exe[w].object # pass.object]_vars
<1>1. HostInv => \A d \in Editors, w \in Workers :
                   (RemoveObject(d) \/ RemoveReceipt(d)) /\ Serving(w) =>
                     exe[w].object # pass.object
  BY RetiredUnheld DEF RemoveObject, RemoveReceipt, Held
<1> QED
  BY HostHolds, <1>1, PTL DEF Spec

(* Every action keeps what a worker has checked there, as long as only     *)
(* damaged objects are removed as damaged.                                 *)
LEMMA BoundStep == HostInv /\ Bound /\ [Next /\ RetiresDamaged]_vars => Bound'
<1> SUFFICES ASSUME HostInv /\ Bound, [Next /\ RetiresDamaged]_vars PROVE Bound'
  OBVIOUS
<1> USE WorkerNames
<1>1. ASSUME NEW w \in Workers, CheckName(w) PROVE Bound'
  BY <1>1 DEF CheckName, Refuse, Gone, To, LockAfter, Names, Bound, Names, Live, Held, HeldReceipt, Serving,
     HostInv, CacheTyped, Places, Steps, Present, deployment
<1>2. ASSUME NEW w \in Workers, TakeLock(w) PROVE Bound'
  BY <1>2 DEF TakeLock, To, Bound, Names, Live, Held, HeldReceipt, Serving, HostInv, CacheTyped, Places,
     Steps, Present, deployment
<1>3. ASSUME NEW w \in Workers, CheckObject(w) PROVE Bound'
  BY <1>3 DEF CheckObject, Refuse, Gone, To, LockAfter, Names, Bound, Names, Live, Held, HeldReceipt,
     Serving, HostInv, CacheTyped, Places, Steps, Present, deployment
<1>4. ASSUME NEW w \in Workers, CheckReceipt(w) PROVE Bound'
  <2>1. UNCHANGED <<file, receipt, exe, deploy>>
    BY <1>4 DEF CheckReceipt, deployment
  <2>2. \A v \in Workers : v # w => worker'[v] = worker[v]
    BY <1>4 DEF CheckReceipt, To, Refuse, Gone, CacheTyped, HostInv
  <2>3. /\ worker[w] = "object" /\ worker'[w] \in {"receipt", "gone"}
        /\ worker'[w] = "receipt" => receipt[exe[w].object] # "none"
    BY <1>4, CacheAssumption DEF CheckReceipt, To, Refuse, Gone, CacheTyped, HostInv
  <2>4. \A v \in Workers : Live(v)' => Live(v)
    BY <2>2, <2>3 DEF Live
  <2>5. \A v \in Workers : v # w => (Held(v)' => Held(v)) /\ (HeldReceipt(v)' => HeldReceipt(v))
    BY <2>1, <2>2 DEF Held, HeldReceipt, Serving
  <2>6. Held(w)
    BY <2>3 DEF Held
  <2> QED
    BY <2>1, <2>2, <2>3, <2>4, <2>5, <2>6 DEF Bound, Names, HeldReceipt, Serving
<1>5. ASSUME NEW w \in Workers, CreateRecord(w) PROVE Bound'
  BY <1>5 DEF CreateRecord, To, Bound, Names, Live, Held, HeldReceipt, Serving, HostInv, CacheTyped, Places,
     Steps, Present, deployment
<1>6. ASSUME NEW w \in Workers, SyncRecord(w) PROVE Bound'
  BY <1>6 DEF SyncRecord, Refuse, Gone, To, LockAfter, Unlock, Bound, Names, Live, Held, HeldReceipt,
     Serving, HostInv, CacheTyped, Places, Steps, Present, deployment
<1>7. ASSUME NEW w \in Workers, Welcome(w) PROVE Bound'
  BY <1>7 DEF Welcome, To, cache, Bound, Names, Live, Held, HeldReceipt, Serving, HostInv, CacheTyped,
     Places, Steps, Present, deployment
<1>8. ASSUME NEW w \in Workers, EndSession(w) PROVE Bound'
  BY <1>8 DEF EndSession, Gone, Bound, Names, Live, Held, HeldReceipt, Serving, HostInv, CacheTyped, Places,
     Steps, Present, deployment
<1>9. ASSUME NEW w \in Workers, Crash(w) PROVE Bound'
  BY <1>9 DEF Crash, Refuse, Gone, LockAfter, Idle, Bound, Names, Live, Held, HeldReceipt, Serving, HostInv,
     CacheTyped, Places, Steps, Present, deployment
<1>10. ASSUME NEW d \in Editors, Snapshot(d) PROVE Bound'
  BY <1>10 DEF Snapshot, Collects, EndPass, Idle, Unlock, processes, Bound, Names, Live, Held, HeldReceipt,
     Serving, HostInv, CacheTyped, Places, Steps, Present
<1>11. ASSUME NEW d \in Editors, CancelPass(d) PROVE Bound'
  BY <1>11 DEF CancelPass, Collects, EndPass, Idle, Unlock, processes, Bound, Names, Live, Held, HeldReceipt,
     Serving, HostInv, CacheTyped, Places, Steps, Present
<1>12. ASSUME NEW d \in Editors, Judge(d) PROVE Bound'
  <2>1. UNCHANGED <<file, receipt, worker, exe>> /\ deploy[d] = "collecting"
    BY <1>12, OnlyCollector DEF Judge, processes, HostInv
  <2>2. deploy' = deploy \/ deploy' = [deploy EXCEPT ![d] = "failed"]
    BY <1>12, Zenon DEF Judge, EndPass
  <2>3. deploy'[d] \in {"collecting", "failed"} /\ \A e \in Editors : e # d => deploy'[e] =
     deploy[e]
    BY <2>1, <2>2 DEF HostInv, CacheTyped
  <2> QED
    BY <2>1, <2>3 DEF Bound, Names, Live, Held, HeldReceipt, Serving
<1>13. ASSUME NEW d \in Editors, RemoveObject(d) PROVE Bound'
  <2>1. UNCHANGED <<receipt, worker, exe>> /\ deploy[d] = "collecting"
    BY <1>13, OnlyCollector DEF RemoveObject, processes, HostInv
  <2>2. \A e \in Editors : deploy'[e] = "probing" => deploy[e] = "probing"
    BY <1>13, <2>1 DEF RemoveObject, EndPass, HostInv, CacheTyped
  <2>3. /\ pass.object \in Objects
        /\ \A w \in Workers : Held(w) => exe[w].object # pass.object
    BY <1>13, RetiredUnheld DEF RemoveObject
  <2>4. \A o \in Objects : file'[o] = file[o] \/ (o = pass.object /\ file'[o] = Absent)
    BY <1>13, <2>3 DEF RemoveObject, HostInv, CacheTyped
  <2>5. \A w \in Workers : exe[w].object \in Objects
    BY DEF HostInv, CacheTyped, Images
  <2>6. \A w \in Workers : (Held(w)' => Held(w)) /\ (HeldReceipt(w)' => HeldReceipt(w))
    BY <2>1, <2>2 DEF Held, HeldReceipt, Serving
  <2>7. \A w \in Workers : Held(w)' => file'[exe[w].object].good
    BY <2>3, <2>4, <2>5, <2>6 DEF Bound
  <2>8. \A w \in Workers : Live(w)' /\ Names(w)' => file'[exe[w].object].good
    BY <2>1, <2>4, <2>5 DEF Bound, Names, Live, Absent
  <2> QED
    BY <2>1, <2>6, <2>7, <2>8 DEF Bound
<1>14. ASSUME NEW d \in Editors, RemoveReceipt(d) PROVE Bound'
  <2>1. UNCHANGED <<file, worker, exe>> /\ deploy[d] = "collecting"
    BY <1>14, OnlyCollector DEF RemoveReceipt, processes, HostInv
  <2>2. \A e \in Editors : deploy'[e] = "probing" => deploy[e] = "probing"
    BY <1>14, <2>1 DEF RemoveReceipt, EndPass, HostInv, CacheTyped
  <2>3. /\ pass.object \in Objects
        /\ \A w \in Workers : Held(w) => exe[w].object # pass.object
    BY <1>14, RetiredUnheld DEF RemoveReceipt
  <2>4. \A o \in Objects : o # pass.object => receipt'[o] = receipt[o]
    BY <1>14, <2>3 DEF RemoveReceipt, HostInv, CacheTyped
  <2>5. \A w \in Workers : exe[w].object \in Objects
    BY DEF HostInv, CacheTyped, Images
  <2>6. \A w \in Workers : (Held(w)' => Held(w)) /\ (HeldReceipt(w)' => HeldReceipt(w) /\
     Held(w))
    BY <2>1, <2>2 DEF Held, HeldReceipt, Serving
  <2>7. \A w \in Workers : HeldReceipt(w)' => receipt'[exe[w].object] # "none"
    BY <2>3, <2>4, <2>5, <2>6 DEF Bound
  <2> QED
    BY <2>1, <2>6, <2>7 DEF Bound, Names, Live
<1>15. ASSUME NEW d \in Editors, FinishPass(d) PROVE Bound'
  BY <1>15 DEF FinishPass, Collects, EndPass, Idle, Unlock, processes, Bound, Names, Live, Held, HeldReceipt,
     Serving, HostInv, CacheTyped, Places, Steps, Present
<1>16. ASSUME NEW d \in Editors, CheckCache(d) PROVE Bound'
  <2>1. /\ UNCHANGED <<file, receipt, worker, exe>>
        /\ \A e \in Editors : deploy'[e] = "probing" => deploy[e] = "probing"
    BY <1>16 DEF CheckCache, Moves, Refused, cache, processes, HostInv, CacheTyped
  <2> QED
    BY <2>1 DEF Bound, Names, Live, Held, HeldReceipt, Serving
<1>17. ASSUME NEW d \in Editors, VerifyCached(d) PROVE Bound'
  BY <1>17 DEF VerifyCached, Moves, Refused, cache, processes, Present, Bound, Names, Live, Held,
     HeldReceipt, Serving, HostInv, CacheTyped, Places, Steps
<1>18. ASSUME NEW d \in Editors, RetireCorrupt(d), RetiresDamaged PROVE Bound'
  <2>1. /\ UNCHANGED <<receipt, worker, exe>>
        /\ \A e \in Editors : deploy'[e] = "probing" => deploy[e] = "probing"
    BY <1>18 DEF RetireCorrupt, Moves, Refused, processes, HostInv, CacheTyped
  <2>2. /\ Artifact[d] \in Objects /\ ~file[Artifact[d]].good
        /\ \A o \in Objects : file'[o] = file[o] \/ (o = Artifact[d] /\ file'[o] = Absent)
    BY <1>18, CacheAssumption DEF RetireCorrupt, RetiresDamaged, HostInv, CacheTyped
  <2>3. \A w \in Workers : exe[w].object \in Objects
    BY DEF HostInv, CacheTyped, Images
  <2>4. \A w \in Workers : (Held(w)' => Held(w)) /\ (HeldReceipt(w)' => HeldReceipt(w))
    BY <2>1 DEF Held, HeldReceipt, Serving
  <2>5. \A w \in Workers : Held(w)' => file'[exe[w].object].good
    BY <2>2, <2>3, <2>4 DEF Bound
  <2>6. \A w \in Workers : Live(w)' /\ Names(w)' => file'[exe[w].object].good
    BY <2>1, <2>2, <2>3 DEF Bound, Names, Live, Absent
  <2> QED
    BY <2>1, <2>4, <2>5, <2>6 DEF Bound
<1>19. ASSUME NEW d \in Editors, Publish(d) PROVE Bound'
  <2>1. /\ UNCHANGED <<receipt, worker, exe>>
        /\ \A e \in Editors : deploy'[e] = "probing" => deploy[e] = "probing"
    BY <1>19 DEF Publish, Moves, Refused, processes, HostInv, CacheTyped
  <2>2. \A o \in Objects : file'[o] = file[o] \/ file'[o].good
    BY <1>19, CacheAssumption DEF Publish, HostInv, CacheTyped
  <2>3. \A w \in Workers : exe[w].object \in Objects
    BY DEF HostInv, CacheTyped, Images
  <2>4. \A w \in Workers : (Held(w)' => Held(w)) /\ (HeldReceipt(w)' => HeldReceipt(w))
    BY <2>1 DEF Held, HeldReceipt, Serving
  <2>5. \A w \in Workers : Held(w)' => file'[exe[w].object].good
    BY <2>2, <2>3, <2>4 DEF Bound
  <2>6. \A w \in Workers : Live(w)' /\ Names(w)' => file'[exe[w].object].good
    BY <2>1, <2>2, <2>3 DEF Bound, Names, Live
  <2> QED
    BY <2>1, <2>4, <2>5, <2>6 DEF Bound
<1>20. ASSUME NEW d \in Editors, VerifyObject(d) PROVE Bound'
  BY <1>20 DEF VerifyObject, Moves, Refused, cache, processes, Bound, Names, Live, Held, HeldReceipt,
     Serving, HostInv, CacheTyped, Places, Steps, Present
<1>21. ASSUME NEW d \in Editors, OpenReceipt(d) PROVE Bound'
  <2>1. /\ UNCHANGED <<file, worker, exe>>
        /\ deploy[d] = "receipt" /\ deploy'[d] \in {"write", "reread", "failed"}
        /\ \A e \in Editors : e # d => deploy'[e] = deploy[e]
    BY <1>21 DEF OpenReceipt, Moves, Refused, processes, HostInv, CacheTyped
  <2>2. \A o \in Objects : receipt[o] # "none" => receipt'[o] # "none"
    BY <1>21, CacheAssumption DEF OpenReceipt, HostInv, CacheTyped
  <2>3. \A w \in Workers : exe[w].object \in Objects
    BY DEF HostInv, CacheTyped, Images
  <2>4. \A w \in Workers : (Held(w)' => Held(w)) /\ (HeldReceipt(w)' => HeldReceipt(w))
    BY <2>1 DEF Held, HeldReceipt, Serving
  <2> QED
    BY <2>1, <2>2, <2>3, <2>4 DEF Bound, Names, Live
<1>22. ASSUME NEW d \in Editors, WriteReceipt(d) PROVE Bound'
  <2>1. /\ UNCHANGED <<file, worker, exe>>
        /\ deploy[d] = "write" /\ deploy'[d] \in {"write", "reread", "failed"}
        /\ \A e \in Editors : e # d => deploy'[e] = deploy[e]
    BY <1>22 DEF WriteReceipt, Moves, Refused, processes, HostInv, CacheTyped
  <2>2. \A o \in Objects : receipt[o] # "none" => receipt'[o] # "none"
    BY <1>22, CacheAssumption DEF WriteReceipt, HostInv, CacheTyped
  <2>3. \A w \in Workers : exe[w].object \in Objects
    BY DEF HostInv, CacheTyped, Images
  <2>4. \A w \in Workers : (Held(w)' => Held(w)) /\ (HeldReceipt(w)' => HeldReceipt(w))
    BY <2>1 DEF Held, HeldReceipt, Serving
  <2> QED
    BY <2>1, <2>2, <2>3, <2>4 DEF Bound, Names, Live
<1>23. ASSUME NEW d \in Editors, RereadReceipt(d) PROVE Bound'
  BY <1>23 DEF RereadReceipt, Moves, Refused, cache, processes, Bound, Names, Live, Held, HeldReceipt,
     Serving, HostInv, CacheTyped, Places, Steps, Present
<1>24. ASSUME NEW d \in Editors, StartProbe(d) PROVE Bound'
  <2>1. /\ UNCHANGED <<file, receipt>> /\ worker[<<d, "probe">>] = "none"
        /\ deploy[d] = "probe" /\ deploy'[d] \in {"probing", "failed"}
        /\ \A e \in Editors : e # d => deploy'[e] = deploy[e]
    BY <1>24 DEF StartProbe, Start, Moves, Refused, cache, HostInv, Launched, Early, CacheTyped
  <2>2. /\ \A w \in Workers \ {<<d, "probe">>} : worker'[w] = worker[w] /\ exe'[w] = exe[w]
        /\ worker'[<<d, "probe">>] \in {"none", "exec"}
        /\ worker'[<<d, "probe">>] = "exec" =>
             /\ file[Artifact[d]].good /\ exe'[<<d, "probe">>].object = Artifact[d]
             /\ exe'[<<d, "probe">>].inode = file[Artifact[d]].inode
    BY <1>24, <2>1, WorkerNames DEF StartProbe, Start, Launch, To, HostInv, CacheTyped
  <2>3. worker'[<<d, "probe">>] = "exec" => exe'[<<d, "probe">>].inode # 0
    BY <2>2, CacheAssumption DEF HostInv, CacheTyped, Present
  <2>4. \A w \in Workers : w # <<d, "probe">> =>
           (Held(w)' => Held(w)) /\ (HeldReceipt(w)' => HeldReceipt(w))
    BY <2>1, <2>2 DEF Held, HeldReceipt, Serving, HostInv, Launched, Early
  <2>5. ~Held(<<d, "probe">>)' /\ ~HeldReceipt(<<d, "probe">>)'
    BY <2>2 DEF Held, HeldReceipt, Serving
  <2>6. \A w \in Workers : Live(w)' /\ Names(w)' => file[exe'[w].object].good
    BY <2>1, <2>2 DEF Bound, Names, Live
  <2>7. \A w \in Workers : worker'[w] # "none" => exe'[w].inode # 0
    BY <2>2, <2>3 DEF Bound
  <2> QED
    BY <2>1, <2>2, <2>4, <2>5, <2>6, <2>7 DEF Bound
<1>25. ASSUME NEW d \in Editors, ProbeAnswered(d) PROVE Bound'
  BY <1>25 DEF ProbeAnswered, Answered, Moves, Refused, cache, processes, Bound, Names, Live, Held,
     HeldReceipt, Serving, HostInv, CacheTyped, Places, Steps, Present
<1>26. ASSUME NEW d \in Editors, Unpin(d) PROVE Bound'
  BY <1>26 DEF Unpin, RecordAfterProbe, Moves, processes, Bound, Names, Live, Held, HeldReceipt, Serving,
     HostInv, CacheTyped, Places, Steps, Present
<1>27. ASSUME NEW d \in Editors, StartLive(d) PROVE Bound'
  <2>1. /\ UNCHANGED <<file, receipt>> /\ worker[<<d, "live">>] = "none"
        /\ deploy[d] = "start" /\ deploy'[d] \in {"joining", "failed"}
        /\ \A e \in Editors : e # d => deploy'[e] = deploy[e]
    BY <1>27 DEF StartLive, Start, Moves, Refused, cache, HostInv, Launched, Early, CacheTyped
  <2>2. /\ \A w \in Workers \ {<<d, "live">>} : worker'[w] = worker[w] /\ exe'[w] = exe[w]
        /\ worker'[<<d, "live">>] \in {"none", "exec"}
        /\ worker'[<<d, "live">>] = "exec" =>
             /\ file[Artifact[d]].good /\ exe'[<<d, "live">>].object = Artifact[d]
             /\ exe'[<<d, "live">>].inode = file[Artifact[d]].inode
    BY <1>27, <2>1, WorkerNames DEF StartLive, Start, Launch, To, HostInv, CacheTyped
  <2>3. worker'[<<d, "live">>] = "exec" => exe'[<<d, "live">>].inode # 0
    BY <2>2, CacheAssumption DEF HostInv, CacheTyped, Present
  <2>4. \A w \in Workers : w # <<d, "live">> =>
           (Held(w)' => Held(w)) /\ (HeldReceipt(w)' => HeldReceipt(w))
    BY <2>1, <2>2 DEF Held, HeldReceipt, Serving, HostInv, Launched, Early
  <2>5. ~Held(<<d, "live">>)' /\ ~HeldReceipt(<<d, "live">>)'
    BY <2>2 DEF Held, HeldReceipt, Serving
  <2>6. \A w \in Workers : Live(w)' /\ Names(w)' => file[exe'[w].object].good
    BY <2>1, <2>2 DEF Bound, Names, Live
  <2>7. \A w \in Workers : worker'[w] # "none" => exe'[w].inode # 0
    BY <2>2, <2>3 DEF Bound
  <2> QED
    BY <2>1, <2>2, <2>4, <2>5, <2>6, <2>7 DEF Bound
<1>28. ASSUME NEW d \in Editors, LiveAnswered(d) PROVE Bound'
  BY <1>28 DEF LiveAnswered, Answered, Moves, Refused, cache, processes, Bound, Names, Live, Held,
     HeldReceipt, Serving, HostInv, CacheTyped, Places, Steps, Present
<1>29. ASSUME NEW d \in Editors, BeginPass(d) PROVE Bound'
  BY <1>29 DEF BeginPass, Idle, processes, Bound, Names, Live, Held, HeldReceipt, Serving, HostInv,
     CacheTyped, Places, Steps, Present
<1>30. ASSUME NEW d \in Editors, Abandon(d) PROVE Bound'
  BY <1>30 DEF Abandon, cache, processes, Bound, Names, Live, Held, HeldReceipt, Serving, HostInv,
     CacheTyped, Places, Steps, Present
<1>31. CASE UNCHANGED vars
  BY <1>31 DEF vars, Bound, Names, Live, Held, HeldReceipt, Serving, HostInv, CacheTyped, Places, Steps,
     Present, cache, processes, deployment
<1>32. QED
  BY <1>1, <1>2, <1>3, <1>4, <1>5, <1>6, <1>7, <1>8, <1>9, <1>10, <1>11, <1>12, <1>13, <1>14,
     <1>15, <1>16, <1>17, <1>18, <1>19, <1>20, <1>21, <1>22, <1>23, <1>24, <1>25, <1>26, <1>27,
     <1>28, <1>29, <1>30, <1>31 DEF Next, Admits, Sweeps, Deploys

(* What the workers check is there to begin with for the earlier worker.   *)
LEMMA BoundInit == Init => Bound
<1> SUFFICES ASSUME Init PROVE Bound
  OBVIOUS
<1>1. PICK o \in Objects, state \in {"live", "gone"} :
        /\ state = "live" => file[o].good /\ receipt[o] \in Contexts
        /\ worker = [w \in Workers |-> IF w = Tenant THEN state ELSE "none"]
        /\ exe = [w \in Workers |-> [object |-> o, inode |-> IF w = Tenant THEN 1 ELSE 0]]
  BY DEF Init
<1>2. \A w \in Workers : w # Tenant => worker[w] = "none"
  BY <1>1
<1>3. worker[Tenant] = state /\ exe[Tenant].object = o /\ exe[Tenant].inode = 1
  BY <1>1, WorkerNames
<1>4. \A w \in Workers : Held(w) \/ HeldReceipt(w) => w = Tenant /\ state = "live"
  BY <1>2, <1>3 DEF Held, HeldReceipt, Serving
<1>5. state = "live" => file[o].good /\ receipt[o] # "none"
  BY <1>1, CacheAssumption
<1> QED
  BY <1>1, <1>2, <1>3, <1>4, <1>5 DEF Bound, Live, Init

(* The object a serving worker runs and that object's receipt are in the   *)
(* cache for as long as it serves, whatever is collected, uploaded or      *)
(* crashes meanwhile and whoever deploys the same artifact, in every       *)
(* behaviour in which an editor that removes a damaged object by its name  *)
(* removes that object and not one published since (ensure() in deploy.rs;  *)
(* Cache_publish.cfg shows one in which it does not).                      *)
THEOREM ServingStays == Spec /\ [][RetiresDamaged]_vars => []ServingBound
<1>1. HostInv /\ Bound /\ [Next]_vars /\ [RetiresDamaged]_vars => Bound'
  BY BoundStep
<1>2. HostInv /\ Bound => ServingBound
  BY DEF Bound, Held, HeldReceipt, ServingBound, HostInv, CacheTyped, Images
<1> QED
  BY HostHolds, BoundInit, <1>1, <1>2, PTL DEF Spec
=============================================================================
