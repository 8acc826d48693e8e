----------------------------- MODULE CacheHost -----------------------------
(***************************************************************************)
(* The worker cache of one host, and everybody who writes in it: editors   *)
(* that deploy a worker through a remote file channel and take no lock,    *)
(* the workers they launch, which register a lease under the cache's lock  *)
(* before they answer, and the collection a live worker runs under the     *)
(* same lock.  A worker or an editor may die between any two steps; a      *)
(* dead worker's record stays.                                             *)
(***************************************************************************)
EXTENDS Integers, FiniteSets

CONSTANTS
  Objects,       \* content addresses
  Contexts,      \* endpoint contexts a receipt may bind
  Editors,       \* deployments
  Artifact,      \* the object each editor deploys
  Home,          \* the context it deploys under
  Consents,      \* whether the user may have granted a first deployment
  Tenant,        \* a worker of an earlier session
  NoOne,
  MaxInodes      \* bound: files ever published

Workers == (Editors \X {"probe", "live"}) \union {Tenant}

ASSUME CacheAssumption ==
  /\ IsFiniteSet(Objects) /\ IsFiniteSet(Editors)
  /\ Artifact \in [Editors -> Objects] /\ Home \in [Editors -> Contexts]
  /\ Consents \subseteq BOOLEAN /\ MaxInodes \in Nat
  /\ NoOne \notin Workers /\ Tenant \notin Editors \X {"probe", "live"}
  /\ "none" \notin Contexts \union Objects /\ "torn" \notin Contexts \union Objects

VARIABLES
  file,        \* per address: the file's inode (0: no file), its bytes as published or not
  receipt,     \* per address: no receipt, one half written, or the context it binds
  record,      \* per worker: its lease record: none, half written, or the object
  lock,        \* the worker that holds the cache's OS lock
  inodes,      \* inodes ever made
  worker,      \* per worker: where its process is
  exe,         \* per worker: the object and the inode it executes
  bound,       \* per worker: the context its receipt bound
  pass,        \* the collection that holds the lock
  deploy,      \* per editor: where its deployment is
  may          \* per editor: it was authorised or has the user's consent

cache == <<file, receipt, record, lock, inodes>>
processes == <<worker, exe, bound>>
deployment == <<deploy, may>>
vars == <<cache, processes, pass, deployment>>

Idle == [at |-> "none", pinned |-> {}, left |-> {}, object |-> "none"]
Absent == [inode |-> 0, good |-> FALSE]
Present(o) == file[o].inode # 0

\* An earlier session may have left objects, whole or damaged, with or
\* without a receipt, and a worker that still runs or has left its record.
Init ==
  /\ file \in [Objects -> {Absent, [inode |-> 1, good |-> TRUE], [inode |-> 1, good |-> FALSE]}]
  /\ receipt \in [Objects -> {"none"} \union Contexts]
  /\ lock = NoOne /\ inodes = 1
  /\ \E o \in Objects, state \in {"live", "gone"} :
       /\ state = "live" => file[o].good /\ receipt[o] \in Contexts
       /\ worker = [w \in Workers |-> IF w = Tenant THEN state ELSE "none"]
       /\ \E left \in {o, "torn", "none"} :
            /\ state = "live" => left = o
            /\ record = [w \in Workers |-> IF w = Tenant THEN left ELSE "none"]
       /\ exe = [w \in Workers |-> [object |-> o, inode |-> IF w = Tenant THEN 1 ELSE 0]]
       /\ bound = [w \in Workers |->
            IF w = Tenant /\ state = "live" THEN receipt[o] ELSE "none"]
  /\ pass = Idle
  /\ deploy = [d \in Editors |-> "new"] /\ may = [d \in Editors |-> FALSE]

-----------------------------------------------------------------------------
(* A worker admits itself: its name, the lock, the object, the receipt,    *)
(* the record, and only then the Welcome.                                  *)

Names(w) == file[exe[w].object].inode = exe[w].inode

Gone(w) == worker' = [worker EXCEPT ![w] = "gone"]
To(w, state) == worker' = [worker EXCEPT ![w] = state]
Unlock == lock' = NoOne

\* The lock's handle closes with the refusal, or with the process.
LockAfter(w) == IF lock = w THEN NoOne ELSE lock
Refuse(w) == Gone(w) /\ lock' = LockAfter(w)

\* Reading the name of the running executable: an inode that lost its name
\* to an unlink or a rename is refused.
CheckName(w) ==
  /\ worker[w] = "exec"
  /\ \/ Names(w) /\ To(w, "named") /\ UNCHANGED lock
     \/ ~Names(w) /\ Refuse(w)
  /\ UNCHANGED <<file, receipt, record, inodes, exe, bound, pass, deployment>>

TakeLock(w) ==
  /\ worker[w] = "named" /\ lock = NoOne
  /\ lock' = w /\ To(w, "locked")
  /\ UNCHANGED <<file, receipt, record, inodes, exe, bound, pass, deployment>>

CheckObject(w) ==
  /\ worker[w] = "locked"
  /\ \/ Names(w) /\ To(w, "object") /\ UNCHANGED lock
     \/ ~Names(w) /\ Refuse(w)
  /\ UNCHANGED <<file, receipt, record, inodes, exe, bound, pass, deployment>>

CheckReceipt(w) ==
  /\ worker[w] = "object"
  /\ LET found == receipt[exe[w].object] IN
     \/ /\ found \in Contexts
        /\ bound' = [bound EXCEPT ![w] = found]
        /\ To(w, "receipt") /\ UNCHANGED lock
     \/ found \notin Contexts /\ Refuse(w) /\ UNCHANGED bound
  /\ UNCHANGED <<file, receipt, record, inodes, exe, pass, deployment>>

CreateRecord(w) ==
  /\ worker[w] = "receipt"
  /\ record' = [record EXCEPT ![w] = "torn"]
  /\ To(w, "record")
  /\ UNCHANGED <<file, receipt, lock, inodes, exe, bound, pass, deployment>>

\* Written and synced, or removed and refused.
SyncRecord(w) ==
  /\ worker[w] = "record"
  /\ \/ record' = [record EXCEPT ![w] = exe[w].object] /\ To(w, "admitted") /\ Unlock
     \/ record' = [record EXCEPT ![w] = "none"] /\ Refuse(w)
  /\ UNCHANGED <<file, receipt, inodes, exe, bound, pass, deployment>>

Welcome(w) ==
  /\ worker[w] = "admitted" /\ To(w, "live")
  /\ UNCHANGED <<cache, exe, bound, pass, deployment>>

\* The session ends, or its Welcome cannot be written: the guard removes its
\* own record, without the lock.
EndSession(w) ==
  /\ worker[w] \in {"admitted", "live"} /\ lock # w
  /\ Gone(w)
  /\ record' = [record EXCEPT ![w] = "none"]
  /\ UNCHANGED <<file, receipt, lock, inodes, exe, bound, pass, deployment>>

Crash(w) ==
  /\ worker[w] \notin {"none", "gone"}
  /\ Refuse(w)
  /\ pass' = IF lock = w THEN Idle ELSE pass
  /\ UNCHANGED <<file, receipt, record, inodes, exe, bound, deployment>>

-----------------------------------------------------------------------------
(* Collection, by the live worker of an editor.  Lease records and objects *)
(* are listed under the lock; each object is then judged and retired by    *)
(* itself.                                                                 *)

Collects(d) == lock = <<d, "live">> /\ pass.at # "none"

EndPass(d, outcome) ==
  /\ pass' = Idle /\ Unlock
  /\ deploy' = [deploy EXCEPT ![d] = outcome]

\* A context that is not the one the worker's receipt bound is refused.
BeginPass(d) ==
  LET w == <<d, "live">> IN
  /\ deploy[d] = "collect" /\ worker[w] = "live"
  /\ \/ /\ bound[w] # Home[d]
        /\ deploy' = [deploy EXCEPT ![d] = "failed"] /\ UNCHANGED <<lock, pass>>
     \/ /\ bound[w] = Home[d] /\ lock = NoOne
        /\ lock' = w /\ pass' = [Idle EXCEPT !.at = "snapshot"]
        /\ deploy' = [deploy EXCEPT ![d] = "collecting"]
  /\ UNCHANGED <<file, receipt, record, inodes, processes, may>>

PinnedOwn == {exe[lock].object}    \* mutant of Pinned
Pinned == {record[w] : w \in Workers} \intersect Objects

UnreadableIgnored == FALSE    \* mutant of Unreadable
Unreadable == \E w \in Workers : record[w] = "torn"

Snapshot(d) ==
  /\ Collects(d) /\ pass.at = "snapshot"
  /\ IF Unreadable THEN EndPass(d, "failed")
     ELSE /\ pass' = [pass EXCEPT !.at = "sweep", !.pinned = Pinned,
                                  !.left = {o \in Objects : Present(o)}]
          /\ UNCHANGED <<lock, deploy>>
  /\ UNCHANGED <<file, receipt, record, inodes, processes, may>>

CancelPass(d) ==
  /\ Collects(d) /\ pass.at \in {"snapshot", "sweep"}
  /\ EndPass(d, "failed")
  /\ UNCHANGED <<file, receipt, record, inodes, processes, may>>

KeepObject(o) == o = exe[lock].object \/ o \in pass.pinned

\* Only an unpinned object bound to the collector's context and of the size
\* its receipt gives is a candidate; a receipt that cannot be read ends the pass.
Sized(o) == IF file[o].good THEN {TRUE} ELSE IF Present(o) THEN BOOLEAN ELSE {FALSE}

Judge(d) ==
  /\ Collects(d) /\ pass.at = "sweep"
  /\ \E o \in pass.left :
       LET skip == [pass EXCEPT !.left = @ \ {o}] IN
       IF ~KeepObject(o) /\ receipt[o] = "torn" THEN EndPass(d, "failed")
       ELSE /\ \E sized \in Sized(o) :
                 pass' = IF ~KeepObject(o) /\ receipt[o] = bound[lock] /\ sized
                         THEN [skip EXCEPT !.at = "object", !.object = o]
                         ELSE skip
            /\ UNCHANGED <<lock, deploy>>
  /\ UNCHANGED <<file, receipt, record, inodes, processes, may>>

\* The object goes first, then its receipt; a name that is already gone
\* ends the pass.
RemoveObject(d) ==
  /\ Collects(d) /\ pass.at = "object"
  /\ IF Present(pass.object)
     THEN /\ file' = [file EXCEPT ![pass.object] = Absent]
          /\ pass' = [pass EXCEPT !.at = "receipt"] /\ UNCHANGED <<lock, deploy>>
     ELSE EndPass(d, "failed") /\ UNCHANGED file
  /\ UNCHANGED <<receipt, record, inodes, processes, may>>

RemoveReceipt(d) ==
  /\ Collects(d) /\ pass.at = "receipt"
  /\ IF receipt[pass.object] # "none"
     THEN /\ receipt' = [receipt EXCEPT ![pass.object] = "none"]
          /\ pass' = [pass EXCEPT !.at = "sweep", !.object = "none"]
          /\ UNCHANGED <<lock, deploy>>
     ELSE EndPass(d, "failed") /\ UNCHANGED receipt
  /\ UNCHANGED <<file, record, inodes, processes, may>>

FinishPass(d) ==
  /\ Collects(d) /\ pass.at = "sweep" /\ pass.left = {}
  /\ EndPass(d, "ready")
  /\ UNCHANGED <<file, receipt, record, inodes, processes, may>>

-----------------------------------------------------------------------------
(* Deployment, step by step over the file channel.                         *)

Moves(d, from, to) == deploy[d] = from /\ deploy' = [deploy EXCEPT ![d] = to]
Refused(d, from) == Moves(d, from, "failed")

\* Any receipt of this context authorises; otherwise the user must.
CheckCache(d) ==
  LET authorized == \E o \in Objects : receipt[o] = Home[d] IN
  /\ \E consent \in Consents : may' = [may EXCEPT ![d] = authorized \/ consent]
  /\ \/ Present(Artifact[d]) /\ Moves(d, "new", "verify")
     \/ ~Present(Artifact[d]) /\ may'[d] /\ Moves(d, "new", "upload")
     \/ ~Present(Artifact[d]) /\ ~may'[d] /\ Refused(d, "new")
  /\ UNCHANGED <<cache, processes, pass>>

\* A file that vanished since it was seen counts as damaged, or as a failed
\* read when it vanishes later still.
VerifyCached(d) ==
  /\ \/ file[Artifact[d]].good /\ Moves(d, "verify", "receipt")
     \/ ~file[Artifact[d]].good /\ Moves(d, "verify", "retire")
     \/ ~Present(Artifact[d]) /\ Refused(d, "verify")
  /\ UNCHANGED <<cache, processes, pass, may>>

\* The object found damaged is removed by name.
RetireCorrupt(d) ==
  /\ \/ /\ Present(Artifact[d])
        /\ file' = [file EXCEPT ![Artifact[d]] = Absent]
        /\ \/ may[d] /\ Moves(d, "retire", "upload")
           \/ ~may[d] /\ Refused(d, "retire")
     \/ ~Present(Artifact[d]) /\ Refused(d, "retire") /\ UNCHANGED file
  /\ UNCHANGED <<receipt, record, lock, inodes, processes, pass, may>>

\* Upload to a name of its own and read-back come before the rename, which
\* replaces what the address held.
Publish(d) ==
  /\ \/ /\ inodes < MaxInodes /\ inodes' = inodes + 1
        /\ file' = [file EXCEPT ![Artifact[d]] = [inode |-> inodes + 1, good |-> TRUE]]
        /\ Moves(d, "upload", "check")
     \/ Refused(d, "upload") /\ UNCHANGED <<inodes, file>>
  /\ UNCHANGED <<receipt, record, lock, processes, pass, may>>

VerifyObject(d) ==
  /\ \/ file[Artifact[d]].good /\ Moves(d, "check", "receipt")
     \/ ~file[Artifact[d]].good /\ Refused(d, "check")
  /\ UNCHANGED <<cache, processes, pass, may>>

\* The receipt is opened, which empties it, and then written; a receipt
\* unlinked in between stays unlinked.
OpenReceipt(d) ==
  /\ \/ receipt[Artifact[d]] = Home[d] /\ Moves(d, "receipt", "reread") /\ UNCHANGED receipt
     \/ /\ receipt[Artifact[d]] # Home[d] /\ Moves(d, "receipt", "write")
        /\ receipt' = [receipt EXCEPT ![Artifact[d]] = "torn"]
  /\ UNCHANGED <<file, record, lock, inodes, processes, pass, may>>

WriteReceipt(d) ==
  /\ \/ /\ Moves(d, "write", "reread")
        /\ receipt' = IF receipt[Artifact[d]] = "none" THEN receipt
                      ELSE [receipt EXCEPT ![Artifact[d]] = Home[d]]
     \/ Refused(d, "write") /\ UNCHANGED receipt
  /\ UNCHANGED <<file, record, lock, inodes, processes, pass, may>>

RereadReceipt(d) ==
  /\ \/ receipt[Artifact[d]] = Home[d] /\ Moves(d, "reread", "probe")
     \/ receipt[Artifact[d]] # Home[d] /\ Refused(d, "reread")
  /\ UNCHANGED <<cache, processes, pass, may>>

Launch(w, o) ==
  /\ file[o].good /\ To(w, "exec")
  /\ exe' = [exe EXCEPT ![w] = [object |-> o, inode |-> file[o].inode]]

\* The probe, and after it the editor's own worker.
Start(d, kind, from, to) ==
  /\ \/ Launch(<<d, kind>>, Artifact[d]) /\ Moves(d, from, to)
     \/ ~file[Artifact[d]].good /\ Refused(d, from) /\ UNCHANGED <<worker, exe>>
  /\ UNCHANGED <<cache, bound, pass, may>>
StartProbe(d) == Start(d, "probe", "probe", "probing")
StartLive(d) == Start(d, "live", "start", "joining")

\* A Welcome, a refusal, or no answer within the time allowed.
Answered(d, kind, from, to) ==
  /\ \/ worker[<<d, kind>>] = "live" /\ Moves(d, from, to)
     \/ worker[<<d, kind>>] # "live" /\ Refused(d, from)
  /\ UNCHANGED <<cache, processes, pass, may>>
ProbeAnswered(d) == Answered(d, "probe", "probing", "unpin")
LiveAnswered(d) == Answered(d, "live", "joining", "collect")

\* The probe has been told to stop; it must not pin the object.
RecordAfterProbeKept(d) == record    \* mutant of RecordAfterProbe
RecordAfterProbe(d) == [record EXCEPT ![<<d, "probe">>] = "none"]

Unpin(d) ==
  /\ record' = RecordAfterProbe(d)
  /\ Moves(d, "unpin", "start")
  /\ UNCHANGED <<file, receipt, lock, inodes, processes, pass, may>>

\* The editor, its channel or its worker is gone.
Abandon(d) ==
  /\ deploy[d] \notin {"new", "ready", "failed"}
  /\ deploy[d] = "collecting" => worker[<<d, "live">>] = "gone"
  /\ deploy' = [deploy EXCEPT ![d] = "failed"]
  /\ UNCHANGED <<cache, processes, pass, may>>

Admits(w) ==
  \/ CheckName(w) \/ TakeLock(w) \/ CheckObject(w) \/ CheckReceipt(w)
  \/ CreateRecord(w) \/ SyncRecord(w) \/ Welcome(w)

Sweeps(d) ==
  \/ Snapshot(d) \/ Judge(d) \/ RemoveObject(d) \/ RemoveReceipt(d) \/ FinishPass(d)

Deploys(d) ==
  \/ CheckCache(d) \/ VerifyCached(d) \/ RetireCorrupt(d) \/ Publish(d) \/ VerifyObject(d)
  \/ OpenReceipt(d) \/ WriteReceipt(d) \/ RereadReceipt(d)
  \/ StartProbe(d) \/ ProbeAnswered(d) \/ Unpin(d)
  \/ StartLive(d) \/ LiveAnswered(d) \/ BeginPass(d)

Next ==
  \/ \E w \in Workers : Admits(w) \/ EndSession(w) \/ Crash(w)
  \/ \E d \in Editors : Sweeps(d) \/ CancelPass(d) \/ Deploys(d) \/ Abandon(d)

Spec == Init /\ [][Next]_vars

-----------------------------------------------------------------------------
(* Properties.                                                             *)

\* A worker in its session: admitted, and not a probe that was told to stop.
Serving(w) ==
  /\ worker[w] \in {"admitted", "live"}
  /\ \A d \in Editors : w = <<d, "probe">> => deploy[d] = "probing"

\* While a worker serves, the object it runs and that object's receipt stay in
\* the cache: register() excludes collection from its checks to its record, and
\* collection reads every record before it retires anything
\* (serve/cache_lease.rs, serve/cache_gc.rs).
ServingBound ==
  \A w \in Workers : Serving(w) => /\ Present(exe[w].object)
                                   /\ receipt[exe[w].object] # "none"

\* While a record cannot be read nothing is retired: the object it would have
\* named is not known (leases() in serve/cache_gc.rs).
UnreadableRetiresNothing ==
  [][\A d \in Editors : RemoveObject(d) /\ Present(pass.object) =>
                      \A w \in Workers : record[w] # "torn"]_vars

\* A deployment goes on to its own worker only after the probe's lease is gone;
\* nobody recreates it (activate() in deploy.rs).
ProbeDoesNotPin ==
  \A d \in Editors :
    deploy[d] \in {"start", "joining", "collect", "collecting", "ready"} =>
      record[<<d, "probe">>] = "none"

=============================================================================
