------------------------ MODULE LanguageSyncProofs ------------------------
(***************************************************************************)
(* Proofs about LanguageSync for any paths, requests and bounds.  One      *)
(* inductive invariant: types; how the records of editor and client go     *)
(* together; the frame the wire worker waits for; that what the client has *)
(* recorded is the last thing on its way; where requests stand between the *)
(* changes; and what the server may know of a version.                     *)
(***************************************************************************)
EXTENDS LanguageSync, TLAPS

DocKinds == {"open", "change", "close"}
Jobs ==
  [kind : DocKinds, path : Paths, doc : Nat, text : Nat, version : Nat]
    \union [kind : {"request"}, request : Requests] \union [kind : {"rename"}]
Documents == [open : BOOLEAN, doc : Nat, text : Nat]
Records ==
  [open : BOOLEAN, doc : Nat, text : Nat, version : Nat, pending : BOOLEAN,
   unversioned : BOOLEAN]
Copies == [open : BOOLEAN, doc : Nat, text : Nat, version : Nat]
Reports == [path : Paths, doc : Nat, text : Nat, version : Nat]
Places == {"new", "early", "queued", "task", "current", "sent", "asked", "noted", "lost"}

ClientTyped ==
  /\ editor \in [Paths -> Documents] /\ docs \in [Paths -> Records]
  /\ phase \in {"waiting", "flushing", "ready", "failed"}
  /\ flush \subseteq Paths /\ seen \subseteq Paths /\ version \in Nat
WireTyped ==
  /\ queue \in Seq(Jobs) /\ channel \in Seq(Jobs)
  /\ worker \in {"idle", "waiting", "gone"} /\ ticket \in DocKinds \union {"none"}
PeerTyped ==
  /\ server \in [Paths -> Copies] /\ published \subseteq Reports
  /\ op \in [Requests -> Places] /\ stamp \in [Requests -> [doc : Nat, text : Nat]]
  /\ answer \in [Requests -> Nat]
SyncTyped == ClientTyped /\ WireTyped /\ PeerTyped

(* A document the client has recorded is the one the editor has open.      *)
Recorded(p) ==
  docs[p].open => /\ editor[p].open /\ docs[p].doc = editor[p].doc
                  /\ docs[p].text <= editor[p].text /\ docs[p].version <= version
                  /\ docs[p].version # 0 => p \in seen

(* The handshake: nothing is on the wire before it, and afterwards what is *)
(* recorded is.                                                            *)
Phased ==
  /\ phase = "waiting" => seen = {} /\ \A p \in Paths : docs[p].version = 0
  /\ flush # {} => phase = "flushing"
  /\ \A p \in flush : docs[p].open /\ docs[p].version = 0 /\ p \notin seen
  /\ \A p \in Paths \ flush :
       phase \in {"flushing", "ready"} /\ docs[p].open => docs[p].version # 0
  /\ phase \in {"waiting", "failed"} \/ flush # {} =>
       \A r \in Requests : op[r] \in {"new", "early", "noted"}

(* The worker waits for the only notification before the writer.           *)
Notifies(job) == job.kind # "request"
Waits ==
  /\ accepting <=> link = "up"
  /\ ticket # "none" <=> worker = "waiting"
  /\ \A i \in DOMAIN channel : Notifies(channel[i]) =>
       /\ worker = "waiting" /\ Method(channel[i].kind) = ticket
       /\ \A j \in DOMAIN channel : Notifies(channel[j]) => i = j

(* The last notification about a document that is on its way says what is  *)
(* recorded; when there is none, the server has it.                        *)
IsDoc(job, p) == job.kind \in DocKinds /\ job.path = p
None(s, p) == \A i \in DOMAIN s : ~IsDoc(s[i], p)
IsLast(s, i, p) == IsDoc(s[i], p) /\ \A j \in DOMAIN s : i < j => ~IsDoc(s[j], p)
Says(job, d) ==
  HoldsText(job) /\ job.doc = d.doc /\ job.text = d.text /\ job.version = d.version
Sent(p) == link = "up" /\ phase # "failed" /\ docs[p].open /\ docs[p].version # 0
Mirrored(p) ==
  /\ \A i \in DOMAIN queue : IsLast(queue, i, p) => Says(queue[i], docs[p])
  /\ None(queue, p) =>
       /\ \A i \in DOMAIN channel : IsDoc(channel[i], p) => Says(channel[i], docs[p])
       /\ None(channel, p) =>
            server[p] = [open |-> TRUE, doc |-> docs[p].doc, text |-> docs[p].text,
                         version |-> docs[p].version]

(* A queued request is behind the text it is stamped with, and as long as  *)
(* its stamp is current nothing about its document is behind it.           *)
Ahead(i, p, text) ==
  /\ \A j \in DOMAIN queue :
       j < i /\ IsDoc(queue[j], p) /\ (\A k \in DOMAIN queue : j < k /\ k < i => ~IsDoc(queue[k], p))
         => HoldsText(queue[j]) /\ queue[j].text = text
  /\ (\A j \in DOMAIN queue : j < i => ~IsDoc(queue[j], p)) =>
       /\ \A j \in DOMAIN channel : IsDoc(channel[j], p) => HoldsText(channel[j]) /\ channel[j].text = text
       /\ None(channel, p) => server[p].text = text
Barred(i) ==
  queue[i].kind = "request" =>
    /\ op[queue[i].request] = "queued"
    /\ \A j \in DOMAIN queue :
         queue[j].kind = "request" /\ queue[j].request = queue[i].request => i = j
    /\ Ahead(i, About[queue[i].request], stamp[queue[i].request].text)
    /\ Owns(queue[i].request) =>
         \A j \in DOMAIN queue : i < j => ~IsDoc(queue[j], About[queue[i].request])
Asks(i) ==
  channel[i].kind = "request" =>
    /\ op[channel[i].request] = "sent"
    /\ \A j \in DOMAIN channel :
         channel[j].kind = "request" /\ channel[j].request = channel[i].request => i = j

(* A request that has left the queue with its stamp still current finds    *)
(* nothing about its document on the way, and the server at its text.      *)
Stamped(r) ==
  op[r] # "new" =>
    /\ stamp[r].doc <= editor[About[r]].doc
    /\ stamp[r].doc = editor[About[r]].doc /\ editor[About[r]].open =>
         docs[About[r]].open /\ stamp[r].text <= docs[About[r]].text
Launched(r) ==
  /\ op[r] \in {"task", "current", "sent"} /\ Owns(r) =>
       /\ None(queue, About[r]) /\ None(channel, About[r])
       /\ server[About[r]].text = stamp[r].text
  /\ op[r] = "asked" /\ Owns(r) => answer[r] = stamp[r].text

(* What was sent under a version is of one document and one text.          *)
Known(d) ==
  /\ d.version \in 1..version /\ d.path \in seen
  /\ docs[d.path].open /\ d.version = docs[d.path].version =>
       d.doc = docs[d.path].doc /\ (phase # "failed" => d.text = docs[d.path].text)
  /\ docs[d.path].open /\ docs[d.path].version # 0 /\ docs[d.path].unversioned =>
       d.doc = docs[d.path].doc
Traffic ==
  /\ \A i \in DOMAIN queue : HoldsText(queue[i]) => Known(queue[i])
  /\ \A i \in DOMAIN channel : HoldsText(channel[i]) => Known(channel[i])
  /\ \A d \in published : Known(d)

(* A job is put behind the others, or in the place of an older change of   *)
(* its document that no request and nothing about the document is behind.  *)
PlacedAt(job, n) ==
  /\ n \in Nat /\ DOMAIN queue' = DOMAIN queue \union {n} /\ queue'[n] = job
  /\ \A i \in DOMAIN queue : i # n => queue'[i] = queue[i]
  /\ \A i \in DOMAIN queue : n < i => queue[i].kind # "request" /\ ~IsDoc(queue[i], job.path)
  /\ n \in DOMAIN queue =>
       job.kind = "change" /\ queue[n].kind = "change" /\ queue[n].path = job.path
  /\ n \notin DOMAIN queue => \A i \in DOMAIN queue : i < n
Queues(job) == IF link = "up" THEN \E n \in Nat : PlacedAt(job, n) ELSE UNCHANGED queue

(* A sequence seen with the eyes of one document.                          *)
Same(s, t, p) ==
  /\ DOMAIN s \subseteq DOMAIN t
  /\ \A i \in DOMAIN t :
       IF i \in DOMAIN s THEN IsDoc(s[i], p) \/ IsDoc(t[i], p) => t[i] = s[i]
       ELSE ~IsDoc(t[i], p)

(* What a step does to what is on the way: a job about a document is       *)
(* queued with its record; a request is queued; or neither, and no         *)
(* document that was sent has a new record.                                *)
Waiting == {"queued", "task", "current", "sent", "asked"}
Posts(p, job) ==
  /\ IsDoc(job, p) /\ Queues(job)
  /\ UNCHANGED <<phase, channel, server, link, published, stamp, answer>>
  /\ \A q \in Paths : q # p => docs'[q] = docs[q]
  /\ IF HoldsText(job)
     THEN /\ docs'[p].open /\ Says(job, docs'[p]) /\ p \in seen'
          /\ job.version = version' /\ version' = version + 1
     ELSE ~docs'[p].open
  /\ \A r \in Requests : op'[r] = op[r] \/ (op[r] = "early" /\ op'[r] = "noted")
  /\ \A r \in Requests : About[r] = p /\ op[r] \in Waiting => ~Owns(r)'
Enqueues(r) ==
  /\ link = "up" /\ Queues(RequestJob(r)) /\ Sent(About[r])
  /\ UNCHANGED <<phase, channel, server, link, published, answer, docs>>
  /\ op[r] \in {"new", "early"} /\ op'[r] = "queued"
  /\ stamp'[r].text = docs[About[r]].text
  /\ \A q \in Requests : q # r => op'[q] = op[q] /\ stamp'[q] = stamp[q]
Quiet ==
  /\ UNCHANGED queue \/ Queues(RenameJob)
  /\ UNCHANGED <<channel, server, link, published, answer>>
  /\ \A p \in Paths : Sent(p)' => Sent(p) /\ docs'[p] = docs[p]
  /\ \A r \in Requests :
       \/ op'[r] = op[r]
       \/ op[r] \in {"new", "early", "task"} /\ op'[r] \in {"early", "noted", "lost"}
       \/ op[r] = "task" /\ op'[r] = "current"
  /\ \A r \in Requests : op[r] # "new" => stamp'[r] = stamp[r] /\ (Owns(r)' => Owns(r))
StepKind ==
  \/ Quiet \/ (\E p \in Paths, job \in Jobs : Posts(p, job)) \/ (\E r \in Requests : Enqueues(r))
  \/ NextJob \/ (\E r \in Requests : SendRequest(r)) \/ Write \/ Disconnect

SyncInv ==
  /\ SyncTyped /\ Phased /\ Waits /\ Traffic
  /\ \A p \in Paths : Recorded(p) /\ (Sent(p) => Mirrored(p))
  /\ (link = "up" => \A i \in DOMAIN queue : Barred(i)) /\ \A i \in DOMAIN channel : Asks(i)
  /\ \A r \in Requests : Stamped(r) /\ Launched(r)
-----------------------------------------------------------------------------
(* A job is about a document, a request or a rename.                       *)
LEMMA JobKinds ==
  ASSUME NEW x \in Jobs
  PROVE  \/ /\ x.kind \in DocKinds /\ x.path \in Paths /\ x.doc \in Nat /\ x.text \in Nat
            /\ x.version \in Nat
         \/ x.kind = "request" /\ x.request \in Requests
         \/ x.kind = "rename"
  BY DEF Jobs

(* The jobs the client makes.                                              *)
LEMMA JobsMade ==
  /\ \A kind \in DocKinds, p \in Paths, d \in Documents \union Records, v \in Nat :
       /\ Job(kind, p, d, v) \in Jobs /\ Job(kind, p, d, v).kind = kind /\ Job(kind, p, d,
             v).path = p
       /\ Job(kind, p, d, v).doc = d.doc /\ Job(kind, p, d, v).text = d.text
       /\ Job(kind, p, d, v).version = v
  /\ \A r \in Requests :
       RequestJob(r) \in Jobs /\ RequestJob(r).kind = "request" /\ RequestJob(r).request = r
  /\ RenameJob \in Jobs /\ RenameJob.kind = "rename"
<1>1. ASSUME NEW kind \in DocKinds, NEW p \in Paths, NEW d \in Documents \union Records, NEW v
   \in Nat
      PROVE  /\ Job(kind, p, d, v) \in Jobs /\ Job(kind, p, d, v).kind = kind
             /\ Job(kind, p, d, v).path = p
             /\ Job(kind, p, d, v).doc = d.doc /\ Job(kind, p, d, v).text = d.text
             /\ Job(kind, p, d, v).version = v
  <2>1. d.doc \in Nat /\ d.text \in Nat
    BY DEF Documents, Records
  <2> QED
    BY <2>1 DEF Job, Jobs
<1>2. \A r \in Requests :
       RequestJob(r) \in Jobs /\ RequestJob(r).kind = "request" /\ RequestJob(r).request = r
  BY DEF RequestJob, Jobs
<1>3. RenameJob \in Jobs /\ RenameJob.kind = "rename"
  BY DEF RenameJob, Jobs
<1> QED
  BY <1>1, <1>2, <1>3

(* What may become of a job that is offered to the wire queue.             *)
LEMMA Offered ==
  ASSUME SyncTyped, Waits, NEW job \in Jobs
  PROVE  /\ Offer(job) => Queues(job) /\ UNCHANGED accepting
         /\ Refuses(job) => UNCHANGED <<queue, accepting>>
<1>1. ASSUME Offer(job), link # "up" PROVE Queues(job) /\ UNCHANGED accepting
  BY <1>1 DEF Offer, Waits, Queues, wire
<1>2. ASSUME accepting, Appends(job) PROVE \E n \in Nat : PlacedAt(job, n)
  <2>1. queue' = Append(queue, job) /\ queue \in Seq(Jobs)
    BY <1>2 DEF Appends, SyncTyped, WireTyped
  <2>2. PlacedAt(job, Len(queue) + 1)
    BY <2>1 DEF PlacedAt
  <2> QED
    BY <2>1, <2>2
<1>3. ASSUME job.kind = "change", Merges(job) PROVE \E n \in Nat : PlacedAt(job, n)
  <2>1. PICK i \in MergeAt(job.path) : queue' = [queue EXCEPT ![i] = job]
    BY <1>3 DEF Merges
  <2>2. /\ i \in DOMAIN queue /\ queue[i].kind = "change" /\ queue[i].path = job.path
        /\ \A j \in DOMAIN queue :
             j > i => ~Bars(queue[j], job.path) /\ ~(queue[j].kind = "change" /\ queue[j].path =
                job.path)
    BY DEF MergeAt
  <2>3. DOMAIN queue = 1..Len(queue) /\ Len(queue) \in Nat
    BY DEF SyncTyped, WireTyped
  <2>4. PlacedAt(job, i)
    BY <1>3, <2>1, <2>2, <2>3 DEF PlacedAt, Bars, IsDoc, DocKinds
  <2> QED
    BY <2>2, <2>3, <2>4
<1>4. ASSUME Offer(job), link = "up" PROVE Queues(job) /\ UNCHANGED accepting
  BY <1>2, <1>3, <1>4 DEF Offer, Admits, Waits, Queues, wire
<1> QED
  BY <1>1, <1>4 DEF Refuses, wire

(* A job put in its place is the last one of its document, and no other    *)
(* document sees it.                                                       *)
LEMMA Placed ==
  ASSUME SyncTyped, NEW job \in Jobs, NEW n \in Nat, PlacedAt(job, n), NEW p \in Paths
  PROVE  /\ IsDoc(job, p) => /\ n \in DOMAIN queue' /\ queue'[n] = job
                             /\ \A i \in DOMAIN queue' : n < i => ~IsDoc(queue'[i], p)
                             /\ \A i \in DOMAIN queue' : i < n \/ n < i \/ i = n
         /\ ~IsDoc(job, p) => Same(queue, queue', p)
<1>1. DOMAIN queue \subseteq Nat
  BY DEF SyncTyped, WireTyped
<1>2. ASSUME IsDoc(job, p) PROVE /\ n \in DOMAIN queue' /\ queue'[n] = job
                                 /\ \A i \in DOMAIN queue' : n < i => ~IsDoc(queue'[i], p)
                                 /\ \A i \in DOMAIN queue' : i < n \/ n < i \/ i = n
  <2>1. job.path = p
    BY <1>2 DEF IsDoc
  <2> QED
    BY <1>1, <2>1 DEF PlacedAt
<1>3. ASSUME ~IsDoc(job, p) PROVE Same(queue, queue', p)
  <2>1. n \in DOMAIN queue => ~IsDoc(queue[n], p)
    BY <1>3 DEF PlacedAt, IsDoc, DocKinds
  <2> QED
    BY <1>3, <2>1 DEF PlacedAt, Same
<1> QED
  BY <1>2, <1>3

(* A queue keeps its type.                                                 *)
LEMMA QueueTyped ==
  ASSUME SyncTyped, NEW job \in Jobs, Appends(job) \/ Merges(job)
  PROVE  queue' \in Seq(Jobs)
<1>1. queue \in Seq(Jobs)
  BY DEF SyncTyped, WireTyped
<1>2. CASE Appends(job)
  BY <1>1, <1>2 DEF Appends
<1>3. CASE Merges(job)
  <2>1. PICK i \in MergeAt(job.path) : queue' = [queue EXCEPT ![i] = job]
    BY <1>3 DEF Merges
  <2>2. i \in DOMAIN queue
    BY DEF MergeAt
  <2> QED
    BY <1>1, <2>1, <2>2
<1> QED
  BY <1>2, <1>3

(* ... whatever becomes of the job.                                        *)
LEMMA QueueKept ==
  ASSUME SyncTyped, NEW job \in Jobs, Offer(job) \/ Refuses(job)
  PROVE  queue' \in Seq(Jobs)
  BY QueueTyped DEF Offer, Admits, Refuses, SyncTyped, WireTyped, wire

-----------------------------------------------------------------------------
(* Every step is of one of these kinds.                                    *)
LEMMA StepKinds == SyncTyped /\ Phased /\ Waits /\ (\A p \in Paths : Recorded(p)) /\ (\A r \in
   Requests : Stamped(r)) /\ [Next]_vars => StepKind
<1> SUFFICES ASSUME SyncTyped /\ Phased /\ Waits /\ (\A p \in Paths : Recorded(p)) /\ (\A r \in
   Requests : Stamped(r)) /\ [Next]_vars PROVE StepKind
  OBVIOUS
<1>1. ASSUME NEW p \in Paths, Open(p) PROVE StepKind
  BY <1>1 DEF Open, RenameJob, calls, wire, frames, peer, requests, Quiet, Sent, Owns, StepKind,
     SyncTyped, PeerTyped
<1>2. ASSUME NEW p \in Paths, Edit(p) PROVE StepKind
  BY <1>2 DEF Edit, RenameJob, calls, wire, frames, peer, requests, Quiet, Sent, Owns, StepKind,
     SyncTyped, PeerTyped
<1>3. ASSUME NEW p \in Paths, DidOpen(p) PROVE StepKind
  <2>1. /\ editor[p].open /\ ~docs[p].open /\ phase # "flushing" /\ editor[p] \in Documents
        /\ UNCHANGED <<editor, phase, channel, server, link, published, op, stamp, answer>>
        /\ docs \in [Paths -> Records]
    BY <1>3 DEF DidOpen, Unlocked, frames, peer, requests, SyncTyped, ClientTyped
  <2>2. ASSUME NEW v \in Nat, docs' = [docs EXCEPT ![p] = Record(p, v)]
        PROVE  /\ docs'[p].open /\ docs'[p].doc = editor[p].doc /\ docs'[p].text =
                     editor[p].text
               /\ docs'[p].version = v /\ \A q \in Paths : q # p => docs'[q] = docs[q]
               /\ \A r \in Requests : op[r] # "new" =>
                    /\ About[r] = p => ~Owns(r)'
                    /\ About[r] # p => (Owns(r)' => Owns(r))
    <3>1. /\ docs'[p].open /\ docs'[p].doc = editor[p].doc /\ docs'[p].text = editor[p].text
          /\ docs'[p].version = v /\ \A q \in Paths : q # p => docs'[q] = docs[q]
      BY <2>1, <2>2 DEF Record
    <3>2. About \in [Requests -> Paths]
      BY SyncAssumption
    <3> QED
      BY <2>1, <3>1, <3>2 DEF Owns, Stamped
  <2>3. CASE ~Ready
    <3>1. docs' = [docs EXCEPT ![p] = Record(p, 0)] /\ UNCHANGED queue
      BY <1>3, <2>3 DEF DidOpen, wire
    <3> QED
      BY <2>1, <2>2, <3>1 DEF Quiet, Sent, StepKind
  <2>4. ASSUME NEW job, version' = version + 1, job = Job("open", p, editor[p], version'),
               Refuses(job), UNCHANGED <<docs, seen>>
        PROVE  StepKind
    BY <2>1, <2>4 DEF Refuses, wire, Quiet, Sent, Owns, StepKind
  <2>5. ASSUME NEW job, version' = version + 1, job = Job("open", p, editor[p], version'),
               Offer(job), docs' = [docs EXCEPT ![p] = Record(p, version')], p \in seen'
        PROVE  StepKind
    <3>1. version' \in Nat
      BY <2>5 DEF SyncTyped, ClientTyped
    <3>2. /\ job \in Jobs /\ job.kind = "open" /\ job.path = p /\ job.doc = editor[p].doc
          /\ job.text = editor[p].text /\ job.version = version'
      BY <2>1, <2>5, <3>1, JobsMade DEF DocKinds
    <3>3. Queues(job) /\ IsDoc(job, p) /\ HoldsText(job)
      BY <2>5, <3>2, Offered DEF IsDoc, DocKinds, HoldsText
    <3>4. /\ docs'[p].open /\ Says(job, docs'[p]) /\ p \in seen'
          /\ \A q \in Paths : q # p => docs'[q] = docs[q]
      BY <2>2, <2>5, <3>1, <3>2, <3>3 DEF Says
    <3>5. \A r \in Requests : About[r] = p /\ op[r] \in Waiting => ~Owns(r)'
      BY <2>2, <2>5, <3>1 DEF Waiting
    <3>6. Posts(p, job)
      BY <2>1, <2>5, <3>2, <3>3, <3>4, <3>5 DEF Posts
    <3> QED
      BY <3>2, <3>6 DEF StepKind
  <2> QED
    BY <1>3, <2>3, <2>4, <2>5 DEF DidOpen, NextVersion, SeenAfter
<1>4. ASSUME NEW p \in Paths, DidChange(p) PROVE StepKind
  <2>1. /\ editor[p].open /\ docs[p].open /\ docs[p].doc = editor[p].doc
        /\ docs[p].text # editor[p].text /\ phase # "flushing" /\ editor[p] \in Documents
        /\ UNCHANGED <<editor, phase, channel, server, link, published, op, stamp, answer,
              seen>>
        /\ docs \in [Paths -> Records]
    BY <1>4 DEF DidChange, Unlocked, frames, peer, requests, SyncTyped, ClientTyped
  <2>2. ASSUME docs'[p].open, docs'[p].text = editor[p].text, docs'[p].doc = docs[p].doc,
               \A q \in Paths : q # p => docs'[q] = docs[q]
        PROVE  \A r \in Requests : op[r] # "new" =>
                    /\ About[r] = p => ~Owns(r)'
                    /\ About[r] # p => (Owns(r)' => Owns(r))
    <3>1. About \in [Requests -> Paths]
      BY SyncAssumption
    <3>2. docs[p].text <= editor[p].text /\ docs[p].text \in Nat /\ editor[p].text \in Nat
      BY <2>1 DEF Recorded, Records, Documents
    <3>3. ASSUME NEW r \in Requests, op[r] # "new", About[r] = p, docs'[p].doc = stamp[r].doc
          PROVE  stamp[r].text # editor[p].text \/ docs'[p].doc # docs[p].doc
      <4>1. stamp[r].text \in Nat
        BY DEF SyncTyped, PeerTyped
      <4> QED
        BY <2>1, <3>2, <3>3, <4>1 DEF Stamped
    <3> QED
      BY <2>1, <2>2, <3>1, <3>3 DEF Owns
  <2>3. CASE ~Ready
    <3>1. /\ docs'[p].open /\ docs'[p].text = editor[p].text /\ docs'[p].version =
                docs[p].version
          /\ docs'[p].doc = docs[p].doc /\ \A q \in Paths : q # p => docs'[q] = docs[q]
      <4>1. docs' = [docs EXCEPT ![p].text = editor[p].text]
        BY <1>4, <2>3 DEF DidChange
      <4> QED
        BY <2>1, <4>1 DEF Records
    <3>2. phase \in {"waiting", "failed"}
      BY <2>1, <2>3 DEF Ready, SyncTyped, ClientTyped
    <3>3. ~Sent(p)'
      BY <2>1, <3>1, <3>2 DEF Sent, Phased
    <3>4. \A q \in Paths : Sent(q)' => Sent(q) /\ docs'[q] = docs[q]
      BY <2>1, <3>1, <3>3 DEF Sent
    <3>5. UNCHANGED queue
      BY <1>4, <2>3 DEF DidChange, wire
    <3> QED
      BY <2>1, <2>2, <3>1, <3>4, <3>5 DEF Quiet, StepKind
  <2>4. ASSUME NEW job, Refuses(job), UNCHANGED docs
        PROVE  StepKind
    BY <2>1, <2>4 DEF Refuses, wire, Quiet, Sent, Owns, StepKind
  <2>5. ASSUME NEW job, Ready, version' = version + 1, job = Job("change", p, editor[p],
     version'),
               Offer(job),
               docs' = [docs EXCEPT ![p].text = editor[p].text, ![p].version = version']
        PROVE  StepKind
    <3>1. version' \in Nat
      BY <2>5 DEF SyncTyped, ClientTyped
    <3>2. /\ job \in Jobs /\ job.kind = "change" /\ job.path = p /\ job.doc = editor[p].doc
          /\ job.text = editor[p].text /\ job.version = version'
      BY <2>1, <2>5, <3>1, JobsMade DEF DocKinds
    <3>3. /\ docs'[p].open /\ docs'[p].text = editor[p].text /\ docs'[p].doc = docs[p].doc
          /\ docs'[p].version = version' /\ \A q \in Paths : q # p => docs'[q] = docs[q]
      BY <2>1, <2>5, <3>1 DEF Records
    <3>4. p \in seen'
      <4>1. p \notin flush
        BY <2>5 DEF Phased, Ready
      <4> QED
        BY <2>1, <2>5, <4>1 DEF Phased, Recorded, Ready
    <3>5. Queues(job) /\ IsDoc(job, p) /\ HoldsText(job)
      BY <2>5, <3>2, Offered DEF IsDoc, DocKinds, HoldsText
    <3>6. Says(job, docs'[p])
      BY <2>1, <3>2, <3>3, <3>5 DEF Says
    <3>7. \A r \in Requests : About[r] = p /\ op[r] \in Waiting => ~Owns(r)'
      BY <2>2, <3>3 DEF Waiting
    <3>8. Posts(p, job)
      BY <2>1, <2>5, <3>2, <3>3, <3>4, <3>5, <3>6, <3>7 DEF Posts
    <3> QED
      BY <3>2, <3>8 DEF StepKind
  <2> QED
    BY <1>4, <2>3, <2>4, <2>5 DEF DidChange, NextVersion, RecordAfterRefusal
<1>5. ASSUME NEW p \in Paths, DidClose(p) PROVE StepKind
  <2>1. /\ phase' = phase
        /\ UNCHANGED <<phase, channel, server, link, published, stamp, answer>>
        /\ docs \in [Paths -> Records] /\ op \in [Requests -> Places]
    BY <1>5 DEF DidClose, frames, peer, SyncTyped, ClientTyped, PeerTyped
  <2>2. CASE UNCHANGED <<docs, op, queue>>
    BY <2>1, <2>2 DEF Quiet, Sent, Owns, StepKind
  <2>3. ASSUME docs[p].open, docs' = [docs EXCEPT ![p] = Closed],
               \A r \in Requests : op'[r] = op[r] \/ (op[r] = "early" /\ op'[r] = "noted")
        PROVE  /\ ~docs'[p].open /\ \A q \in Paths : q # p => docs'[q] = docs[q]
               /\ \A r \in Requests : op'[r] = op[r] \/ (op[r] = "early" /\ op'[r] = "noted")
               /\ \A r \in Requests :
                    /\ About[r] = p => ~Owns(r)'
                    /\ About[r] # p => (Owns(r)' => Owns(r))
    <3>1. ~docs'[p].open /\ \A q \in Paths : q # p => docs'[q] = docs[q]
      BY <2>1, <2>3 DEF Closed
    <3>2. About \in [Requests -> Paths]
      BY SyncAssumption
    <3> QED
      BY <2>1, <2>3, <3>1, <3>2 DEF Owns
  <2>4. ASSUME docs[p].open, docs' = [docs EXCEPT ![p] = Closed], UNCHANGED queue,
               \A r \in Requests : op'[r] = op[r] \/ (op[r] = "early" /\ op'[r] = "noted")
        PROVE  StepKind
    BY <2>1, <2>3, <2>4 DEF Quiet, Sent, StepKind
  <2>5. ASSUME NEW job, job = Job("close", p, docs[p], 0), Offer(job),
               docs[p].open, docs' = [docs EXCEPT ![p] = Closed],
               \A r \in Requests : op'[r] = op[r] \/ (op[r] = "early" /\ op'[r] = "noted")
        PROVE  StepKind
    <3>1. job \in Jobs /\ job.kind = "close" /\ job.path = p
      BY <2>1, <2>5, JobsMade DEF DocKinds
    <3>2. Posts(p, job)
      BY <2>1, <2>3, <2>5, <3>1, Offered DEF Posts, IsDoc, DocKinds, HoldsText, Waiting
    <3> QED
      BY <3>1, <3>2 DEF StepKind
  <2>6. ASSUME NEW rs \in SUBSET {r \in Requests : op[r] = "early"}, Cancelled(rs)
        PROVE  \A r \in Requests : op'[r] = op[r] \/ (op[r] = "early" /\ op'[r] = "noted")
    BY <2>6 DEF Cancelled
  <2>7. \/ UNCHANGED <<docs, op, queue>>
        \/ /\ docs[p].open /\ docs' = [docs EXCEPT ![p] = Closed]
           /\ \E rs \in SUBSET {r \in Requests : op[r] = "early"} : Cancelled(rs)
           /\ UNCHANGED queue \/ Offer(Job("close", p, docs[p], 0))
    <3>1. CASE docs[p].open /\ docs[p].doc = editor[p].doc
      <4> DEFINE rs == {r \in Requests : op[r] = "early" /\ About[r] = p /\ stamp[r].doc =
         docs[p].doc}
      <4>1. rs \in SUBSET {r \in Requests : op[r] = "early"}
        OBVIOUS
      <4>2. Cancelled(rs) /\ docs' = [docs EXCEPT ![p] = Closed]
        BY <1>5, <3>1 DEF DidClose
      <4>3. UNCHANGED queue \/ Offer(Job("close", p, docs[p], 0))
        BY <1>5, <3>1 DEF DidClose, Refuses, wire
      <4> HIDE DEF rs
      <4> QED
        BY <3>1, <4>1, <4>2, <4>3
    <3>2. CASE ~(docs[p].open /\ docs[p].doc = editor[p].doc)
      BY <1>5, <3>2 DEF DidClose, wire
    <3> QED
      BY <3>1, <3>2
  <2>8. \E job : job = Job("close", p, docs[p], 0)
    OBVIOUS
  <2> QED
    BY <2>2, <2>4, <2>5, <2>6, <2>7, <2>8
<1>6. ASSUME NEW r \in Requests, Launch(r) PROVE StepKind
  <2>1. /\ UNCHANGED <<phase, docs, channel, server, link, published, answer>>
        /\ op \in [Requests -> Places] /\ stamp \in [Requests -> [doc : Nat, text : Nat]]
        /\ About[r] \in Paths /\ op[r] = "new" /\ docs[About[r]].open
        /\ \A q \in Requests : q # r => stamp'[q] = stamp[q]
        /\ stamp'[r].text = docs[About[r]].text
    BY <1>6, SyncAssumption DEF Launch, frames, peer, SyncTyped, PeerTyped
  <2>2. ASSUME UNCHANGED queue, NEW place \in {"early", "noted", "lost"},
               op' = [op EXCEPT ![r] = place]
        PROVE  StepKind
    <3>1. \A q \in Requests : op[q] # "new" => stamp'[q] = stamp[q] /\ (Owns(q)' => Owns(q))
      BY <2>1 DEF Owns
    <3>2. \A q \in Requests : op'[q] = op[q] \/ (op[q] = "new" /\ op'[q] = place)
      BY <2>1, <2>2
    <3>3. \A p \in Paths : Sent(p)' => Sent(p)
      BY <2>1 DEF Sent
    <3> QED
      BY <2>1, <2>2, <3>1, <3>2, <3>3 DEF Quiet, StepKind
  <2>3. ASSUME Ready, Offer(RequestJob(r)), op' = [op EXCEPT ![r] = "queued"], link = "up"
        PROVE  StepKind
    <3>1. Queues(RequestJob(r))
      BY <2>3, JobsMade, Offered
    <3>2. Sent(About[r])
      BY <2>1, <2>3 DEF Sent, Phased, Ready
    <3>3. Enqueues(r)
      BY <2>1, <2>3, <3>1, <3>2 DEF Enqueues
    <3> QED
      BY <3>3 DEF StepKind
  <2>4. accepting <=> link = "up"
    BY DEF Waits
  <2>5. ~accepting /\ Offer(RequestJob(r)) => UNCHANGED queue
    BY DEF Offer, wire
  <2>6. Refuses(RequestJob(r)) => UNCHANGED queue
    BY DEF Refuses, wire
  <2>7. CASE Ready
    BY <1>6, <2>2, <2>3, <2>4, <2>5, <2>6, <2>7 DEF Launch
  <2>8. CASE ~Ready
    BY <1>6, <2>2, <2>8 DEF Launch, wire
  <2> QED
    BY <2>7, <2>8
<1>7. ASSUME NEW r \in Requests, CheckOwner(r) PROVE StepKind
  BY <1>7 DEF CheckOwner, RenameJob, calls, wire, frames, peer, Quiet, Sent, Owns, StepKind,
     SyncTyped, PeerTyped
<1>8. ASSUME NEW r \in Requests, SendRequest(r) PROVE StepKind
  BY <1>8 DEF StepKind
<1>9. CASE DidRename
  <2>1. UNCHANGED queue \/ Queues(RenameJob)
    BY <1>9, JobsMade, Offered DEF DidRename
  <2> QED
    BY <1>9, <2>1 DEF DidRename, Quiet, Sent, Owns, StepKind, calls, frames, peer, requests
<1>10. CASE BeginFlush
  BY <1>10 DEF BeginFlush, RenameJob, wire, frames, peer, requests, Quiet, Sent, Owns, StepKind,
     SyncTyped, PeerTyped
<1>11. CASE FlushOpen
  <2>1. PICK p \in flush :
          \/ \E job : /\ version' = version + 1 /\ job = Job("open", p, docs[p], version')
                      /\ Offer(job) /\ UNCHANGED phase /\ p \in seen'
                      /\ docs' = [docs EXCEPT ![p].pending = FALSE, ![p].version = version']
          \/ phase' = "failed" /\ UNCHANGED <<docs, queue>>
    BY <1>11 DEF FlushOpen, FlushFails, Refuses, wire, NextVersion, SeenAfter
  <2>2. /\ UNCHANGED <<channel, server, link, published, op, stamp, answer>> /\ p \in Paths
        /\ docs \in [Paths -> Records] /\ docs[p].open
    BY <1>11, <2>1 DEF FlushOpen, frames, peer, requests, SyncTyped, ClientTyped, Phased
  <2>3. CASE phase' = "failed" /\ UNCHANGED <<docs, queue>>
    BY <2>2, <2>3 DEF Quiet, Sent, Owns, StepKind
  <2>4. ASSUME NEW job, version' = version + 1, job = Job("open", p, docs[p], version'),
               Offer(job), p \in seen', UNCHANGED phase,
               docs' = [docs EXCEPT ![p].pending = FALSE, ![p].version = version']
        PROVE  StepKind
    <3>1. version' \in Nat
      BY <2>4 DEF SyncTyped, ClientTyped
    <3>2. /\ job \in Jobs /\ job.kind = "open" /\ job.path = p /\ job.doc = docs[p].doc
          /\ job.text = docs[p].text /\ job.version = version'
      BY <2>2, <2>4, <3>1, JobsMade DEF DocKinds
    <3>3. /\ docs'[p].open /\ docs'[p].text = docs[p].text /\ docs'[p].doc = docs[p].doc
          /\ docs'[p].version = version' /\ \A q \in Paths : q # p => docs'[q] = docs[q]
      BY <2>2, <2>4, <3>1 DEF Records
    <3>4. \A r \in Requests : op[r] \notin Waiting
      BY <2>1 DEF Phased, Waiting
    <3>5. Queues(job) /\ IsDoc(job, p) /\ HoldsText(job)
      BY <2>4, <3>2, Offered DEF IsDoc, DocKinds, HoldsText
    <3>6. Says(job, docs'[p])
      BY <3>2, <3>3, <3>5 DEF Says
    <3>7. Posts(p, job)
      BY <2>2, <2>4, <3>2, <3>3, <3>4, <3>5, <3>6 DEF Posts
    <3> QED
      BY <2>2, <3>2, <3>7 DEF StepKind
  <2> QED
    BY <2>1, <2>3, <2>4
<1>12. CASE FlushRequest
  <2>1. PICK r \in Requests :
          /\ op[r] = "early"
          /\ \/ /\ Owns(r) /\ Offer(RequestJob(r))
                /\ op' = [op EXCEPT ![r] = IF accepting THEN "queued" ELSE "lost"]
             \/ op' = [op EXCEPT ![r] = "noted"] /\ UNCHANGED queue
    BY <1>12 DEF FlushRequest, NextEarly, Refuses, wire
  <2>2. /\ UNCHANGED <<phase, docs, channel, server, link, published, stamp, answer>>
        /\ op \in [Requests -> Places] /\ phase = "flushing" /\ flush = {} /\ About[r] \in Paths
    BY <1>12, SyncAssumption DEF FlushRequest, frames, peer, SyncTyped, PeerTyped
  <2>3. ASSUME UNCHANGED queue, NEW place \in {"early", "noted", "lost"},
               op' = [op EXCEPT ![r] = place]
        PROVE  StepKind
    <3>1. \A q \in Requests : op'[q] = op[q] \/ (op[q] = "early" /\ op'[q] = place)
      BY <2>1, <2>2, <2>3
    <3>2. \A p \in Paths : Sent(p)' => Sent(p)
      BY <2>2 DEF Sent
    <3>3. \A q \in Requests : Owns(q)' => Owns(q)
      BY <2>2 DEF Owns
    <3> QED
      BY <2>2, <2>3, <3>1, <3>2, <3>3 DEF Quiet, StepKind
  <2>4. ASSUME Owns(r), Offer(RequestJob(r)), op' = [op EXCEPT ![r] = "queued"], link = "up"
        PROVE  StepKind
    <3>1. Queues(RequestJob(r))
      BY <2>4, JobsMade, Offered
    <3>2. Sent(About[r]) /\ stamp[r].text = docs[About[r]].text
      BY <2>2, <2>4 DEF Sent, Phased, Owns
    <3>3. Enqueues(r)
      BY <2>1, <2>2, <2>4, <3>1, <3>2 DEF Enqueues
    <3> QED
      BY <3>3 DEF StepKind
  <2>5. accepting <=> link = "up"
    BY DEF Waits
  <2>6. ~accepting /\ Offer(RequestJob(r)) => UNCHANGED queue
    BY DEF Offer, wire
  <2> QED
    BY <2>1, <2>3, <2>4, <2>5, <2>6
<1>13. CASE EndFlush
  BY <1>13 DEF EndFlush, RenameJob, wire, frames, peer, requests, Quiet, Sent, Owns, StepKind,
     SyncTyped, PeerTyped
<1>14. CASE NextJob
  BY <1>14 DEF StepKind
<1>15. CASE Retire
  BY <1>15 DEF Retire, RenameJob, calls, frames, peer, requests, Quiet, Sent, Owns, StepKind,
     SyncTyped, PeerTyped
<1>16. CASE Write
  BY <1>16 DEF StepKind
<1>17. CASE Disconnect
  BY <1>17 DEF StepKind
<1>18. CASE UNCHANGED vars
  BY <1>18 DEF vars, Quiet, Sent, Owns, StepKind, SyncTyped, PeerTyped, calls, wire, frames,
     peer, requests
<1>19. QED
  BY <1>1, <1>2, <1>3, <1>4, <1>5, <1>6, <1>7, <1>8, <1>9, <1>10, <1>11, <1>12, <1>13, <1>14,
     <1>15, <1>16, <1>17, <1>18 DEF Next

-----------------------------------------------------------------------------
(* A sequence of jobs, its first item and the rest.                        *)
LEMMA Taken ==
  ASSUME NEW s \in Seq(Jobs), s # <<>>
  PROVE  /\ 1 \in DOMAIN s /\ Head(s) = s[1] /\ s[1] \in Jobs
         /\ Tail(s) \in Seq(Jobs)
         /\ \A i \in DOMAIN Tail(s) : i \in Nat /\ i # 0 /\ i + 1 \in DOMAIN s /\ Tail(s)[i] =
               s[i + 1]
         /\ \A i \in DOMAIN s : i \in Nat /\ (i = 1 \/ i - 1 \in DOMAIN Tail(s))
  OBVIOUS

(* An item at the end of a sequence of jobs.                               *)
LEMMA Added ==
  ASSUME NEW s \in Seq(Jobs), NEW job \in Jobs
  PROVE  /\ Append(s, job) \in Seq(Jobs)
         /\ Len(s) + 1 \in DOMAIN Append(s, job) /\ Append(s, job)[Len(s) + 1] = job
         /\ \A i \in DOMAIN s : i < Len(s) + 1 /\ i \in DOMAIN Append(s, job) /\ Append(s,
               job)[i] = s[i]
         /\ \A i \in DOMAIN Append(s, job) : i = Len(s) + 1 \/ i \in DOMAIN s
  OBVIOUS

(* The first item of the channel is of the type of a job.                  *)
LEMMA FirstFrame ==
  ASSUME SyncTyped, channel # <<>>
  PROVE  /\ Head(channel) = channel[1] /\ 1 \in DOMAIN channel /\ Head(channel) \in Jobs
         /\ Tail(channel) \in Seq(Jobs)
  BY Taken DEF SyncTyped, WireTyped

(* What the server makes of a frame.                                       *)
LEMMA Received ==
  ASSUME SyncTyped, NEW job \in Jobs, Receive(job)
  PROVE  /\ server' \in [Paths -> Copies] /\ published' \subseteq Reports
         /\ \/ /\ HoldsText(job) /\ job.path \in Paths
               /\ server' = [server EXCEPT ![job.path] = Copy(job)]
               /\ published' = published \union {Report(job.path, job)}
               /\ UNCHANGED <<op, answer>>
            \/ /\ job.kind = "close" /\ job.path \in Paths /\ UNCHANGED <<published, op,
                     answer>>
               /\ server' = [server EXCEPT ![job.path].open = FALSE]
            \/ job.kind = "rename" /\ UNCHANGED <<server, published, op, answer>>
            \/ /\ job.kind = "request" /\ job.request \in Requests
               /\ op' = [op EXCEPT ![job.request] = "asked"]
               /\ answer' = [answer EXCEPT ![job.request] = server[About[job.request]].text]
               /\ UNCHANGED <<server, published>>
<1>1. server \in [Paths -> Copies] /\ published \subseteq Reports
  BY DEF SyncTyped, PeerTyped
<1>2. CASE HoldsText(job)
  <2>1. /\ job.path \in Paths /\ job.doc \in Nat /\ job.text \in Nat /\ job.version \in Nat
        /\ job.kind \in {"open", "change"}
    BY <1>2, JobKinds DEF HoldsText
  <2>2. Copy(job) \in Copies /\ Report(job.path, job) \in Reports
    BY <2>1 DEF Copy, Copies, Report, Reports
  <2>3. /\ server' = [server EXCEPT ![job.path] = Copy(job)]
        /\ published' = published \union {Report(job.path, job)}
        /\ UNCHANGED <<op, answer>>
    BY <2>1 DEF Receive
  <2> QED
    BY <1>1, <1>2, <2>1, <2>2, <2>3
<1>3. CASE job.kind = "close"
  <2>1. job.path \in Paths
    BY <1>3, JobKinds DEF HoldsText
  <2>2. server' = [server EXCEPT ![job.path].open = FALSE] /\ UNCHANGED <<published, op,
     answer>>
    BY <1>3 DEF Receive, HoldsText
  <2>3. server' \in [Paths -> Copies]
    BY <1>1, <2>1, <2>2 DEF Copies
  <2> QED
    BY <1>1, <1>3, <2>1, <2>2, <2>3
<1>4. CASE job.kind = "rename"
  BY <1>1, <1>4 DEF Receive, HoldsText, peer
<1>5. CASE job.kind = "request"
  <2>1. job.request \in Requests
    BY <1>5, JobKinds DEF DocKinds
  <2> QED
    BY <1>1, <1>5, <2>1 DEF Receive, HoldsText, peer
<1> QED
  BY <1>2, <1>3, <1>4, <1>5, JobKinds DEF HoldsText, DocKinds

(* Every action keeps the types of the editor and the client.              *)
LEMMA ClientStep == SyncTyped /\ [Next]_vars => ClientTyped'
<1> SUFFICES ASSUME SyncTyped /\ [Next]_vars PROVE ClientTyped'
  OBVIOUS
<1>1. ASSUME NEW p \in Paths, Open(p) PROVE ClientTyped'
  BY <1>1 DEF Open, calls, wire, frames, peer, requests, SyncTyped, ClientTyped, Documents,
     Records
<1>2. ASSUME NEW p \in Paths, Edit(p) PROVE ClientTyped'
  BY <1>2 DEF Edit, calls, wire, frames, peer, requests, SyncTyped, ClientTyped, Documents,
     Records
<1>3. ASSUME NEW p \in Paths, DidOpen(p) PROVE ClientTyped'
  <2>1. \/ docs' = docs
        \/ \E v \in Nat : docs' = [docs EXCEPT ![p] = Record(p, v)]
    BY <1>3 DEF DidOpen, NextVersion, SyncTyped, ClientTyped
  <2>2. \A v \in Nat : Record(p, v) \in Records
    BY DEF Record, Records, Documents, SyncTyped, ClientTyped
  <2>3. docs' \in [Paths -> Records]
    BY <2>1, <2>2 DEF SyncTyped, ClientTyped
  <2> QED
    BY <1>3, <2>3 DEF DidOpen, NextVersion, SeenAfter, SyncTyped, ClientTyped
<1>4. ASSUME NEW p \in Paths, DidChange(p) PROVE ClientTyped'
  BY <1>4 DEF DidChange, Unlocked, Ready, NextVersion, RecordAfterRefusal, wire, frames, peer,
     requests, SyncTyped, ClientTyped, Documents, Records
<1>5. ASSUME NEW p \in Paths, DidClose(p) PROVE ClientTyped'
  <2>1. Closed \in Records
    BY DEF Closed, Records
  <2>2. docs' = docs \/ docs' = [docs EXCEPT ![p] = Closed]
    BY <1>5 DEF DidClose
  <2>3. docs' \in [Paths -> Records]
    BY <2>1, <2>2 DEF SyncTyped, ClientTyped
  <2>4. editor' \in [Paths -> Documents]
    BY <1>5 DEF DidClose, SyncTyped, ClientTyped, Documents
  <2> QED
    BY <1>5, <2>3, <2>4 DEF DidClose, SyncTyped, ClientTyped
<1>6. ASSUME NEW r \in Requests, Launch(r) PROVE ClientTyped'
  BY <1>6 DEF Launch, Unlocked, Ready, wire, frames, peer, SyncTyped, ClientTyped, Documents,
     Records
<1>7. ASSUME NEW r \in Requests, CheckOwner(r) PROVE ClientTyped'
  BY <1>7 DEF CheckOwner, calls, wire, frames, peer, SyncTyped, ClientTyped, Documents, Records
<1>8. ASSUME NEW r \in Requests, SendRequest(r) PROVE ClientTyped'
  BY <1>8 DEF SendRequest, calls, wire, peer, SyncTyped, ClientTyped, Documents, Records
<1>9. CASE DidRename
  BY <1>9 DEF DidRename, Unlocked, calls, frames, peer, requests, SyncTyped, ClientTyped,
     Documents, Records
<1>10. CASE BeginFlush
  BY <1>10 DEF BeginFlush, wire, frames, peer, requests, SyncTyped, ClientTyped, Documents,
     Records
<1>11. CASE FlushOpen
  <2>1. PICK p \in flush :
          /\ \/ docs' = docs
             \/ docs' = [docs EXCEPT ![p].pending = FALSE, ![p].version = version + 1]
          /\ seen' \in {seen, seen \union {p}} /\ flush' \subseteq flush
          /\ version' \in {version, version + 1} /\ phase' \in {phase, "failed"}
    BY <1>11 DEF FlushOpen, NextVersion, SeenAfter, FlushFails
  <2>2. p \in Paths /\ version + 1 \in Nat
    BY DEF SyncTyped, ClientTyped
  <2>3. docs' \in [Paths -> Records]
    <3>1. docs \in [Paths -> Records]
      BY DEF SyncTyped, ClientTyped
    <3>2. CASE docs' = [docs EXCEPT ![p].pending = FALSE, ![p].version = version + 1]
      <4>1. [docs[p] EXCEPT !.pending = FALSE, !.version = version + 1] \in Records
        BY <2>2, <3>1 DEF Records
      <4>2. docs' = [docs EXCEPT ![p] = [docs[p] EXCEPT !.pending = FALSE, !.version = version +
         1]]
        BY <2>2, <3>1, <3>2
      <4> QED
        BY <2>2, <3>1, <4>1, <4>2
    <3> QED
      BY <2>1, <3>1, <3>2
  <2> QED
    BY <1>11, <2>1, <2>2, <2>3 DEF FlushOpen, SyncTyped, ClientTyped
<1>12. CASE FlushRequest
  BY <1>12 DEF FlushRequest, wire, frames, peer, SyncTyped, ClientTyped, Documents, Records
<1>13. CASE EndFlush
  BY <1>13 DEF EndFlush, wire, frames, peer, requests, SyncTyped, ClientTyped, Documents,
     Records
<1>14. CASE NextJob
  BY <1>14 DEF NextJob, calls, peer, SyncTyped, ClientTyped, Documents, Records
<1>15. CASE Retire
  BY <1>15 DEF Retire, calls, frames, peer, requests, SyncTyped, ClientTyped, Documents, Records
<1>16. CASE Write
  BY <1>16 DEF Write, calls, wire, SyncTyped, ClientTyped, Documents, Records
<1>17. CASE Disconnect
  BY <1>17 DEF Disconnect, calls, peer, SyncTyped, ClientTyped, Documents, Records
<1>18. CASE UNCHANGED vars
  BY <1>18 DEF vars, SyncTyped, ClientTyped, Documents, Records, calls, wire, frames, peer,
     requests
<1>19. QED
  BY <1>1, <1>2, <1>3, <1>4, <1>5, <1>6, <1>7, <1>8, <1>9, <1>10, <1>11, <1>12, <1>13, <1>14,
     <1>15, <1>16, <1>17, <1>18 DEF Next

(* Every action keeps the types of the wire.                               *)
LEMMA WireStep == SyncTyped /\ [Next]_vars => WireTyped'
<1> SUFFICES ASSUME SyncTyped /\ [Next]_vars PROVE WireTyped'
  OBVIOUS
<1>1. ASSUME NEW p \in Paths, Open(p) PROVE WireTyped'
  BY <1>1 DEF Open, calls, wire, frames, peer, requests, SyncTyped, WireTyped
<1>2. ASSUME NEW p \in Paths, Edit(p) PROVE WireTyped'
  BY <1>2 DEF Edit, calls, wire, frames, peer, requests, SyncTyped, WireTyped
<1>3. ASSUME NEW p \in Paths, DidOpen(p) PROVE WireTyped'
  <2>1. editor[p] \in Documents \union Records /\ version + 1 \in Nat
    BY DEF SyncTyped, ClientTyped
  <2>2. UNCHANGED queue \/ \E job \in Jobs : Offer(job) \/ Refuses(job)
    BY <1>3, <2>1, JobsMade DEF DidOpen, NextVersion, DocKinds, wire
  <2> QED
    BY <1>3, <2>2, QueueKept DEF DidOpen, SyncTyped, WireTyped, frames
<1>4. ASSUME NEW p \in Paths, DidChange(p) PROVE WireTyped'
  <2>1. editor[p] \in Documents \union Records /\ version + 1 \in Nat
    BY DEF SyncTyped, ClientTyped
  <2>2. UNCHANGED queue \/ \E job \in Jobs : Offer(job) \/ Refuses(job)
    BY <1>4, <2>1, JobsMade DEF DidChange, NextVersion, DocKinds, wire
  <2> QED
    BY <1>4, <2>2, QueueKept DEF DidChange, SyncTyped, WireTyped, frames
<1>5. ASSUME NEW p \in Paths, DidClose(p) PROVE WireTyped'
  <2>1. docs[p] \in Documents \union Records
    BY DEF SyncTyped, ClientTyped
  <2>2. UNCHANGED queue \/ \E job \in Jobs : Offer(job) \/ Refuses(job)
    BY <1>5, <2>1, JobsMade DEF DidClose, DocKinds, wire
  <2> QED
    BY <1>5, <2>2, QueueKept DEF DidClose, SyncTyped, WireTyped, frames
<1>6. ASSUME NEW r \in Requests, Launch(r) PROVE WireTyped'
  <2>1. UNCHANGED queue \/ \E job \in Jobs : Offer(job) \/ Refuses(job)
    BY <1>6, JobsMade DEF Launch, wire
  <2> QED
    BY <1>6, <2>1, QueueKept DEF Launch, SyncTyped, WireTyped, frames
<1>7. ASSUME NEW r \in Requests, CheckOwner(r) PROVE WireTyped'
  BY <1>7 DEF CheckOwner, calls, wire, frames, peer, SyncTyped, WireTyped
<1>8. ASSUME NEW r \in Requests, SendRequest(r) PROVE WireTyped'
  <2>1. channel' = channel \/ channel' = Append(channel, RequestJob(r))
    BY <1>8 DEF SendRequest
  <2>2. channel \in Seq(Jobs) /\ RequestJob(r) \in Jobs
    BY JobsMade DEF SyncTyped, WireTyped
  <2>3. channel' \in Seq(Jobs)
    BY <2>1, <2>2, Added
  <2> QED
    BY <1>8, <2>3 DEF SendRequest, SyncTyped, WireTyped, wire
<1>9. CASE DidRename
  <2>1. UNCHANGED queue \/ \E job \in Jobs : Offer(job) \/ Refuses(job)
    BY <1>9, JobsMade DEF DidRename
  <2> QED
    BY <1>9, <2>1, QueueKept DEF DidRename, SyncTyped, WireTyped, frames
<1>10. CASE BeginFlush
  BY <1>10 DEF BeginFlush, wire, frames, peer, requests, SyncTyped, WireTyped
<1>11. CASE FlushOpen
  <2>1. \A p \in flush : docs[p] \in Documents \union Records /\ p \in Paths
    BY DEF SyncTyped, ClientTyped
  <2>2. version + 1 \in Nat
    BY DEF SyncTyped, ClientTyped
  <2>3. UNCHANGED queue \/ \E job \in Jobs : Offer(job) \/ Refuses(job)
    BY <1>11, <2>1, <2>2, JobsMade DEF FlushOpen, NextVersion, DocKinds, wire
  <2> QED
    BY <1>11, <2>3, QueueKept DEF FlushOpen, SyncTyped, WireTyped, frames
<1>12. CASE FlushRequest
  <2>1. UNCHANGED queue \/ \E job \in Jobs : Offer(job) \/ Refuses(job)
    BY <1>12, JobsMade DEF FlushRequest, wire
  <2> QED
    BY <1>12, <2>1, QueueKept DEF FlushRequest, SyncTyped, WireTyped, frames
<1>13. CASE EndFlush
  BY <1>13 DEF EndFlush, wire, frames, peer, requests, SyncTyped, WireTyped
<1>14. CASE NextJob
  <2> DEFINE job == Head(queue)
  <2>1. job \in Jobs /\ queue' \in Seq(Jobs) /\ Append(channel, job) \in Seq(Jobs)
    BY <1>14, Taken, Added DEF NextJob, SyncTyped, WireTyped
  <2>2. \/ UNCHANGED <<worker, ticket, channel>>
        \/ /\ job.kind # "request" /\ worker' = "waiting" /\ ticket' = Method(job.kind)
           /\ channel' = Append(channel, job)
    BY <1>14 DEF NextJob
  <2> HIDE DEF job
  <2>3. job.kind # "request" => Method(job.kind) \in DocKinds
    BY <2>1, JobKinds DEF Method, DocKinds
  <2> QED
    BY <2>1, <2>2, <2>3 DEF SyncTyped, WireTyped
<1>15. CASE Retire
  BY <1>15 DEF Retire, calls, frames, peer, requests, SyncTyped, WireTyped
<1>16. CASE Write
  <2>1. channel' \in Seq(Jobs)
    BY <1>16, Taken DEF Write, SyncTyped, WireTyped
  <2> QED
    BY <1>16, <2>1 DEF Write, SyncTyped, WireTyped, wire
<1>17. CASE Disconnect
  BY <1>17 DEF Disconnect, calls, peer, SyncTyped, WireTyped
<1>18. CASE UNCHANGED vars
  BY <1>18 DEF vars, SyncTyped, WireTyped, calls, wire, frames, peer, requests
<1>19. QED
  BY <1>1, <1>2, <1>3, <1>4, <1>5, <1>6, <1>7, <1>8, <1>9, <1>10, <1>11, <1>12, <1>13, <1>14,
     <1>15, <1>16, <1>17, <1>18 DEF Next

(* Every action keeps the types of the server and the requests.            *)
LEMMA PeerStep == SyncTyped /\ [Next]_vars => PeerTyped'
<1> SUFFICES ASSUME SyncTyped /\ [Next]_vars PROVE PeerTyped'
  OBVIOUS
<1>1. ASSUME NEW p \in Paths, Open(p) PROVE PeerTyped'
  BY <1>1 DEF Open, calls, wire, frames, peer, requests, SyncTyped, PeerTyped, Places
<1>2. ASSUME NEW p \in Paths, Edit(p) PROVE PeerTyped'
  BY <1>2 DEF Edit, calls, wire, frames, peer, requests, SyncTyped, PeerTyped, Places
<1>3. ASSUME NEW p \in Paths, DidOpen(p) PROVE PeerTyped'
  BY <1>3 DEF DidOpen, wire, frames, peer, requests, SyncTyped, PeerTyped, Places
<1>4. ASSUME NEW p \in Paths, DidChange(p) PROVE PeerTyped'
  BY <1>4 DEF DidChange, wire, frames, peer, requests, SyncTyped, PeerTyped, Places
<1>5. ASSUME NEW p \in Paths, DidClose(p) PROVE PeerTyped'
  <2>1. UNCHANGED op \/ \E rs \in SUBSET Requests : Cancelled(rs)
    <3>1. \A d : {r \in Requests : op[r] = "early" /\ About[r] = p /\ stamp[r].doc = d} \in
       SUBSET Requests
      OBVIOUS
    <3> QED
      BY <1>5, <3>1 DEF DidClose
  <2>2. op' \in [Requests -> Places]
    BY <2>1 DEF Cancelled, SyncTyped, PeerTyped, Places
  <2> QED
    BY <1>5, <2>2 DEF DidClose, SyncTyped, PeerTyped, peer
<1>6. ASSUME NEW r \in Requests, Launch(r) PROVE PeerTyped'
  <2>1. editor[About[r]].doc \in Nat /\ editor[About[r]].text \in Nat
    BY SyncAssumption DEF SyncTyped, ClientTyped, Documents
  <2> QED
    BY <1>6, <2>1 DEF Launch, SyncTyped, PeerTyped, Places, peer
<1>7. ASSUME NEW r \in Requests, CheckOwner(r) PROVE PeerTyped'
  BY <1>7 DEF CheckOwner, calls, wire, frames, peer, SyncTyped, PeerTyped, Places
<1>8. ASSUME NEW r \in Requests, SendRequest(r) PROVE PeerTyped'
  BY <1>8 DEF SendRequest, calls, wire, peer, SyncTyped, PeerTyped, Places
<1>9. CASE DidRename
  BY <1>9 DEF DidRename, calls, frames, peer, requests, SyncTyped, PeerTyped, Places
<1>10. CASE BeginFlush
  BY <1>10 DEF BeginFlush, wire, frames, peer, requests, SyncTyped, PeerTyped, Places
<1>11. CASE FlushOpen
  BY <1>11 DEF FlushOpen, wire, frames, peer, requests, SyncTyped, PeerTyped, Places
<1>12. CASE FlushRequest
  BY <1>12 DEF FlushRequest, wire, frames, peer, SyncTyped, PeerTyped, Places
<1>13. CASE EndFlush
  BY <1>13 DEF EndFlush, wire, frames, peer, requests, SyncTyped, PeerTyped, Places
<1>14. CASE NextJob
  <2>1. Head(queue) \in Jobs
    BY <1>14, Taken DEF NextJob, SyncTyped, WireTyped
  <2>2. \/ UNCHANGED op
        \/ /\ Head(queue).request \in Requests
           /\ \E outcome \in {"task", "noted"} : op' = [op EXCEPT ![Head(queue).request] =
                 outcome]
    BY <1>14, <2>1, JobKinds DEF NextJob, DocKinds
  <2> QED
    BY <1>14, <2>2 DEF NextJob, SyncTyped, PeerTyped, Places, peer
<1>15. CASE Retire
  BY <1>15 DEF Retire, calls, frames, peer, requests, SyncTyped, PeerTyped, Places
<1>16. CASE Write
  <2>1. Head(channel) \in Jobs /\ Receive(Head(channel))
    BY <1>16, FirstFrame DEF Write
  <2>2. server' \in [Paths -> Copies] /\ published' \subseteq Reports
    BY <2>1, Received
  <2>3. op' \in [Requests -> Places] /\ answer' \in [Requests -> Nat]
    <3>1. \A p \in Paths : server[p].text \in Nat
      BY DEF SyncTyped, PeerTyped, Copies
    <3>2. About \in [Requests -> Paths]
      BY SyncAssumption
    <3> QED
      BY <2>1, <3>1, <3>2, Received DEF SyncTyped, PeerTyped, Places
  <2> QED
    BY <1>16, <2>2, <2>3 DEF Write, SyncTyped, PeerTyped
<1>17. CASE Disconnect
  <2>1. op' \in [Requests -> Places]
    BY <1>17 DEF Disconnect, SyncTyped, PeerTyped, Places
  <2> QED
    BY <1>17, <2>1 DEF Disconnect, SyncTyped, PeerTyped, peer
<1>18. CASE UNCHANGED vars
  BY <1>18 DEF vars, SyncTyped, PeerTyped, Places, calls, wire, frames, peer, requests
<1>19. QED
  BY <1>1, <1>2, <1>3, <1>4, <1>5, <1>6, <1>7, <1>8, <1>9, <1>10, <1>11, <1>12, <1>13, <1>14,
     <1>15, <1>16, <1>17, <1>18 DEF Next

-----------------------------------------------------------------------------
(* The records of the editor and the client keep together.                 *)
LEMMA RecordedStep == SyncTyped /\ Phased /\ (\A p \in Paths : Recorded(p)) /\ [Next]_vars => \A
   q \in Paths : Recorded(q)'
<1> SUFFICES ASSUME SyncTyped /\ Phased /\ (\A p \in Paths : Recorded(p)) /\ [Next]_vars, NEW q
   \in Paths
             PROVE  Recorded(q)'
  OBVIOUS
<1>1. ASSUME NEW p \in Paths, Open(p) PROVE Recorded(q)'
  BY <1>1 DEF Open, calls, wire, frames, peer, requests, SyncTyped, ClientTyped, PeerTyped,
     Documents, Records, Recorded
<1>2. ASSUME NEW p \in Paths, Edit(p) PROVE Recorded(q)'
  BY <1>2 DEF Edit, calls, wire, frames, peer, requests, SyncTyped, ClientTyped, PeerTyped,
     Documents, Records, Recorded
<1>3. ASSUME NEW p \in Paths, DidOpen(p) PROVE Recorded(q)'
  <2>1. /\ UNCHANGED editor /\ docs \in [Paths -> Records] /\ version \in Nat
        /\ editor[p].open /\ ~docs[p].open /\ seen \subseteq seen' /\ version' \in {version,
              version + 1}
    BY <1>3 DEF DidOpen, NextVersion, SeenAfter, SyncTyped, ClientTyped
  <2>2. \/ docs' = docs
        \/ docs' = [docs EXCEPT ![p] = Record(p, version')] /\ p \in seen'
        \/ docs' = [docs EXCEPT ![p] = Record(p, 0)]
    BY <1>3 DEF DidOpen, NextVersion, SeenAfter
  <2>3. CASE q # p
    BY <2>1, <2>2, <2>3 DEF Recorded, Records
  <2>4. CASE q = p
    <3>1. editor[p].text \in Nat
      BY DEF SyncTyped, ClientTyped, Documents
    <3>2. \/ ~docs'[p].open
          \/ /\ docs'[p].doc = editor[p].doc /\ docs'[p].text = editor[p].text
             /\ \/ docs'[p].version = version' /\ p \in seen'
                \/ docs'[p].version = 0
      BY <2>1, <2>2 DEF Record
    <3> QED
      BY <2>1, <2>4, <3>1, <3>2 DEF Recorded
  <2> QED
    BY <2>3, <2>4
<1>4. ASSUME NEW p \in Paths, DidChange(p) PROVE Recorded(q)'
  <2>1. /\ UNCHANGED <<editor, seen>> /\ docs \in [Paths -> Records] /\ version \in Nat
        /\ editor \in [Paths -> Documents]
    BY <1>4 DEF DidChange, SyncTyped, ClientTyped
  <2>2. \/ docs' = docs
        \/ docs' = [docs EXCEPT ![p].text = editor[p].text]
        \/ /\ docs' = [docs EXCEPT ![p].text = editor[p].text, ![p].version = version + 1]
           /\ version' = version + 1 /\ Ready
    BY <1>4 DEF DidChange, NextVersion, RecordAfterRefusal
  <2>3. version' \in {version, version + 1}
    BY <1>4 DEF DidChange, NextVersion
  <2>4. docs'[q].open => docs[q].open /\ docs'[q].doc = docs[q].doc
    BY <2>1, <2>2 DEF Records
  <2>5. docs'[q].text \in {docs[q].text, editor[q].text}
    BY <2>1, <2>2 DEF Records
  <2>6. \/ docs'[q].version = docs[q].version
        \/ docs'[q].version = version' /\ Ready
    BY <2>1, <2>2 DEF Records
  <2>7. docs[q].open /\ Ready => docs[q].version # 0
    BY DEF Phased, Ready
  <2>8. docs[q].version \in Nat /\ docs[q].text \in Nat /\ editor[q].text \in Nat
    BY <2>1 DEF Records, Documents
  <2> QED
    BY <2>1, <2>3, <2>4, <2>5, <2>6, <2>7, <2>8 DEF Recorded
<1>5. ASSUME NEW p \in Paths, DidClose(p) PROVE Recorded(q)'
  BY <1>5 DEF DidClose, Unlocked, Closed, wire, frames, peer, SyncTyped, ClientTyped, PeerTyped,
     Documents, Records, Recorded
<1>6. ASSUME NEW r \in Requests, Launch(r) PROVE Recorded(q)'
  BY <1>6 DEF Launch, Unlocked, Ready, wire, frames, peer, SyncTyped, ClientTyped, PeerTyped,
     Documents, Records, Recorded
<1>7. ASSUME NEW r \in Requests, CheckOwner(r) PROVE Recorded(q)'
  BY <1>7 DEF CheckOwner, calls, wire, frames, peer, SyncTyped, ClientTyped, PeerTyped,
     Documents, Records, Recorded
<1>8. ASSUME NEW r \in Requests, SendRequest(r) PROVE Recorded(q)'
  BY <1>8 DEF SendRequest, calls, wire, peer, SyncTyped, ClientTyped, PeerTyped, Documents,
     Records, Recorded
<1>9. CASE DidRename
  BY <1>9 DEF DidRename, Unlocked, calls, frames, peer, requests, SyncTyped, ClientTyped,
     PeerTyped, Documents, Records, Recorded
<1>10. CASE BeginFlush
  BY <1>10 DEF BeginFlush, wire, frames, peer, requests, SyncTyped, ClientTyped, PeerTyped,
     Documents, Records, Recorded
<1>11. CASE FlushOpen
  <2>1. PICK p \in flush :
          /\ \/ docs' = docs
             \/ /\ docs' = [docs EXCEPT ![p].pending = FALSE, ![p].version = version + 1]
                /\ version' = version + 1 /\ p \in seen'
          /\ seen \subseteq seen'
          /\ version' \in {version, version + 1}
    BY <1>11 DEF FlushOpen, NextVersion, SeenAfter, FlushFails
  <2>2. p \in Paths /\ version \in Nat /\ UNCHANGED editor /\ docs \in [Paths -> Records]
    BY <1>11 DEF FlushOpen, SyncTyped, ClientTyped
  <2>3. docs'[q].open <=> docs[q].open
    BY <2>1, <2>2 DEF Records
  <2>4. /\ docs'[q].doc = docs[q].doc /\ docs'[q].text = docs[q].text
        /\ docs'[q].version = docs[q].version \/ (docs'[q].version = version' /\ q \in seen')
    BY <2>1, <2>2 DEF Records
  <2> QED
    BY <2>1, <2>2, <2>3, <2>4 DEF Recorded, Records
<1>12. CASE FlushRequest
  BY <1>12 DEF FlushRequest, wire, frames, peer, SyncTyped, ClientTyped, PeerTyped, Documents,
     Records, Recorded
<1>13. CASE EndFlush
  BY <1>13 DEF EndFlush, wire, frames, peer, requests, SyncTyped, ClientTyped, PeerTyped,
     Documents, Records, Recorded
<1>14. CASE NextJob
  BY <1>14 DEF NextJob, calls, peer, SyncTyped, ClientTyped, PeerTyped, Documents, Records,
     Recorded
<1>15. CASE Retire
  BY <1>15 DEF Retire, calls, frames, peer, requests, SyncTyped, ClientTyped, PeerTyped,
     Documents, Records, Recorded
<1>16. CASE Write
  BY <1>16 DEF Write, calls, wire, SyncTyped, ClientTyped, PeerTyped, Documents, Records,
     Recorded
<1>17. CASE Disconnect
  BY <1>17 DEF Disconnect, calls, peer, SyncTyped, ClientTyped, PeerTyped, Documents, Records,
     Recorded
<1>18. CASE UNCHANGED vars
  BY <1>18 DEF vars, SyncTyped, ClientTyped, PeerTyped, Documents, Records, Recorded, calls,
     wire, frames, peer, requests
<1>19. QED
  BY <1>1, <1>2, <1>3, <1>4, <1>5, <1>6, <1>7, <1>8, <1>9, <1>10, <1>11, <1>12, <1>13, <1>14,
     <1>15, <1>16, <1>17, <1>18 DEF Next

(* Every action keeps to the handshake.                                    *)
LEMMA PhasedStep == SyncTyped /\ Phased /\ Waits /\ (\A p \in Paths : Recorded(p)) /\ (link =
   "up" => \A i \in DOMAIN queue : Barred(i)) /\ (\A i \in DOMAIN channel : Asks(i)) /\
   [Next]_vars => Phased'
<1> SUFFICES ASSUME SyncTyped /\ Phased /\ Waits /\ (\A p \in Paths : Recorded(p)) /\ (link =
   "up" => \A i \in DOMAIN queue : Barred(i)) /\ (\A i \in DOMAIN channel : Asks(i)) /\
   [Next]_vars PROVE Phased'
  OBVIOUS
<1>1. ASSUME NEW p \in Paths, Open(p) PROVE Phased'
  BY <1>1 DEF Open, calls, wire, frames, peer, requests, SyncTyped, ClientTyped, PeerTyped,
     Documents, Records, Phased
<1>2. ASSUME NEW p \in Paths, Edit(p) PROVE Phased'
  BY <1>2 DEF Edit, calls, wire, frames, peer, requests, SyncTyped, ClientTyped, PeerTyped,
     Documents, Records, Phased
<1>3. ASSUME NEW p \in Paths, DidOpen(p) PROVE Phased'
  <2>1. /\ UNCHANGED <<phase, flush, op>> /\ phase # "flushing" /\ docs \in [Paths -> Records]
        /\ version \in Nat
    BY <1>3 DEF DidOpen, Unlocked, SyncTyped, ClientTyped, requests
  <2>2. \/ UNCHANGED <<docs, seen>>
        \/ /\ docs' = [docs EXCEPT ![p] = Record(p, version')] /\ version' = version + 1 /\
                 Ready
        \/ docs' = [docs EXCEPT ![p] = Record(p, 0)] /\ UNCHANGED seen /\ ~Ready
    BY <1>3 DEF DidOpen, NextVersion
  <2>3. \A q \in Paths : q # p => docs'[q] = docs[q]
    BY <2>1, <2>2
  <2>4. \/ docs'[p] = docs[p] /\ UNCHANGED seen
        \/ docs'[p].version = version + 1 /\ Ready
        \/ docs'[p].version = 0 /\ UNCHANGED seen /\ ~Ready
    BY <2>1, <2>2 DEF Record
  <2> QED
    BY <2>1, <2>3, <2>4 DEF Phased, Ready
<1>4. ASSUME NEW p \in Paths, DidChange(p) PROVE Phased'
  <2>1. /\ UNCHANGED <<phase, flush, op, seen>> /\ phase # "flushing" /\ docs \in [Paths ->
              Records]
        /\ version \in Nat
    BY <1>4 DEF DidChange, Unlocked, SyncTyped, ClientTyped, requests
  <2>2. \/ docs' = docs
        \/ docs' = [docs EXCEPT ![p].text = editor[p].text] /\ ~Ready
        \/ /\ docs' = [docs EXCEPT ![p].text = editor[p].text, ![p].version = version + 1] /\
                 Ready
    BY <1>4 DEF DidChange, NextVersion, RecordAfterRefusal
  <2>3. \A q \in Paths : q # p => docs'[q] = docs[q]
    BY <2>1, <2>2
  <2>4. docs'[p].open = docs[p].open
    BY <2>1, <2>2 DEF Records
  <2>5. docs'[p].version = docs[p].version \/ (docs'[p].version = version + 1 /\ Ready)
    BY <2>1, <2>2 DEF Records
  <2> QED
    BY <2>1, <2>3, <2>4, <2>5 DEF Phased, Ready
<1>5. ASSUME NEW p \in Paths, DidClose(p) PROVE Phased'
  <2>1. UNCHANGED op \/ \E rs \in SUBSET Requests : Cancelled(rs)
    <3>1. \A d : {r \in Requests : op[r] = "early" /\ About[r] = p /\ stamp[r].doc = d} \in
       SUBSET Requests
      OBVIOUS
    <3> QED
      BY <1>5, <3>1 DEF DidClose
  <2>2. \A r \in Requests : op'[r] = op[r] \/ op'[r] = "noted"
    BY <2>1 DEF Cancelled
  <2>3. /\ UNCHANGED <<phase, flush, seen>> /\ phase # "flushing" /\ docs \in [Paths -> Records]
    BY <1>5 DEF DidClose, Unlocked, SyncTyped, ClientTyped
  <2>4. \A q \in Paths : q # p => docs'[q] = docs[q]
    BY <1>5, <2>3 DEF DidClose
  <2>5. docs'[p] = docs[p] \/ (~docs'[p].open /\ docs'[p].version = 0)
    BY <1>5, <2>3 DEF DidClose, Closed
  <2> QED
    BY <2>2, <2>3, <2>4, <2>5 DEF Phased
<1>6. ASSUME NEW r \in Requests, Launch(r) PROVE Phased'
  BY <1>6 DEF Launch, Unlocked, Ready, wire, frames, peer, SyncTyped, ClientTyped, PeerTyped,
     Documents, Records, Phased
<1>7. ASSUME NEW r \in Requests, CheckOwner(r) PROVE Phased'
  <2>1. op[r] = "task"
    BY <1>7 DEF CheckOwner
  <2> QED
    BY <1>7, <2>1 DEF CheckOwner, Phased, calls
<1>8. ASSUME NEW r \in Requests, SendRequest(r) PROVE Phased'
  <2>1. op[r] = "current"
    BY <1>8 DEF SendRequest
  <2> QED
    BY <1>8, <2>1 DEF SendRequest, Phased, calls
<1>9. CASE DidRename
  BY <1>9 DEF DidRename, Unlocked, calls, frames, peer, requests, SyncTyped, ClientTyped,
     PeerTyped, Documents, Records, Phased
<1>10. CASE BeginFlush
  BY <1>10 DEF BeginFlush, wire, frames, peer, requests, SyncTyped, ClientTyped, PeerTyped,
     Documents, Records, Phased
<1>11. CASE FlushOpen
  <2>1. PICK p \in flush :
          \/ UNCHANGED docs /\ flush' = {} /\ phase' = "failed"
          \/ /\ docs' = [docs EXCEPT ![p].pending = FALSE, ![p].version = version + 1]
             /\ UNCHANGED phase /\ flush' = flush \ {p} /\ seen' = seen \union {p}
    BY <1>11 DEF FlushOpen, NextVersion, SeenAfter, FlushFails
  <2>2. /\ p \in Paths /\ version \in Nat /\ UNCHANGED op /\ docs \in [Paths -> Records]
        /\ phase = "flushing" /\ flush \subseteq Paths
    BY <1>11 DEF FlushOpen, SyncTyped, ClientTyped, requests
  <2>3. CASE UNCHANGED docs /\ flush' = {} /\ phase' = "failed"
    BY <2>1, <2>2, <2>3 DEF Phased
  <2>4. CASE /\ docs' = [docs EXCEPT ![p].pending = FALSE, ![p].version = version + 1]
             /\ UNCHANGED phase /\ flush' = flush \ {p} /\ seen' = seen \union {p}
    <3>1. docs'[p].version = version + 1 /\ \A q \in Paths : q # p => docs'[q] = docs[q]
      BY <2>2, <2>4 DEF Records
    <3> QED
      BY <2>1, <2>2, <2>4, <3>1 DEF Phased
  <2> QED
    BY <2>1, <2>3, <2>4
<1>12. CASE FlushRequest
  BY <1>12 DEF FlushRequest, wire, frames, peer, SyncTyped, ClientTyped, PeerTyped, Documents,
     Records, Phased
<1>13. CASE EndFlush
  BY <1>13 DEF EndFlush, wire, frames, peer, requests, SyncTyped, ClientTyped, PeerTyped,
     Documents, Records, Phased
<1>14. CASE NextJob
  <2>1. /\ Head(queue) = queue[1] /\ 1 \in DOMAIN queue /\ Head(queue) \in Jobs
        /\ link = "up" /\ op \in [Requests -> Places]
    BY <1>14, Taken DEF NextJob, SyncTyped, WireTyped, PeerTyped, Waits
  <2>2. UNCHANGED op \/ \E r \in Requests : op[r] = "queued"
    <3>1. CASE Head(queue).kind = "request"
      BY <2>1, <3>1, JobKinds DEF Barred, DocKinds
    <3>2. CASE Head(queue).kind # "request"
      BY <1>14, <3>2 DEF NextJob
    <3> QED
      BY <3>1, <3>2
  <2> QED
    BY <1>14, <2>2 DEF NextJob, Phased, calls
<1>15. CASE Retire
  BY <1>15 DEF Retire, calls, frames, peer, requests, SyncTyped, ClientTyped, PeerTyped,
     Documents, Records, Phased
<1>16. CASE Write
  <2>1. /\ Head(channel) = channel[1] /\ 1 \in DOMAIN channel /\ Head(channel) \in Jobs
        /\ Receive(Head(channel))
    BY <1>16, FirstFrame DEF Write
  <2>2. UNCHANGED op \/ \E r \in Requests : op[r] = "sent"
    BY <2>1, Received DEF Asks
  <2> QED
    BY <1>16, <2>2 DEF Write, Phased, calls
<1>17. CASE Disconnect
  BY <1>17 DEF Disconnect, calls, peer, SyncTyped, ClientTyped, PeerTyped, Documents, Records,
     Phased
<1>18. CASE UNCHANGED vars
  BY <1>18 DEF vars, SyncTyped, ClientTyped, PeerTyped, Documents, Records, Phased, calls, wire,
     frames, peer, requests
<1>19. QED
  BY <1>1, <1>2, <1>3, <1>4, <1>5, <1>6, <1>7, <1>8, <1>9, <1>10, <1>11, <1>12, <1>13, <1>14,
     <1>15, <1>16, <1>17, <1>18 DEF Next

(* Every action keeps the worker waiting for what is on its way.           *)
LEMMA WaitsStep == SyncTyped /\ Waits /\ [Next]_vars => Waits'
<1> SUFFICES ASSUME SyncTyped /\ Waits /\ [Next]_vars PROVE Waits'
  OBVIOUS
<1>1. ASSUME NEW p \in Paths, Open(p) PROVE Waits'
  BY <1>1 DEF Open, calls, wire, frames, peer, requests, Waits
<1>2. ASSUME NEW p \in Paths, Edit(p) PROVE Waits'
  BY <1>2 DEF Edit, calls, wire, frames, peer, requests, Waits
<1>3. ASSUME NEW p \in Paths, DidOpen(p) PROVE Waits'
  <2>1. UNCHANGED <<accepting, link, worker, ticket, channel>>
    BY <1>3 DEF DidOpen, Offer, Refuses, wire, frames
  <2> QED
    BY <2>1 DEF Waits
<1>4. ASSUME NEW p \in Paths, DidChange(p) PROVE Waits'
  <2>1. UNCHANGED <<accepting, link, worker, ticket, channel>>
    BY <1>4 DEF DidChange, Offer, Refuses, wire, frames
  <2> QED
    BY <2>1 DEF Waits
<1>5. ASSUME NEW p \in Paths, DidClose(p) PROVE Waits'
  <2>1. UNCHANGED <<accepting, link, worker, ticket, channel>>
    BY <1>5 DEF DidClose, Offer, Refuses, wire, frames
  <2> QED
    BY <2>1 DEF Waits
<1>6. ASSUME NEW r \in Requests, Launch(r) PROVE Waits'
  <2>1. UNCHANGED <<accepting, link, worker, ticket, channel>>
    BY <1>6 DEF Launch, Offer, Refuses, wire, frames
  <2> QED
    BY <2>1 DEF Waits
<1>7. ASSUME NEW r \in Requests, CheckOwner(r) PROVE Waits'
  BY <1>7 DEF CheckOwner, calls, wire, frames, peer, Waits
<1>8. ASSUME NEW r \in Requests, SendRequest(r) PROVE Waits'
  <2>1. /\ channel \in Seq(Jobs) /\ RequestJob(r) \in Jobs /\ UNCHANGED <<accepting, link,
              worker, ticket>>
        /\ channel' = channel \/ channel' = Append(channel, RequestJob(r))
    BY <1>8, JobsMade DEF SendRequest, wire, SyncTyped, WireTyped
  <2>2. ~Notifies(RequestJob(r))
    BY JobsMade DEF Notifies
  <2>3. \A i \in DOMAIN channel' : Notifies(channel'[i]) => i \in DOMAIN channel /\ channel'[i]
     = channel[i]
    BY <2>1, <2>2, Added
  <2>4. \A i \in DOMAIN channel' : Notifies(channel'[i]) =>
            /\ worker = "waiting" /\ Method(channel'[i].kind) = ticket
            /\ \A j \in DOMAIN channel' : Notifies(channel'[j]) => i = j
    BY <2>3 DEF Waits
  <2> QED
    BY <2>1, <2>4 DEF Waits
<1>9. CASE DidRename
  <2>1. UNCHANGED <<accepting, link, worker, ticket, channel>>
    BY <1>9 DEF DidRename, Offer, Refuses, wire, frames
  <2> QED
    BY <2>1 DEF Waits
<1>10. CASE BeginFlush
  BY <1>10 DEF BeginFlush, wire, frames, peer, requests, Waits
<1>11. CASE FlushOpen
  <2>1. UNCHANGED <<accepting, link, worker, ticket, channel>>
    BY <1>11 DEF FlushOpen, Offer, Refuses, wire, frames
  <2> QED
    BY <2>1 DEF Waits
<1>12. CASE FlushRequest
  <2>1. UNCHANGED <<accepting, link, worker, ticket, channel>>
    BY <1>12 DEF FlushRequest, Offer, Refuses, wire, frames
  <2> QED
    BY <2>1 DEF Waits
<1>13. CASE EndFlush
  BY <1>13 DEF EndFlush, wire, frames, peer, requests, Waits
<1>14. CASE NextJob
  <2>1. /\ Head(queue) \in Jobs /\ channel \in Seq(Jobs) /\ worker = "idle"
        /\ UNCHANGED <<accepting, link>>
    BY <1>14, Taken DEF NextJob, SyncTyped, WireTyped
  <2>2. \A i \in DOMAIN channel : ~Notifies(channel[i])
    BY <2>1 DEF Waits
  <2>3. CASE UNCHANGED <<worker, ticket, channel>>
    BY <2>1, <2>3 DEF Waits
  <2>4. CASE /\ Head(queue).kind # "request"
             /\ worker' = "waiting" /\ ticket' = Method(Head(queue).kind)
             /\ channel' = Append(channel, Head(queue))
    <3>1. /\ Len(channel) + 1 \in DOMAIN channel' /\ channel'[Len(channel) + 1] = Head(queue)
          /\ \A i \in DOMAIN channel : channel'[i] = channel[i]
          /\ \A i \in DOMAIN channel' : i = Len(channel) + 1 \/ i \in DOMAIN channel
      BY <2>1, <2>4, Added
    <3>2. ticket' # "none"
      BY <2>1, <2>4, JobKinds DEF Method, DocKinds
    <3>3. \A i \in DOMAIN channel' : Notifies(channel'[i]) => i = Len(channel) + 1
      BY <2>2, <3>1
    <3>4. channel'[Len(channel) + 1].kind = Head(queue).kind
      BY <3>1
    <3>5. /\ accepting' <=> link' = "up"
          /\ ticket' # "none" <=> worker' = "waiting"
      BY <2>1, <2>4, <3>2 DEF Waits
    <3>6. \A i \in DOMAIN channel' : Notifies(channel'[i]) =>
            /\ worker' = "waiting" /\ Method(channel'[i].kind) = ticket'
            /\ \A j \in DOMAIN channel' : Notifies(channel'[j]) => i = j
      BY <2>4, <3>3, <3>4
    <3> QED
      BY <3>5, <3>6 DEF Waits
  <2> QED
    BY <1>14, <2>3, <2>4 DEF NextJob
<1>15. CASE Retire
  BY <1>15 DEF Retire, calls, frames, peer, requests, Waits
<1>16. CASE Write
  <2>1. /\ channel \in Seq(Jobs) /\ channel # <<>> /\ channel' = Tail(channel)
        /\ UNCHANGED <<accepting, link>> /\ Head(channel) \in Jobs
        /\ ticket \in DocKinds \union {"none"}
    BY <1>16, FirstFrame DEF Write, wire, SyncTyped, WireTyped
  <2>2. /\ Head(channel) = channel[1] /\ 1 \in DOMAIN channel
        /\ \A i \in DOMAIN channel' : i # 0 /\ i \in Nat /\ i + 1 \in DOMAIN channel /\
              channel'[i] = channel[i + 1]
    BY <2>1, Taken
  <2>3. \/ /\ worker = "waiting" /\ Parse(Head(channel).kind) = ticket
           /\ worker' = "idle" /\ ticket' = "none"
        \/ UNCHANGED <<worker, ticket>>
    BY <1>16 DEF Write
  <2>4. CASE UNCHANGED <<worker, ticket>>
    BY <2>1, <2>2, <2>4 DEF Waits
  <2>5. CASE /\ worker = "waiting" /\ Parse(Head(channel).kind) = ticket
             /\ worker' = "idle" /\ ticket' = "none"
    <3>1. Notifies(channel[1])
      BY <2>1, <2>2, <2>5 DEF Parse, Notifies, Waits, DocKinds
    <3>2. \A i \in DOMAIN channel' : ~Notifies(channel'[i])
      BY <2>2, <3>1 DEF Waits
    <3> QED
      BY <2>1, <2>5, <3>2 DEF Waits
  <2> QED
    BY <2>3, <2>4, <2>5
<1>17. CASE Disconnect
  BY <1>17 DEF Disconnect, calls, peer, Waits
<1>18. CASE UNCHANGED vars
  BY <1>18 DEF vars, Waits, calls, wire, frames, peer, requests
<1>19. QED
  BY <1>1, <1>2, <1>3, <1>4, <1>5, <1>6, <1>7, <1>8, <1>9, <1>10, <1>11, <1>12, <1>13, <1>14,
     <1>15, <1>16, <1>17, <1>18 DEF Next

(* A stamp keeps to the document that the editor has open.                 *)
LEMMA StampedStep == SyncTyped /\ Phased /\ Waits /\ (\A p \in Paths : Recorded(p)) /\ (\A r \in
   Requests : Stamped(r)) /\ (link = "up" => \A i \in DOMAIN queue : Barred(i)) /\ (\A i \in
   DOMAIN channel : Asks(i)) /\ [Next]_vars => \A q \in Requests : Stamped(q)'
<1> SUFFICES ASSUME SyncTyped /\ Phased /\ Waits /\ (\A p \in Paths : Recorded(p)) /\ (\A r \in
   Requests : Stamped(r)) /\ (link = "up" => \A i \in DOMAIN queue : Barred(i)) /\ (\A i \in
   DOMAIN channel : Asks(i)) /\ [Next]_vars, NEW q \in Requests
             PROVE  Stamped(q)'
  OBVIOUS
<1>1. ASSUME NEW p \in Paths, Open(p) PROVE Stamped(q)'
  <2>1. About[q] \in Paths /\ editor \in [Paths -> Documents] /\ stamp[q].doc \in Nat
    BY SyncAssumption DEF SyncTyped, ClientTyped, PeerTyped
  <2>2. UNCHANGED <<docs, op, stamp>> /\ editor' = [editor EXCEPT ![p] = [open |-> TRUE, doc |->
     editor[p].doc + 1, text |-> editor[p].text + 1]]
    BY <1>1 DEF Open, calls, requests
  <2>3. CASE About[q] = p
    <3>1. editor'[p].doc = editor[p].doc + 1 /\ editor[p].doc \in Nat
      BY <2>1, <2>2, <2>3 DEF Documents
    <3> QED
      BY <2>1, <2>2, <2>3, <3>1 DEF Stamped
  <2>4. CASE About[q] # p
    BY <2>1, <2>2, <2>4 DEF Stamped
  <2> QED
    BY <2>3, <2>4
<1>2. ASSUME NEW p \in Paths, Edit(p) PROVE Stamped(q)'
  <2>1. About[q] \in Paths /\ editor \in [Paths -> Documents]
    BY SyncAssumption DEF SyncTyped, ClientTyped
  <2>2. UNCHANGED <<docs, op, stamp>> /\ editor' = [editor EXCEPT ![p].text = editor[p].text +
     1]
    BY <1>2 DEF Edit, calls, requests
  <2>3. editor'[About[q]].doc = editor[About[q]].doc /\ editor'[About[q]].open =
     editor[About[q]].open
    BY <2>1, <2>2 DEF Documents
  <2> QED
    BY <2>2, <2>3 DEF Stamped
<1>3. ASSUME NEW p \in Paths, DidOpen(p) PROVE Stamped(q)'
  <2>1. /\ About[q] \in Paths /\ docs \in [Paths -> Records] /\ UNCHANGED <<editor, op, stamp>>
        /\ editor[p].open /\ ~docs[p].open
        /\ docs' = docs \/ \E v : docs' = [docs EXCEPT ![p] = Record(p, v)]
    BY <1>3, SyncAssumption DEF DidOpen, SyncTyped, ClientTyped, requests
  <2>2. About[q] # p => docs'[About[q]] = docs[About[q]]
    BY <2>1
  <2> QED
    BY <2>1, <2>2 DEF Stamped
<1>4. ASSUME NEW p \in Paths, DidChange(p) PROVE Stamped(q)'
  <2>1. /\ About[q] \in Paths /\ docs \in [Paths -> Records] /\ UNCHANGED <<editor, op, stamp>>
        /\ docs' = docs \/ docs' = [docs EXCEPT ![p].text = editor[p].text]
           \/ docs' = [docs EXCEPT ![p].text = editor[p].text, ![p].version = version']
        /\ stamp[q].text \in Nat /\ editor[p].text \in Nat /\ editor[p].open
        /\ docs[p].open /\ docs[p].doc = editor[p].doc
    BY <1>4, SyncAssumption DEF DidChange, RecordAfterRefusal, SyncTyped, ClientTyped,
       PeerTyped, requests, Documents
  <2>2. /\ docs'[About[q]].open = docs[About[q]].open
        /\ docs'[About[q]].text = docs[About[q]].text
             \/ (About[q] = p /\ docs'[p].text = editor[p].text)
    BY <2>1 DEF Records
  <2>3. docs[p].text <= editor[p].text /\ docs[p].text \in Nat
    BY <2>1 DEF Recorded, Records
  <2> QED
    BY <2>1, <2>2, <2>3 DEF Stamped
<1>5. ASSUME NEW p \in Paths, DidClose(p) PROVE Stamped(q)'
  <2>1. op'[q] # "new" => op[q] # "new"
    <3>1. \A d : q \in {r \in Requests : op[r] = "early" /\ About[r] = p /\ stamp[r].doc = d} =>
       op[q] # "new"
      OBVIOUS
    <3> QED
      BY <1>5, <3>1 DEF DidClose, Cancelled
  <2>2. /\ UNCHANGED stamp /\ docs \in [Paths -> Records] /\ editor \in [Paths -> Documents]
        /\ editor' = [editor EXCEPT ![p].open = FALSE]
        /\ docs' = docs \/ docs' = [docs EXCEPT ![p] = Closed]
    BY <1>5 DEF DidClose, SyncTyped, ClientTyped
  <2>3. About[q] \in Paths
    BY SyncAssumption
  <2>4. CASE About[q] = p
    <3>1. editor'[p].doc = editor[p].doc /\ ~editor'[p].open
      BY <2>2, <2>3, <2>4 DEF Documents
    <3> QED
      BY <2>1, <2>2, <2>4, <3>1 DEF Stamped
  <2>5. CASE About[q] # p
    BY <2>1, <2>2, <2>3, <2>5 DEF Stamped
  <2> QED
    BY <2>4, <2>5
<1>6. ASSUME NEW r \in Requests, Launch(r) PROVE Stamped(q)'
  <2>1. /\ About[q] \in Paths /\ UNCHANGED <<editor, docs>> /\ op \in [Requests -> Places]
        /\ stamp \in [Requests -> [doc : Nat, text : Nat]]
        /\ stamp' = [stamp EXCEPT ![r] = [doc |-> editor[About[r]].doc, text |->
              editor[About[r]].text]]
        /\ docs[About[r]].open /\ docs[About[r]].text = editor[About[r]].text
        /\ editor[About[r]].doc \in Nat /\ docs[About[r]].text \in Nat
        /\ \E place : op' = [op EXCEPT ![r] = place]
    BY <1>6, SyncAssumption DEF Launch, SyncTyped, ClientTyped, PeerTyped, Documents, Records
  <2>2. CASE q = r
    <3>1. stamp'[r].doc = editor[About[r]].doc /\ stamp'[r].text = editor[About[r]].text
      BY <2>1
    <3> QED
      BY <2>1, <2>2, <3>1 DEF Stamped
  <2>3. CASE q # r
    <3>1. op'[q] = op[q] /\ stamp'[q] = stamp[q]
      BY <2>1, <2>3
    <3> QED
      BY <2>1, <3>1 DEF Stamped
  <2> QED
    BY <2>2, <2>3
<1>7. ASSUME NEW r \in Requests, CheckOwner(r) PROVE Stamped(q)'
  BY <1>7 DEF CheckOwner, calls, wire, frames, peer, SyncTyped, ClientTyped, PeerTyped,
     Documents, Records, Stamped
<1>8. ASSUME NEW r \in Requests, SendRequest(r) PROVE Stamped(q)'
  BY <1>8 DEF SendRequest, calls, wire, peer, SyncTyped, ClientTyped, PeerTyped, Documents,
     Records, Stamped
<1>9. CASE DidRename
  BY <1>9 DEF DidRename, Unlocked, calls, frames, peer, requests, SyncTyped, ClientTyped,
     PeerTyped, Documents, Records, Stamped
<1>10. CASE BeginFlush
  BY <1>10 DEF BeginFlush, wire, frames, peer, requests, SyncTyped, ClientTyped, PeerTyped,
     Documents, Records, Stamped
<1>11. CASE FlushOpen
  <2>1. /\ About[q] \in Paths /\ docs \in [Paths -> Records] /\ UNCHANGED <<editor, op, stamp>>
    BY <1>11, SyncAssumption DEF FlushOpen, SyncTyped, ClientTyped, requests
  <2>2. PICK p \in flush :
          docs' = docs \/ docs' = [docs EXCEPT ![p].pending = FALSE, ![p].version = version']
    BY <1>11 DEF FlushOpen
  <2>3. docs'[About[q]].open = docs[About[q]].open
    BY <2>1, <2>2 DEF Records
  <2>4. docs'[About[q]].text = docs[About[q]].text
    BY <2>1, <2>2 DEF Records
  <2> QED
    BY <2>1, <2>3, <2>4 DEF Stamped
<1>12. CASE FlushRequest
  <2>1. op'[q] # "new" => op[q] # "new"
    <3>1. PICK r \in Requests : op[r] = "early" /\ \E place : op' = [op EXCEPT ![r] = place]
      BY <1>12 DEF FlushRequest, NextEarly
    <3>2. op \in [Requests -> Places]
      BY DEF SyncTyped, PeerTyped
    <3> QED
      BY <3>1, <3>2
  <2> QED
    BY <1>12, <2>1 DEF FlushRequest, Stamped
<1>13. CASE EndFlush
  BY <1>13 DEF EndFlush, wire, frames, peer, requests, SyncTyped, ClientTyped, PeerTyped,
     Documents, Records, Stamped
<1>14. CASE NextJob
  <2>1. op'[q] # "new" => op[q] # "new"
    <3>1. /\ Head(queue) = queue[1] /\ 1 \in DOMAIN queue /\ Head(queue) \in Jobs
          /\ link = "up" /\ op \in [Requests -> Places]
      BY <1>14, Taken DEF NextJob, SyncTyped, WireTyped, PeerTyped, Waits
    <3>2. CASE Head(queue).kind = "request"
      BY <1>14, <3>1, <3>2, JobKinds DEF NextJob, Barred, DocKinds
    <3>3. CASE Head(queue).kind # "request"
      BY <1>14, <3>3 DEF NextJob
    <3> QED
      BY <3>2, <3>3
  <2> QED
    BY <1>14, <2>1 DEF NextJob, Stamped, calls
<1>15. CASE Retire
  BY <1>15 DEF Retire, calls, frames, peer, requests, SyncTyped, ClientTyped, PeerTyped,
     Documents, Records, Stamped
<1>16. CASE Write
  <2>1. op'[q] # "new" => op[q] # "new"
    <3>1. /\ Head(channel) = channel[1] /\ 1 \in DOMAIN channel /\ Head(channel) \in Jobs
          /\ Receive(Head(channel)) /\ op \in [Requests -> Places]
      BY <1>16, FirstFrame DEF Write, SyncTyped, PeerTyped
    <3> QED
      BY <3>1, Received DEF Asks
  <2> QED
    BY <1>16, <2>1 DEF Write, Stamped, calls
<1>17. CASE Disconnect
  BY <1>17 DEF Disconnect, calls, peer, SyncTyped, ClientTyped, PeerTyped, Documents, Records,
     Stamped
<1>18. CASE UNCHANGED vars
  BY <1>18 DEF vars, SyncTyped, ClientTyped, PeerTyped, Documents, Records, Stamped, calls,
     wire, frames, peer, requests
<1>19. QED
  BY <1>1, <1>2, <1>3, <1>4, <1>5, <1>6, <1>7, <1>8, <1>9, <1>10, <1>11, <1>12, <1>13, <1>14,
     <1>15, <1>16, <1>17, <1>18 DEF Next

-----------------------------------------------------------------------------
(* What is known of a version stays so: a new one is newer than all.       *)
LEMMA KnownStep ==
  ASSUME SyncTyped, Phased, [Next]_vars,
         NEW d, d.path \in Paths, d.version \in Nat, Known(d)
  PROVE  Known(d)'
<1>1. ASSUME NEW p \in Paths, Open(p) PROVE Known(d)'
  BY <1>1 DEF Open, SyncTyped, ClientTyped, Known, calls, wire, frames, peer, requests
<1>2. ASSUME NEW p \in Paths, Edit(p) PROVE Known(d)'
  BY <1>2 DEF Edit, SyncTyped, ClientTyped, Known, calls, wire, frames, peer, requests
<1>3. ASSUME NEW p \in Paths, DidOpen(p) PROVE Known(d)'
  <2>1. /\ docs \in [Paths -> Records] /\ version \in Nat /\ UNCHANGED phase
        /\ ~docs[p].open /\ version' \in {version, version + 1} /\ seen \subseteq seen'
        /\ docs' = docs \/ (docs' = [docs EXCEPT ![p] = Record(p, version + 1)] /\ version' =
              version + 1)
           \/ docs' = [docs EXCEPT ![p] = Record(p, 0)]
    BY <1>3 DEF DidOpen, NextVersion, SeenAfter, SyncTyped, ClientTyped
  <2>2. CASE d.path # p
    <3>1. docs'[d.path] = docs[d.path]
      BY <2>1, <2>2
    <3> QED
      BY <2>1, <3>1 DEF Known
  <2>3. CASE d.path = p /\ docs' = docs
    BY <2>1, <2>3 DEF Known
  <2>4. ASSUME NEW v \in {0, version + 1}, d.path = p, docs' = [docs EXCEPT ![p] = Record(p, v)]
        PROVE  Known(d)'
    <3>1. docs'[p].version = v /\ (docs'[p].unversioned <=> p \notin seen)
      BY <2>1, <2>4 DEF Record
    <3> QED
      BY <2>1, <2>4, <3>1 DEF Known
  <2> QED
    BY <2>1, <2>2, <2>3, <2>4
<1>4. ASSUME NEW p \in Paths, DidChange(p) PROVE Known(d)'
  <2>1. /\ docs \in [Paths -> Records] /\ version \in Nat /\ UNCHANGED <<phase, seen>>
        /\ phase \in {"waiting", "flushing", "ready", "failed"} /\ phase # "flushing"
        /\ docs[p].open /\ version' \in {version, version + 1}
        /\ docs' = docs \/ (docs' = [docs EXCEPT ![p].text = editor[p].text] /\ ~Ready)
           \/ (docs' = [docs EXCEPT ![p].text = editor[p].text, ![p].version = version + 1] /\
                 Ready)
    BY <1>4 DEF DidChange, Unlocked, NextVersion, RecordAfterRefusal, SyncTyped, ClientTyped
  <2>2. CASE d.path # p
    <3>1. docs'[d.path] = docs[d.path]
      BY <2>1, <2>2
    <3> QED
      BY <2>1, <3>1 DEF Known
  <2>3. CASE d.path = p /\ docs' = docs
    BY <2>1, <2>3 DEF Known
  <2>4. CASE d.path = p /\ docs' = [docs EXCEPT ![p].text = editor[p].text] /\ ~Ready
    <3>1. /\ docs'[p].open = docs[p].open /\ docs'[p].doc = docs[p].doc
          /\ docs'[p].version = docs[p].version /\ docs'[p].unversioned = docs[p].unversioned
      BY <2>1, <2>4 DEF Records
    <3>2. phase = "failed"
      BY <2>1, <2>4 DEF Ready, Phased, Known
    <3> QED
      BY <2>1, <2>4, <3>1, <3>2 DEF Known
  <2>5. CASE /\ d.path = p /\ Ready
             /\ docs' = [docs EXCEPT ![p].text = editor[p].text, ![p].version = version + 1]
    <3>1. /\ docs'[p].open = docs[p].open /\ docs'[p].doc = docs[p].doc
          /\ docs'[p].version = version + 1 /\ docs'[p].unversioned = docs[p].unversioned
      BY <2>1, <2>5 DEF Records
    <3>2. docs[p].version # 0
      BY <2>1, <2>5 DEF Ready, Phased
    <3> QED
      BY <2>1, <2>5, <3>1, <3>2 DEF Known
  <2> QED
    BY <2>1, <2>2, <2>3, <2>4, <2>5
<1>5. ASSUME NEW p \in Paths, DidClose(p) PROVE Known(d)'
  <2>1. /\ docs \in [Paths -> Records] /\ UNCHANGED <<phase, seen, version>>
        /\ docs' = docs \/ docs' = [docs EXCEPT ![p] = Closed]
    BY <1>5 DEF DidClose, SyncTyped, ClientTyped
  <2>2. docs'[d.path] = docs[d.path] \/ ~docs'[d.path].open
    BY <2>1 DEF Closed
  <2> QED
    BY <2>1, <2>2 DEF Known
<1>6. ASSUME NEW r \in Requests, Launch(r) PROVE Known(d)'
  BY <1>6 DEF Launch, SyncTyped, ClientTyped, Known, Unlocked, Ready, wire, frames, peer
<1>7. ASSUME NEW r \in Requests, CheckOwner(r) PROVE Known(d)'
  BY <1>7 DEF CheckOwner, SyncTyped, ClientTyped, Known, calls, wire, frames, peer
<1>8. ASSUME NEW r \in Requests, SendRequest(r) PROVE Known(d)'
  BY <1>8 DEF SendRequest, SyncTyped, ClientTyped, Known, calls, wire, peer
<1>9. CASE DidRename
  BY <1>9 DEF DidRename, SyncTyped, ClientTyped, Known, Unlocked, calls, frames, peer, requests
<1>10. CASE BeginFlush
  BY <1>10 DEF BeginFlush, SyncTyped, ClientTyped, Known, wire, frames, peer, requests
<1>11. CASE FlushOpen
  <2>1. PICK p \in flush :
          /\ \/ docs' = docs
             \/ /\ docs' = [docs EXCEPT ![p].pending = FALSE, ![p].version = version + 1]
                /\ version' = version + 1 /\ UNCHANGED phase
          /\ version' \in {version, version + 1} /\ seen \subseteq seen'
    BY <1>11 DEF FlushOpen, NextVersion, SeenAfter, FlushFails
  <2>2. /\ p \in Paths /\ version \in Nat /\ docs \in [Paths -> Records] /\ phase = "flushing"
    BY <1>11 DEF FlushOpen, SyncTyped, ClientTyped
  <2>3. d.path # p
    BY <2>1 DEF Phased, Known
  <2>4. docs'[d.path] = docs[d.path]
    BY <2>1, <2>2, <2>3
  <2> QED
    BY <2>1, <2>2, <2>4 DEF Known
<1>12. CASE FlushRequest
  BY <1>12 DEF FlushRequest, SyncTyped, ClientTyped, Known, wire, frames, peer
<1>13. CASE EndFlush
  BY <1>13 DEF EndFlush, SyncTyped, ClientTyped, Known, wire, frames, peer, requests
<1>14. CASE NextJob
  BY <1>14 DEF NextJob, SyncTyped, ClientTyped, Known, calls, peer
<1>15. CASE Retire
  BY <1>15 DEF Retire, SyncTyped, ClientTyped, Known, calls, frames, peer, requests
<1>16. CASE Write
  BY <1>16 DEF Write, SyncTyped, ClientTyped, Known, calls, wire
<1>17. CASE Disconnect
  BY <1>17 DEF Disconnect, SyncTyped, ClientTyped, Known, calls, peer
<1>18. CASE UNCHANGED vars
  BY <1>18 DEF Known, vars, calls
<1>19. QED
  BY <1>1, <1>2, <1>3, <1>4, <1>5, <1>6, <1>7, <1>8, <1>9, <1>10, <1>11, <1>12, <1>13, <1>14,
     <1>15, <1>16, <1>17, <1>18 DEF Next

(* A record says of a job what the job says of the record.                 *)
LEMMA NewKnown ==
  ASSUME NEW job, NEW p \in Paths, version \in Nat, Posts(p, job), HoldsText(job)
  PROVE  Known(job)'
  BY DEF Posts, IsDoc, Says, Known

(* What has got into the queue by a step that is not NextJob.              *)
LEMMA QueueGrows ==
  ASSUME SyncTyped, NEW job \in Jobs, UNCHANGED queue \/ Queues(job), NEW i \in DOMAIN queue'
  PROVE  queue'[i] = job \/ (i \in DOMAIN queue /\ queue'[i] = queue[i])
  BY DEF Queues, PlacedAt

(* Every action keeps what is known of the traffic.                        *)
LEMMA TrafficStep ==
  ASSUME SyncTyped, Phased, Waits, Traffic, StepKind, [Next]_vars
  PROVE  Traffic'
<1>1. /\ version \in Nat /\ queue \in Seq(Jobs) /\ channel \in Seq(Jobs)
      /\ published \subseteq Reports
  BY DEF SyncTyped, ClientTyped, WireTyped, PeerTyped
<1>2. ASSUME NEW d \in Jobs, HoldsText(d), Known(d) PROVE Known(d)'
  <2>1. d.path \in Paths /\ d.version \in Nat
    BY <1>2, JobKinds DEF HoldsText, DocKinds
  <2> QED
    BY <1>2, <2>1, KnownStep
<1>3. ASSUME NEW d \in Reports, Known(d) PROVE Known(d)'
  <2>1. d.path \in Paths /\ d.version \in Nat
    BY DEF Reports
  <2> QED
    BY <1>3, <2>1, KnownStep
<1>4. /\ \A i \in DOMAIN queue : queue[i] \in Jobs /\ (HoldsText(queue[i]) => Known(queue[i]))
      /\ \A i \in DOMAIN channel : channel[i] \in Jobs /\ (HoldsText(channel[i]) =>
            Known(channel[i]))
      /\ \A d \in published : d \in Reports /\ Known(d)
  BY <1>1 DEF Traffic
<1>5. ASSUME NEW i \in DOMAIN queue', NEW d, d = queue'[i], HoldsText(d)
      PROVE  (\E j \in DOMAIN queue : d = queue[j]) \/ Known(d)'
  <2>1. CASE UNCHANGED queue
    BY <1>5, <2>1
  <2>2. CASE Queues(RenameJob)
    BY <1>5, <2>2, QueueGrows, JobsMade DEF HoldsText
  <2>3. ASSUME NEW r \in Requests, Enqueues(r) PROVE \E j \in DOMAIN queue : d = queue[j]
    BY <1>5, <2>3, QueueGrows, JobsMade DEF HoldsText, Enqueues
  <2>4. ASSUME NEW p \in Paths, NEW job \in Jobs, Posts(p, job)
        PROVE  (\E j \in DOMAIN queue : d = queue[j]) \/ Known(d)'
    BY <1>1, <1>5, <2>4, QueueGrows, NewKnown DEF Posts
  <2>5. CASE NextJob
    BY <1>1, <1>5, <2>5, Taken DEF NextJob
  <2>6. CASE Write \/ Disconnect \/ \E r \in Requests : SendRequest(r)
    BY <1>5, <2>6 DEF Write, Disconnect, SendRequest, wire
  <2> QED
    BY <2>1, <2>2, <2>3, <2>4, <2>5, <2>6 DEF StepKind, Quiet
<1>6. ASSUME NEW i \in DOMAIN channel', NEW d, d = channel'[i], HoldsText(d)
      PROVE  (\E j \in DOMAIN queue : d = queue[j]) \/ (\E j \in DOMAIN channel : d =
         channel[j])
  <2>1. CASE UNCHANGED channel
    BY <1>6, <2>1
  <2>2. CASE NextJob
    <3>1. channel' = channel \/ channel' = Append(channel, Head(queue))
      BY <2>2 DEF NextJob
    <3>2. Head(queue) = queue[1] /\ 1 \in DOMAIN queue /\ Head(queue) \in Jobs
      BY <1>1, <2>2, Taken DEF NextJob
    <3> QED
      BY <1>1, <1>6, <3>1, <3>2, Added
  <2>3. ASSUME NEW r \in Requests, SendRequest(r) PROVE \E j \in DOMAIN channel : d = channel[j]
    <3>1. channel' = channel \/ channel' = Append(channel, RequestJob(r))
      BY <2>3 DEF SendRequest
    <3> QED
      BY <1>1, <1>6, <3>1, Added, JobsMade DEF HoldsText
  <2>4. CASE Write
    BY <1>1, <1>6, <2>4, Taken DEF Write
  <2>5. CASE Disconnect
    BY <1>6, <2>5 DEF Disconnect
  <2> QED
    BY <2>1, <2>2, <2>3, <2>4, <2>5 DEF StepKind, Quiet, Posts, Enqueues
<1>7. ASSUME NEW d \in published' PROVE Known(d)'
  <2>1. CASE UNCHANGED published
    BY <1>3, <1>4, <2>1
  <2>2. CASE Write
    <3>1. /\ Head(channel) = channel[1] /\ 1 \in DOMAIN channel /\ Head(channel) \in Jobs
          /\ Receive(Head(channel))
      BY <2>2, FirstFrame DEF Write
    <3>2. \/ UNCHANGED published
          \/ /\ HoldsText(Head(channel))
             /\ published' = published \union {Report(Head(channel).path, Head(channel))}
      BY <3>1, Received
    <3>3. CASE d \in published
      BY <1>3, <1>4, <3>3
    <3>4. ASSUME NEW job, job = Head(channel), HoldsText(job), d = Report(job.path, job)
          PROVE  Known(d)'
      <4>1. Known(job)'
        BY <1>2, <1>4, <3>1, <3>4
      <4> QED
        BY <3>4, <4>1 DEF Known, Report
    <3> QED
      BY <3>2, <3>3, <3>4
  <2>3. CASE Disconnect \/ NextJob \/ \E r \in Requests : SendRequest(r)
    BY <1>3, <1>4, <2>3 DEF Disconnect, NextJob, SendRequest, peer
  <2> QED
    BY <2>1, <2>2, <2>3 DEF StepKind, Quiet, Posts, Enqueues
<1>8. ASSUME NEW i \in DOMAIN queue', NEW d, d = queue'[i], HoldsText(d) PROVE Known(d)'
  BY <1>2, <1>4, <1>5, <1>8
<1>9. ASSUME NEW i \in DOMAIN channel', NEW d, d = channel'[i], HoldsText(d) PROVE Known(d)'
  BY <1>2, <1>4, <1>6, <1>9
<1>10. \A i \in DOMAIN queue' : HoldsText(queue[i])' => Known(queue[i])'
  BY <1>8 DEF Known, HoldsText
<1>11. \A i \in DOMAIN channel' : HoldsText(channel[i])' => Known(channel[i])'
  BY <1>9 DEF Known, HoldsText
<1> QED
  BY <1>7, <1>10, <1>11 DEF Traffic

-----------------------------------------------------------------------------
(* What neither changes a document's record nor shows the document         *)
(* anything new leaves it mirrored.                                        *)
LEMMA MirrorSame ==
  ASSUME SyncTyped, NEW p \in Paths, Mirrored(p), Same(queue, queue', p),
         UNCHANGED <<channel, server>>, docs'[p] = docs[p]
  PROVE  Mirrored(p)'
<1>1. ASSUME NEW i \in DOMAIN queue', IsLast(queue', i, p)
      PROVE  i \in DOMAIN queue /\ queue'[i] = queue[i] /\ IsLast(queue, i, p)
  BY <1>1 DEF Same, IsLast
<1>2. None(queue', p) => None(queue, p)
  BY DEF Same, None
<1> QED
  BY <1>1, <1>2 DEF Mirrored

(* A record that has just been queued is mirrored by its job.              *)
LEMMA MirrorNew ==
  ASSUME SyncTyped, NEW p \in Paths, NEW job \in Jobs, Posts(p, job), link = "up", docs'[p].open
  PROVE  Mirrored(p)'
<1>1. PICK n \in Nat : PlacedAt(job, n)
  BY DEF Posts, Queues
<1>2. /\ IsDoc(job, p) /\ n \in DOMAIN queue' /\ queue'[n] = job /\ Says(job, docs'[p])
      /\ \A i \in DOMAIN queue' : n < i => ~IsDoc(queue'[i], p)
      /\ \A i \in DOMAIN queue' : i < n \/ n < i \/ i = n
  BY <1>1, Placed DEF Posts
<1>3. \A i \in DOMAIN queue' : IsLast(queue', i, p) => i = n
  BY <1>2 DEF IsLast
<1>4. ~None(queue', p)
  BY <1>2 DEF None
<1> QED
  BY <1>2, <1>3, <1>4 DEF Mirrored

(* No notification is before the writer when the worker takes a job.       *)
LEMMA Taking ==
  ASSUME SyncTyped, Waits, NextJob
  PROVE  /\ link = "up" /\ queue' = Tail(queue) /\ Head(queue) = queue[1] /\ queue[1] \in Jobs
         /\ 1 \in DOMAIN queue
         /\ \A i \in DOMAIN queue' : i \in Nat /\ i # 0 /\ i + 1 \in DOMAIN queue /\ queue'[i] =
               queue[i + 1]
         /\ \A i \in DOMAIN queue : i \in Nat /\ (i = 1 \/ i - 1 \in DOMAIN queue')
         /\ \A p \in Paths : None(channel, p)
         /\ \A p \in Paths, i \in DOMAIN channel' : IsDoc(channel'[i], p) => channel'[i] =
               queue[1]
         /\ \A p \in Paths : ~None(channel', p) <=> IsDoc(queue[1], p)
         /\ UNCHANGED <<phase, link, docs, server, published, stamp, answer>>
<1>1. queue \in Seq(Jobs) /\ queue # <<>> /\ channel \in Seq(Jobs)
  BY DEF NextJob, SyncTyped, WireTyped
<1>2. /\ link = "up" /\ queue' = Tail(queue) /\ Head(queue) = queue[1] /\ queue[1] \in Jobs
      /\ 1 \in DOMAIN queue
      /\ \A i \in DOMAIN queue' : i \in Nat /\ i # 0 /\ i + 1 \in DOMAIN queue /\ queue'[i] =
            queue[i + 1]
      /\ \A i \in DOMAIN queue : i \in Nat /\ (i = 1 \/ i - 1 \in DOMAIN queue')
      /\ UNCHANGED <<phase, link, docs, server, published, stamp, answer>>
  BY <1>1, Taken DEF NextJob, Waits, calls, peer
<1>3. \A i \in DOMAIN channel : ~Notifies(channel[i])
  BY DEF NextJob, Waits
<1>4. \A p \in Paths : None(channel, p)
  BY <1>3 DEF None, IsDoc, DocKinds, Notifies
<1>5. CASE channel' = channel /\ queue[1].kind = "request"
  BY <1>2, <1>4, <1>5 DEF None, IsDoc, DocKinds
<1>6. CASE channel' = Append(channel, queue[1])
  <2>1. /\ Len(channel) + 1 \in DOMAIN channel' /\ channel'[Len(channel) + 1] = queue[1]
        /\ \A i \in DOMAIN channel' :
             i = Len(channel) + 1 \/ (i \in DOMAIN channel /\ channel'[i] = channel[i])
    BY <1>1, <1>2, <1>6, Added
  <2> QED
    BY <1>2, <1>4, <2>1 DEF None
<1> QED
  BY <1>2, <1>5, <1>6 DEF NextJob

(* What a written frame does to the server and the channel.                *)
LEMMA Writing ==
  ASSUME SyncTyped, Waits, Write
  PROVE  /\ link = "up" /\ channel[1] \in Jobs /\ 1 \in DOMAIN channel
         /\ Receive(channel[1])
         /\ \A i \in DOMAIN channel' : i \in Nat /\ i # 0 /\ i + 1 \in DOMAIN channel /\
               channel'[i] = channel[i + 1]
         /\ \A i \in DOMAIN channel : i \in Nat /\ (i = 1 \/ i - 1 \in DOMAIN channel')
         /\ \A p \in Paths : IsDoc(channel[1], p) => None(channel', p)
         /\ \A p \in Paths : ~IsDoc(channel[1], p) => server'[p] = server[p]
         /\ \A p \in Paths : IsDoc(channel[1], p) /\ HoldsText(channel[1]) => server'[p] =
               Copy(channel[1])
         /\ UNCHANGED <<phase, link, docs, queue, stamp>>
<1>1. channel \in Seq(Jobs) /\ channel # <<>> /\ channel' = Tail(channel)
  BY DEF Write, SyncTyped, WireTyped
<1>2. /\ link = "up" /\ channel[1] \in Jobs /\ 1 \in DOMAIN channel
      /\ Receive(channel[1])
      /\ \A i \in DOMAIN channel' : i \in Nat /\ i # 0 /\ i + 1 \in DOMAIN channel /\
            channel'[i] = channel[i + 1]
      /\ \A i \in DOMAIN channel : i \in Nat /\ (i = 1 \/ i - 1 \in DOMAIN channel')
      /\ UNCHANGED <<phase, link, docs, queue, stamp>>
  BY <1>1, Taken DEF Write, calls, wire
<1>3. ASSUME NEW p \in Paths, IsDoc(channel[1], p) PROVE None(channel', p)
  <2>1. Notifies(channel[1])
    BY <1>3 DEF IsDoc, DocKinds, Notifies
  <2>2. \A i \in DOMAIN channel' : ~Notifies(channel'[i])
    BY <1>2, <2>1 DEF Waits
  <2> QED
    BY <2>2 DEF None, IsDoc, DocKinds, Notifies
<1>4. server \in [Paths -> Copies]
  BY DEF SyncTyped, PeerTyped
<1>5. ASSUME NEW p \in Paths, ~IsDoc(channel[1], p) PROVE server'[p] = server[p]
  BY <1>2, <1>4, <1>5, Received DEF IsDoc, DocKinds, HoldsText
<1>6. ASSUME NEW p \in Paths, IsDoc(channel[1], p), HoldsText(channel[1])
      PROVE  server'[p] = Copy(channel[1])
  BY <1>2, <1>4, <1>6, Received DEF IsDoc, DocKinds, HoldsText
<1> QED
  BY <1>2, <1>3, <1>5, <1>6

(* A frame that a task sends is about no document.                         *)
LEMMA Sending ==
  ASSUME SyncTyped, NEW r \in Requests, SendRequest(r)
  PROVE  /\ op[r] = "current"
         /\ \A i \in DOMAIN channel : i \in DOMAIN channel' /\ channel'[i] = channel[i]
         /\ \/ channel' = channel /\ op' = [op EXCEPT ![r] = "noted"]
            \/ /\ op' = [op EXCEPT ![r] = "sent"] /\ Len(channel) + 1 \in DOMAIN channel'
               /\ channel'[Len(channel) + 1] = RequestJob(r)
               /\ \A i \in DOMAIN channel : i # Len(channel) + 1
         /\ \A i \in DOMAIN channel' :
              \/ i \in DOMAIN channel /\ channel'[i] = channel[i]
              \/ i = Len(channel) + 1 /\ channel'[i] = RequestJob(r)
         /\ \A i \in DOMAIN channel' : \A p \in Paths :
              IsDoc(channel'[i], p) => i \in DOMAIN channel /\ channel'[i] = channel[i]
         /\ UNCHANGED <<phase, link, docs, queue, server, published, stamp, answer>>
<1>1. channel \in Seq(Jobs) /\ RequestJob(r) \in Jobs
  BY JobsMade DEF SyncTyped, WireTyped
<1>2. \A p \in Paths : ~IsDoc(RequestJob(r), p)
  BY JobsMade DEF IsDoc, DocKinds
<1>3. /\ op[r] = "current"
      /\ UNCHANGED <<phase, link, docs, queue, server, published, stamp, answer>>
      /\ \/ channel' = channel /\ op' = [op EXCEPT ![r] = "noted"]
         \/ channel' = Append(channel, RequestJob(r)) /\ op' = [op EXCEPT ![r] = "sent"]
  BY DEF SendRequest, calls, wire, peer
<1>4. CASE channel' = channel /\ op' = [op EXCEPT ![r] = "noted"]
  BY <1>3, <1>4
<1>5. CASE channel' = Append(channel, RequestJob(r)) /\ op' = [op EXCEPT ![r] = "sent"]
  <2>1. /\ Len(channel) + 1 \in DOMAIN channel' /\ channel'[Len(channel) + 1] = RequestJob(r)
        /\ \A i \in DOMAIN channel : i < Len(channel) + 1 /\ i \in DOMAIN channel' /\
              channel'[i] = channel[i]
        /\ \A i \in DOMAIN channel' : i = Len(channel) + 1 \/ i \in DOMAIN channel
    BY <1>1, <1>5, Added
  <2>2. Len(channel) \in Nat /\ \A i \in DOMAIN channel : i # Len(channel) + 1
    BY <1>1
  <2> QED
    BY <1>2, <1>3, <1>5, <2>1, <2>2
<1> QED
  BY <1>3, <1>4, <1>5

(* Every step keeps the documents mirrored.                                *)
LEMMA MirrorStep ==
  ASSUME SyncTyped, Waits, StepKind, NEW p \in Paths, Sent(p) => Mirrored(p), Sent(p)'
  PROVE  Mirrored(p)'
<1>1. CASE Quiet
  <2>1. Sent(p) /\ docs'[p] = docs[p] /\ link = "up" /\ UNCHANGED <<channel, server>>
    BY <1>1 DEF Quiet, Sent
  <2>2. ~IsDoc(RenameJob, p) /\ RenameJob \in Jobs
    BY JobsMade DEF IsDoc, DocKinds
  <2>3. Same(queue, queue', p)
    <3>1. CASE UNCHANGED queue
      BY <3>1 DEF Same
    <3>2. CASE Queues(RenameJob)
      BY <2>1, <2>2, <3>2, Placed DEF Queues
    <3> QED
      BY <1>1, <3>1, <3>2 DEF Quiet
  <2> QED
    BY <2>1, <2>3, MirrorSame
<1>2. ASSUME NEW q \in Paths, NEW job \in Jobs, Posts(q, job) PROVE Mirrored(p)'
  <2>1. CASE q = p
    BY <1>2, <2>1, MirrorNew DEF Sent, Posts
  <2>2. CASE q # p
    <3>1. Sent(p) /\ docs'[p] = docs[p] /\ link = "up" /\ UNCHANGED <<channel, server>>
      BY <1>2, <2>2 DEF Sent, Posts
    <3>2. ~IsDoc(job, p)
      BY <1>2, <2>2 DEF Posts, IsDoc
    <3>3. Same(queue, queue', p)
      BY <1>2, <3>1, <3>2, Placed DEF Queues, Posts
    <3> QED
      BY <3>1, <3>3, MirrorSame
  <2> QED
    BY <2>1, <2>2
<1>3. ASSUME NEW r \in Requests, Enqueues(r) PROVE Mirrored(p)'
  <2>1. Sent(p) /\ docs'[p] = docs[p] /\ link = "up" /\ UNCHANGED <<channel, server>>
    BY <1>3 DEF Sent, Enqueues
  <2>2. ~IsDoc(RequestJob(r), p) /\ RequestJob(r) \in Jobs
    BY JobsMade DEF IsDoc, DocKinds
  <2>3. Same(queue, queue', p)
    BY <1>3, <2>1, <2>2, Placed DEF Queues, Enqueues
  <2> QED
    BY <2>1, <2>3, MirrorSame
<1>4. CASE NextJob
  <2>1. Mirrored(p)
    BY <1>4, Taking DEF Sent
  <2>2. ASSUME NEW i \in DOMAIN queue', IsLast(queue', i, p) PROVE IsLast(queue, i + 1, p)
    <3>1. IsDoc(queue[i + 1], p) /\ i \in Nat
      BY <1>4, <2>2, Taking DEF IsLast
    <3>2. ASSUME NEW j \in DOMAIN queue, i + 1 < j PROVE ~IsDoc(queue[j], p)
      <4>1. j \in Nat /\ j - 1 \in DOMAIN queue' /\ i < j - 1 /\ queue'[j - 1] = queue[j]
        BY <1>4, <3>1, <3>2, Taking
      <4> QED
        BY <2>2, <4>1 DEF IsLast
    <3> QED
      BY <3>1, <3>2 DEF IsLast
  <2>3. \A i \in DOMAIN queue' : IsLast(queue', i, p) => Says(queue'[i], docs'[p])
    BY <1>4, <2>1, <2>2, Taking DEF Mirrored
  <2>4. ASSUME None(queue', p)
        PROVE  IF IsDoc(queue[1], p) THEN Says(queue[1], docs[p]) ELSE None(queue, p)
    <3>1. \A j \in DOMAIN queue : 1 < j => ~IsDoc(queue[j], p)
      <4>1. \A j \in DOMAIN queue : 1 < j => j - 1 \in DOMAIN queue' /\ queue'[j - 1] = queue[j]
        BY <1>4, Taking
      <4> QED
        BY <2>4, <4>1 DEF None
    <3>2. CASE IsDoc(queue[1], p)
      BY <1>4, <2>1, <3>1, <3>2, Taking DEF IsLast, Mirrored
    <3>3. CASE ~IsDoc(queue[1], p)
      BY <1>4, <3>1, <3>3, Taking DEF None
    <3> QED
      BY <3>2, <3>3
  <2> QED
    BY <1>4, <2>1, <2>3, <2>4, Taking DEF Mirrored, None
<1>5. ASSUME NEW r \in Requests, SendRequest(r) PROVE Mirrored(p)'
  <2>1. Mirrored(p)
    BY <1>5, Sending DEF Sent
  <2>2. None(channel', p) => None(channel, p)
    BY <1>5, Sending DEF None
  <2>3. \A i \in DOMAIN channel' : IsDoc(channel'[i], p) => i \in DOMAIN channel /\ channel'[i]
     = channel[i]
    BY <1>5, Sending
  <2>4. UNCHANGED <<docs, queue, server>>
    BY <1>5, Sending
  <2> QED
    BY <2>1, <2>2, <2>3, <2>4 DEF Mirrored
<1>6. CASE Write
  <2>1. Mirrored(p) /\ UNCHANGED <<docs, queue>>
    BY <1>6, Writing DEF Sent
  <2>2. CASE ~None(queue, p)
    BY <2>1, <2>2 DEF Mirrored
  <2>3. CASE None(queue, p) /\ IsDoc(channel[1], p)
    <3>1. Says(channel[1], docs[p]) /\ None(channel', p)
      BY <1>6, <2>1, <2>3, Writing DEF Mirrored
    <3>2. server'[p] = Copy(channel[1])
      BY <1>6, <2>3, <3>1, Writing DEF Says
    <3>3. server'[p] = [open |-> TRUE, doc |-> docs[p].doc, text |-> docs[p].text,
                        version |-> docs[p].version]
      BY <3>1, <3>2 DEF Says, Copy
    <3> QED
      BY <2>1, <2>3, <3>1, <3>3 DEF Mirrored, None
  <2>4. CASE None(queue, p) /\ ~IsDoc(channel[1], p)
    <3>1. server'[p] = server[p]
      BY <1>6, <2>4, Writing
    <3>2. \A i \in DOMAIN channel' : IsDoc(channel'[i], p) => Says(channel'[i], docs[p])
      BY <1>6, <2>1, <2>4, Writing DEF Mirrored
    <3>3. None(channel', p) => None(channel, p)
      BY <1>6, <2>4, Writing DEF None
    <3> QED
      BY <2>1, <2>4, <3>1, <3>2, <3>3 DEF Mirrored
  <2> QED
    BY <2>2, <2>3, <2>4
<1>7. CASE Disconnect
  BY <1>7 DEF Disconnect, Sent
<1> QED
  BY <1>1, <1>2, <1>3, <1>4, <1>5, <1>6, <1>7 DEF StepKind

-----------------------------------------------------------------------------
(* Every step keeps the requests that are before the writer.               *)
LEMMA AsksStep ==
  ASSUME SyncTyped, Waits, StepKind, link = "up" => \A i \in DOMAIN queue : Barred(i),
         \A i \in DOMAIN channel : Asks(i)
  PROVE  \A i \in DOMAIN channel' : Asks(i)'
<1>1. op \in [Requests -> Places] /\ channel \in Seq(Jobs) /\ queue \in Seq(Jobs)
  BY DEF SyncTyped, PeerTyped, WireTyped
<1>2. \A i \in DOMAIN channel : channel[i] \in Jobs
  BY <1>1
<1>3. ASSUME \A i \in DOMAIN channel' : channel'[i].kind = "request" =>
               i \in DOMAIN channel /\ channel'[i] = channel[i],
             \A r \in Requests : op[r] = "sent" => op'[r] = "sent"
      PROVE  \A i \in DOMAIN channel' : Asks(i)'
  <2>1. \A i \in DOMAIN channel : channel[i].kind = "request" => channel[i].request \in Requests
    BY <1>2, JobKinds DEF DocKinds
  <2> QED
    BY <1>3, <2>1 DEF Asks
<1>4. CASE Quiet
  <2>1. \A r \in Requests : op[r] = "sent" => op'[r] = "sent"
    BY <1>4 DEF Quiet
  <2> QED
    BY <1>3, <1>4, <2>1 DEF Quiet
<1>5. ASSUME NEW p \in Paths, NEW job \in Jobs, Posts(p, job)
      PROVE  \A i \in DOMAIN channel' : Asks(i)'
  <2>1. \A r \in Requests : op[r] = "sent" => op'[r] = "sent"
    BY <1>5 DEF Posts
  <2> QED
    BY <1>3, <1>5, <2>1 DEF Posts
<1>6. ASSUME NEW r \in Requests, Enqueues(r) PROVE \A i \in DOMAIN channel' : Asks(i)'
  <2>1. \A q \in Requests : op[q] = "sent" => op'[q] = "sent"
    BY <1>6 DEF Enqueues
  <2> QED
    BY <1>3, <1>6, <2>1 DEF Enqueues
<1>7. CASE NextJob
  <2>1. Head(queue) = queue[1] /\ 1 \in DOMAIN queue /\ queue[1] \in Jobs /\ link = "up"
    BY <1>7, Taking
  <2>2. CASE queue[1].kind = "request"
    <3>1. queue[1].request \in Requests /\ op[queue[1].request] = "queued"
      BY <2>1, <2>2, JobKinds DEF Barred, DocKinds
    <3>2. /\ channel' = channel
          /\ \E outcome \in {"task", "noted"} : op' = [op EXCEPT ![queue[1].request] = outcome]
      BY <1>7, <2>1, <2>2 DEF NextJob
    <3>3. \A r \in Requests : op[r] = "sent" => op'[r] = "sent"
      BY <1>1, <3>1, <3>2
    <3> QED
      BY <1>3, <3>2, <3>3
  <2>3. CASE queue[1].kind # "request"
    <3>1. op' = op /\ channel' = Append(channel, queue[1])
      BY <1>7, <2>1, <2>3 DEF NextJob
    <3>2. \A i \in DOMAIN channel' : channel'[i].kind = "request" =>
            i \in DOMAIN channel /\ channel'[i] = channel[i]
      BY <1>1, <2>1, <2>3, <3>1, Added
    <3> QED
      BY <1>3, <3>1, <3>2
  <2> QED
    BY <2>2, <2>3
<1>8. ASSUME NEW r \in Requests, SendRequest(r) PROVE \A i \in DOMAIN channel' : Asks(i)'
  <2>1. CASE channel' = channel /\ op' = [op EXCEPT ![r] = "noted"]
    <3>1. \A q \in Requests : op[q] = "sent" => op'[q] = "sent"
      BY <1>1, <1>8, <2>1, Sending
    <3> QED
      BY <1>3, <2>1, <3>1
  <2>2. CASE op' = [op EXCEPT ![r] = "sent"]
    <3>1. op[r] = "current" /\ op'[r] = "sent" /\ \A q \in Requests : op[q] = "sent" => op'[q] =
       "sent"
      BY <1>1, <1>8, <2>2, Sending
    <3>2. \A i \in DOMAIN channel : channel[i].kind = "request" =>
            channel[i].request \in Requests /\ op[channel[i].request] = "sent"
      BY <1>2, JobKinds DEF Asks, DocKinds
    <3>3. \A i \in DOMAIN channel : ~(channel[i].kind = "request" /\ channel[i].request = r)
      BY <3>1, <3>2
    <3>4. RequestJob(r).kind = "request" /\ RequestJob(r).request = r
      BY JobsMade
    <3>5. \A i \in DOMAIN channel' :
            \/ i \in DOMAIN channel /\ channel'[i] = channel[i]
            \/ i = Len(channel) + 1 /\ channel'[i] = RequestJob(r)
      BY <1>8, Sending
    <3> QED
      BY <3>1, <3>2, <3>3, <3>4, <3>5 DEF Asks
  <2> QED
    BY <1>8, <2>1, <2>2, Sending
<1>9. CASE Write
  <2>1. /\ channel[1] \in Jobs /\ 1 \in DOMAIN channel /\ Receive(channel[1])
        /\ \A i \in DOMAIN channel' : i \in Nat /\ i # 0 /\ i + 1 \in DOMAIN channel /\
              channel'[i] = channel[i + 1]
    BY <1>9, Writing
  <2>2. \/ op' = op
        \/ channel[1].kind = "request" /\ op' = [op EXCEPT ![channel[1].request] = "asked"]
    BY <2>1, Received
  <2>3. ASSUME NEW i \in DOMAIN channel', channel'[i].kind = "request"
        PROVE  /\ op'[channel'[i].request] = "sent"
               /\ \A j \in DOMAIN channel' :
                    channel'[j].kind = "request" /\ channel'[j].request = channel'[i].request =>
                       i = j
    <3>1. i + 1 \in DOMAIN channel /\ channel'[i] = channel[i + 1] /\ i \in Nat /\ i + 1 # 1
      BY <2>1
    <3>2. /\ op[channel'[i].request] = "sent"
          /\ \A j \in DOMAIN channel :
               channel[j].kind = "request" /\ channel[j].request = channel'[i].request => i + 1
                  = j
      BY <2>3, <3>1 DEF Asks
    <3>3. channel[1].kind = "request" => channel[1].request # channel'[i].request
      BY <2>1, <3>1, <3>2
    <3>4. channel'[i].request \in Requests
      BY <1>2, <2>3, <3>1, JobKinds DEF DocKinds
    <3>5. op'[channel'[i].request] = "sent"
      BY <1>1, <2>2, <3>2, <3>3, <3>4
    <3>6. ASSUME NEW j \in DOMAIN channel', channel'[j].kind = "request",
                 channel'[j].request = channel'[i].request
          PROVE  i = j
      BY <2>1, <3>1, <3>2, <3>6
    <3> QED
      BY <3>5, <3>6
  <2> QED
    BY <2>3 DEF Asks
<1>10. CASE Disconnect
  BY <1>10 DEF Disconnect, Asks
<1> QED
  BY <1>4, <1>5, <1>6, <1>7, <1>8, <1>9, <1>10 DEF StepKind

-----------------------------------------------------------------------------
(* What is ahead of a place depends on the queue before it, the channel    *)
(* and the server.                                                         *)
LEMMA AheadKept ==
  ASSUME NEW i \in Nat, NEW p, NEW t, Ahead(i, p, t), UNCHANGED <<channel, server>>,
         DOMAIN queue \subseteq Nat, DOMAIN queue' \subseteq Nat,
         \A j \in DOMAIN queue : j < i => j \in DOMAIN queue' /\ queue'[j] = queue[j],
         \A j \in DOMAIN queue' : j < i => j \in DOMAIN queue
  PROVE  Ahead(i, p, t)'
<1>1. ASSUME NEW j \in DOMAIN queue', j < i, IsDoc(queue'[j], p),
             \A k \in DOMAIN queue' : j < k /\ k < i => ~IsDoc(queue'[k], p)
      PROVE  HoldsText(queue'[j]) /\ queue'[j].text = t
  BY <1>1 DEF Ahead
<1>2. (\A j \in DOMAIN queue' : j < i => ~IsDoc(queue'[j], p))
        => \A j \in DOMAIN queue : j < i => ~IsDoc(queue[j], p)
  OBVIOUS
<1> QED
  BY <1>1, <1>2 DEF Ahead, None

(* A request stays where it is when another job is placed.                 *)
LEMMA BarredOld ==
  ASSUME SyncTyped, NEW job \in Jobs, NEW n \in Nat, PlacedAt(job, n),
         UNCHANGED <<channel, server>>, NEW i \in DOMAIN queue', queue'[i].kind = "request",
         i # n, i \in DOMAIN queue => Barred(i), NEW r, r = queue'[i].request,
         job.kind = "request" => job.request # r,
         op[r] = "queued" => /\ op'[r] = "queued" /\ stamp'[r] = stamp[r]
                             /\ Owns(r)' => Owns(r) /\ ~IsDoc(job, About[r])
  PROVE  Barred(i)'
<1>1. /\ DOMAIN queue \subseteq Nat /\ i \in DOMAIN queue /\ queue'[i] = queue[i] /\ i < n
      /\ DOMAIN queue' \subseteq Nat
  BY DEF PlacedAt, SyncTyped, WireTyped
<1>2. /\ op[r] = "queued"
      /\ \A j \in DOMAIN queue : queue[j].kind = "request" /\ queue[j].request = r => i = j
      /\ Ahead(i, About[r], stamp[r].text)
      /\ Owns(r) => \A j \in DOMAIN queue : i < j => ~IsDoc(queue[j], About[r])
  BY <1>1 DEF Barred
<1>3. \A j \in DOMAIN queue' : queue'[j].kind = "request" /\ queue'[j].request = r => i = j
  BY <1>1, <1>2 DEF PlacedAt
<1>4. ASSUME NEW t, t = stamp[r].text PROVE Ahead(i, About[r], t)'
  <2>1. Ahead(i, About[r], t)
    BY <1>2, <1>4
  <2>2. /\ \A j \in DOMAIN queue : j < i => j \in DOMAIN queue' /\ queue'[j] = queue[j]
        /\ \A j \in DOMAIN queue' : j < i => j \in DOMAIN queue
    BY <1>1 DEF PlacedAt
  <2> QED
    BY <1>1, <2>1, <2>2, AheadKept
<1>5. Owns(r)' => \A j \in DOMAIN queue' : i < j => ~IsDoc(queue'[j], About[r])
  BY <1>1, <1>2 DEF PlacedAt
<1>6. op'[r] = "queued" /\ stamp'[r] = stamp[r]
  BY <1>2
<1>7. \E t : t = stamp[r].text
  OBVIOUS
<1>8. Ahead(i, About[r], stamp[r].text)'
  BY <1>4, <1>6, <1>7 DEF Ahead, None
<1>9. \A s : s = queue'[i].request => s = r
  OBVIOUS
<1> QED
  BY <1>3, <1>5, <1>6, <1>8, <1>9 DEF Barred, Ahead, None, Owns

(* A request that is queued is behind the text that is recorded.           *)
LEMMA BarredNew ==
  ASSUME SyncTyped, NEW r \in Requests, Enqueues(r), NEW n \in Nat, PlacedAt(RequestJob(r), n),
         Mirrored(About[r]), \A i \in DOMAIN queue : Barred(i)
  PROVE  Barred(n)'
<1>1. /\ DOMAIN queue \subseteq Nat /\ About[r] \in Paths /\ RequestJob(r).kind = "request"
      /\ RequestJob(r).request = r /\ RequestJob(r) \in Jobs
      /\ \A i \in DOMAIN queue : queue[i] \in Jobs
  BY SyncAssumption, JobsMade DEF SyncTyped, WireTyped
<1>2. /\ n \notin DOMAIN queue /\ DOMAIN queue' = DOMAIN queue \union {n}
      /\ queue'[n] = RequestJob(r)
      /\ \A i \in DOMAIN queue : i < n /\ queue'[i] = queue[i] /\ i # n
  BY <1>1 DEF PlacedAt
<1>3. /\ UNCHANGED <<channel, server, docs>> /\ op[r] \in {"new", "early"} /\ op'[r] = "queued"
      /\ stamp'[r].text = docs[About[r]].text
  BY DEF Enqueues
<1>4. \A j \in DOMAIN queue : ~(queue[j].kind = "request" /\ queue[j].request = r)
  BY <1>3 DEF Barred
<1>5. \A j \in DOMAIN queue' : queue'[j].kind = "request" /\ queue'[j].request = r => n = j
  BY <1>2, <1>4
<1>6. ASSUME NEW t, t = docs[About[r]].text PROVE Ahead(n, About[r], t)'
  <2>1. ASSUME NEW j \in DOMAIN queue', j < n, IsDoc(queue'[j], About[r]),
               \A k \in DOMAIN queue' : j < k /\ k < n => ~IsDoc(queue'[k], About[r])
        PROVE  HoldsText(queue'[j]) /\ queue'[j].text = t
    <3>1. j \in DOMAIN queue /\ queue'[j] = queue[j]
      BY <1>2, <2>1
    <3>2. IsLast(queue, j, About[r])
      BY <1>2, <2>1, <3>1 DEF IsLast
    <3> QED
      BY <1>6, <3>1, <3>2 DEF Mirrored, Says
  <2>2. (\A j \in DOMAIN queue' : j < n => ~IsDoc(queue'[j], About[r])) => None(queue, About[r])
    BY <1>2 DEF None
  <2>3. None(queue, About[r]) =>
          /\ \A i \in DOMAIN channel : IsDoc(channel[i], About[r]) => Says(channel[i],
                docs[About[r]])
          /\ None(channel, About[r]) => server[About[r]].text = t
    BY <1>6 DEF Mirrored
  <2> QED
    BY <1>3, <1>6, <2>1, <2>2, <2>3 DEF Ahead, None, Says
<1>7. \E t : t = docs[About[r]].text
  OBVIOUS
<1>8. Ahead(n, About[r], stamp[r].text)'
  BY <1>3, <1>6, <1>7 DEF Ahead, None
<1>9. \A j \in DOMAIN queue' : ~(n < j)
  BY <1>1, <1>2
<1>10. \A s : s = queue'[n].request => s = r
  BY <1>1, <1>2
<1> QED
  BY <1>3, <1>5, <1>8, <1>9, <1>10 DEF Barred, Ahead, None

(* Every step keeps the requests between the changes.                      *)
LEMMA BarredStep ==
  ASSUME SyncTyped, Waits, StepKind, \A p \in Paths : Sent(p) => Mirrored(p),
         link = "up" => \A i \in DOMAIN queue : Barred(i), \A i \in DOMAIN channel : Asks(i),
         link' = "up"
  PROVE  \A i \in DOMAIN queue' : Barred(i)'
<1>1. /\ op \in [Requests -> Places] /\ channel \in Seq(Jobs) /\ queue \in Seq(Jobs)
      /\ About \in [Requests -> Paths]
  BY SyncAssumption DEF SyncTyped, PeerTyped, WireTyped
<1>2. DOMAIN queue \subseteq Nat /\ \A i \in DOMAIN queue : queue[i] \in Jobs
  BY <1>1
<1>3. \A i \in DOMAIN queue : queue[i].kind = "request" => queue[i].request \in Requests
  BY <1>2, JobKinds DEF DocKinds
<1>4. ASSUME UNCHANGED <<queue, stamp>>, link = "up",
             \A r \in Requests : op[r] = "queued" => op'[r] = "queued" /\ (Owns(r)' => Owns(r)),
             NEW i \in DOMAIN queue, queue[i].kind = "request",
             NEW r \in Requests, r = queue[i].request, NEW t, t = stamp[r].text,
             Ahead(i, About[r], t) => Ahead(i, About[r], t)'
      PROVE  Barred(i)'
  <2>1. /\ op[r] = "queued"
        /\ \A j \in DOMAIN queue : queue[j].kind = "request" /\ queue[j].request = r => i = j
        /\ Ahead(i, About[r], t)
        /\ Owns(r) => \A j \in DOMAIN queue : i < j => ~IsDoc(queue[j], About[r])
    BY <1>4 DEF Barred
  <2>2. Ahead(i, About[r], stamp[r].text)'
    BY <1>4, <2>1 DEF Ahead, None
  <2>3. \A s : s = queue'[i].request => s = r
    BY <1>4
  <2>4. op'[r] = "queued" /\ (Owns(r)' => \A j \in DOMAIN queue : i < j => ~IsDoc(queue[j],
     About[r]))
    BY <1>4, <2>1
  <2> QED
    BY <1>4, <2>1, <2>2, <2>3, <2>4 DEF Barred, Ahead, None, Owns
<1>5. CASE Quiet
  <2>1. link = "up" /\ UNCHANGED <<channel, server>>
    BY <1>5 DEF Quiet
  <2>2. \A r \in Requests : op[r] = "queued" =>
          op'[r] = "queued" /\ stamp'[r] = stamp[r] /\ (Owns(r)' => Owns(r))
    BY <1>5 DEF Quiet
  <2>3. CASE UNCHANGED queue
    <3>1. SUFFICES ASSUME NEW i \in DOMAIN queue, queue[i].kind = "request" PROVE Barred(i)'
      BY <2>3 DEF Barred
    <3>2. PICK r \in Requests : r = queue[i].request
      BY <1>3, <3>1
    <3>3. PICK t : t = stamp[r].text
      OBVIOUS
    <3>4. /\ op[r] = "queued"
          /\ \A j \in DOMAIN queue : queue[j].kind = "request" /\ queue[j].request = r => i = j
          /\ Ahead(i, About[r], t)
          /\ Owns(r) => \A j \in DOMAIN queue : i < j => ~IsDoc(queue[j], About[r])
      BY <2>1, <3>1, <3>2, <3>3 DEF Barred
    <3>5. Ahead(i, About[r], t)'
      BY <1>2, <2>1, <2>3, <3>4, AheadKept
    <3>6. op'[r] = "queued" /\ stamp'[r] = stamp[r] /\ (Owns(r)' => Owns(r))
      BY <2>2, <3>4
    <3>7. Ahead(i, About[r], stamp[r].text)'
      BY <3>3, <3>5, <3>6 DEF Ahead, None
    <3>8. \A s : s = queue'[i].request => s = r
      BY <2>3, <3>2
    <3>9. Owns(r)' => \A j \in DOMAIN queue : i < j => ~IsDoc(queue[j], About[r])
      BY <3>4, <3>6
    <3> QED
      BY <2>3, <3>4, <3>6, <3>7, <3>8, <3>9 DEF Barred, Ahead, None, Owns
  <2>4. ASSUME NEW n \in Nat, PlacedAt(RenameJob, n) PROVE \A i \in DOMAIN queue' : Barred(i)'
    <3>1. RenameJob \in Jobs /\ RenameJob.kind = "rename"
      BY JobsMade
    <3>2. SUFFICES ASSUME NEW i \in DOMAIN queue', queue'[i].kind = "request" PROVE Barred(i)'
      BY DEF Barred
    <3>3. i # n /\ i \in DOMAIN queue /\ queue'[i] = queue[i]
      BY <2>4, <3>1, <3>2 DEF PlacedAt
    <3>4. PICK r \in Requests : r = queue'[i].request
      BY <1>3, <3>2, <3>3
    <3>5. \A p : ~IsDoc(RenameJob, p)
      BY <3>1 DEF IsDoc, DocKinds
    <3> QED
      BY <2>1, <2>2, <2>4, <3>1, <3>2, <3>3, <3>4, <3>5, BarredOld
  <2> QED
    BY <1>5, <2>1, <2>3, <2>4 DEF Quiet, Queues
<1>6. ASSUME NEW p \in Paths, NEW job \in Jobs, Posts(p, job)
      PROVE  \A i \in DOMAIN queue' : Barred(i)'
  <2>1. link = "up" /\ UNCHANGED <<channel, server, stamp>> /\ IsDoc(job, p)
    BY <1>6 DEF Posts
  <2>2. PICK n \in Nat : PlacedAt(job, n)
    BY <1>6, <2>1 DEF Posts, Queues
  <2>3. SUFFICES ASSUME NEW i \in DOMAIN queue', queue'[i].kind = "request" PROVE Barred(i)'
    BY DEF Barred
  <2>4. job.kind # "request"
    BY <2>1 DEF IsDoc, DocKinds
  <2>5. i # n /\ i \in DOMAIN queue /\ queue'[i] = queue[i]
    BY <2>2, <2>3, <2>4 DEF PlacedAt
  <2>6. PICK r \in Requests : r = queue'[i].request
    BY <1>3, <2>3, <2>5
  <2>7. op[r] = "queued" => op'[r] = "queued"
    BY <1>6 DEF Posts
  <2>8. op[r] = "queued" /\ Owns(r)' => Owns(r) /\ ~IsDoc(job, About[r])
    <3>1. CASE About[r] = p
      BY <1>6, <3>1 DEF Posts, Waiting
    <3>2. CASE About[r] # p
      <4>1. docs'[About[r]] = docs[About[r]]
        BY <1>1, <1>6, <3>2 DEF Posts
      <4> QED
        BY <2>1, <3>2, <4>1 DEF Owns, IsDoc
    <3> QED
      BY <3>1, <3>2
  <2> QED
    BY <2>1, <2>2, <2>3, <2>4, <2>5, <2>6, <2>7, <2>8, BarredOld
<1>7. ASSUME NEW q \in Requests, Enqueues(q) PROVE \A i \in DOMAIN queue' : Barred(i)'
  <2>1. link = "up" /\ UNCHANGED <<channel, server, docs>> /\ Sent(About[q]) /\ op[q] # "queued"
    BY <1>7 DEF Enqueues
  <2>2. PICK n \in Nat : PlacedAt(RequestJob(q), n)
    BY <1>7, <2>1 DEF Enqueues, Queues
  <2>3. SUFFICES ASSUME NEW i \in DOMAIN queue', queue'[i].kind = "request" PROVE Barred(i)'
    BY DEF Barred
  <2>4. RequestJob(q) \in Jobs /\ RequestJob(q).kind = "request" /\ RequestJob(q).request = q
    BY JobsMade
  <2>5. CASE i = n
    BY <1>1, <1>7, <2>1, <2>2, <2>5, BarredNew
  <2>6. CASE i # n
    <3>1. i \in DOMAIN queue /\ queue'[i] = queue[i]
      BY <2>2, <2>6 DEF PlacedAt
    <3>2. PICK r \in Requests : r = queue'[i].request
      BY <1>3, <2>3, <3>1
    <3>3. op[r] = "queued"
      BY <2>1, <2>3, <3>1, <3>2 DEF Barred
    <3>4. r # q /\ op'[r] = op[r] /\ stamp'[r] = stamp[r]
      BY <1>7, <2>1, <3>3 DEF Enqueues
    <3>5. Owns(r)' => Owns(r)
      BY <2>1, <3>4 DEF Owns
    <3>6. \A p : ~IsDoc(RequestJob(q), p)
      BY <2>4 DEF IsDoc, DocKinds
    <3> QED
      BY <2>1, <2>2, <2>3, <2>4, <2>6, <3>1, <3>2, <3>3, <3>4, <3>5, <3>6, BarredOld
  <2> QED
    BY <2>5, <2>6
<1>8. CASE NextJob
  <2>1. /\ link = "up" /\ Head(queue) = queue[1] /\ queue[1] \in Jobs /\ 1 \in DOMAIN queue
        /\ \A i \in DOMAIN queue' : i \in Nat /\ i # 0 /\ i + 1 \in DOMAIN queue /\ queue'[i] =
              queue[i + 1]
        /\ \A i \in DOMAIN queue : i \in Nat /\ (i = 1 \/ i - 1 \in DOMAIN queue')
        /\ UNCHANGED <<docs, server, stamp>>
    BY <1>8, Taking
  <2>2. \A p \in Paths :
          /\ None(channel, p) /\ (~None(channel', p) <=> IsDoc(queue[1], p))
          /\ \A i \in DOMAIN channel' : IsDoc(channel'[i], p) => channel'[i] = queue[1]
    BY <1>8, Taking
  <2>3. SUFFICES ASSUME NEW i \in DOMAIN queue', queue'[i].kind = "request" PROVE Barred(i)'
    BY DEF Barred
  <2>4. i \in Nat /\ i + 1 \in DOMAIN queue /\ i # 0 /\ queue'[i] = queue[i + 1] /\ i + 1 # 1
    BY <2>1
  <2>5. PICK r \in Requests : r = queue'[i].request
    BY <1>3, <2>3, <2>4
  <2>6. PICK t : t = stamp[r].text
    OBVIOUS
  <2>7. Barred(i + 1)
    BY <2>1, <2>4
  <2>8. /\ op[r] = "queued"
        /\ \A j \in DOMAIN queue : queue[j].kind = "request" /\ queue[j].request = r => i + 1 =
              j
        /\ Ahead(i + 1, About[r], t)
        /\ Owns(r) => \A j \in DOMAIN queue : i + 1 < j => ~IsDoc(queue[j], About[r])
    BY <2>3, <2>4, <2>5, <2>6, <2>7 DEF Barred
  <2>9. ~(queue[1].kind = "request" /\ queue[1].request = r)
    BY <2>1, <2>4, <2>8
  <2>10. op'[r] = "queued"
    BY <1>1, <1>8, <2>1, <2>8, <2>9 DEF NextJob
  <2>11. \A j \in DOMAIN queue' : queue'[j].kind = "request" /\ queue'[j].request = r => i = j
    <3> SUFFICES ASSUME NEW j \in DOMAIN queue', queue'[j].kind = "request", queue'[j].request =
       r
                 PROVE  i = j
      OBVIOUS
    <3>1. j \in Nat /\ j + 1 \in DOMAIN queue /\ queue'[j] = queue[j + 1]
      BY <2>1
    <3>2. i + 1 = j + 1
      BY <2>8, <3>1
    <3> QED
      BY <2>4, <3>1, <3>2
  <2>12. Owns(r)' => \A j \in DOMAIN queue' : i < j => ~IsDoc(queue'[j], About[r])
    <3>1. Owns(r)' => Owns(r)
      BY <2>1 DEF Owns
    <3>2. \A j \in DOMAIN queue' : i < j => j + 1 \in DOMAIN queue /\ queue'[j] = queue[j + 1]
       /\ i + 1 < j + 1
      BY <2>1, <2>4
    <3> QED
      BY <2>8, <3>1, <3>2
  <2>13. Ahead(i, About[r], t)'
    <3>1. ASSUME NEW j \in DOMAIN queue', j < i, IsDoc(queue'[j], About[r]),
                 \A k \in DOMAIN queue' : j < k /\ k < i => ~IsDoc(queue'[k], About[r])
          PROVE  HoldsText(queue'[j]) /\ queue'[j].text = t
      <4>1. j \in Nat /\ j + 1 \in DOMAIN queue /\ queue'[j] = queue[j + 1] /\ j + 1 < i + 1
        BY <2>1, <2>4, <3>1
      <4>2. ASSUME NEW k \in DOMAIN queue, j + 1 < k, k < i + 1 PROVE ~IsDoc(queue[k], About[r])
        <5>1. k \in Nat /\ k - 1 \in DOMAIN queue' /\ k # 1 /\ j < k - 1 /\ k - 1 < i
          BY <2>1, <2>4, <4>1, <4>2
        <5>2. queue'[k - 1] = queue[k]
          BY <2>1, <5>1
        <5> QED
          BY <3>1, <5>1, <5>2
      <4> QED
        BY <2>8, <3>1, <4>1, <4>2 DEF Ahead
    <3>2. ASSUME \A j \in DOMAIN queue' : j < i => ~IsDoc(queue'[j], About[r])
          PROVE  \A k \in DOMAIN queue : 1 < k /\ k < i + 1 => ~IsDoc(queue[k], About[r])
      <4> SUFFICES ASSUME NEW k \in DOMAIN queue, 1 < k, k < i + 1 PROVE ~IsDoc(queue[k],
         About[r])
        OBVIOUS
      <4>1. k \in Nat /\ k - 1 \in DOMAIN queue' /\ k - 1 < i
        BY <2>1, <2>4
      <4>2. queue'[k - 1] = queue[k]
        BY <2>1, <4>1
      <4> QED
        BY <3>2, <4>1, <4>2
    <3>3. ASSUME \A j \in DOMAIN queue' : j < i => ~IsDoc(queue'[j], About[r]),
                 IsDoc(queue[1], About[r])
          PROVE  HoldsText(queue[1]) /\ queue[1].text = t
      <4>1. 1 < i + 1
        BY <2>4
      <4> QED
        BY <2>1, <2>8, <3>2, <3>3, <4>1 DEF Ahead
    <3>4. ASSUME \A j \in DOMAIN queue' : j < i => ~IsDoc(queue'[j], About[r]),
                 ~IsDoc(queue[1], About[r])
          PROVE  server[About[r]].text = t
      <4>1. \A k \in DOMAIN queue : k < i + 1 => ~IsDoc(queue[k], About[r])
        <5>1. \A k \in DOMAIN queue : k \in Nat /\ (k = 1 \/ 1 < k)
          BY <1>1
        <5> QED
          BY <3>2, <3>4, <5>1
      <4> QED
        BY <1>1, <2>2, <2>8, <4>1 DEF Ahead
    <3>5. About[r] \in Paths
      BY <1>1
    <3> QED
      BY <2>1, <2>2, <3>1, <3>3, <3>4, <3>5 DEF Ahead
  <2>14. Ahead(i, About[r], stamp[r].text)'
    BY <2>1, <2>6, <2>13 DEF Ahead, None
  <2>15. \A s : s = queue'[i].request => s = r
    BY <2>5
  <2> QED
    BY <2>10, <2>11, <2>12, <2>14, <2>15 DEF Barred, Ahead, None, Owns
<1>9. ASSUME NEW q \in Requests, SendRequest(q) PROVE \A i \in DOMAIN queue' : Barred(i)'
  <2>1. UNCHANGED <<docs, queue, stamp, server>> /\ link = "up" /\ op[q] = "current"
    BY <1>9, Sending
  <2>2. \A r \in Requests : op[r] = "queued" => op'[r] = "queued" /\ (Owns(r)' => Owns(r))
    <3>1. \A r \in Requests : op[r] = "queued" => op'[r] = "queued"
      BY <1>1, <1>9, <2>1, Sending
    <3>2. \A r \in Requests : Owns(r)' => Owns(r)
      BY <2>1 DEF Owns
    <3> QED
      BY <3>1, <3>2
  <2>3. ASSUME NEW i \in DOMAIN queue, NEW p \in Paths, NEW t, Ahead(i, p, t) PROVE Ahead(i, p,
     t)'
    <3>1. None(channel', p) => None(channel, p)
      BY <1>9, Sending DEF None
    <3>2. \A j \in DOMAIN channel' : IsDoc(channel'[j], p) => j \in DOMAIN channel /\
       channel'[j] = channel[j]
      BY <1>9, Sending
    <3> QED
      BY <2>1, <2>3, <3>1, <3>2 DEF Ahead
  <2>4. SUFFICES ASSUME NEW i \in DOMAIN queue, queue[i].kind = "request" PROVE Barred(i)'
    BY <2>1 DEF Barred
  <2>5. PICK r \in Requests : r = queue[i].request
    BY <1>3, <2>4
  <2>6. \E t : t = stamp[r].text
    OBVIOUS
  <2>7. About[r] \in Paths
    BY <1>1
  <2> QED
    BY <1>4, <2>1, <2>2, <2>3, <2>4, <2>5, <2>6, <2>7
<1>10. CASE Write
  <2>1. /\ channel[1] \in Jobs /\ 1 \in DOMAIN channel /\ Receive(channel[1])
        /\ \A i \in DOMAIN channel' : i \in Nat /\ i # 0 /\ i + 1 \in DOMAIN channel /\
              channel'[i] = channel[i + 1]
        /\ \A i \in DOMAIN channel : i \in Nat /\ (i = 1 \/ i - 1 \in DOMAIN channel')
        /\ link = "up" /\ UNCHANGED <<docs, queue, stamp>>
    BY <1>10, Writing
  <2>2. \A p \in Paths :
          /\ IsDoc(channel[1], p) => None(channel', p)
          /\ ~IsDoc(channel[1], p) => server'[p] = server[p]
          /\ IsDoc(channel[1], p) /\ HoldsText(channel[1]) => server'[p] = Copy(channel[1])
    BY <1>10, Writing
  <2>3. \A r \in Requests : op[r] = "queued" => op'[r] = "queued" /\ (Owns(r)' => Owns(r))
    <3>1. channel[1].kind = "request" => op[channel[1].request] = "sent"
      BY <2>1 DEF Asks
    <3>2. op' = op \/ (channel[1].kind = "request" /\ op' = [op EXCEPT ![channel[1].request] =
       "asked"])
      BY <2>1, Received
    <3>3. \A r \in Requests : op[r] = "queued" => op'[r] = "queued"
      BY <1>1, <3>1, <3>2
    <3>4. \A r \in Requests : Owns(r)' => Owns(r)
      BY <2>1 DEF Owns
    <3> QED
      BY <3>3, <3>4
  <2>4. ASSUME NEW i \in DOMAIN queue, NEW p \in Paths, NEW t, Ahead(i, p, t) PROVE Ahead(i, p,
     t)'
    <3>1. CASE \E j \in DOMAIN queue : j < i /\ IsDoc(queue[j], p)
      BY <2>1, <2>4, <3>1 DEF Ahead
    <3>2. CASE \A j \in DOMAIN queue : j < i => ~IsDoc(queue[j], p)
      <4>1. /\ \A j \in DOMAIN channel : IsDoc(channel[j], p) => HoldsText(channel[j]) /\
                  channel[j].text = t
            /\ None(channel, p) => server[p].text = t
        BY <2>4, <3>2 DEF Ahead
      <4>2. \A j \in DOMAIN channel' : IsDoc(channel'[j], p) => HoldsText(channel'[j]) /\
         channel'[j].text = t
        BY <2>1, <4>1
      <4>3. ASSUME None(channel', p) PROVE server'[p].text = t
        <5>1. CASE IsDoc(channel[1], p)
          <6>1. HoldsText(channel[1]) /\ channel[1].text = t
            BY <2>1, <4>1, <5>1
          <6> QED
            BY <2>2, <5>1, <6>1 DEF Copy
        <5>2. CASE ~IsDoc(channel[1], p)
          <6>1. None(channel, p)
            BY <2>1, <4>3, <5>2 DEF None
          <6> QED
            BY <2>2, <4>1, <5>2, <6>1
        <5> QED
          BY <5>1, <5>2
      <4> QED
        BY <2>1, <3>2, <4>2, <4>3 DEF Ahead
    <3> QED
      BY <3>1, <3>2
  <2>5. SUFFICES ASSUME NEW i \in DOMAIN queue, queue[i].kind = "request" PROVE Barred(i)'
    BY <2>1 DEF Barred
  <2>6. PICK r \in Requests : r = queue[i].request
    BY <1>3, <2>5
  <2>7. \E t : t = stamp[r].text
    OBVIOUS
  <2>8. About[r] \in Paths
    BY <1>1
  <2> QED
    BY <1>4, <2>1, <2>3, <2>4, <2>5, <2>6, <2>7, <2>8
<1>11. CASE Disconnect
  BY <1>11 DEF Disconnect
<1> QED
  BY <1>5, <1>6, <1>7, <1>8, <1>9, <1>10, <1>11 DEF StepKind

-----------------------------------------------------------------------------
(* What does not show a document anything new leaves nothing about it.     *)
LEMMA NoneSame ==
  ASSUME NEW p \in Paths, Same(queue, queue', p), None(queue, p)
  PROVE  None(queue', p)
  BY DEF Same, None

(* Every step keeps the requests that have left the queue current.         *)
LEMMA LaunchedStep ==
  ASSUME SyncTyped, Waits, StepKind, link = "up" => \A i \in DOMAIN queue : Barred(i),
         \A i \in DOMAIN channel : Asks(i), NEW r \in Requests, Launched(r)
  PROVE  Launched(r)'
<1>1. /\ op \in [Requests -> Places] /\ channel \in Seq(Jobs) /\ queue \in Seq(Jobs)
      /\ answer \in [Requests -> Nat] /\ About[r] \in Paths
  BY SyncAssumption DEF SyncTyped, PeerTyped, WireTyped
<1>2. ASSUME op[r] \in {"task", "current", "sent"} /\ Owns(r) =>
               None(queue', About[r]) /\ None(channel', About[r])
                 /\ server'[About[r]] = server[About[r]],
             op'[r] \in {"task", "current", "sent"} /\ Owns(r)' =>
               op[r] \in {"task", "current", "sent"} /\ Owns(r),
             op'[r] = "asked" /\ Owns(r)' => op[r] = "asked" /\ Owns(r) /\ answer'[r] =
                answer[r],
             stamp'[r] = stamp[r]
      PROVE  Launched(r)'
  BY <1>2 DEF Launched
<1>3. CASE Quiet
  <2>1. ~IsDoc(RenameJob, About[r]) /\ RenameJob \in Jobs
    BY JobsMade DEF IsDoc, DocKinds
  <2>2. Same(queue, queue', About[r])
    <3>1. CASE UNCHANGED queue
      BY <3>1 DEF Same
    <3>2. CASE Queues(RenameJob) /\ ~UNCHANGED queue
      BY <1>1, <2>1, <3>2, Placed DEF Queues
    <3> QED
      BY <1>3, <3>1, <3>2 DEF Quiet
  <2>3. /\ None(queue, About[r]) => None(queue', About[r])
        /\ UNCHANGED <<channel, server, answer>>
    BY <1>1, <1>3, <2>2, NoneSame DEF Quiet
  <2>4. op'[r] \in {"task", "current", "sent", "asked"} =>
          /\ op[r] # "new" /\ (op'[r] = "asked" => op[r] = "asked")
          /\ (op'[r] # "asked" => op[r] \in {"task", "current", "sent"})
    BY <1>3 DEF Quiet
  <2>5. op[r] # "new" => stamp'[r] = stamp[r] /\ (Owns(r)' => Owns(r))
    BY <1>3 DEF Quiet
  <2>6. CASE op'[r] \in {"task", "current", "sent", "asked"}
    BY <1>2, <2>3, <2>4, <2>5, <2>6 DEF Launched, None
  <2>7. CASE op'[r] \notin {"task", "current", "sent", "asked"}
    BY <2>7 DEF Launched
  <2> QED
    BY <2>6, <2>7
<1>4. ASSUME NEW p \in Paths, NEW job \in Jobs, Posts(p, job) PROVE Launched(r)'
  <2>1. UNCHANGED <<channel, server, stamp, answer>> /\ (op'[r] = op[r] \/ op'[r] = "noted")
    BY <1>4 DEF Posts
  <2>2. CASE p = About[r]
    <3>1. op[r] \in Waiting => ~Owns(r)'
      BY <1>4, <2>2 DEF Posts
    <3> QED
      BY <2>1, <3>1 DEF Launched, Waiting
  <2>3. CASE p # About[r]
    <3>1. docs'[About[r]] = docs[About[r]] /\ ~IsDoc(job, About[r])
      BY <1>1, <1>4, <2>3 DEF Posts, IsDoc
    <3>2. Same(queue, queue', About[r])
      <4>1. CASE link = "up"
        BY <1>1, <1>4, <3>1, <4>1, Placed DEF Posts, Queues
      <4>2. CASE link # "up"
        BY <1>4, <4>2 DEF Posts, Queues, Same
      <4> QED
        BY <4>1, <4>2
    <3>3. None(queue, About[r]) => None(queue', About[r])
      BY <1>1, <3>2, NoneSame
    <3>4. Owns(r)' => Owns(r)
      BY <2>1, <3>1 DEF Owns
    <3> QED
      BY <1>2, <2>1, <3>3, <3>4 DEF Launched, None
  <2> QED
    BY <2>2, <2>3
<1>5. ASSUME NEW s \in Requests, Enqueues(s) PROVE Launched(r)'
  <2>1. UNCHANGED <<channel, server, docs, answer>> /\ link = "up"
    BY <1>5 DEF Enqueues
  <2>2. CASE s = r
    BY <1>5, <2>2 DEF Enqueues, Launched
  <2>3. CASE s # r
    <3>1. ~IsDoc(RequestJob(s), About[r]) /\ RequestJob(s) \in Jobs
      BY JobsMade DEF IsDoc, DocKinds
    <3>2. Same(queue, queue', About[r])
      BY <1>1, <1>5, <2>1, <3>1, Placed DEF Enqueues, Queues
    <3>3. None(queue, About[r]) => None(queue', About[r])
      BY <1>1, <3>2, NoneSame
    <3>4. op'[r] = op[r] /\ stamp'[r] = stamp[r]
      BY <1>5, <2>3 DEF Enqueues
    <3>5. Owns(r)' => Owns(r)
      BY <2>1, <3>4 DEF Owns
    <3> QED
      BY <1>2, <2>1, <3>3, <3>4, <3>5 DEF Launched, None
  <2> QED
    BY <2>2, <2>3
<1>6. CASE NextJob
  <2>1. /\ link = "up" /\ Head(queue) = queue[1] /\ queue[1] \in Jobs /\ 1 \in DOMAIN queue
        /\ \A i \in DOMAIN queue' : i \in Nat /\ i # 0 /\ i + 1 \in DOMAIN queue /\ queue'[i] =
              queue[i + 1]
        /\ \A i \in DOMAIN queue : i \in Nat /\ (i = 1 \/ i - 1 \in DOMAIN queue')
        /\ None(channel, About[r]) /\ (~None(channel', About[r]) <=> IsDoc(queue[1], About[r]))
        /\ UNCHANGED <<docs, server, stamp, answer>>
    BY <1>1, <1>6, Taking
  <2>2. Owns(r)' <=> Owns(r)
    BY <2>1 DEF Owns
  <2>3. None(queue, About[r]) => None(queue', About[r]) /\ ~IsDoc(queue[1], About[r])
    BY <2>1 DEF None
  <2>4. CASE op'[r] = op[r]
    BY <1>2, <2>1, <2>2, <2>3, <2>4 DEF Launched
  <2>5. CASE op'[r] # op[r]
    <3>1. queue[1].kind = "request" /\ queue[1].request = r /\ op'[r] \in {"task", "noted"}
      BY <1>1, <1>6, <2>1, <2>5 DEF NextJob
    <3>2. ASSUME Owns(r)
          PROVE  None(queue', About[r]) /\ None(channel', About[r])
                   /\ server'[About[r]].text = stamp'[r].text
      <4>1. Barred(1)
        BY <2>1
      <4>2. Ahead(1, About[r], stamp[r].text) /\ \A j \in DOMAIN queue : 1 < j =>
         ~IsDoc(queue[j], About[r])
        BY <2>1, <3>1, <3>2, <4>1 DEF Barred
      <4>3. \A j \in DOMAIN queue : ~(j < 1)
        BY <1>1
      <4>4. server[About[r]].text = stamp[r].text
        BY <2>1, <4>2, <4>3 DEF Ahead
      <4>5. ~IsDoc(queue[1], About[r])
        BY <3>1 DEF IsDoc, DocKinds
      <4>6. \A i \in DOMAIN queue' : 1 < i + 1
        BY <2>1
      <4> QED
        BY <2>1, <4>2, <4>4, <4>5, <4>6 DEF None
    <3> QED
      BY <2>2, <3>1, <3>2 DEF Launched
  <2> QED
    BY <2>4, <2>5
<1>7. ASSUME NEW s \in Requests, SendRequest(s) PROVE Launched(r)'
  <2>1. UNCHANGED <<docs, queue, server, stamp, answer>> /\ op[s] = "current"
    BY <1>7, Sending
  <2>2. Owns(r)' <=> Owns(r)
    BY <2>1 DEF Owns
  <2>3. None(channel, About[r]) => None(channel', About[r])
    BY <1>1, <1>7, Sending DEF None
  <2>4. op'[r] = op[r] \/ (op[r] = "current" /\ op'[r] \in {"noted", "sent"})
    BY <1>1, <1>7, Sending
  <2>5. (op'[r] \in {"task", "current", "sent"} => op[r] \in {"task", "current", "sent"})
          /\ (op'[r] = "asked" => op[r] = "asked")
    BY <2>4
  <2>6. None(queue, About[r]) => None(queue', About[r])
    BY <2>1 DEF None
  <2> QED
    BY <1>2, <2>1, <2>2, <2>3, <2>5, <2>6 DEF Launched
<1>8. CASE Write
  <2>1. /\ channel[1] \in Jobs /\ 1 \in DOMAIN channel /\ Receive(channel[1])
        /\ \A i \in DOMAIN channel' : i \in Nat /\ i # 0 /\ i + 1 \in DOMAIN channel /\
              channel'[i] = channel[i + 1]
        /\ (~IsDoc(channel[1], About[r]) => server'[About[r]] = server[About[r]])
        /\ UNCHANGED <<docs, queue, stamp>>
    BY <1>1, <1>8, Writing
  <2>2. Owns(r)' <=> Owns(r)
    BY <2>1 DEF Owns
  <2>3. None(channel, About[r]) => None(channel', About[r]) /\ server'[About[r]] =
     server[About[r]]
    BY <2>1 DEF None
  <2>4. None(queue, About[r]) => None(queue', About[r])
    BY <2>1 DEF None
  <2>5. CASE op'[r] = op[r] /\ answer'[r] = answer[r]
    BY <1>2, <2>1, <2>2, <2>3, <2>4, <2>5 DEF Launched
  <2>6. CASE ~(op'[r] = op[r] /\ answer'[r] = answer[r])
    <3>1. /\ channel[1].kind = "request" /\ channel[1].request = r
          /\ op'[r] = "asked" /\ answer'[r] = server[About[r]].text
      <4>1. ~(op' = op /\ answer' = answer)
        BY <2>6
      <4>2. /\ channel[1].kind = "request" /\ op' = [op EXCEPT ![channel[1].request] = "asked"]
            /\ answer' = [answer EXCEPT ![channel[1].request] =
                  server[About[channel[1].request]].text]
        BY <2>1, <4>1, Received
      <4>3. channel[1].request = r
        BY <1>1, <2>6, <4>2
      <4> QED
        BY <1>1, <4>2, <4>3
    <3>2. op[r] = "sent"
      BY <2>1, <3>1 DEF Asks
    <3> QED
      BY <2>1, <2>2, <3>1, <3>2 DEF Launched
  <2> QED
    BY <2>5, <2>6
<1>9. CASE Disconnect
  <2>1. queue' = <<>> /\ channel' = <<>> /\ UNCHANGED <<docs, server, stamp, answer>>
    BY <1>9 DEF Disconnect, calls, peer
  <2>2. Owns(r)' <=> Owns(r)
    BY <2>1 DEF Owns
  <2>3. op'[r] = op[r] \/ op'[r] = "lost"
    BY <1>9 DEF Disconnect
  <2>4. None(queue', About[r]) /\ None(channel', About[r])
    BY <2>1 DEF None
  <2> QED
    BY <1>2, <2>1, <2>2, <2>3, <2>4
<1> QED
  BY <1>3, <1>4, <1>5, <1>6, <1>7, <1>8, <1>9 DEF StepKind

-----------------------------------------------------------------------------
(* Nothing is on its way and nothing has been asked.                       *)
LEMMA SyncInit == Init => SyncInv
<1> SUFFICES ASSUME Init PROVE SyncInv
  OBVIOUS
<1>1. /\ queue = <<>> /\ channel = <<>> /\ published = {} /\ seen = {} /\ flush = {}
      /\ version = 0 /\ phase = "waiting" /\ worker = "idle" /\ ticket = "none"
      /\ accepting = TRUE /\ link = "up" /\ docs = [p \in Paths |-> Closed]
      /\ editor = [p \in Paths |-> [open |-> FALSE, doc |-> 0, text |-> 0]]
      /\ server = [p \in Paths |-> [open |-> FALSE, doc |-> 0, text |-> 0, version |-> 0]]
      /\ op = [r \in Requests |-> "new"] /\ answer = [r \in Requests |-> 0]
      /\ stamp = [r \in Requests |-> [doc |-> 0, text |-> 0]]
  BY DEF Init
<1>2. Closed \in Records /\ ~Closed.open /\ Closed.version = 0
  BY DEF Closed, Records
<1>3. [open |-> FALSE, doc |-> 0, text |-> 0] \in Documents
  BY DEF Documents
<1>4. [open |-> FALSE, doc |-> 0, text |-> 0, version |-> 0] \in Copies
  BY DEF Copies
<1>5. ClientTyped
  BY <1>1, <1>2, <1>3 DEF ClientTyped
<1>6. WireTyped
  BY <1>1 DEF WireTyped
<1>7. PeerTyped
  BY <1>1, <1>4 DEF PeerTyped, Places
<1>8. Phased /\ Waits /\ Traffic
  <2>1. DOMAIN queue = {} /\ DOMAIN channel = {}
    BY <1>1
  <2> QED
    BY <1>1, <1>2, <2>1 DEF Phased, Waits, Traffic
<1>9. \A p \in Paths : Recorded(p) /\ (Sent(p) => Mirrored(p))
  BY <1>1, <1>2 DEF Recorded, Sent
<1>10. (link = "up" => \A i \in DOMAIN queue : Barred(i)) /\ \A i \in DOMAIN channel : Asks(i)
  <2>1. DOMAIN queue = {} /\ DOMAIN channel = {}
    BY <1>1
  <2> QED
    BY <2>1
<1>11. \A r \in Requests : Stamped(r) /\ Launched(r)
  BY <1>1 DEF Stamped, Launched
<1> QED
  BY <1>5, <1>6, <1>7, <1>8, <1>9, <1>10, <1>11 DEF SyncInv, SyncTyped

(* Every step keeps it.                                                    *)
LEMMA SyncNext == SyncInv /\ [Next]_vars => SyncInv'
<1> SUFFICES ASSUME SyncInv, [Next]_vars PROVE SyncInv'
  OBVIOUS
<1>1. /\ SyncTyped /\ Phased /\ Waits /\ Traffic
      /\ \A p \in Paths : Recorded(p)
      /\ \A p \in Paths : Sent(p) => Mirrored(p)
      /\ link = "up" => \A i \in DOMAIN queue : Barred(i)
      /\ \A i \in DOMAIN channel : Asks(i)
      /\ \A r \in Requests : Stamped(r)
      /\ \A r \in Requests : Launched(r)
  BY DEF SyncInv
<1>2. StepKind
  BY <1>1, StepKinds
<1>3. SyncTyped'
  BY <1>1, ClientStep, WireStep, PeerStep DEF SyncTyped
<1>4. Phased' /\ Waits'
  BY <1>1, PhasedStep, WaitsStep
<1>5. Traffic'
  BY <1>1, <1>2, TrafficStep
<1>6. \A p \in Paths : Recorded(p)'
  BY <1>1, RecordedStep
<1>7. \A p \in Paths : Sent(p)' => Mirrored(p)'
  BY <1>1, <1>2, MirrorStep
<1>8. link' = "up" => \A i \in DOMAIN queue' : Barred(i)'
  BY <1>1, <1>2, BarredStep
<1>9. \A i \in DOMAIN channel' : Asks(i)'
  BY <1>1, <1>2, AsksStep
<1>10. \A r \in Requests : Stamped(r)'
  BY <1>1, StampedStep
<1>11. \A r \in Requests : Launched(r)'
  BY <1>1, <1>2, LaunchedStep
<1> QED
  BY <1>3, <1>4, <1>5, <1>6, <1>7, <1>8, <1>9, <1>10, <1>11 DEF SyncInv

(* It holds in every reachable state.                                      *)
LEMMA SyncHolds == Spec => []SyncInv
<1> QED
  BY SyncInit, SyncNext, PTL DEF Spec

-----------------------------------------------------------------------------
(* Whatever the queue admits, merges or refuses, the server ends up with   *)
(* what the client has recorded: the last notification about a document    *)
(* that is on its way says so, and when none is the server does.           *)
THEOREM ServerFollows == Spec => []ServerMirrors
<1>1. SyncInv => ServerMirrors
  <2> SUFFICES ASSUME SyncInv, NEW p \in Paths, Sent(p), ~OnTheWay(p)
               PROVE  server[p] = [open |-> TRUE, doc |-> docs[p].doc, text |-> docs[p].text,
                                   version |-> docs[p].version]
    BY DEF ServerMirrors, Sent
  <2>1. None(queue, p) /\ None(channel, p)
    BY DEF OnTheWay, None, IsDoc, DocKinds
  <2> QED
    BY <2>1 DEF SyncInv, Mirrored
<1> QED
  BY <1>1, SyncHolds, PTL

(* An answer the editor still takes for current was computed on the text   *)
(* that it is stamped with, for any schedule of changes and requests.      *)
THEOREM AnswersHold == Spec => []AnswersAreCurrent
<1>1. SyncInv => AnswersAreCurrent
  BY DEF SyncInv, AnswersAreCurrent, Launched
<1> QED
  BY <1>1, SyncHolds, PTL

(* A diagnostic that the client attributes is about the document it names; *)
(* one with a version about the recorded text, unless the flush failed.    *)
THEOREM DiagnosticsHold == Spec => []DiagnosticsAttributed
<1>1. SyncInv => DiagnosticsAttributed
  <2> SUFFICES ASSUME SyncInv, NEW d \in published
               PROVE  /\ Attributed(d, TRUE) \/ Attributed(d, FALSE) => d.doc = docs[d.path].doc
                      /\ Attributed(d, TRUE) /\ phase # "failed" => d.text = docs[d.path].text
    BY DEF DiagnosticsAttributed
  <2>1. Known(d)
    BY DEF SyncInv, Traffic
  <2> QED
    BY <2>1 DEF Known, Attributed
<1> QED
  BY <1>1, SyncHolds, PTL

(* A request leaves the queue when the server holds the text it is stamped *)
(* with and the writer has nothing but requests before it.                 *)
THEOREM BarrierKept == Spec => BarrierHolds
<1> DEFINE Step == \A r \in Requests : op[r] = "queued" /\ op'[r] = "task" /\ link = "up" =>
                     /\ \A i \in DOMAIN channel : channel[i].kind = "request"
                     /\ server[About[r]].text = stamp[r].text
<1>1. SyncInv /\ [Next]_vars => Step
  <2> SUFFICES ASSUME SyncInv, [Next]_vars, NEW r \in Requests, op[r] = "queued", op'[r] =
     "task"
               PROVE  /\ \A i \in DOMAIN channel : channel[i].kind = "request"
                      /\ server[About[r]].text = stamp[r].text
    OBVIOUS
  <2>1. SyncTyped /\ Waits /\ StepKind /\ op \in [Requests -> Places] /\ About[r] \in Paths
    BY StepKinds, SyncAssumption DEF SyncInv, SyncTyped, PeerTyped
  <2>2. NextJob
    <3>1. ~Quiet /\ ~(\E p \in Paths, job \in Jobs : Posts(p, job)) /\ ~(\E q \in Requests :
       Enqueues(q))
      BY DEF Quiet, Posts, Enqueues
    <3>2. ~(\E q \in Requests : SendRequest(q))
      BY <2>1 DEF SendRequest
    <3>3. ~Disconnect
      BY DEF Disconnect
    <3>4. ~Write
      <4>1. ASSUME Write PROVE op' = op \/ \E q \in Requests : op' = [op EXCEPT ![q] = "asked"]
        BY <2>1, <4>1, Writing, Received
      <4> QED
        BY <2>1, <4>1
    <3> QED
      BY <2>1, <3>1, <3>2, <3>3, <3>4 DEF StepKind
  <2>3. /\ link = "up" /\ Head(queue) = queue[1] /\ 1 \in DOMAIN queue /\ queue[1] \in Jobs
        /\ None(channel, About[r])
    BY <2>1, <2>2, Taking
  <2>4. queue[1].kind = "request" /\ queue[1].request = r
    BY <2>1, <2>2, <2>3 DEF NextJob
  <2>5. Ahead(1, About[r], stamp[r].text)
    BY <2>3, <2>4 DEF SyncInv, Barred
  <2>6. \A j \in DOMAIN queue : ~(j < 1)
    BY <2>1 DEF SyncTyped, WireTyped
  <2>7. server[About[r]].text = stamp[r].text
    BY <2>3, <2>5, <2>6 DEF Ahead
  <2>8. \A i \in DOMAIN channel : channel[i].kind = "request"
    BY <2>1, <2>2 DEF NextJob, Waits, Notifies
  <2> QED
    BY <2>7, <2>8
<1>2. SyncInv /\ [Next]_vars => [Step]_vars
  BY <1>1
<1> QED
  BY <1>2, SyncHolds, PTL DEF Spec, BarrierHolds
=============================================================================
