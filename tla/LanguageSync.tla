---------------------------- MODULE LanguageSync ----------------------------
(***************************************************************************)
(* One language server connection: the editor's open, change, close,       *)
(* rename and request calls, ordered by the sync lock; the bounded wire    *)
(* queue with its coalescing of superseded changes; the wire worker, which *)
(* hands one notification to the writer and waits for its frame to be      *)
(* flushed; the tasks that send requests; and the server's own copy of     *)
(* each document, which every answer and diagnostic is computed on.        *)
(***************************************************************************)
EXTENDS Integers, Sequences, FiniteSets

CONSTANTS
  Paths,         \* a set of numbers: the sorted order of the paths
  Requests, About,    \* document requests, and the path each is about
  MaxJobs,       \* jobs in the wire queue
  MaxSnapshots,  \* snapshots in it (its byte bound, for snapshots of one size)
  MaxRetired,    \* superseded snapshots that await the wire worker
  MaxVersion,    \* the last wire version
  MaxEdits,      \* bound: for each path, the texts the editor gives it
  MaxOpens,      \* bound: for each path, the documents the editor opens on it
  MaxRenames     \* bound: rename notifications

ASSUME SyncAssumption ==
  /\ Paths \subseteq Nat /\ IsFiniteSet(Paths) /\ IsFiniteSet(Requests)
  /\ About \in [Requests -> Paths]
  /\ MaxJobs \in Nat \ {0} /\ MaxSnapshots \in Nat \ {0} /\ MaxRetired \in Nat
  /\ MaxVersion \in Nat /\ MaxRenames \in Nat
  /\ MaxEdits \in [Paths -> Nat] /\ MaxOpens \in [Paths -> Nat]

VARIABLES
  editor,      \* per path: the editor's document, or none, and its text
  phase,       \* the handshake: waiting, flushing under the sync lock, ready or failed
  flush,       \* paths and requests still to flush
  docs,        \* per path: what the client has recorded as open
  seen,        \* paths ever put on the wire
  version,     \* the last wire version allocated
  early,       \* requests admitted before the server was ready, in the order they came
  queue, retired, accepting,    \* the wire queue, superseded snapshots, its flag
  worker, ticket,     \* the wire worker; the method of the notification it waits for
  channel,     \* frames handed to the writer, in order
  link,        \* the connection
  server,      \* per path: the server's copy
  reopened,    \* paths the server was told to open while they were open
  published,   \* copies the server ever had: what a diagnostic may be about
  op, stamp, answer,  \* per request: where it is, its document and text, the text it was answered on
  renames

calls == <<phase, flush, docs, seen, version, early>>
wire == <<queue, retired, accepting>>
frames == <<worker, ticket, channel, link>>
peer == <<server, reopened, published>>
requests == <<op, stamp, answer>>
vars == <<editor, calls, wire, frames, peer, requests, renames>>

Closed == [open |-> FALSE, doc |-> 0, text |-> 0, version |-> 0,
           pending |-> FALSE, unversioned |-> FALSE]

Init ==
  /\ editor = [p \in Paths |-> [open |-> FALSE, doc |-> 0, text |-> 0]]
  /\ phase = "waiting" /\ flush = {} /\ docs = [p \in Paths |-> Closed]
  /\ seen = {} /\ version = 0 /\ early = <<>>
  /\ queue = <<>> /\ retired = 0 /\ accepting = TRUE
  /\ worker = "idle" /\ ticket = "none" /\ channel = <<>> /\ link = "up"
  /\ server = [p \in Paths |-> [open |-> FALSE, doc |-> 0, text |-> 0, version |-> 0]]
  /\ reopened = {} /\ published = {}
  /\ op = [r \in Requests |-> "new"]
  /\ stamp = [r \in Requests |-> [doc |-> 0, text |-> 0]]
  /\ answer = [r \in Requests |-> 0]
  /\ renames = 0

-----------------------------------------------------------------------------
(* The wire queue.                                                         *)

Job(kind, p, d, v) == [kind |-> kind, path |-> p, doc |-> d.doc, text |-> d.text, version |-> v]
RequestJob(r) == [kind |-> "request", request |-> r]
RenameJob == [kind |-> "rename"]

HoldsText(job) == job.kind \in {"open", "change"}
Snapshots == Cardinality({i \in DOMAIN queue : HoldsText(queue[i])})

Room(job) == Len(queue) < MaxJobs /\ (HoldsText(job) => Snapshots < MaxSnapshots)

Appends(job) == Room(job) /\ queue' = Append(queue, job) /\ UNCHANGED retired

\* What a later change of path p may not be moved across.
BarsNothing(job, p) == FALSE    \* mutant of Bars
Bars(job, p) ==
  \/ job.kind = "request"
  \/ job.kind \in {"open", "close"} /\ job.path = p

\* The newest unsent change of p, with nothing behind it that bars.
MergeAt(p) ==
  {i \in DOMAIN queue :
     /\ queue[i].kind = "change" /\ queue[i].path = p
     /\ \A j \in DOMAIN queue :
          j > i => ~Bars(queue[j], p) /\ ~(queue[j].kind = "change" /\ queue[j].path = p)}

Merges(job) ==
  /\ retired < MaxRetired /\ retired' = retired + 1
  /\ \E i \in MergeAt(job.path) : queue' = [queue EXCEPT ![i] = job]

Admits(job) ==
  IF job.kind = "change" /\ MergeAt(job.path) # {} THEN Merges(job) ELSE Appends(job)
AdmitRefused(job) ==
  IF job.kind = "change" /\ MergeAt(job.path) # {} THEN retired >= MaxRetired
  ELSE ~Room(job)

\* A queue whose worker has ended takes nothing and says so, which its
\* callers treat as taken.
Offer(job) ==
  \/ accepting /\ Admits(job) /\ UNCHANGED accepting
  \/ ~accepting /\ UNCHANGED wire
Refuses(job) == accepting /\ AdmitRefused(job) /\ UNCHANGED wire

-----------------------------------------------------------------------------
(* The editor.  Its thread and the flush after the handshake exclude each  *)
(* other on the sync lock.                                                 *)

Unlocked == phase # "flushing"
Ready == phase = "ready"

Open(p) ==
  /\ ~editor[p].open /\ editor[p].doc < MaxOpens[p] /\ editor[p].text < MaxEdits[p]
  /\ editor' = [editor EXCEPT ![p] = [open |-> TRUE, doc |-> @.doc + 1, text |-> @.text + 1]]
  /\ UNCHANGED <<calls, wire, frames, peer, requests, renames>>

Edit(p) ==
  /\ editor[p].open /\ editor[p].text < MaxEdits[p]
  /\ editor' = [editor EXCEPT ![p].text = @ + 1]
  /\ UNCHANGED <<calls, wire, frames, peer, requests, renames>>

\* A fresh version for every admission, whatever was open before.
NextVersion(p) == version + 1

SeenAfterForgotten(p) == seen    \* mutant of SeenAfter
SeenAfter(p) == seen \union {p}

Record(p, v) ==
  [open |-> TRUE, doc |-> editor[p].doc, text |-> editor[p].text, version |-> v,
   pending |-> v = 0, unversioned |-> p \notin seen]

DidOpen(p) ==
  /\ Unlocked /\ editor[p].open /\ ~docs[p].open
  /\ IF Ready
     THEN /\ version < MaxVersion /\ version' = NextVersion(p)
          /\ LET job == Job("open", p, editor[p], version') IN
             \/ /\ Offer(job)
                /\ docs' = [docs EXCEPT ![p] = Record(p, version')]
                /\ seen' = SeenAfter(p)
             \/ Refuses(job) /\ UNCHANGED <<docs, seen>>
     ELSE /\ docs' = [docs EXCEPT ![p] = Record(p, 0)]
          /\ UNCHANGED <<wire, seen, version>>
  /\ UNCHANGED <<editor, phase, flush, early, frames, peer, requests, renames>>

\* A refused change leaves the record as it was; the next one is newer.
RecordAfterRefusalMoved(p) ==    \* mutant of RecordAfterRefusal
  [docs EXCEPT ![p].text = editor[p].text, ![p].version = version']
RecordAfterRefusal(p) == docs

DidChange(p) ==
  /\ Unlocked /\ editor[p].open
  /\ docs[p].open /\ docs[p].doc = editor[p].doc /\ docs[p].text # editor[p].text
  /\ IF Ready
     THEN /\ version < MaxVersion /\ version' = NextVersion(p)
          /\ LET job == Job("change", p, editor[p], version') IN
             \/ /\ Offer(job)
                /\ docs' = [docs EXCEPT ![p].text = editor[p].text, ![p].version = version']
             \/ Refuses(job) /\ docs' = RecordAfterRefusal(p)
     ELSE /\ docs' = [docs EXCEPT ![p].text = editor[p].text]
          /\ UNCHANGED <<wire, version>>
  /\ UNCHANGED <<editor, phase, flush, seen, early, frames, peer, requests, renames>>

Cancelled(rs) == op' = [r \in Requests |-> IF r \in rs THEN "noted" ELSE op[r]]

\* Requests of this document that wait for the handshake are cancelled.  The
\* close of one that reached the wire is offered, and a refusal goes unseen.
DidClose(p) ==
  /\ Unlocked /\ editor[p].open
  /\ editor' = [editor EXCEPT ![p].open = FALSE]
  /\ IF docs[p].open /\ docs[p].doc = editor[p].doc
     THEN LET job == Job("close", p, docs[p], 0) IN
          /\ docs' = [docs EXCEPT ![p] = Closed]
          /\ Cancelled({r \in Requests :
                          op[r] = "early" /\ About[r] = p /\ stamp[r].doc = docs[p].doc})
          /\ IF docs[p].version # 0 THEN Offer(job) \/ Refuses(job) ELSE UNCHANGED wire
     ELSE UNCHANGED <<docs, op, wire>>
  /\ UNCHANGED <<phase, flush, seen, version, early, frames, peer, stamp, answer, renames>>

\* A request is stamped with the recorded document and text.
Launch(r) ==
  LET p == About[r] IN
  /\ Unlocked /\ op[r] = "new" /\ editor[p].open
  /\ docs[p].open /\ docs[p].doc = editor[p].doc /\ docs[p].text = editor[p].text
  /\ stamp' = [stamp EXCEPT ![r] = [doc |-> editor[p].doc, text |-> editor[p].text]]
  /\ IF Ready
     THEN /\ \/ Offer(RequestJob(r)) /\ op' = [op EXCEPT ![r] = IF accepting THEN "queued" ELSE "lost"]
             \/ Refuses(RequestJob(r)) /\ op' = [op EXCEPT ![r] = "noted"]
          /\ UNCHANGED early
     ELSE early' = Append(early, r) /\ op' = [op EXCEPT ![r] = "early"] /\ UNCHANGED wire
  /\ UNCHANGED <<editor, phase, flush, docs, seen, version, frames, peer, answer, renames>>

\* A rename is offered without the sync lock.
DidRename ==
  /\ renames < MaxRenames /\ renames' = renames + 1
  /\ Offer(RenameJob) \/ Refuses(RenameJob)
  /\ UNCHANGED <<editor, calls, frames, peer, requests>>

-----------------------------------------------------------------------------
(* The flush after the handshake holds the sync lock: opens in path order, *)
(* the latest text of each, then the requests that are still current.      *)

Owns(r) ==
  LET d == docs[About[r]] IN d.open /\ d.doc = stamp[r].doc /\ d.text = stamp[r].text

BeginFlush ==
  /\ phase = "waiting" /\ phase' = "flushing"
  /\ flush' = {p \in Paths : docs[p].open}
  /\ UNCHANGED <<editor, docs, seen, version, early, wire, frames, peer, requests, renames>>

FlushFails ==
  /\ phase' = "failed" /\ flush' = {}

FlushOpen ==
  /\ phase = "flushing"
  /\ \E p \in flush :
       /\ \A q \in flush : p <= q
       /\ \/ /\ version < MaxVersion /\ version' = NextVersion(p)
             /\ LET job == Job("open", p, docs[p], version') IN
                \/ /\ Offer(job)
                   /\ docs' = [docs EXCEPT ![p].pending = FALSE, ![p].version = version']
                   /\ seen' = SeenAfter(p)
                   /\ flush' = flush \ {p} /\ UNCHANGED phase
                \/ Refuses(job) /\ FlushFails /\ UNCHANGED <<docs, seen>>
          \/ version >= MaxVersion /\ FlushFails /\ UNCHANGED <<docs, seen, version, wire>>
  /\ UNCHANGED <<editor, early, frames, peer, requests, renames>>

\* The first of those that still wait; a closed document's have been cancelled.
NextEarly(r) ==
  /\ op[r] = "early"
  /\ \E i \in DOMAIN early :
       early[i] = r /\ \A j \in DOMAIN early : j < i => op[early[j]] # "early"

FlushRequest ==
  /\ phase = "flushing" /\ flush = {}
  /\ \E r \in Requests :
       /\ NextEarly(r)
       /\ \/ /\ Owns(r) /\ Offer(RequestJob(r))
             /\ op' = [op EXCEPT ![r] = IF accepting THEN "queued" ELSE "lost"]
          \/ /\ Owns(r) /\ Refuses(RequestJob(r))
             /\ op' = [op EXCEPT ![r] = "noted"]
          \/ ~Owns(r) /\ op' = [op EXCEPT ![r] = "noted"] /\ UNCHANGED wire
  /\ UNCHANGED <<editor, phase, flush, docs, seen, version, early, frames, peer, stamp,
                 answer, renames>>

EndFlush ==
  /\ phase = "flushing" /\ flush = {} /\ \A r \in Requests : op[r] # "early"
  /\ phase' = "ready" /\ early' = <<>>
  /\ UNCHANGED <<editor, flush, docs, seen, version, wire, frames, peer, requests, renames>>

-----------------------------------------------------------------------------
(* The wire worker and the writer.  The worker leaves a notification when  *)
(* a flushed frame carries the method its ticket was taken for.            *)

MethodOfFirst(kind) == "open"    \* mutant of Method
Method(kind) == IF kind = "rename" THEN "open" ELSE kind
Parse(kind) == IF kind = "rename" THEN "other" ELSE kind

\* Superseded snapshots are dropped whenever the worker passes.
NextJob ==
  /\ worker = "idle" /\ accepting /\ queue # <<>>
  /\ retired' = 0 /\ queue' = Tail(queue) /\ UNCHANGED accepting
  /\ LET job == Head(queue) IN
     IF job.kind = "request"
     THEN /\ \E outcome \in {"task", "noted"} : op' = [op EXCEPT ![job.request] = outcome]
          /\ UNCHANGED <<worker, ticket, channel>>
     ELSE /\ worker' = "waiting" /\ ticket' = Method(job.kind)
          /\ channel' = Append(channel, job) /\ UNCHANGED op
  /\ UNCHANGED <<editor, calls, link, peer, stamp, answer, renames>>

Retire ==
  /\ worker = "waiting" \/ (queue = <<>> /\ worker = "idle")
  /\ accepting /\ retired > 0 /\ retired' = 0
  /\ UNCHANGED <<editor, calls, queue, accepting, frames, peer, requests, renames>>

\* The task checks that its stamp is still current, and only then sends.
CheckOwner(r) ==
  /\ op[r] = "task"
  /\ op' = [op EXCEPT ![r] = IF Owns(r) THEN "current" ELSE "noted"]
  /\ UNCHANGED <<editor, calls, wire, frames, peer, stamp, answer, renames>>

SendRequest(r) ==
  /\ op[r] = "current"
  /\ IF link = "up"
     THEN channel' = Append(channel, RequestJob(r)) /\ op' = [op EXCEPT ![r] = "sent"]
     ELSE op' = [op EXCEPT ![r] = "noted"] /\ UNCHANGED channel
  /\ UNCHANGED <<editor, calls, wire, worker, ticket, link, peer, stamp, answer, renames>>

Copy(job) == [open |-> TRUE, doc |-> job.doc, text |-> job.text, version |-> job.version]
Report(p, job) == [path |-> p, doc |-> job.doc, text |-> job.text, version |-> job.version]

Receive(job) ==
  \/ /\ HoldsText(job)
     /\ server' = [server EXCEPT ![job.path] = Copy(job)]
     /\ published' = published \union {Report(job.path, job)}
     /\ reopened' = IF job.kind = "open" /\ server[job.path].open
                    THEN reopened \union {job.path} ELSE reopened
     /\ UNCHANGED <<op, answer>>
  \/ /\ job.kind = "close"
     /\ server' = [server EXCEPT ![job.path].open = FALSE]
     /\ UNCHANGED <<reopened, published, op, answer>>
  \/ job.kind = "rename" /\ UNCHANGED <<peer, op, answer>>
  \/ /\ job.kind = "request"
     /\ op' = [op EXCEPT ![job.request] = "asked"]
     /\ answer' = [answer EXCEPT ![job.request] = server[About[job.request]].text]
     /\ UNCHANGED peer

\* One frame is written and flushed.
Write ==
  /\ link = "up" /\ channel # <<>> /\ channel' = Tail(channel)
  /\ LET job == Head(channel) IN
     /\ Receive(job)
     /\ IF worker = "waiting" /\ Parse(job.kind) = ticket
        THEN worker' = "idle" /\ ticket' = "none"
        ELSE UNCHANGED <<worker, ticket>>
  /\ UNCHANGED <<editor, calls, wire, link, stamp, renames>>

\* The connection ends: its queue closes and its worker drops what is left.
Disconnect ==
  /\ link = "up" /\ link' = "closed"
  /\ accepting' = FALSE /\ queue' = <<>> /\ retired' = 0
  /\ worker' = "gone" /\ ticket' = "none" /\ channel' = <<>>
  /\ op' = [r \in Requests |->
       IF op[r] \in {"queued", "sent"} THEN "lost" ELSE op[r]]
  /\ UNCHANGED <<editor, calls, peer, stamp, answer, renames>>

Next ==
  \/ \E p \in Paths : Open(p) \/ Edit(p) \/ DidOpen(p) \/ DidChange(p) \/ DidClose(p)
  \/ \E r \in Requests : Launch(r) \/ CheckOwner(r) \/ SendRequest(r)
  \/ DidRename
  \/ BeginFlush \/ FlushOpen \/ FlushRequest \/ EndFlush
  \/ NextJob \/ Retire \/ Write \/ Disconnect

Spec == Init /\ [][Next]_vars
\* The worker, the writer and the tasks run; the editor, the handshake and the
\* end of the connection are left to themselves.
FairSpec ==
  /\ Spec
  /\ WF_vars(NextJob) /\ WF_vars(Write)
  /\ \A r \in Requests : WF_vars(CheckOwner(r) \/ SendRequest(r))

-----------------------------------------------------------------------------
(* Properties.                                                             *)

OnTheWay(p) ==
  \E job \in {queue[i] : i \in DOMAIN queue} \union {channel[i] : i \in DOMAIN channel} :
    job.kind \in {"open", "change", "close"} /\ job.path = p

\* What the client has recorded as sent is what the server has, once nothing of
\* that document is on its way: no admitted text is lost or overtaken, by
\* coalescing, by refusals or by a flush that succeeds (admit_change() in queue.rs,
\* did_change() and finish_initialize() in sync.rs).
ServerMirrors ==
  \A p \in Paths :
    link = "up" /\ phase # "failed" /\ docs[p].open /\ docs[p].version # 0 /\ ~OnTheWay(p) =>
      server[p] = [open |-> TRUE, doc |-> docs[p].doc, text |-> docs[p].text,
                   version |-> docs[p].version]

\* An answer whose stamp is still current was computed on the stamped text: no
\* change moves across a request, and a refused change leaves no stamp behind
\* (admit_change() in queue.rs, launch() in api.rs).
AnswersAreCurrent ==
  \A r \in Requests : op[r] = "asked" /\ Owns(r) => answer[r] = stamp[r].text

Attributed(d, versioned) ==
  LET open == docs[d.path] IN
  /\ open.open /\ open.version # 0
  /\ IF versioned THEN d.version = open.version ELSE open.unversioned

\* A request leaves the queue when the server holds the text it is stamped with:
\* no later change merges into a place ahead of it (admit_change() in queue.rs).
BarrierHolds ==
  [][\A r \in Requests : op[r] = "queued" /\ op'[r] = "task" /\ link = "up" =>
       /\ \A i \in DOMAIN channel : channel[i].kind = "request"
       /\ server[About[r]].text = stamp[r].text]_vars

\* A diagnostic the client attributes is about the document it names, however
\* late it comes; one with a version is about the recorded text, unless the flush
\* has failed (diagnostic_context() and did_open() in sync.rs).
DiagnosticsAttributed ==
  \A d \in published :
    /\ Attributed(d, TRUE) \/ Attributed(d, FALSE) => d.doc = docs[d.path].doc
    /\ Attributed(d, TRUE) /\ phase # "failed" => d.text = docs[d.path].text

\* The same of a connection whose flush has failed: did_change() then records a
\* text under the version of the one before (did_change() in sync.rs).
VersionsNeverRelabel ==
  \A d \in published : Attributed(d, TRUE) => d.text = docs[d.path].text

\* An admitted request is sent or ends with a note, or the connection ends: the
\* wire worker comes free of every frame it waits for (worker() in queue.rs,
\* wait() and header() in outbound.rs).
RequestsLeave ==
  \A r \in Requests : op[r] = "queued" ~> op[r] \in {"asked", "noted", "lost"}

\* The same of a connection that is never told of a rename.
RequestsLeaveUnrenamed == [](renames = 0) => RequestsLeave

\* The server is never told to open a document it has open: the protocol has
\* one open per close (did_close() in sync.rs).
OpensAlternate == reopened = {}

=============================================================================
