# A verification of strop in TLA+

strop is a modal text editor. Its editor process does no filesystem, process or
watch work of its own on a machine: it starts a **worker** there
(`strop --worker-stdio`, locally or over SSH or in a container) and talks to it
over one bounded, framed byte stream. The worker decides what runs, in which
order results come back, what a cancelled or lost operation has done and when a
session is over. This directory models that core from the Rust sources, and
around it the cache that workers are deployed into, the saving of files, the
synchronisation of documents with language servers, and the buffer itself with its
undo tree and the views derived from it. It checks the models with
TLC and proves with TLAPS their safety properties, all but the exactness of a collection's view.

The repository has TLA+ of its own under `specs/`. The modules here do not
build on it: every definition is translated from the Rust code, and
`PROJECT.json` gives, under `map`, the lines each one stands for.

Contents: [inventory](#1-inventory) · [modules](#2-the-modules-and-the-code) ·
[runs](#3-the-runs) · [fairness](#4-fairness) ·
[disagreements](#5-where-code-and-comments-disagree) · [proofs](#6-the-proofs) ·
[limits](#7-what-is-only-checked-and-what-is-not-modelled) · [plan](#8-plan).

## 1. Inventory

Paths are under `src/crates/`. "Modelled", "partly" and "not modelled" are the
statuses of `PROJECT.json`, which also lists the remaining libraries.

### 1.1 The worker (`strop-worker`)

**Session threads** (`serve.rs`). One *reader* loop decodes frames, admits
requests, handles cancel, credit, abandon and shutdown frames inline, and in the
end tears the session down; one *writer* empties the outbound lanes; every
admitted request has a thread; a notify pump and the threads of each exec run
beside them. State: authority (serving, quiesced, closed), the exec table, the
inbound table (uploads and exec stdin), stream windows, the stop flag.
*Hard*: everything runs against everything; teardown races work that is just
starting; the reader must never wait. *Correct when* every admitted request has
one outcome, a stopping session ends, and what it has started is revoked.
Partly modelled (`WorkerScheduler`, `StreamFlow`).

**Scheduler** (`serve/schedule.rs`). One mutex over the admission registry (total,
reserve for control work, bulk and exec budgets), the control lane (drained
first) and the data lane (drained second, chunk by chunk), four condition
variables, counters of queued and written data. *Hard*: lost wake-ups — the
token and the stop flag are written without the lock —, overtaking between the
two lanes, a permit released twice or never. *Correct when* counters agree with
the registries, openings precede chunks and exits follow them on the transport,
the control reserve is kept, and nobody sleeps for ever. Modelled
(`WorkerScheduler`).

**Stream flow control** (`serve/stream_window.rs`, `payload.rs` of the client). A
window of credits per worker-to-client stream; a pump spends a credit per chunk,
the consumer returns one per chunk consumed; a dropped exec payload abandons
the stream and the pump drains the child without emitting. *Hard*: credits that
cross the end of their stream, the client's bounded queue, truncation that looks
like an end. *Correct when* credits are conserved, a slow reader is not taken
for a dead one, a short read is never taken for a whole one, and no producer
waits for a credit nobody will return. Modelled (`StreamFlow`).

**Exec** (`serve/process.rs`, `serve/process/pty.rs`, `exec/`). Permit, launch, exec
and inbound tables, lease, two output pumps, stdin relay or PTY input thread,
supervisor and settlement thread. *Hard*: four parties may take the exec out of
the table (control request, flow pressure, teardown, settlement); the exit travels
in the faster lane; input and resizes share a queue that may die with entries in
it; a chunk may be in flight for a slot that has just been removed; the kill of a
revoked exec races its exit. *Correct when* permits are conserved, the child reads
its input without a gap, a client that writes in order is not taken for one that
violates the protocol, an exit that was recorded wins over the kill, and nothing
of the exec survives it. Modelled (`WorkerScheduler` for permits, pumps and
settlement beside the lanes, `WorkerExec` for launch, input and supervision).

**Filesystem requests** (`serve/fs.rs`). Streaming reads (announced size, chunks,
terminal chunk), and observe, list, prepare, apply, verify, which delegate to
`strop-fs`. *Correct when* reads are whole or fail and effects are what was
prepared. Reads are modelled (`StreamFlow`), effects as the client sees them
(`WorkerClient`) and as the kernel performs those of a save (`SaveFile`).

**Cache lease and collection** (`serve/cache_lease.rs`, `serve/cache_gc.rs`,
`serve/handshake.rs`). A worker registers a lease that names its cache object before
it says Welcome; collection removes objects no lease names. Both hold an OS lock,
the editors that deploy do not. *Hard*: a crash between any two steps, half-written
records, a name that stands for another file by now. *Correct when* the object and
receipt of a serving worker stay, and what cannot be read retires nothing.
Modelled (`CacheHost`).

**Notifications** (`serve/notify.rs`, `notify/`). Subscriptions with overflow and
rescan. Not modelled yet. **Authority** (serving, quiesced, closed) is modelled as the
identity of a session that mutations depend on, and as `quiesced`: a retiring session
refuses mutations. That a closed one refuses everything is left out: nothing is read then.

### 1.2 The client (`strop-worker-client`)

**Lease and routing** (`lib.rs`, `lifecycle.rs`, `connection.rs`,
`connection/reader.rs`). `Shared` holds the connection slot, the connecting lock
and the closed flag; `Conn` holds the alive flag, the pending, stream, exec and
exec-stream registries and the child; one reader thread per connection routes
frames. Operations: connect or reconnect, call, prepare and apply, read, exec,
wait for exit, retire, close, shutdown. *Hard*: a connection may die between any
two steps of a caller; close and shutdown race reconnection; a mutation must
never run in a session other than the one that prepared it. *Correct when* at
most one worker per lease is alive, none after close, mutations are not replayed,
a caller gets one reply, and everything that waits learns of the death.
Modelled (`WorkerClient`), without the event sink and the stream notifier.

**Exec handles** (`session.rs`, `exec.rs`): exit waiters (`WorkerClient`), the numbering
and closing of stdin and the resizes (`WorkerExec`).

### 1.3 Around the worker

| component | state and hard behaviour | status |
|---|---|---|
| deployment (`strop-worker-deploy`) | verification, publication, receipts, probe and start of worker binaries; several hosts share a cache, and any of them may die | `CacheHost`, partly |
| filesystem kernel (`strop-fs`) | prepared steps, name locks, staging, publication, receipts, verification | `SaveFile`, partly: files that are stored |
| saves and reloads (`strop-engine/src/editor`) | evidence of what the buffer was read from, one attempt at a time, unconfirmed attempts | `SaveFile`, partly |
| recovery (`strop-core/src/worker/recovery_policy.rs`) | read-only verification of unconfirmed attempts in a later session | `SaveFile`, partly |
| language servers (`strop-lsp`) | bounded outbound queue that merges changes, versions, diagnostics, initialisation | `LanguageSync`, partly: one client |
| protocol codec (`strop-worker-protocol`) | framing and decoding; the models start at decoded frames | not modelled |
| cancel tokens and effects (`strop-core/src/worker.rs`, `worker/effect.rs`) | token, resource hook, effect fence; a hook installed after the cancellation | planned |
| buffers, history, edit maps (`strop-core`) | text, the tree of undo revisions with its open group, the journal of a lease, the history a session keeps; long mixes of edits, jumps, reloads and restarts | `TextBuffer`, partly |
| collections (`strop-engine/src/editor/collections`) | a view of excerpts of buffers, updated in place from their journals or rendered anew | `CollectionView`, partly: one source |
| change plans (`strop-engine/src/editor/changes`) | edits prepared from a revision, applied later, receipts that take them back | `CollectionView`, partly: one buffer |
| completion (`strop-engine/src/editor/completion`) | bounded mailbox between providers and input; superseded queries | planned |
| pickers, terminal, remote pool, containers, UI protocol, git, syntax, grammar, themes, frontends | generation checks, bounded frames, pools, calls to external services, pure parsing and drawing | not modelled |

### 1.4 How the parts meet

A caller's request goes through `Conn` to the worker's reader, which admits it
into the scheduler; its thread pushes one outcome into the control lane, or an
opening followed by chunks in the data lane; the writer serialises both lanes;
the client's reader matches the outcome to the pending registry and routes
chunks to payloads; payloads send credits back to the worker's reader. Death
travels the other way: the end of the transport terminates the connection,
which must resolve every registry of the client; at the worker it stops the
reader, whose teardown revokes execs, drains, says `bye` and halts the scheduler.

A worker process exists because an editor deployed its binary into the host's
cache, where it registers a lease before it answers (`CacheHost`). A save is a
prepare and an apply of that worker, or of the editor's own in-process worker; the
editor's save machine reads its outcome or its loss (`SaveFile`). A language server is
an exec of the worker whose stdin and stdout carry the client's frames
(`LanguageSync` starts where those streams end). What is saved and synchronised is a
buffer: every mutation of it runs under a lease whose end hands the journal to
everything derived from the text (`TextBuffer`, `CollectionView`).

`PROJECT.json` lists, under `hazards`, the places where this can go wrong and
the property that watches each; those without a property say why.

## 2. The modules and the code

| module | lines of | what it is |
|---|---|---|
| `StreamFlow` | `stream_window.rs`, `fs.rs`, `process.rs`, `pty.rs`, `payload.rs`, `reader.rs`, `session.rs` | one session's worker-to-client streams, source to consumer |
| `RequestLedger` | `schedule.rs`, `serve.rs` | what a session promises of its requests: the abstract specification |
| `WorkerScheduler` | `schedule.rs`, `serve.rs`, `process.rs`, `pty.rs`, `stream_window.rs`, `guard.rs` | one serving session with all its threads; implements `RequestLedger` |
| `WorkerExec` | `process.rs`, `pty.rs`, `serve.rs`, `supervisor.rs`, `session.rs` | the execs of a session: launch, input, supervision, settlement |
| `WorkerClient` | `lib.rs`, `connection.rs`, `reader.rs`, `payload.rs`, `session.rs` | the client's lease over several worker incarnations |
| `CacheHost` | `cache_lease.rs`, `cache_gc.rs`, `handshake.rs`, `deploy.rs`, `workers.rs` | one worker cache, and everybody who writes in it |
| `SaveFile` | `strop-fs/src/local/`, `guard.rs`, `editor/io/`, `editor/remote/save/` | one file name, the editors that save it and the programs that change it |
| `LanguageSync` | `strop-lsp/src/client/` (`sync.rs`, `queue.rs`, `outbound.rs`, `api.rs`) | one language server connection |
| `UndoTree` | `history.rs` | what an undo history promises: the abstract specification |
| `TextBuffer` | `strop-core/src/` (`history.rs`, `history/validate.rs`, `buffer/mutation.rs`, `editmap.rs`), `journal.rs`, `transact.rs` | one buffer: text, history, journal, session snapshot; implements `UndoTree` |
| `CollectionView` | `editor/collections/` (`projection.rs`, `updates.rs`), `editor/changes/mod.rs`, `transact.rs` | a buffer with a view of its excerpts and change plans |
| `StreamFlowProofs`, `WorkerSchedulerProofs`, `WorkerClientProofs`, `WorkerExecProofs`, `CacheHostProofs`, `SaveFileProofs`, `LanguageSyncProofs`, `CollectionViewProofs` | | theorems |
| `MC...` | | small instances for TLC |

No run checks a type invariant by itself: `FlowTypeCorrect` proves that of `StreamFlow`,
where it bounds the credits, and those of the other modules with theorems are part of
their inductive invariants. Elsewhere a wrong type would show as an evaluation error or
in the properties that use the variable.

### 2.1 StreamFlow

*State.* `pump` is the position of the producing thread in its loop (`take` a
credit, read to `emit` or `drain`, `push`, `done`); `credits` and `abandoned` are
`WindowState`; `slot` is the client's `StreamSlot` (live or tombstone), `queued` and
`marks` the chunks and the resize markers in its bounded queue, `payload` the `ReadPayload` or `PtySession`. `returned`/`granted`, `revoke` and
`discard` are the credit, cancel and abandon frames on their way up.

*Terminals.* The reply that opens a terminal's stream is sent before its window is
registered (`pty.rs:129` and 180): `Announce` and `Register` are two steps, and an abandon
between them is not seen. Resizes of a terminal have markers in the same queue as its
chunks, and nobody draws a credit for a marker: `RouteResized` drops the stream when there
is no room. Its owner returns a credit for a chunk as soon as it has taken it.

*Abstraction.* The chunks of one stream never overtake each other, so they are
counted, not stored: `pushed`, `written`, `routed`, `taken`. Contents are not
modelled; a source is a number of chunks, and a read that announces a size
compares numbers of chunks where the code compares bytes. One action per branch
of the loops: `TakeStopped`, `TakeEmit`, `TakeDiscard` are the three results of
`StreamWindow::take`; `PushEnqueued` and `PushCancelled` those of `push_chunk` that a
stream sees while its session lives; `RouteChunk` is the whole of `route_chunk`
including tombstoning and the cancel it writes for an overflowing read.
`SourceFails` is a read error or a file truncated under the reader. The two
output pipes of an exec are two streams. Credit, cancel and abandon frames
of one stream are handled in any order, which allows more than the ordered
uplink does. Sequence numbers are implied by the counters. The end of the
transport (`Terminate`) ends the session, and the worker is not followed further.

### 2.2 WorkerScheduler

*State.* `requests`, `bulk`, `execs` and `handle` are the admission registry; `entries`
the session's exec table; `control` and `data` the lanes; `queued`/`written` the two
counters of `flush_data`; `token` and `lease` what has been cancelled; `pc`, `pump` and
`tail` the positions of a request's thread, its output pump and its settlement
thread; `reader` and `writer` those of the session threads; `hand` the frame that
has been popped and is not yet written; `waiting` the condition variable a
thread is parked on; `sent` what has reached the transport. `credits` and `abandoned`
are the stream windows, `quiesced` the authority, `handed` the resizes that wait at a
terminal's input thread, and `deaf` the terminals whose input thread has ended.

*Grain.* A critical section of the scheduler's mutex is one step. Two sections
read a flag that others write without the mutex — the request token in
`push_chunk`, the stop flag in `flush_data` — and there the read and the parking
are two steps with `lock` held between them: this is where a wake-up can be
lost (`PushFinds`/`PushParks`, `FlushFinds`/`FlushParks`, and `FlipToken` followed by
`WakeProducers`).

*Pumps.* Before each chunk a pump takes a credit (`TakeCredit`), finds its stream revoked or
over (`TakeStops`) or drains without delivering (`TakeDiscards`). The child of an exec writes
and ends when it likes (`ChildWrites`, `ChildEnds`), a service never; a client returns credits
(`Grant`) and drops streams (`Abandon`) when it likes. A file is read at once (`ReadReturns`).

*Refusals.* `Authorize` asks the authority, under a lock of its own, before the scheduler is
asked for room: a request of another incarnation (`Stale`) and a mutation of a quiesced
session are refused. The refusal is sent by the input loop itself, which parks on a full
control lane like any other thread.

*Resizes.* The resize of a terminal is handed to the input thread (`HandOver`) and its
request settles without an outcome. That thread answers later (`AnswerResize`), or ends
and drops what is in its queue (`InputEnds`).

*Abstraction.* An exec's two output pumps are one. Taking an exec out of
the table, releasing its permit and flipping its lease follow each other without
anything waiting between them and are one step (`RevokeLeases`), so are the
removal and the release of `settle` (`Joined`). A control request may be the
cancellation of any running exec; a resize that finds the input queue full revokes its
terminal (`Victims`). The grace of the
drain is not a clock: `Drained` may go on at any moment. Whether `bye` is sent is
free. `Events` stands for the other threads that push control frames. A pump
that panics (it halts the session) is not modelled. `Sessions` says which requests
meet in a session, so that one run covers several small sessions.

*The ledger.* `RequestLedger` has four variables: the ids seen, the slots taken, the
answers given and whether mutations are over. `Ledger == INSTANCE RequestLedger WITH used
<- {r : pc[r] is neither "new" nor "absent"}, open <- requests, answers <- outcomes,
retired <- quiesced`. `Admit` is the ledger's `Accept`; a refusal is its `Reject`, which needs a
reason: another incarnation, a retired session, or no room. The steps that push an outcome, or
an opening that carries one, are `Answer`; `Settle` is `Close`, which needs an answer unless the
request is a resize; a control request may `Retire` the session; all else stutters. The
property `KeepsLedger` says that every session does nothing else.

### 2.3 WorkerClient

*State.* A connection's number is its worker incarnation. `slot`, `slotLock`,
`connecting` and `closed` are `Shared`; `alive`, `pending`, `streams`, `execs` and `dying`
(how far `terminate` has come) are `Conn`; `reader[c]` is its reader thread, or the
caller whose reply that thread has taken and not yet delivered. A caller has a
position `pc`, the connection `at` which it calls, its reply channel `answer`, and
its stream and exit receivers. `retiring` holds the two threads in `close` and
`shutdown`.

*Connecting.* `Spawn` makes the transport, its reader thread and the worker, and from then on
the connection counts as alive; `Greeted` takes the worker's welcome, `Install` puts the
connection in the slot. `HandshakeFails` is a timeout, an error or a mismatch: the caller
leaves, and the connection stays with its reader thread, which owns a reference to it.
`stray` are the connections a lease has lost in this way, and those that `shutdown` cleared
from the slot although they were new. Properties about live workers count the others; the
lost ones have configurations in section 5.

*Grain.* The code takes one lock at a time per registry, so the alive check, the
insertion and the write of a call are three steps, as are the drains of
`terminate`, and the taking and the delivering of a reply. `close` keeps the
connecting lock to its end; `shutdown` keeps the slot while it retires and
clears it in a second section.

*The far end* is what a worker may do: answer a request once, end its streams,
report an exit, say `bye` when asked, leave, crash, or send a frame that does not
decode. It owes nothing: it may never say welcome, and may stop answering for ever. A mutation is a prepare
and an apply; `applied[k]` lists the incarnations in which it ran.

*Abstraction.* Each caller makes one call. The budget is the pending bound (bulk
and exec budgets are the same test on other counts). A payload is the fate of its stream:
chunks are the business of `StreamFlow`. The wait for `bye` is bounded in the code, so
`RetireTerminates` never waits.

### 2.4 WorkerExec

*State.* `wire` carries the client's frames in order; `launch` and `mode` are an exec's
request thread and kind; `entries`, `permits` and `lease` the exec table, the permits
and the revoked leases; `inbound`, `next` and `dropped` the inbound table, the sequence
it expects and who removed a slot; `queue`, `relay` and `hand` the channel to the relay
(or PTY input) thread, the thread and what it holds; `child` and `group` the process
and whether its group has members; `settle` the settlement thread with the
supervisor it runs; `op` the control requests.

*Grain.* A chunk is routed under the inbound lock: one step. Half-close finds its
slot and drops it in two, as the code does; so do the launch (slot, table entry,
reply) and the settlement (table, slot, exit). A teardown revokes what it finds in the
table; a launch under way enters it later. The supervisor observes the status
record, the revocation and the kill deadline in separate steps: the child may exit
between any two.

*Abstraction.* `Ask` is any control request of a client that obeys the protocol; its
thread runs when it likes. Output is left to `WorkerScheduler`. The grace after a
revocation is a step that may happen at any time (`DrainOver` says when it may not). Bytes
of a chunk are its number. A child that leaves its session with `setsid` is outside
`group`.

### 2.5 CacheHost

*State.* `file`, `receipt` and `record` are the cache's directories: per address an inode
and whether it is whole, the context its receipt binds, and the lease record of each
worker, which may be half written. `lock` is the OS lock. `worker[w]` is where a process is
between its start and its end, `exe` what it executes, `bound` the context it has read,
`pass` the running collection, `deploy` the position of each editor's deployment.

*Grain.* Every file operation is a step, because the editors take no lock and every
process may die anywhere (`Crash`, `Abandon`). A deployment starts two workers, the
probe and its own.

*Initial states* are what earlier sessions may have left: objects whole or damaged,
with or without a receipt, and a tenant that still serves or has left its record.

*Abstraction.* Digests are `good`; sizes are compared by `Sized`: a damaged object may
still have the size its receipt gives. Uploading is one step that ends in the rename
of a verified file. Contexts stand for the endpoint a receipt binds.

### 2.6 SaveFile

*State.* `objects` are the files ever made; `line` is what the name has stood for, in
order, and `floor` how much of that a power loss cannot undo; `lock` the save that holds
the name's lock; `saves` the attempts with their frozen evidence (`policy`), the
observation they were prepared on (`before`), their position and the receipt; `doc` the
editors: the text, the text it descends from (`base`), the evidence (`stamp`, `object`), the
attempt under way and whether it is unconfirmed (`frozen`).

*Two kinds of evidence.* A local document has the modification time it was read with; a
permit (remote and container documents) adds the identity and the digest of the file.
The kernel is the same for both.

*Verification.* A verification settles the attempt as written or unchanged, or it fails
(`VerifyFails`): the file moves under the observation, or another principal, namespace or
worker answers. The user of a permit then reads that the save failed, whatever became of it
(`told` is "doubted"); a conflict drops the attempt, any other error keeps it. A local
document keeps it in any case.

*Abstraction.* Locking and checking are one step, and so is a reload. The staged file
becomes an object when it is published. The receipt's witness is taken with the final
observation. A worker that dies is an error there followed by the loss of its reply.
Times are unique per write except that the store restores the time of the file it
replaces. Foreign texts are negative. Sizes, attributes and links are not modelled.

### 2.7 LanguageSync

*State.* `editor` is the editor's documents; `docs`, `seen` and `version` the client's
`SyncState`; `phase`, `flush` and `early` the initialisation (`early` logs the requests in
the order of their admission; `NextEarly` is the first that still waits); `queue`, `retired` and `accepting` the
outbound queue; `worker` and `ticket` the wire worker and the frame it waits for; `channel` the
frames between them; `server` the server's copies, with every copy it ever had in
`published`; `op`, `stamp` and `answer` the requests.

*Grain.* An editor call holds the sync lock and is one step, with everything it admits
to the queue; only a rename is queued without that lock. The flush of the initialisation
holds it from the first document to the last request, and no editor call comes between. It has
a step per document and request because the wire worker runs beside it, a rename may be
queued, and the connection may end. The wire worker
takes a job, hands it over and waits for its frame to be flushed: three steps.

*A failed flush.* `FlushFails` leaves the connection up until the editor drops the client.
`ServerMirrors` and the part of `DiagnosticsAttributed` about texts ask nothing of such a
connection; section 5 says why.

*Abstraction.* Texts are numbers; the queue's byte bound counts snapshots. The server
applies what it is sent and may publish a diagnostic about any copy it ever had, with
or without a version.

### 2.8 TextBuffer

*State.* `buf` is the buffer: `text` a sequence of bytes, `epoch` its revision number,
`history` the arena of revisions (`tree`, with `parent`, the child visited `last`, and the
edits of both directions), the current one (`at`) and the open group (`undo`, `redo`),
`changes` the journal. Three variables are not in the code: `leased`, the text before
the current lease; `texts`, the text every revision was committed with; and a
counter of restarts.

*Grain.* A command runs on the editor's thread alone. A lease is one operation, and
`Release`, the end of it, is the only step that may follow while the journal is not
empty (`Idle`): that is what dropping a `DocumentEdit` does. A group stays open over several
leases, until `CloseGroup` or until undo, redo or a jump commits it.

*Algorithms.* `OpsTo` and `Moved` are the two halves of `ops_to`: the edits of the way up to
the `Fork` and down (`UndoneTo`, `RedoneFrom`), and the trail of last visits along both legs
(`Visit`). What the code does in a loop is a recursive function of the position in a sequence
or of a revision and its parent, so that it can be proved about. `Snapshot` keeps the newest path, the open
group first, and gives up when that alone is too large; `ValidFor` is the replay that
admits it again. `ReplacementsIn` composes a journal: the code keeps pieces (ranges of
the text before, or typed text), the model the origin of every byte, which is the same
partition; `Walked` is one round of its second loop. `Undo`, `Redo` and `Jump` are refused when the revision numbers would run out.

*The tree.* `UndoTree` has texts at its revisions and no edits: `Go(k)` shows the text of k.
`Tree == INSTANCE UndoTree WITH tree <- [texts |-> texts, through |-> ... .last], shown <-
buf.text, drafted <- ...`; `KeepsTree` says that reversed edits, forks, open groups, reloads
and what a session restores never make the buffer show anything else. `Reopen` allows any
newest part of the line: which one is `Snapshot`'s business.

*Abstraction.* Ropes are sequences of bytes; a character of two bytes has one inner
position, which is no boundary. The no-op edit is left out of `ReplacementsOf`, as the code
leaves it out of the journal. A batch has any number of edits that `check_batch` admits (two
in the run). The dirty and read-only flags, marks and the positions of views are not modelled. A restart
reads the file: its text or that of the session.

### 2.9 CollectionView

*State.* `view` is the generated text, the role of each of its rows and the excerpts
with their span of the source and their place in the view (`Closed` without a
collection, `Stale` after a failed update); `plan` the prepared edits; `receipts` what
`:undo-change` takes back.

*Actions.* `Sync` is `sync_document_positions` for a collection: from the journal it computes
the composed replacements, moves the spans of the excerpts (`Followed`) and edits the view
(`ViewEdits`, `Terminated`, `MapView`), or renders it anew (`Rebuilds`). `Prepare`, `ApplyPlan`,
`RefusePlan` and `UndoChange` are the life of a plan; anything may happen between them.

*Abstraction.* One source, so one card, and a plan about one buffer. The text of titles and
borders is a token; that of a gap is its number of lines. Two ghosts in a receipt: the text
before the plan, and whether its revision holds the plan and nothing else.

## 3. The runs

All runs check deadlock off: callers finish, sessions end and transports die, and
after that nothing has to happen. State counts and times are for two TLC workers.

| run | instance | shows | size |
|---|---|---|---|
| `flow_streams` | 1 stream of any kind, window 2, queue 4, ≤ 3 chunks, ≤ 2 resizes; or 2 streams on a shared lane of 1; fair | credits, slow consumers, unknown streams, whole reads; a dropped payload's producer ends; one stalled consumer does not stop the other | 314 k states |
| `scheduler_lanes` | terminal + read, terminal + control, terminal + resize, an exec that is dropped, control + event, read + event; lanes and windows of 1, 2 slots, 1 reserved | permits, the reserve, order on the transport; the ledger is kept | 814 k |
| `scheduler_progress` | exec; read + refused read; windows of 2; a client that may vanish or stop reading, fair | no lost wake-up; sessions end; a cancelled read ends | 148 k |
| `exec_input` | 1 exec of any kind, ≤ 3 chunks, a half-close, a cancel, a resize, queue of 1 | input, its end, poisoning, the reach of teardown, the kill, what is left after settlement | 1 013 k |
| `client_lease` | reader + mutator, 2 connections, a fault or a failed handshake, close | one live worker, none after close, no replay, one reply per call | 766 k |
| `client_death` | exec + mutator, shutdown, fair | registered calls of a dead connection return | 79 k |
| `cache_host` | 2 editors with different releases, an old tenant, 3 files ever made | a serving worker keeps its object; probes do not pin; torn records | 806 k |
| `language_sync` | 2 documents, 3 texts and 2 openings of one of them, a request, queue of 2, ≤ 4 versions, a rename, fair | the server follows; answers and diagnostics are about the right text | 835 k |
| `save_file` | a permit and a local editor, 2 texts, 2 saves, 1 foreign write | reports are true; checked files stay; only what was seen is replaced | 3 414 k |
| `text_views` | a word of one two-byte character, 2 payloads, ≤ 5 changes, a restart, 2 revisions of 6 bytes kept; or 3 lines under 2 excerpts, ≤ 3 changes | the undo tree; journals compose; kept histories replay; views are exact; plans own their change | 199 k |
| `language_rename` | 1 document, a request, a rename, fair | counterexample of section 5 | < 1 k |
| `save_verify` | 1 permit, 1 save, fair | counterexample of section 5 | < 1 k |

*Why the bounds are enough to be interesting.* `MaxChunks` = 3 with a window of 2
makes a pump run out of credits and continue on a returned one, and lets a
stream end with and without a full window; the queue of `Window + 2` is the
smallest in which a terminal keeps its stream with one marker and loses it with two (the
code has 32 and 64). Lanes of one frame make
every push meet a full lane, also that of a refusal by the input loop, with the frames of
another request behind it; windows of one or two make a pump wait for a credit. Two slots with a reserve of one make refusals
happen next to admissions. `MaxConns` = 2 allows one reconnection and so every
race between an old and a new incarnation; `MaxFaults` = 1 crashes either.
`MaxEvents` and `MayFail` add one unsolicited event and a vanishing client. Two
callers of different kinds meet at each shared lock. A relay queue of one with
three chunks is full while one chunk is in the thread's hand and one on the wire. A
language queue of two jobs refuses, merges and bars within one open, two changes
and a request; two openings of a path reuse it, and four versions cover every
text. `MaxInodes` = 3 lets both editors publish beside what the earlier session
left. Two saves and a foreign write give every pair of writers each order. In
`text_views` typing comes in the first four changes of the word, so that undo, redo
and jumps have revision numbers left; that is enough for a fork with a branch of
two, for a group open on a branch, and for a history of more than the two revisions
that are kept. The listing has an excerpt at its start, a gap of one line, and an
excerpt that ends without a newline at the end of the text, and every replacement of
up to two bytes is made on it, then on the result, alone or in a batch.
Everything that is safe and has a theorem (section 6) holds without these bounds.

Each property is also run against a changed definition (the ones commented as
mutants in the modules: a flush that takes the wrong target, an undo that replays in
the order of typing, a recheck that is skipped, a wake-up that is not sent, a collection
that reads only its own record, ...) and is violated there, so the instances are
large enough to see each of these errors.

## 4. Fairness

* **StreamFlow** — pumps, the writer and both readers run when they can. Payloads
  are read only for the streams in `Readers`: reading is the caller's decision, and
  `ReadersServed` is about one caller while another never reads. Two streams leave
  out cancellation and faults, which one stream alone has in the same run. Nothing obliges a caller to cancel or drop.
* **WorkerScheduler** — `ThreadsRun`: a thread that is not parked runs. Arrival of
  frames (`ReaderStep`, which holds credits and abandons too), events, the disappearance of
  the client, and what a child writes and whether it ends are never forced. `FairSpec` adds
  `Transport`: the client keeps reading, or is gone and writes fail, until it may stop
  reading for good (`Stalled`). `CancelledReadSettles` holds even then; the other two promise
  nothing once the client has stopped. `WorkSettles` also leaves out a stream that is owed a
  credit for ever (`Starved`) and an exec whose child runs on (`Serving`): both end with the
  session at the latest, which `SessionEnds` says without any such exception.
* **WorkerClient** — client threads run. `Spawn`, `Greeted` and `HandshakeFails` stand for an
  attempt that ends. Nothing is assumed of workers, faults, or of anybody calling close.
* **LanguageSync** — the wire worker, the writer and the request tasks run; the editor, the
  handshake and the end of the connection are free.
* **SaveFile** — workers run, replies are read and an unconfirmed attempt is verified
  whenever it can be. Only `save_verify` needs it.
* **WorkerExec** — `FairSpec` (threads run, the child reads) is used by
  `Exec_answers.cfg` only. **CacheHost**, **TextBuffer** and
  **CollectionView** have safety properties only.

Weak fairness is enough everywhere: locks are held for bounded sections, and no
property depends on a particular thread winning a lock repeatedly.

## 5. Where code and comments disagree

Two runs must end in a counterexample; `PROJECT.json` quotes the comments.

| run | property | what happens |
|---|---|---|
| `language_rename` | `RequestsLeave` | the wire worker waits for a `didRenameFiles` frame that it files under another method; no later job leaves |
| `save_verify` | `UnconfirmedSettles` | an unconfirmed save of a permit that never ran is not recognised as unchanged: the observations that are compared differ in their digest |

More configurations reach states that comments exclude. They are kept beside the
runs, and each ends in a counterexample:

| configuration | property | what happens |
|---|---|---|
| `StreamFlow_pty.cfg` | `DiscardedDrains` | a terminal's abandon that arrives between the reply and the registration of its window is ignored; the pump then waits for a credit for as long as the exec lives (`serve/process/pty.rs:129`, 180, `serve.rs:395-402` against `stream_window.rs:6-7`) |
| `StreamFlow_resizes.cfg` | `StalledTerminalKept` | resize markers take room in the client's queue without a credit; a terminal that is resized while nobody reads loses its stream (`connection/reader.rs:255-268` against `session.rs:243-246`) |
| `Scheduler_revoked.cfg` | `RevokedPumpEnds` | revoking an exec does not wake its pump behind a full lane (`serve/process.rs:473` against 17-20, 189-191) |
| `Client_calls.cfg` | `CallsResolve` | a call registered after `terminate` has drained the registry waits for ever (`connection.rs:485` against 504) |
| `Client_exits.cfg` | `ExitsResolve` | `terminate` does not drain exit waiters (`connection.rs:515` against `session.rs:20-21`) |
| `Client_handshake.cfg` | `LostOnesEnd` | a connection whose handshake failed stays alive with its worker, because its reader thread holds a reference to it; a retry starts a second worker, and close does not retire the first (`connection.rs:334-385` against 358-359) |
| `Client_shutdown.cfg` | `CloseRetiresAll` | shutdown clears a slot that a reconnection has filled; close then leaves a live worker (`lib.rs:619` against 625-627) |
| `Exec_order.cfg` | `WireOrder` | a resize runs on a request thread of its own and may reach the terminal after input that was sent behind it (`serve/process/pty.rs:297-299` against `serve.rs:445`, 491-495) |
| `Exec_stray.cfg` | `NoOrphan` | a launch that is under way enters the exec table after teardown has emptied it; nobody revokes that child, and it runs until its supervisor meets the end of the worker process (`serve/process.rs` and `serve.rs:643` against 634-635) |
| `Exec_answers.cfg` | `RequestsAnswered` | a PTY input thread that leaves drops the resizes in its queue with their replies (`pty.rs:147-150` against `serve.rs:22-24`) |
| `Cache_publish.cfg` | `ServingBound` | an editor that found an object damaged removes it by name, without the lock, when another editor has published it anew and started a worker from it (`deploy.rs:374` against 372-373, 415-416) |
| `Language_close.cfg` | `OpensAlternate` | a refused didClose is forgotten, and the next open is a second didOpen (`sync.rs:241-243` against `queue.rs:13-14`) |
| `Language_flush.cfg` | `VersionsNeverRelabel` | after a flush that met a full queue, `did_change` records a new text under the version of the old one; a diagnostic of the old text then carries the recorded version (`sync.rs:273-278`, 161-205 against 28-29) |
| `Save_conflict.cfg` | `FailuresNeverLanded` | a verification that meets a moving file, another principal or another namespace tells the user that the save failed, although it may have landed (`remote/save/editor.rs:364-393` against `io/save.rs:131-134`) |
| `Save_unseen.cfg` | `LocalsReplaceTheirBase` | a save keeps the modification time of the file it replaces, which is the only evidence of other local buffers: the next save from one of them replaces a text it has not seen (`attributes.rs:167-169`, `save.rs:433-440`) |
| `Text_stale.cfg` | `ProjectionAlwaysExact` | a batch that replaces the newline before an excerpt and inserts at its start composes to new text that has a place in neither the gap nor the excerpt; the view keeps the old text (`updates.rs:84-89`, `transact.rs:142-157` against `plans/0049-product-and-architecture-handoff.md:274-276`) |
| `Text_undo_change.cfg` | `UndoneIsWhatWasDone` | a plan applied while an undo group is open commits one revision with what was typed, and `:undo-change` takes back both; a plan without effect leaves a receipt for a revision of others; after a reload the same revision number names another one (`changes/mod.rs:286-290` against 274-276, `docs/search.md:124-126`) |

`ProjectionExact` and `PlansOwnTheirChange` are what remains true of these two: the first
without such a replacement (`Abuts`), the second for receipts that own their revision.
`SlowConsumerKept`, `DroppedDrains`, `OneLiveWorker`, `ClosedLeavesNone`, `TeardownRevokes` and
`ReportsAreTrue` are what remains true in the cases of `StreamFlow_resizes.cfg`,
`StreamFlow_pty.cfg`, `Client_handshake.cfg`, `Client_shutdown.cfg`, `Exec_stray.cfg` and
`Save_conflict.cfg`: each names what it leaves out.
`client_death` is the positive half of `Client_calls.cfg`: whoever is registered in time
does get a reply. `RequestsLeaveUnrenamed` is that of `language_rename`.

Observations visible in the actions, without a configuration of their own:

* `connection/reader.rs:220` — the terminal chunk that discovers a dropped payload
  leaves its tombstone in the stream table (`RouteChunk` of `StreamFlow`);
* `serve.rs:436` — refusals are pushed by the input loop, which parks on a full
  control lane like any other pusher (`SendRefusal`);
* `connection/reader.rs:91` — a stream registered after `terminate` has drained the
  stream table is never failed, like the calls of `Client_calls.cfg`;
* `serve.rs:591-593` says that flow pressure does not poison the session, but it removes
  the inbound slot, so the next chunk in flight does (`PoisonIsLate` names the two cases);
* teardown waits for requests, not for the execs it has revoked; a child that has
  moved to a session of its own and holds stdout keeps the settlement waiting;
* `cache_lease.rs:196-205` — a torn lease record, left by a crash, makes every later
  collection refuse, and `workers.rs:204-213` treats a refused collection as a failed
  start (`Snapshot`); a probe that is given up while it waits for the lock may leave a
  record that pins its object; a crash between rename and receipt leaves an object
  without one, which `deploy.rs:459-460` excludes;
* `sync.rs` — a flush that meets a full queue leaves the connection up and not
  ready (`FlushFails`); a request checks its owner and is sent in a second step;
* `remote/save/editor.rs:94-104` — an unconfirmed attempt also refuses a forced save
  and a save under another name; a verification may report "unchanged" while the worker
  that was lost still runs;
* `notify/reconcile.rs:466-471` — a reload with an equal time stamp is no news, even if
  the text has changed.
* `changes/mod.rs:243-256` — a plan without effect, applied while a group is open, adds to
  `applied` and not to `applied_positions`; a later `:undo-change` indexes the second with
  a place in the first (`Position` is then -1 in the model, which no revision is);
* `undo.rs:79` — the undo tree's rows keep revision numbers; a jump does not check that the
  history was reset by a reload since they were listed.

## 6. The proofs

`tlapm` checks the eight `...Proofs` modules to the last leaf. The theorems hold for every
value of the constants under the assumption of the module they are about, which TLC
evaluates in its runs:

| assumption | what it asks, and why the code allows it |
|---|---|
| `FlowAssumption` | `Inbound > Window >= 1`: the client's queue is longer than the window (64 and 32) |
| `SchedulerAssumption`, `ThreadAssumption` | finitely many requests; lanes have room for a frame; budgets are numbers; threads have names of their own |
| `ClientAssumption`, `ClientThreadAssumption` | bounds are numbers; the two retiring threads and the steps of a reader thread are no callers |
| `ExecAssumption` | finitely many execs and requests, a queue of at least one, and requests that are no chunk numbers, since one queue carries both |
| `CacheAssumption` | finitely many editors and objects; the markers "none" and "torn" are no object and no context |
| `SaveAssumption`, `SyncAssumption` | bounds are numbers; paths are ordered |
| `TextConstants`, `ViewConstants` | bounds are numbers, and one receipt at least is retained; what is typed and what files hold is a sequence of whole characters (both are UTF-8 strings in the code), and what is typed is not empty; the marker `Unfit` is no text |

One theorem has a hypothesis of its own, `RetiresDamaged` of `ServingStays`: without it the
property is false, and `Cache_publish.cfg` has the counterexample. No theorem needs fairness.

The inductive invariants hold in the module's run when they are given to TLC beside its
properties. Each proof has one lemma per part of the invariant and, in it, one step per
action; what actions have in common (a thread that goes on, a job that enters the
queue, a step about one save) is a lemma that they cite.

**StreamFlow.** `FlowTypeCorrect`, `CreditsConserved`, `SlowConsumersAreKept`,
`StreamsAreKnown`, `ReadsAreWhole` (one inductive invariant). The chain is: credits in
the window, credit in hand and chunks pushed always add up to the window plus
the credits granted (conservation); grants never exceed returns, returns never
exceed chunks taken; so the chunks between pump and payload are at most the
window plus the bare terminal marker, which is at most the client's queue (`QueueBounded`).
A queue can only overflow when resize markers fill what the window leaves of it, and only
terminals have markers (`Marked`); otherwise only a dropped payload tombstones its
stream. A tombstone is a slot, too: every slot stays in place until its terminal frame, so no
chunk meets an unknown stream. The window of a terminal whose opening has only been
announced is untouched: it has pushed nothing. Conservation alone is not inductive: it
needs the order of the four counters and what each pump position says about the
chunk it holds.

**WorkerScheduler.** `CountersAreTrue` and `ReserveIsKept` follow from `RegistryInv`, which
ties the registry to the threads: the registered ids are exactly those whose
request thread runs, an exec is in the table only after its launch, and its
permit is held by the launch or by the entry, never by both. Without that link
the counters are not inductive: a step that adds an id to the registry has to
know that it was not there. Only the lemmas about the operations name the
guards, so each admission, settlement and revocation is one fact about finite
cardinalities. `OutcomesAreSingle` needs in addition that the right to answer is in one place
(`OutcomeInv`): with the input loop that refuses the request, with its own thread, or with the
input thread of a terminal that it was handed to, and that a request which settles has used
it or handed it over.

`SessionKeepsLedger` is the refinement: `Spec => KeepsLedger`. Initial states map to the
ledger's initial state. For a step, the guard of `Accept` needs the budget that `admit`
tests to be the ledger's, which is counted from the open requests: `CountersAgree`
and `RegistryInv` give that. `Reject` needs a reason, which the authority (`AuthorityRejects`) or
the registry (`RefuseRejects`) had; `Accept` does not ask whether the session is retired,
because a request that the authority has let pass may be admitted after it. `Answer` needs that
nobody has answered before, and `Close` that somebody has or that the request is a resize: both
are `OutcomeInv`. Each action then is one operation of the ledger or
leaves `used`, `open`, `answers` and `retired` unchanged.

`OpeningsComeFirst` is about two lanes: while the
transport works, a pump that runs, and each chunk in the data lane, has its
opening in the control lane, in the writer's hand or on the transport
(`OpeningInv`); when the writer turns to the data lane the first two are empty, so
the chunk in its hand has its opening on the transport. Once a write has failed
nothing else is written, and the invariant asks nothing more of the lanes.

`ExitsComeLast` is about the other end. A settlement does not wait for its own chunks but
for a count: `flush_data` reads `queued_data` and waits until `written_data` has reached
it. Until the session stops the difference of the two is what the lane and the writer's
hand hold (`Counted`), the lane is a queue, and so `Within(r, n)` — the terminal chunk of r is
among the first n — is kept by every push, pop and write. A pump that is done is within
what has been queued, a settlement that flushes is within its target, and one that has
seen its target written finds the chunk on the transport (`Tailed`). That exit frames already
pushed keep this, on their way through the control lane, is `ExitFrames`.

**WorkerClient.** `LeaseOwnsOneWorker` and `CloseIsFinal` follow from `LeaseInv`: between
opening a connection and installing it a caller owns the connecting lock
(`Holders`, `Owned`), every live connection is the one in the slot, the one being
installed, the one close is retiring, or one in `stray`, and once `closed` is set and close
has its lock no caller is past the recheck (`Barred`). `OneLiveWorker` itself says nothing
about locks and cannot be inductive. Both theorems allow any number of failed handshakes,
and `shutdown` at any time. `AuthorityInv` says
where the single apply request of a mutation can be — not yet sent, sent to
the connection that prepared it, or consumed — and that a connection's number is
never reused; from this an apply runs at most once and in its own session, with
close, shutdown, crashes and any number of callers.

`RepliesAreSingle` follows from `ReplyInv`: the right to reply to a caller is in the pending
registry of one connection, or in the hand of that connection's reader thread, or used
up, and never in two of these places. A reply that a terminating thread sends by draining the
registry uses it like one the reader delivers. A caller registers again only when its
channel is empty.

**WorkerExec.** Five theorems from one invariant, `ExecInv`. `TeardownReachesAll`, `ExitIsKept`
and `GroupsEnd` need where an exec stands: it is in the table from `Enter` until somebody
takes it out, who flips its lease, or until its settlement has reaped it (`Lives`); a
settlement leaves the group empty before it reaps. `TeardownReachesAll` is about the step that
begins the drain (`DrainFollowsTeardown`): a child that runs and has entered is in the table,
and revoked now, or was revoked by whoever took it out. A launch under way is neither, and
`Exec_stray.cfg` follows it. `PoisonComesLate` needs the wire: the
chunks of an exec that are under way are exactly those from the next expected one to the
last one fed, in order, as long as the worker has its slot (`Wired`), so a chunk that finds
no slot finds one that pressure or the settlement has removed; a half-close is behind all
chunks (`Closes`). `InputArrivesWhole` needs the queue: the chunk in the thread's hand is the
next the child reads, and those queued go on from there without a gap up to the next one
expected (`Held`, `InOrder`, `NoGap`), whatever resizes are between them. The property itself
says nothing of the queue and is not inductive.

**CacheHost.** `HostInv` says where the two workers of a deployment can be at each of its
steps, that only a worker being admitted or one that collects has the lock (`Locking`), that a
serving worker is recorded under its object (`Recorded`), and that what a collection has read
stays true while it holds the lock (`Known`). `ProbesDoNotPin`, `UnreadableKeepsAll` and
`CollectionSparesServing` follow: a torn record is made only under the lock, and so is a
record that names a new object. `ServingStays` adds `Bound`, that under the name of a worker
that lives and executes the file of that name there is a whole file, and that what a worker has
checked under the lock is there until it serves. Collections keep this by `HostInv`. Editors
take no lock and remove by its name what they have found damaged; `RetiresDamaged` says that
such a removal meets the damaged file, as it does unless another editor has published the same
object anew in between. That race is in the model and in the code, and `Cache_publish.cfg`
is its counterexample; the theorem says that it is the only way to lose the object of a
serving worker, also for editors with the same release or the same context. The other three
theorems have no hypothesis.

**SaveFile.** `SavesExclude`, `ReportsHold` and `OnlyTheSeenIsReplaced` follow from `SaveInv`. The
lock belongs to the save between its check and its end (`Locking`). What a save under the
lock has seen is the file as it was when the counter of foreign writes stood at `calm`
(`Seeing`), which holds because a foreign write moves that counter and the change time. An
editor with a permit has a text that descends from what it was shown, and a save of it
names that text (`DocDescends`, `SaveDescends`). `Durable` is about texts, not saves: that a
verification may conclude from equal texts that its own save has landed needs `Stored`,
that a typed text is in the store only if a save of that text put it there. Nothing is proved of
what a verification that fails tells the user: it may be false. `ReplacesOnlyTheSeen` is an
action property and follows at each publication from `Seeing` and `SaveDescends`.

**LanguageSync.** `ServerFollows`, `AnswersHold`, `DiagnosticsHold` and `BarrierKept` follow from
`SyncInv`. Its core is `Mirrored`: the last notification about a document among those on their
way says what is recorded, and when there is none the server has it. A change that
merges takes the place of an older change with nothing behind it that concerns the
document or asks (`PlacedAt`), which keeps `Mirrored` and the dual fact about requests: the
text before a queued request is the one it is stamped with, and nothing about its document is
behind it as long as the stamp is current (`Barred`). `Waits` ties the worker to the frame it
waits for, so a request leaves the queue after every notification has been written; `Known`
that a version stands for one document and one text. The lemma `StepKinds` sorts the
actions by what they do to queue, channel and server, and the larger parts of the
invariant are proved per kind.

Proving it changed the model in one place and corrected three properties: requests
admitted during the handshake are sent in the order of their admission with the cancelled
ones passed over (`NextEarly`), and a connection whose flush has failed keeps neither
`ServerMirrors` nor the text part of `DiagnosticsAttributed` (`Language_flush.cfg` reaches
this with room for one snapshot; the run has room for two and does not); and
`BarrierHolds` now says that *nothing but requests* is before the writer.

**TextBuffer and CollectionView.** Five theorems from one invariant, `ViewInv`. Its part about
the buffer, `TextOk`, says for the n revisions beside the root: each has an older parent
(`Shaped`); redoing a revision leads from its parent's text to its own, and undoing it,
newest edit first, back (`Told`); the open group does the same from the current revision's text
to the text shown (`Leads`); every revision on the way to the current one is the last visited
child of its parent (`Trail`); and the journal accounts for the text since the lease, byte by
byte (`Accounts`). None of the properties is inductive: they say what is *shown*, and only `Told`
knows that the edits stored in the tree would show it.

`HistoryKeepsTree` is the refinement `ViewSpec => KeepsTree`. The edits of a journey lead from the
current text to the target's, because each leg is a chain of edges that `Told` knows
(`UndoneToReaches`, `RedoneFromReaches`, `OpsReach`), and `Travelled` neither skips an edit nor adds one
(`Arrives`). `Trail` makes the two visits of `Moved` the abstract way towards a revision (`MovedIs`,
`AbsGone`): the first leg changes nothing, and the second turns the pointers on the way down.
A commit is `Grown`, a reload a new `Line`, a restart the newest part of the line (`LineIs`).
`SessionsRestore` follows from the same facts about the straight history that a snapshot is
(`SnapshotIs`, `Straight`): its revisions tell the same texts (`Survives`), so its replay is
admitted. `PlansKeepTheirs` needs that the text changes only with its revision number (`Ages`),
and that no step forgets a revision that a receipt names (`Remembers`). A reload raises the
revision number and disowns the receipts; a restart drops the plan and all receipts.

`JournalsCompose` has two halves. `OriginsOk` is kept by every change: where a byte comes from is
increasing, its value is that of the byte before the lease, and the mapping of positions finds
it again (`OriginsExtend`, `MapShift`). The walk that composes the replacements keeps `Walking`: the
edits so far are a sorted batch that leaves the bytes that stayed alone (`Misses`) and, applied from
the back to any text that begins as the leased one does, make the text up to byte i (`Turns`).
The last piece reaches the end of both texts (`WalkReaches`).

These proofs are inductions over sequences and trees. The induction theorems of the library
take a predicate and cannot be instantiated by the installed provers, but one over a *set* can be:
`Induction` and `Descent` follow from the least element of what a set misses. What a
recursive function computes is likewise brought back to sets: a run with the stated steps
exists (`TreeRecursion`, `LinearRecursion`), it is the only one, so the function is that run
(`MappedRun`, `OriginsRun`, `TravelledRun` and their like).

For this the models were rewritten in places without changing what they say (the run has
the same states): folds and recursive operators became recursive functions, and the first
revision of a line is its last element. Stating the theorem showed that the batch
of the next-state relation had to be any sequence of replacements rather than a pair of them,
and that payloads must be whole characters: the removal that undoes an insertion is refused when
it ends inside one.

## 7. What is only checked and what is not modelled

Every invariant and action property of the passing runs has a theorem, except one. Checked
by TLC only:

* `ProjectionExact`: that a view edited in place is the one that would be rendered anew. The
  renderer and the view edits are folds over excerpts and their rows; their invariant would have
  to relate three texts (source, view and rows) through every kind of overlap of a journal with
  an excerpt, and it has not been found in a form the provers take.
* Everything with `~>` or fairness (`DroppedDrains`, `ReadersServed`, `WorkSettles`, `SessionEnds`,
  `CancelledReadSettles`, `RegisteredCallsResolve`, `RequestsLeaveUnrenamed`): TLAPS proves no
  liveness under fairness and no `ENABLED`.
* `ServingBound` in the race of `Cache_publish.cfg`, where it is false: `ServingStays` holds
  of all other behaviours.

The bounds of the runs on connections, files, saves, versions and chunks cut off
behaviours; the theorems hold without them.

Not modelled: bytes, framing and codecs (the models work on decoded frames); uploads
of mutation content; the refusals of a closed authority; notifications;
multi-file transactions, listings and renames of the filesystem kernel; the registry
of language servers, restarts, completion and workspace symbols; the rest of the
editor (pickers, rendering, input), which is sequential or draws; of buffers and
collections: ropes, the dirty and read-only flags, marks, cursors and views, matches and hit
anchors, context resizing, edits made in a collection, several sources in one, and
plans over several documents. Clocks:
every timeout is a step that may happen at any time. Memory exhaustion and panics.

The repository is large, and most of it is sequential: key bindings, parsing, layout
and drawing, with unit tests that reach it. The models cover the parts where the order
of events decides, which is a small share of its lines.

## 8. Plan

1. `StreamFlow`, `WorkerScheduler`, `WorkerClient`, with proofs; `RequestLedger` and the
   refinement; `WorkerExec`, `CacheHost`, `LanguageSync`, `SaveFile`; `UndoTree`, `TextBuffer`,
   `CollectionView` — done.
2. Theorems of `WorkerExec`, `CacheHost`, `SaveFile` and `LanguageSync`; `ExitFollowsOutput` and
   `RepliedOnce` — done.
3. `CancelToken` — hook, clearing and the effect fence of `strop-core`.
4. `CompletionMailbox`; `Notify` (overflow and rescan); the registry of language servers.
5. Theorems of `TextBuffer` and `CollectionView`: the tree, journals, sessions and plans — done;
   `ProjectionExact` is left. A collection of several sources and plans over several documents.

## 9. Running

    tlc -workers 2 -config Client_lease.cfg MCWorkerClient
    tlapm WorkerClientProofs.tla

`PROJECT.json` lists the module, configuration and expected result of every run.
