-------------------------- MODULE WorkerScheduler ---------------------------
(***************************************************************************)
(* One serving session of the worker: its reader thread, its writer        *)
(* thread, one thread per admitted request, the threads that see an exec   *)
(* to its end, and the scheduler they share -- the admission registry with *)
(* its budgets, the control and the data lane, and the four condition      *)
(* variables the threads park on.                                          *)
(*                                                                         *)
(* Every critical section of the scheduler's lock is one step, except      *)
(* where a section reads a flag that is written without the lock (the      *)
(* request token in push_chunk, the stop flag in flush_data): there the    *)
(* read and the decision are two steps, with `lock` held between them.     *)
(***************************************************************************)
EXTENDS Integers, Sequences, FiniteSets

CONSTANTS
  Requests,       \* request ids the client may use, each once
  Class,          \* Requests -> {"control", "standard", "bulk"}
  Execs,          \* the standard requests that launch a process
  Ptys,           \* those whose process has a terminal
  Resizes,        \* the control requests that resize a terminal
  Mutations,      \* the requests a retiring session takes no more
  Stale,          \* requests stamped with another session incarnation
  MaxPending, ControlReserve, MaxReads, MaxExecs,
  DataChunks, ControlFrames,   \* lane capacities
  Window,         \* credits a stream starts with
  MaxChunks,      \* bound: data chunks each stream produces
  MaxEvents,      \* bound: unsolicited events (exec input, notify)
  MayFail,        \* bound: whether the transport may fail
  Dropped,        \* bound: requests whose stream the client may drop
  Sessions        \* bound: what one session sees, a set of request ids,
                  \* with "events" in it when unsolicited events come

ASSUME SchedulerAssumption ==
  /\ IsFiniteSet(Requests)
  /\ Class \in [Requests -> {"control", "standard", "bulk"}]
  /\ Stale \subseteq Requests
  /\ Execs \subseteq {r \in Requests : Class[r] = "standard"}
  /\ Ptys \subseteq Execs /\ Execs \subseteq Mutations
  /\ Mutations \subseteq {r \in Requests : Class[r] = "standard"}
  /\ Resizes \subseteq {r \in Requests : Class[r] = "control"}
  /\ Window \in Nat
  /\ MaxPending \in Nat /\ ControlReserve \in Nat
  /\ MaxReads \in Nat /\ MaxExecs \in Nat
  /\ DataChunks \in Nat \ {0} /\ ControlFrames \in Nat \ {0}
  /\ MaxChunks \in [Requests -> Nat] /\ MaxEvents \in Nat /\ MayFail \in BOOLEAN
  /\ Dropped \subseteq Requests

Reader == "reader"
Writer == "writer"
Events == "events"
Free   == "free"
ASSUME ThreadAssumption == {Reader, Writer, Events, Free} \cap Requests = {}

VARIABLES
  requests, bulk, execs,      \* the admission registry and its counters
  handle,                     \* ids whose cancel handle is still in its slot
  entries,                    \* execs in the session's exec table
  control, data,              \* the lanes
  queued, written,            \* queued_data and written_data
  halted, stop,
  token, lease,               \* cancelled request tokens and exec leases
  lock,                       \* who is inside a two-step section
  waiting,                    \* the condition variable a thread is parked on
  pc, pump, tail,             \* request threads, output pumps, exec settlement
  left,                       \* data chunks a pump has still to produce
  target,                     \* flush_data's target
  reader, subject,            \* the reader thread and the request it handles
  writer, hand,               \* the writer thread and the frame it popped
  quiesced,                   \* the authority takes no more mutations
  handed, deaf,               \* resizes at a terminal's input thread, and the
                              \* terminals whose input thread has ended
  credits, abandoned,         \* the window of each stream
  events,                     \* unsolicited events still to come
  peer,                       \* the client's end of the transport
  outcomes,                   \* Result frames pushed per request
  sent                        \* per request: what reached the transport

registry == <<requests, bulk, execs, handle, entries>>
lanes    == <<control, data, queued, written, halted>>
flags    == <<stop, token, lease>>
owners   == <<pc, pump, tail, left, target, outcomes>>
ends     == <<reader, subject, writer, hand, peer, sent>>
world    == <<quiesced, handed, deaf, credits, abandoned, events>>
vars == <<registry, lanes, flags, lock, waiting, owners, ends, world>>

Threads == Requests \union {Reader, Writer, Events}
Signals == {"control_ready", "data_room", "control_room", "data_written"}

Awake(t) == waiting[t] = "no"
Wake(signals) == [t \in Threads |-> IF waiting[t] \in signals THEN "no" ELSE waiting[t]]
Park(t, signal) == [waiting EXCEPT ![t] = signal]

Kind(r) == IF r \in Execs THEN "exec" ELSE Class[r]
Result(r)     == [frame |-> "result", of |-> r]
Exit(r)       == [frame |-> "exit",   of |-> r]
Event         == [frame |-> "event",  of |-> Events]
Bye           == [frame |-> "bye",    of |-> Reader]
Chunk(r, end) == [frame |-> "chunk",  of |-> r, last |-> end]
NoFrame       == [frame |-> "none",   of |-> Free]
Nothing == [result |-> FALSE, chunks |-> 0, last |-> FALSE, exit |-> FALSE]

Init ==
  /\ requests = {} /\ bulk = 0 /\ execs = 0 /\ handle = {} /\ entries = {}
  /\ control = <<>> /\ data = <<>> /\ queued = 0 /\ written = 0
  /\ halted = FALSE /\ stop = FALSE
  /\ token = {} /\ lease = {}
  /\ lock = Free
  /\ waiting = [t \in Threads |-> "no"]
  /\ \E session \in Sessions :
       /\ pc = [r \in Requests |-> IF r \in session THEN "new" ELSE "absent"]
       /\ events = IF Events \in session THEN MaxEvents ELSE 0
  /\ quiesced = FALSE /\ handed = {} /\ deaf = {}
  /\ credits = [r \in Requests |-> Window] /\ abandoned = {}
  /\ pump = [r \in Requests |-> "none"]
  /\ tail = [r \in Requests |-> "none"]
  /\ left = MaxChunks
  /\ target = [r \in Requests |-> 0]
  /\ reader = "loop" /\ subject = Free
  /\ writer = "pop" /\ hand = NoFrame
  /\ peer = "up"
  /\ outcomes = [r \in Requests |-> 0]
  /\ sent = [r \in Requests |-> Nothing]

-----------------------------------------------------------------------------
(* push_control: a halted session drops the frame, a full lane parks the   *)
(* pusher, whoever it is.                                                  *)

ControlRoom == Len(control) < ControlFrames

SendControl(frame) ==
  /\ lock = Free
  /\ halted \/ ControlRoom
  /\ control' = IF halted THEN control ELSE Append(control, frame)
  /\ waiting' = IF halted THEN waiting ELSE Wake({"control_ready"})
  /\ UNCHANGED <<data, queued, written, halted>>

(* The points at which a thread pushes a control frame.                    *)
PushesControl(t) ==
  \/ t = Reader /\ reader \in {"refuse", "bye"}
  \/ t = Events /\ (events > 0 \/ handed # {})
  \/ t \in Requests /\ (pc[t] = "reply" \/ tail[t] = "exit")

ParkOnControl(t) ==
  /\ Awake(t) /\ PushesControl(t) /\ lock = Free
  /\ ~halted /\ ~ControlRoom
  /\ waiting' = Park(t, "control_room")
  /\ UNCHANGED <<registry, lanes, flags, lock, owners, ends, world>>

-----------------------------------------------------------------------------
(* The reader thread.                                                      *)

AdmissibleToCeiling(r) ==    \* mutant of Admissible
  Cardinality(requests) < MaxPending /\ (Class[r] = "bulk" => bulk < MaxReads)
SharedSlots == IF MaxPending >= ControlReserve THEN MaxPending - ControlReserve ELSE 0
Admissible(r) ==
  /\ Cardinality(requests) < IF Class[r] = "control" THEN MaxPending ELSE SharedSlots
  /\ Class[r] = "bulk" => bulk < MaxReads

BulkAfterAdmit(r) == IF Class[r] = "bulk" THEN bulk + 1 ELSE bulk
BulkAfterSettleKept(r) == bulk    \* mutant of BulkAfterSettle
BulkAfterSettle(r) == IF Class[r] = "bulk" THEN bulk - 1 ELSE bulk

(* The authority is asked first, under a lock of its own; a request it has *)
(* let pass is admitted even if the session is quiesced in between.        *)
Authorized(r) == r \notin Stale /\ ~(quiesced /\ r \in Mutations)

Authorize(r) ==
  /\ reader = "loop" /\ pc[r] = "new"
  /\ subject' = r
  /\ IF Authorized(r) THEN reader' = "admit" /\ UNCHANGED pc
     ELSE reader' = "refuse" /\ pc' = [pc EXCEPT ![r] = "refused"]
  /\ UNCHANGED <<registry, lanes, flags, lock, waiting, pump, tail, left, target,
                 outcomes, writer, hand, peer, sent, world>>

Admit(r) ==
  /\ reader = "admit" /\ subject = r /\ lock = Free
  /\ Admissible(r)
  /\ reader' = "loop" /\ subject' = Free
  /\ requests' = requests \union {r}
  /\ handle' = handle \union {r}
  /\ bulk' = BulkAfterAdmit(r)
  /\ pc' = [pc EXCEPT ![r] = "run"]
  /\ UNCHANGED <<execs, entries, lanes, flags, lock, waiting, pump, tail, left, target,
                 outcomes, writer, hand, peer, sent, world>>

Refuse(r) ==
  /\ reader = "admit" /\ subject = r /\ lock = Free
  /\ ~Admissible(r)
  /\ reader' = "refuse"
  /\ pc' = [pc EXCEPT ![r] = "refused"]
  /\ UNCHANGED <<registry, lanes, flags, lock, waiting, pump, tail, left, target,
                 outcomes, subject, writer, hand, peer, sent, world>>

SendRefusal ==
  /\ reader = "refuse" /\ Awake(Reader)
  /\ SendControl(Result(subject))
  /\ outcomes' = [outcomes EXCEPT ![subject] = @ + 1]
  /\ reader' = "loop" /\ subject' = Free
  /\ UNCHANGED <<registry, flags, lock, pc, pump, tail, left, target,
                 writer, hand, peer, sent, world>>

(* `cancel` takes the handle under the lock, flips the token outside it,   *)
(* and takes the lock again to wake the producers.                         *)
TakeHandle(r) ==
  /\ reader = "loop" /\ lock = Free /\ r \in handle
  /\ handle' = handle \ {r}
  /\ reader' = "flip" /\ subject' = r
  /\ UNCHANGED <<requests, bulk, execs, entries, lanes, flags, lock, waiting, owners,
                 writer, hand, peer, sent, world>>

FlipToken ==
  /\ reader = "flip"
  /\ token' = token \union {subject}
  /\ reader' = "wake" /\ subject' = Free
  /\ UNCHANGED <<registry, lanes, stop, lease, lock, waiting, owners,
                 writer, hand, peer, sent, world>>

(* wake_producers acquires the lock before it notifies.                    *)
MayWakeUnlocked == TRUE    \* mutant of MayWake
MayWake == lock = Free

WakeProducers ==
  /\ reader \in {"wake", "stopping"} /\ MayWake
  /\ waiting' = Wake({"data_room", "data_written"})
  /\ reader' = IF reader = "wake" THEN "loop" ELSE "revoke"
  /\ UNCHANGED <<registry, lanes, flags, lock, owners, subject, writer, hand,
                 peer, sent, world>>

(* EOF, an authorized shutdown or a protocol violation end the loop.       *)
Leave ==
  /\ reader = "loop"
  /\ stop' = TRUE
  /\ reader' = "stopping"
  /\ UNCHANGED <<registry, lanes, token, lease, lock, waiting, owners, subject,
                 writer, hand, peer, sent, world>>

(* Whoever takes an exec out of the table releases its permit and flips    *)
(* its lease -- and wakes nobody.                                          *)
RevokeLeases(victims) ==
  /\ entries' = entries \ victims
  /\ execs' = execs - Cardinality(victims)
  /\ lease' = lease \union victims

(* teardown: quiesce, revoke the registered execs, wait for the registry   *)
(* to drain or the grace to expire, publish `bye`, halt, join the writer.  *)
RevokeExecs ==
  /\ reader = "revoke" /\ lock = Free
  /\ RevokeLeases(entries)
  /\ quiesced' = TRUE
  /\ reader' = "drain"
  /\ UNCHANGED <<requests, bulk, handle, lanes, stop, token, lock, waiting, owners,
                 subject, writer, hand, peer, sent,
                 handed, deaf, credits, abandoned, events>>

Drained ==
  /\ reader = "drain" /\ lock = Free
  /\ reader' \in {"bye", "halt"}
  /\ UNCHANGED <<registry, lanes, flags, lock, waiting, owners, subject, writer, hand,
                 peer, sent, world>>

SendBye ==
  /\ reader = "bye" /\ Awake(Reader)
  /\ SendControl(Bye)
  /\ reader' = "halt"
  /\ UNCHANGED <<registry, flags, lock, owners, subject, writer, hand, peer, sent, world>>

WokenByHaltLess == Signals \ {"control_ready"}    \* mutant of WokenByHalt
WokenByHalt == Signals

Halt ==
  /\ reader = "halt" /\ lock = Free
  /\ halted' = TRUE
  /\ waiting' = Wake(WokenByHalt)
  /\ reader' = "join"
  /\ UNCHANGED <<registry, control, data, queued, written, flags, lock, owners,
                 subject, writer, hand, peer, sent, world>>

Join ==
  /\ reader = "join" /\ writer = "exit"
  /\ reader' = "ended"
  /\ UNCHANGED <<registry, lanes, flags, lock, waiting, owners, subject, writer, hand,
                 peer, sent, world>>

-----------------------------------------------------------------------------
(* The writer thread.                                                      *)

Pops(frame) ==
  /\ hand' = frame /\ writer' = "write"
  /\ UNCHANGED <<registry, queued, written, halted, flags, lock, owners, reader, subject,
                 peer, sent, world>>

WokenByPopNone == {}    \* mutant of WokenByPop
WokenByPop == {"control_room"}

PopControl ==
  /\ writer = "pop" /\ Awake(Writer) /\ lock = Free
  /\ control # <<>>
  /\ control' = Tail(control)
  /\ waiting' = Wake(WokenByPop)
  /\ Pops(Head(control))
  /\ UNCHANGED data

DataTurnAlways == TRUE    \* mutant of DataTurn
DataTurn == control = <<>>

PopData ==
  /\ writer = "pop" /\ Awake(Writer) /\ lock = Free
  /\ DataTurn /\ data # <<>>
  /\ data' = Tail(data)
  /\ waiting' = Wake({"data_room"})
  /\ Pops(Head(data))
  /\ UNCHANGED control

PopNothing ==
  /\ writer = "pop" /\ Awake(Writer) /\ lock = Free
  /\ control = <<>> /\ data = <<>>
  /\ IF halted THEN writer' = "exit" /\ UNCHANGED waiting
     ELSE waiting' = Park(Writer, "control_ready") /\ UNCHANGED writer
  /\ UNCHANGED <<registry, lanes, flags, lock, owners, reader, subject, hand,
                 peer, sent, world>>

Sent(s, f) ==
  CASE f.frame = "result" -> [s EXCEPT !.result = TRUE]
    [] f.frame = "exit"   -> [s EXCEPT !.exit = TRUE]
    [] f.frame = "chunk"  -> [s EXCEPT !.chunks = @ + 1, !.last = @ \/ f.last]

WokenByWrite == {"data_written"}

(* A chunk counts as written once the transport has it.                    *)
Write ==
  /\ writer = "write" /\ peer = "up"
  /\ hand.frame = "chunk" => lock = Free
  /\ sent' = IF hand.of \in Requests THEN [sent EXCEPT ![hand.of] = Sent(@, hand)] ELSE sent
  /\ IF hand.frame = "chunk"
     THEN written' = written + 1 /\ waiting' = Wake(WokenByWrite)
     ELSE UNCHANGED <<written, waiting>>
  /\ hand' = NoFrame /\ writer' = "pop"
  /\ UNCHANGED <<registry, control, data, queued, halted, flags, lock, owners,
                 reader, subject, peer, world>>

(* A failed write stops and halts the session; the writer drains on.       *)
WriteFails ==
  /\ writer = "write" /\ peer = "gone"
  /\ stop' = TRUE
  /\ hand' = NoFrame /\ writer' = "halt"
  /\ UNCHANGED <<registry, lanes, token, lease, lock, waiting, owners, reader, subject,
                 peer, sent, world>>

WriterHalts ==
  /\ writer = "halt" /\ lock = Free
  /\ halted' = TRUE
  /\ waiting' = Wake(WokenByHalt)
  /\ writer' = "pop"
  /\ UNCHANGED <<registry, control, data, queued, written, flags, lock, owners,
                 reader, subject, hand, peer, sent, world>>

(* The client stops reading for good, or is gone and writes fail.          *)
PeerFails ==
  /\ MayFail
  /\ peer' \in {"stalled", "gone"} \ {peer} /\ peer # "gone"
  /\ UNCHANGED <<registry, lanes, flags, lock, waiting, owners, reader, subject,
                 writer, hand, sent, world>>

-----------------------------------------------------------------------------
(* Request threads.                                                        *)

(* route_chunk: input the child does not drain revokes its lease.          *)
FlowRevoke(r) ==
  /\ reader = "loop" /\ lock = Free /\ r \in entries
  /\ RevokeLeases({r})
  /\ UNCHANGED <<requests, bulk, handle, lanes, stop, token, lock, waiting, owners,
                 ends, world>>

(* A control request may be the cancellation of a running exec, and a      *)
(* resize that finds the input queue full revokes its terminal.            *)
Victims(r) ==
  {{}} \union (IF Class[r] # "control" THEN {}
               ELSE {{e} : e \in IF r \in Resizes THEN entries \cap Ptys ELSE entries})

Runs(r, where) ==
  /\ pc[r] = "run" /\ lock = Free
  /\ pc' = [pc EXCEPT ![r] = where]
  /\ UNCHANGED <<requests, bulk, handle, lanes, stop, token, lock, waiting, tail, left,
                 target, outcomes, ends, deaf, credits, abandoned, events>>

ExecRefused(r) ==
  /\ Kind(r) = "exec" /\ (r \in token \/ execs >= MaxExecs)
  /\ Runs(r, "reply") /\ UNCHANGED <<execs, entries, lease, pump, quiesced, handed>>

AcquireExec(r) ==
  /\ Kind(r) = "exec" /\ r \notin token /\ execs < MaxExecs
  /\ execs' = execs + 1
  /\ Runs(r, "launch") /\ UNCHANGED <<entries, lease, pump, quiesced, handed>>

OpenRead(r) ==
  /\ Kind(r) = "bulk"
  /\ \E opened \in {"none", "ready"} : pump' = [pump EXCEPT ![r] = opened]
  /\ Runs(r, "reply") /\ UNCHANGED <<execs, entries, lease, quiesced, handed>>

(* One outcome of the request's own thread; a control request may quiesce. *)
Dispatch(r) ==
  /\ Kind(r) \in {"control", "standard"}
  /\ \/ UNCHANGED quiesced /\ \E victims \in Victims(r) : RevokeLeases(victims)
     \/ Class[r] = "control" /\ r \notin Resizes /\ quiesced' = TRUE /\ RevokeLeases({})
  /\ Runs(r, "reply") /\ UNCHANGED <<pump, handed>>

(* A resize is queued at the input thread of its terminal, which owns the  *)
(* reply: the request settles without an outcome.                          *)
HandOver(r) ==
  /\ r \in Resizes /\ (entries \cap Ptys) \ deaf # {}
  /\ handed' = handed \union {r}
  /\ Runs(r, "settle") /\ UNCHANGED <<execs, entries, lease, pump, quiesced>>

Launched(r) ==
  /\ pc[r] = "launch"
  /\ entries' = entries \union {r}
  /\ pump' = [pump EXCEPT ![r] = "ready"]
  /\ pc' = [pc EXCEPT ![r] = "reply"]
  /\ UNCHANGED <<requests, bulk, execs, handle, lanes, flags, lock, waiting, tail, left,
                 target, outcomes, ends, world>>

LaunchFails(r) ==
  /\ pc[r] = "launch" /\ lock = Free
  /\ execs' = execs - 1
  /\ pc' = [pc EXCEPT ![r] = "reply"]
  /\ UNCHANGED <<requests, bulk, handle, entries, lanes, flags, lock, waiting, pump, tail,
                 left, target, outcomes, ends, world>>

(* The outcome, or the opening envelope of a stream, goes to the control   *)
(* lane before the pump starts; an exec's pumps outlive its request.       *)
Reply(r) ==
  /\ pc[r] = "reply" /\ Awake(r)
  /\ SendControl(Result(r))
  /\ outcomes' = [outcomes EXCEPT ![r] = @ + 1]
  /\ IF pump[r] = "ready"
     THEN /\ pump' = [pump EXCEPT ![r] = "loop"]
          /\ pc' = [pc EXCEPT ![r] = IF Kind(r) = "exec" THEN "settle" ELSE "stream"]
          /\ tail' = [tail EXCEPT ![r] = IF Kind(r) = "exec" THEN "join" ELSE @]
     ELSE pc' = [pc EXCEPT ![r] = "settle"] /\ UNCHANGED <<pump, tail>>
  /\ UNCHANGED <<registry, flags, lock, left, target, ends, world>>

AfterStreamReplies == "reply"    \* mutant of AfterStream
AfterStream == "settle"

StreamEnds(r) ==
  /\ pc[r] = "stream" /\ pump[r] = "done"
  /\ pc' = [pc EXCEPT ![r] = AfterStream]
  /\ UNCHANGED <<registry, lanes, flags, lock, waiting, pump, tail, left, target,
                 outcomes, ends, world>>

Settle(r) ==
  /\ pc[r] = "settle" /\ lock = Free
  /\ requests' = requests \ {r}
  /\ handle' = handle \ {r}
  /\ bulk' = BulkAfterSettle(r)
  /\ pc' = [pc EXCEPT ![r] = "done"]
  /\ UNCHANGED <<execs, entries, lanes, flags, lock, waiting, pump, tail, left, target,
                 outcomes, ends, world>>

-----------------------------------------------------------------------------
(* Pumps: a read's own thread, or the thread of an exec's output.          *)

Revoked(r) == IF Kind(r) = "exec" THEN r \in lease ELSE r \in token

Pumps(r, where) ==
  /\ pump' = [pump EXCEPT ![r] = where]
  /\ UNCHANGED <<registry, flags, pc, tail, target, outcomes, ends>>

(* window.take: revocation and stop end the stream, an abandoned exec is   *)
(* read without delivery, and a pump without a credit waits.               *)
TakeStops(r) ==
  /\ pump[r] = "loop"
  /\ \/ Revoked(r) \/ stop
     \/ Class[r] = "bulk" /\ (r \in abandoned \/ left[r] = MaxChunks[r])
  /\ Pumps(r, "end")
  /\ UNCHANGED <<lanes, lock, waiting, left, world>>

TakeDiscards(r) ==
  /\ pump[r] = "loop" /\ ~Revoked(r) /\ ~stop
  /\ Kind(r) = "exec" /\ r \in abandoned
  /\ Pumps(r, "drain")
  /\ UNCHANGED <<lanes, lock, waiting, left, world>>

TakeCredit(r) ==
  /\ pump[r] = "loop" /\ ~Revoked(r) /\ ~stop
  /\ r \notin abandoned /\ credits[r] > 0
  /\ credits' = [credits EXCEPT ![r] = @ - 1]
  /\ Pumps(r, "read")
  /\ UNCHANGED <<lanes, lock, waiting, left, quiesced, handed, deaf, abandoned, events>>

(* The source gives a chunk, which a drained pump drops, or its end.       *)
AfterDrain(r) == IF stop /\ r \notin Ptys THEN "done" ELSE "loop"

Reads(r) ==
  /\ pump[r] \in {"read", "drain"}
  /\ \/ Pumps(r, "end") /\ UNCHANGED left
     \/ /\ left[r] > 0 /\ left' = [left EXCEPT ![r] = @ - 1]
        /\ Pumps(r, IF pump[r] = "read" THEN "push" ELSE AfterDrain(r))
  /\ UNCHANGED <<lanes, lock, waiting, world>>

(* A file always answers, and so do the pipes of an exec that is killed;   *)
(* until then the child writes, closes them and ends when it likes.        *)
Answers(r) == Class[r] = "bulk" \/ r \in lease
ReadReturns(r) == Answers(r) /\ Reads(r)
ChildWrites(r) == ~Answers(r) /\ Reads(r)

Enqueue(chunk) ==
  /\ data' = Append(data, chunk)
  /\ queued' = queued + 1
  /\ waiting' = Wake({"control_ready"})
  /\ UNCHANGED <<control, written, halted>>

DataRoom == Len(data) < DataChunks

(* push_chunk: after a push an exec's pump notices the stop flag and       *)
(* leaves without its terminal chunk; the last chunk of a read's range is  *)
(* itself the terminal one.                                                *)
PushEnqueues(r) ==
  /\ pump[r] = "push" /\ Awake(r) /\ lock = Free
  /\ ~halted /\ ~Revoked(r) /\ DataRoom
  /\ \E last \in {FALSE, Class[r] = "bulk"} :
       /\ Enqueue(Chunk(r, last))
       /\ Pumps(r, IF last \/ (Kind(r) = "exec" /\ stop) THEN "done" ELSE "loop")
  /\ UNCHANGED <<lock, left, world>>

PushAbandons(r) ==
  /\ pump[r] = "push" /\ Awake(r) /\ lock = Free
  /\ halted \/ Revoked(r)
  /\ Pumps(r, IF halted THEN "done" ELSE "end")
  /\ UNCHANGED <<lanes, lock, waiting, left, world>>

(* The lane is full and the token was read as live: between that read and  *)
(* the wait the lock is held, the token is not.                            *)
PushFinds(r) ==
  /\ pump[r] = "push" /\ Awake(r) /\ lock = Free
  /\ ~halted /\ ~Revoked(r) /\ ~DataRoom
  /\ lock' = r
  /\ UNCHANGED <<registry, lanes, flags, waiting, owners, ends, world>>

PushParks(r) ==
  /\ pump[r] = "push" /\ lock = r
  /\ waiting' = Park(r, "data_room")
  /\ lock' = Free
  /\ UNCHANGED <<registry, lanes, flags, owners, ends, world>>

(* The terminal chunk bypasses a full lane.                                *)
EndStream(r) ==
  /\ pump[r] = "end" /\ lock = Free
  /\ IF halted THEN UNCHANGED <<lanes, waiting>> ELSE Enqueue(Chunk(r, TRUE))
  /\ Pumps(r, "done")
  /\ UNCHANGED <<lock, left, world>>

-----------------------------------------------------------------------------
(* An exec's settlement thread: wait for its processes, join the pumps,    *)
(* leave the exec table, flush the data lane, publish the exit.            *)

Tails(r, where) ==
  /\ tail' = [tail EXCEPT ![r] = where]
  /\ UNCHANGED <<lanes, flags, pc, pump, left, outcomes, ends, world>>

PermitsAfterJoinKept(r) == execs    \* mutant of PermitsAfterJoin
PermitsAfterJoin(r) == IF r \in entries THEN execs - 1 ELSE execs

Joined(r) ==
  /\ tail[r] = "join" /\ pump[r] = "done" /\ lock = Free
  /\ entries' = entries \ {r}
  /\ execs' = PermitsAfterJoin(r)
  /\ Tails(r, "flush")
  /\ UNCHANGED <<requests, bulk, handle, lock, waiting, target>>

KilledJoined(r) == r \in lease /\ Joined(r)
ChildEnds(r) == r \notin lease /\ Joined(r)

FlushTargetNow == written    \* mutant of FlushTarget
FlushTarget == queued

FlushStarts(r) ==
  /\ tail[r] = "flush" /\ lock = Free
  /\ target' = [target EXCEPT ![r] = FlushTarget]
  /\ Tails(r, "flushing")
  /\ UNCHANGED <<registry, lock, waiting>>

FlushEnds(r) ==
  /\ tail[r] = "flushing" /\ Awake(r) /\ lock = Free
  /\ halted \/ stop \/ written >= target[r]
  /\ Tails(r, IF halted \/ stop THEN "done" ELSE "exit")
  /\ UNCHANGED <<registry, lock, waiting, target>>

FlushFinds(r) ==
  /\ tail[r] = "flushing" /\ Awake(r) /\ lock = Free
  /\ ~halted /\ ~stop /\ written < target[r]
  /\ lock' = r
  /\ UNCHANGED <<registry, lanes, flags, waiting, owners, ends, world>>

FlushParks(r) ==
  /\ tail[r] = "flushing" /\ lock = r
  /\ waiting' = Park(r, "data_written")
  /\ lock' = Free
  /\ UNCHANGED <<registry, lanes, flags, owners, ends, world>>

SendExit(r) ==
  /\ tail[r] = "exit" /\ Awake(r)
  /\ SendControl(Exit(r))
  /\ tail' = [tail EXCEPT ![r] = "done"]
  /\ UNCHANGED <<registry, flags, lock, pc, pump, left, target, outcomes, ends, world>>

(* Other threads of the session publish events: delivered exec input,      *)
(* filesystem notifications.                                               *)
SendEvent ==
  /\ events > 0 /\ Awake(Events)
  /\ SendControl(Event)
  /\ events' = events - 1
  /\ UNCHANGED <<registry, flags, lock, owners, ends,
                 quiesced, handed, deaf, credits, abandoned>>

(* The input thread of a terminal answers the resizes it reaches, which    *)
(* have settled by then or not.                                            *)
AnswerResize(r) ==
  /\ r \in handed /\ Awake(Events)
  /\ SendControl(Result(r))
  /\ outcomes' = [outcomes EXCEPT ![r] = @ + 1]
  /\ handed' = handed \ {r}
  /\ UNCHANGED <<registry, flags, lock, pc, pump, tail, left, target, ends,
                 quiesced, deaf, credits, abandoned, events>>

(* It ends on a failed write or with the session and drops what it has not *)
(* reached.  (Without a resize in its queue an end is not seen: a later    *)
(* resize is refused, which Dispatch allows at any time.)                  *)
InputEnds(e) ==
  /\ e \in Ptys \ deaf /\ handed # {} /\ Awake(Events)
  /\ deaf' = deaf \union {e}
  /\ \E lost \in SUBSET handed : handed' = handed \ lost
  /\ UNCHANGED <<registry, lanes, flags, lock, waiting, owners, ends,
                 quiesced, credits, abandoned, events>>

-----------------------------------------------------------------------------
(* What the client's frames do to a window.                                *)

Taken(r) == MaxChunks[r] - left[r] + IF pump[r] = "read" THEN 1 ELSE 0
Open(r) == pump[r] \notin {"none", "ready", "done"}

(* A client returns one credit for each chunk it has consumed.             *)
Grant(r) ==
  /\ reader = "loop" /\ Open(r) /\ r \notin abandoned
  /\ credits[r] < Window /\ credits[r] + Taken(r) - Window < sent[r].chunks
  /\ credits' = [credits EXCEPT ![r] = @ + 1]
  /\ UNCHANGED <<registry, lanes, flags, lock, waiting, owners, ends,
                 quiesced, handed, deaf, abandoned, events>>

Abandon(r) ==
  /\ reader = "loop" /\ Open(r) /\ r \in Dropped \ abandoned
  /\ abandoned' = abandoned \union {r}
  /\ UNCHANGED <<registry, lanes, flags, lock, waiting, owners, ends,
                 quiesced, handed, deaf, credits, events>>

-----------------------------------------------------------------------------
ReaderStep ==
  \/ \E r \in Requests :
       Authorize(r) \/ TakeHandle(r) \/ FlowRevoke(r) \/ Grant(r) \/ Abandon(r)
  \/ Leave
ReaderRuns ==
  \/ \E r \in Requests : Admit(r) \/ Refuse(r)
  \/ SendRefusal \/ FlipToken \/ WakeProducers \/ RevokeExecs \/ Drained \/ SendBye
  \/ Halt \/ Join \/ ParkOnControl(Reader)
WriterRuns == PopControl \/ PopData \/ PopNothing \/ WriterHalts
Transport == Write \/ WriteFails
RequestRuns(r) ==
  \/ ExecRefused(r) \/ AcquireExec(r) \/ OpenRead(r) \/ Dispatch(r) \/ HandOver(r)
  \/ Launched(r) \/ LaunchFails(r) \/ Reply(r) \/ StreamEnds(r) \/ Settle(r)
  \/ TakeStops(r) \/ TakeDiscards(r) \/ TakeCredit(r) \/ ReadReturns(r)
  \/ PushEnqueues(r) \/ PushAbandons(r) \/ PushFinds(r)
  \/ PushParks(r) \/ EndStream(r) \/ KilledJoined(r) \/ FlushStarts(r) \/ FlushEnds(r)
  \/ FlushFinds(r) \/ FlushParks(r) \/ SendExit(r) \/ ParkOnControl(r)

Next ==
  \/ ReaderStep \/ ReaderRuns \/ WriterRuns \/ Transport \/ PeerFails
  \/ \E r \in Requests : RequestRuns(r)
  \/ \E r \in Requests :
       ChildWrites(r) \/ ChildEnds(r) \/ AnswerResize(r) \/ InputEnds(r)
  \/ SendEvent \/ ParkOnControl(Events)

Spec == Init /\ [][Next]_vars

(* Every thread that can run does, and a revoked exec is killed.  The      *)
(* transport takes frames while the client reads it, and fails when the    *)
(* client is gone.  Children write and end, and clients return credits,    *)
(* when they like.                                                         *)
ThreadsRun ==
  /\ WF_vars(ReaderRuns) /\ WF_vars(WriterRuns)
  /\ \A r \in Requests \ Stale : WF_vars(RequestRuns(r))
FairSpec == Spec /\ ThreadsRun /\ WF_vars(Transport)

-----------------------------------------------------------------------------
(* The counters that admission trusts are the registry's own: a leaked or  *)
(* doubly released permit would starve or overrun a class for the rest of  *)
(* the session.                                                            *)
Launching == {r \in Requests : pc[r] = "launch"}
CountersAgree ==
  /\ bulk = Cardinality({r \in requests : Class[r] = "bulk"})
  /\ execs = Cardinality(entries) + Cardinality(Launching)

(* Health, quiesce and exec control find the reserve free whatever the     *)
(* other classes do, and bulk reads never exceed their own budget.         *)
ReserveKept ==
  /\ Cardinality({r \in requests : Class[r] # "control"}) <= SharedSlots
  /\ Cardinality(requests) <= MaxPending
  /\ Cardinality({r \in requests : Class[r] = "bulk"}) <= MaxReads

(* A request resolves at most once, and one that settles has resolved,     *)
(* unless it is a resize handed to a terminal.                             *)
OneOutcome ==
  \A r \in Requests :
    /\ outcomes[r] <= 1
    /\ pc[r] \in {"stream", "settle", "done"} /\ r \notin Resizes => outcomes[r] = 1

(* The session keeps the ledger of its requests: whatever its threads do,  *)
(* an id is accepted while its class has room and refused for a reason, is *)
(* answered at most once, by the input loop, its own thread or a terminal, *)
(* and frees its slot after its answer, unless a terminal owes it.         *)
Ledger == INSTANCE RequestLedger WITH
  used    <- {r \in Requests : pc[r] \notin {"new", "absent"}},
  open    <- requests,
  answers <- outcomes,
  retired <- quiesced
KeepsLedger == Ledger!Spec

(* On the transport a stream's chunks follow its opening envelope.         *)
OpeningPrecedesChunks ==
  \A r \in Requests : sent[r].chunks > 0 => sent[r].result

(* An exec's exit follows its whole output, though exits ride the lane     *)
(* that is drained first.                                                  *)
ExitFollowsOutput == \A r \in Requests : sent[r].exit => sent[r].last

(* A cancelled read parked behind a full lane ends even when the client    *)
(* has stopped reading the transport.                                      *)
CancelledReadSettles ==
  \A r \in {q \in Requests \ Stale : Class[q] = "bulk"} :
    (pc[r] = "stream" /\ r \in token) ~> pc[r] = "done"

(* A revoked exec's pump parked behind a full lane ends even when the      *)
(* client has stopped reading the transport.                               *)
RevokedPumpEnds ==
  \A r \in Execs : (pump[r] = "push" /\ r \in lease) ~> pump[r] = "done"

(* Unless the client stops reading or owes the stream a credit for ever:   *)
(* every admitted request settles, and so does every started exec that its *)
(* child does not keep waiting for output or for its end.                  *)
Stalled == peer = "stalled"
Starved(r) ==
  /\ pump[r] = "loop" /\ credits[r] = 0 /\ r \notin abandoned
  /\ ~Revoked(r) /\ ~stop
Serving(r) ==
  /\ r \notin lease
  /\ pump[r] \in {"read", "drain"} \/ (pump[r] = "done" /\ tail[r] = "join")
WorkSettles ==
  /\ \A r \in Requests \ Stale :
       <>[]Starved(r) \/ (pc[r] = "run" ~> pc[r] = "done" \/ Stalled)
  /\ \A r \in Execs :
       <>[](Starved(r) \/ Serving(r)) \/ (tail[r] = "join" ~> tail[r] = "done" \/ Stalled)

(* A session that stops ends, unless the client stops reading: no thread   *)
(* is left for the writer to wait on.                                      *)
SessionEnds == (reader = "stopping") ~> (reader = "ended" \/ Stalled)
=============================================================================
