---------------------------- MODULE WorkerClient ----------------------------
(***************************************************************************)
(* The client end of a worker lease: callers that connect, register a      *)
(* request, write it and wait; one reader thread per connection that       *)
(* routes replies; termination of a dead connection by its reader or by    *)
(* the thread that retires it; reconnection, `close` and `shutdown` over   *)
(* the shared slot.                                                        *)
(*                                                                         *)
(* A connection stands for one worker incarnation, so its number is the    *)
(* session.  The worker process at its far end is modelled by what it may  *)
(* do to the client: answer a written request once, end its streams,       *)
(* report an exec's exit, say `bye` when asked, leave, or crash.           *)
(***************************************************************************)
EXTENDS Integers, Sequences, FiniteSets

CONSTANTS
  Callers,        \* job threads
  Call,           \* Callers -> {"read", "exec", "mutate"}
  MaxConns,       \* bound: connections the lease makes
  MaxPending,     \* the negotiated pending-request budget
  MaxFaults,      \* bound: crashes of a worker or corrupt frames
  Closes,         \* whether the editor closes the lease
  Shutdowns       \* whether someone calls Worker::shutdown

ASSUME ClientAssumption ==
  /\ IsFiniteSet(Callers)
  /\ Call \in [Callers -> {"read", "exec", "mutate"}]
  /\ MaxConns \in Nat /\ MaxPending \in Nat \ {0} /\ MaxFaults \in Nat
  /\ Closes \in BOOLEAN /\ Shutdowns \in BOOLEAN

Conns == 1..MaxConns
None == 0

Closer == "closer"
Stopper == "stopper"
Free == "free"
ASSUME ClientThreadAssumption ==
  {Closer, Stopper, Free, "read", "ended"} \cap Callers = {}   \* the last two: steps of a reader

VARIABLES
  made, alive,          \* connections made so far, those still alive
  welcomed,             \* those whose welcome the client has read
  stray,                \* those the lease dropped without retiring them
  slot, slotLock,       \* Shared::slot and who holds it across calls
  connecting,           \* who holds Shared::connecting
  closed,               \* Shared::closed
  pending,              \* per connection: callers with a registered request
  streams, execs,       \* per connection: callers with a stream, an exit waiter
  dying,                \* per connection: how far terminate has come
  reader,               \* per connection: its reader thread
  pc, at, answer,       \* callers: step, connection, what the reply channel holds
  prepared,             \* the connection that prepared a caller's mutation
  stream, exit,         \* what a caller's stream and exit receivers hold
  result,               \* what the call returned
  retiring,             \* the threads in close and shutdown: step and connection
  requests, serving,    \* at the worker: unanswered requests, open streams
  frames,               \* on the way back
  asked, leaving, gone, \* workers told to shut down, past their `bye`, gone
  applied, faults

registry == <<pending, streams, execs>>
lease    == <<slot, slotLock, connecting, closed>>
caller   == <<pc, at, answer, prepared, stream, exit, result>>
far      == <<requests, serving, asked, leaving, gone, applied, faults>>
worker   == <<far, frames>>
vars == <<made, alive, welcomed, stray, lease, registry, dying, reader, caller, retiring, worker>>

Frame(kind, k) == [kind |-> kind, of |-> k]
Request(k) == [of |-> k, body |-> IF Call[k] # "mutate" THEN Call[k]
                                  ELSE IF prepared[k] = None THEN "prepare" ELSE "apply"]

Init ==
  /\ made = 0 /\ alive = {} /\ welcomed = {} /\ stray = {}
  /\ slot = None /\ slotLock = Free /\ connecting = Free /\ closed = FALSE
  /\ pending = [c \in Conns |-> {}]
  /\ streams = [c \in Conns |-> {}] /\ execs = [c \in Conns |-> {}]
  /\ dying = [c \in Conns |-> "no"]
  /\ reader = [c \in Conns |-> Free]
  /\ pc = [k \in Callers |-> "connect"] /\ at = [k \in Callers |-> None]
  /\ answer = [k \in Callers |-> "none"]
  /\ prepared = [k \in Callers |-> None]
  /\ stream = [k \in Callers |-> "none"] /\ exit = [k \in Callers |-> FALSE]
  /\ result = [k \in Callers |-> "none"]
  /\ retiring = [t \in {Closer, Stopper} |-> [step |-> "idle", conn |-> None]]
  /\ requests = [c \in Conns |-> {}] /\ serving = [c \in Conns |-> {}]
  /\ frames = [c \in Conns |-> <<>>]
  /\ asked = {} /\ leaving = {} /\ gone = {}
  /\ applied = [k \in Callers |-> <<>>]
  /\ faults = 0

-----------------------------------------------------------------------------
(* Worker::connection.                                                     *)

Usable == slot # None /\ slot \in alive

Steps(k, step) == pc' = [pc EXCEPT ![k] = step] /\ UNCHANGED result
Returns(k, what) ==
  /\ pc' = [pc EXCEPT ![k] = "done"] /\ result' = [result EXCEPT ![k] = what]

Takes(k) == at' = [at EXCEPT ![k] = slot] /\ Steps(k, "admit")

Connect(k) ==
  /\ pc[k] = "connect" /\ slotLock = Free
  /\ \/ closed /\ Returns(k, "closed") /\ UNCHANGED at
     \/ ~closed /\ Usable /\ Takes(k)
     \/ ~closed /\ ~Usable /\ Steps(k, "serialize") /\ UNCHANGED at
  /\ UNCHANGED <<made, welcomed, stray, alive, lease, registry, dying, reader, answer,
                 prepared, stream, exit, retiring, worker>>

Serialize(k) ==
  /\ pc[k] = "serialize" /\ connecting = Free
  /\ connecting' = k
  /\ Steps(k, "recheck")
  /\ UNCHANGED <<made, welcomed, stray, alive, slot, slotLock, closed, registry, dying, reader,
                 at, answer, prepared, stream, exit, retiring, worker>>

(* Under the connecting lock both `closed` and the slot are read again.    *)
ClosedAgainIgnored == FALSE    \* mutant of ClosedAgain
ClosedAgain == closed
UsableAgainIgnored == FALSE    \* mutant of UsableAgain
UsableAgain == Usable

Recheck(k) ==
  /\ pc[k] = "recheck" /\ slotLock = Free
  /\ \/ ClosedAgain /\ Returns(k, "closed") /\ connecting' = Free /\ UNCHANGED at
     \/ ~ClosedAgain /\ UsableAgain /\ Takes(k) /\ connecting' = Free
     \/ ~ClosedAgain /\ ~UsableAgain /\ Steps(k, "open") /\ UNCHANGED <<connecting, at>>
  /\ UNCHANGED <<made, welcomed, stray, alive, slot, slotLock, closed, registry, dying, reader,
                 answer, prepared, stream, exit, retiring, worker>>

(* Conn::connect: the transport and its child exist, the reader thread     *)
(* runs and the connection counts as alive before the handshake is over.   *)
(* A welcome is the first frame a worker sends.                            *)
Spawn(k) ==
  /\ pc[k] = "open" /\ made < MaxConns
  /\ made' = made + 1
  /\ alive' = alive \union {made'}
  /\ reader' = [reader EXCEPT ![made'] = "read"]
  /\ frames' = [frames EXCEPT ![made'] = <<Frame("welcome", Free)>>]
  /\ at' = [at EXCEPT ![k] = made']
  /\ Steps(k, "hello")
  /\ UNCHANGED <<welcomed, stray, lease, registry, dying, answer, prepared, stream, exit,
                 retiring, far>>

SpawnFails(k) ==
  /\ pc[k] = "open"
  /\ Returns(k, "lost")
  /\ connecting' = Free
  /\ UNCHANGED <<made, welcomed, stray, alive, slot, slotLock, closed, registry, dying, reader,
                 at, answer, prepared, stream, exit, retiring, worker>>

Greeted(k) ==
  /\ pc[k] = "hello" /\ at[k] \in welcomed
  /\ Steps(k, "install")
  /\ UNCHANGED <<made, welcomed, stray, alive, lease, registry, dying, reader, at, answer,
                 prepared, stream, exit, retiring, worker>>

(* No welcome in time, an error instead of it, or one that names another   *)
(* version or target.  The caller leaves; its connection stays with the    *)
(* reader thread, and nobody terminates it.                                *)
HandshakeFails(k) ==
  /\ pc[k] = "hello" /\ (at[k] \in alive => faults < MaxFaults)
  /\ faults' = IF at[k] \in alive THEN faults + 1 ELSE faults
  /\ stray' = stray \union {at[k]}
  /\ Returns(k, "lost")
  /\ connecting' = Free
  /\ UNCHANGED <<made, welcomed, alive, slot, slotLock, closed, registry, dying, reader, at,
                 answer, prepared, stream, exit, retiring, requests, serving, frames, asked,
                 leaving, gone, applied>>

Install(k) ==
  /\ pc[k] = "install" /\ slotLock = Free
  /\ slot' = at[k] /\ connecting' = Free
  /\ Steps(k, "admit")
  /\ UNCHANGED <<made, welcomed, stray, alive, slotLock, closed, registry, dying, reader, at,
                 answer, prepared, stream, exit, retiring, worker>>

-----------------------------------------------------------------------------
(* One call: the alive check, the pending entry and the write are three    *)
(* steps; terminate may run between any two of them.                       *)

Admit(k) ==
  /\ pc[k] = "admit"
  /\ IF at[k] \in alive THEN Steps(k, "insert") ELSE Returns(k, "lost")
  /\ UNCHANGED <<made, welcomed, stray, alive, lease, registry, dying, reader, at, answer,
                 prepared, stream, exit, retiring, worker>>

BudgetLeft(c) == Cardinality(pending[c]) < MaxPending

Insert(k) ==
  /\ pc[k] = "insert"
  /\ IF BudgetLeft(at[k])
     THEN /\ pending' = [pending EXCEPT ![at[k]] = @ \union {k}]
          /\ Steps(k, "write")
     ELSE Returns(k, "refused") /\ UNCHANGED pending
  /\ UNCHANGED <<made, welcomed, stray, alive, lease, streams, execs, dying, reader, at,
                 answer, prepared, stream, exit, retiring, worker>>

Write(k) ==
  /\ pc[k] = "write"
  /\ IF at[k] \in gone
     THEN /\ pending' = [pending EXCEPT ![at[k]] = @ \ {k}]
          /\ Returns(k, "lost") /\ UNCHANGED requests
     ELSE /\ requests' = [requests EXCEPT ![at[k]] = @ \union {Request(k)}]
          /\ Steps(k, "wait") /\ UNCHANGED pending
  /\ UNCHANGED <<made, welcomed, stray, alive, lease, streams, execs, dying, reader, at,
                 answer, prepared, stream, exit, retiring, serving, frames, asked, leaving,
                 gone, applied, faults>>

Wait(k) ==
  /\ pc[k] = "wait" /\ answer[k] # "none"
  /\ answer' = [answer EXCEPT ![k] = "none"]
  /\ \/ answer[k] = "lost" /\ Returns(k, "lost") /\ UNCHANGED prepared
     \/ answer[k] = "outcome" /\ Call[k] # "mutate" /\ Steps(k, "read") /\ UNCHANGED prepared
     \/ /\ answer[k] = "outcome" /\ Call[k] = "mutate" /\ prepared[k] = None
        /\ prepared' = [prepared EXCEPT ![k] = at[k]] /\ Steps(k, "apply")
     \/ /\ answer[k] = "outcome" /\ Call[k] = "mutate" /\ prepared[k] # None
        /\ Returns(k, "done") /\ UNCHANGED prepared
  /\ UNCHANGED <<made, welcomed, stray, alive, lease, registry, dying, reader, at, stream,
                 exit, retiring, worker>>

(* Worker::apply: prepared steps go to the connection now in the slot only *)
(* if that is the live session that prepared them; it never reconnects.    *)
SameSessionUnchecked(k) == TRUE    \* mutant of SameSession
SameSession(k) == slot = prepared[k]

Apply(k) ==
  /\ pc[k] = "apply" /\ slotLock = Free
  /\ \/ ~Usable /\ Returns(k, "lost") /\ UNCHANGED at
     \/ Usable /\ ~SameSession(k) /\ Returns(k, "refused") /\ UNCHANGED at
     \/ Usable /\ SameSession(k) /\ Takes(k)
  /\ UNCHANGED <<made, welcomed, stray, alive, lease, registry, dying, reader, answer,
                 prepared, stream, exit, retiring, worker>>

ReadEnds(k) ==
  /\ pc[k] = "read" /\ stream[k] \in {"ended", "failed"}
  /\ IF Call[k] = "exec" THEN Steps(k, "exit")
     ELSE Returns(k, IF stream[k] = "ended" THEN "done" ELSE "lost")
  /\ UNCHANGED <<made, welcomed, stray, alive, lease, registry, dying, reader, at, answer,
                 prepared, stream, exit, retiring, worker>>

WaitExit(k) ==
  /\ pc[k] = "exit" /\ exit[k]
  /\ Returns(k, "done")
  /\ UNCHANGED <<made, welcomed, stray, alive, lease, registry, dying, reader, at, answer,
                 prepared, stream, exit, retiring, worker>>

-----------------------------------------------------------------------------
(* Conn::terminate: the flag is swapped once; then the registries are      *)
(* drained one after the other, each under its own lock, and the child is  *)
(* killed and reaped.                                                      *)

Terminates(c) ==
  IF c \in alive
  THEN alive' = alive \ {c} /\ dying' = [dying EXCEPT ![c] = "pending"]
  ELSE UNCHANGED <<alive, dying>>

DrainedNone(c) == {}    \* mutant of Drained
Drained(c) == pending[c]

DrainPending(c) ==
  /\ dying[c] = "pending"
  /\ answer' = [k \in Callers |-> IF k \in Drained(c) THEN "lost" ELSE answer[k]]
  /\ pending' = [pending EXCEPT ![c] = {}]
  /\ dying' = [dying EXCEPT ![c] = "streams"]
  /\ UNCHANGED <<made, welcomed, stray, alive, lease, streams, execs, reader, pc, at, prepared,
                 stream, exit, result, retiring, worker>>

DrainStreams(c) ==
  /\ dying[c] = "streams"
  /\ stream' = [k \in Callers |-> IF k \in streams[c] THEN "failed" ELSE stream[k]]
  /\ streams' = [streams EXCEPT ![c] = {}]
  /\ dying' = [dying EXCEPT ![c] = "child"]
  /\ UNCHANGED <<made, welcomed, stray, alive, lease, pending, execs, reader, pc, at, answer,
                 prepared, exit, result, retiring, worker>>

(* What was written to a worker that is gone is never answered.            *)
Gone(c) ==
  /\ gone' = gone \union {c}
  /\ requests' = [requests EXCEPT ![c] = {}] /\ serving' = [serving EXCEPT ![c] = {}]

ReapChild(c) ==
  /\ dying[c] = "child"
  /\ Gone(c)
  /\ dying' = [dying EXCEPT ![c] = "reaped"]
  /\ UNCHANGED <<made, welcomed, stray, alive, lease, registry, reader, caller, retiring,
                 frames, asked, leaving, applied, faults>>

-----------------------------------------------------------------------------
(* The reader thread of connection c.  A streaming reply is taken from the *)
(* pending registry first and its streams and exit waiter are registered   *)
(* in a later step, before the reply wakes the caller.                     *)

Arrived(c) == Head(frames[c])
ReaderGoesOn(c) == reader' = [reader EXCEPT ![c] = IF c \in alive THEN "read" ELSE "ended"]

RouteWelcome(c) ==
  /\ reader[c] = "read" /\ frames[c] # <<>> /\ Arrived(c).kind = "welcome"
  /\ frames' = [frames EXCEPT ![c] = Tail(@)]
  /\ welcomed' = welcomed \union {c}
  /\ ReaderGoesOn(c)
  /\ UNCHANGED <<made, stray, alive, lease, registry, dying, caller, retiring, far>>

TakenKept(k) == {}    \* mutant of Taken
Taken(k) == {k}

RouteResult(c) ==
  /\ reader[c] = "read" /\ frames[c] # <<>> /\ Arrived(c).kind = "result"
  /\ frames' = [frames EXCEPT ![c] = Tail(@)]
  /\ LET k == Arrived(c).of
     IN IF k \in pending[c]
        THEN /\ pending' = [pending EXCEPT ![c] = @ \ Taken(k)]
             /\ reader' = [reader EXCEPT ![c] = k]
        ELSE ReaderGoesOn(c) /\ UNCHANGED pending
  /\ UNCHANGED <<made, welcomed, stray, alive, lease, streams, execs, dying, caller, retiring,
                 far>>

DeliverReply(c) ==
  /\ reader[c] \in Callers
  /\ LET k == reader[c]
     IN /\ answer' = [answer EXCEPT ![k] = "outcome"]
        /\ streams' = [streams EXCEPT ![c] = IF Call[k] = "mutate" THEN @ ELSE @ \union {k}]
        /\ execs' = [execs EXCEPT ![c] = IF Call[k] = "exec" THEN @ \union {k} ELSE @]
        /\ stream' = [stream EXCEPT ![k] = IF Call[k] = "mutate" THEN @ ELSE "open"]
  /\ ReaderGoesOn(c)
  /\ UNCHANGED <<made, welcomed, stray, alive, lease, pending, dying, pc, at, prepared, exit,
                 result, retiring, worker>>

RouteLast(c) ==
  /\ reader[c] = "read" /\ frames[c] # <<>> /\ Arrived(c).kind = "last"
  /\ frames' = [frames EXCEPT ![c] = Tail(@)]
  /\ LET k == Arrived(c).of
     IN IF k \in streams[c]
        THEN /\ streams' = [streams EXCEPT ![c] = @ \ {k}]
             /\ stream' = [stream EXCEPT ![k] = "ended"]
             /\ ReaderGoesOn(c) /\ UNCHANGED <<alive, dying>>
        ELSE /\ Terminates(c) /\ reader' = [reader EXCEPT ![c] = "ended"]
             /\ UNCHANGED <<streams, stream>>
  /\ UNCHANGED <<made, welcomed, stray, lease, pending, execs, pc, at, answer, prepared, exit,
                 result, retiring, far>>

RouteExit(c) ==
  /\ reader[c] = "read" /\ frames[c] # <<>> /\ Arrived(c).kind = "exit"
  /\ frames' = [frames EXCEPT ![c] = Tail(@)]
  /\ LET k == Arrived(c).of
     IN /\ exit' = [exit EXCEPT ![k] = @ \/ k \in execs[c]]
        /\ execs' = [execs EXCEPT ![c] = @ \ {k}]
  /\ ReaderGoesOn(c)
  /\ UNCHANGED <<made, welcomed, stray, alive, lease, pending, streams, dying, pc, at, answer,
                 prepared, stream, result, retiring, far>>

(* `bye`, an undecodable frame, and the end of the transport terminate.    *)
StreamCloses(c) ==
  /\ reader[c] = "read"
  /\ \/ frames[c] # <<>> /\ Arrived(c).kind \in {"bye", "corrupt"}
     \/ frames[c] = <<>> /\ c \in gone
  /\ frames' = [frames EXCEPT ![c] = <<>>]
  /\ Terminates(c)
  /\ reader' = [reader EXCEPT ![c] = "ended"]
  /\ UNCHANGED <<made, welcomed, stray, lease, registry, caller, retiring, far>>

-----------------------------------------------------------------------------
(* Worker::close and Worker::shutdown.  close holds the connecting lock to *)
(* its end; shutdown holds the slot while it retires, not after.           *)

Goes(t, step) == retiring' = [retiring EXCEPT ![t].step = step]

CloseFlags ==
  /\ Closes /\ retiring[Closer].step = "idle"
  /\ closed' = TRUE
  /\ Goes(Closer, "lock")
  /\ UNCHANGED <<made, welcomed, stray, alive, slot, slotLock, connecting, registry, dying,
                 reader, caller, worker>>

CloseLocks ==
  /\ retiring[Closer].step = "lock" /\ connecting = Free
  /\ connecting' = Closer
  /\ Goes(Closer, "take")
  /\ UNCHANGED <<made, welcomed, stray, alive, slot, slotLock, closed, registry, dying, reader,
                 caller, worker>>

CloseTakes ==
  /\ retiring[Closer].step = "take" /\ slotLock = Free
  /\ retiring' = [retiring EXCEPT ![Closer] =
                    [step |-> IF Usable THEN "ask" ELSE "leave", conn |-> slot]]
  /\ slot' = None
  /\ UNCHANGED <<made, welcomed, stray, alive, slotLock, connecting, closed, registry, dying,
                 reader, caller, worker>>

ShutdownTakes ==
  /\ Shutdowns /\ retiring[Stopper].step = "idle" /\ slotLock = Free
  /\ IF Usable
     THEN /\ slotLock' = Stopper
          /\ retiring' = [retiring EXCEPT ![Stopper] = [step |-> "ask", conn |-> slot]]
     ELSE Goes(Stopper, "clear") /\ UNCHANGED slotLock
  /\ UNCHANGED <<made, welcomed, stray, alive, slot, connecting, closed, registry, dying,
                 reader, caller, worker>>

(* Conn::retire: shutdown frame, a bounded wait for `bye`, terminate.  The *)
(* thread that terminates drains and reaps before it goes on.              *)
RetireAsks(t) ==
  /\ retiring[t].step = "ask"
  /\ asked' = asked \union {retiring[t].conn}
  /\ Goes(t, "bye")
  /\ UNCHANGED <<made, welcomed, stray, alive, lease, registry, dying, reader, caller,
                 requests, serving, frames, leaving, gone, applied, faults>>

RetireTerminates(t) ==
  /\ retiring[t].step = "bye"
  /\ Terminates(retiring[t].conn)
  /\ Goes(t, IF retiring[t].conn \in alive THEN "reap" ELSE "leave")
  /\ UNCHANGED <<made, welcomed, stray, lease, registry, reader, caller, worker>>

RetireReaped(t) ==
  /\ retiring[t].step = "reap" /\ dying[retiring[t].conn] = "reaped"
  /\ Goes(t, "leave")
  /\ UNCHANGED <<made, welcomed, stray, alive, lease, registry, dying, reader, caller, worker>>

CloseLeaves ==
  /\ retiring[Closer].step = "leave"
  /\ connecting' = Free
  /\ Goes(Closer, "done")
  /\ UNCHANGED <<made, welcomed, stray, alive, slot, slotLock, closed, registry, dying, reader,
                 caller, worker>>

ShutdownUnlocks ==
  /\ retiring[Stopper].step = "leave"
  /\ slotLock' = Free
  /\ Goes(Stopper, "clear")
  /\ UNCHANGED <<made, welcomed, stray, alive, slot, connecting, closed, registry, dying,
                 reader, caller, worker>>

(* The slot is cleared under a lock of its own: a connection that another  *)
(* caller has installed meanwhile is dropped unseen.                       *)
ShutdownClears ==
  /\ retiring[Stopper].step = "clear" /\ slotLock = Free
  /\ slot' = None
  /\ stray' = stray \union ({slot} \ {None})
  /\ Goes(Stopper, "done")
  /\ UNCHANGED <<made, welcomed, alive, slotLock, connecting, closed, registry, dying, reader,
                 caller, worker>>

-----------------------------------------------------------------------------
(* The worker at the far end.                                              *)

Publishes(c, new) ==
  /\ frames' = [frames EXCEPT ![c] = @ \o new]
  /\ UNCHANGED <<made, welcomed, stray, alive, lease, registry, dying, reader, caller,
                 retiring>>

(* The outcome; an opened stream stays with the worker.                    *)
Serve(c) ==
  /\ \E r \in requests[c] :
       /\ requests' = [requests EXCEPT ![c] = @ \ {r}]
       /\ serving' = [serving EXCEPT ![c] = IF Call[r.of] = "mutate" THEN @ ELSE @ \union {r.of}]
       /\ applied' = IF r.body = "apply" THEN [applied EXCEPT ![r.of] = Append(@, c)]
                     ELSE applied
       /\ Publishes(c, <<Frame("result", r.of)>>)
  /\ UNCHANGED <<asked, leaving, gone, faults>>

(* The terminal chunk, and for an exec the exit that follows it.           *)
Finish(c) ==
  /\ \E k \in serving[c] :
       /\ serving' = [serving EXCEPT ![c] = @ \ {k}]
       /\ Publishes(c, IF Call[k] = "exec" THEN <<Frame("last", k), Frame("exit", k)>>
                       ELSE <<Frame("last", k)>>)
  /\ UNCHANGED <<requests, asked, leaving, gone, applied, faults>>

Bye(c) ==
  /\ c \in asked \ (leaving \union gone)
  /\ leaving' = leaving \union {c}
  /\ Publishes(c, <<Frame("bye", Free)>>)
  /\ UNCHANGED <<requests, serving, asked, gone, applied, faults>>

Leaves(c) ==
  /\ c \in leaving \ gone
  /\ Gone(c) /\ Publishes(c, <<>>)
  /\ UNCHANGED <<asked, leaving, applied, faults>>

Crash(c) ==
  /\ c <= made /\ c \notin gone /\ faults < MaxFaults
  /\ faults' = faults + 1
  /\ Gone(c) /\ Publishes(c, <<>>)
  /\ UNCHANGED <<asked, leaving, applied>>

Corrupt(c) ==
  /\ c <= made /\ c \notin gone /\ faults < MaxFaults
  /\ faults' = faults + 1
  /\ Publishes(c, <<Frame("corrupt", Free)>>)
  /\ UNCHANGED <<requests, serving, asked, leaving, gone, applied>>

-----------------------------------------------------------------------------
CallerRuns(k) ==
  \/ Connect(k) \/ Serialize(k) \/ Recheck(k) \/ Spawn(k) \/ SpawnFails(k)
  \/ Greeted(k) \/ HandshakeFails(k) \/ Install(k)
  \/ Admit(k) \/ Insert(k) \/ Write(k) \/ Wait(k) \/ Apply(k) \/ ReadEnds(k) \/ WaitExit(k)
ReaderRuns(c) ==
  \/ RouteWelcome(c) \/ RouteResult(c) \/ DeliverReply(c) \/ RouteLast(c) \/ RouteExit(c)
  \/ StreamCloses(c)
TerminateRuns(c) == DrainPending(c) \/ DrainStreams(c) \/ ReapChild(c)
CloseRuns == CloseLocks \/ CloseTakes \/ CloseLeaves
StopRuns == ShutdownUnlocks \/ ShutdownClears
RetireRuns(t) == RetireAsks(t) \/ RetireTerminates(t) \/ RetireReaped(t)
WorkerRuns(c) == Serve(c) \/ Finish(c) \/ Bye(c) \/ Leaves(c)

Next ==
  \/ \E k \in Callers : CallerRuns(k)
  \/ \E c \in Conns :
       \/ ReaderRuns(c) \/ TerminateRuns(c) \/ WorkerRuns(c) \/ Crash(c) \/ Corrupt(c)
  \/ CloseFlags \/ CloseRuns \/ ShutdownTakes \/ StopRuns
  \/ \E t \in {Closer, Stopper} : RetireRuns(t)

Spec == Init /\ [][Next]_vars

(* Client threads run when they can and the wait for `bye` is bounded.     *)
(* Nothing is assumed of the worker: it may never answer and never leave.  *)
FairSpec ==
  /\ Spec
  /\ \A k \in Callers : WF_vars(CallerRuns(k))
  /\ \A c \in Conns : WF_vars(ReaderRuns(c)) /\ WF_vars(TerminateRuns(c))
  /\ WF_vars(CloseRuns) /\ WF_vars(StopRuns)
  /\ \A t \in {Closer, Stopper} : WF_vars(RetireRuns(t))

-----------------------------------------------------------------------------
(* One death never makes two workers: the connecting lock and the second   *)
(* look at the slot keep at most one connection of a lease alive, beside   *)
(* those it has lost: those of failed handshakes, and those that shutdown  *)
(* dropped from the slot.                                                  *)
OneLiveWorker == Cardinality(alive \ stray) <= 1

(* Once close has returned no other connection is alive, whatever attempt  *)
(* to connect it raced.                                                    *)
ClosedLeavesNone == retiring[Closer].step = "done" => alive \subseteq stray

(* What connection.rs says of a handshake that fails ("the conn drops      *)
(* here, terminating the child"), and lib.rs of close ("either finishes    *)
(* before close retires it or observes `Closed`").  Neither holds.         *)
LostOnesEnd == \A c \in Conns : c \in stray ~> c \notin alive
CloseRetiresAll == retiring[Closer].step = "done" => alive = {}

(* A mutation runs at most once, and only in the session that prepared it; *)
(* a call that was refused there never ran.                                *)
MutationsNotReplayed ==
  \A k \in Callers :
    /\ Len(applied[k]) <= 1
    /\ \A i \in DOMAIN applied[k] : applied[k][i] = prepared[k]
    /\ result[k] \in {"refused", "closed"} => applied[k] = <<>>

(* A reply is never replaced by another before its caller has taken it.    *)
RepliedOnce ==
  [][\A k \in Callers : answer[k] # "none" => answer'[k] \in {answer[k], "none"}]_vars

(* A request that is registered when its connection dies gets a reply.     *)
RegisteredCallsResolve ==
  \A k \in Callers, c \in Conns :
    (k \in pending[c] /\ dying[c] = "pending") ~> pc[k] \notin {"write", "wait"}

(* Every caller waiting for a reply of a dead connection returns.          *)
CallsResolve == \A k \in Callers : (pc[k] = "wait" /\ at[k] \notin alive) ~> pc[k] # "wait"

(* Every waiter for an exec's exit learns it, if only as lost.             *)
ExitsResolve == \A k \in Callers : (pc[k] = "exit" /\ at[k] \notin alive) ~> pc[k] # "exit"
=============================================================================
