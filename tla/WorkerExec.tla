----------------------------- MODULE WorkerExec -----------------------------
(***************************************************************************)
(* The processes of one worker session: launch, the table of running       *)
(* execs and the table of inbound streams, the thread that relays stdin or *)
(* the input and resizes of a PTY, the supervisor that revokes and reaps,  *)
(* settlement, and the teardown that ends the session.  The client's       *)
(* frames arrive in order; the request threads they start do not.          *)
(***************************************************************************)
EXTENDS Integers, Sequences, FiniteSets

CONSTANTS
  Execs,         \* processes the client may start, each once
  Modes,         \* the kinds it may ask for: "plain", "service", "pty"
  Requests, Op, Of,   \* control requests: "close", "cancel" or "resize" of an exec
  StdinQueue,    \* chunks and resizes waiting for one relay thread
  MaxExecs,      \* exec permits
  MaxChunks      \* bound: chunks of input the client writes to one exec

ASSUME ExecAssumption ==
  /\ IsFiniteSet(Execs) /\ IsFiniteSet(Requests) /\ Requests \cap Int = {}
  /\ Modes \subseteq {"plain", "service", "pty"}
  /\ Op \in [Requests -> {"close", "cancel", "resize"}]
  /\ Of \in [Requests -> Execs]
  /\ StdinQueue \in Nat \ {0} /\ MaxExecs \in Nat \ {0} /\ MaxChunks \in Nat

VARIABLES
  wire,                 \* client frames on their way, in order
  fed, ended,           \* per exec: chunks written by the client, input closed by it
  before,               \* per resize: chunks the client had written before it
  reader, poison,       \* the read loop; what poisoned the session
  stop, process,        \* the stop flag; the worker process
  launch, mode,         \* per exec: the request thread that launches it, its kind
  entries, permits, lease,   \* exec table, permits in use, revoked leases
  inbound, next, dropped,    \* inbound table, next sequence, who removed a slot
  queue, relay, hand,   \* the relay's channel, its thread and what it holds
  got,                  \* chunks that reached the child
  child, group,         \* the child, and whether its process group has live members
  early,                \* execs revoked when their child had exited, until reaped
  settle,               \* the settlement thread, with the supervisor it runs
  op                    \* per request: where it is; "done" is answered

client == <<wire, fed, ended, before>>
session == <<reader, poison, stop, process>>
tables == <<entries, permits, lease, early, inbound, next, dropped>>
input == <<queue, relay, hand, got>>
supervisor == <<child, group, settle>>
threads == <<launch, mode, op>>
vars == <<client, session, tables, input, supervisor, threads>>

Nothing == [item |-> -1, last |-> FALSE]

Init ==
  /\ wire = <<>> /\ fed = [e \in Execs |-> 0] /\ ended = {}
  /\ before = [r \in Requests |-> 0]
  /\ reader = "loop" /\ poison = "no" /\ stop = FALSE /\ process = "up"
  /\ launch = [e \in Execs |-> "new"] /\ mode = [e \in Execs |-> "plain"]
  /\ entries = {} /\ permits = 0 /\ lease = {} /\ early = {}
  /\ inbound = {} /\ next = [e \in Execs |-> 0] /\ dropped = [e \in Execs |-> "no"]
  /\ queue = [e \in Execs |-> <<>>] /\ relay = [e \in Execs |-> "none"]
  /\ hand = [e \in Execs |-> Nothing] /\ got = [e \in Execs |-> <<>>]
  /\ child = [e \in Execs |-> "none"] /\ group = {}
  /\ settle = [e \in Execs |-> "none"]
  /\ op = [r \in Requests |-> "new"]

Up == process = "up"
Started(e) == launch[e] = "started"

-----------------------------------------------------------------------------
(* The client: input is numbered and written in order, and no more is      *)
(* written once the exit is known or the input has been closed.  Only a    *)
(* PTY session can be resized, only a relayed stdin half-closed.           *)

Feed(e) ==
  /\ Started(e) /\ mode[e] # "plain" /\ e \notin ended /\ settle[e] # "done"
  /\ fed[e] < MaxChunks
  /\ \E last \in {FALSE} \union {mode[e] = "service"} :
       /\ wire' = Append(wire, [chunk |-> e, seq |-> fed[e], last |-> last])
       /\ ended' = IF last THEN ended \union {e} ELSE ended
  /\ fed' = [fed EXCEPT ![e] = @ + 1]
  /\ UNCHANGED <<before, session, tables, input, supervisor, threads>>

Ask(r) ==
  /\ Started(Of[r]) /\ op[r] = "new"
  /\ Op[r] = "resize" => mode[Of[r]] = "pty"
  /\ Op[r] = "close" => mode[Of[r]] = "service"
  /\ wire' = Append(wire, [request |-> r])
  /\ op' = [op EXCEPT ![r] = "sent"]
  /\ before' = [before EXCEPT ![r] = fed[Of[r]]]
  /\ ended' = IF Op[r] = "close" THEN ended \union {Of[r]} ELSE ended
  /\ UNCHANGED <<fed, session, tables, input, supervisor, launch, mode>>

-----------------------------------------------------------------------------
(* Leases.  Whoever takes an exec out of the table releases its permit and *)
(* flips its lease; the supervisor does the rest.                          *)

LeaseAfterKept(victims) == lease    \* mutant of LeaseAfter
LeaseAfter(victims) == lease \union victims

Revoke(victims) ==
  /\ entries' = entries \ victims
  /\ permits' = permits - Cardinality(victims)
  /\ lease' = LeaseAfter(victims)
  /\ early' = early \union {e \in victims : child[e] = "zombie"}

-----------------------------------------------------------------------------
(* Launching, on the thread of the exec request: permit, child, inbound    *)
(* slot, table entry, and only then the reply that names the stream.       *)

Launches(e, from, to) ==
  /\ Up /\ launch[e] = from
  /\ launch' = [launch EXCEPT ![e] = to]
  /\ UNCHANGED <<client, session, op>>

Acquire(e) ==
  /\ reader = "loop"
  /\ permits < MaxExecs /\ permits' = permits + 1
  /\ \E m \in Modes : mode' = [mode EXCEPT ![e] = m]
  /\ Launches(e, "new", "permit")
  /\ UNCHANGED <<entries, lease, early, inbound, next, dropped, input, supervisor>>

LaunchFails(e) ==
  /\ permits' = permits - 1
  /\ Launches(e, "permit", "failed")
  /\ UNCHANGED <<mode, entries, lease, early, inbound, next, dropped, input, supervisor>>

Spawn(e) ==
  /\ child' = [child EXCEPT ![e] = "running"]
  /\ group' = group \union {e}
  /\ Launches(e, "permit", "spawned")
  /\ UNCHANGED <<mode, tables, input, settle>>

SlotAtLaunchService(e) ==    \* mutant of SlotAtLaunch
  IF mode[e] = "service" THEN inbound \union {e} ELSE inbound
SlotAtLaunch(e) == IF mode[e] = "plain" THEN inbound ELSE inbound \union {e}

OpenInput(e) ==
  /\ inbound' = SlotAtLaunch(e)
  /\ relay' = IF mode[e] = "service" THEN [relay EXCEPT ![e] = "recv"] ELSE relay
  /\ Launches(e, "spawned", "slotted")
  /\ UNCHANGED <<mode, entries, permits, lease, early, next, dropped, queue, hand,
                 got, supervisor>>

Enter(e) ==
  /\ entries' = entries \union {e}
  /\ Launches(e, "slotted", "entered")
  /\ UNCHANGED <<mode, permits, lease, early, inbound, next, dropped, input, supervisor>>

ReplyStarted(e) ==
  /\ relay' = IF mode[e] = "pty" THEN [relay EXCEPT ![e] = "recv"] ELSE relay
  /\ settle' = [settle EXCEPT ![e] = "wait"]
  /\ Launches(e, "entered", "started")
  /\ UNCHANGED <<mode, tables, queue, hand, got, child, group>>

-----------------------------------------------------------------------------
(* The read loop.                                                          *)

Reads == Up /\ reader = "loop" /\ wire # <<>>
IsChunk == Reads /\ "chunk" \in DOMAIN Head(wire)
Stays == UNCHANGED <<reader, poison, stop, process>>

Full(e) == Len(queue[e]) >= StdinQueue
Deaf(e) == relay[e] = "gone"

(* A chunk for a slot that is not there, or out of order, ends the session.*)
PoisonChunk ==
  /\ IsChunk
  /\ LET c == Head(wire) IN
       /\ c.chunk \notin inbound \/ c.seq # next[c.chunk]
       /\ poison' = c.chunk
  /\ reader' = "left" /\ wire' = Tail(wire)
  /\ UNCHANGED <<fed, ended, before, stop, process, tables, input, supervisor, threads>>

SlotAfter(e, failed, last) == IF failed \/ last THEN inbound \ {e} ELSE inbound

RouteChunk ==
  /\ IsChunk /\ Stays
  /\ LET c == Head(wire)
         e == c.chunk
         failed == Full(e) \/ Deaf(e) IN
       /\ e \in inbound /\ c.seq = next[e]
       /\ next' = [next EXCEPT ![e] = @ + 1]
       /\ queue' = IF failed THEN queue
                   ELSE [queue EXCEPT ![e] = Append(@, [item |-> c.seq, last |-> c.last])]
       /\ IF failed THEN Revoke({e} \cap entries)
          ELSE UNCHANGED <<entries, permits, lease, early>>
       /\ inbound' = SlotAfter(e, failed, c.last)
       /\ dropped' = IF failed THEN [dropped EXCEPT ![e] = "pressure"] ELSE dropped
  /\ wire' = Tail(wire)
  /\ UNCHANGED <<fed, ended, before, relay, hand, got, supervisor, threads>>

AdmitRequest ==
  /\ Reads /\ ~IsChunk /\ Stays
  /\ op' = [op EXCEPT ![Head(wire).request] = "run"]
  /\ wire' = Tail(wire)
  /\ UNCHANGED <<fed, ended, before, tables, input, supervisor, launch, mode>>

(* End of file or an authorized shutdown.                                  *)
Leave ==
  /\ Up /\ reader = "loop"
  /\ reader' = "left"
  /\ UNCHANGED <<client, poison, stop, process, tables, input, supervisor, threads>>

-----------------------------------------------------------------------------
(* Request threads: half_close, cancel, enqueue_resize.                    *)

Runs(r, from, to) ==
  /\ Up /\ op[r] = from
  /\ op' = [op EXCEPT ![r] = to]
  /\ UNCHANGED <<client, session, supervisor, launch, mode>>

CloseRefused(r) ==
  /\ Op[r] = "close"
  /\ Of[r] \notin entries \/ mode[Of[r]] # "service"
  /\ Runs(r, "run", "done")
  /\ UNCHANGED <<tables, input>>

CloseFinds(r) ==
  /\ Op[r] = "close" /\ Of[r] \in entries /\ mode[Of[r]] = "service"
  /\ Runs(r, "run", "drop")
  /\ UNCHANGED <<tables, input>>

CloseDrops(r) ==
  /\ Op[r] = "close"
  /\ inbound' = inbound \ {Of[r]}
  /\ Runs(r, "drop", "done")
  /\ UNCHANGED <<entries, permits, lease, early, next, dropped, input>>

Cancel(r) ==
  /\ Op[r] = "cancel"
  /\ Revoke({Of[r]} \cap entries)
  /\ Runs(r, "run", "done")
  /\ UNCHANGED <<inbound, next, dropped, input>>

ResizeRefused(r) ==
  /\ Op[r] = "resize"
  /\ Of[r] \notin entries \/ mode[Of[r]] # "pty"
  /\ Runs(r, "run", "done")
  /\ UNCHANGED <<tables, input>>

(* The sender is cloned under the table's lock and used outside it.        *)
ResizeFinds(r) ==
  /\ Op[r] = "resize" /\ Of[r] \in entries /\ mode[Of[r]] = "pty"
  /\ Runs(r, "run", "send")
  /\ UNCHANGED <<tables, input>>

ResizeQueues(r) ==
  /\ Op[r] = "resize" /\ ~Full(Of[r]) /\ ~Deaf(Of[r])
  /\ queue' = [queue EXCEPT ![Of[r]] = Append(@, [item |-> r, last |-> FALSE])]
  /\ Runs(r, "send", "queued")
  /\ UNCHANGED <<tables, relay, hand, got>>

ResizeFails(r) ==
  /\ Op[r] = "resize" /\ (Full(Of[r]) \/ Deaf(Of[r]))
  /\ IF Deaf(Of[r]) THEN UNCHANGED <<entries, permits, lease, early>>
     ELSE Revoke({Of[r]} \cap entries)
  /\ Runs(r, "send", "done")
  /\ UNCHANGED <<inbound, next, dropped, input>>

-----------------------------------------------------------------------------
(* The relay thread of a service's stdin, or of a PTY's input and resizes. *)

Sending(e) == {r \in Requests : Of[r] = e /\ op[r] = "send"}
Disconnected(e) ==
  e \notin inbound /\ (mode[e] = "pty" => e \notin entries /\ Sending(e) = {})
IsResize(item) == item \in Requests

Relays(e, from) ==
  /\ Up /\ relay[e] = from
  /\ UNCHANGED <<client, session, tables, supervisor, launch, mode>>

(* The thread leaves: its channel goes, and what is queued with it.        *)
Leaves(e) ==
  /\ relay' = [relay EXCEPT ![e] = "gone"]
  /\ queue' = [queue EXCEPT ![e] = <<>>]
  /\ hand' = [hand EXCEPT ![e] = Nothing]

RelayTakes(e) ==
  /\ queue[e] # <<>>
  /\ hand' = [hand EXCEPT ![e] = Head(queue[e])]
  /\ queue' = [queue EXCEPT ![e] = Tail(@)]
  /\ relay' = [relay EXCEPT ![e] = "write"]
  /\ Relays(e, "recv") /\ UNCHANGED <<got, op>>

ChannelOverEarly(e) == Disconnected(e)    \* mutant of ChannelOver
ChannelOver(e) == queue[e] = <<>> /\ Disconnected(e)

RelayCloses(e) ==
  /\ ChannelOver(e)
  /\ Leaves(e)
  /\ Relays(e, "recv") /\ UNCHANGED <<got, op>>

Continues(e, ends) ==
  IF ends THEN Leaves(e)
  ELSE /\ relay' = [relay EXCEPT ![e] = "recv"] /\ hand' = [hand EXCEPT ![e] = Nothing]
       /\ UNCHANGED queue

(* The child, or what is left of its group, takes the chunk.               *)
ChildReads(e) ==
  /\ relay[e] = "write" /\ ~IsResize(hand[e].item) /\ e \in group
  /\ got' = [got EXCEPT ![e] = Append(@, hand[e].item)]
  /\ Continues(e, IF mode[e] = "pty" THEN stop ELSE hand[e].last)
  /\ Relays(e, "write") /\ UNCHANGED op

RelayFails(e) ==
  /\ relay[e] = "write" /\ ~IsResize(hand[e].item) /\ e \notin group
  /\ Leaves(e)
  /\ Relays(e, "write") /\ UNCHANGED <<got, op>>

RelayResizes(e) ==
  /\ relay[e] = "write" /\ IsResize(hand[e].item)
  /\ op' = [op EXCEPT ![hand[e].item] = "done"]
  /\ Continues(e, stop)
  /\ Relays(e, "write") /\ UNCHANGED got

-----------------------------------------------------------------------------
(* The child and its supervisor.  An exited child stays a zombie until it  *)
(* is reaped, so its group can still be signalled.                         *)

ChildExits(e) ==
  /\ child[e] = "running"
  /\ child' = [child EXCEPT ![e] = "zombie"]
  /\ group' \in {group, group \ {e}}
  /\ UNCHANGED <<client, session, tables, input, settle, threads>>

Supervises(e, from, to) ==
  /\ Up /\ settle[e] = from
  /\ settle' = [settle EXCEPT ![e] = to]
  /\ UNCHANGED <<client, session, input, threads>>

(* wait and revoke poll the record before they look at anything else.      *)
SeesRecord(e) ==
  /\ child[e] = "zombie"
  /\ Supervises(e, settle[e], "group") /\ settle[e] \in {"wait", "drain"}
  /\ UNCHANGED <<tables, child, group>>

SeesRevocation(e) ==
  /\ e \in lease
  /\ Supervises(e, "wait", "drain")
  /\ UNCHANGED <<tables, child, group>>

DrainOverHasty(e) == TRUE    \* mutant of DrainOver
DrainOver(e) == child[e] = "running"

(* The drain expired with no record, so TERM is sent and the status is     *)
(* lost; the grace, then KILL.  A recorded exit has its group killed too.  *)
Terminate(e) ==
  /\ DrainOver(e)
  /\ Supervises(e, "drain", "kill")
  /\ UNCHANGED <<tables, child, group>>

GroupAfterKillKept(e) == group    \* mutant of GroupAfterKill
GroupAfterKill(e) == group \ {e}

KillGroup(e) ==
  /\ child' = [child EXCEPT ![e] = "zombie"]
  /\ group' = GroupAfterKill(e)
  /\ settle[e] \in {"group", "kill"} /\ Supervises(e, settle[e], "reap")
  /\ UNCHANGED tables

Reap(e) ==
  /\ child' = [child EXCEPT ![e] = "reaped"]
  /\ early' = early \ {e}
  /\ Supervises(e, "reap", "leave")
  /\ UNCHANGED <<entries, permits, lease, inbound, next, dropped, group>>

(* Settlement: leave the table, then the inbound slot and the permit, then *)
(* publish the exit, unless the session stops.                             *)
LeaveTable(e) ==
  /\ entries' = entries \ {e}
  /\ Supervises(e, "leave", IF e \in entries THEN "slot" ELSE "publish")
  /\ UNCHANGED <<permits, lease, early, inbound, next, dropped, child, group>>

SlotAfterSettle(e) == inbound \ {e}

DropSlot(e) ==
  /\ inbound' = SlotAfterSettle(e)
  /\ dropped' = IF e \in inbound THEN [dropped EXCEPT ![e] = "settled"] ELSE dropped
  /\ permits' = permits - 1
  /\ Supervises(e, "slot", "publish")
  /\ UNCHANGED <<entries, lease, early, next, child, group>>

Publish(e) ==
  /\ Supervises(e, "publish", IF stop THEN "silent" ELSE "done")
  /\ UNCHANGED <<tables, child, group>>

-----------------------------------------------------------------------------
(* The end of the session: the stop flag, revocation of what is in the     *)
(* table, a bounded wait for request threads, the end of the process.      *)

Stop ==
  /\ Up /\ reader = "left" /\ ~stop
  /\ stop' = TRUE
  /\ UNCHANGED <<client, reader, poison, process, tables, input, supervisor, threads>>

Teardown ==
  /\ Up /\ reader = "left" /\ stop
  /\ reader' = "drain"
  /\ Revoke(entries)
  /\ UNCHANGED <<client, poison, stop, process, inbound, next, dropped, input,
                 supervisor, threads>>

Exit ==
  /\ Up /\ reader = "drain"
  /\ process' = "gone"
  /\ UNCHANGED <<client, reader, poison, stop, tables, input, supervisor, threads>>

-----------------------------------------------------------------------------
RequestRuns(r) ==
  \/ CloseRefused(r) \/ CloseFinds(r) \/ CloseDrops(r) \/ Cancel(r)
  \/ ResizeRefused(r) \/ ResizeFinds(r) \/ ResizeQueues(r) \/ ResizeFails(r)
LaunchRuns(e) == OpenInput(e) \/ Enter(e) \/ ReplyStarted(e)
RelayRuns(e) == RelayTakes(e) \/ RelayCloses(e) \/ RelayFails(e) \/ RelayResizes(e)
SettleRuns(e) ==
  \/ SeesRecord(e) \/ SeesRevocation(e) \/ Terminate(e) \/ KillGroup(e) \/ Reap(e)
  \/ LeaveTable(e) \/ DropSlot(e) \/ Publish(e)

Next ==
  \/ \E e \in Execs :
       \/ Feed(e) \/ Acquire(e) \/ LaunchFails(e) \/ Spawn(e) \/ LaunchRuns(e)
       \/ ChildReads(e) \/ RelayRuns(e) \/ ChildExits(e) \/ SettleRuns(e)
  \/ \E r \in Requests : Ask(r) \/ RequestRuns(r)
  \/ PoisonChunk \/ RouteChunk \/ AdmitRequest \/ Leave
  \/ Stop \/ Teardown \/ Exit

Spec == Init /\ [][Next]_vars

(* The threads of the worker run and the child reads its input.  The       *)
(* client, the exit of the child and the end of the session are free.      *)
FairSpec ==
  /\ Spec
  /\ \A e \in Execs : WF_vars(LaunchRuns(e)) /\ WF_vars(RelayRuns(e)) /\ WF_vars(SettleRuns(e))
  /\ \A r \in Requests : WF_vars(RequestRuns(r))
  /\ \A e \in Execs : WF_vars(ChildReads(e))
  /\ WF_vars(PoisonChunk \/ RouteChunk \/ AdmitRequest) /\ WF_vars(Stop)

-----------------------------------------------------------------------------
(* What a child reads is what the client wrote, from the first chunk on    *)
(* and without a gap, whatever was dropped under pressure; and a half-close *)
(* or a last chunk ends the input after all of it: unless the exec is over, *)
(* the child has read everything before it sees the end.                   *)
InputWhole ==
  \A e \in Execs :
    /\ got[e] = [i \in 1..Len(got[e]) |-> i - 1]
    /\ (mode[e] = "service" /\ relay[e] = "gone" /\ e \in ended /\ dropped[e] = "no" /\ e \in entries /\ e \in group)
         => Len(got[e]) = fed[e]

(* A session whose client writes in order is poisoned only by a chunk that *)
(* was under way when the relay failed or the exec settled: never by one   *)
(* that came too early or behind a half-close.                             *)
PoisonIsLate ==
  poison # "no" => dropped[poison] \in {"pressure", "settled"}

(* The teardown revokes every running child whose launch has entered it in *)
(* the table: whoever took an entry out before had flipped its lease, or   *)
(* its child was gone.                                                     *)
TeardownRevokes ==
  [][reader # "drain" /\ reader' = "drain" =>
       \A e \in Execs : launch[e] \in {"entered", "started"} /\ child[e] = "running"
         => e \in lease']_vars

(* After the teardown nothing runs that has not been revoked, not even a   *)
(* child whose launch was still under way.                                 *)
NoOrphan ==
  \A e \in Execs : reader = "drain" /\ Started(e) /\ child[e] = "running" => e \in lease

(* A child that had exited when its lease was revoked is reported with its *)
(* own exit status.                                                        *)
ExitWins == \A e \in early : settle[e] # "kill"

(* When a child has been reaped -- and its number may be used again -- no  *)
(* member of its group is left; and an exec that settled without being     *)
(* revoked leaves no sender: its relay thread finds the channel closed.    *)
NothingLeftBehind ==
  \A e \in Execs :
    /\ child[e] = "reaped" => e \notin group
    /\ settle[e] \in {"publish", "done", "silent"} /\ e \notin lease => e \notin inbound \union entries

(* Every admitted control request is answered, unless the session ends.    *)
RequestsAnswered ==
  \A r \in Requests : op[r] = "run" ~> (op[r] = "done" \/ stop)

(* Input and resizes reach the terminal in the order in which they were    *)
(* sent: a chunk written after a resize is not applied before it.          *)
WireOrder ==
  \A r \in Requests :
    Op[r] = "resize" /\ op[r] \in {"sent", "run", "send", "queued"} =>
      Len(got[Of[r]]) <= before[r]
=============================================================================
