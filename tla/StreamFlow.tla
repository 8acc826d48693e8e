----------------------------- MODULE StreamFlow -----------------------------
(***************************************************************************)
(* Flow control of the worker-to-client streams: file reads, exec output   *)
(* and terminal (PTY) output.  A pump (the request thread of a read, the   *)
(* pump thread of an exec output pipe) draws one credit per chunk from the *)
(* stream's window, reads its source and pushes the chunk into the shared  *)
(* data lane; one writer drains the lanes; the client's reader routes      *)
(* chunks into a bounded queue per stream, and the payload returns one     *)
(* credit for each chunk it has consumed.  The queue of a terminal also    *)
(* takes the markers of its resizes, which nobody draws a credit for.      *)
(*                                                                         *)
(* Chunks of one stream keep their order from the pump to the payload, so  *)
(* a stream's chunks are counted, not stored: `pushed`, `written`,         *)
(* `routed` and `taken` say how many frames have passed each stage, and    *)
(* the frames between two stages are the difference of two counters.  The  *)
(* markers in a queue are counted beside its chunks: where a marker stands *)
(* among the chunks is left open, but that a terminal chunk is the last.   *)
(***************************************************************************)
EXTENDS Integers, FiniteSets

LOCAL INSTANCE FiniteSetsExt

CONSTANTS
  Streams,      \* worker-minted streams of one session
  Readers,      \* those whose payload the caller keeps reading
  Window,       \* STREAM_WINDOW_CHUNKS: initial and maximal credits
  Inbound,      \* STREAM_INBOUND_CHUNKS: the client's queue per stream
  DataLane,     \* max_queued_data_chunks: the shared outbound data lane
  MaxChunks,    \* bound: chunks one source holds at most
  MaxResizes    \* bound: resizes one terminal is asked for

ASSUME FlowAssumption ==
  /\ IsFiniteSet(Streams) /\ Readers \subseteq Streams
  /\ Window \in Nat \ {0}
  /\ Inbound \in Nat
  /\ Inbound > Window
  /\ DataLane \in Nat \ {0}
  /\ MaxChunks \in Nat
  /\ MaxResizes \in Nat

VARIABLES
  kind,       \* ranged read, whole-file read, exec or terminal output
  size,       \* chunks in the source when the stream opens (announced)
  left,       \* chunks the source still holds
  pump,       \* where the producing thread is
  term,       \* how the stream was ended: not yet, a bare EOF, a data chunk
  credits,    \* WindowState.credits
  abandoned,  \* WindowState.abandoned
  cancelled,  \* the request token or exec lease is cancelled
  opening,    \* the ReadOpened / ExecStarted envelope
  pushed, written, routed, taken,  \* frames past each stage
  queued,     \* chunks in the client's queue of the stream
  marks,      \* resize markers in it
  resizes,    \* resizes asked for
  slot,       \* the client's StreamSlot
  payload,    \* the client's ReadPayload or PtySession
  returned,   \* StreamCredit frames the client has written
  granted,    \* StreamCredit frames the worker has handled
  revoke,     \* the Cancel / ExecCancel frame
  discard,    \* the StreamAbandon frame
  alive,      \* the worker and its transport
  corrupt     \* the client saw a chunk on an unknown stream

workerVars == <<kind, size, left, pump, term, credits, abandoned, cancelled>>
laneVars   == <<opening, pushed, written>>
clientVars == <<slot, payload, routed, queued, marks, resizes, taken, corrupt>>
uplinkVars == <<returned, granted, revoke, discard>>
vars == <<workerVars, laneVars, clientVars, uplinkVars, alive>>

Kinds    == {"ranged", "whole", "exec", "pty"}
Pumps    == {"closed", "announced", "take", "emit", "drain", "push", "done"}
Terms    == {"open", "bare", "data"}
Openings == {"none", "queued", "wire", "routed"}
Slots    == {"none", "live", "tomb"}
Payloads == {"none", "idle", "holding", "resizing", "complete", "failed", "dropped"}
Frames   == {"none", "sent", "handled"}

Process(s)    == kind[s] \in {"exec", "pty"}
Registered(s) == pump[s] \notin {"closed", "announced", "done"}
InLane(s)     == pushed[s] - written[s]
Resolved(s)   == payload[s] \in {"complete", "failed", "dropped"}
UntakenBy(s)  == pushed[s] - taken[s]
LaneUsedUntilTaken == MapThenSumSet(UntakenBy, Streams)    \* mutant of LaneUsed
LaneUsed      == MapThenSumSet(InLane, Streams)

TerminalTaken(s) == term[s] # "open" /\ taken[s] = pushed[s]

(* Data chunks an ended stream carried: the bare terminal marker has none. *)
Carried(s) == IF term[s] = "bare" THEN pushed[s] - 1 ELSE pushed[s]

Init ==
  /\ kind \in [Streams -> Kinds]
  /\ size \in [Streams -> 0..MaxChunks]
  /\ left = size
  /\ pump = [s \in Streams |-> "closed"]
  /\ term = [s \in Streams |-> "open"]
  /\ credits = [s \in Streams |-> 0]
  /\ abandoned = [s \in Streams |-> FALSE]
  /\ cancelled = [s \in Streams |-> FALSE]
  /\ opening = [s \in Streams |-> "none"]
  /\ pushed = [s \in Streams |-> 0]
  /\ written = [s \in Streams |-> 0]
  /\ routed = [s \in Streams |-> 0]
  /\ queued = [s \in Streams |-> 0]
  /\ marks = [s \in Streams |-> 0]
  /\ resizes = [s \in Streams |-> 0]
  /\ taken = [s \in Streams |-> 0]
  /\ slot = [s \in Streams |-> "none"]
  /\ payload = [s \in Streams |-> "none"]
  /\ returned = [s \in Streams |-> 0]
  /\ granted = [s \in Streams |-> 0]
  /\ revoke = [s \in Streams |-> "none"]
  /\ discard = [s \in Streams |-> "none"]
  /\ alive = TRUE
  /\ corrupt = FALSE

-----------------------------------------------------------------------------
(* The worker's pumps.                                                     *)

OpeningCredits == Window

(* The window is registered with its credits before the reply is queued on *)
(* the control lane: no frame about the stream comes before either.        *)
Open(s) ==
  /\ alive /\ pump[s] = "closed" /\ kind[s] # "pty"
  /\ pump' = [pump EXCEPT ![s] = "take"]
  /\ credits' = [credits EXCEPT ![s] = OpeningCredits]
  /\ opening' = [opening EXCEPT ![s] = "queued"]
  /\ UNCHANGED <<kind, size, left, term, abandoned, cancelled, pushed, written,
                 clientVars, uplinkVars, alive>>

(* A terminal is announced first: the reply is out, and the client may act *)
(* on the stream, before its window is registered.                         *)
Announce(s) ==
  /\ alive /\ pump[s] = "closed" /\ kind[s] = "pty"
  /\ pump' = [pump EXCEPT ![s] = "announced"]
  /\ opening' = [opening EXCEPT ![s] = "queued"]
  /\ UNCHANGED <<kind, size, left, term, credits, abandoned, cancelled, pushed, written,
                 clientVars, uplinkVars, alive>>

Register(s) ==
  /\ alive /\ pump[s] = "announced"
  /\ pump' = [pump EXCEPT ![s] = "take"]
  /\ credits' = [credits EXCEPT ![s] = OpeningCredits]
  /\ UNCHANGED <<kind, size, left, term, abandoned, cancelled, laneVars,
                 clientVars, uplinkVars, alive>>

(* The empty `last` chunk: it draws no credit and bypasses a full lane.    *)
(* The pump returns, which drops the window's registration.                *)
EndStream(s) ==
  /\ pump' = [pump EXCEPT ![s] = "done"]
  /\ term' = [term EXCEPT ![s] = "bare"]
  /\ pushed' = [pushed EXCEPT ![s] = @ + 1]

(* A ranged read with nothing left of its range.  Only an empty range gets *)
(* here: the chunk that completes a range returns at its push.             *)
RangeDone(s) == kind[s] = "ranged" /\ pushed[s] = size[s]

(* A cancelled token stops the pump before it draws a credit.              *)
TakeStopped(s) ==
  /\ alive /\ pump[s] = "take"
  /\ cancelled[s] \/ RangeDone(s)
  /\ EndStream(s)
  /\ UNCHANGED <<kind, size, left, credits, abandoned, cancelled, opening, written,
                 clientVars, uplinkVars, alive>>

TakeEmit(s) ==
  /\ alive /\ pump[s] = "take"
  /\ ~cancelled[s] /\ ~abandoned[s]
  /\ ~RangeDone(s)
  /\ credits[s] > 0
  /\ credits' = [credits EXCEPT ![s] = @ - 1]
  /\ pump' = [pump EXCEPT ![s] = "emit"]
  /\ UNCHANGED <<kind, size, left, term, abandoned, cancelled, laneVars,
                 clientVars, uplinkVars, alive>>

(* An abandoned process output is still read, with or without credits, so  *)
(* that its child can go on writing: the bytes are dropped.                *)
DiscardsOnCredit(s) == abandoned[s] /\ credits[s] > 0    \* mutant of Discards
Discards(s) == abandoned[s]

TakeDiscard(s) ==
  /\ alive /\ pump[s] = "take"
  /\ ~cancelled[s] /\ Discards(s)
  /\ pump' = [pump EXCEPT ![s] = "drain"]
  /\ UNCHANGED <<kind, size, left, term, credits, abandoned, cancelled, laneVars,
                 clientVars, uplinkVars, alive>>

ReadChunk(s) ==
  /\ alive /\ pump[s] \in {"emit", "drain"} /\ left[s] > 0
  /\ left' = [left EXCEPT ![s] = @ - 1]
  /\ pump' = [pump EXCEPT ![s] = IF @ = "emit" THEN "push" ELSE "take"]
  /\ UNCHANGED <<kind, size, term, credits, abandoned, cancelled, laneVars,
                 clientVars, uplinkVars, alive>>

ReadEof(s) ==
  /\ alive /\ pump[s] \in {"emit", "drain"} /\ left[s] = 0
  /\ EndStream(s)
  /\ UNCHANGED <<kind, size, left, credits, abandoned, cancelled, opening, written,
                 clientVars, uplinkVars, alive>>

(* The read of the source faults, or the file is truncated under it.       *)
SourceFails(s) ==
  /\ alive /\ left[s] > 0 /\ pump[s] \in {"take", "emit", "drain"}
  /\ left' = [left EXCEPT ![s] = 0]
  /\ UNCHANGED <<kind, size, pump, term, credits, abandoned, cancelled, laneVars,
                 clientVars, uplinkVars, alive>>

(* A ranged read marks the chunk that completes its range `last`.          *)
FinalChunk(s) == kind[s] = "ranged" /\ pushed[s] + 1 = size[s]

AfterPushLooping(s) == "take"    \* mutant of AfterPush
AfterPush(s) == IF FinalChunk(s) THEN "done" ELSE "take"

PushEnqueued(s) ==
  /\ alive /\ pump[s] = "push" /\ ~cancelled[s]
  /\ FinalChunk(s) \/ LaneUsed < DataLane
  /\ pushed' = [pushed EXCEPT ![s] = @ + 1]
  /\ pump' = [pump EXCEPT ![s] = AfterPush(s)]
  /\ term' = [term EXCEPT ![s] = IF FinalChunk(s) THEN "data" ELSE @]
  /\ UNCHANGED <<kind, size, left, credits, abandoned, cancelled, opening, written,
                 clientVars, uplinkVars, alive>>

(* Cancelled before the push: the chunk is lost, the stream still ends.    *)
PushCancelled(s) ==
  /\ alive /\ pump[s] = "push" /\ cancelled[s]
  /\ EndStream(s)
  /\ UNCHANGED <<kind, size, left, credits, abandoned, cancelled, opening, written,
                 clientVars, uplinkVars, alive>>

-----------------------------------------------------------------------------
(* The writer: the control lane drains before the data lane.               *)

WriteOpening(s) ==
  /\ alive /\ opening[s] = "queued"
  /\ opening' = [opening EXCEPT ![s] = "wire"]
  /\ UNCHANGED <<workerVars, pushed, written, clientVars, uplinkVars, alive>>

ControlEmpty == \A s \in Streams : opening[s] # "queued"

WriteChunk(s) ==
  /\ alive /\ ControlEmpty /\ InLane(s) > 0
  /\ written' = [written EXCEPT ![s] = @ + 1]
  /\ UNCHANGED <<workerVars, opening, pushed, clientVars, uplinkVars, alive>>

-----------------------------------------------------------------------------
(* The worker's reader: credits, cancellation and abandonment are handled  *)
(* inline.  A credit or an abandon for a stream that has no window, not    *)
(* yet or no longer, is a no-op.                                           *)

(* A grant adds to the window up to its size.                              *)
GrantedReset(s) == IF Registered(s) /\ ~abandoned[s] THEN 1 ELSE credits[s]    \* mutant of Granted
Granted(s) ==
  IF Registered(s) /\ ~abandoned[s] /\ credits[s] < Window
  THEN credits[s] + 1 ELSE credits[s]

HandleCredit(s) ==
  /\ alive /\ granted[s] < returned[s]
  /\ granted' = [granted EXCEPT ![s] = @ + 1]
  /\ credits' = [credits EXCEPT ![s] = Granted(s)]
  /\ UNCHANGED <<kind, size, left, pump, term, abandoned, cancelled, laneVars,
                 clientVars, returned, revoke, discard, alive>>

HandleRevoke(s) ==
  /\ alive /\ revoke[s] = "sent"
  /\ revoke' = [revoke EXCEPT ![s] = "handled"]
  /\ cancelled' = [cancelled EXCEPT ![s] = @ \/ pump[s] # "done"]
  /\ UNCHANGED <<kind, size, left, pump, term, credits, abandoned, laneVars,
                 clientVars, returned, granted, discard, alive>>

HandleAbandon(s) ==
  /\ alive /\ discard[s] = "sent"
  /\ discard' = [discard EXCEPT ![s] = "handled"]
  /\ abandoned' = [abandoned EXCEPT ![s] = @ \/ Registered(s)]
  /\ UNCHANGED <<kind, size, left, pump, term, credits, cancelled, laneVars,
                 clientVars, returned, granted, revoke, alive>>

-----------------------------------------------------------------------------
(* The client's reader.                                                    *)

RouteOpening(s) ==
  /\ alive /\ opening[s] = "wire"
  /\ opening' = [opening EXCEPT ![s] = "routed"]
  /\ slot' = [slot EXCEPT ![s] = "live"]
  /\ payload' = [payload EXCEPT ![s] = "idle"]
  /\ UNCHANGED <<workerVars, pushed, written, routed, queued, marks, resizes, taken, corrupt,
                 uplinkVars, alive>>

(* The frame now routed is the stream's terminal one.                      *)
RoutesLast(s) == term[s] # "open" /\ routed[s] + 1 = pushed[s]

(* What becomes of a chunk or a marker: the payload may be gone            *)
(* (Disconnected) or its queue full; either tombstones the slot and drops  *)
(* the sender.                                                             *)
FullAtWindow(s) == queued[s] + marks[s] >= Window    \* mutant of Full
Full(s) == queued[s] + marks[s] >= Inbound
Overflows(s) == slot[s] = "live" /\ payload[s] # "dropped" /\ Full(s)
Delivers(s)  == slot[s] = "live" /\ payload[s] # "dropped" /\ ~Full(s)

SlotAfter(s) ==
  CASE slot[s] = "live" /\ ~Delivers(s)   -> "tomb"
    [] ~RoutesLast(s)                     -> slot[s]
    [] OTHER                              -> "none"

(* A chunk on an unknown stream terminates the connection.  An overflowing *)
(* read is cancelled.  The transport is ordered: a chunk written after its *)
(* opening envelope is read after it.                                      *)
RouteChunk(s) ==
  /\ alive /\ routed[s] < written[s] /\ opening[s] # "wire"
  /\ routed' = [routed EXCEPT ![s] = @ + 1]
  /\ queued' = [queued EXCEPT ![s] = IF Delivers(s) THEN @ + 1 ELSE @]
  /\ corrupt' = (corrupt \/ slot[s] = "none")
  /\ alive' = (slot[s] # "none")
  /\ slot' = IF slot[s] = "none" THEN [t \in Streams |-> "none"]
             ELSE [slot EXCEPT ![s] = SlotAfter(s)]
  /\ revoke' = [revoke EXCEPT ![s] =
                  IF Overflows(s) /\ ~Process(s) /\ @ = "none" THEN "sent" ELSE @]
  /\ UNCHANGED <<workerVars, laneVars, marks, resizes, taken, payload, returned,
                 granted, discard>>

(* A resize was applied: its marker takes a place in the terminal's queue  *)
(* before the reply wakes the caller.  A full queue costs the stream.      *)
RouteResized(s) ==
  /\ alive /\ payload[s] = "resizing"
  /\ payload' = [payload EXCEPT ![s] = "idle"]
  /\ marks' = [marks EXCEPT ![s] = IF Delivers(s) THEN @ + 1 ELSE @]
  /\ slot' = [slot EXCEPT ![s] = IF Overflows(s) THEN "tomb" ELSE @]
  /\ UNCHANGED <<workerVars, laneVars, routed, queued, resizes, taken, corrupt,
                 uplinkVars, alive>>

(* The transport ends: the client drains its stream table, and each live   *)
(* payload fails once it has drained its queue.                            *)
Terminate ==
  /\ alive
  /\ alive' = FALSE
  /\ slot' = [s \in Streams |-> "none"]
  /\ UNCHANGED <<workerVars, laneVars, routed, queued, marks, resizes, taken, payload,
                 corrupt, uplinkVars>>

-----------------------------------------------------------------------------
(* The payload, on its caller's thread.                                    *)

(* Taking the terminal frame ends the payload: an announced read that got  *)
(* another number of chunks fails.  A terminal's owner holds no chunk.     *)
TakesLast(s) == term[s] # "open" /\ taken[s] + 1 = pushed[s]
Between(s) == IF kind[s] = "pty" THEN "idle" ELSE "holding"
PayloadAfterUnchecked(s) ==    \* mutant of PayloadAfter
  IF ~TakesLast(s) THEN Between(s) ELSE "complete"
PayloadAfter(s) ==
  IF ~TakesLast(s) THEN Between(s)
  ELSE IF Process(s) \/ Carried(s) = size[s] THEN "complete" ELSE "failed"

Credit(s) == [returned EXCEPT ![s] = IF alive THEN @ + 1 ELSE @]

(* A terminal's credit goes back at once, those of the others once the     *)
(* chunk has been read.                                                    *)
Recv(s) ==
  /\ payload[s] = "idle" /\ queued[s] > 0
  /\ TakesLast(s) => marks[s] = 0
  /\ queued' = [queued EXCEPT ![s] = @ - 1]
  /\ taken' = [taken EXCEPT ![s] = @ + 1]
  /\ payload' = [payload EXCEPT ![s] = PayloadAfter(s)]
  /\ returned' = IF kind[s] = "pty" /\ ~TakesLast(s) THEN Credit(s) ELSE returned
  /\ UNCHANGED <<workerVars, laneVars, slot, routed, marks, resizes, corrupt,
                 granted, revoke, discard, alive>>

(* A marker carries no chunk and returns no credit.                        *)
RecvMarker(s) ==
  /\ payload[s] = "idle" /\ marks[s] > 0
  /\ marks' = [marks EXCEPT ![s] = @ - 1]
  /\ UNCHANGED <<workerVars, laneVars, slot, payload, routed, queued, resizes, taken, corrupt,
                 uplinkVars, alive>>

(* The sender is gone and the queue is drained.                            *)
RecvDisconnected(s) ==
  /\ payload[s] = "idle" /\ queued[s] + marks[s] = 0 /\ slot[s] # "live"
  /\ payload' = [payload EXCEPT ![s] = "failed"]
  /\ UNCHANGED <<workerVars, laneVars, slot, routed, queued, marks, resizes, taken, corrupt,
                 uplinkVars, alive>>

(* The chunk in hand has been read: its credit goes back.                  *)
Consume(s) ==
  /\ payload[s] = "holding"
  /\ payload' = [payload EXCEPT ![s] = "idle"]
  /\ returned' = Credit(s)
  /\ UNCHANGED <<workerVars, laneVars, slot, routed, queued, marks, resizes, taken, corrupt,
                 granted, revoke, discard, alive>>

(* An exec payload's own token is cancelled: a local failure only.         *)
RecvCancelled(s) ==
  /\ payload[s] = "idle" /\ kind[s] = "exec"
  /\ payload' = [payload EXCEPT ![s] = "failed"]
  /\ UNCHANGED <<workerVars, laneVars, slot, routed, queued, marks, resizes, taken, corrupt,
                 uplinkVars, alive>>

(* A terminal's owner asks for a new geometry and waits for the reply:     *)
(* meanwhile it takes nothing from the queue.                              *)
Resize(s) ==
  /\ alive /\ payload[s] = "idle" /\ kind[s] = "pty" /\ resizes[s] < MaxResizes
  /\ payload' = [payload EXCEPT ![s] = "resizing"]
  /\ resizes' = [resizes EXCEPT ![s] = @ + 1]
  /\ UNCHANGED <<workerVars, laneVars, slot, routed, queued, marks, taken, corrupt,
                 uplinkVars, alive>>

(* The worker refused it or failed to apply it, the token was cancelled,   *)
(* or the transport ended.                                                 *)
ResizeFails(s) ==
  /\ payload[s] = "resizing"
  /\ payload' = [payload EXCEPT ![s] = "idle"]
  /\ UNCHANGED <<workerVars, laneVars, slot, routed, queued, marks, resizes, taken, corrupt,
                 uplinkVars, alive>>

(* Dropping a payload that has not seen `last` cancels a read and abandons *)
(* a process output.                                                       *)
Drop(s) ==
  /\ payload[s] \in {"idle", "holding", "failed"} /\ ~TerminalTaken(s)
  /\ payload' = [payload EXCEPT ![s] = "dropped"]
  /\ queued' = [queued EXCEPT ![s] = 0]
  /\ marks' = [marks EXCEPT ![s] = 0]
  /\ revoke' = [revoke EXCEPT ![s] =
                  IF alive /\ ~Process(s) /\ @ = "none" THEN "sent" ELSE @]
  /\ discard' = [discard EXCEPT ![s] =
                  IF alive /\ Process(s) THEN "sent" ELSE @]
  /\ UNCHANGED <<workerVars, laneVars, slot, routed, resizes, taken, corrupt, returned,
                 granted, alive>>

(* The caller cancels: the hook writes `cancel` for a read in flight, and  *)
(* ExecCancel for an exec whose reply has come.                            *)
CallerCancels(s) ==
  /\ alive /\ revoke[s] = "none"
  /\ Process(s) => opening[s] = "routed"
  /\ revoke' = [revoke EXCEPT ![s] = "sent"]
  /\ UNCHANGED <<workerVars, laneVars, clientVars, returned, granted, discard, alive>>

-----------------------------------------------------------------------------
Pump(s) ==
  \/ Open(s) \/ Announce(s) \/ Register(s) \/ TakeStopped(s) \/ TakeEmit(s) \/ TakeDiscard(s)
  \/ ReadChunk(s) \/ ReadEof(s) \/ PushEnqueued(s) \/ PushCancelled(s)
Writer(s) == WriteOpening(s) \/ WriteChunk(s)
WorkerReader(s) == HandleCredit(s) \/ HandleRevoke(s) \/ HandleAbandon(s)
ClientReader(s) == RouteOpening(s) \/ RouteChunk(s)
Read(s) == Recv(s) \/ RecvMarker(s) \/ RecvDisconnected(s) \/ Consume(s)
Resizing(s) == Resize(s) \/ RouteResized(s) \/ ResizeFails(s)

Next ==
  \/ \E s \in Streams :
       \/ Pump(s) \/ Writer(s) \/ WorkerReader(s) \/ ClientReader(s) \/ Read(s)
       \/ Resizing(s) \/ SourceFails(s) \/ RecvCancelled(s) \/ Drop(s) \/ CallerCancels(s)
  \/ Terminate

Spec == Init /\ [][Next]_vars

(* Threads that can run do; only the payloads in Readers are kept read.    *)
Fairness ==
  /\ \A s \in Streams : /\ WF_vars(Pump(s)) /\ WF_vars(Writer(s))
                        /\ WF_vars(WorkerReader(s)) /\ WF_vars(ClientReader(s))
  /\ \A s \in Readers : WF_vars(Read(s))
FairSpec == Spec /\ Fairness

-----------------------------------------------------------------------------
TypeOK ==
  /\ kind \in [Streams -> Kinds]
  /\ size \in [Streams -> 0..MaxChunks]
  /\ left \in [Streams -> 0..MaxChunks]
  /\ pump \in [Streams -> Pumps]
  /\ term \in [Streams -> Terms]
  /\ credits \in [Streams -> 0..Window]
  /\ abandoned \in [Streams -> BOOLEAN]
  /\ cancelled \in [Streams -> BOOLEAN]
  /\ opening \in [Streams -> Openings]
  /\ pushed \in [Streams -> Nat]
  /\ written \in [Streams -> Nat]
  /\ routed \in [Streams -> Nat]
  /\ queued \in [Streams -> Nat]
  /\ marks \in [Streams -> Nat]
  /\ resizes \in [Streams -> 0..MaxResizes]
  /\ taken \in [Streams -> Nat]
  /\ slot \in [Streams -> Slots]
  /\ payload \in [Streams -> Payloads]
  /\ returned \in [Streams -> Nat]
  /\ granted \in [Streams -> Nat]
  /\ revoke \in [Streams -> Frames]
  /\ discard \in [Streams -> Frames]
  /\ alive \in BOOLEAN
  /\ corrupt \in BOOLEAN

(* No credit is lost or minted: while a stream's window is live, what the  *)
(* pump may still send plus what it has sent is the initial window plus    *)
(* the credits handled.  A lost credit would starve the pump for ever; a   *)
(* minted one would overrun the client's queue.                            *)
InHand(s) == IF pump[s] \in {"emit", "push"} THEN 1 ELSE 0
CreditConservation ==
  \A s \in Streams : Registered(s) /\ ~abandoned[s] =>
    credits[s] + InHand(s) + pushed[s] = Window + granted[s]

(* A consumer that is merely slow does not have its stream abandoned: the  *)
(* client's queue holds at most the window and one bare terminal marker of *)
(* a stream's chunks, so a live stream is tombstoned only when its payload *)
(* is gone, or when so many resizes of a terminal wait unread that they    *)
(* fill what the window leaves of the queue.                               *)
ResizesFill(s) == kind[s] = "pty" /\ Window + 1 + marks[s] >= Inbound
SlowConsumerKept ==
  [][\A s \in Streams : slot[s] = "live" /\ slot'[s] = "tomb" =>
       payload[s] = "dropped" \/ ResizesFill(s)]_vars

(* The client never meets a chunk on a stream it does not know: an opening *)
(* precedes its chunks, and no frame follows a terminal one.               *)
NoUnknownStream == ~corrupt

(* A read that completes delivered every announced chunk, in spite of      *)
(* cancellation, truncation and the worker's death.                        *)
NoSilentTruncation ==
  \A s \in Streams : payload[s] = "complete" /\ ~Process(s) =>
    taken[s] - (IF term[s] = "bare" THEN 1 ELSE 0) = size[s]

(* A payload that is kept read resolves, whatever the other consumers do:  *)
(* a stalled one never blocks the lane, the transport or the reader.  A    *)
(* terminal's owner may instead wait for the reply to a resize.            *)
ReadersServed ==
  \A s \in Readers : payload[s] = "idle" ~> (Resolved(s) \/ payload[s] = "resizing")

(* A dropped payload's producer ends: the child behind a process output is *)
(* drained and never left waiting on a credit nobody will return.  The one *)
(* exception is a terminal whose abandon came before its window.           *)
AbandonMissed(s) == kind[s] = "pty" /\ discard[s] = "handled" /\ ~abandoned[s]
DroppedDrains ==
  \A s \in Streams :
    payload[s] = "dropped" ~> (pump[s] = "done" \/ ~alive \/ AbandonMissed(s))

(* What the code says of the same two, and what it does not keep for a     *)
(* terminal: "a discarded process stream drains its child"                 *)
(* (stream_window.rs), and "a stalled terminal parks its worker pump       *)
(* instead of losing VT bytes at a full client queue" (session.rs).        *)
DiscardedDrains ==
  \A s \in Streams : payload[s] = "dropped" ~> (pump[s] = "done" \/ ~alive)
StalledTerminalKept ==
  \A s \in Streams : slot[s] = "tomb" => payload[s] = "dropped"
=============================================================================
