-------------------------- MODULE StreamFlowProofs --------------------------
(***************************************************************************)
(* Proofs about StreamFlow for every number of streams and every window.   *)
(***************************************************************************)
EXTENDS StreamFlow, TLAPS

(* Frames reach the stages in order, and credits follow the chunks that    *)
(* were taken.                                                             *)
Ordered(s) ==
  /\ granted[s] <= returned[s]
  /\ returned[s] + (IF payload[s] = "holding" THEN 1 ELSE 0) <= taken[s]
  /\ taken[s] + queued[s] <= routed[s]
  /\ routed[s] <= written[s]
  /\ written[s] <= pushed[s]

(* The credit equation of a live window, and the bound that remains of it  *)
(* once the window is abandoned or gone.                                   *)
Credited(s) ==
  /\ pump[s] \in {"closed", "announced"} => pushed[s] = 0
  /\ Registered(s) =>
       /\ credits[s] + InHand(s) + pushed[s] <= Window + granted[s]
       /\ ~abandoned[s] => credits[s] + InHand(s) + pushed[s] = Window + granted[s]
  /\ pump[s] = "done" => pushed[s] <= Window + granted[s] + 1

(* The opening envelope, the pump and the client's slot go together.       *)
Linked(s) ==
  /\ pump[s] = "closed" <=> opening[s] = "none"
  /\ pump[s] = "done" <=> term[s] # "open"
  /\ written[s] > 0 => opening[s] \in {"wire", "routed"}
  /\ opening[s] # "routed" => slot[s] = "none" /\ payload[s] = "none"
  /\ alive /\ opening[s] = "routed" /\ (term[s] # "open" => routed[s] < pushed[s])
       => slot[s] # "none"

(* Only a terminal is resized.                                             *)
Marked(s) == marks[s] > 0 \/ payload[s] = "resizing" => kind[s] = "pty"

(* A completed payload has taken every frame of an ended stream.           *)
Completed(s) ==
  payload[s] = "complete" =>
    /\ term[s] # "open" /\ taken[s] = pushed[s]
    /\ ~Process(s) => Carried(s) = size[s]

StreamInv(s) == Ordered(s) /\ Credited(s) /\ Linked(s) /\ Marked(s) /\ Completed(s)
IInv == TypeOK /\ ~corrupt /\ \A s \in Streams : StreamInv(s)

LEMMA InitTypeOK == Init => TypeOK
<1> SUFFICES ASSUME Init PROVE TypeOK
  OBVIOUS
<1> USE FlowAssumption DEF Init
<1>1. kind \in [Streams -> Kinds] /\ size \in [Streams -> 0..MaxChunks] /\ left = size
  OBVIOUS
<1>2. pump \in [Streams -> Pumps] /\ term \in [Streams -> Terms]
  BY DEF Pumps, Terms
<1>3. credits \in [Streams -> 0..Window]
  OBVIOUS
<1>4. abandoned \in [Streams -> BOOLEAN] /\ cancelled \in [Streams -> BOOLEAN]
  OBVIOUS
<1>5. opening \in [Streams -> Openings] /\ slot \in [Streams -> Slots]
      /\ payload \in [Streams -> Payloads]
  BY DEF Openings, Slots, Payloads
<1>6. /\ pushed \in [Streams -> Nat] /\ written \in [Streams -> Nat]
      /\ routed \in [Streams -> Nat] /\ queued \in [Streams -> Nat]
      /\ taken \in [Streams -> Nat] /\ returned \in [Streams -> Nat]
      /\ granted \in [Streams -> Nat] /\ marks \in [Streams -> Nat]
      /\ resizes \in [Streams -> 0..MaxResizes]
  OBVIOUS
<1>7. revoke \in [Streams -> Frames] /\ discard \in [Streams -> Frames]
  BY DEF Frames
<1> QED
  BY <1>1, <1>2, <1>3, <1>4, <1>5, <1>6, <1>7 DEF TypeOK

LEMMA InitIInv == Init => IInv
<1> SUFFICES ASSUME Init PROVE IInv
  OBVIOUS
<1>1. TypeOK
  BY InitTypeOK
<1>2. \A s \in Streams : StreamInv(s)
  BY FlowAssumption DEF Init, StreamInv, Ordered, Credited, Linked, Marked, Completed, Process, Registered, InHand
<1> QED
  BY <1>1, <1>2 DEF IInv, Init

-----------------------------------------------------------------------------
(* One lemma per action: the types first, then the stream that moved and   *)
(* the streams that did not.                                               *)

LEMMA OpenStep == ASSUME IInv, NEW s \in Streams, Open(s) PROVE IInv'
<1> USE FlowAssumption DEF Open, OpeningCredits,
      workerVars, laneVars, clientVars, uplinkVars
<1>0. TypeOK /\ ~corrupt /\ StreamInv(s)
  BY DEF IInv
<1>1. TypeOK'
  BY <1>0 DEF TypeOK, Pumps, Openings
<1>2. ~corrupt'
  BY <1>0 DEF TypeOK
<1>3. ASSUME NEW t \in Streams, t # s PROVE StreamInv(t)'
  <2>1. StreamInv(t)
    BY DEF IInv
  <2> QED BY <1>0, <1>3, <2>1
    DEF TypeOK, StreamInv, Ordered, Credited, Linked, Marked, Completed, Carried, Process, Registered, InHand
<1>4. StreamInv(s)'
  <2> USE <1>0 DEF TypeOK, StreamInv
  <2>1. Ordered(s)'
    BY DEF Ordered, Linked
  <2>2. Credited(s)'
    <3>1. pushed[s] = 0 /\ granted[s] = 0
      <4>1. pushed[s] = 0
        BY DEF Credited
      <4>2. granted[s] <= pushed[s] /\ granted[s] \in Nat
        BY DEF Ordered
      <4> QED BY <4>1, <4>2
    <3>2. credits'[s] = Window /\ pump'[s] = "take" /\ pushed'[s] = 0 /\ granted'[s] = 0
      BY <3>1
    <3> QED BY <3>2 DEF Credited, Registered, InHand
  <2>3. Linked(s)'
    BY DEF Ordered, Credited, Linked, Registered, InHand
  <2>4. Completed(s)'
    BY DEF Ordered, Linked, Completed, Carried, Process
  <2>5. Marked(s)'
    BY DEF Marked
  <2> QED BY <2>1, <2>2, <2>3, <2>4, <2>5
<1> QED BY <1>0, <1>1, <1>2, <1>3, <1>4 DEF IInv

LEMMA AnnounceStep == ASSUME IInv, NEW s \in Streams, Announce(s) PROVE IInv'
<1> USE FlowAssumption DEF Announce,
      workerVars, laneVars, clientVars, uplinkVars
<1>0. TypeOK /\ ~corrupt /\ StreamInv(s)
  BY DEF IInv
<1>1. TypeOK'
  BY <1>0 DEF TypeOK, Pumps, Openings
<1>2. ~corrupt'
  BY <1>0 DEF TypeOK
<1>3. ASSUME NEW t \in Streams, t # s PROVE StreamInv(t)'
  <2>1. StreamInv(t)
    BY DEF IInv
  <2> QED BY <1>0, <1>3, <2>1
    DEF TypeOK, StreamInv, Ordered, Credited, Linked, Marked, Completed, Carried, Process, Registered, InHand
<1>4. StreamInv(s)'
  <2> USE <1>0 DEF TypeOK, StreamInv
  <2>1. Ordered(s)'
    BY DEF Ordered, Linked
  <2>2. Credited(s)'
    BY DEF Ordered, Credited, Linked, Registered, InHand
  <2>3. Linked(s)'
    BY DEF Ordered, Credited, Linked, Registered, InHand
  <2>4. Completed(s)'
    BY DEF Ordered, Linked, Completed, Carried, Process
  <2>5. Marked(s)'
    BY DEF Marked
  <2> QED BY <2>1, <2>2, <2>3, <2>4, <2>5
<1> QED BY <1>0, <1>1, <1>2, <1>3, <1>4 DEF IInv

LEMMA RegisterStep == ASSUME IInv, NEW s \in Streams, Register(s) PROVE IInv'
<1> USE FlowAssumption DEF Register, OpeningCredits,
      workerVars, laneVars, clientVars, uplinkVars
<1>0. TypeOK /\ ~corrupt /\ StreamInv(s)
  BY DEF IInv
<1>1. TypeOK'
  BY <1>0 DEF TypeOK, Pumps
<1>2. ~corrupt'
  BY <1>0 DEF TypeOK
<1>3. ASSUME NEW t \in Streams, t # s PROVE StreamInv(t)'
  <2>1. StreamInv(t)
    BY DEF IInv
  <2> QED BY <1>0, <1>3, <2>1
    DEF TypeOK, StreamInv, Ordered, Credited, Linked, Marked, Completed, Carried, Process, Registered, InHand
<1>4. StreamInv(s)'
  <2> USE <1>0 DEF TypeOK, StreamInv
  <2>1. Ordered(s)'
    BY DEF Ordered, Linked
  <2>2. Credited(s)'
    <3>1. pushed[s] = 0 /\ granted[s] = 0
      <4>1. pushed[s] = 0
        BY DEF Credited
      <4>2. granted[s] <= pushed[s] /\ granted[s] \in Nat
        BY DEF Ordered
      <4> QED BY <4>1, <4>2
    <3>2. credits'[s] = Window /\ pump'[s] = "take" /\ pushed'[s] = 0 /\ granted'[s] = 0
      BY <3>1
    <3> QED BY <3>2 DEF Credited, Registered, InHand
  <2>3. Linked(s)'
    BY DEF Ordered, Credited, Linked, Registered, InHand
  <2>4. Completed(s)'
    BY DEF Ordered, Linked, Completed, Carried, Process
  <2>5. Marked(s)'
    BY DEF Marked
  <2> QED BY <2>1, <2>2, <2>3, <2>4, <2>5
<1> QED BY <1>0, <1>1, <1>2, <1>3, <1>4 DEF IInv

LEMMA TakeStoppedStep == ASSUME IInv, NEW s \in Streams, TakeStopped(s) PROVE IInv'
<1> USE FlowAssumption DEF TakeStopped, EndStream, RangeDone,
      workerVars, laneVars, clientVars, uplinkVars
<1>0. TypeOK /\ ~corrupt /\ StreamInv(s)
  BY DEF IInv
<1>1. TypeOK'
  BY <1>0 DEF TypeOK, Pumps, Terms
<1>2. ~corrupt'
  BY <1>0 DEF TypeOK
<1>3. ASSUME NEW t \in Streams, t # s PROVE StreamInv(t)'
  <2>1. StreamInv(t)
    BY DEF IInv
  <2> QED BY <1>0, <1>3, <2>1
    DEF TypeOK, StreamInv, Ordered, Credited, Linked, Marked, Completed, Carried, Process, Registered, InHand
<1>4. StreamInv(s)'
  <2> USE <1>0 DEF TypeOK, StreamInv
  <2>1. Ordered(s)'
    BY DEF Ordered, Linked
  <2>2. Credited(s)'
    BY DEF Ordered, Credited, Linked, Registered, InHand
  <2>3. Linked(s)'
    BY DEF Ordered, Credited, Linked, Registered, InHand
  <2>4. Completed(s)'
    BY DEF Ordered, Linked, Completed, Carried, Process
  <2>5. Marked(s)'
    BY DEF Marked
  <2> QED BY <2>1, <2>2, <2>3, <2>4, <2>5
<1> QED BY <1>0, <1>1, <1>2, <1>3, <1>4 DEF IInv

LEMMA TakeEmitStep == ASSUME IInv, NEW s \in Streams, TakeEmit(s) PROVE IInv'
<1> USE FlowAssumption DEF TakeEmit,
      workerVars, laneVars, clientVars, uplinkVars
<1>0. TypeOK /\ ~corrupt /\ StreamInv(s)
  BY DEF IInv
<1>1. TypeOK'
  BY <1>0 DEF TypeOK, Pumps
<1>2. ~corrupt'
  BY <1>0 DEF TypeOK
<1>3. ASSUME NEW t \in Streams, t # s PROVE StreamInv(t)'
  <2>1. StreamInv(t)
    BY DEF IInv
  <2> QED BY <1>0, <1>3, <2>1
    DEF TypeOK, StreamInv, Ordered, Credited, Linked, Marked, Completed, Carried, Process, Registered, InHand
<1>4. StreamInv(s)'
  <2> USE <1>0 DEF TypeOK, StreamInv
  <2>1. Ordered(s)'
    BY DEF Ordered, Linked
  <2>2. Credited(s)'
    BY DEF Ordered, Credited, Linked, Registered, InHand
  <2>3. Linked(s)'
    BY DEF Ordered, Credited, Linked, Registered, InHand
  <2>4. Completed(s)'
    BY DEF Ordered, Linked, Completed, Carried, Process
  <2>5. Marked(s)'
    BY DEF Marked
  <2> QED BY <2>1, <2>2, <2>3, <2>4, <2>5
<1> QED BY <1>0, <1>1, <1>2, <1>3, <1>4 DEF IInv

LEMMA TakeDiscardStep == ASSUME IInv, NEW s \in Streams, TakeDiscard(s) PROVE IInv'
<1> USE FlowAssumption DEF TakeDiscard, Discards,
      workerVars, laneVars, clientVars, uplinkVars
<1>0. TypeOK /\ ~corrupt /\ StreamInv(s)
  BY DEF IInv
<1>1. TypeOK'
  BY <1>0 DEF TypeOK, Pumps
<1>2. ~corrupt'
  BY <1>0 DEF TypeOK
<1>3. ASSUME NEW t \in Streams, t # s PROVE StreamInv(t)'
  <2>1. StreamInv(t)
    BY DEF IInv
  <2> QED BY <1>0, <1>3, <2>1
    DEF TypeOK, StreamInv, Ordered, Credited, Linked, Marked, Completed, Carried, Process, Registered, InHand
<1>4. StreamInv(s)'
  <2> USE <1>0 DEF TypeOK, StreamInv
  <2>1. Ordered(s)'
    BY DEF Ordered, Linked
  <2>2. Credited(s)'
    BY DEF Ordered, Credited, Linked, Registered, InHand
  <2>3. Linked(s)'
    BY DEF Ordered, Credited, Linked, Registered, InHand
  <2>4. Completed(s)'
    BY DEF Ordered, Linked, Completed, Carried, Process
  <2>5. Marked(s)'
    BY DEF Marked
  <2> QED BY <2>1, <2>2, <2>3, <2>4, <2>5
<1> QED BY <1>0, <1>1, <1>2, <1>3, <1>4 DEF IInv

LEMMA ReadChunkStep == ASSUME IInv, NEW s \in Streams, ReadChunk(s) PROVE IInv'
<1> USE FlowAssumption DEF ReadChunk,
      workerVars, laneVars, clientVars, uplinkVars
<1>0. TypeOK /\ ~corrupt /\ StreamInv(s)
  BY DEF IInv
<1>1. TypeOK'
  BY <1>0 DEF TypeOK, Pumps
<1>2. ~corrupt'
  BY <1>0 DEF TypeOK
<1>3. ASSUME NEW t \in Streams, t # s PROVE StreamInv(t)'
  <2>1. StreamInv(t)
    BY DEF IInv
  <2> QED BY <1>0, <1>3, <2>1
    DEF TypeOK, StreamInv, Ordered, Credited, Linked, Marked, Completed, Carried, Process, Registered, InHand
<1>4. StreamInv(s)'
  <2> USE <1>0 DEF TypeOK, StreamInv
  <2>1. Ordered(s)'
    BY DEF Ordered, Linked
  <2>2. Credited(s)'
    BY DEF Ordered, Credited, Linked, Registered, InHand
  <2>3. Linked(s)'
    BY DEF Ordered, Credited, Linked, Registered, InHand
  <2>4. Completed(s)'
    BY DEF Ordered, Linked, Completed, Carried, Process
  <2>5. Marked(s)'
    BY DEF Marked
  <2> QED BY <2>1, <2>2, <2>3, <2>4, <2>5
<1> QED BY <1>0, <1>1, <1>2, <1>3, <1>4 DEF IInv

LEMMA ReadEofStep == ASSUME IInv, NEW s \in Streams, ReadEof(s) PROVE IInv'
<1> USE FlowAssumption DEF ReadEof, EndStream,
      workerVars, laneVars, clientVars, uplinkVars
<1>0. TypeOK /\ ~corrupt /\ StreamInv(s)
  BY DEF IInv
<1>1. TypeOK'
  BY <1>0 DEF TypeOK, Pumps, Terms
<1>2. ~corrupt'
  BY <1>0 DEF TypeOK
<1>3. ASSUME NEW t \in Streams, t # s PROVE StreamInv(t)'
  <2>1. StreamInv(t)
    BY DEF IInv
  <2> QED BY <1>0, <1>3, <2>1
    DEF TypeOK, StreamInv, Ordered, Credited, Linked, Marked, Completed, Carried, Process, Registered, InHand
<1>4. StreamInv(s)'
  <2> USE <1>0 DEF TypeOK, StreamInv
  <2>1. Ordered(s)'
    BY DEF Ordered, Linked
  <2>2. Credited(s)'
    BY DEF Ordered, Credited, Linked, Registered, InHand
  <2>3. Linked(s)'
    BY DEF Ordered, Credited, Linked, Registered, InHand
  <2>4. Completed(s)'
    BY DEF Ordered, Linked, Completed, Carried, Process
  <2>5. Marked(s)'
    BY DEF Marked
  <2> QED BY <2>1, <2>2, <2>3, <2>4, <2>5
<1> QED BY <1>0, <1>1, <1>2, <1>3, <1>4 DEF IInv

LEMMA SourceFailsStep == ASSUME IInv, NEW s \in Streams, SourceFails(s) PROVE IInv'
<1> USE FlowAssumption DEF SourceFails,
      workerVars, laneVars, clientVars, uplinkVars
<1>0. TypeOK /\ ~corrupt /\ StreamInv(s)
  BY DEF IInv
<1>1. TypeOK'
  BY <1>0 DEF TypeOK
<1>2. ~corrupt'
  BY <1>0 DEF TypeOK
<1>3. ASSUME NEW t \in Streams, t # s PROVE StreamInv(t)'
  <2>1. StreamInv(t)
    BY DEF IInv
  <2> QED BY <1>0, <1>3, <2>1
    DEF TypeOK, StreamInv, Ordered, Credited, Linked, Marked, Completed, Carried, Process, Registered, InHand
<1>4. StreamInv(s)'
  <2> USE <1>0 DEF TypeOK, StreamInv
  <2>1. Ordered(s)'
    BY DEF Ordered, Linked
  <2>2. Credited(s)'
    BY DEF Ordered, Credited, Linked, Registered, InHand
  <2>3. Linked(s)'
    BY DEF Ordered, Credited, Linked, Registered, InHand
  <2>4. Completed(s)'
    BY DEF Ordered, Linked, Completed, Carried, Process
  <2>5. Marked(s)'
    BY DEF Marked
  <2> QED BY <2>1, <2>2, <2>3, <2>4, <2>5
<1> QED BY <1>0, <1>1, <1>2, <1>3, <1>4 DEF IInv

LEMMA PushEnqueuedStep == ASSUME IInv, NEW s \in Streams, PushEnqueued(s) PROVE IInv'
<1> USE FlowAssumption DEF PushEnqueued, AfterPush,
      workerVars, laneVars, clientVars, uplinkVars
<1>0. TypeOK /\ ~corrupt /\ StreamInv(s)
  BY DEF IInv
<1>1. TypeOK'
  BY <1>0 DEF TypeOK, Pumps, Terms
<1>2. ~corrupt'
  BY <1>0 DEF TypeOK
<1>3. ASSUME NEW t \in Streams, t # s PROVE StreamInv(t)'
  <2>1. StreamInv(t)
    BY DEF IInv
  <2> QED BY <1>0, <1>3, <2>1
    DEF TypeOK, StreamInv, Ordered, Credited, Linked, Marked, Completed, Carried, Process, Registered, InHand
<1>4. StreamInv(s)'
  <2> USE <1>0 DEF TypeOK, StreamInv
  <2>1. Ordered(s)'
    BY DEF Ordered, Linked
  <2>2. Credited(s)'
    BY DEF Ordered, Credited, Linked, Registered, InHand
  <2>3. Linked(s)'
    BY DEF Ordered, Credited, Linked, Registered, InHand
  <2>4. Completed(s)'
    BY DEF Ordered, Linked, Completed, Carried, Process
  <2>5. Marked(s)'
    BY DEF Marked
  <2> QED BY <2>1, <2>2, <2>3, <2>4, <2>5
<1> QED BY <1>0, <1>1, <1>2, <1>3, <1>4 DEF IInv

LEMMA PushCancelledStep == ASSUME IInv, NEW s \in Streams, PushCancelled(s) PROVE IInv'
<1> USE FlowAssumption DEF PushCancelled, EndStream,
      workerVars, laneVars, clientVars, uplinkVars
<1>0. TypeOK /\ ~corrupt /\ StreamInv(s)
  BY DEF IInv
<1>1. TypeOK'
  BY <1>0 DEF TypeOK, Pumps, Terms
<1>2. ~corrupt'
  BY <1>0 DEF TypeOK
<1>3. ASSUME NEW t \in Streams, t # s PROVE StreamInv(t)'
  <2>1. StreamInv(t)
    BY DEF IInv
  <2> QED BY <1>0, <1>3, <2>1
    DEF TypeOK, StreamInv, Ordered, Credited, Linked, Marked, Completed, Carried, Process, Registered, InHand
<1>4. StreamInv(s)'
  <2> USE <1>0 DEF TypeOK, StreamInv
  <2>1. Ordered(s)'
    BY DEF Ordered, Linked
  <2>2. Credited(s)'
    BY DEF Ordered, Credited, Linked, Registered, InHand
  <2>3. Linked(s)'
    BY DEF Ordered, Credited, Linked, Registered, InHand
  <2>4. Completed(s)'
    BY DEF Ordered, Linked, Completed, Carried, Process
  <2>5. Marked(s)'
    BY DEF Marked
  <2> QED BY <2>1, <2>2, <2>3, <2>4, <2>5
<1> QED BY <1>0, <1>1, <1>2, <1>3, <1>4 DEF IInv

LEMMA WriteOpeningStep == ASSUME IInv, NEW s \in Streams, WriteOpening(s) PROVE IInv'
<1> USE FlowAssumption DEF WriteOpening,
      workerVars, laneVars, clientVars, uplinkVars
<1>0. TypeOK /\ ~corrupt /\ StreamInv(s)
  BY DEF IInv
<1>1. TypeOK'
  BY <1>0 DEF TypeOK, Openings
<1>2. ~corrupt'
  BY <1>0 DEF TypeOK
<1>3. ASSUME NEW t \in Streams, t # s PROVE StreamInv(t)'
  <2>1. StreamInv(t)
    BY DEF IInv
  <2> QED BY <1>0, <1>3, <2>1
    DEF TypeOK, StreamInv, Ordered, Credited, Linked, Marked, Completed, Carried, Process, Registered, InHand
<1>4. StreamInv(s)'
  <2> USE <1>0 DEF TypeOK, StreamInv
  <2>1. Ordered(s)'
    BY DEF Ordered, Linked
  <2>2. Credited(s)'
    BY DEF Ordered, Credited, Linked, Registered, InHand
  <2>3. Linked(s)'
    BY DEF Ordered, Credited, Linked, Registered, InHand
  <2>4. Completed(s)'
    BY DEF Ordered, Linked, Completed, Carried, Process
  <2>5. Marked(s)'
    BY DEF Marked
  <2> QED BY <2>1, <2>2, <2>3, <2>4, <2>5
<1> QED BY <1>0, <1>1, <1>2, <1>3, <1>4 DEF IInv

LEMMA WriteChunkStep == ASSUME IInv, NEW s \in Streams, WriteChunk(s) PROVE IInv'
<1> USE FlowAssumption DEF WriteChunk, ControlEmpty, InLane,
      workerVars, laneVars, clientVars, uplinkVars
<1>0. TypeOK /\ ~corrupt /\ StreamInv(s)
  BY DEF IInv
<1>1. TypeOK'
  BY <1>0 DEF TypeOK
<1>2. ~corrupt'
  BY <1>0 DEF TypeOK
<1>3. ASSUME NEW t \in Streams, t # s PROVE StreamInv(t)'
  <2>1. StreamInv(t)
    BY DEF IInv
  <2> QED BY <1>0, <1>3, <2>1
    DEF TypeOK, StreamInv, Ordered, Credited, Linked, Marked, Completed, Carried, Process, Registered, InHand
<1>4. StreamInv(s)'
  <2> USE <1>0 DEF TypeOK, StreamInv
  <2>1. Ordered(s)'
    BY DEF Ordered, Linked
  <2>2. Credited(s)'
    BY DEF Ordered, Credited, Linked, Registered, InHand
  <2>3. Linked(s)'
    BY DEF Ordered, Credited, Linked, Registered, InHand, Openings
  <2>4. Completed(s)'
    BY DEF Ordered, Linked, Completed, Carried, Process
  <2>5. Marked(s)'
    BY DEF Marked
  <2> QED BY <2>1, <2>2, <2>3, <2>4, <2>5
<1> QED BY <1>0, <1>1, <1>2, <1>3, <1>4 DEF IInv

LEMMA HandleCreditStep == ASSUME IInv, NEW s \in Streams, HandleCredit(s) PROVE IInv'
<1> USE FlowAssumption DEF HandleCredit, Granted,
      workerVars, laneVars, clientVars, uplinkVars
<1>0. TypeOK /\ ~corrupt /\ StreamInv(s)
  BY DEF IInv
<1>1. TypeOK'
  BY <1>0 DEF TypeOK
<1>2. ~corrupt'
  BY <1>0 DEF TypeOK
<1>3. ASSUME NEW t \in Streams, t # s PROVE StreamInv(t)'
  <2>1. StreamInv(t)
    BY DEF IInv
  <2> QED BY <1>0, <1>3, <2>1
    DEF TypeOK, StreamInv, Ordered, Credited, Linked, Marked, Completed, Carried, Process, Registered, InHand
<1>4. StreamInv(s)'
  <2> USE <1>0 DEF TypeOK, StreamInv
  <2>1. Ordered(s)'
    BY DEF Ordered, Linked
  <2>2. Credited(s)'
    <3>1. granted'[s] = granted[s] + 1 /\ pushed'[s] = pushed[s] /\ InHand(s)' = InHand(s)
      BY DEF InHand
    <3>2. granted[s] < pushed[s] /\ InHand(s) \in {0, 1}
      BY DEF Ordered, InHand
    <3>3. CASE Registered(s) /\ ~abandoned[s]
      <4>1. credits[s] + InHand(s) + pushed[s] = Window + granted[s]
        BY <3>3 DEF Credited
      <4>2. credits[s] < Window
        BY <4>1, <3>2
      <4>3. credits'[s] = credits[s] + 1
        BY <4>2, <3>3
      <4> QED BY <4>1, <4>3, <3>1, <3>2, <3>3 DEF Credited, Registered
    <3>4. CASE ~(Registered(s) /\ ~abandoned[s])
      BY <3>1, <3>2, <3>4 DEF Credited, Registered
    <3> QED BY <3>3, <3>4
  <2>3. Linked(s)'
    BY DEF Ordered, Credited, Linked, Registered, InHand
  <2>4. Completed(s)'
    BY DEF Ordered, Linked, Completed, Carried, Process
  <2>5. Marked(s)'
    BY DEF Marked
  <2> QED BY <2>1, <2>2, <2>3, <2>4, <2>5
<1> QED BY <1>0, <1>1, <1>2, <1>3, <1>4 DEF IInv

LEMMA HandleRevokeStep == ASSUME IInv, NEW s \in Streams, HandleRevoke(s) PROVE IInv'
<1> USE FlowAssumption DEF HandleRevoke,
      workerVars, laneVars, clientVars, uplinkVars
<1>0. TypeOK /\ ~corrupt /\ StreamInv(s)
  BY DEF IInv
<1>1. TypeOK'
  BY <1>0 DEF TypeOK, Frames
<1>2. ~corrupt'
  BY <1>0 DEF TypeOK
<1>3. ASSUME NEW t \in Streams, t # s PROVE StreamInv(t)'
  <2>1. StreamInv(t)
    BY DEF IInv
  <2> QED BY <1>0, <1>3, <2>1
    DEF TypeOK, StreamInv, Ordered, Credited, Linked, Marked, Completed, Carried, Process, Registered, InHand
<1>4. StreamInv(s)'
  <2> USE <1>0 DEF TypeOK, StreamInv
  <2>1. Ordered(s)'
    BY DEF Ordered, Linked
  <2>2. Credited(s)'
    BY DEF Ordered, Credited, Linked, Registered, InHand
  <2>3. Linked(s)'
    BY DEF Ordered, Credited, Linked, Registered, InHand
  <2>4. Completed(s)'
    BY DEF Ordered, Linked, Completed, Carried, Process
  <2>5. Marked(s)'
    BY DEF Marked
  <2> QED BY <2>1, <2>2, <2>3, <2>4, <2>5
<1> QED BY <1>0, <1>1, <1>2, <1>3, <1>4 DEF IInv

LEMMA HandleAbandonStep == ASSUME IInv, NEW s \in Streams, HandleAbandon(s) PROVE IInv'
<1> USE FlowAssumption DEF HandleAbandon,
      workerVars, laneVars, clientVars, uplinkVars
<1>0. TypeOK /\ ~corrupt /\ StreamInv(s)
  BY DEF IInv
<1>1. TypeOK'
  BY <1>0 DEF TypeOK, Frames
<1>2. ~corrupt'
  BY <1>0 DEF TypeOK
<1>3. ASSUME NEW t \in Streams, t # s PROVE StreamInv(t)'
  <2>1. StreamInv(t)
    BY DEF IInv
  <2> QED BY <1>0, <1>3, <2>1
    DEF TypeOK, StreamInv, Ordered, Credited, Linked, Marked, Completed, Carried, Process, Registered, InHand
<1>4. StreamInv(s)'
  <2> USE <1>0 DEF TypeOK, StreamInv
  <2>1. Ordered(s)'
    BY DEF Ordered, Linked
  <2>2. Credited(s)'
    BY DEF Ordered, Credited, Linked, Registered, InHand
  <2>3. Linked(s)'
    BY DEF Ordered, Credited, Linked, Registered, InHand
  <2>4. Completed(s)'
    BY DEF Ordered, Linked, Completed, Carried, Process
  <2>5. Marked(s)'
    BY DEF Marked
  <2> QED BY <2>1, <2>2, <2>3, <2>4, <2>5
<1> QED BY <1>0, <1>1, <1>2, <1>3, <1>4 DEF IInv

LEMMA RouteOpeningStep == ASSUME IInv, NEW s \in Streams, RouteOpening(s) PROVE IInv'
<1> USE FlowAssumption DEF RouteOpening,
      workerVars, laneVars, clientVars, uplinkVars
<1>0. TypeOK /\ ~corrupt /\ StreamInv(s)
  BY DEF IInv
<1>1. TypeOK'
  BY <1>0 DEF TypeOK, Openings, Slots, Payloads
<1>2. ~corrupt'
  BY <1>0 DEF TypeOK
<1>3. ASSUME NEW t \in Streams, t # s PROVE StreamInv(t)'
  <2>1. StreamInv(t)
    BY DEF IInv
  <2> QED BY <1>0, <1>3, <2>1
    DEF TypeOK, StreamInv, Ordered, Credited, Linked, Marked, Completed, Carried, Process, Registered, InHand
<1>4. StreamInv(s)'
  <2> USE <1>0 DEF TypeOK, StreamInv
  <2>1. Ordered(s)'
    BY DEF Ordered, Linked
  <2>2. Credited(s)'
    BY DEF Ordered, Credited, Linked, Registered, InHand
  <2>3. Linked(s)'
    BY DEF Ordered, Credited, Linked, Registered, InHand
  <2>4. Completed(s)'
    BY DEF Ordered, Linked, Completed, Carried, Process
  <2>5. Marked(s)'
    BY DEF Marked
  <2> QED BY <2>1, <2>2, <2>3, <2>4, <2>5
<1> QED BY <1>0, <1>1, <1>2, <1>3, <1>4 DEF IInv

LEMMA RouteChunkStep == ASSUME IInv, NEW s \in Streams, RouteChunk(s) PROVE IInv'
<1> USE FlowAssumption DEF RouteChunk, SlotAfter, Delivers, Overflows, Full, RoutesLast,
      workerVars, laneVars, clientVars, uplinkVars
<1>0. TypeOK /\ ~corrupt /\ StreamInv(s)
  BY DEF IInv
<1>1. TypeOK'
  BY <1>0 DEF TypeOK, Slots, Frames
<1>2. ~corrupt'
  BY <1>0 DEF TypeOK, StreamInv, Linked, Ordered
<1>3. ASSUME NEW t \in Streams, t # s PROVE StreamInv(t)'
  <2>1. StreamInv(t)
    BY DEF IInv
  <2> QED BY <1>0, <1>3, <2>1
    DEF TypeOK, StreamInv, Ordered, Credited, Linked, Marked, Completed, Carried, Process, Registered, InHand
<1>4. StreamInv(s)'
  <2> USE <1>0 DEF TypeOK, StreamInv
  <2>1. Ordered(s)'
    BY DEF Ordered, Linked
  <2>2. Credited(s)'
    BY DEF Ordered, Credited, Linked, Registered, InHand
  <2>3. Linked(s)'
    BY DEF Ordered, Credited, Linked, Registered, InHand
  <2>4. Completed(s)'
    BY DEF Ordered, Linked, Completed, Carried, Process
  <2>5. Marked(s)'
    BY DEF Marked
  <2> QED BY <2>1, <2>2, <2>3, <2>4, <2>5
<1> QED BY <1>0, <1>1, <1>2, <1>3, <1>4 DEF IInv

LEMMA RouteResizedStep == ASSUME IInv, NEW s \in Streams, RouteResized(s) PROVE IInv'
<1> USE FlowAssumption DEF RouteResized, Delivers, Overflows, Full,
      workerVars, laneVars, clientVars, uplinkVars
<1>0. TypeOK /\ ~corrupt /\ StreamInv(s)
  BY DEF IInv
<1>1. TypeOK'
  BY <1>0 DEF TypeOK, Payloads, Slots
<1>2. ~corrupt'
  BY <1>0 DEF TypeOK
<1>3. ASSUME NEW t \in Streams, t # s PROVE StreamInv(t)'
  <2>1. StreamInv(t)
    BY DEF IInv
  <2> QED BY <1>0, <1>3, <2>1
    DEF TypeOK, StreamInv, Ordered, Credited, Linked, Marked, Completed, Carried, Process, Registered, InHand
<1>4. StreamInv(s)'
  <2> USE <1>0 DEF TypeOK, StreamInv
  <2>1. Ordered(s)'
    BY DEF Ordered, Linked
  <2>2. Credited(s)'
    BY DEF Ordered, Credited, Linked, Registered, InHand
  <2>3. Linked(s)'
    BY DEF Ordered, Credited, Linked, Registered, InHand
  <2>4. Completed(s)'
    BY DEF Ordered, Linked, Completed, Carried, Process
  <2>5. Marked(s)'
    BY DEF Marked
  <2> QED BY <2>1, <2>2, <2>3, <2>4, <2>5
<1> QED BY <1>0, <1>1, <1>2, <1>3, <1>4 DEF IInv

LEMMA RecvStep == ASSUME IInv, NEW s \in Streams, Recv(s) PROVE IInv'
<1> USE FlowAssumption DEF Recv, PayloadAfter, TakesLast, Between, Credit,
      workerVars, laneVars, clientVars, uplinkVars
<1>0. TypeOK /\ ~corrupt /\ StreamInv(s)
  BY DEF IInv
<1>1. TypeOK'
  BY <1>0 DEF TypeOK, Payloads
<1>2. ~corrupt'
  BY <1>0 DEF TypeOK
<1>3. ASSUME NEW t \in Streams, t # s PROVE StreamInv(t)'
  <2>1. StreamInv(t)
    BY DEF IInv
  <2> QED BY <1>0, <1>3, <2>1
    DEF TypeOK, StreamInv, Ordered, Credited, Linked, Marked, Completed, Carried, Process, Registered, InHand
<1>4. StreamInv(s)'
  <2> USE <1>0 DEF TypeOK, StreamInv
  <2>1. Ordered(s)'
    BY DEF Ordered, Linked
  <2>2. Credited(s)'
    BY DEF Ordered, Credited, Linked, Registered, InHand
  <2>3. Linked(s)'
    BY DEF Ordered, Credited, Linked, Registered, InHand
  <2>4. Completed(s)'
    <3>1. pushed'[s] = pushed[s] /\ term'[s] = term[s] /\ size'[s] = size[s] /\ kind'[s] = kind[s]
      OBVIOUS
    <3>2. taken'[s] = taken[s] + 1 /\ taken[s] + 1 <= pushed[s]
      BY DEF Ordered
    <3>3. ASSUME payload'[s] = "complete"
          PROVE  /\ term[s] # "open" /\ taken[s] + 1 = pushed[s]
                 /\ Process(s) \/ Carried(s) = size[s]
      BY <3>3
    <3> QED BY <3>1, <3>2, <3>3 DEF Completed, Carried, Process
  <2>5. Marked(s)'
    BY DEF Marked
  <2> QED BY <2>1, <2>2, <2>3, <2>4, <2>5
<1> QED BY <1>0, <1>1, <1>2, <1>3, <1>4 DEF IInv

LEMMA RecvMarkerStep == ASSUME IInv, NEW s \in Streams, RecvMarker(s) PROVE IInv'
<1> USE FlowAssumption DEF RecvMarker,
      workerVars, laneVars, clientVars, uplinkVars
<1>0. TypeOK /\ ~corrupt /\ StreamInv(s)
  BY DEF IInv
<1>1. TypeOK'
  BY <1>0 DEF TypeOK
<1>2. ~corrupt'
  BY <1>0 DEF TypeOK
<1>3. ASSUME NEW t \in Streams, t # s PROVE StreamInv(t)'
  <2>1. StreamInv(t)
    BY DEF IInv
  <2> QED BY <1>0, <1>3, <2>1
    DEF TypeOK, StreamInv, Ordered, Credited, Linked, Marked, Completed, Carried, Process, Registered, InHand
<1>4. StreamInv(s)'
  <2> USE <1>0 DEF TypeOK, StreamInv
  <2>1. Ordered(s)'
    BY DEF Ordered, Linked
  <2>2. Credited(s)'
    BY DEF Ordered, Credited, Linked, Registered, InHand
  <2>3. Linked(s)'
    BY DEF Ordered, Credited, Linked, Registered, InHand
  <2>4. Completed(s)'
    BY DEF Ordered, Linked, Completed, Carried, Process
  <2>5. Marked(s)'
    BY DEF Marked
  <2> QED BY <2>1, <2>2, <2>3, <2>4, <2>5
<1> QED BY <1>0, <1>1, <1>2, <1>3, <1>4 DEF IInv

LEMMA RecvDisconnectedStep == ASSUME IInv, NEW s \in Streams, RecvDisconnected(s) PROVE IInv'
<1> USE FlowAssumption DEF RecvDisconnected,
      workerVars, laneVars, clientVars, uplinkVars
<1>0. TypeOK /\ ~corrupt /\ StreamInv(s)
  BY DEF IInv
<1>1. TypeOK'
  BY <1>0 DEF TypeOK, Payloads
<1>2. ~corrupt'
  BY <1>0 DEF TypeOK
<1>3. ASSUME NEW t \in Streams, t # s PROVE StreamInv(t)'
  <2>1. StreamInv(t)
    BY DEF IInv
  <2> QED BY <1>0, <1>3, <2>1
    DEF TypeOK, StreamInv, Ordered, Credited, Linked, Marked, Completed, Carried, Process, Registered, InHand
<1>4. StreamInv(s)'
  <2> USE <1>0 DEF TypeOK, StreamInv
  <2>1. Ordered(s)'
    BY DEF Ordered, Linked
  <2>2. Credited(s)'
    BY DEF Ordered, Credited, Linked, Registered, InHand
  <2>3. Linked(s)'
    BY DEF Ordered, Credited, Linked, Registered, InHand
  <2>4. Completed(s)'
    BY DEF Ordered, Linked, Completed, Carried, Process
  <2>5. Marked(s)'
    BY DEF Marked
  <2> QED BY <2>1, <2>2, <2>3, <2>4, <2>5
<1> QED BY <1>0, <1>1, <1>2, <1>3, <1>4 DEF IInv

LEMMA ConsumeStep == ASSUME IInv, NEW s \in Streams, Consume(s) PROVE IInv'
<1> USE FlowAssumption DEF Consume, Credit,
      workerVars, laneVars, clientVars, uplinkVars
<1>0. TypeOK /\ ~corrupt /\ StreamInv(s)
  BY DEF IInv
<1>1. TypeOK'
  BY <1>0 DEF TypeOK, Payloads
<1>2. ~corrupt'
  BY <1>0 DEF TypeOK
<1>3. ASSUME NEW t \in Streams, t # s PROVE StreamInv(t)'
  <2>1. StreamInv(t)
    BY DEF IInv
  <2> QED BY <1>0, <1>3, <2>1
    DEF TypeOK, StreamInv, Ordered, Credited, Linked, Marked, Completed, Carried, Process, Registered, InHand
<1>4. StreamInv(s)'
  <2> USE <1>0 DEF TypeOK, StreamInv
  <2>1. Ordered(s)'
    BY DEF Ordered, Linked
  <2>2. Credited(s)'
    BY DEF Ordered, Credited, Linked, Registered, InHand
  <2>3. Linked(s)'
    BY DEF Ordered, Credited, Linked, Registered, InHand
  <2>4. Completed(s)'
    BY DEF Ordered, Linked, Completed, Carried, Process
  <2>5. Marked(s)'
    BY DEF Marked
  <2> QED BY <2>1, <2>2, <2>3, <2>4, <2>5
<1> QED BY <1>0, <1>1, <1>2, <1>3, <1>4 DEF IInv

LEMMA RecvCancelledStep == ASSUME IInv, NEW s \in Streams, RecvCancelled(s) PROVE IInv'
<1> USE FlowAssumption DEF RecvCancelled,
      workerVars, laneVars, clientVars, uplinkVars
<1>0. TypeOK /\ ~corrupt /\ StreamInv(s)
  BY DEF IInv
<1>1. TypeOK'
  BY <1>0 DEF TypeOK, Payloads
<1>2. ~corrupt'
  BY <1>0 DEF TypeOK
<1>3. ASSUME NEW t \in Streams, t # s PROVE StreamInv(t)'
  <2>1. StreamInv(t)
    BY DEF IInv
  <2> QED BY <1>0, <1>3, <2>1
    DEF TypeOK, StreamInv, Ordered, Credited, Linked, Marked, Completed, Carried, Process, Registered, InHand
<1>4. StreamInv(s)'
  <2> USE <1>0 DEF TypeOK, StreamInv
  <2>1. Ordered(s)'
    BY DEF Ordered, Linked
  <2>2. Credited(s)'
    BY DEF Ordered, Credited, Linked, Registered, InHand
  <2>3. Linked(s)'
    BY DEF Ordered, Credited, Linked, Registered, InHand
  <2>4. Completed(s)'
    BY DEF Ordered, Linked, Completed, Carried, Process
  <2>5. Marked(s)'
    BY DEF Marked
  <2> QED BY <2>1, <2>2, <2>3, <2>4, <2>5
<1> QED BY <1>0, <1>1, <1>2, <1>3, <1>4 DEF IInv

LEMMA ResizeStep == ASSUME IInv, NEW s \in Streams, Resize(s) PROVE IInv'
<1> USE FlowAssumption DEF Resize,
      workerVars, laneVars, clientVars, uplinkVars
<1>0. TypeOK /\ ~corrupt /\ StreamInv(s)
  BY DEF IInv
<1>1. TypeOK'
  BY <1>0 DEF TypeOK, Payloads
<1>2. ~corrupt'
  BY <1>0 DEF TypeOK
<1>3. ASSUME NEW t \in Streams, t # s PROVE StreamInv(t)'
  <2>1. StreamInv(t)
    BY DEF IInv
  <2> QED BY <1>0, <1>3, <2>1
    DEF TypeOK, StreamInv, Ordered, Credited, Linked, Marked, Completed, Carried, Process, Registered, InHand
<1>4. StreamInv(s)'
  <2> USE <1>0 DEF TypeOK, StreamInv
  <2>1. Ordered(s)'
    BY DEF Ordered, Linked
  <2>2. Credited(s)'
    BY DEF Ordered, Credited, Linked, Registered, InHand
  <2>3. Linked(s)'
    BY DEF Ordered, Credited, Linked, Registered, InHand
  <2>4. Completed(s)'
    BY DEF Ordered, Linked, Completed, Carried, Process
  <2>5. Marked(s)'
    BY DEF Marked
  <2> QED BY <2>1, <2>2, <2>3, <2>4, <2>5
<1> QED BY <1>0, <1>1, <1>2, <1>3, <1>4 DEF IInv

LEMMA ResizeFailsStep == ASSUME IInv, NEW s \in Streams, ResizeFails(s) PROVE IInv'
<1> USE FlowAssumption DEF ResizeFails,
      workerVars, laneVars, clientVars, uplinkVars
<1>0. TypeOK /\ ~corrupt /\ StreamInv(s)
  BY DEF IInv
<1>1. TypeOK'
  BY <1>0 DEF TypeOK, Payloads
<1>2. ~corrupt'
  BY <1>0 DEF TypeOK
<1>3. ASSUME NEW t \in Streams, t # s PROVE StreamInv(t)'
  <2>1. StreamInv(t)
    BY DEF IInv
  <2> QED BY <1>0, <1>3, <2>1
    DEF TypeOK, StreamInv, Ordered, Credited, Linked, Marked, Completed, Carried, Process, Registered, InHand
<1>4. StreamInv(s)'
  <2> USE <1>0 DEF TypeOK, StreamInv
  <2>1. Ordered(s)'
    BY DEF Ordered, Linked
  <2>2. Credited(s)'
    BY DEF Ordered, Credited, Linked, Registered, InHand
  <2>3. Linked(s)'
    BY DEF Ordered, Credited, Linked, Registered, InHand
  <2>4. Completed(s)'
    BY DEF Ordered, Linked, Completed, Carried, Process
  <2>5. Marked(s)'
    BY DEF Marked
  <2> QED BY <2>1, <2>2, <2>3, <2>4, <2>5
<1> QED BY <1>0, <1>1, <1>2, <1>3, <1>4 DEF IInv

LEMMA DropStep == ASSUME IInv, NEW s \in Streams, Drop(s) PROVE IInv'
<1> USE FlowAssumption DEF Drop,
      workerVars, laneVars, clientVars, uplinkVars
<1>0. TypeOK /\ ~corrupt /\ StreamInv(s)
  BY DEF IInv
<1>1. TypeOK'
  BY <1>0 DEF TypeOK, Payloads, Frames
<1>2. ~corrupt'
  BY <1>0 DEF TypeOK
<1>3. ASSUME NEW t \in Streams, t # s PROVE StreamInv(t)'
  <2>1. StreamInv(t)
    BY DEF IInv
  <2> QED BY <1>0, <1>3, <2>1
    DEF TypeOK, StreamInv, Ordered, Credited, Linked, Marked, Completed, Carried, Process, Registered, InHand
<1>4. StreamInv(s)'
  <2> USE <1>0 DEF TypeOK, StreamInv
  <2>1. Ordered(s)'
    BY DEF Ordered, Linked
  <2>2. Credited(s)'
    BY DEF Ordered, Credited, Linked, Registered, InHand
  <2>3. Linked(s)'
    BY DEF Ordered, Credited, Linked, Registered, InHand
  <2>4. Completed(s)'
    BY DEF Ordered, Linked, Completed, Carried, Process
  <2>5. Marked(s)'
    BY DEF Marked
  <2> QED BY <2>1, <2>2, <2>3, <2>4, <2>5
<1> QED BY <1>0, <1>1, <1>2, <1>3, <1>4 DEF IInv

LEMMA CallerCancelsStep == ASSUME IInv, NEW s \in Streams, CallerCancels(s) PROVE IInv'
<1> USE FlowAssumption DEF CallerCancels,
      workerVars, laneVars, clientVars, uplinkVars
<1>0. TypeOK /\ ~corrupt /\ StreamInv(s)
  BY DEF IInv
<1>1. TypeOK'
  BY <1>0 DEF TypeOK, Frames
<1>2. ~corrupt'
  BY <1>0 DEF TypeOK
<1>3. ASSUME NEW t \in Streams, t # s PROVE StreamInv(t)'
  <2>1. StreamInv(t)
    BY DEF IInv
  <2> QED BY <1>0, <1>3, <2>1
    DEF TypeOK, StreamInv, Ordered, Credited, Linked, Marked, Completed, Carried, Process, Registered, InHand
<1>4. StreamInv(s)'
  <2> USE <1>0 DEF TypeOK, StreamInv
  <2>1. Ordered(s)'
    BY DEF Ordered, Linked
  <2>2. Credited(s)'
    BY DEF Ordered, Credited, Linked, Registered, InHand
  <2>3. Linked(s)'
    BY DEF Ordered, Credited, Linked, Registered, InHand
  <2>4. Completed(s)'
    BY DEF Ordered, Linked, Completed, Carried, Process
  <2>5. Marked(s)'
    BY DEF Marked
  <2> QED BY <2>1, <2>2, <2>3, <2>4, <2>5
<1> QED BY <1>0, <1>1, <1>2, <1>3, <1>4 DEF IInv

LEMMA TerminateStep == ASSUME IInv, Terminate PROVE IInv'
<1> USE FlowAssumption DEF Terminate, workerVars, laneVars, clientVars, uplinkVars
<1>1. TypeOK'
  BY DEF IInv, TypeOK, Slots
<1>2. ~corrupt'
  BY DEF IInv
<1>3. ASSUME NEW t \in Streams PROVE StreamInv(t)'
  <2>1. StreamInv(t)
    BY DEF IInv
  <2> QED BY <2>1
    DEF StreamInv, Ordered, Credited, Linked, Marked, Completed, Carried, Process, Registered, InHand
<1> QED BY <1>1, <1>2, <1>3 DEF IInv

(* The invariant is inductive.                                             *)
LEMMA NextIInv == IInv /\ [Next]_vars => IInv'
<1> SUFFICES ASSUME IInv, [Next]_vars PROVE IInv'
  OBVIOUS
<1>1. CASE UNCHANGED vars
  BY <1>1 DEF vars, workerVars, laneVars, clientVars, uplinkVars, IInv, TypeOK, StreamInv,
    Ordered, Credited, Linked, Marked, Completed, Carried, Process, Registered, InHand
<1>2. CASE Terminate
  BY <1>2, TerminateStep
<1>3. ASSUME NEW s \in Streams,
             Pump(s) \/ Writer(s) \/ WorkerReader(s) \/ ClientReader(s) \/ Read(s)
             \/ Resizing(s) \/ SourceFails(s) \/ RecvCancelled(s) \/ Drop(s) \/ CallerCancels(s)
      PROVE IInv'
  <2>1. CASE Pump(s)
    BY <2>1, OpenStep, AnnounceStep, RegisterStep, TakeStoppedStep, TakeEmitStep, TakeDiscardStep, ReadChunkStep,
       ReadEofStep, PushEnqueuedStep, PushCancelledStep DEF Pump
  <2>2. CASE Writer(s)
    BY <2>2, WriteOpeningStep, WriteChunkStep DEF Writer
  <2>3. CASE WorkerReader(s)
    BY <2>3, HandleCreditStep, HandleRevokeStep, HandleAbandonStep DEF WorkerReader
  <2>4. CASE ClientReader(s)
    BY <2>4, RouteOpeningStep, RouteChunkStep DEF ClientReader
  <2>5. CASE Read(s)
    BY <2>5, RecvStep, RecvMarkerStep, RecvDisconnectedStep, ConsumeStep DEF Read
  <2>6. CASE SourceFails(s) \/ RecvCancelled(s) \/ Drop(s) \/ CallerCancels(s)
    BY <2>6, SourceFailsStep, RecvCancelledStep, DropStep, CallerCancelsStep
  <2>7. CASE Resizing(s)
    BY <2>7, ResizeStep, RouteResizedStep, ResizeFailsStep DEF Resizing
  <2> QED BY <1>3, <2>1, <2>2, <2>3, <2>4, <2>5, <2>6, <2>7
<1> QED BY <1>1, <1>2, <1>3 DEF Next

LEMMA SpecIInv == Spec => []IInv
BY InitIInv, NextIInv, PTL DEF Spec

-----------------------------------------------------------------------------
(* The state of every stream keeps its types; in particular the window     *)
(* never holds more credits than it opened with.                           *)
THEOREM FlowTypeCorrect == Spec => []TypeOK
<1>1. IInv => TypeOK
  BY DEF IInv
<1> QED BY <1>1, SpecIInv, PTL

(* No credit is lost or minted, for any window and any number of streams:  *)
(* StreamWindow::grant and take, against ReadPayload's returns.            *)
THEOREM CreditsConserved == Spec => []CreditConservation
<1>1. IInv => CreditConservation
  BY DEF IInv, StreamInv, Credited, CreditConservation
<1> QED BY <1>1, SpecIInv, PTL

(* The chunks a client's queue can hold, and what room is left for one     *)
(* that is still to be routed.                                             *)
LEMMA QueueBounded ==
  ASSUME IInv, NEW s \in Streams
  PROVE queued[s] <= Window + 1 /\ (routed[s] < written[s] => queued[s] <= Window)
<1>0. TypeOK /\ StreamInv(s)
  BY DEF IInv
<1>1. pushed[s] <= Window + granted[s] + 1
  <2>1. CASE Registered(s)
    BY <1>0, <2>1, FlowAssumption DEF TypeOK, StreamInv, Credited, InHand
  <2>2. CASE ~Registered(s)
    BY <1>0, <2>2, FlowAssumption DEF TypeOK, StreamInv, Credited, Registered
  <2> QED BY <2>1, <2>2
<1>2. /\ taken[s] + queued[s] <= routed[s] /\ routed[s] <= written[s] /\ written[s] <= pushed[s]
      /\ granted[s] <= taken[s]
  BY <1>0 DEF TypeOK, StreamInv, Ordered
<1> QED BY <1>0, <1>1, <1>2, FlowAssumption DEF TypeOK

(* For any window and any queue longer than it, with resize markers in the *)
(* queue or not: route_chunk and push_resized abandon a live stream only   *)
(* when its payload is gone, or for a terminal with as many unread resizes *)
(* as fill what the window leaves of the queue.                            *)
THEOREM SlowConsumersAreKept == Spec => SlowConsumerKept
<1> DEFINE Kept(s) == slot[s] = "live" /\ slot'[s] = "tomb" =>
                        payload[s] = "dropped" \/ ResizesFill(s)
<1>1. IInv /\ [Next]_vars => \A s \in Streams : Kept(s)
  <2> SUFFICES ASSUME IInv, [Next]_vars, NEW s \in Streams,
                      slot[s] = "live", slot'[s] = "tomb", payload[s] # "dropped"
               PROVE ResizesFill(s)
    OBVIOUS
  <2>0. TypeOK /\ StreamInv(s)
    BY DEF IInv
  <2>1. CASE RouteChunk(s)
    <3>1. queued[s] + marks[s] >= Inbound /\ queued[s] <= Window
      BY <2>0, <2>1, QueueBounded DEF RouteChunk, SlotAfter, Delivers, Full, TypeOK
    <3>2. kind[s] = "pty"
      BY <2>0, <3>1, FlowAssumption DEF TypeOK, StreamInv, Marked
    <3> QED BY <2>0, <3>1, <3>2, FlowAssumption DEF ResizesFill, TypeOK
  <2>2. CASE RouteResized(s)
    <3>1. queued[s] + marks[s] >= Inbound /\ queued[s] <= Window + 1
      BY <2>0, <2>2, QueueBounded DEF RouteResized, Overflows, Full, TypeOK
    <3>2. kind[s] = "pty"
      BY <2>0, <2>2 DEF RouteResized, StreamInv, Marked
    <3> QED BY <2>0, <3>1, <3>2, FlowAssumption DEF ResizesFill, TypeOK
  <2>3. RouteChunk(s) \/ RouteResized(s)
    <3>1. slot'[s] # slot[s]
      OBVIOUS
    <3> QED BY <2>0, <3>1 DEF Next, vars, Terminate, workerVars, laneVars, clientVars, uplinkVars,
          Pump, Open, Announce, Register, TakeStopped, TakeEmit, TakeDiscard, ReadChunk, ReadEof,
          PushEnqueued, PushCancelled, Writer, WriteOpening, WriteChunk, WorkerReader,
          HandleCredit, HandleRevoke, HandleAbandon, ClientReader, RouteOpening, RouteChunk,
          Read, Recv, RecvMarker, RecvDisconnected, Consume, Resizing, Resize, RouteResized,
          ResizeFails, SourceFails, RecvCancelled, Drop, CallerCancels, TypeOK
  <2> QED BY <2>1, <2>2, <2>3
<1>2. IInv /\ [Next]_vars => [\A s \in Streams : Kept(s)]_vars
  BY <1>1
<1> QED BY <1>2, SpecIInv, PTL DEF Spec, SlowConsumerKept

(* route_chunk never meets a stream it does not know: the opening envelope *)
(* precedes every chunk and a stream has one terminal chunk, its last.     *)
THEOREM StreamsAreKnown == Spec => []NoUnknownStream
<1>1. IInv => NoUnknownStream
  BY DEF IInv, NoUnknownStream
<1> QED BY <1>1, SpecIInv, PTL

(* A read completes only with every announced chunk.                       *)
THEOREM ReadsAreWhole == Spec => []NoSilentTruncation
<1>1. IInv => NoSilentTruncation
  <2> SUFFICES ASSUME IInv, NEW s \in Streams, payload[s] = "complete", ~Process(s)
               PROVE taken[s] - (IF term[s] = "bare" THEN 1 ELSE 0) = size[s]
    BY DEF NoSilentTruncation
  <2>1. TypeOK /\ Completed(s)
    BY DEF IInv, StreamInv
  <2> QED BY <2>1 DEF TypeOK, Completed, Carried
<1> QED BY <1>1, SpecIInv, PTL
=============================================================================
