------------------------- MODULE WorkerExecProofs -------------------------
(***************************************************************************)
(* Proofs about WorkerExec for any execs, requests and bounds.  One        *)
(* inductive invariant: types; where an exec stands between its launch and *)
(* its settlement, and in which tables; the chunks on the wire; the chunks *)
(* between the read loop and the child.                                    *)
(***************************************************************************)
EXTENDS WorkerExec, TLAPS

Frames == [chunk : Execs, seq : Nat, last : BOOLEAN] \union [request : Requests]
Items == [item : Requests \union Nat \union {-1}, last : BOOLEAN]
Launchings == {"new", "permit", "failed", "spawned", "slotted", "entered", "started"}
Settlements == {"none", "wait", "drain", "group", "kill", "reap", "leave", "slot", "publish",
                "done", "silent"}

ClientTyped == wire \in Seq(Frames) /\ fed \in [Execs -> Nat] /\ ended \subseteq Execs
TablesTyped ==
  /\ entries \subseteq Execs /\ lease \subseteq Execs /\ early \subseteq Execs
  /\ inbound \subseteq Execs /\ group \subseteq Execs
  /\ next \in [Execs -> Nat] /\ dropped \in [Execs -> {"no", "pressure", "settled"}]
InputTyped ==
  /\ queue \in [Execs -> Seq(Items)] /\ hand \in [Execs -> Items] /\ got \in [Execs -> Seq(Int)]
  /\ relay \in [Execs -> {"none", "recv", "write", "gone"}]
ThreadsTyped ==
  /\ launch \in [Execs -> Launchings] /\ mode \in [Execs -> {"plain", "service", "pty"}]
  /\ child \in [Execs -> {"none", "running", "zombie", "reaped"}]
  /\ settle \in [Execs -> Settlements] /\ poison \in Execs \union {"no"}
  /\ op \in [Requests -> {"new", "sent", "run", "drop", "send", "queued", "done"}]
ExecTyped == ClientTyped /\ TablesTyped /\ InputTyped /\ ThreadsTyped

(* Where an exec stands.  It is in the table from Enter until somebody     *)
(* revokes it, who flips its lease, or until it has been reaped and leaves.*)
Over == {"slot", "publish", "done", "silent"}
Lives(e) ==
  /\ settle[e] # "none" => launch[e] = "started"
  /\ launch[e] \in {"new", "permit", "failed"} => child[e] = "none"
  /\ e \in entries \union lease => launch[e] \in {"entered", "started"}
  /\ e \in entries => e \notin lease /\ settle[e] \notin Over
  /\ launch[e] \in {"entered", "started"} /\ settle[e] \notin Over => e \in entries \union lease
  /\ settle[e] \in {"drain", "kill"} => e \in lease
  /\ settle[e] = "reap" => child[e] = "zombie"
  /\ (child[e] = "reaped") <=> (settle[e] \in Over \union {"leave"})
  /\ settle[e] \in Over \union {"reap", "leave"} => e \notin group
  /\ e \in early => child[e] = "zombie" /\ settle[e] # "kill"

(* Its inbound slot is there from its launch on until the input ends, the  *)
(* relay fails or the exec settles.                                        *)
Launched == {"slotted", "entered", "started"}
Fed(e) == e \in inbound \/ dropped[e] # "no"
Slots(e) ==
  /\ e \in inbound => dropped[e] = "no" /\ launch[e] \in Launched /\ mode[e] # "plain"
  /\ launch[e] \notin Launched => dropped[e] = "no"
  /\ launch[e] \in Launched /\ mode[e] # "plain" /\ e \notin ended => Fed(e)
  /\ settle[e] \in Over \ {"slot"} /\ e \notin lease => e \notin inbound

(* The chunks of an exec that are on the wire are the ones written and not *)
(* yet read, in their order; a last one has no successor, and a half-close *)
(* is behind all of them.                                                  *)
IsChunkOf(i, e) == "chunk" \in DOMAIN wire[i] /\ wire[i].chunk = e
Wired(e) ==
  /\ \A i \in DOMAIN wire : IsChunkOf(i, e) =>
       /\ Fed(e) /\ wire[i].seq < fed[e]
       /\ wire[i].last => e \in ended /\ wire[i].seq = fed[e] - 1
       /\ dropped[e] = "no" => wire[i].seq >= next[e]
       /\ \A j \in DOMAIN wire : IsChunkOf(j, e) /\ i < j => wire[i].seq < wire[j].seq
  /\ dropped[e] = "no" =>
       /\ next[e] <= fed[e]
       /\ \A n \in next[e]..(fed[e] - 1) :
            \E i \in DOMAIN wire : IsChunkOf(i, e) /\ wire[i].seq = n
Closes(r) == Op[r] = "close" =>
  /\ op[r] # "new" => Of[r] \in ended
  /\ op[r] \in {"run", "drop"} => \A i \in DOMAIN wire : ~IsChunkOf(i, Of[r])
  /\ \A i \in DOMAIN wire : wire[i] = [request |-> r] =>
       /\ op[r] # "new"
       /\ \A j \in DOMAIN wire : i < j => ~IsChunkOf(j, Of[r])

(* The relay thread of a service starts with its slot, that of a PTY with  *)
(* the reply.                                                              *)
Relayed(e) ==
  /\ relay[e] # "none" => launch[e] \in Launched
  /\ relay[e] = "none" => launch[e] \notin Launched \/ mode[e] # "service"
  /\ mode[e] = "pty" /\ launch[e] # "started" => relay[e] = "none"

(* What has been read and not yet reached the child: the chunk in hand and *)
(* those queued, without a gap, up to the next one as long as the slot is  *)
(* there.                                                                  *)
Base(e) == Len(got[e]) + IF hand[e].item \in Nat THEN 1 ELSE 0
Held(e) ==
  /\ relay[e] # "write" => hand[e] = Nothing
  /\ relay[e] = "write" => hand[e].item \in Requests \union {Len(got[e])}
  /\ relay[e] = "gone" => queue[e] = <<>>
  /\ hand[e].item \in Nat /\ hand[e].last => e \in ended /\ hand[e].item = fed[e] - 1
  /\ \A i \in DOMAIN queue[e] : queue[e][i].item # -1
InOrder(e) ==
  \A i \in DOMAIN queue[e] : queue[e][i].item \in Nat =>
    /\ queue[e][i].item \in Base(e)..(next[e] - 1)
    /\ \A j \in DOMAIN queue[e] : queue[e][j].item \in Nat /\ i < j =>
         queue[e][i].item < queue[e][j].item
    /\ \A n \in Base(e)..queue[e][i].item : \E k \in DOMAIN queue[e] : queue[e][k].item = n
    /\ queue[e][i].last => e \in ended /\ queue[e][i].item = fed[e] - 1
NoGap(e) ==
  relay[e] # "gone" /\ dropped[e] = "no" =>
    /\ Base(e) <= next[e]
    /\ \A n \in Base(e)..(next[e] - 1) : \E k \in DOMAIN queue[e] : queue[e][k].item = n
Queued(e) == Held(e) /\ InOrder(e) /\ NoGap(e)
IsResizeOf(item, e) == Op[item] = "resize" /\ mode[e] = "pty" /\ launch[e] # "new"
Resizes(e) ==
  /\ hand[e].item \in Requests => IsResizeOf(hand[e].item, e)
  /\ \A i \in DOMAIN queue[e] :
       queue[e][i].item \in Requests => IsResizeOf(queue[e][i].item, e)
  /\ \A r \in Requests : Of[r] = e /\ op[r] = "send" =>
       mode[e] = "pty" /\ launch[e] # "new"
Read(e) ==
  /\ got[e] = [i \in 1..Len(got[e]) |-> i - 1]
  /\ mode[e] = "service" /\ relay[e] = "gone" /\ dropped[e] = "no" /\ e \in group =>
       e \in ended /\ Len(got[e]) = fed[e]

ExecInv ==
  /\ ExecTyped
  /\ \A e \in Execs : /\ Lives(e) /\ Slots(e) /\ Wired(e)
                      /\ Relayed(e) /\ Queued(e) /\ Resizes(e) /\ Read(e)
  /\ \A r \in Requests : Closes(r)
  /\ PoisonIsLate
-----------------------------------------------------------------------------
(* The frame that the read loop takes, and what is left.                   *)
LEMMA Taken ==
  ASSUME ExecTyped, wire # <<>>
  PROVE  /\ 1 \in DOMAIN wire /\ Head(wire) = wire[1] /\ wire[1] \in Frames
         /\ Tail(wire) \in Seq(Frames) /\ Len(Tail(wire)) = Len(wire) - 1
         /\ DOMAIN Tail(wire) = 1..(Len(wire) - 1) /\ DOMAIN wire = 1..Len(wire)
         /\ \A i \in DOMAIN Tail(wire) : i + 1 \in DOMAIN wire /\ Tail(wire)[i] = wire[i + 1]
  BY DEF ExecTyped, ClientTyped

(* A frame is a chunk or a request.                                        *)
LEMMA FrameKinds ==
  ASSUME NEW w \in Frames
  PROVE  \/ /\ "chunk" \in DOMAIN w /\ w \in [chunk : Execs, seq : Nat, last : BOOLEAN]
            /\ w.chunk \in Execs /\ w.seq \in Nat /\ w.last \in BOOLEAN
         \/ /\ "chunk" \notin DOMAIN w /\ w \in [request : Requests]
            /\ w.request \in Requests /\ w = [request |-> w.request]
  BY DEF Frames

(* A thread that leaves, or goes on.                                       *)
LEMMA RelayTyped ==
  ASSUME ExecTyped, NEW e \in Execs, Leaves(e) \/ Continues(e, TRUE) \/ Continues(e, FALSE)
  PROVE  /\ queue' \in [Execs -> Seq(Items)] /\ hand' \in [Execs -> Items]
         /\ relay' \in [Execs -> {"none", "recv", "write", "gone"}]
         /\ hand'[e] = Nothing
         /\ \A d \in Execs : d # e => /\ relay'[d] = relay[d] /\ queue'[d] = queue[d]
                                      /\ hand'[d] = hand[d]
         /\ \/ relay'[e] = "gone" /\ queue'[e] = <<>>
            \/ relay'[e] = "recv" /\ queue'[e] = queue[e] /\ ~Leaves(e)
<1>1. Nothing \in Items /\ <<>> \in Seq(Items)
  BY DEF Nothing, Items
<1>2. CASE Leaves(e)
  BY <1>1, <1>2 DEF Leaves, ExecTyped, InputTyped
<1>3. CASE Continues(e, FALSE) /\ ~Leaves(e)
  BY <1>1, <1>3 DEF Continues, ExecTyped, InputTyped
<1> QED
  BY <1>2, <1>3 DEF Continues

(* Every action keeps the types.                                           *)
LEMMA TypesStep == ExecTyped /\ [Next]_vars => ExecTyped'
<1> SUFFICES ASSUME ExecTyped /\ [Next]_vars PROVE ExecTyped'
  OBVIOUS
<1>1. ASSUME NEW e \in Execs, Feed(e) PROVE ExecTyped'
  <2>1. PICK last \in BOOLEAN : wire' = Append(wire, [chunk |-> e, seq |-> fed[e], last |->
     last])
    BY <1>1 DEF Feed
  <2>2. [chunk |-> e, seq |-> fed[e], last |-> last] \in Frames
    BY DEF Frames, ExecTyped, ClientTyped
  <2>3. wire' \in Seq(Frames)
    BY <2>1, <2>2 DEF ExecTyped, ClientTyped
  <2> QED
    BY <1>1, <2>3 DEF Feed, ExecTyped, ClientTyped, TablesTyped, InputTyped, ThreadsTyped,
       session, tables, input, supervisor, threads
<1>2. ASSUME NEW r \in Requests, Ask(r) PROVE ExecTyped'
  <2>1. wire' = Append(wire, [request |-> r]) /\ [request |-> r] \in Frames
    BY <1>2 DEF Ask, Frames
  <2>2. wire' \in Seq(Frames)
    BY <2>1 DEF ExecTyped, ClientTyped
  <2>3. Of[r] \in Execs
    BY ExecAssumption
  <2> QED
    BY <1>2, <2>2, <2>3 DEF Ask, ExecTyped, ClientTyped, TablesTyped, InputTyped, ThreadsTyped,
       session, tables, input, supervisor
<1>3. ASSUME NEW e \in Execs, Acquire(e) PROVE ExecTyped'
  <2>1. PICK m \in Modes : mode' = [mode EXCEPT ![e] = m]
    BY <1>3 DEF Acquire
  <2>2. m \in {"plain", "service", "pty"}
    BY ExecAssumption
  <2> QED
    BY <1>3, <2>1, <2>2 DEF Acquire, Launches, ExecTyped, ClientTyped, TablesTyped, InputTyped,
       ThreadsTyped, Launchings, client, session, input, supervisor
<1>4. ASSUME NEW e \in Execs, LaunchFails(e) PROVE ExecTyped'
  BY <1>4 DEF LaunchFails, Launches, client, session, input, supervisor, ExecTyped, ClientTyped,
     TablesTyped, InputTyped, ThreadsTyped, Launchings, Settlements, Frames, Items
<1>5. ASSUME NEW e \in Execs, Spawn(e) PROVE ExecTyped'
  BY <1>5 DEF Spawn, Launches, client, session, tables, input, ExecTyped, ClientTyped,
     TablesTyped, InputTyped, ThreadsTyped, Launchings, Settlements, Frames, Items
<1>6. ASSUME NEW e \in Execs, OpenInput(e) PROVE ExecTyped'
  BY <1>6 DEF OpenInput, Launches, SlotAtLaunch, client, session, supervisor, ExecTyped,
     ClientTyped, TablesTyped, InputTyped, ThreadsTyped, Launchings, Settlements, Frames, Items
<1>7. ASSUME NEW e \in Execs, Enter(e) PROVE ExecTyped'
  BY <1>7 DEF Enter, Launches, client, session, input, supervisor, ExecTyped, ClientTyped,
     TablesTyped, InputTyped, ThreadsTyped, Launchings, Settlements, Frames, Items
<1>8. ASSUME NEW e \in Execs, ReplyStarted(e) PROVE ExecTyped'
  BY <1>8 DEF ReplyStarted, Launches, client, session, tables, ExecTyped, ClientTyped,
     TablesTyped, InputTyped, ThreadsTyped, Launchings, Settlements, Frames, Items
<1>9. CASE PoisonChunk
  <2>1. wire' \in Seq(Frames)
    BY <1>9, Taken DEF PoisonChunk, IsChunk, Reads
  <2>2. poison' \in Execs
    BY <1>9, Taken, FrameKinds DEF PoisonChunk, IsChunk, Reads
  <2> QED
    BY <1>9, <2>1, <2>2 DEF PoisonChunk, ExecTyped, ClientTyped, TablesTyped, InputTyped,
       ThreadsTyped, tables, input, supervisor, threads
<1>10. CASE RouteChunk
  <2> DEFINE c == Head(wire)
             e == c.chunk
             item == [item |-> c.seq, last |-> c.last]
  <2>1. wire' \in Seq(Frames) /\ c \in Frames /\ "chunk" \in DOMAIN c
    BY <1>10, Taken DEF RouteChunk, IsChunk, Reads
  <2>2. e \in Execs /\ c.seq \in Nat /\ c.last \in BOOLEAN
    BY <2>1, FrameKinds
  <2> HIDE DEF c
  <2>3. item \in Items
    BY <2>2 DEF Items
  <2>4. /\ next' = [next EXCEPT ![e] = next[e] + 1]
        /\ queue' = queue \/ queue' = [queue EXCEPT ![e] = Append(queue[e], item)]
        /\ entries' \subseteq entries /\ lease' \subseteq lease \union {e}
        /\ early' \subseteq early \union {e} /\ inbound' \subseteq inbound
        /\ dropped' \in {dropped, [dropped EXCEPT ![e] = "pressure"]}
        /\ UNCHANGED <<fed, ended, relay, hand, got, child, group, settle, launch, mode, op,
              poison>>
    BY <1>10 DEF RouteChunk, Revoke, LeaseAfter, SlotAfter, Stays, supervisor, threads, c
  <2> HIDE DEF e, item
  <2>5. ClientTyped' /\ TablesTyped'
    <3>1. next' \in [Execs -> Nat] /\ dropped' \in [Execs -> {"no", "pressure", "settled"}]
      BY <2>2, <2>4 DEF ExecTyped, TablesTyped
    <3> QED
      BY <2>1, <2>2, <2>4, <3>1 DEF ExecTyped, ClientTyped, TablesTyped
  <2>6. queue' \in [Execs -> Seq(Items)]
    <3>1. queue[e] \in Seq(Items) /\ Append(queue[e], item) \in Seq(Items)
      BY <2>2, <2>3 DEF ExecTyped, InputTyped
    <3> QED
      BY <2>2, <2>4, <3>1 DEF ExecTyped, InputTyped
  <2> QED
    BY <2>4, <2>5, <2>6 DEF ExecTyped, InputTyped, ThreadsTyped
<1>11. CASE AdmitRequest
  BY <1>11 DEF AdmitRequest, Stays, Reads, IsChunk, tables, input, supervisor, ExecTyped,
     ClientTyped, TablesTyped, InputTyped, ThreadsTyped, Launchings, Settlements, Frames, Items
<1>12. CASE Leave
  BY <1>12 DEF Leave, client, tables, input, supervisor, threads, ExecTyped, ClientTyped,
     TablesTyped, InputTyped, ThreadsTyped, Launchings, Settlements, Frames, Items
<1>13. ASSUME NEW r \in Requests, CloseRefused(r) PROVE ExecTyped'
  BY <1>13 DEF CloseRefused, Runs, client, session, tables, input, supervisor, ExecTyped,
     ClientTyped, TablesTyped, InputTyped, ThreadsTyped, Launchings, Settlements, Frames, Items
<1>14. ASSUME NEW r \in Requests, CloseFinds(r) PROVE ExecTyped'
  BY <1>14 DEF CloseFinds, Runs, client, session, tables, input, supervisor, ExecTyped,
     ClientTyped, TablesTyped, InputTyped, ThreadsTyped, Launchings, Settlements, Frames, Items
<1>15. ASSUME NEW r \in Requests, CloseDrops(r) PROVE ExecTyped'
  BY <1>15 DEF CloseDrops, Runs, client, session, input, supervisor, ExecTyped, ClientTyped,
     TablesTyped, InputTyped, ThreadsTyped, Launchings, Settlements, Frames, Items
<1>16. ASSUME NEW r \in Requests, Cancel(r) PROVE ExecTyped'
  BY <1>16 DEF Cancel, Runs, Revoke, LeaseAfter, client, session, input, supervisor, ExecTyped,
     ClientTyped, TablesTyped, InputTyped, ThreadsTyped, Launchings, Settlements, Frames, Items
<1>17. ASSUME NEW r \in Requests, ResizeRefused(r) PROVE ExecTyped'
  BY <1>17 DEF ResizeRefused, Runs, client, session, tables, input, supervisor, ExecTyped,
     ClientTyped, TablesTyped, InputTyped, ThreadsTyped, Launchings, Settlements, Frames, Items
<1>18. ASSUME NEW r \in Requests, ResizeFinds(r) PROVE ExecTyped'
  BY <1>18 DEF ResizeFinds, Runs, client, session, tables, input, supervisor, ExecTyped,
     ClientTyped, TablesTyped, InputTyped, ThreadsTyped, Launchings, Settlements, Frames, Items
<1>19. ASSUME NEW r \in Requests, ResizeQueues(r) PROVE ExecTyped'
  <2>1. [item |-> r, last |-> FALSE] \in Items /\ Of[r] \in Execs
    BY ExecAssumption DEF Items
  <2>2. queue' \in [Execs -> Seq(Items)]
    BY <1>19, <2>1 DEF ResizeQueues, ExecTyped, InputTyped
  <2> QED
    BY <1>19, <2>2 DEF ResizeQueues, Runs, ExecTyped, ClientTyped, TablesTyped, InputTyped,
       ThreadsTyped, client, session, tables, supervisor
<1>20. ASSUME NEW r \in Requests, ResizeFails(r) PROVE ExecTyped'
  BY <1>20 DEF ResizeFails, Runs, Revoke, LeaseAfter, Full, Deaf, client, session, input,
     supervisor, ExecTyped, ClientTyped, TablesTyped, InputTyped, ThreadsTyped, Launchings,
     Settlements, Frames, Items
<1>21. ASSUME NEW e \in Execs, RelayTakes(e) PROVE ExecTyped'
  <2>1. Head(queue[e]) \in Items /\ Tail(queue[e]) \in Seq(Items)
    BY <1>21 DEF RelayTakes, ExecTyped, InputTyped
  <2> QED
    BY <1>21, <2>1 DEF RelayTakes, Relays, ExecTyped, ClientTyped, TablesTyped, InputTyped,
       ThreadsTyped, client, session, tables, supervisor
<1>22. ASSUME NEW e \in Execs, RelayCloses(e) PROVE ExecTyped'
  <2>1. Leaves(e)
    BY <1>22 DEF RelayCloses
  <2> QED
    BY <1>22, <2>1, RelayTyped DEF RelayCloses, Relays, ExecTyped, ClientTyped, TablesTyped,
       InputTyped, ThreadsTyped, client, session, tables, supervisor
<1>23. ASSUME NEW e \in Execs, ChildReads(e) PROVE ExecTyped'
  <2>1. Leaves(e) \/ Continues(e, TRUE) \/ Continues(e, FALSE)
    BY <1>23 DEF ChildReads, Continues
  <2>2. got' \in [Execs -> Seq(Int)]
    <3>1. hand[e].item \in Nat \union {-1}
      BY <1>23 DEF ChildReads, IsResize, ExecTyped, InputTyped, Items
    <3> QED
      BY <1>23, <3>1 DEF ChildReads, ExecTyped, InputTyped
  <2> QED
    BY <1>23, <2>1, <2>2, RelayTyped DEF ChildReads, Relays, ExecTyped, ClientTyped,
       TablesTyped, InputTyped, ThreadsTyped, client, session, tables, supervisor
<1>24. ASSUME NEW e \in Execs, RelayFails(e) PROVE ExecTyped'
  <2>1. Leaves(e)
    BY <1>24 DEF RelayFails
  <2> QED
    BY <1>24, <2>1, RelayTyped DEF RelayFails, Relays, ExecTyped, ClientTyped, TablesTyped,
       InputTyped, ThreadsTyped, client, session, tables, supervisor
<1>25. ASSUME NEW e \in Execs, RelayResizes(e) PROVE ExecTyped'
  <2>1. Leaves(e) \/ Continues(e, TRUE) \/ Continues(e, FALSE)
    BY <1>25 DEF RelayResizes, Continues
  <2>2. op' \in [Requests -> {"new", "sent", "run", "drop", "send", "queued", "done"}]
    BY <1>25 DEF RelayResizes, ExecTyped, ThreadsTyped
  <2> QED
    BY <1>25, <2>1, <2>2, RelayTyped DEF RelayResizes, Relays, ExecTyped, ClientTyped,
       TablesTyped, InputTyped, ThreadsTyped, client, session, tables, supervisor
<1>26. ASSUME NEW e \in Execs, ChildExits(e) PROVE ExecTyped'
  BY <1>26 DEF ChildExits, client, session, tables, input, threads, ExecTyped, ClientTyped,
     TablesTyped, InputTyped, ThreadsTyped, Launchings, Settlements, Frames, Items
<1>27. ASSUME NEW e \in Execs, SeesRecord(e) PROVE ExecTyped'
  BY <1>27 DEF SeesRecord, Supervises, client, session, tables, input, threads, ExecTyped,
     ClientTyped, TablesTyped, InputTyped, ThreadsTyped, Launchings, Settlements, Frames, Items
<1>28. ASSUME NEW e \in Execs, SeesRevocation(e) PROVE ExecTyped'
  BY <1>28 DEF SeesRevocation, Supervises, client, session, tables, input, threads, ExecTyped,
     ClientTyped, TablesTyped, InputTyped, ThreadsTyped, Launchings, Settlements, Frames, Items
<1>29. ASSUME NEW e \in Execs, Terminate(e) PROVE ExecTyped'
  BY <1>29 DEF Terminate, Supervises, DrainOver, client, session, tables, input, threads,
     ExecTyped, ClientTyped, TablesTyped, InputTyped, ThreadsTyped, Launchings, Settlements,
     Frames, Items
<1>30. ASSUME NEW e \in Execs, KillGroup(e) PROVE ExecTyped'
  BY <1>30 DEF KillGroup, Supervises, GroupAfterKill, client, session, tables, input, threads,
     ExecTyped, ClientTyped, TablesTyped, InputTyped, ThreadsTyped, Launchings, Settlements,
     Frames, Items
<1>31. ASSUME NEW e \in Execs, Reap(e) PROVE ExecTyped'
  BY <1>31 DEF Reap, Supervises, client, session, input, threads, ExecTyped, ClientTyped,
     TablesTyped, InputTyped, ThreadsTyped, Launchings, Settlements, Frames, Items
<1>32. ASSUME NEW e \in Execs, LeaveTable(e) PROVE ExecTyped'
  BY <1>32 DEF LeaveTable, Supervises, client, session, input, threads, ExecTyped, ClientTyped,
     TablesTyped, InputTyped, ThreadsTyped, Launchings, Settlements, Frames, Items
<1>33. ASSUME NEW e \in Execs, DropSlot(e) PROVE ExecTyped'
  BY <1>33 DEF DropSlot, Supervises, SlotAfterSettle, client, session, input, threads,
     ExecTyped, ClientTyped, TablesTyped, InputTyped, ThreadsTyped, Launchings, Settlements,
     Frames, Items
<1>34. ASSUME NEW e \in Execs, Publish(e) PROVE ExecTyped'
  BY <1>34 DEF Publish, Supervises, client, session, tables, input, threads, ExecTyped,
     ClientTyped, TablesTyped, InputTyped, ThreadsTyped, Launchings, Settlements, Frames, Items
<1>35. CASE Stop
  BY <1>35 DEF Stop, client, tables, input, supervisor, threads, ExecTyped, ClientTyped,
     TablesTyped, InputTyped, ThreadsTyped, Launchings, Settlements, Frames, Items
<1>36. CASE Teardown
  BY <1>36 DEF Teardown, Revoke, LeaseAfter, client, input, supervisor, threads, ExecTyped,
     ClientTyped, TablesTyped, InputTyped, ThreadsTyped, Launchings, Settlements, Frames, Items
<1>37. CASE Exit
  BY <1>37 DEF Exit, client, tables, input, supervisor, threads, ExecTyped, ClientTyped,
     TablesTyped, InputTyped, ThreadsTyped, Launchings, Settlements, Frames, Items
<1>38. CASE UNCHANGED vars
  BY <1>38 DEF vars, ExecTyped, ClientTyped, TablesTyped, InputTyped, ThreadsTyped, Launchings,
     Settlements, Frames, Items, client, session, tables, input, supervisor, threads
<1>39. QED
  BY <1>1, <1>2, <1>3, <1>4, <1>5, <1>6, <1>7, <1>8, <1>9, <1>10, <1>11, <1>12, <1>13, <1>14,
     <1>15, <1>16, <1>17, <1>18, <1>19, <1>20, <1>21, <1>22, <1>23, <1>24, <1>25, <1>26, <1>27,
     <1>28, <1>29, <1>30, <1>31, <1>32, <1>33, <1>34, <1>35, <1>36, <1>37, <1>38 DEF Next,
     RequestRuns, LaunchRuns, RelayRuns, SettleRuns

(* Every action keeps where an exec may stand.                             *)
LEMMA LivesStep == ExecTyped /\ (\A e \in Execs : Lives(e)) /\ [Next]_vars => \A d \in Execs :
   Lives(d)'
<1> SUFFICES ASSUME ExecTyped /\ (\A e \in Execs : Lives(e)) /\ [Next]_vars, NEW d \in Execs
             PROVE  Lives(d)'
  OBVIOUS
<1>1. ASSUME NEW e \in Execs, Feed(e) PROVE Lives(d)'
  BY <1>1 DEF Feed, Started, session, tables, input, supervisor, threads, ExecTyped,
     TablesTyped, ThreadsTyped, Launchings, Settlements, Lives, Over
<1>2. ASSUME NEW r \in Requests, Ask(r) PROVE Lives(d)'
  BY <1>2 DEF Ask, Started, session, tables, input, supervisor, ExecTyped, TablesTyped,
     ThreadsTyped, Launchings, Settlements, Lives, Over
<1>3. ASSUME NEW e \in Execs, Acquire(e) PROVE Lives(d)'
  BY <1>3 DEF Acquire, Launches, client, session, input, supervisor, ExecTyped, TablesTyped,
     ThreadsTyped, Launchings, Settlements, Lives, Over
<1>4. ASSUME NEW e \in Execs, LaunchFails(e) PROVE Lives(d)'
  BY <1>4 DEF LaunchFails, Launches, client, session, input, supervisor, ExecTyped, TablesTyped,
     ThreadsTyped, Launchings, Settlements, Lives, Over
<1>5. ASSUME NEW e \in Execs, Spawn(e) PROVE Lives(d)'
  BY <1>5 DEF Spawn, Launches, client, session, tables, input, ExecTyped, TablesTyped,
     ThreadsTyped, Launchings, Settlements, Lives, Over
<1>6. ASSUME NEW e \in Execs, OpenInput(e) PROVE Lives(d)'
  BY <1>6 DEF OpenInput, Launches, SlotAtLaunch, client, session, supervisor, ExecTyped,
     TablesTyped, ThreadsTyped, Launchings, Settlements, Lives, Over
<1>7. ASSUME NEW e \in Execs, Enter(e) PROVE Lives(d)'
  BY <1>7 DEF Enter, Launches, client, session, input, supervisor, ExecTyped, TablesTyped,
     ThreadsTyped, Launchings, Settlements, Lives, Over
<1>8. ASSUME NEW e \in Execs, ReplyStarted(e) PROVE Lives(d)'
  BY <1>8 DEF ReplyStarted, Launches, client, session, tables, ExecTyped, TablesTyped,
     ThreadsTyped, Launchings, Settlements, Lives, Over
<1>9. CASE PoisonChunk
  BY <1>9 DEF PoisonChunk, Reads, IsChunk, tables, input, supervisor, threads, ExecTyped,
     TablesTyped, ThreadsTyped, Launchings, Settlements, Lives, Over
<1>10. CASE RouteChunk
  BY <1>10 DEF RouteChunk, Stays, Reads, IsChunk, Revoke, LeaseAfter, Full, Deaf, SlotAfter,
     supervisor, threads, ExecTyped, TablesTyped, ThreadsTyped, Launchings, Settlements, Lives,
     Over
<1>11. CASE AdmitRequest
  BY <1>11 DEF AdmitRequest, Stays, Reads, IsChunk, tables, input, supervisor, ExecTyped,
     TablesTyped, ThreadsTyped, Launchings, Settlements, Lives, Over
<1>12. CASE Leave
  BY <1>12 DEF Leave, client, tables, input, supervisor, threads, ExecTyped, TablesTyped,
     ThreadsTyped, Launchings, Settlements, Lives, Over
<1>13. ASSUME NEW r \in Requests, CloseRefused(r) PROVE Lives(d)'
  BY <1>13 DEF CloseRefused, Runs, client, session, tables, input, supervisor, ExecTyped,
     TablesTyped, ThreadsTyped, Launchings, Settlements, Lives, Over
<1>14. ASSUME NEW r \in Requests, CloseFinds(r) PROVE Lives(d)'
  BY <1>14 DEF CloseFinds, Runs, client, session, tables, input, supervisor, ExecTyped,
     TablesTyped, ThreadsTyped, Launchings, Settlements, Lives, Over
<1>15. ASSUME NEW r \in Requests, CloseDrops(r) PROVE Lives(d)'
  BY <1>15 DEF CloseDrops, Runs, client, session, input, supervisor, ExecTyped, TablesTyped,
     ThreadsTyped, Launchings, Settlements, Lives, Over
<1>16. ASSUME NEW r \in Requests, Cancel(r) PROVE Lives(d)'
  BY <1>16 DEF Cancel, Runs, Revoke, LeaseAfter, client, session, input, supervisor, ExecTyped,
     TablesTyped, ThreadsTyped, Launchings, Settlements, Lives, Over
<1>17. ASSUME NEW r \in Requests, ResizeRefused(r) PROVE Lives(d)'
  BY <1>17 DEF ResizeRefused, Runs, client, session, tables, input, supervisor, ExecTyped,
     TablesTyped, ThreadsTyped, Launchings, Settlements, Lives, Over
<1>18. ASSUME NEW r \in Requests, ResizeFinds(r) PROVE Lives(d)'
  BY <1>18 DEF ResizeFinds, Runs, client, session, tables, input, supervisor, ExecTyped,
     TablesTyped, ThreadsTyped, Launchings, Settlements, Lives, Over
<1>19. ASSUME NEW r \in Requests, ResizeQueues(r) PROVE Lives(d)'
  BY <1>19 DEF ResizeQueues, Runs, Full, Deaf, client, session, tables, supervisor, ExecTyped,
     TablesTyped, ThreadsTyped, Launchings, Settlements, Lives, Over
<1>20. ASSUME NEW r \in Requests, ResizeFails(r) PROVE Lives(d)'
  BY <1>20 DEF ResizeFails, Runs, Revoke, LeaseAfter, Full, Deaf, client, session, input,
     supervisor, ExecTyped, TablesTyped, ThreadsTyped, Launchings, Settlements, Lives, Over
<1>21. ASSUME NEW e \in Execs, RelayTakes(e) PROVE Lives(d)'
  BY <1>21 DEF RelayTakes, Relays, client, session, tables, supervisor, ExecTyped, TablesTyped,
     ThreadsTyped, Launchings, Settlements, Lives, Over
<1>22. ASSUME NEW e \in Execs, RelayCloses(e) PROVE Lives(d)'
  BY <1>22 DEF RelayCloses, Relays, Leaves, ChannelOver, Disconnected, Nothing, client, session,
     tables, supervisor, ExecTyped, TablesTyped, ThreadsTyped, Launchings, Settlements, Lives,
     Over
<1>23. ASSUME NEW e \in Execs, ChildReads(e) PROVE Lives(d)'
  BY <1>23 DEF ChildReads, Relays, Continues, Leaves, IsResize, Nothing, client, session,
     tables, supervisor, ExecTyped, TablesTyped, ThreadsTyped, Launchings, Settlements, Lives,
     Over
<1>24. ASSUME NEW e \in Execs, RelayFails(e) PROVE Lives(d)'
  BY <1>24 DEF RelayFails, Relays, Leaves, IsResize, Nothing, client, session, tables,
     supervisor, ExecTyped, TablesTyped, ThreadsTyped, Launchings, Settlements, Lives, Over
<1>25. ASSUME NEW e \in Execs, RelayResizes(e) PROVE Lives(d)'
  BY <1>25 DEF RelayResizes, Relays, Continues, Leaves, IsResize, Nothing, client, session,
     tables, supervisor, ExecTyped, TablesTyped, ThreadsTyped, Launchings, Settlements, Lives,
     Over
<1>26. ASSUME NEW e \in Execs, ChildExits(e) PROVE Lives(d)'
  BY <1>26 DEF ChildExits, client, session, tables, input, threads, ExecTyped, TablesTyped,
     ThreadsTyped, Launchings, Settlements, Lives, Over
<1>27. ASSUME NEW e \in Execs, SeesRecord(e) PROVE Lives(d)'
  BY <1>27 DEF SeesRecord, Supervises, client, session, tables, input, threads, ExecTyped,
     TablesTyped, ThreadsTyped, Launchings, Settlements, Lives, Over
<1>28. ASSUME NEW e \in Execs, SeesRevocation(e) PROVE Lives(d)'
  BY <1>28 DEF SeesRevocation, Supervises, client, session, tables, input, threads, ExecTyped,
     TablesTyped, ThreadsTyped, Launchings, Settlements, Lives, Over
<1>29. ASSUME NEW e \in Execs, Terminate(e) PROVE Lives(d)'
  BY <1>29 DEF Terminate, Supervises, DrainOver, client, session, tables, input, threads,
     ExecTyped, TablesTyped, ThreadsTyped, Launchings, Settlements, Lives, Over
<1>30. ASSUME NEW e \in Execs, KillGroup(e) PROVE Lives(d)'
  BY <1>30 DEF KillGroup, Supervises, GroupAfterKill, client, session, tables, input, threads,
     ExecTyped, TablesTyped, ThreadsTyped, Launchings, Settlements, Lives, Over
<1>31. ASSUME NEW e \in Execs, Reap(e) PROVE Lives(d)'
  BY <1>31 DEF Reap, Supervises, client, session, input, threads, ExecTyped, TablesTyped,
     ThreadsTyped, Launchings, Settlements, Lives, Over
<1>32. ASSUME NEW e \in Execs, LeaveTable(e) PROVE Lives(d)'
  BY <1>32 DEF LeaveTable, Supervises, client, session, input, threads, ExecTyped, TablesTyped,
     ThreadsTyped, Launchings, Settlements, Lives, Over
<1>33. ASSUME NEW e \in Execs, DropSlot(e) PROVE Lives(d)'
  BY <1>33 DEF DropSlot, Supervises, SlotAfterSettle, client, session, input, threads,
     ExecTyped, TablesTyped, ThreadsTyped, Launchings, Settlements, Lives, Over
<1>34. ASSUME NEW e \in Execs, Publish(e) PROVE Lives(d)'
  BY <1>34 DEF Publish, Supervises, client, session, tables, input, threads, ExecTyped,
     TablesTyped, ThreadsTyped, Launchings, Settlements, Lives, Over
<1>35. CASE Stop
  BY <1>35 DEF Stop, client, tables, input, supervisor, threads, ExecTyped, TablesTyped,
     ThreadsTyped, Launchings, Settlements, Lives, Over
<1>36. CASE Teardown
  BY <1>36 DEF Teardown, Revoke, LeaseAfter, client, input, supervisor, threads, ExecTyped,
     TablesTyped, ThreadsTyped, Launchings, Settlements, Lives, Over
<1>37. CASE Exit
  BY <1>37 DEF Exit, client, tables, input, supervisor, threads, ExecTyped, TablesTyped,
     ThreadsTyped, Launchings, Settlements, Lives, Over
<1>38. CASE UNCHANGED vars
  BY <1>38 DEF vars, ExecTyped, TablesTyped, ThreadsTyped, Launchings, Settlements, Lives, Over,
     client, session, tables, input, supervisor, threads
<1>39. QED
  BY <1>1, <1>2, <1>3, <1>4, <1>5, <1>6, <1>7, <1>8, <1>9, <1>10, <1>11, <1>12, <1>13, <1>14,
     <1>15, <1>16, <1>17, <1>18, <1>19, <1>20, <1>21, <1>22, <1>23, <1>24, <1>25, <1>26, <1>27,
     <1>28, <1>29, <1>30, <1>31, <1>32, <1>33, <1>34, <1>35, <1>36, <1>37, <1>38 DEF Next,
     RequestRuns, LaunchRuns, RelayRuns, SettleRuns

(* Every action keeps the slots.                                           *)
LEMMA SlotsStep == ExecTyped /\ (\A e \in Execs : Lives(e) /\ Slots(e) /\ Wired(e)) /\ (\A r \in
   Requests : Closes(r)) /\ [Next]_vars => \A d \in Execs : Slots(d)'
<1> SUFFICES ASSUME ExecTyped /\ (\A e \in Execs : Lives(e) /\ Slots(e) /\ Wired(e)) /\ (\A r
   \in Requests : Closes(r)) /\ [Next]_vars, NEW d \in Execs
             PROVE  Slots(d)'
  OBVIOUS
<1>1. ASSUME NEW e \in Execs, Feed(e) PROVE Slots(d)'
  BY <1>1 DEF Feed, Started, session, tables, input, supervisor, threads, ExecTyped,
     ClientTyped, TablesTyped, ThreadsTyped, Launchings, Settlements, Lives, Over, Slots, Fed,
     Launched
<1>2. ASSUME NEW r \in Requests, Ask(r) PROVE Slots(d)'
  BY <1>2 DEF Ask, Started, session, tables, input, supervisor, ExecTyped, ClientTyped,
     TablesTyped, ThreadsTyped, Launchings, Settlements, Lives, Over, Slots, Fed, Launched
<1>3. ASSUME NEW e \in Execs, Acquire(e) PROVE Slots(d)'
  BY <1>3 DEF Acquire, Launches, client, session, input, supervisor, ExecTyped, ClientTyped,
     TablesTyped, ThreadsTyped, Launchings, Settlements, Lives, Over, Slots, Fed, Launched
<1>4. ASSUME NEW e \in Execs, LaunchFails(e) PROVE Slots(d)'
  BY <1>4 DEF LaunchFails, Launches, client, session, input, supervisor, ExecTyped, ClientTyped,
     TablesTyped, ThreadsTyped, Launchings, Settlements, Lives, Over, Slots, Fed, Launched
<1>5. ASSUME NEW e \in Execs, Spawn(e) PROVE Slots(d)'
  BY <1>5 DEF Spawn, Launches, client, session, tables, input, ExecTyped, ClientTyped,
     TablesTyped, ThreadsTyped, Launchings, Settlements, Lives, Over, Slots, Fed, Launched
<1>6. ASSUME NEW e \in Execs, OpenInput(e) PROVE Slots(d)'
  BY <1>6 DEF OpenInput, Launches, SlotAtLaunch, client, session, supervisor, ExecTyped,
     ClientTyped, TablesTyped, ThreadsTyped, Launchings, Settlements, Lives, Over, Slots, Fed,
     Launched
<1>7. ASSUME NEW e \in Execs, Enter(e) PROVE Slots(d)'
  BY <1>7 DEF Enter, Launches, client, session, input, supervisor, ExecTyped, ClientTyped,
     TablesTyped, ThreadsTyped, Launchings, Settlements, Lives, Over, Slots, Fed, Launched
<1>8. ASSUME NEW e \in Execs, ReplyStarted(e) PROVE Slots(d)'
  BY <1>8 DEF ReplyStarted, Launches, client, session, tables, ExecTyped, ClientTyped,
     TablesTyped, ThreadsTyped, Launchings, Settlements, Lives, Over, Slots, Fed, Launched
<1>9. CASE PoisonChunk
  BY <1>9 DEF PoisonChunk, Reads, IsChunk, tables, input, supervisor, threads, ExecTyped,
     ClientTyped, TablesTyped, ThreadsTyped, Launchings, Settlements, Lives, Over, Slots, Fed,
     Launched
<1>10. CASE RouteChunk
  <2> DEFINE c == Head(wire)
             e == c.chunk
  <2>1. c = wire[1] /\ 1 \in DOMAIN wire /\ IsChunkOf(1, e) /\ e \in Execs
    BY <1>10, Taken, FrameKinds DEF RouteChunk, IsChunk, Reads, IsChunkOf
  <2>2. c.last => e \in ended
    BY <2>1 DEF Wired
  <2> HIDE DEF c
  <2>3. /\ e \in inbound
        /\ dropped' = dropped \/ dropped' = [dropped EXCEPT ![e] = "pressure"]
        /\ inbound' = inbound \/ inbound' = inbound \ {e}
        /\ inbound' = inbound \/ c.last \/ dropped' = [dropped EXCEPT ![e] = "pressure"]
        /\ inbound' = inbound \ {e} \/ dropped' = dropped
        /\ lease' = lease \/ lease' = lease \union ({e} \intersect entries)
        /\ UNCHANGED <<launch, mode, ended, settle>>
    BY <1>10 DEF RouteChunk, SlotAfter, Revoke, LeaseAfter, supervisor, threads, c
  <2> HIDE DEF e
  <2> QED
    BY <2>1, <2>2, <2>3 DEF ExecTyped, TablesTyped, Slots, Fed
<1>11. CASE AdmitRequest
  BY <1>11 DEF AdmitRequest, Stays, Reads, IsChunk, tables, input, supervisor, ExecTyped,
     ClientTyped, TablesTyped, ThreadsTyped, Launchings, Settlements, Lives, Over, Slots, Fed,
     Launched
<1>12. CASE Leave
  BY <1>12 DEF Leave, client, tables, input, supervisor, threads, ExecTyped, ClientTyped,
     TablesTyped, ThreadsTyped, Launchings, Settlements, Lives, Over, Slots, Fed, Launched
<1>13. ASSUME NEW r \in Requests, CloseRefused(r) PROVE Slots(d)'
  BY <1>13 DEF CloseRefused, Runs, client, session, tables, input, supervisor, ExecTyped,
     ClientTyped, TablesTyped, ThreadsTyped, Launchings, Settlements, Lives, Over, Slots, Fed,
     Launched
<1>14. ASSUME NEW r \in Requests, CloseFinds(r) PROVE Slots(d)'
  BY <1>14 DEF CloseFinds, Runs, client, session, tables, input, supervisor, ExecTyped,
     ClientTyped, TablesTyped, ThreadsTyped, Launchings, Settlements, Lives, Over, Slots, Fed,
     Launched
<1>15. ASSUME NEW r \in Requests, CloseDrops(r) PROVE Slots(d)'
  <2>1. Of[r] \in ended
    BY <1>15 DEF CloseDrops, Runs, Closes
  <2> QED
    BY <1>15, <2>1 DEF CloseDrops, Runs, ExecTyped, TablesTyped, Slots, Fed, client, supervisor
<1>16. ASSUME NEW r \in Requests, Cancel(r) PROVE Slots(d)'
  BY <1>16 DEF Cancel, Runs, Revoke, LeaseAfter, client, session, input, supervisor, ExecTyped,
     ClientTyped, TablesTyped, ThreadsTyped, Launchings, Settlements, Lives, Over, Slots, Fed,
     Launched
<1>17. ASSUME NEW r \in Requests, ResizeRefused(r) PROVE Slots(d)'
  BY <1>17 DEF ResizeRefused, Runs, client, session, tables, input, supervisor, ExecTyped,
     ClientTyped, TablesTyped, ThreadsTyped, Launchings, Settlements, Lives, Over, Slots, Fed,
     Launched
<1>18. ASSUME NEW r \in Requests, ResizeFinds(r) PROVE Slots(d)'
  BY <1>18 DEF ResizeFinds, Runs, client, session, tables, input, supervisor, ExecTyped,
     ClientTyped, TablesTyped, ThreadsTyped, Launchings, Settlements, Lives, Over, Slots, Fed,
     Launched
<1>19. ASSUME NEW r \in Requests, ResizeQueues(r) PROVE Slots(d)'
  BY <1>19 DEF ResizeQueues, Runs, Full, Deaf, client, session, tables, supervisor, ExecTyped,
     ClientTyped, TablesTyped, ThreadsTyped, Launchings, Settlements, Lives, Over, Slots, Fed,
     Launched
<1>20. ASSUME NEW r \in Requests, ResizeFails(r) PROVE Slots(d)'
  BY <1>20 DEF ResizeFails, Runs, Revoke, LeaseAfter, Full, Deaf, client, session, input,
     supervisor, ExecTyped, ClientTyped, TablesTyped, ThreadsTyped, Launchings, Settlements,
     Lives, Over, Slots, Fed, Launched
<1>21. ASSUME NEW e \in Execs, RelayTakes(e) PROVE Slots(d)'
  BY <1>21 DEF RelayTakes, Relays, client, session, tables, supervisor, ExecTyped, ClientTyped,
     TablesTyped, ThreadsTyped, Launchings, Settlements, Lives, Over, Slots, Fed, Launched
<1>22. ASSUME NEW e \in Execs, RelayCloses(e) PROVE Slots(d)'
  BY <1>22 DEF RelayCloses, Relays, Leaves, ChannelOver, Disconnected, Nothing, client, session,
     tables, supervisor, ExecTyped, ClientTyped, TablesTyped, ThreadsTyped, Launchings,
     Settlements, Lives, Over, Slots, Fed, Launched
<1>23. ASSUME NEW e \in Execs, ChildReads(e) PROVE Slots(d)'
  BY <1>23 DEF ChildReads, Relays, Continues, Leaves, IsResize, Nothing, client, session,
     tables, supervisor, ExecTyped, ClientTyped, TablesTyped, ThreadsTyped, Launchings,
     Settlements, Lives, Over, Slots, Fed, Launched
<1>24. ASSUME NEW e \in Execs, RelayFails(e) PROVE Slots(d)'
  BY <1>24 DEF RelayFails, Relays, Leaves, IsResize, Nothing, client, session, tables,
     supervisor, ExecTyped, ClientTyped, TablesTyped, ThreadsTyped, Launchings, Settlements,
     Lives, Over, Slots, Fed, Launched
<1>25. ASSUME NEW e \in Execs, RelayResizes(e) PROVE Slots(d)'
  BY <1>25 DEF RelayResizes, Relays, Continues, Leaves, IsResize, Nothing, client, session,
     tables, supervisor, ExecTyped, ClientTyped, TablesTyped, ThreadsTyped, Launchings,
     Settlements, Lives, Over, Slots, Fed, Launched
<1>26. ASSUME NEW e \in Execs, ChildExits(e) PROVE Slots(d)'
  BY <1>26 DEF ChildExits, client, session, tables, input, threads, ExecTyped, ClientTyped,
     TablesTyped, ThreadsTyped, Launchings, Settlements, Lives, Over, Slots, Fed, Launched
<1>27. ASSUME NEW e \in Execs, SeesRecord(e) PROVE Slots(d)'
  BY <1>27 DEF SeesRecord, Supervises, client, session, tables, input, threads, ExecTyped,
     ClientTyped, TablesTyped, ThreadsTyped, Launchings, Settlements, Lives, Over, Slots, Fed,
     Launched
<1>28. ASSUME NEW e \in Execs, SeesRevocation(e) PROVE Slots(d)'
  BY <1>28 DEF SeesRevocation, Supervises, client, session, tables, input, threads, ExecTyped,
     ClientTyped, TablesTyped, ThreadsTyped, Launchings, Settlements, Lives, Over, Slots, Fed,
     Launched
<1>29. ASSUME NEW e \in Execs, Terminate(e) PROVE Slots(d)'
  BY <1>29 DEF Terminate, Supervises, DrainOver, client, session, tables, input, threads,
     ExecTyped, ClientTyped, TablesTyped, ThreadsTyped, Launchings, Settlements, Lives, Over,
     Slots, Fed, Launched
<1>30. ASSUME NEW e \in Execs, KillGroup(e) PROVE Slots(d)'
  BY <1>30 DEF KillGroup, Supervises, GroupAfterKill, client, session, tables, input, threads,
     ExecTyped, ClientTyped, TablesTyped, ThreadsTyped, Launchings, Settlements, Lives, Over,
     Slots, Fed, Launched
<1>31. ASSUME NEW e \in Execs, Reap(e) PROVE Slots(d)'
  BY <1>31 DEF Reap, Supervises, client, session, input, threads, ExecTyped, ClientTyped,
     TablesTyped, ThreadsTyped, Launchings, Settlements, Lives, Over, Slots, Fed, Launched
<1>32. ASSUME NEW e \in Execs, LeaveTable(e) PROVE Slots(d)'
  BY <1>32 DEF LeaveTable, Supervises, client, session, input, threads, ExecTyped, ClientTyped,
     TablesTyped, ThreadsTyped, Launchings, Settlements, Lives, Over, Slots, Fed, Launched
<1>33. ASSUME NEW e \in Execs, DropSlot(e) PROVE Slots(d)'
  BY <1>33 DEF DropSlot, Supervises, SlotAfterSettle, client, session, input, threads,
     ExecTyped, ClientTyped, TablesTyped, ThreadsTyped, Launchings, Settlements, Lives, Over,
     Slots, Fed, Launched
<1>34. ASSUME NEW e \in Execs, Publish(e) PROVE Slots(d)'
  BY <1>34 DEF Publish, Supervises, client, session, tables, input, threads, ExecTyped,
     ClientTyped, TablesTyped, ThreadsTyped, Launchings, Settlements, Lives, Over, Slots, Fed,
     Launched
<1>35. CASE Stop
  BY <1>35 DEF Stop, client, tables, input, supervisor, threads, ExecTyped, ClientTyped,
     TablesTyped, ThreadsTyped, Launchings, Settlements, Lives, Over, Slots, Fed, Launched
<1>36. CASE Teardown
  BY <1>36 DEF Teardown, Revoke, LeaseAfter, client, input, supervisor, threads, ExecTyped,
     ClientTyped, TablesTyped, ThreadsTyped, Launchings, Settlements, Lives, Over, Slots, Fed,
     Launched
<1>37. CASE Exit
  BY <1>37 DEF Exit, client, tables, input, supervisor, threads, ExecTyped, ClientTyped,
     TablesTyped, ThreadsTyped, Launchings, Settlements, Lives, Over, Slots, Fed, Launched
<1>38. CASE UNCHANGED vars
  BY <1>38 DEF vars, ExecTyped, ClientTyped, TablesTyped, ThreadsTyped, Launchings, Settlements,
     Lives, Over, Slots, Fed, Launched, client, session, tables, input, supervisor, threads
<1>39. QED
  BY <1>1, <1>2, <1>3, <1>4, <1>5, <1>6, <1>7, <1>8, <1>9, <1>10, <1>11, <1>12, <1>13, <1>14,
     <1>15, <1>16, <1>17, <1>18, <1>19, <1>20, <1>21, <1>22, <1>23, <1>24, <1>25, <1>26, <1>27,
     <1>28, <1>29, <1>30, <1>31, <1>32, <1>33, <1>34, <1>35, <1>36, <1>37, <1>38 DEF Next,
     RequestRuns, LaunchRuns, RelayRuns, SettleRuns

-----------------------------------------------------------------------------
(* What the wire says of an exec when its first frame has been read.       *)
LEMMA WireShifts ==
  ASSUME ExecTyped, wire # <<>>, wire' = Tail(wire), NEW d \in Execs
  PROVE  /\ DOMAIN wire' = 1..(Len(wire) - 1) /\ DOMAIN wire = 1..Len(wire) /\ Len(wire) \in Nat
         /\ \A i \in DOMAIN wire' : /\ i + 1 \in DOMAIN wire /\ wire'[i] = wire[i + 1]
                                    /\ IsChunkOf(i, d)' <=> IsChunkOf(i + 1, d)
<1>1. /\ DOMAIN wire' = 1..(Len(wire) - 1) /\ DOMAIN wire = 1..Len(wire) /\ Len(wire) \in Nat
      /\ \A i \in DOMAIN wire' : i + 1 \in DOMAIN wire /\ wire'[i] = wire[i + 1]
  BY Taken DEF ExecTyped, ClientTyped
<1> QED
  BY <1>1 DEF IsChunkOf

(* What it says when a frame has been added.                               *)
LEMMA WireGrows ==
  ASSUME ExecTyped, NEW w \in Frames, wire' = Append(wire, w), NEW d \in Execs
  PROVE  /\ DOMAIN wire' = DOMAIN wire \union {Len(wire) + 1} /\ Len(wire) \in Nat
         /\ DOMAIN wire = 1..Len(wire) /\ wire'[Len(wire) + 1] = w
         /\ \A i \in DOMAIN wire : /\ wire'[i] = wire[i]
                                   /\ IsChunkOf(i, d)' <=> IsChunkOf(i, d)
<1>1. /\ DOMAIN wire' = DOMAIN wire \union {Len(wire) + 1} /\ Len(wire) \in Nat
      /\ DOMAIN wire = 1..Len(wire) /\ wire'[Len(wire) + 1] = w
      /\ \A i \in DOMAIN wire : wire'[i] = wire[i]
  BY DEF ExecTyped, ClientTyped
<1> QED
  BY <1>1 DEF IsChunkOf

(* The chunks of an exec on the wire are numbered.                         *)
LEMMA ChunkTyped ==
  ASSUME ExecTyped, NEW i \in DOMAIN wire, NEW d \in Execs, IsChunkOf(i, d)
  PROVE  wire[i].seq \in Nat /\ wire[i].last \in BOOLEAN
<1>1. wire[i] \in Frames
  BY DEF ExecTyped, ClientTyped
<1> QED
  BY <1>1, FrameKinds DEF IsChunkOf

(* The first chunk of an exec on the wire is the next one.                 *)
LEMMA HeadIsNext ==
  ASSUME ExecTyped, NEW d \in Execs, Wired(d), 1 \in DOMAIN wire, IsChunkOf(1, d), dropped[d] =
     "no"
  PROVE  wire[1].seq = next[d]
<1>1. next[d] \in Nat /\ fed[d] \in Nat /\ wire[1].seq \in Nat
  BY ChunkTyped DEF ExecTyped, ClientTyped, TablesTyped
<1>2. wire[1].seq >= next[d] /\ wire[1].seq < fed[d]
  BY DEF Wired
<1>3. PICK i \in DOMAIN wire : IsChunkOf(i, d) /\ wire[i].seq = next[d]
  BY <1>1, <1>2 DEF Wired
<1>4. i = 1 \/ 1 < i
  BY DEF ExecTyped, ClientTyped
<1>5. 1 < i => wire[1].seq < next[d]
  BY <1>3 DEF Wired
<1> QED
  BY <1>1, <1>2, <1>3, <1>4, <1>5

(* Reading the first frame keeps the chunks behind it in order: it was not *)
(* the exec's, or it was the next one, or its slot is lost.                *)
LEMMA WiredTail ==
  ASSUME ExecTyped, wire # <<>>, wire' = Tail(wire), UNCHANGED <<fed, ended>>,
         NEW d \in Execs, Wired(d),
         (Fed(d) => Fed(d)') \/ (IsChunkOf(1, d) /\ wire[1].last),
         dropped'[d] = "no" =>
           /\ dropped[d] = "no"
           /\ \/ ~IsChunkOf(1, d) /\ next'[d] = next[d]
              \/ IsChunkOf(1, d) /\ next'[d] = next[d] + 1
  PROVE  Wired(d)'
<1>1. /\ DOMAIN wire' = 1..(Len(wire) - 1) /\ DOMAIN wire = 1..Len(wire) /\ Len(wire) \in Nat
      /\ 1 \in DOMAIN wire
      /\ \A i \in DOMAIN wire' : /\ i + 1 \in DOMAIN wire /\ wire'[i] = wire[i + 1]
                                 /\ IsChunkOf(i, d)' <=> IsChunkOf(i + 1, d)
  BY WireShifts, Taken
<1>2. next[d] \in Nat /\ fed[d] \in Nat
  BY DEF ExecTyped, ClientTyped, TablesTyped
<1>3. \A i \in DOMAIN wire : IsChunkOf(i, d) => wire[i].seq \in Nat
  BY ChunkTyped
<1>4. IsChunkOf(1, d) /\ wire[1].last => \A i \in DOMAIN wire' : ~IsChunkOf(i, d)'
  <2> SUFFICES ASSUME IsChunkOf(1, d), wire[1].last, NEW i \in DOMAIN wire', IsChunkOf(i, d)'
               PROVE  FALSE
    OBVIOUS
  <2>1. i + 1 \in DOMAIN wire /\ IsChunkOf(i + 1, d) /\ 1 < i + 1
    BY <1>1
  <2>2. wire[1].seq = fed[d] - 1 /\ wire[i + 1].seq < fed[d] /\ wire[1].seq < wire[i + 1].seq
    BY <1>1, <2>1 DEF Wired
  <2> QED
    BY <1>2, <1>3, <2>1, <2>2
<1>5. IsChunkOf(1, d) /\ dropped[d] = "no" => wire[1].seq = next[d]
  BY <1>1, HeadIsNext
<1>6. ASSUME NEW i \in DOMAIN wire', IsChunkOf(i, d)'
      PROVE  /\ Fed(d)' /\ wire'[i].seq < fed'[d]
             /\ wire'[i].last => d \in ended' /\ wire'[i].seq = fed'[d] - 1
             /\ dropped'[d] = "no" => wire'[i].seq >= next'[d]
             /\ \A j \in DOMAIN wire' : IsChunkOf(j, d)' /\ i < j => wire'[i].seq < wire'[j].seq
  <2>1. i + 1 \in DOMAIN wire /\ IsChunkOf(i + 1, d) /\ wire'[i] = wire[i + 1]
    BY <1>1, <1>6
  <2>2. /\ Fed(d) /\ wire[i + 1].seq < fed[d]
        /\ wire[i + 1].last => d \in ended /\ wire[i + 1].seq = fed[d] - 1
        /\ dropped[d] = "no" => wire[i + 1].seq >= next[d]
        /\ \A j \in DOMAIN wire : IsChunkOf(j, d) /\ i + 1 < j => wire[i + 1].seq < wire[j].seq
    BY <2>1 DEF Wired
  <2>3. Fed(d)'
    BY <1>4, <1>6, <2>2
  <2>4. \A j \in DOMAIN wire' : IsChunkOf(j, d)' /\ i < j => wire'[i].seq < wire'[j].seq
    BY <1>1, <2>1, <2>2
  <2>5. IsChunkOf(1, d) => wire[1].seq < wire[i + 1].seq
    BY <1>1, <2>1 DEF Wired
  <2>6. dropped'[d] = "no" => wire'[i].seq >= next'[d]
    BY <1>1, <1>2, <1>3, <1>5, <2>1, <2>2, <2>5
  <2> QED
    BY <2>1, <2>2, <2>3, <2>4, <2>6
<1>7. ASSUME dropped'[d] = "no"
      PROVE  /\ next'[d] <= fed'[d]
             /\ \A n \in next'[d]..(fed'[d] - 1) :
                  \E i \in DOMAIN wire' : IsChunkOf(i, d)' /\ wire'[i].seq = n
  <2>1. next'[d] <= fed'[d]
    BY <1>1, <1>2, <1>3, <1>5, <1>7 DEF Wired
  <2>2. ASSUME NEW n \in next'[d]..(fed'[d] - 1)
        PROVE  \E i \in DOMAIN wire' : IsChunkOf(i, d)' /\ wire'[i].seq = n
    <3>1. n \in next[d]..(fed[d] - 1)
      BY <1>2, <1>7, <2>2
    <3>2. PICK i \in DOMAIN wire : IsChunkOf(i, d) /\ wire[i].seq = n
      BY <1>7, <3>1 DEF Wired
    <3>3. i # 1
      BY <1>1, <1>2, <1>5, <1>7, <2>2, <3>2
    <3>4. i - 1 \in DOMAIN wire' /\ (i - 1) + 1 = i
      BY <1>1, <3>3
    <3> QED
      BY <1>1, <3>2, <3>4
  <2> QED
    BY <2>1, <2>2
<1> QED
  BY <1>6, <1>7 DEF Wired

(* Every action keeps the chunks on the wire in order.                     *)
LEMMA WiredStep == ExecTyped /\ (\A e \in Execs : Lives(e) /\ Slots(e) /\ Wired(e)) /\ (\A r \in
   Requests : Closes(r)) /\ [Next]_vars => \A d \in Execs : Wired(d)'
<1> SUFFICES ASSUME ExecTyped /\ (\A e \in Execs : Lives(e) /\ Slots(e) /\ Wired(e)) /\ (\A r
   \in Requests : Closes(r)) /\ [Next]_vars, NEW d \in Execs
             PROVE  Wired(d)'
  OBVIOUS
<1>1. ASSUME NEW e \in Execs, Feed(e) PROVE Wired(d)'
  <2>1. PICK last \in BOOLEAN :
             /\ wire' = Append(wire, [chunk |-> e, seq |-> fed[e], last |-> last])
             /\ ended' = IF last THEN ended \union {e} ELSE ended
    BY <1>1 DEF Feed
  <2>2. /\ fed' = [fed EXCEPT ![e] = fed[e] + 1] /\ UNCHANGED <<next, dropped, inbound>>
        /\ launch[e] = "started" /\ mode[e] # "plain" /\ e \notin ended
    BY <1>1 DEF Feed, Started, tables
  <2> DEFINE w == [chunk |-> e, seq |-> fed[e], last |-> last]
  <2>3. w \in Frames /\ "chunk" \in DOMAIN w /\ w.chunk = e /\ w.seq = fed[e] /\ w.last = last
    BY DEF Frames, ExecTyped, ClientTyped
  <2>4. wire' = Append(wire, w)
    BY <2>1
  <2> HIDE DEF w
  <2> DEFINE n == Len(wire) + 1
  <2>5. /\ DOMAIN wire' = DOMAIN wire \union {n} /\ Len(wire) \in Nat
        /\ DOMAIN wire = 1..Len(wire) /\ wire'[n] = w
        /\ \A i \in DOMAIN wire : /\ wire'[i] = wire[i]
                                  /\ IsChunkOf(i, d)' <=> IsChunkOf(i, d)
    BY <2>3, <2>4, WireGrows
  <2>6. \A i : i = n => (IsChunkOf(i, d)' <=> d = e)
    BY <2>3, <2>5 DEF IsChunkOf
  <2>7. fed[d] \in Nat /\ next[d] \in Nat /\ fed[e] \in Nat
    BY DEF ExecTyped, ClientTyped, TablesTyped
  <2>8. Fed(d)' = Fed(d)
    BY <2>2 DEF Fed
  <2>9. \A i \in DOMAIN wire : IsChunkOf(i, d) => wire[i].seq \in Nat
    BY ChunkTyped
  <2> HIDE DEF n
  <2>10. CASE d # e
    <3>1. \A i \in DOMAIN wire' : IsChunkOf(i, d)' => i \in DOMAIN wire
      BY <2>5, <2>6, <2>10
    <3>2. fed'[d] = fed[d] /\ (d \in ended' <=> d \in ended)
      BY <2>1, <2>2, <2>10 DEF ExecTyped, ClientTyped
    <3> QED
      BY <2>2, <2>5, <2>8, <3>1, <3>2 DEF Wired
  <2>11. CASE d = e
    <3>1. Fed(d) /\ fed'[d] = fed[d] + 1
      BY <2>2, <2>11 DEF Slots, Launched, ExecTyped, ClientTyped
    <3>2. \A i \in DOMAIN wire : IsChunkOf(i, d) => ~wire[i].last /\ i < n
      BY <2>2, <2>5, <2>11 DEF Wired, n
    <3>3. ASSUME NEW i \in DOMAIN wire', IsChunkOf(i, d)'
          PROVE  /\ Fed(d)' /\ wire'[i].seq < fed'[d]
                 /\ wire'[i].last => d \in ended' /\ wire'[i].seq = fed'[d] - 1
                 /\ dropped'[d] = "no" => wire'[i].seq >= next'[d]
                 /\ \A j \in DOMAIN wire' : IsChunkOf(j, d)' /\ i < j => wire'[i].seq <
                       wire'[j].seq
      <4>1. CASE i = n
        <5>1. /\ wire'[i].seq = fed[d] /\ wire'[i].last = last
          BY <2>3, <2>5, <2>11, <4>1
        <5>2. \A j \in DOMAIN wire' : ~(i < j)
          BY <2>5, <4>1 DEF n
        <5>3. dropped'[d] = "no" => fed[d] >= next[d]
          BY <2>2, <2>7 DEF Wired
        <5> QED
          BY <2>1, <2>2, <2>7, <2>8, <2>11, <3>1, <5>1, <5>2, <5>3
      <4>2. CASE i \in DOMAIN wire
        <5>1. /\ IsChunkOf(i, d) /\ wire'[i] = wire[i] /\ ~wire[i].last
          BY <2>5, <3>2, <3>3, <4>2
        <5>2. /\ wire[i].seq < fed[d]
              /\ dropped[d] = "no" => wire[i].seq >= next[d]
              /\ \A j \in DOMAIN wire : IsChunkOf(j, d) /\ i < j => wire[i].seq < wire[j].seq
          BY <4>2, <5>1 DEF Wired
        <5>3. ASSUME NEW j \in DOMAIN wire', IsChunkOf(j, d)', i < j PROVE wire'[i].seq <
           wire'[j].seq
          BY <2>3, <2>5, <2>11, <5>1, <5>2, <5>3
        <5> QED
          BY <2>2, <2>7, <2>8, <2>9, <3>1, <4>2, <5>1, <5>2, <5>3
      <4> QED
        BY <2>5, <4>1, <4>2
    <3>4. ASSUME dropped'[d] = "no"
          PROVE  /\ next'[d] <= fed'[d]
                 /\ \A k \in next'[d]..(fed'[d] - 1) :
                      \E i \in DOMAIN wire' : IsChunkOf(i, d)' /\ wire'[i].seq = k
      <4>1. next[d] <= fed[d] /\ \A k \in next[d]..(fed[d] - 1) :
               \E i \in DOMAIN wire : IsChunkOf(i, d) /\ wire[i].seq = k
        BY <2>2, <3>4 DEF Wired
      <4>2. PICK m \in DOMAIN wire' : IsChunkOf(m, d)' /\ wire'[m].seq = fed[d]
        BY <2>3, <2>5, <2>6, <2>11
      <4>3. ASSUME NEW k \in next'[d]..(fed'[d] - 1)
            PROVE  \E i \in DOMAIN wire' : IsChunkOf(i, d)' /\ wire'[i].seq = k
        <5>1. CASE k = fed[d]
          BY <4>2, <5>1
        <5>2. CASE k # fed[d]
          <6>1. k \in next[d]..(fed[d] - 1)
            BY <2>2, <2>7, <3>1, <4>3, <5>2
          <6>2. PICK i \in DOMAIN wire : IsChunkOf(i, d) /\ wire[i].seq = k
            BY <4>1, <6>1
          <6> QED
            BY <2>5, <6>2
        <5> QED
          BY <5>1, <5>2
      <4> QED
        BY <2>2, <2>7, <3>1, <4>1, <4>3
    <3> QED
      BY <3>3, <3>4 DEF Wired
  <2> QED
    BY <2>10, <2>11
<1>2. ASSUME NEW r \in Requests, Ask(r) PROVE Wired(d)'
  <2>1. /\ wire' = Append(wire, [request |-> r]) /\ [request |-> r] \in Frames
        /\ UNCHANGED <<fed, next, dropped, inbound>> /\ ended \subseteq ended'
    BY <1>2 DEF Ask, Frames, tables
  <2>2. /\ DOMAIN wire' = DOMAIN wire \union {Len(wire) + 1}
        /\ wire'[Len(wire) + 1] = [request |-> r]
        /\ \A i \in DOMAIN wire : /\ wire'[i] = wire[i]
                                  /\ IsChunkOf(i, d)' <=> IsChunkOf(i, d)
    BY <2>1, WireGrows
  <2>3. \A i \in DOMAIN wire' : IsChunkOf(i, d)' => i \in DOMAIN wire
    BY <2>2 DEF IsChunkOf
  <2>4. Fed(d)' = Fed(d)
    BY <2>1 DEF Fed
  <2> QED
    BY <2>1, <2>2, <2>3, <2>4 DEF Wired
<1>3. ASSUME NEW e \in Execs, Acquire(e) PROVE Wired(d)'
  <2>1. UNCHANGED <<wire, fed, ended, next, dropped, inbound>>
    BY <1>3 DEF Acquire, Launches, client, session, input, supervisor
  <2> QED
    BY <2>1 DEF Wired, IsChunkOf, Fed
<1>4. ASSUME NEW e \in Execs, LaunchFails(e) PROVE Wired(d)'
  <2>1. UNCHANGED <<wire, fed, ended, next, dropped, inbound>>
    BY <1>4 DEF LaunchFails, Launches, client, session, input, supervisor
  <2> QED
    BY <2>1 DEF Wired, IsChunkOf, Fed
<1>5. ASSUME NEW e \in Execs, Spawn(e) PROVE Wired(d)'
  <2>1. UNCHANGED <<wire, fed, ended, next, dropped, inbound>>
    BY <1>5 DEF Spawn, Launches, client, session, tables, input
  <2> QED
    BY <2>1 DEF Wired, IsChunkOf, Fed
<1>6. ASSUME NEW e \in Execs, OpenInput(e) PROVE Wired(d)'
  <2>1. /\ UNCHANGED <<wire, fed, ended, next, dropped>> /\ inbound \subseteq inbound'
    BY <1>6 DEF OpenInput, SlotAtLaunch, Launches, client
  <2>2. Fed(d) => Fed(d)'
    BY <2>1 DEF Fed
  <2>3. \A i : IsChunkOf(i, d)' = IsChunkOf(i, d)
    BY <2>1 DEF IsChunkOf
  <2> QED
    BY <2>1, <2>2, <2>3 DEF Wired
<1>7. ASSUME NEW e \in Execs, Enter(e) PROVE Wired(d)'
  <2>1. UNCHANGED <<wire, fed, ended, next, dropped, inbound>>
    BY <1>7 DEF Enter, Launches, client, session, input, supervisor
  <2> QED
    BY <2>1 DEF Wired, IsChunkOf, Fed
<1>8. ASSUME NEW e \in Execs, ReplyStarted(e) PROVE Wired(d)'
  <2>1. UNCHANGED <<wire, fed, ended, next, dropped, inbound>>
    BY <1>8 DEF ReplyStarted, Launches, client, session, tables
  <2> QED
    BY <2>1 DEF Wired, IsChunkOf, Fed
<1>9. CASE PoisonChunk
  <2> DEFINE c == Head(wire)
             e == c.chunk
  <2>1. c = wire[1] /\ 1 \in DOMAIN wire /\ IsChunkOf(1, e) /\ e \in Execs /\ wire # <<>>
    BY <1>9, Taken, FrameKinds DEF PoisonChunk, IsChunk, Reads, IsChunkOf
  <2>2. /\ wire' = Tail(wire) /\ UNCHANGED <<fed, ended, next, dropped, inbound>>
        /\ e \notin inbound \/ c.seq # next[e]
    BY <1>9 DEF PoisonChunk, tables
  <2>3. Fed(d)' = Fed(d)
    BY <2>2 DEF Fed
  <2>4. Fed(e) /\ (e \in inbound => dropped[e] = "no")
    BY <2>1 DEF Wired, Slots
  <2>5. dropped[e] # "no"
    BY <2>1, <2>2, <2>4, HeadIsNext DEF Fed
  <2>6. d # e => ~IsChunkOf(1, d)
    BY <2>1 DEF IsChunkOf
  <2> HIDE DEF e, c
  <2> QED
    BY <2>1, <2>2, <2>3, <2>5, <2>6, WiredTail
<1>10. CASE RouteChunk
  <2> DEFINE c == Head(wire)
             e == c.chunk
  <2>1. c = wire[1] /\ 1 \in DOMAIN wire /\ IsChunkOf(1, e) /\ e \in Execs /\ wire # <<>>
    BY <1>10, Taken, FrameKinds DEF RouteChunk, IsChunk, Reads, IsChunkOf
  <2>2. /\ wire' = Tail(wire) /\ UNCHANGED <<fed, ended>>
        /\ next' = [next EXCEPT ![e] = next[e] + 1]
        /\ \/ inbound' = inbound /\ dropped' = dropped
           \/ inbound' = inbound \ {e} /\ dropped' = [dropped EXCEPT ![e] = "pressure"]
           \/ inbound' = inbound \ {e} /\ dropped' = dropped /\ c.last
    BY <1>10 DEF RouteChunk, SlotAfter
  <2>3. d # e => ~IsChunkOf(1, d)
    BY <2>1 DEF IsChunkOf
  <2>4. c.last = wire[1].last
    BY <2>1
  <2> HIDE DEF e, c
  <2>5. (Fed(d) => Fed(d)') \/ (IsChunkOf(1, d) /\ wire[1].last)
    BY <2>1, <2>2, <2>4 DEF Fed, ExecTyped, TablesTyped
  <2>6. dropped'[d] = "no" => dropped[d] = "no"
    BY <2>1, <2>2 DEF ExecTyped, TablesTyped
  <2>7. IF d = e THEN next'[d] = next[d] + 1 ELSE next'[d] = next[d]
    BY <2>1, <2>2 DEF ExecTyped, TablesTyped
  <2> QED
    BY <2>1, <2>2, <2>3, <2>5, <2>6, <2>7, WiredTail
<1>11. CASE AdmitRequest
  <2>1. /\ wire # <<>> /\ wire' = Tail(wire) /\ UNCHANGED <<fed, ended, next, dropped, inbound>>
        /\ "chunk" \notin DOMAIN Head(wire) /\ Head(wire) = wire[1]
    BY <1>11, Taken DEF AdmitRequest, IsChunk, Reads, tables
  <2>2. ~IsChunkOf(1, d)
    BY <2>1 DEF IsChunkOf
  <2> QED
    BY <2>1, <2>2, WiredTail DEF Fed
<1>12. CASE Leave
  <2>1. UNCHANGED <<wire, fed, ended, next, dropped, inbound>>
    BY <1>12 DEF Leave, client, tables, input, supervisor, threads
  <2> QED
    BY <2>1 DEF Wired, IsChunkOf, Fed
<1>13. ASSUME NEW r \in Requests, CloseRefused(r) PROVE Wired(d)'
  <2>1. UNCHANGED <<wire, fed, ended, next, dropped, inbound>>
    BY <1>13 DEF CloseRefused, Runs, client, session, tables, input, supervisor
  <2> QED
    BY <2>1 DEF Wired, IsChunkOf, Fed
<1>14. ASSUME NEW r \in Requests, CloseFinds(r) PROVE Wired(d)'
  <2>1. UNCHANGED <<wire, fed, ended, next, dropped, inbound>>
    BY <1>14 DEF CloseFinds, Runs, client, session, tables, input, supervisor
  <2> QED
    BY <2>1 DEF Wired, IsChunkOf, Fed
<1>15. ASSUME NEW r \in Requests, CloseDrops(r) PROVE Wired(d)'
  <2>1. /\ UNCHANGED <<wire, fed, ended, next, dropped>> /\ inbound' = inbound \ {Of[r]}
        /\ \A i \in DOMAIN wire : ~IsChunkOf(i, Of[r])
    BY <1>15 DEF CloseDrops, Runs, client, Closes
  <2>2. \A i \in DOMAIN wire : IsChunkOf(i, d) => Fed(d)'
    BY <2>1 DEF Wired, Fed
  <2>3. \A i : IsChunkOf(i, d)' = IsChunkOf(i, d)
    BY <2>1 DEF IsChunkOf
  <2> QED
    BY <2>1, <2>2, <2>3 DEF Wired
<1>16. ASSUME NEW r \in Requests, Cancel(r) PROVE Wired(d)'
  <2>1. UNCHANGED <<wire, fed, ended, next, dropped, inbound>>
    BY <1>16 DEF Cancel, Runs, Revoke, LeaseAfter, client, session, input, supervisor
  <2> QED
    BY <2>1 DEF Wired, IsChunkOf, Fed
<1>17. ASSUME NEW r \in Requests, ResizeRefused(r) PROVE Wired(d)'
  <2>1. UNCHANGED <<wire, fed, ended, next, dropped, inbound>>
    BY <1>17 DEF ResizeRefused, Runs, client, session, tables, input, supervisor
  <2> QED
    BY <2>1 DEF Wired, IsChunkOf, Fed
<1>18. ASSUME NEW r \in Requests, ResizeFinds(r) PROVE Wired(d)'
  <2>1. UNCHANGED <<wire, fed, ended, next, dropped, inbound>>
    BY <1>18 DEF ResizeFinds, Runs, client, session, tables, input, supervisor
  <2> QED
    BY <2>1 DEF Wired, IsChunkOf, Fed
<1>19. ASSUME NEW r \in Requests, ResizeQueues(r) PROVE Wired(d)'
  <2>1. UNCHANGED <<wire, fed, ended, next, dropped, inbound>>
    BY <1>19 DEF ResizeQueues, Runs, Full, Deaf, client, session, tables, supervisor
  <2> QED
    BY <2>1 DEF Wired, IsChunkOf, Fed
<1>20. ASSUME NEW r \in Requests, ResizeFails(r) PROVE Wired(d)'
  <2>1. UNCHANGED <<wire, fed, ended, next, dropped, inbound>>
    BY <1>20 DEF ResizeFails, Runs, Revoke, LeaseAfter, Full, Deaf, client, session, input,
       supervisor
  <2> QED
    BY <2>1 DEF Wired, IsChunkOf, Fed
<1>21. ASSUME NEW e \in Execs, RelayTakes(e) PROVE Wired(d)'
  <2>1. UNCHANGED <<wire, fed, ended, next, dropped, inbound>>
    BY <1>21 DEF RelayTakes, Relays, client, session, tables, supervisor
  <2> QED
    BY <2>1 DEF Wired, IsChunkOf, Fed
<1>22. ASSUME NEW e \in Execs, RelayCloses(e) PROVE Wired(d)'
  <2>1. UNCHANGED <<wire, fed, ended, next, dropped, inbound>>
    BY <1>22 DEF RelayCloses, Relays, Leaves, ChannelOver, Disconnected, Nothing, client,
       session, tables, supervisor
  <2> QED
    BY <2>1 DEF Wired, IsChunkOf, Fed
<1>23. ASSUME NEW e \in Execs, ChildReads(e) PROVE Wired(d)'
  <2>1. UNCHANGED <<wire, fed, ended, next, dropped, inbound>>
    BY <1>23 DEF ChildReads, Relays, Continues, Leaves, IsResize, Nothing, client, session,
       tables, supervisor
  <2> QED
    BY <2>1 DEF Wired, IsChunkOf, Fed
<1>24. ASSUME NEW e \in Execs, RelayFails(e) PROVE Wired(d)'
  <2>1. UNCHANGED <<wire, fed, ended, next, dropped, inbound>>
    BY <1>24 DEF RelayFails, Relays, Leaves, IsResize, Nothing, client, session, tables,
       supervisor
  <2> QED
    BY <2>1 DEF Wired, IsChunkOf, Fed
<1>25. ASSUME NEW e \in Execs, RelayResizes(e) PROVE Wired(d)'
  <2>1. UNCHANGED <<wire, fed, ended, next, dropped, inbound>>
    BY <1>25 DEF RelayResizes, Relays, Continues, Leaves, IsResize, Nothing, client, session,
       tables, supervisor
  <2> QED
    BY <2>1 DEF Wired, IsChunkOf, Fed
<1>26. ASSUME NEW e \in Execs, ChildExits(e) PROVE Wired(d)'
  <2>1. UNCHANGED <<wire, fed, ended, next, dropped, inbound>>
    BY <1>26 DEF ChildExits, client, session, tables, input, threads
  <2> QED
    BY <2>1 DEF Wired, IsChunkOf, Fed
<1>27. ASSUME NEW e \in Execs, SeesRecord(e) PROVE Wired(d)'
  <2>1. UNCHANGED <<wire, fed, ended, next, dropped, inbound>>
    BY <1>27 DEF SeesRecord, Supervises, client, session, tables, input, threads
  <2> QED
    BY <2>1 DEF Wired, IsChunkOf, Fed
<1>28. ASSUME NEW e \in Execs, SeesRevocation(e) PROVE Wired(d)'
  <2>1. UNCHANGED <<wire, fed, ended, next, dropped, inbound>>
    BY <1>28 DEF SeesRevocation, Supervises, client, session, tables, input, threads
  <2> QED
    BY <2>1 DEF Wired, IsChunkOf, Fed
<1>29. ASSUME NEW e \in Execs, Terminate(e) PROVE Wired(d)'
  <2>1. UNCHANGED <<wire, fed, ended, next, dropped, inbound>>
    BY <1>29 DEF Terminate, Supervises, DrainOver, client, session, tables, input, threads
  <2> QED
    BY <2>1 DEF Wired, IsChunkOf, Fed
<1>30. ASSUME NEW e \in Execs, KillGroup(e) PROVE Wired(d)'
  <2>1. UNCHANGED <<wire, fed, ended, next, dropped, inbound>>
    BY <1>30 DEF KillGroup, Supervises, GroupAfterKill, client, session, tables, input, threads
  <2> QED
    BY <2>1 DEF Wired, IsChunkOf, Fed
<1>31. ASSUME NEW e \in Execs, Reap(e) PROVE Wired(d)'
  <2>1. UNCHANGED <<wire, fed, ended, next, dropped, inbound>>
    BY <1>31 DEF Reap, Supervises, client, session, input, threads
  <2> QED
    BY <2>1 DEF Wired, IsChunkOf, Fed
<1>32. ASSUME NEW e \in Execs, LeaveTable(e) PROVE Wired(d)'
  <2>1. UNCHANGED <<wire, fed, ended, next, dropped, inbound>>
    BY <1>32 DEF LeaveTable, Supervises, client, session, input, threads
  <2> QED
    BY <2>1 DEF Wired, IsChunkOf, Fed
<1>33. ASSUME NEW e \in Execs, DropSlot(e) PROVE Wired(d)'
  <2>1. /\ UNCHANGED <<wire, fed, ended, next>> /\ inbound' = inbound \ {e}
        /\ dropped' = IF e \in inbound THEN [dropped EXCEPT ![e] = "settled"] ELSE dropped
    BY <1>33 DEF DropSlot, SlotAfterSettle, Supervises, client
  <2>2. (Fed(d) => Fed(d)') /\ (dropped'[d] = "no" => dropped[d] = "no")
    BY <2>1 DEF Fed, ExecTyped, TablesTyped
  <2>3. \A i : IsChunkOf(i, d)' = IsChunkOf(i, d)
    BY <2>1 DEF IsChunkOf
  <2> QED
    BY <2>1, <2>2, <2>3 DEF Wired
<1>34. ASSUME NEW e \in Execs, Publish(e) PROVE Wired(d)'
  <2>1. UNCHANGED <<wire, fed, ended, next, dropped, inbound>>
    BY <1>34 DEF Publish, Supervises, client, session, tables, input, threads
  <2> QED
    BY <2>1 DEF Wired, IsChunkOf, Fed
<1>35. CASE Stop
  <2>1. UNCHANGED <<wire, fed, ended, next, dropped, inbound>>
    BY <1>35 DEF Stop, client, tables, input, supervisor, threads
  <2> QED
    BY <2>1 DEF Wired, IsChunkOf, Fed
<1>36. CASE Teardown
  <2>1. UNCHANGED <<wire, fed, ended, next, dropped, inbound>>
    BY <1>36 DEF Teardown, Revoke, LeaseAfter, client, input, supervisor, threads
  <2> QED
    BY <2>1 DEF Wired, IsChunkOf, Fed
<1>37. CASE Exit
  <2>1. UNCHANGED <<wire, fed, ended, next, dropped, inbound>>
    BY <1>37 DEF Exit, client, tables, input, supervisor, threads
  <2> QED
    BY <2>1 DEF Wired, IsChunkOf, Fed
<1>38. CASE UNCHANGED vars
  BY <1>38 DEF vars, Wired, IsChunkOf, Fed, client, session, tables, input, supervisor, threads
<1>39. QED
  BY <1>1, <1>2, <1>3, <1>4, <1>5, <1>6, <1>7, <1>8, <1>9, <1>10, <1>11, <1>12, <1>13, <1>14,
     <1>15, <1>16, <1>17, <1>18, <1>19, <1>20, <1>21, <1>22, <1>23, <1>24, <1>25, <1>26, <1>27,
     <1>28, <1>29, <1>30, <1>31, <1>32, <1>33, <1>34, <1>35, <1>36, <1>37, <1>38 DEF Next,
     RequestRuns, LaunchRuns, RelayRuns, SettleRuns

-----------------------------------------------------------------------------
(* Reading a frame keeps a half-close that it was not behind its chunks.   *)
LEMMA ClosesTail ==
  ASSUME ExecTyped, wire # <<>>, wire' = Tail(wire), UNCHANGED ended,
         NEW q \in Requests, Closes(q), op'[q] = op[q]
  PROVE  Closes(q)'
<1>1. /\ \A i \in DOMAIN wire' : /\ i + 1 \in DOMAIN wire /\ wire'[i] = wire[i + 1]
                                  /\ IsChunkOf(i, Of[q])' <=> IsChunkOf(i + 1, Of[q])
      /\ DOMAIN wire' \subseteq Nat
  BY ExecAssumption, WireShifts
<1>2. CASE Op[q] = "close"
  <2>1. /\ op[q] # "new" => Of[q] \in ended
        /\ op[q] \in {"run", "drop"} => \A i \in DOMAIN wire : ~IsChunkOf(i, Of[q])
        /\ \A i \in DOMAIN wire : wire[i] = [request |-> q] =>
             /\ op[q] # "new"
             /\ \A j \in DOMAIN wire : i < j => ~IsChunkOf(j, Of[q])
    BY <1>2 DEF Closes
  <2>2. op'[q] \in {"run", "drop"} => \A i \in DOMAIN wire' : ~IsChunkOf(i, Of[q])'
    BY <1>1, <2>1
  <2>3. ASSUME NEW i \in DOMAIN wire', wire'[i] = [request |-> q]
        PROVE  op'[q] # "new" /\ \A j \in DOMAIN wire' : i < j => ~IsChunkOf(j, Of[q])'
    <3> DEFINE w == [request |-> q]
    <3>0. wire'[i] = w
      BY <2>3
    <3> HIDE DEF w
    <3>1. i + 1 \in DOMAIN wire /\ wire[i + 1] = w
      BY <1>1, <3>0
    <3>2. op[q] # "new" /\ \A j \in DOMAIN wire : i + 1 < j => ~IsChunkOf(j, Of[q])
      BY <2>1, <3>1 DEF w
    <3>3. ASSUME NEW j \in DOMAIN wire', i < j PROVE ~IsChunkOf(j, Of[q])'
      <4>1. i + 1 < j + 1 /\ j + 1 \in DOMAIN wire
        BY <1>1, <3>3
      <4> QED
        BY <1>1, <3>2, <4>1
    <3> QED
      BY <3>2, <3>3
  <2> QED
    BY <2>1, <2>2, <2>3 DEF Closes
<1>3. CASE Op[q] # "close"
  BY <1>3 DEF Closes
<1> QED
  BY <1>2, <1>3

(* Every action keeps half-closes behind the chunks.                       *)
LEMMA ClosesStep == ExecTyped /\ (\A e \in Execs : Lives(e) /\ Slots(e) /\ Wired(e) /\
   Resizes(e)) /\ (\A r \in Requests : Closes(r)) /\ [Next]_vars => \A q \in Requests :
   Closes(q)'
<1> SUFFICES ASSUME ExecTyped /\ (\A e \in Execs : Lives(e) /\ Slots(e) /\ Wired(e) /\
   Resizes(e)) /\ (\A r \in Requests : Closes(r)) /\ [Next]_vars, NEW q \in Requests
             PROVE  Closes(q)'
  OBVIOUS
<1>1. ASSUME NEW e \in Execs, Feed(e) PROVE Closes(q)'
  <2>1. PICK last \in BOOLEAN :
             /\ wire' = Append(wire, [chunk |-> e, seq |-> fed[e], last |-> last])
             /\ ended' = IF last THEN ended \union {e} ELSE ended
    BY <1>1 DEF Feed
  <2>2. UNCHANGED op /\ e \notin ended
    BY <1>1 DEF Feed, threads
  <2> DEFINE w == [chunk |-> e, seq |-> fed[e], last |-> last]
  <2>3. w \in Frames /\ "chunk" \in DOMAIN w /\ w.chunk = e
    BY DEF Frames, ExecTyped, ClientTyped
  <2>4. wire' = Append(wire, w) /\ Of[q] \in Execs /\ w # [request |-> q]
    BY <2>1, <2>3, ExecAssumption
  <2> HIDE DEF w
  <2>5. /\ DOMAIN wire' = DOMAIN wire \union {Len(wire) + 1} /\ wire'[Len(wire) + 1] = w
        /\ \A i \in DOMAIN wire : /\ wire'[i] = wire[i]
                                  /\ IsChunkOf(i, Of[q])' <=> IsChunkOf(i, Of[q])
    BY <2>3, <2>4, WireGrows
  <2>6. Of[q] # e => \A i : i = Len(wire) + 1 => ~IsChunkOf(i, Of[q])'
    BY <2>3, <2>5 DEF IsChunkOf
  <2>7. Op[q] = "close" /\ op[q] # "new" => Of[q] # e
    BY <2>2 DEF Closes
  <2> QED
    BY <2>1, <2>2, <2>4, <2>5, <2>6, <2>7 DEF Closes
<1>2. ASSUME NEW r \in Requests, Ask(r) PROVE Closes(q)'
  <2>1. /\ wire' = Append(wire, [request |-> r]) /\ [request |-> r] \in Frames
        /\ ended' = IF Op[r] = "close" THEN ended \union {Of[r]} ELSE ended
        /\ op' = [op EXCEPT ![r] = "sent"] /\ Of[q] \in Execs
    BY <1>2, ExecAssumption DEF Ask, Frames
  <2>2. /\ DOMAIN wire' = 1..(Len(wire) + 1) /\ DOMAIN wire = 1..Len(wire) /\ Len(wire) \in Nat
        /\ wire'[Len(wire) + 1] = [request |-> r]
        /\ \A i \in DOMAIN wire : /\ wire'[i] = wire[i]
                                  /\ IsChunkOf(i, Of[q])' <=> IsChunkOf(i, Of[q])
    BY <2>1, WireGrows
  <2>3. \A i : i = Len(wire) + 1 => ~IsChunkOf(i, Of[q])'
    BY <2>2 DEF IsChunkOf
  <2>4. [request |-> q] = [request |-> r] => q = r
    <3>1. [request |-> q].request = q /\ [request |-> r].request = r
      OBVIOUS
    <3> QED
      BY <3>1
  <2>5. /\ q = r => op'[q] = "sent" /\ (Op[q] = "close" => Of[q] \in ended')
        /\ q # r => op'[q] = op[q]
        /\ ended \subseteq ended'
    BY <2>1 DEF ExecTyped, ThreadsTyped
  <2> SUFFICES ASSUME Op[q] = "close"
               PROVE  /\ op'[q] # "new" => Of[q] \in ended'
                      /\ op'[q] \in {"run", "drop"} => \A i \in DOMAIN wire' : ~IsChunkOf(i,
                            Of[q])'
                      /\ \A i \in DOMAIN wire' : wire'[i] = [request |-> q] =>
                           /\ op'[q] # "new"
                           /\ \A j \in DOMAIN wire' : i < j => ~IsChunkOf(j, Of[q])'
    BY DEF Closes
  <2>6. /\ op[q] # "new" => Of[q] \in ended
        /\ op[q] \in {"run", "drop"} => \A i \in DOMAIN wire : ~IsChunkOf(i, Of[q])
        /\ \A i \in DOMAIN wire : wire[i] = [request |-> q] =>
             /\ op[q] # "new"
             /\ \A j \in DOMAIN wire : i < j => ~IsChunkOf(j, Of[q])
    BY DEF Closes
  <2>7. op'[q] # "new" => Of[q] \in ended'
    BY <2>5, <2>6
  <2>8. op'[q] \in {"run", "drop"} => \A i \in DOMAIN wire' : ~IsChunkOf(i, Of[q])'
    BY <2>2, <2>3, <2>5, <2>6
  <2>9. ASSUME NEW i \in DOMAIN wire', wire'[i] = [request |-> q]
        PROVE  /\ op'[q] # "new"
               /\ \A j \in DOMAIN wire' : i < j => ~IsChunkOf(j, Of[q])'
    <3>1. CASE i = Len(wire) + 1
      BY <2>2, <2>4, <2>5, <2>9, <3>1
    <3>2. CASE i \in DOMAIN wire
      BY <2>2, <2>3, <2>5, <2>6, <2>9, <3>2
    <3> QED
      BY <2>2, <3>1, <3>2
  <2> QED
    BY <2>7, <2>8, <2>9
<1>3. ASSUME NEW e \in Execs, Acquire(e) PROVE Closes(q)'
  <2>1. UNCHANGED <<wire, ended, op>>
    BY <1>3 DEF Acquire, Launches, client, session, input, supervisor
  <2> QED
    BY <2>1 DEF Closes, IsChunkOf
<1>4. ASSUME NEW e \in Execs, LaunchFails(e) PROVE Closes(q)'
  <2>1. UNCHANGED <<wire, ended, op>>
    BY <1>4 DEF LaunchFails, Launches, client, session, input, supervisor
  <2> QED
    BY <2>1 DEF Closes, IsChunkOf
<1>5. ASSUME NEW e \in Execs, Spawn(e) PROVE Closes(q)'
  <2>1. UNCHANGED <<wire, ended, op>>
    BY <1>5 DEF Spawn, Launches, client, session, tables, input
  <2> QED
    BY <2>1 DEF Closes, IsChunkOf
<1>6. ASSUME NEW e \in Execs, OpenInput(e) PROVE Closes(q)'
  <2>1. UNCHANGED <<wire, ended, op>>
    BY <1>6 DEF OpenInput, Launches, SlotAtLaunch, client, session, supervisor
  <2> QED
    BY <2>1 DEF Closes, IsChunkOf
<1>7. ASSUME NEW e \in Execs, Enter(e) PROVE Closes(q)'
  <2>1. UNCHANGED <<wire, ended, op>>
    BY <1>7 DEF Enter, Launches, client, session, input, supervisor
  <2> QED
    BY <2>1 DEF Closes, IsChunkOf
<1>8. ASSUME NEW e \in Execs, ReplyStarted(e) PROVE Closes(q)'
  <2>1. UNCHANGED <<wire, ended, op>>
    BY <1>8 DEF ReplyStarted, Launches, client, session, tables
  <2> QED
    BY <2>1 DEF Closes, IsChunkOf
<1>9. CASE PoisonChunk
  <2>1. wire # <<>> /\ wire' = Tail(wire) /\ UNCHANGED <<ended, op>>
    BY <1>9 DEF PoisonChunk, IsChunk, Reads, threads
  <2> QED
    BY <2>1, ClosesTail
<1>10. CASE RouteChunk
  <2>1. wire # <<>> /\ wire' = Tail(wire) /\ UNCHANGED <<ended, op>>
    BY <1>10 DEF RouteChunk, IsChunk, Reads, threads
  <2> QED
    BY <2>1, ClosesTail
<1>11. CASE AdmitRequest
  <2>1. /\ wire # <<>> /\ wire' = Tail(wire) /\ UNCHANGED ended
        /\ op' = [op EXCEPT ![Head(wire).request] = "run"]
        /\ "chunk" \notin DOMAIN Head(wire) /\ Head(wire) = wire[1] /\ 1 \in DOMAIN wire
        /\ wire[1] = [request |-> wire[1].request] /\ wire[1].request \in Requests
    BY <1>11, Taken, FrameKinds DEF AdmitRequest, IsChunk, Reads
  <2>2. CASE q = wire[1].request
    <3>1. op'[q] = "run"
      BY <2>1, <2>2 DEF ExecTyped, ThreadsTyped
    <3>2. Op[q] = "close" => /\ Of[q] \in ended
                             /\ \A j \in DOMAIN wire : 1 < j => ~IsChunkOf(j, Of[q])
      BY <2>1, <2>2 DEF Closes
    <3>3. ASSUME Op[q] = "close", NEW i \in DOMAIN wire' PROVE ~IsChunkOf(i, Of[q])'
      <4>1. /\ i + 1 \in DOMAIN wire /\ (IsChunkOf(i, Of[q])' <=> IsChunkOf(i + 1, Of[q]))
            /\ 1 < i + 1
        BY <2>1, <3>3, ExecAssumption, WireShifts
      <4> QED
        BY <3>2, <3>3, <4>1
    <3> QED
      BY <2>1, <3>1, <3>2, <3>3 DEF Closes
  <2>3. CASE q # wire[1].request
    <3>1. op'[q] = op[q]
      BY <2>1, <2>3 DEF ExecTyped, ThreadsTyped
    <3> QED
      BY <2>1, <3>1, ClosesTail
  <2> QED
    BY <2>2, <2>3
<1>12. CASE Leave
  <2>1. UNCHANGED <<wire, ended, op>>
    BY <1>12 DEF Leave, client, tables, input, supervisor, threads
  <2> QED
    BY <2>1 DEF Closes, IsChunkOf
<1>13. ASSUME NEW r \in Requests, CloseRefused(r) PROVE Closes(q)'
  <2>1. UNCHANGED <<wire, ended>>
    BY <1>13 DEF CloseRefused, Runs, client, session, tables, input, supervisor
  <2> QED
    BY <1>13, <2>1 DEF Closes, IsChunkOf, Runs, ExecTyped, ThreadsTyped, CloseRefused
<1>14. ASSUME NEW r \in Requests, CloseFinds(r) PROVE Closes(q)'
  <2>1. UNCHANGED <<wire, ended>>
    BY <1>14 DEF CloseFinds, Runs, client, session, tables, input, supervisor
  <2> QED
    BY <1>14, <2>1 DEF Closes, IsChunkOf, Runs, ExecTyped, ThreadsTyped, CloseFinds
<1>15. ASSUME NEW r \in Requests, CloseDrops(r) PROVE Closes(q)'
  <2>1. UNCHANGED <<wire, ended>>
    BY <1>15 DEF CloseDrops, Runs, client, session, input, supervisor
  <2> QED
    BY <1>15, <2>1 DEF Closes, IsChunkOf, Runs, ExecTyped, ThreadsTyped, CloseDrops
<1>16. ASSUME NEW r \in Requests, Cancel(r) PROVE Closes(q)'
  <2>1. UNCHANGED <<wire, ended>>
    BY <1>16 DEF Cancel, Runs, Revoke, LeaseAfter, client, session, input, supervisor
  <2> QED
    BY <1>16, <2>1 DEF Closes, IsChunkOf, Runs, ExecTyped, ThreadsTyped, Cancel
<1>17. ASSUME NEW r \in Requests, ResizeRefused(r) PROVE Closes(q)'
  <2>1. UNCHANGED <<wire, ended>>
    BY <1>17 DEF ResizeRefused, Runs, client, session, tables, input, supervisor
  <2> QED
    BY <1>17, <2>1 DEF Closes, IsChunkOf, Runs, ExecTyped, ThreadsTyped, ResizeRefused
<1>18. ASSUME NEW r \in Requests, ResizeFinds(r) PROVE Closes(q)'
  <2>1. UNCHANGED <<wire, ended>>
    BY <1>18 DEF ResizeFinds, Runs, client, session, tables, input, supervisor
  <2> QED
    BY <1>18, <2>1 DEF Closes, IsChunkOf, Runs, ExecTyped, ThreadsTyped, ResizeFinds
<1>19. ASSUME NEW r \in Requests, ResizeQueues(r) PROVE Closes(q)'
  <2>1. UNCHANGED <<wire, ended>>
    BY <1>19 DEF ResizeQueues, Runs, Full, Deaf, client, session, tables, supervisor
  <2> QED
    BY <1>19, <2>1 DEF Closes, IsChunkOf, Runs, ExecTyped, ThreadsTyped, ResizeQueues
<1>20. ASSUME NEW r \in Requests, ResizeFails(r) PROVE Closes(q)'
  <2>1. UNCHANGED <<wire, ended>>
    BY <1>20 DEF ResizeFails, Runs, Revoke, LeaseAfter, Full, Deaf, client, session, input,
       supervisor
  <2> QED
    BY <1>20, <2>1 DEF Closes, IsChunkOf, Runs, ExecTyped, ThreadsTyped, ResizeFails
<1>21. ASSUME NEW e \in Execs, RelayTakes(e) PROVE Closes(q)'
  <2>1. UNCHANGED <<wire, ended, op>>
    BY <1>21 DEF RelayTakes, Relays, client, session, tables, supervisor
  <2> QED
    BY <2>1 DEF Closes, IsChunkOf
<1>22. ASSUME NEW e \in Execs, RelayCloses(e) PROVE Closes(q)'
  <2>1. UNCHANGED <<wire, ended, op>>
    BY <1>22 DEF RelayCloses, Relays, Leaves, ChannelOver, Disconnected, Nothing, client,
       session, tables, supervisor
  <2> QED
    BY <2>1 DEF Closes, IsChunkOf
<1>23. ASSUME NEW e \in Execs, ChildReads(e) PROVE Closes(q)'
  <2>1. UNCHANGED <<wire, ended, op>>
    BY <1>23 DEF ChildReads, Relays, Continues, Leaves, IsResize, Nothing, client, session,
       tables, supervisor
  <2> QED
    BY <2>1 DEF Closes, IsChunkOf
<1>24. ASSUME NEW e \in Execs, RelayFails(e) PROVE Closes(q)'
  <2>1. UNCHANGED <<wire, ended, op>>
    BY <1>24 DEF RelayFails, Relays, Leaves, IsResize, Nothing, client, session, tables,
       supervisor
  <2> QED
    BY <2>1 DEF Closes, IsChunkOf
<1>25. ASSUME NEW e \in Execs, RelayResizes(e) PROVE Closes(q)'
  <2>1. /\ UNCHANGED <<wire, ended>> /\ op' = [op EXCEPT ![hand[e].item] = "done"]
        /\ Op[hand[e].item] = "resize"
    BY <1>25 DEF RelayResizes, Relays, IsResize, client, Resizes, IsResizeOf
  <2>2. Op[q] = "close" => op'[q] = op[q]
    BY <2>1 DEF ExecTyped, ThreadsTyped
  <2> QED
    BY <2>1, <2>2 DEF Closes, IsChunkOf
<1>26. ASSUME NEW e \in Execs, ChildExits(e) PROVE Closes(q)'
  <2>1. UNCHANGED <<wire, ended, op>>
    BY <1>26 DEF ChildExits, client, session, tables, input, threads
  <2> QED
    BY <2>1 DEF Closes, IsChunkOf
<1>27. ASSUME NEW e \in Execs, SeesRecord(e) PROVE Closes(q)'
  <2>1. UNCHANGED <<wire, ended, op>>
    BY <1>27 DEF SeesRecord, Supervises, client, session, tables, input, threads
  <2> QED
    BY <2>1 DEF Closes, IsChunkOf
<1>28. ASSUME NEW e \in Execs, SeesRevocation(e) PROVE Closes(q)'
  <2>1. UNCHANGED <<wire, ended, op>>
    BY <1>28 DEF SeesRevocation, Supervises, client, session, tables, input, threads
  <2> QED
    BY <2>1 DEF Closes, IsChunkOf
<1>29. ASSUME NEW e \in Execs, Terminate(e) PROVE Closes(q)'
  <2>1. UNCHANGED <<wire, ended, op>>
    BY <1>29 DEF Terminate, Supervises, DrainOver, client, session, tables, input, threads
  <2> QED
    BY <2>1 DEF Closes, IsChunkOf
<1>30. ASSUME NEW e \in Execs, KillGroup(e) PROVE Closes(q)'
  <2>1. UNCHANGED <<wire, ended, op>>
    BY <1>30 DEF KillGroup, Supervises, GroupAfterKill, client, session, tables, input, threads
  <2> QED
    BY <2>1 DEF Closes, IsChunkOf
<1>31. ASSUME NEW e \in Execs, Reap(e) PROVE Closes(q)'
  <2>1. UNCHANGED <<wire, ended, op>>
    BY <1>31 DEF Reap, Supervises, client, session, input, threads
  <2> QED
    BY <2>1 DEF Closes, IsChunkOf
<1>32. ASSUME NEW e \in Execs, LeaveTable(e) PROVE Closes(q)'
  <2>1. UNCHANGED <<wire, ended, op>>
    BY <1>32 DEF LeaveTable, Supervises, client, session, input, threads
  <2> QED
    BY <2>1 DEF Closes, IsChunkOf
<1>33. ASSUME NEW e \in Execs, DropSlot(e) PROVE Closes(q)'
  <2>1. UNCHANGED <<wire, ended, op>>
    BY <1>33 DEF DropSlot, Supervises, SlotAfterSettle, client, session, input, threads
  <2> QED
    BY <2>1 DEF Closes, IsChunkOf
<1>34. ASSUME NEW e \in Execs, Publish(e) PROVE Closes(q)'
  <2>1. UNCHANGED <<wire, ended, op>>
    BY <1>34 DEF Publish, Supervises, client, session, tables, input, threads
  <2> QED
    BY <2>1 DEF Closes, IsChunkOf
<1>35. CASE Stop
  <2>1. UNCHANGED <<wire, ended, op>>
    BY <1>35 DEF Stop, client, tables, input, supervisor, threads
  <2> QED
    BY <2>1 DEF Closes, IsChunkOf
<1>36. CASE Teardown
  <2>1. UNCHANGED <<wire, ended, op>>
    BY <1>36 DEF Teardown, Revoke, LeaseAfter, client, input, supervisor, threads
  <2> QED
    BY <2>1 DEF Closes, IsChunkOf
<1>37. CASE Exit
  <2>1. UNCHANGED <<wire, ended, op>>
    BY <1>37 DEF Exit, client, tables, input, supervisor, threads
  <2> QED
    BY <2>1 DEF Closes, IsChunkOf
<1>38. CASE UNCHANGED vars
  BY <1>38 DEF vars, Closes, IsChunkOf, client, session, tables, input, supervisor, threads
<1>39. QED
  BY <1>1, <1>2, <1>3, <1>4, <1>5, <1>6, <1>7, <1>8, <1>9, <1>10, <1>11, <1>12, <1>13, <1>14,
     <1>15, <1>16, <1>17, <1>18, <1>19, <1>20, <1>21, <1>22, <1>23, <1>24, <1>25, <1>26, <1>27,
     <1>28, <1>29, <1>30, <1>31, <1>32, <1>33, <1>34, <1>35, <1>36, <1>37, <1>38 DEF Next,
     RequestRuns, LaunchRuns, RelayRuns, SettleRuns

-----------------------------------------------------------------------------
(* A channel to which something was sent.                                  *)
LEMMA QueueGrows ==
  ASSUME ExecTyped, NEW e \in Execs, NEW x \in Items,
         queue' = queue \/ queue' = [queue EXCEPT ![e] = Append(queue[e], x)], NEW d \in Execs
  PROVE  /\ \A i \in DOMAIN queue'[d] :
              \/ i \in DOMAIN queue[d] /\ queue'[d][i] = queue[d][i]
              \/ queue'[d][i] = x /\ d = e /\ i = Len(queue[d]) + 1
         /\ \A i \in DOMAIN queue[d] :
              i \in DOMAIN queue'[d] /\ queue'[d][i] = queue[d][i] /\ i < Len(queue[d]) + 1
         /\ d = e /\ queue' # queue =>
              Len(queue[d]) + 1 \in DOMAIN queue'[d] /\ queue'[d][Len(queue[d]) + 1] = x
<1>1. queue[d] \in Seq(Items) /\ queue[e] \in Seq(Items)
  BY DEF ExecTyped, InputTyped
<1>2. CASE queue'[d] = queue[d] /\ (queue' = queue \/ d # e)
  BY <1>1, <1>2
<1>3. CASE d = e /\ queue'[d] = Append(queue[d], x)
  BY <1>1, <1>3
<1> QED
  BY <1>2, <1>3 DEF ExecTyped, InputTyped

(* Every action keeps resizes to terminals.                                *)
LEMMA ResizesStep == ExecTyped /\ (\A e \in Execs : Lives(e) /\ Relayed(e) /\ Queued(e) /\
   Resizes(e)) /\ [Next]_vars => \A d \in Execs : Resizes(d)'
<1> SUFFICES ASSUME ExecTyped /\ (\A e \in Execs : Lives(e) /\ Relayed(e) /\ Queued(e) /\
   Resizes(e)) /\ [Next]_vars, NEW d \in Execs
             PROVE  Resizes(d)'
  OBVIOUS
<1>1. ASSUME NEW e \in Execs, Feed(e) PROVE Resizes(d)'
  BY <1>1 DEF Feed, Started, Nothing, session, tables, input, supervisor, threads, Resizes,
     IsResizeOf, ExecTyped, InputTyped, ThreadsTyped, Relayed, Queued, Held
<1>2. ASSUME NEW r \in Requests, Ask(r) PROVE Resizes(d)'
  BY <1>2 DEF Ask, Started, Nothing, session, tables, input, supervisor, Resizes, IsResizeOf,
     ExecTyped, InputTyped, ThreadsTyped, Relayed, Queued, Held
<1>3. ASSUME NEW e \in Execs, Acquire(e) PROVE Resizes(d)'
  BY <1>3 DEF Acquire, Launches, Nothing, client, session, input, supervisor, Resizes,
     IsResizeOf, ExecTyped, InputTyped, ThreadsTyped, Relayed, Queued, Held
<1>4. ASSUME NEW e \in Execs, LaunchFails(e) PROVE Resizes(d)'
  BY <1>4 DEF LaunchFails, Launches, Nothing, client, session, input, supervisor, Resizes,
     IsResizeOf, ExecTyped, InputTyped, ThreadsTyped, Relayed, Queued, Held
<1>5. ASSUME NEW e \in Execs, Spawn(e) PROVE Resizes(d)'
  BY <1>5 DEF Spawn, Launches, Nothing, client, session, tables, input, Resizes, IsResizeOf,
     ExecTyped, InputTyped, ThreadsTyped, Relayed, Queued, Held
<1>6. ASSUME NEW e \in Execs, OpenInput(e) PROVE Resizes(d)'
  BY <1>6 DEF OpenInput, Launches, SlotAtLaunch, Nothing, client, session, supervisor, Resizes,
     IsResizeOf, ExecTyped, InputTyped, ThreadsTyped, Relayed, Queued, Held
<1>7. ASSUME NEW e \in Execs, Enter(e) PROVE Resizes(d)'
  BY <1>7 DEF Enter, Launches, Nothing, client, session, input, supervisor, Resizes, IsResizeOf,
     ExecTyped, InputTyped, ThreadsTyped, Relayed, Queued, Held
<1>8. ASSUME NEW e \in Execs, ReplyStarted(e) PROVE Resizes(d)'
  BY <1>8 DEF ReplyStarted, Launches, Nothing, client, session, tables, Resizes, IsResizeOf,
     ExecTyped, InputTyped, ThreadsTyped, Relayed, Queued, Held
<1>9. CASE PoisonChunk
  BY <1>9 DEF PoisonChunk, Reads, IsChunk, Nothing, tables, input, supervisor, threads, Resizes,
     IsResizeOf, ExecTyped, InputTyped, ThreadsTyped, Relayed, Queued, Held
<1>10. CASE RouteChunk
  <2> DEFINE c == Head(wire)
             e == c.chunk
             item == [item |-> c.seq, last |-> c.last]
  <2>1. e \in Execs /\ c.seq \in Nat /\ c.last \in BOOLEAN
    BY <1>10, Taken, FrameKinds DEF RouteChunk, IsChunk, Reads
  <2>2. /\ queue' = queue \/ queue' = [queue EXCEPT ![e] = Append(queue[e], item)]
        /\ UNCHANGED <<hand, op, mode, launch>>
    BY <1>10 DEF RouteChunk, threads
  <2>3. item \in Items /\ item.item \notin Requests
    BY <2>1, ExecAssumption DEF Items
  <2> HIDE DEF item, e, c
  <2>4. \A i \in DOMAIN queue'[d] :
          \/ i \in DOMAIN queue[d] /\ queue'[d][i] = queue[d][i]
          \/ queue'[d][i].item \notin Requests
    BY <2>1, <2>2, <2>3, QueueGrows
  <2> QED
    BY <2>2, <2>4 DEF Resizes, IsResizeOf
<1>11. CASE AdmitRequest
  BY <1>11 DEF AdmitRequest, Stays, Reads, IsChunk, Nothing, tables, input, supervisor, Resizes,
     IsResizeOf, ExecTyped, InputTyped, ThreadsTyped, Relayed, Queued, Held
<1>12. CASE Leave
  BY <1>12 DEF Leave, Nothing, client, tables, input, supervisor, threads, Resizes, IsResizeOf,
     ExecTyped, InputTyped, ThreadsTyped, Relayed, Queued, Held
<1>13. ASSUME NEW r \in Requests, CloseRefused(r) PROVE Resizes(d)'
  BY <1>13 DEF CloseRefused, Runs, Nothing, client, session, tables, input, supervisor, Resizes,
     IsResizeOf, ExecTyped, InputTyped, ThreadsTyped, Relayed, Queued, Held
<1>14. ASSUME NEW r \in Requests, CloseFinds(r) PROVE Resizes(d)'
  BY <1>14 DEF CloseFinds, Runs, Nothing, client, session, tables, input, supervisor, Resizes,
     IsResizeOf, ExecTyped, InputTyped, ThreadsTyped, Relayed, Queued, Held
<1>15. ASSUME NEW r \in Requests, CloseDrops(r) PROVE Resizes(d)'
  BY <1>15 DEF CloseDrops, Runs, Nothing, client, session, input, supervisor, Resizes,
     IsResizeOf, ExecTyped, InputTyped, ThreadsTyped, Relayed, Queued, Held
<1>16. ASSUME NEW r \in Requests, Cancel(r) PROVE Resizes(d)'
  BY <1>16 DEF Cancel, Runs, Revoke, LeaseAfter, Nothing, client, session, input, supervisor,
     Resizes, IsResizeOf, ExecTyped, InputTyped, ThreadsTyped, Relayed, Queued, Held
<1>17. ASSUME NEW r \in Requests, ResizeRefused(r) PROVE Resizes(d)'
  BY <1>17 DEF ResizeRefused, Runs, Nothing, client, session, tables, input, supervisor,
     Resizes, IsResizeOf, ExecTyped, InputTyped, ThreadsTyped, Relayed, Queued, Held
<1>18. ASSUME NEW r \in Requests, ResizeFinds(r) PROVE Resizes(d)'
  <2>1. /\ op' = [op EXCEPT ![r] = "send"] /\ Of[r] \in entries /\ mode[Of[r]] = "pty"
        /\ UNCHANGED <<hand, queue, mode, launch>> /\ Of[r] \in Execs
    BY <1>18, ExecAssumption DEF ResizeFinds, Runs, input
  <2>2. launch[Of[r]] # "new"
    BY <2>1 DEF Lives
  <2>3. \A x \in Requests : op'[x] = "send" => op[x] = "send" \/ x = r
    BY <2>1 DEF ExecTyped, ThreadsTyped
  <2> QED
    BY <2>1, <2>2, <2>3 DEF Resizes, IsResizeOf
<1>19. ASSUME NEW r \in Requests, ResizeQueues(r) PROVE Resizes(d)'
  <2> DEFINE item == [item |-> r, last |-> FALSE]
  <2>1. /\ queue' = [queue EXCEPT ![Of[r]] = Append(queue[Of[r]], item)]
        /\ UNCHANGED <<hand, mode, launch>> /\ op' = [op EXCEPT ![r] = "queued"]
        /\ Op[r] = "resize" /\ op[r] = "send"
    BY <1>19 DEF ResizeQueues, Runs
  <2>2. item \in Items /\ item.item = r /\ Of[r] \in Execs
    BY ExecAssumption DEF Items
  <2>3. IsResizeOf(r, Of[r])
    BY <2>1, <2>2 DEF Resizes, IsResizeOf
  <2> HIDE DEF item
  <2>4. \A i \in DOMAIN queue'[d] :
          \/ i \in DOMAIN queue[d] /\ queue'[d][i] = queue[d][i]
          \/ queue'[d][i] = item /\ d = Of[r]
    BY <2>1, <2>2, QueueGrows
  <2>5. \A x \in Requests : op'[x] = "send" => op[x] = "send"
    BY <2>1 DEF ExecTyped, ThreadsTyped
  <2> QED
    BY <2>1, <2>2, <2>3, <2>4, <2>5 DEF Resizes, IsResizeOf
<1>20. ASSUME NEW r \in Requests, ResizeFails(r) PROVE Resizes(d)'
  BY <1>20 DEF ResizeFails, Runs, Revoke, LeaseAfter, Full, Deaf, Nothing, client, session,
     input, supervisor, Resizes, IsResizeOf, ExecTyped, InputTyped, ThreadsTyped, Relayed,
     Queued, Held
<1>21. ASSUME NEW e \in Execs, RelayTakes(e) PROVE Resizes(d)'
  <2>1. /\ queue[e] # <<>> /\ hand' = [hand EXCEPT ![e] = Head(queue[e])]
        /\ queue' = [queue EXCEPT ![e] = Tail(queue[e])] /\ UNCHANGED <<op, mode, launch>>
    BY <1>21 DEF RelayTakes, Relays
  <2>2. /\ 1 \in DOMAIN queue[e] /\ Head(queue[e]) = queue[e][1]
        /\ \A i \in DOMAIN Tail(queue[e]) : i + 1 \in DOMAIN queue[e] /\ Tail(queue[e])[i] =
              queue[e][i + 1]
    BY <2>1 DEF ExecTyped, InputTyped
  <2>3. /\ d # e => hand'[d] = hand[d] /\ queue'[d] = queue[d]
        /\ d = e => hand'[d] = queue[d][1] /\ queue'[d] = Tail(queue[d])
    BY <2>1, <2>2 DEF ExecTyped, InputTyped
  <2> QED
    BY <2>1, <2>2, <2>3 DEF Resizes, IsResizeOf
<1>22. ASSUME NEW e \in Execs, RelayCloses(e) PROVE Resizes(d)'
  <2>1. Leaves(e)
    BY <1>22 DEF RelayCloses
  <2>2. /\ hand'[e] = Nothing /\ queue'[e] \in {<<>>, queue[e]}
        /\ d # e => hand'[d] = hand[d] /\ queue'[d] = queue[d]
    BY <2>1, RelayTyped
  <2>3. /\ UNCHANGED <<mode, launch>> /\ Nothing.item \notin Requests
        /\ \A x \in Requests : op'[x] = "send" => op[x] = "send"
    BY <1>22, ExecAssumption DEF RelayCloses, Relays, Nothing, ExecTyped, ThreadsTyped
  <2> QED
    BY <2>2, <2>3 DEF Resizes, IsResizeOf
<1>23. ASSUME NEW e \in Execs, ChildReads(e) PROVE Resizes(d)'
  <2>1. Leaves(e) \/ Continues(e, TRUE) \/ Continues(e, FALSE)
    BY <1>23 DEF ChildReads, Continues
  <2>2. /\ hand'[e] = Nothing /\ queue'[e] \in {<<>>, queue[e]}
        /\ d # e => hand'[d] = hand[d] /\ queue'[d] = queue[d]
    BY <2>1, RelayTyped
  <2>3. /\ UNCHANGED <<mode, launch>> /\ Nothing.item \notin Requests
        /\ \A x \in Requests : op'[x] = "send" => op[x] = "send"
    BY <1>23, ExecAssumption DEF ChildReads, Relays, Nothing, ExecTyped, ThreadsTyped
  <2> QED
    BY <2>2, <2>3 DEF Resizes, IsResizeOf
<1>24. ASSUME NEW e \in Execs, RelayFails(e) PROVE Resizes(d)'
  <2>1. Leaves(e)
    BY <1>24 DEF RelayFails
  <2>2. /\ hand'[e] = Nothing /\ queue'[e] \in {<<>>, queue[e]}
        /\ d # e => hand'[d] = hand[d] /\ queue'[d] = queue[d]
    BY <2>1, RelayTyped
  <2>3. /\ UNCHANGED <<mode, launch>> /\ Nothing.item \notin Requests
        /\ \A x \in Requests : op'[x] = "send" => op[x] = "send"
    BY <1>24, ExecAssumption DEF RelayFails, Relays, Nothing, ExecTyped, ThreadsTyped
  <2> QED
    BY <2>2, <2>3 DEF Resizes, IsResizeOf
<1>25. ASSUME NEW e \in Execs, RelayResizes(e) PROVE Resizes(d)'
  <2>1. Leaves(e) \/ Continues(e, TRUE) \/ Continues(e, FALSE)
    BY <1>25 DEF RelayResizes, Continues
  <2>2. /\ hand'[e] = Nothing /\ queue'[e] \in {<<>>, queue[e]}
        /\ d # e => hand'[d] = hand[d] /\ queue'[d] = queue[d]
    BY <2>1, RelayTyped
  <2>3. /\ UNCHANGED <<mode, launch>> /\ Nothing.item \notin Requests
        /\ \A x \in Requests : op'[x] = "send" => op[x] = "send"
    BY <1>25, ExecAssumption DEF RelayResizes, Relays, Nothing, ExecTyped, ThreadsTyped
  <2> QED
    BY <2>2, <2>3 DEF Resizes, IsResizeOf
<1>26. ASSUME NEW e \in Execs, ChildExits(e) PROVE Resizes(d)'
  BY <1>26 DEF ChildExits, Nothing, client, session, tables, input, threads, Resizes,
     IsResizeOf, ExecTyped, InputTyped, ThreadsTyped, Relayed, Queued, Held
<1>27. ASSUME NEW e \in Execs, SeesRecord(e) PROVE Resizes(d)'
  BY <1>27 DEF SeesRecord, Supervises, Nothing, client, session, tables, input, threads,
     Resizes, IsResizeOf, ExecTyped, InputTyped, ThreadsTyped, Relayed, Queued, Held
<1>28. ASSUME NEW e \in Execs, SeesRevocation(e) PROVE Resizes(d)'
  BY <1>28 DEF SeesRevocation, Supervises, Nothing, client, session, tables, input, threads,
     Resizes, IsResizeOf, ExecTyped, InputTyped, ThreadsTyped, Relayed, Queued, Held
<1>29. ASSUME NEW e \in Execs, Terminate(e) PROVE Resizes(d)'
  BY <1>29 DEF Terminate, Supervises, DrainOver, Nothing, client, session, tables, input,
     threads, Resizes, IsResizeOf, ExecTyped, InputTyped, ThreadsTyped, Relayed, Queued, Held
<1>30. ASSUME NEW e \in Execs, KillGroup(e) PROVE Resizes(d)'
  BY <1>30 DEF KillGroup, Supervises, GroupAfterKill, Nothing, client, session, tables, input,
     threads, Resizes, IsResizeOf, ExecTyped, InputTyped, ThreadsTyped, Relayed, Queued, Held
<1>31. ASSUME NEW e \in Execs, Reap(e) PROVE Resizes(d)'
  BY <1>31 DEF Reap, Supervises, Nothing, client, session, input, threads, Resizes, IsResizeOf,
     ExecTyped, InputTyped, ThreadsTyped, Relayed, Queued, Held
<1>32. ASSUME NEW e \in Execs, LeaveTable(e) PROVE Resizes(d)'
  BY <1>32 DEF LeaveTable, Supervises, Nothing, client, session, input, threads, Resizes,
     IsResizeOf, ExecTyped, InputTyped, ThreadsTyped, Relayed, Queued, Held
<1>33. ASSUME NEW e \in Execs, DropSlot(e) PROVE Resizes(d)'
  BY <1>33 DEF DropSlot, Supervises, SlotAfterSettle, Nothing, client, session, input, threads,
     Resizes, IsResizeOf, ExecTyped, InputTyped, ThreadsTyped, Relayed, Queued, Held
<1>34. ASSUME NEW e \in Execs, Publish(e) PROVE Resizes(d)'
  BY <1>34 DEF Publish, Supervises, Nothing, client, session, tables, input, threads, Resizes,
     IsResizeOf, ExecTyped, InputTyped, ThreadsTyped, Relayed, Queued, Held
<1>35. CASE Stop
  BY <1>35 DEF Stop, Nothing, client, tables, input, supervisor, threads, Resizes, IsResizeOf,
     ExecTyped, InputTyped, ThreadsTyped, Relayed, Queued, Held
<1>36. CASE Teardown
  BY <1>36 DEF Teardown, Revoke, LeaseAfter, Nothing, client, input, supervisor, threads,
     Resizes, IsResizeOf, ExecTyped, InputTyped, ThreadsTyped, Relayed, Queued, Held
<1>37. CASE Exit
  BY <1>37 DEF Exit, Nothing, client, tables, input, supervisor, threads, Resizes, IsResizeOf,
     ExecTyped, InputTyped, ThreadsTyped, Relayed, Queued, Held
<1>38. CASE UNCHANGED vars
  BY <1>38 DEF vars, Resizes, IsResizeOf, ExecTyped, InputTyped, ThreadsTyped, Relayed, Queued,
     Held, client, session, tables, input, supervisor, threads
<1>39. QED
  BY <1>1, <1>2, <1>3, <1>4, <1>5, <1>6, <1>7, <1>8, <1>9, <1>10, <1>11, <1>12, <1>13, <1>14,
     <1>15, <1>16, <1>17, <1>18, <1>19, <1>20, <1>21, <1>22, <1>23, <1>24, <1>25, <1>26, <1>27,
     <1>28, <1>29, <1>30, <1>31, <1>32, <1>33, <1>34, <1>35, <1>36, <1>37, <1>38 DEF Next,
     RequestRuns, LaunchRuns, RelayRuns, SettleRuns

(* Only a chunk whose slot was lost poisons the session.                   *)
LEMMA PoisonStep == ExecTyped /\ (\A e \in Execs : Slots(e) /\ Wired(e)) /\ PoisonIsLate /\
   [Next]_vars => PoisonIsLate'
<1> SUFFICES ASSUME ExecTyped /\ (\A e \in Execs : Slots(e) /\ Wired(e)) /\ PoisonIsLate /\
   [Next]_vars PROVE PoisonIsLate'
  OBVIOUS
<1>1. ASSUME NEW e \in Execs, Feed(e) PROVE PoisonIsLate'
  BY <1>1 DEF Feed, Started, session, tables, input, supervisor, threads, PoisonIsLate,
     ExecTyped, TablesTyped, ThreadsTyped
<1>2. ASSUME NEW r \in Requests, Ask(r) PROVE PoisonIsLate'
  BY <1>2 DEF Ask, Started, session, tables, input, supervisor, PoisonIsLate, ExecTyped,
     TablesTyped, ThreadsTyped
<1>3. ASSUME NEW e \in Execs, Acquire(e) PROVE PoisonIsLate'
  BY <1>3 DEF Acquire, Launches, client, session, input, supervisor, PoisonIsLate, ExecTyped,
     TablesTyped, ThreadsTyped
<1>4. ASSUME NEW e \in Execs, LaunchFails(e) PROVE PoisonIsLate'
  BY <1>4 DEF LaunchFails, Launches, client, session, input, supervisor, PoisonIsLate,
     ExecTyped, TablesTyped, ThreadsTyped
<1>5. ASSUME NEW e \in Execs, Spawn(e) PROVE PoisonIsLate'
  BY <1>5 DEF Spawn, Launches, client, session, tables, input, PoisonIsLate, ExecTyped,
     TablesTyped, ThreadsTyped
<1>6. ASSUME NEW e \in Execs, OpenInput(e) PROVE PoisonIsLate'
  BY <1>6 DEF OpenInput, Launches, SlotAtLaunch, client, session, supervisor, PoisonIsLate,
     ExecTyped, TablesTyped, ThreadsTyped
<1>7. ASSUME NEW e \in Execs, Enter(e) PROVE PoisonIsLate'
  BY <1>7 DEF Enter, Launches, client, session, input, supervisor, PoisonIsLate, ExecTyped,
     TablesTyped, ThreadsTyped
<1>8. ASSUME NEW e \in Execs, ReplyStarted(e) PROVE PoisonIsLate'
  BY <1>8 DEF ReplyStarted, Launches, client, session, tables, PoisonIsLate, ExecTyped,
     TablesTyped, ThreadsTyped
<1>9. CASE PoisonChunk
  <2> DEFINE c == Head(wire)
             e == c.chunk
  <2>1. c = wire[1] /\ 1 \in DOMAIN wire /\ IsChunkOf(1, e) /\ e \in Execs /\ wire # <<>>
    BY <1>9, Taken, FrameKinds DEF PoisonChunk, IsChunk, Reads, IsChunkOf
  <2>2. /\ e \notin inbound \/ c.seq # next[e]
        /\ poison' = e /\ UNCHANGED dropped
    BY <1>9 DEF PoisonChunk, tables
  <2>3. Fed(e) /\ (e \in inbound => dropped[e] = "no")
    BY <2>1 DEF Wired, Slots
  <2>4. dropped[e] # "no"
    BY <2>1, <2>2, <2>3, HeadIsNext DEF Fed
  <2> HIDE DEF e, c
  <2> QED
    BY <2>1, <2>2, <2>4 DEF PoisonIsLate, ExecTyped, TablesTyped
<1>10. CASE RouteChunk
  <2> DEFINE c == Head(wire)
             e == c.chunk
  <2>1. c = wire[1] /\ 1 \in DOMAIN wire /\ IsChunkOf(1, e) /\ e \in Execs /\ wire # <<>>
    BY <1>10, Taken, FrameKinds DEF RouteChunk, IsChunk, Reads, IsChunkOf
  <2>2. /\ UNCHANGED poison
        /\ dropped' = dropped \/ dropped' = [dropped EXCEPT ![e] = "pressure"]
    BY <1>10 DEF RouteChunk, Stays
  <2> HIDE DEF e, c
  <2> QED
    BY <2>1, <2>2 DEF PoisonIsLate, ExecTyped, TablesTyped, ThreadsTyped
<1>11. CASE AdmitRequest
  BY <1>11 DEF AdmitRequest, Stays, Reads, IsChunk, tables, input, supervisor, PoisonIsLate,
     ExecTyped, TablesTyped, ThreadsTyped
<1>12. CASE Leave
  BY <1>12 DEF Leave, client, tables, input, supervisor, threads, PoisonIsLate, ExecTyped,
     TablesTyped, ThreadsTyped
<1>13. ASSUME NEW r \in Requests, CloseRefused(r) PROVE PoisonIsLate'
  BY <1>13 DEF CloseRefused, Runs, client, session, tables, input, supervisor, PoisonIsLate,
     ExecTyped, TablesTyped, ThreadsTyped
<1>14. ASSUME NEW r \in Requests, CloseFinds(r) PROVE PoisonIsLate'
  BY <1>14 DEF CloseFinds, Runs, client, session, tables, input, supervisor, PoisonIsLate,
     ExecTyped, TablesTyped, ThreadsTyped
<1>15. ASSUME NEW r \in Requests, CloseDrops(r) PROVE PoisonIsLate'
  BY <1>15 DEF CloseDrops, Runs, client, session, input, supervisor, PoisonIsLate, ExecTyped,
     TablesTyped, ThreadsTyped
<1>16. ASSUME NEW r \in Requests, Cancel(r) PROVE PoisonIsLate'
  BY <1>16 DEF Cancel, Runs, Revoke, LeaseAfter, client, session, input, supervisor,
     PoisonIsLate, ExecTyped, TablesTyped, ThreadsTyped
<1>17. ASSUME NEW r \in Requests, ResizeRefused(r) PROVE PoisonIsLate'
  BY <1>17 DEF ResizeRefused, Runs, client, session, tables, input, supervisor, PoisonIsLate,
     ExecTyped, TablesTyped, ThreadsTyped
<1>18. ASSUME NEW r \in Requests, ResizeFinds(r) PROVE PoisonIsLate'
  BY <1>18 DEF ResizeFinds, Runs, client, session, tables, input, supervisor, PoisonIsLate,
     ExecTyped, TablesTyped, ThreadsTyped
<1>19. ASSUME NEW r \in Requests, ResizeQueues(r) PROVE PoisonIsLate'
  BY <1>19 DEF ResizeQueues, Runs, Full, Deaf, client, session, tables, supervisor,
     PoisonIsLate, ExecTyped, TablesTyped, ThreadsTyped
<1>20. ASSUME NEW r \in Requests, ResizeFails(r) PROVE PoisonIsLate'
  BY <1>20 DEF ResizeFails, Runs, Revoke, LeaseAfter, Full, Deaf, client, session, input,
     supervisor, PoisonIsLate, ExecTyped, TablesTyped, ThreadsTyped
<1>21. ASSUME NEW e \in Execs, RelayTakes(e) PROVE PoisonIsLate'
  BY <1>21 DEF RelayTakes, Relays, client, session, tables, supervisor, PoisonIsLate, ExecTyped,
     TablesTyped, ThreadsTyped
<1>22. ASSUME NEW e \in Execs, RelayCloses(e) PROVE PoisonIsLate'
  BY <1>22 DEF RelayCloses, Relays, Leaves, ChannelOver, Disconnected, Nothing, client, session,
     tables, supervisor, PoisonIsLate, ExecTyped, TablesTyped, ThreadsTyped
<1>23. ASSUME NEW e \in Execs, ChildReads(e) PROVE PoisonIsLate'
  BY <1>23 DEF ChildReads, Relays, Continues, Leaves, IsResize, Nothing, client, session,
     tables, supervisor, PoisonIsLate, ExecTyped, TablesTyped, ThreadsTyped
<1>24. ASSUME NEW e \in Execs, RelayFails(e) PROVE PoisonIsLate'
  BY <1>24 DEF RelayFails, Relays, Leaves, IsResize, Nothing, client, session, tables,
     supervisor, PoisonIsLate, ExecTyped, TablesTyped, ThreadsTyped
<1>25. ASSUME NEW e \in Execs, RelayResizes(e) PROVE PoisonIsLate'
  BY <1>25 DEF RelayResizes, Relays, Continues, Leaves, IsResize, Nothing, client, session,
     tables, supervisor, PoisonIsLate, ExecTyped, TablesTyped, ThreadsTyped
<1>26. ASSUME NEW e \in Execs, ChildExits(e) PROVE PoisonIsLate'
  BY <1>26 DEF ChildExits, client, session, tables, input, threads, PoisonIsLate, ExecTyped,
     TablesTyped, ThreadsTyped
<1>27. ASSUME NEW e \in Execs, SeesRecord(e) PROVE PoisonIsLate'
  BY <1>27 DEF SeesRecord, Supervises, client, session, tables, input, threads, PoisonIsLate,
     ExecTyped, TablesTyped, ThreadsTyped
<1>28. ASSUME NEW e \in Execs, SeesRevocation(e) PROVE PoisonIsLate'
  BY <1>28 DEF SeesRevocation, Supervises, client, session, tables, input, threads,
     PoisonIsLate, ExecTyped, TablesTyped, ThreadsTyped
<1>29. ASSUME NEW e \in Execs, Terminate(e) PROVE PoisonIsLate'
  BY <1>29 DEF Terminate, Supervises, DrainOver, client, session, tables, input, threads,
     PoisonIsLate, ExecTyped, TablesTyped, ThreadsTyped
<1>30. ASSUME NEW e \in Execs, KillGroup(e) PROVE PoisonIsLate'
  BY <1>30 DEF KillGroup, Supervises, GroupAfterKill, client, session, tables, input, threads,
     PoisonIsLate, ExecTyped, TablesTyped, ThreadsTyped
<1>31. ASSUME NEW e \in Execs, Reap(e) PROVE PoisonIsLate'
  BY <1>31 DEF Reap, Supervises, client, session, input, threads, PoisonIsLate, ExecTyped,
     TablesTyped, ThreadsTyped
<1>32. ASSUME NEW e \in Execs, LeaveTable(e) PROVE PoisonIsLate'
  BY <1>32 DEF LeaveTable, Supervises, client, session, input, threads, PoisonIsLate, ExecTyped,
     TablesTyped, ThreadsTyped
<1>33. ASSUME NEW e \in Execs, DropSlot(e) PROVE PoisonIsLate'
  BY <1>33 DEF DropSlot, Supervises, SlotAfterSettle, client, session, input, threads,
     PoisonIsLate, ExecTyped, TablesTyped, ThreadsTyped
<1>34. ASSUME NEW e \in Execs, Publish(e) PROVE PoisonIsLate'
  BY <1>34 DEF Publish, Supervises, client, session, tables, input, threads, PoisonIsLate,
     ExecTyped, TablesTyped, ThreadsTyped
<1>35. CASE Stop
  BY <1>35 DEF Stop, client, tables, input, supervisor, threads, PoisonIsLate, ExecTyped,
     TablesTyped, ThreadsTyped
<1>36. CASE Teardown
  BY <1>36 DEF Teardown, Revoke, LeaseAfter, client, input, supervisor, threads, PoisonIsLate,
     ExecTyped, TablesTyped, ThreadsTyped
<1>37. CASE Exit
  BY <1>37 DEF Exit, client, tables, input, supervisor, threads, PoisonIsLate, ExecTyped,
     TablesTyped, ThreadsTyped
<1>38. CASE UNCHANGED vars
  BY <1>38 DEF vars, PoisonIsLate, ExecTyped, TablesTyped, ThreadsTyped, client, session,
     tables, input, supervisor, threads
<1>39. QED
  BY <1>1, <1>2, <1>3, <1>4, <1>5, <1>6, <1>7, <1>8, <1>9, <1>10, <1>11, <1>12, <1>13, <1>14,
     <1>15, <1>16, <1>17, <1>18, <1>19, <1>20, <1>21, <1>22, <1>23, <1>24, <1>25, <1>26, <1>27,
     <1>28, <1>29, <1>30, <1>31, <1>32, <1>33, <1>34, <1>35, <1>36, <1>37, <1>38 DEF Next,
     RequestRuns, LaunchRuns, RelayRuns, SettleRuns

-----------------------------------------------------------------------------
(* The chunks of an exec under way stay so when nothing is queued or taken.*)
LEMMA QueuedKept ==
  ASSUME NEW d \in Execs, Queued(d),
         queue'[d] = queue[d] /\ hand'[d] = hand[d] /\ got'[d] = got[d] /\ next'[d] = next[d],
         relay'[d] = relay[d] \/ (relay[d] = "none" /\ relay'[d] = "recv"),
         dropped'[d] = "no" => dropped[d] = "no",
         d \in ended => d \in ended' /\ fed'[d] = fed[d]
  PROVE  Queued(d)'
<1>1. Base(d)' = Base(d)
  BY DEF Base
<1> QED
  BY <1>1 DEF Queued, Held, InOrder, NoGap

(* They stay so when the relay has written what it held, or leaves.        *)
LEMMA QueuedWritten ==
  ASSUME ExecTyped, NEW d \in Execs, Queued(d), hand'[d] = Nothing,
         UNCHANGED <<next, dropped, ended, fed>>,
         \/ relay'[d] = "gone" /\ queue'[d] = <<>>
         \/ relay'[d] = "recv" /\ queue'[d] = queue[d] /\ relay[d] # "gone" /\ Base(d)' =
               Base(d)
  PROVE  Queued(d)'
<1>1. Nothing.item \notin Nat
  BY DEF Nothing
<1>2. CASE relay'[d] = "gone" /\ queue'[d] = <<>>
  BY <1>1, <1>2 DEF Queued, Held, InOrder, NoGap
<1>3. CASE relay'[d] = "recv" /\ queue'[d] = queue[d] /\ relay[d] # "gone" /\ Base(d)' = Base(d)
  BY <1>1, <1>3 DEF Queued, Held, InOrder, NoGap
<1> QED
  BY <1>2, <1>3

(* What the relay holds, and where the queue begins.                       *)
LEMMA BaseTyped ==
  ASSUME ExecTyped, NEW d \in Execs
  PROVE  /\ Len(got[d]) \in Nat /\ Base(d) \in Nat /\ next[d] \in Nat /\ fed[d] \in Nat
         /\ hand[d].item \in Requests \union Nat \union {-1}
         /\ hand[d].item \in Nat => Base(d) = Len(got[d]) + 1
         /\ hand[d].item \notin Nat => Base(d) = Len(got[d])
         /\ queue[d] \in Seq(Items)
         /\ \A i \in DOMAIN queue[d] : queue[d][i].item \in Requests \union Nat \union {-1}
<1>1. hand[d] \in Items /\ got[d] \in Seq(Int) /\ queue[d] \in Seq(Items)
  BY DEF ExecTyped, InputTyped
<1>2. hand[d].item \in Requests \union Nat \union {-1}
  BY <1>1 DEF Items
<1>3. ASSUME NEW i \in DOMAIN queue[d]
      PROVE  queue[d][i].item \in Requests \union Nat \union {-1}
  <2>1. queue[d][i] \in Items
    BY <1>1
  <2> QED
    BY <2>1 DEF Items
<1>4. Len(got[d]) \in Nat /\ next[d] \in Nat /\ fed[d] \in Nat
  BY <1>1 DEF ExecTyped, ClientTyped, TablesTyped
<1>5. CASE hand[d].item \in Nat
  <2>1. Base(d) = Len(got[d]) + 1
    BY <1>5 DEF Base
  <2> QED
    BY <1>1, <1>2, <1>3, <1>4, <1>5, <2>1
<1>6. CASE hand[d].item \notin Nat
  <2>1. Base(d) = Len(got[d]) + 0
    BY <1>6 DEF Base
  <2> QED
    BY <1>1, <1>2, <1>3, <1>4, <1>6, <2>1
<1> QED
  BY <1>5, <1>6

(* The relay takes the chunk that the child reads next, or a resize.       *)
LEMMA QueuedTaken ==
  ASSUME ExecTyped, NEW d \in Execs, Queued(d), relay[d] = "recv", relay'[d] = "write",
         queue[d] # <<>>, hand'[d] = Head(queue[d]), queue'[d] = Tail(queue[d]),
         got'[d] = got[d], UNCHANGED <<next, dropped, ended, fed>>
  PROVE  Queued(d)'
<1> DEFINE h == queue[d][1]
<1>1. /\ 1 \in DOMAIN queue[d] /\ Head(queue[d]) = h
      /\ \A i \in DOMAIN Tail(queue[d]) : i + 1 \in DOMAIN queue[d] /\ Tail(queue[d])[i] =
            queue[d][i + 1]
      /\ \A k \in DOMAIN queue[d] : k = 1 \/ (k - 1 \in DOMAIN Tail(queue[d]) /\ (k - 1) + 1 =
            k)
      /\ DOMAIN queue[d] \subseteq Nat /\ \A k \in DOMAIN queue[d] : k = 1 \/ 1 < k
      /\ DOMAIN Tail(queue[d]) \subseteq Nat
  BY DEF ExecTyped, InputTyped
<1>2. /\ hand[d] = Nothing /\ Nothing.item \notin Nat /\ Len(got[d]) \in Nat
      /\ Base(d) = Len(got[d]) /\ next[d] \in Nat /\ fed[d] \in Nat
  BY BaseTyped DEF Queued, Held, InOrder, NoGap, Nothing
<1>3. h.item \in Requests \union Nat
  BY <1>1, BaseTyped DEF Queued, Held, InOrder, NoGap
<1>4. hand'[d] = h /\ Base(d)' = Len(got[d]) + IF h.item \in Nat THEN 1 ELSE 0
  BY <1>1 DEF Base
<1>5. h.item \in Nat => h.item = Len(got[d])
  <2> SUFFICES ASSUME h.item \in Nat PROVE h.item = Len(got[d])
    OBVIOUS
  <2>1. h.item \in Base(d)..(next[d] - 1)
    BY <1>1 DEF Queued, Held, InOrder, NoGap
  <2>2. \A n \in Base(d)..h.item : \E k \in DOMAIN queue[d] : queue[d][k].item = n
    BY <1>1 DEF Queued, Held, InOrder, NoGap
  <2>3. Base(d) \in Base(d)..h.item
    BY <1>2, <2>1
  <2>4. PICK k \in DOMAIN queue[d] : queue[d][k].item = Base(d)
    BY <2>2, <2>3
  <2>5. 1 < k => h.item < Base(d)
    BY <1>1, <1>2, <2>4 DEF Queued, Held, InOrder, NoGap
  <2> QED
    BY <1>1, <1>2, <2>1, <2>4, <2>5
<1> DEFINE q == Tail(queue[d])
           base == Base(d)'
<1>6. base \in Nat /\ Len(got[d]) <= base /\ (h.item \in Nat => base = h.item + 1)
      /\ (h.item \notin Nat => base = Len(got[d]))
  <2>1. CASE h.item \in Nat
    <3>1. base = Len(got[d]) + 1
      BY <1>4, <2>1
    <3> QED
      BY <1>2, <1>5, <2>1, <3>1
  <2>2. CASE h.item \notin Nat
    <3>1. base = Len(got[d]) + 0
      BY <1>4, <2>2
    <3> QED
      BY <1>2, <2>2, <3>1
  <2> QED
    BY <2>1, <2>2
<1>7. queue'[d] = q /\ \A i \in DOMAIN q : i \in Nat /\ i + 1 \in DOMAIN queue[d] /\ q[i] =
   queue[d][i + 1]
  BY <1>1
<1>8. \A k \in DOMAIN queue[d] : queue[d][k].item \in Nat /\ queue[d][k].item # h.item =>
        \E i \in DOMAIN q : q[i] = queue[d][k]
  BY <1>1
<1> HIDE DEF q, base, h
<1>9. ASSUME NEW i \in DOMAIN q, q[i].item \in Nat
      PROVE  /\ q[i].item \in base..(next[d] - 1)
             /\ \A j \in DOMAIN q : q[j].item \in Nat /\ i < j => q[i].item < q[j].item
             /\ \A n \in base..q[i].item : \E k \in DOMAIN q : q[k].item = n
             /\ q[i].last => d \in ended /\ q[i].item = fed[d] - 1
  <2>1. i \in Nat /\ i + 1 \in DOMAIN queue[d] /\ q[i] = queue[d][i + 1] /\ 1 < i + 1
    BY <1>7
  <2>2. /\ q[i].item \in Base(d)..(next[d] - 1)
        /\ \A j \in DOMAIN queue[d] : queue[d][j].item \in Nat /\ i + 1 < j => q[i].item <
              queue[d][j].item
        /\ \A n \in Base(d)..q[i].item : \E k \in DOMAIN queue[d] : queue[d][k].item = n
        /\ q[i].last => d \in ended /\ q[i].item = fed[d] - 1
    BY <1>9, <2>1 DEF Queued, Held, InOrder, NoGap
  <2>3. h.item \in Nat => h.item < q[i].item
    BY <1>1, <1>9, <2>1 DEF Queued, Held, InOrder, NoGap, h
  <2>4. q[i].item \in base..(next[d] - 1)
    BY <1>2, <1>6, <2>2, <2>3, <1>9
  <2>5. ASSUME NEW j \in DOMAIN q, q[j].item \in Nat, i < j PROVE q[i].item < q[j].item
    <3>1. j + 1 \in DOMAIN queue[d] /\ i + 1 < j + 1 /\ q[j] = queue[d][j + 1]
      BY <1>7, <2>1, <2>5
    <3> QED
      BY <2>2, <2>5, <3>1
  <2>6. ASSUME NEW n \in base..q[i].item PROVE \E k \in DOMAIN q : q[k].item = n
    <3>1. n \in Base(d)..q[i].item /\ n # h.item /\ n \in Nat
      BY <1>2, <1>3, <1>6, <2>6, ExecAssumption
    <3>2. PICK k \in DOMAIN queue[d] : queue[d][k].item = n
      BY <2>2, <3>1
    <3> QED
      BY <1>8, <3>1, <3>2
  <2> QED
    BY <2>2, <2>4, <2>5, <2>6
<1>10. ASSUME dropped[d] = "no"
       PROVE  base <= next[d] /\ \A n \in base..(next[d] - 1) : \E k \in DOMAIN q : q[k].item =
          n
  <2>1. Base(d) <= next[d] /\ \A n \in Base(d)..(next[d] - 1) : \E k \in DOMAIN queue[d] :
     queue[d][k].item = n
    BY <1>10 DEF Queued, Held, InOrder, NoGap
  <2>2. h.item \in Nat => h.item \in Base(d)..(next[d] - 1)
    BY <1>1 DEF Queued, Held, InOrder, NoGap, h
  <2>3. ASSUME NEW n \in base..(next[d] - 1) PROVE \E k \in DOMAIN q : q[k].item = n
    <3>1. n \in Base(d)..(next[d] - 1) /\ n # h.item /\ n \in Nat
      BY <1>2, <1>3, <1>6, <2>3, ExecAssumption
    <3>2. PICK k \in DOMAIN queue[d] : queue[d][k].item = n
      BY <2>1, <3>1
    <3> QED
      BY <1>8, <3>1, <3>2
  <2> QED
    BY <1>2, <1>6, <2>1, <2>2, <2>3
<1>11. /\ h.item \in Nat /\ h.last => d \in ended /\ h.item = fed[d] - 1
       /\ \A i \in DOMAIN q : q[i].item # -1
  BY <1>1, <1>7 DEF Queued, Held, InOrder, NoGap, h
<1>12. h.item \in Requests \union {Len(got[d])}
  BY <1>3, <1>5
<1>13. /\ relay'[d] # "write" => hand'[d] = Nothing
       /\ relay'[d] = "write" => hand'[d].item \in Requests \union {Len(got'[d])}
       /\ relay'[d] = "gone" => queue'[d] = <<>>
       /\ hand'[d].item \in Nat /\ hand'[d].last => d \in ended' /\ hand'[d].item = fed'[d] - 1
  BY <1>4, <1>11, <1>12
<1>14. /\ UNCHANGED <<next, dropped, ended, fed>> /\ base = Base(d)'
       /\ \A i \in DOMAIN q : q[i].item # -1
  BY <1>11 DEF base
<1> QED
  <2>1. Held(d)'
    BY <1>7, <1>13, <1>14 DEF Held
  <2>2. InOrder(d)'
    BY <1>7, <1>9, <1>14 DEF InOrder
  <2>3. NoGap(d)'
    BY <1>7, <1>10, <1>14 DEF NoGap
  <2> QED
    BY <2>1, <2>2, <2>3 DEF Queued

(* A chunk that comes in order is queued behind the others.                *)
LEMMA QueuedMore ==
  ASSUME ExecTyped, NEW d \in Execs, Queued(d), NEW x \in Items,
         queue' = [queue EXCEPT ![d] = Append(queue[d], x)],
         relay[d] # "gone", relay'[d] = relay[d], hand'[d] = hand[d], got'[d] = got[d],
         UNCHANGED <<ended, fed>>, dropped'[d] = dropped[d],
         \/ x.item \in Requests /\ next'[d] = next[d] /\ UNCHANGED relay
         \/ /\ x.item = next[d] /\ next'[d] = next[d] + 1 /\ dropped[d] = "no"
            /\ x.last => d \in ended /\ x.item = fed[d] - 1
  PROVE  Queued(d)'
<1> DEFINE q == queue'[d]
           l == Len(queue[d]) + 1
<1>1. /\ \A i \in DOMAIN q : \/ i \in DOMAIN queue[d] /\ q[i] = queue[d][i]
                             \/ q[i] = x /\ i = l
      /\ \A i \in DOMAIN queue[d] : i \in DOMAIN q /\ q[i] = queue[d][i] /\ i < l /\ i \in Nat
      /\ l \in DOMAIN q /\ q[l] = x /\ l \in Nat
  <2>1. queue[d] \in Seq(Items) /\ q = Append(queue[d], x)
    BY DEF ExecTyped, InputTyped
  <2> QED
    BY <2>1
<1>2. /\ Base(d)' = Base(d) /\ Base(d) \in Nat /\ next[d] \in Nat /\ next'[d] >= next[d]
      /\ next'[d] \in Nat
  <2>1. Base(d)' = Base(d)
    BY DEF Base
  <2> QED
    BY <2>1, BaseTyped
<1>3. x.item # -1 /\ (x.item \in Nat => x.item = next[d] /\ next'[d] = next[d] + 1 /\ dropped[d]
   = "no")
      /\ (x.item \in Nat /\ x.last => d \in ended /\ x.item = fed[d] - 1)
  BY ExecAssumption, <1>2
<1>4. x.item \notin Nat => next'[d] = next[d]
  BY <1>2
<1> HIDE DEF q, l
<1>5. dropped[d] = "no" =>
         /\ Base(d) <= next[d]
         /\ \A n \in Base(d)..(next[d] - 1) : \E k \in DOMAIN q : q[k].item = n
  <2>1. dropped[d] = "no" =>
          /\ Base(d) <= next[d]
          /\ \A n \in Base(d)..(next[d] - 1) : \E k \in DOMAIN queue[d] : queue[d][k].item = n
    BY DEF Queued, Held, InOrder, NoGap
  <2> QED
    BY <1>1, <2>1
<1>6. dropped[d] = "no" =>
         \A n \in Base(d)..(next'[d] - 1) : \E k \in DOMAIN q : q[k].item = n
  <2> SUFFICES ASSUME dropped[d] = "no", NEW n \in Base(d)..(next'[d] - 1)
               PROVE  \E k \in DOMAIN q : q[k].item = n
    OBVIOUS
  <2>1. CASE n \in Base(d)..(next[d] - 1)
    BY <1>5, <2>1
  <2>2. CASE n \notin Base(d)..(next[d] - 1)
    <3>1. x.item = n
      BY <1>2, <1>3, <1>4, <2>2
    <3> QED
      BY <1>1, <3>1
  <2> QED
    BY <2>1, <2>2
<1>7. ASSUME NEW i \in DOMAIN q, q[i].item \in Nat
      PROVE  /\ q[i].item \in Base(d)..(next'[d] - 1)
             /\ \A j \in DOMAIN q : q[j].item \in Nat /\ i < j => q[i].item < q[j].item
             /\ \A n \in Base(d)..q[i].item : \E k \in DOMAIN q : q[k].item = n
             /\ q[i].last => d \in ended /\ q[i].item = fed[d] - 1
  <2>1. CASE i \in DOMAIN queue[d] /\ q[i] = queue[d][i]
    <3>1. /\ q[i].item \in Base(d)..(next[d] - 1)
          /\ \A j \in DOMAIN queue[d] : queue[d][j].item \in Nat /\ i < j => q[i].item <
                queue[d][j].item
          /\ \A n \in Base(d)..q[i].item : \E k \in DOMAIN queue[d] : queue[d][k].item = n
          /\ q[i].last => d \in ended /\ q[i].item = fed[d] - 1
      BY <1>7, <2>1 DEF Queued, Held, InOrder, NoGap
    <3>2. ASSUME NEW j \in DOMAIN q, q[j].item \in Nat, i < j PROVE q[i].item < q[j].item
      <4>1. CASE j \in DOMAIN queue[d] /\ q[j] = queue[d][j]
        BY <3>1, <3>2, <4>1
      <4>2. CASE q[j] = x
        BY <1>2, <1>3, <3>1, <3>2, <4>2
      <4> QED
        BY <1>1, <4>1, <4>2
    <3>3. q[i].item \in Base(d)..(next'[d] - 1)
      BY <1>2, <3>1
    <3>4. \A n \in Base(d)..q[i].item : \E k \in DOMAIN q : q[k].item = n
      BY <1>1, <3>1
    <3> QED
      BY <3>1, <3>2, <3>3, <3>4
  <2>2. CASE q[i] = x /\ i = l
    <3>1. x.item = next[d] /\ next'[d] = next[d] + 1 /\ dropped[d] = "no" /\ Base(d) <= next[d]
      BY <1>3, <1>5, <1>7, <2>2
    <3>2. \A j \in DOMAIN q : ~(i < j)
      BY <1>1, <2>2
    <3>3. \A n \in Base(d)..x.item : \E k \in DOMAIN q : q[k].item = n
      BY <1>2, <1>6, <3>1
    <3>4. q[i].item \in Base(d)..(next'[d] - 1)
      BY <1>2, <2>2, <3>1
    <3> QED
      BY <1>3, <1>7, <2>2, <3>2, <3>3, <3>4
  <2> QED
    BY <1>1, <2>1, <2>2
<1>8. \A i \in DOMAIN q : q[i].item # -1
  BY <1>1, <1>3 DEF Queued, Held, InOrder, NoGap
<1>9. /\ relay'[d] # "write" => hand'[d] = Nothing
      /\ relay'[d] = "write" => hand'[d].item \in Requests \union {Len(got'[d])}
      /\ relay'[d] # "gone"
      /\ hand'[d].item \in Nat /\ hand'[d].last => d \in ended' /\ hand'[d].item = fed'[d] - 1
  BY DEF Queued, Held, InOrder, NoGap
<1>10. dropped'[d] = "no" => Base(d) <= next'[d]
  BY <1>2, <1>5
<1>11. UNCHANGED <<ended, fed>> /\ dropped'[d] = dropped[d] /\ q = queue'[d]
  BY DEF q
<1> QED
  <2>1. Held(d)'
    BY <1>8, <1>9, <1>11 DEF Held
  <2>2. InOrder(d)'
    BY <1>2, <1>7, <1>11 DEF InOrder
  <2>3. NoGap(d)'
    BY <1>2, <1>6, <1>10, <1>11 DEF NoGap
  <2> QED
    BY <2>1, <2>2, <2>3 DEF Queued

(* Every action keeps where a relay thread may be.                         *)
LEMMA RelayedStep == ExecTyped /\ (\A e \in Execs : Lives(e) /\ Slots(e) /\ Wired(e) /\
   Relayed(e) /\ Queued(e) /\ Resizes(e) /\ Read(e)) /\ [Next]_vars => \A d \in Execs :
   Relayed(d)'
<1> SUFFICES ASSUME ExecTyped /\ (\A e \in Execs : Lives(e) /\ Slots(e) /\ Wired(e) /\
   Relayed(e) /\ Queued(e) /\ Resizes(e) /\ Read(e)) /\ [Next]_vars, NEW d \in Execs
             PROVE  Relayed(d)'
  OBVIOUS
<1>1. ASSUME NEW e \in Execs, Feed(e) PROVE Relayed(d)'
  BY <1>1 DEF Feed, Started, session, tables, input, supervisor, threads, Relayed, Launched,
     Lives, ExecTyped, InputTyped, ThreadsTyped, Launchings
<1>2. ASSUME NEW r \in Requests, Ask(r) PROVE Relayed(d)'
  BY <1>2 DEF Ask, Started, session, tables, input, supervisor, Relayed, Launched, Lives,
     ExecTyped, InputTyped, ThreadsTyped, Launchings
<1>3. ASSUME NEW e \in Execs, Acquire(e) PROVE Relayed(d)'
  BY <1>3 DEF Acquire, Launches, client, session, input, supervisor, Relayed, Launched, Lives,
     ExecTyped, InputTyped, ThreadsTyped, Launchings
<1>4. ASSUME NEW e \in Execs, LaunchFails(e) PROVE Relayed(d)'
  BY <1>4 DEF LaunchFails, Launches, client, session, input, supervisor, Relayed, Launched,
     Lives, ExecTyped, InputTyped, ThreadsTyped, Launchings
<1>5. ASSUME NEW e \in Execs, Spawn(e) PROVE Relayed(d)'
  BY <1>5 DEF Spawn, Launches, client, session, tables, input, Relayed, Launched, Lives,
     ExecTyped, InputTyped, ThreadsTyped, Launchings
<1>6. ASSUME NEW e \in Execs, OpenInput(e) PROVE Relayed(d)'
  BY <1>6 DEF OpenInput, Launches, SlotAtLaunch, client, session, supervisor, Relayed, Launched,
     Lives, ExecTyped, InputTyped, ThreadsTyped, Launchings
<1>7. ASSUME NEW e \in Execs, Enter(e) PROVE Relayed(d)'
  BY <1>7 DEF Enter, Launches, client, session, input, supervisor, Relayed, Launched, Lives,
     ExecTyped, InputTyped, ThreadsTyped, Launchings
<1>8. ASSUME NEW e \in Execs, ReplyStarted(e) PROVE Relayed(d)'
  BY <1>8 DEF ReplyStarted, Launches, client, session, tables, Relayed, Launched, Lives,
     ExecTyped, InputTyped, ThreadsTyped, Launchings
<1>9. CASE PoisonChunk
  BY <1>9 DEF PoisonChunk, Reads, IsChunk, tables, input, supervisor, threads, Relayed,
     Launched, Lives, ExecTyped, InputTyped, ThreadsTyped, Launchings
<1>10. CASE RouteChunk
  BY <1>10 DEF RouteChunk, Stays, Reads, IsChunk, Revoke, LeaseAfter, Full, Deaf, SlotAfter,
     supervisor, threads, Relayed, Launched, Lives, ExecTyped, InputTyped, ThreadsTyped,
     Launchings
<1>11. CASE AdmitRequest
  BY <1>11 DEF AdmitRequest, Stays, Reads, IsChunk, tables, input, supervisor, Relayed,
     Launched, Lives, ExecTyped, InputTyped, ThreadsTyped, Launchings
<1>12. CASE Leave
  BY <1>12 DEF Leave, client, tables, input, supervisor, threads, Relayed, Launched, Lives,
     ExecTyped, InputTyped, ThreadsTyped, Launchings
<1>13. ASSUME NEW r \in Requests, CloseRefused(r) PROVE Relayed(d)'
  BY <1>13 DEF CloseRefused, Runs, client, session, tables, input, supervisor, Relayed,
     Launched, Lives, ExecTyped, InputTyped, ThreadsTyped, Launchings
<1>14. ASSUME NEW r \in Requests, CloseFinds(r) PROVE Relayed(d)'
  BY <1>14 DEF CloseFinds, Runs, client, session, tables, input, supervisor, Relayed, Launched,
     Lives, ExecTyped, InputTyped, ThreadsTyped, Launchings
<1>15. ASSUME NEW r \in Requests, CloseDrops(r) PROVE Relayed(d)'
  BY <1>15 DEF CloseDrops, Runs, client, session, input, supervisor, Relayed, Launched, Lives,
     ExecTyped, InputTyped, ThreadsTyped, Launchings
<1>16. ASSUME NEW r \in Requests, Cancel(r) PROVE Relayed(d)'
  BY <1>16 DEF Cancel, Runs, Revoke, LeaseAfter, client, session, input, supervisor, Relayed,
     Launched, Lives, ExecTyped, InputTyped, ThreadsTyped, Launchings
<1>17. ASSUME NEW r \in Requests, ResizeRefused(r) PROVE Relayed(d)'
  BY <1>17 DEF ResizeRefused, Runs, client, session, tables, input, supervisor, Relayed,
     Launched, Lives, ExecTyped, InputTyped, ThreadsTyped, Launchings
<1>18. ASSUME NEW r \in Requests, ResizeFinds(r) PROVE Relayed(d)'
  BY <1>18 DEF ResizeFinds, Runs, client, session, tables, input, supervisor, Relayed, Launched,
     Lives, ExecTyped, InputTyped, ThreadsTyped, Launchings
<1>19. ASSUME NEW r \in Requests, ResizeQueues(r) PROVE Relayed(d)'
  BY <1>19 DEF ResizeQueues, Runs, Full, Deaf, client, session, tables, supervisor, Relayed,
     Launched, Lives, ExecTyped, InputTyped, ThreadsTyped, Launchings
<1>20. ASSUME NEW r \in Requests, ResizeFails(r) PROVE Relayed(d)'
  BY <1>20 DEF ResizeFails, Runs, Revoke, LeaseAfter, Full, Deaf, client, session, input,
     supervisor, Relayed, Launched, Lives, ExecTyped, InputTyped, ThreadsTyped, Launchings
<1>21. ASSUME NEW e \in Execs, RelayTakes(e) PROVE Relayed(d)'
  BY <1>21 DEF RelayTakes, Relays, client, session, tables, supervisor, Relayed, Launched,
     Lives, ExecTyped, InputTyped, ThreadsTyped, Launchings
<1>22. ASSUME NEW e \in Execs, RelayCloses(e) PROVE Relayed(d)'
  <2>1. Leaves(e) \/ Continues(e, TRUE) \/ Continues(e, FALSE)
    BY <1>22 DEF RelayCloses, Continues
  <2>2. relay'[e] # "none" /\ (d # e => relay'[d] = relay[d])
    BY <2>1, RelayTyped
  <2>3. UNCHANGED <<launch, mode>> /\ relay[e] # "none"
    BY <1>22 DEF RelayCloses, Relays
  <2> QED
    BY <2>2, <2>3 DEF Relayed
<1>23. ASSUME NEW e \in Execs, ChildReads(e) PROVE Relayed(d)'
  <2>1. Leaves(e) \/ Continues(e, TRUE) \/ Continues(e, FALSE)
    BY <1>23 DEF ChildReads, Continues
  <2>2. relay'[e] # "none" /\ (d # e => relay'[d] = relay[d])
    BY <2>1, RelayTyped
  <2>3. UNCHANGED <<launch, mode>> /\ relay[e] # "none"
    BY <1>23 DEF ChildReads, Relays
  <2> QED
    BY <2>2, <2>3 DEF Relayed
<1>24. ASSUME NEW e \in Execs, RelayFails(e) PROVE Relayed(d)'
  <2>1. Leaves(e) \/ Continues(e, TRUE) \/ Continues(e, FALSE)
    BY <1>24 DEF RelayFails, Continues
  <2>2. relay'[e] # "none" /\ (d # e => relay'[d] = relay[d])
    BY <2>1, RelayTyped
  <2>3. UNCHANGED <<launch, mode>> /\ relay[e] # "none"
    BY <1>24 DEF RelayFails, Relays
  <2> QED
    BY <2>2, <2>3 DEF Relayed
<1>25. ASSUME NEW e \in Execs, RelayResizes(e) PROVE Relayed(d)'
  <2>1. Leaves(e) \/ Continues(e, TRUE) \/ Continues(e, FALSE)
    BY <1>25 DEF RelayResizes, Continues
  <2>2. relay'[e] # "none" /\ (d # e => relay'[d] = relay[d])
    BY <2>1, RelayTyped
  <2>3. UNCHANGED <<launch, mode>> /\ relay[e] # "none"
    BY <1>25 DEF RelayResizes, Relays
  <2> QED
    BY <2>2, <2>3 DEF Relayed
<1>26. ASSUME NEW e \in Execs, ChildExits(e) PROVE Relayed(d)'
  BY <1>26 DEF ChildExits, client, session, tables, input, threads, Relayed, Launched, Lives,
     ExecTyped, InputTyped, ThreadsTyped, Launchings
<1>27. ASSUME NEW e \in Execs, SeesRecord(e) PROVE Relayed(d)'
  BY <1>27 DEF SeesRecord, Supervises, client, session, tables, input, threads, Relayed,
     Launched, Lives, ExecTyped, InputTyped, ThreadsTyped, Launchings
<1>28. ASSUME NEW e \in Execs, SeesRevocation(e) PROVE Relayed(d)'
  BY <1>28 DEF SeesRevocation, Supervises, client, session, tables, input, threads, Relayed,
     Launched, Lives, ExecTyped, InputTyped, ThreadsTyped, Launchings
<1>29. ASSUME NEW e \in Execs, Terminate(e) PROVE Relayed(d)'
  BY <1>29 DEF Terminate, Supervises, DrainOver, client, session, tables, input, threads,
     Relayed, Launched, Lives, ExecTyped, InputTyped, ThreadsTyped, Launchings
<1>30. ASSUME NEW e \in Execs, KillGroup(e) PROVE Relayed(d)'
  BY <1>30 DEF KillGroup, Supervises, GroupAfterKill, client, session, tables, input, threads,
     Relayed, Launched, Lives, ExecTyped, InputTyped, ThreadsTyped, Launchings
<1>31. ASSUME NEW e \in Execs, Reap(e) PROVE Relayed(d)'
  BY <1>31 DEF Reap, Supervises, client, session, input, threads, Relayed, Launched, Lives,
     ExecTyped, InputTyped, ThreadsTyped, Launchings
<1>32. ASSUME NEW e \in Execs, LeaveTable(e) PROVE Relayed(d)'
  BY <1>32 DEF LeaveTable, Supervises, client, session, input, threads, Relayed, Launched,
     Lives, ExecTyped, InputTyped, ThreadsTyped, Launchings
<1>33. ASSUME NEW e \in Execs, DropSlot(e) PROVE Relayed(d)'
  BY <1>33 DEF DropSlot, Supervises, SlotAfterSettle, client, session, input, threads, Relayed,
     Launched, Lives, ExecTyped, InputTyped, ThreadsTyped, Launchings
<1>34. ASSUME NEW e \in Execs, Publish(e) PROVE Relayed(d)'
  BY <1>34 DEF Publish, Supervises, client, session, tables, input, threads, Relayed, Launched,
     Lives, ExecTyped, InputTyped, ThreadsTyped, Launchings
<1>35. CASE Stop
  BY <1>35 DEF Stop, client, tables, input, supervisor, threads, Relayed, Launched, Lives,
     ExecTyped, InputTyped, ThreadsTyped, Launchings
<1>36. CASE Teardown
  BY <1>36 DEF Teardown, Revoke, LeaseAfter, client, input, supervisor, threads, Relayed,
     Launched, Lives, ExecTyped, InputTyped, ThreadsTyped, Launchings
<1>37. CASE Exit
  BY <1>37 DEF Exit, client, tables, input, supervisor, threads, Relayed, Launched, Lives,
     ExecTyped, InputTyped, ThreadsTyped, Launchings
<1>38. CASE UNCHANGED vars
  BY <1>38 DEF vars, Relayed, Launched, Lives, ExecTyped, InputTyped, ThreadsTyped, Launchings,
     client, session, tables, input, supervisor, threads
<1>39. QED
  BY <1>1, <1>2, <1>3, <1>4, <1>5, <1>6, <1>7, <1>8, <1>9, <1>10, <1>11, <1>12, <1>13, <1>14,
     <1>15, <1>16, <1>17, <1>18, <1>19, <1>20, <1>21, <1>22, <1>23, <1>24, <1>25, <1>26, <1>27,
     <1>28, <1>29, <1>30, <1>31, <1>32, <1>33, <1>34, <1>35, <1>36, <1>37, <1>38 DEF Next,
     RequestRuns, LaunchRuns, RelayRuns, SettleRuns

(* Every action keeps the chunks between the read loop and the child.      *)
LEMMA QueuedStep == ExecTyped /\ (\A e \in Execs : Lives(e) /\ Slots(e) /\ Wired(e) /\
   Relayed(e) /\ Queued(e) /\ Resizes(e) /\ Read(e)) /\ [Next]_vars => \A d \in Execs :
   Queued(d)'
<1> SUFFICES ASSUME ExecTyped /\ (\A e \in Execs : Lives(e) /\ Slots(e) /\ Wired(e) /\
   Relayed(e) /\ Queued(e) /\ Resizes(e) /\ Read(e)) /\ [Next]_vars, NEW d \in Execs
             PROVE  Queued(d)'
  OBVIOUS
<1>1. ASSUME NEW e \in Execs, Feed(e) PROVE Queued(d)'
  <2>1. /\ UNCHANGED <<queue, hand, got, next, relay, dropped>> /\ ended \subseteq ended'
        /\ e \notin ended /\ fed' = [fed EXCEPT ![e] = fed[e] + 1]
    BY <1>1 DEF Feed, tables, input
  <2>2. d \in ended => d \in ended' /\ fed'[d] = fed[d]
    BY <2>1 DEF ExecTyped, ClientTyped
  <2> QED
    BY <2>1, <2>2, QueuedKept
<1>2. ASSUME NEW r \in Requests, Ask(r) PROVE Queued(d)'
  <2>1. UNCHANGED <<queue, hand, got, next, relay, dropped, fed>> /\ ended \subseteq ended'
    BY <1>2 DEF Ask, tables, input
  <2> QED
    BY <2>1, QueuedKept
<1>3. ASSUME NEW e \in Execs, Acquire(e) PROVE Queued(d)'
  <2>1. UNCHANGED <<queue, hand, got, next, relay, dropped, ended, fed>>
    BY <1>3 DEF Acquire, Launches, client, session, input, supervisor
  <2> QED
    BY <2>1, QueuedKept
<1>4. ASSUME NEW e \in Execs, LaunchFails(e) PROVE Queued(d)'
  <2>1. UNCHANGED <<queue, hand, got, next, relay, dropped, ended, fed>>
    BY <1>4 DEF LaunchFails, Launches, client, session, input, supervisor
  <2> QED
    BY <2>1, QueuedKept
<1>5. ASSUME NEW e \in Execs, Spawn(e) PROVE Queued(d)'
  <2>1. UNCHANGED <<queue, hand, got, next, relay, dropped, ended, fed>>
    BY <1>5 DEF Spawn, Launches, client, session, tables, input
  <2> QED
    BY <2>1, QueuedKept
<1>6. ASSUME NEW e \in Execs, OpenInput(e) PROVE Queued(d)'
  <2>1. /\ UNCHANGED <<queue, hand, got, next, dropped, ended, fed>> /\ launch[e] = "spawned"
        /\ relay' = relay \/ relay' = [relay EXCEPT ![e] = "recv"]
    BY <1>6 DEF OpenInput, Launches, client
  <2>2. relay[e] = "none"
    BY <2>1 DEF Relayed, Launched, ExecTyped, InputTyped
  <2>3. relay'[d] = relay[d] \/ (relay[d] = "none" /\ relay'[d] = "recv")
    BY <2>1, <2>2 DEF ExecTyped, InputTyped
  <2> QED
    BY <2>1, <2>3, QueuedKept
<1>7. ASSUME NEW e \in Execs, Enter(e) PROVE Queued(d)'
  <2>1. UNCHANGED <<queue, hand, got, next, relay, dropped, ended, fed>>
    BY <1>7 DEF Enter, Launches, client, session, input, supervisor
  <2> QED
    BY <2>1, QueuedKept
<1>8. ASSUME NEW e \in Execs, ReplyStarted(e) PROVE Queued(d)'
  <2>1. /\ UNCHANGED <<queue, hand, got, next, dropped, ended, fed>> /\ launch[e] = "entered"
        /\ relay' = relay \/ (mode[e] = "pty" /\ relay' = [relay EXCEPT ![e] = "recv"])
    BY <1>8 DEF ReplyStarted, Launches, client, tables
  <2>2. mode[e] = "pty" => relay[e] = "none"
    BY <2>1 DEF Relayed
  <2>3. relay'[d] = relay[d] \/ (relay[d] = "none" /\ relay'[d] = "recv")
    BY <2>1, <2>2 DEF ExecTyped, InputTyped
  <2> QED
    BY <2>1, <2>3, QueuedKept
<1>9. CASE PoisonChunk
  <2>1. UNCHANGED <<queue, hand, got, next, relay, dropped, ended, fed>>
    BY <1>9 DEF PoisonChunk, Reads, IsChunk, tables, input, supervisor, threads
  <2> QED
    BY <2>1, QueuedKept
<1>10. CASE RouteChunk
  <2> DEFINE c == Head(wire)
             e == c.chunk
  <2>1. c = wire[1] /\ 1 \in DOMAIN wire /\ IsChunkOf(1, e) /\ e \in Execs /\ wire # <<>>
    BY <1>10, Taken, FrameKinds DEF RouteChunk, IsChunk, Reads, IsChunkOf
  <2> DEFINE x == [item |-> c.seq, last |-> c.last]
  <2>2. /\ c.seq \in Nat /\ c.last \in BOOLEAN /\ c.seq = next[e] /\ e \in inbound
        /\ UNCHANGED <<relay, hand, got, ended, fed>>
        /\ next' = [next EXCEPT ![e] = next[e] + 1]
        /\ \/ /\ queue' = queue /\ dropped' = [dropped EXCEPT ![e] = "pressure"]
           \/ /\ queue' = [queue EXCEPT ![e] = Append(queue[e], x)] /\ dropped' = dropped
              /\ relay[e] # "gone"
    BY <1>10, Taken, FrameKinds DEF RouteChunk, IsChunk, Reads, Deaf
  <2>3. x \in Items /\ x.item = c.seq /\ x.last = c.last
    BY <2>2 DEF Items
  <2>4. dropped[e] = "no" /\ (c.last => e \in ended /\ c.seq = fed[e] - 1)
    BY <2>1, <2>2 DEF Slots, Wired
  <2>5. d # e => /\ queue'[d] = queue[d] /\ next'[d] = next[d] /\ dropped'[d] = dropped[d]
    BY <2>1, <2>2 DEF ExecTyped, TablesTyped, InputTyped
  <2>6. next'[e] = next[e] + 1
    BY <2>1, <2>2 DEF ExecTyped, TablesTyped
  <2> HIDE DEF e, c, x
  <2>7. CASE d # e
    BY <2>2, <2>5, <2>7, QueuedKept
  <2>8. CASE d = e /\ queue' = queue /\ dropped' = [dropped EXCEPT ![e] = "pressure"]
    <3>1. dropped'[d] # "no" /\ next'[d] = next[d] + 1 /\ next[d] \in Nat
      BY <2>6, <2>8 DEF ExecTyped, TablesTyped
    <3>2. /\ UNCHANGED <<relay, hand, got, ended, fed>> /\ queue'[d] = queue[d]
          /\ Base(d)' = Base(d) /\ Base(d) \in Nat
      BY <2>2, <2>8, BaseTyped DEF Base
    <3>3. Held(d)' /\ NoGap(d)'
      BY <3>1, <3>2 DEF Queued, Held, NoGap
    <3>4. InOrder(d)'
      <4>1. \A k : k \in Base(d)..(next[d] - 1) => k \in Base(d)..(next'[d] - 1)
        BY <3>1, <3>2
      <4> QED
        BY <3>2, <4>1 DEF Queued, InOrder
    <3> QED
      BY <3>3, <3>4 DEF Queued
  <2>9. CASE d = e /\ queue' = [queue EXCEPT ![e] = Append(queue[e], x)] /\ dropped' = dropped
             /\ relay[e] # "gone"
    BY <2>2, <2>3, <2>4, <2>6, <2>9, QueuedMore
  <2> QED
    BY <2>2, <2>7, <2>8, <2>9
<1>11. CASE AdmitRequest
  <2>1. UNCHANGED <<queue, hand, got, next, relay, dropped, ended, fed>>
    BY <1>11 DEF AdmitRequest, Stays, Reads, IsChunk, tables, input, supervisor
  <2> QED
    BY <2>1, QueuedKept
<1>12. CASE Leave
  <2>1. UNCHANGED <<queue, hand, got, next, relay, dropped, ended, fed>>
    BY <1>12 DEF Leave, client, tables, input, supervisor, threads
  <2> QED
    BY <2>1, QueuedKept
<1>13. ASSUME NEW r \in Requests, CloseRefused(r) PROVE Queued(d)'
  <2>1. UNCHANGED <<queue, hand, got, next, relay, dropped, ended, fed>>
    BY <1>13 DEF CloseRefused, Runs, client, session, tables, input, supervisor
  <2> QED
    BY <2>1, QueuedKept
<1>14. ASSUME NEW r \in Requests, CloseFinds(r) PROVE Queued(d)'
  <2>1. UNCHANGED <<queue, hand, got, next, relay, dropped, ended, fed>>
    BY <1>14 DEF CloseFinds, Runs, client, session, tables, input, supervisor
  <2> QED
    BY <2>1, QueuedKept
<1>15. ASSUME NEW r \in Requests, CloseDrops(r) PROVE Queued(d)'
  <2>1. UNCHANGED <<queue, hand, got, next, relay, dropped, ended, fed>>
    BY <1>15 DEF CloseDrops, Runs, client, session, input, supervisor
  <2> QED
    BY <2>1, QueuedKept
<1>16. ASSUME NEW r \in Requests, Cancel(r) PROVE Queued(d)'
  <2>1. UNCHANGED <<queue, hand, got, next, relay, dropped, ended, fed>>
    BY <1>16 DEF Cancel, Runs, Revoke, LeaseAfter, client, session, input, supervisor
  <2> QED
    BY <2>1, QueuedKept
<1>17. ASSUME NEW r \in Requests, ResizeRefused(r) PROVE Queued(d)'
  <2>1. UNCHANGED <<queue, hand, got, next, relay, dropped, ended, fed>>
    BY <1>17 DEF ResizeRefused, Runs, client, session, tables, input, supervisor
  <2> QED
    BY <2>1, QueuedKept
<1>18. ASSUME NEW r \in Requests, ResizeFinds(r) PROVE Queued(d)'
  <2>1. UNCHANGED <<queue, hand, got, next, relay, dropped, ended, fed>>
    BY <1>18 DEF ResizeFinds, Runs, client, session, tables, input, supervisor
  <2> QED
    BY <2>1, QueuedKept
<1>19. ASSUME NEW r \in Requests, ResizeQueues(r) PROVE Queued(d)'
  <2> DEFINE x == [item |-> r, last |-> FALSE]
  <2>1. /\ UNCHANGED <<relay, hand, got, next, dropped, ended, fed>>
        /\ queue' = [queue EXCEPT ![Of[r]] = Append(queue[Of[r]], x)]
        /\ relay[Of[r]] # "gone" /\ Of[r] \in Execs
    BY <1>19, ExecAssumption DEF ResizeQueues, Runs, Deaf, client, tables
  <2>2. x \in Items /\ x.item = r
    BY DEF Items
  <2> HIDE DEF x
  <2>3. CASE d = Of[r]
    BY <2>1, <2>2, <2>3, QueuedMore
  <2>4. CASE d # Of[r]
    <3>1. queue'[d] = queue[d]
      BY <2>1, <2>4 DEF ExecTyped, InputTyped
    <3> QED
      BY <2>1, <3>1, QueuedKept
  <2> QED
    BY <2>3, <2>4
<1>20. ASSUME NEW r \in Requests, ResizeFails(r) PROVE Queued(d)'
  <2>1. UNCHANGED <<queue, hand, got, next, relay, dropped, ended, fed>>
    BY <1>20 DEF ResizeFails, Runs, Revoke, LeaseAfter, Full, Deaf, client, session, input,
       supervisor
  <2> QED
    BY <2>1, QueuedKept
<1>21. ASSUME NEW e \in Execs, RelayTakes(e) PROVE Queued(d)'
  <2>1. /\ queue[e] # <<>> /\ hand' = [hand EXCEPT ![e] = Head(queue[e])]
        /\ queue' = [queue EXCEPT ![e] = Tail(queue[e])] /\ relay' = [relay EXCEPT ![e] =
              "write"]
        /\ relay[e] = "recv" /\ UNCHANGED <<got, next, dropped, ended, fed>>
    BY <1>21 DEF RelayTakes, Relays, client, tables
  <2>2. /\ hand'[e] = Head(queue[e]) /\ queue'[e] = Tail(queue[e]) /\ relay'[e] = "write"
        /\ d # e => hand'[d] = hand[d] /\ queue'[d] = queue[d] /\ relay'[d] = relay[d]
    BY <2>1 DEF ExecTyped, InputTyped
  <2>3. CASE d = e
    BY <2>1, <2>2, <2>3, QueuedTaken
  <2>4. CASE d # e
    BY <2>1, <2>2, <2>4, QueuedKept
  <2> QED
    BY <2>3, <2>4
<1>22. ASSUME NEW e \in Execs, RelayCloses(e) PROVE Queued(d)'
  <2>1. Leaves(e) \/ Continues(e, TRUE) \/ Continues(e, FALSE)
    BY <1>22 DEF RelayCloses, Continues
  <2>2. /\ hand'[e] = Nothing /\ UNCHANGED <<next, dropped, ended, fed>>
        /\ d # e => /\ relay'[d] = relay[d] /\ queue'[d] = queue[d] /\ hand'[d] = hand[d]
                    /\ got'[d] = got[d]
        /\ \/ relay'[e] = "gone" /\ queue'[e] = <<>>
           \/ relay'[e] = "recv" /\ queue'[e] = queue[e]
    BY <2>1, <1>22, RelayTyped DEF RelayCloses, Relays, client, tables, ExecTyped, InputTyped
  <2>3. UNCHANGED got
    BY <1>22 DEF RelayCloses
  <2>4. relay'[e] = "gone" /\ queue'[e] = <<>>
    BY <2>1, <1>22, RelayTyped DEF RelayCloses, Leaves, ExecTyped, InputTyped
  <2>5. CASE d = e
    BY <2>2, <2>3, <2>4, <2>5, QueuedWritten
  <2>6. CASE d # e
    BY <2>2, <2>6, QueuedKept
  <2> QED
    BY <2>5, <2>6
<1>23. ASSUME NEW e \in Execs, ChildReads(e) PROVE Queued(d)'
  <2>1. Leaves(e) \/ Continues(e, TRUE) \/ Continues(e, FALSE)
    BY <1>23 DEF ChildReads, Continues
  <2>2. /\ hand'[e] = Nothing /\ UNCHANGED <<next, dropped, ended, fed>>
        /\ d # e => /\ relay'[d] = relay[d] /\ queue'[d] = queue[d] /\ hand'[d] = hand[d]
                    /\ got'[d] = got[d]
        /\ \/ relay'[e] = "gone" /\ queue'[e] = <<>>
           \/ relay'[e] = "recv" /\ queue'[e] = queue[e]
    BY <2>1, <1>23, RelayTyped DEF ChildReads, Relays, client, tables, ExecTyped, InputTyped
  <2>3. /\ relay[e] = "write" /\ hand[e].item \notin Requests
        /\ got' = [got EXCEPT ![e] = Append(got[e], hand[e].item)]
    BY <1>23 DEF ChildReads, IsResize
  <2>4. Base(e)' = Base(e)
    <3>1. hand[e].item = Len(got[e]) /\ hand[e].item \in Nat /\ got[e] \in Seq(Int)
      BY <2>3, BaseTyped DEF Queued, Held, ExecTyped, InputTyped
    <3>2. Len(got'[e]) = Len(got[e]) + 1
      BY <2>3, <3>1 DEF ExecTyped, InputTyped
    <3>3. hand'[e].item \notin Nat
      BY <2>2 DEF Nothing
    <3> QED
      BY <3>1, <3>2, <3>3 DEF Base
  <2>5. CASE d = e
    BY <2>2, <2>3, <2>4, <2>5, QueuedWritten
  <2>6. CASE d # e
    BY <2>2, <2>6, QueuedKept
  <2> QED
    BY <2>5, <2>6
<1>24. ASSUME NEW e \in Execs, RelayFails(e) PROVE Queued(d)'
  <2>1. Leaves(e) \/ Continues(e, TRUE) \/ Continues(e, FALSE)
    BY <1>24 DEF RelayFails, Continues
  <2>2. /\ hand'[e] = Nothing /\ UNCHANGED <<next, dropped, ended, fed>>
        /\ d # e => /\ relay'[d] = relay[d] /\ queue'[d] = queue[d] /\ hand'[d] = hand[d]
                    /\ got'[d] = got[d]
        /\ \/ relay'[e] = "gone" /\ queue'[e] = <<>>
           \/ relay'[e] = "recv" /\ queue'[e] = queue[e]
    BY <2>1, <1>24, RelayTyped DEF RelayFails, Relays, client, tables, ExecTyped, InputTyped
  <2>3. UNCHANGED got
    BY <1>24 DEF RelayFails
  <2>4. relay'[e] = "gone" /\ queue'[e] = <<>>
    BY <2>1, <1>24, RelayTyped DEF RelayFails, Leaves, ExecTyped, InputTyped
  <2>5. CASE d = e
    BY <2>2, <2>3, <2>4, <2>5, QueuedWritten
  <2>6. CASE d # e
    BY <2>2, <2>6, QueuedKept
  <2> QED
    BY <2>5, <2>6
<1>25. ASSUME NEW e \in Execs, RelayResizes(e) PROVE Queued(d)'
  <2>1. Leaves(e) \/ Continues(e, TRUE) \/ Continues(e, FALSE)
    BY <1>25 DEF RelayResizes, Continues
  <2>2. /\ hand'[e] = Nothing /\ UNCHANGED <<next, dropped, ended, fed>>
        /\ d # e => /\ relay'[d] = relay[d] /\ queue'[d] = queue[d] /\ hand'[d] = hand[d]
                    /\ got'[d] = got[d]
        /\ \/ relay'[e] = "gone" /\ queue'[e] = <<>>
           \/ relay'[e] = "recv" /\ queue'[e] = queue[e]
    BY <2>1, <1>25, RelayTyped DEF RelayResizes, Relays, client, tables, ExecTyped, InputTyped
  <2>3. UNCHANGED got /\ relay[e] = "write" /\ hand[e].item \in Requests
    BY <1>25 DEF RelayResizes, IsResize
  <2>4. Base(e)' = Base(e)
    <3>1. hand[e].item \notin Nat /\ hand'[e].item \notin Nat
      BY <2>2, <2>3, ExecAssumption DEF Nothing
    <3> QED
      BY <2>3, <3>1 DEF Base
  <2>5. CASE d = e
    BY <2>2, <2>3, <2>4, <2>5, QueuedWritten
  <2>6. CASE d # e
    BY <2>2, <2>6, QueuedKept
  <2> QED
    BY <2>5, <2>6
<1>26. ASSUME NEW e \in Execs, ChildExits(e) PROVE Queued(d)'
  <2>1. UNCHANGED <<queue, hand, got, next, relay, dropped, ended, fed>>
    BY <1>26 DEF ChildExits, client, session, tables, input, threads
  <2> QED
    BY <2>1, QueuedKept
<1>27. ASSUME NEW e \in Execs, SeesRecord(e) PROVE Queued(d)'
  <2>1. UNCHANGED <<queue, hand, got, next, relay, dropped, ended, fed>>
    BY <1>27 DEF SeesRecord, Supervises, client, session, tables, input, threads
  <2> QED
    BY <2>1, QueuedKept
<1>28. ASSUME NEW e \in Execs, SeesRevocation(e) PROVE Queued(d)'
  <2>1. UNCHANGED <<queue, hand, got, next, relay, dropped, ended, fed>>
    BY <1>28 DEF SeesRevocation, Supervises, client, session, tables, input, threads
  <2> QED
    BY <2>1, QueuedKept
<1>29. ASSUME NEW e \in Execs, Terminate(e) PROVE Queued(d)'
  <2>1. UNCHANGED <<queue, hand, got, next, relay, dropped, ended, fed>>
    BY <1>29 DEF Terminate, Supervises, DrainOver, client, session, tables, input, threads
  <2> QED
    BY <2>1, QueuedKept
<1>30. ASSUME NEW e \in Execs, KillGroup(e) PROVE Queued(d)'
  <2>1. UNCHANGED <<queue, hand, got, next, relay, dropped, ended, fed>>
    BY <1>30 DEF KillGroup, Supervises, GroupAfterKill, client, session, tables, input, threads
  <2> QED
    BY <2>1, QueuedKept
<1>31. ASSUME NEW e \in Execs, Reap(e) PROVE Queued(d)'
  <2>1. UNCHANGED <<queue, hand, got, next, relay, dropped, ended, fed>>
    BY <1>31 DEF Reap, Supervises, client, session, input, threads
  <2> QED
    BY <2>1, QueuedKept
<1>32. ASSUME NEW e \in Execs, LeaveTable(e) PROVE Queued(d)'
  <2>1. UNCHANGED <<queue, hand, got, next, relay, dropped, ended, fed>>
    BY <1>32 DEF LeaveTable, Supervises, client, session, input, threads
  <2> QED
    BY <2>1, QueuedKept
<1>33. ASSUME NEW e \in Execs, DropSlot(e) PROVE Queued(d)'
  <2>1. /\ UNCHANGED <<queue, hand, got, next, relay, ended, fed>>
        /\ dropped' = IF e \in inbound THEN [dropped EXCEPT ![e] = "settled"] ELSE dropped
    BY <1>33 DEF DropSlot, Supervises, client, input
  <2>2. dropped'[d] = "no" => dropped[d] = "no"
    BY <2>1 DEF ExecTyped, TablesTyped
  <2> QED
    BY <2>1, <2>2, QueuedKept
<1>34. ASSUME NEW e \in Execs, Publish(e) PROVE Queued(d)'
  <2>1. UNCHANGED <<queue, hand, got, next, relay, dropped, ended, fed>>
    BY <1>34 DEF Publish, Supervises, client, session, tables, input, threads
  <2> QED
    BY <2>1, QueuedKept
<1>35. CASE Stop
  <2>1. UNCHANGED <<queue, hand, got, next, relay, dropped, ended, fed>>
    BY <1>35 DEF Stop, client, tables, input, supervisor, threads
  <2> QED
    BY <2>1, QueuedKept
<1>36. CASE Teardown
  <2>1. UNCHANGED <<queue, hand, got, next, relay, dropped, ended, fed>>
    BY <1>36 DEF Teardown, Revoke, LeaseAfter, client, input, supervisor, threads
  <2> QED
    BY <2>1, QueuedKept
<1>37. CASE Exit
  <2>1. UNCHANGED <<queue, hand, got, next, relay, dropped, ended, fed>>
    BY <1>37 DEF Exit, client, tables, input, supervisor, threads
  <2> QED
    BY <2>1, QueuedKept
<1>38. CASE UNCHANGED vars
  <2>1. UNCHANGED <<queue, hand, got, next, relay, dropped, ended, fed>>
    BY <1>38 DEF vars, client, tables, input
  <2> QED
    BY <2>1, QueuedKept
<1>39. QED
  BY <1>1, <1>2, <1>3, <1>4, <1>5, <1>6, <1>7, <1>8, <1>9, <1>10, <1>11, <1>12, <1>13, <1>14,
     <1>15, <1>16, <1>17, <1>18, <1>19, <1>20, <1>21, <1>22, <1>23, <1>24, <1>25, <1>26, <1>27,
     <1>28, <1>29, <1>30, <1>31, <1>32, <1>33, <1>34, <1>35, <1>36, <1>37, <1>38 DEF Next,
     RequestRuns, LaunchRuns, RelayRuns, SettleRuns

-----------------------------------------------------------------------------
(* What a child has read stays what it was as long as nothing else comes.  *)
LEMMA ReadKept ==
  ASSUME NEW d \in Execs, Read(d), got'[d] = got[d],
         relay'[d] = "gone" => relay[d] = "gone" /\ mode'[d] = mode[d] /\ (d \in group' => d \in
            group),
         dropped'[d] = "no" => dropped[d] = "no",
         d \in ended => d \in ended' /\ fed'[d] = fed[d]
  PROVE  Read(d)'
  BY DEF Read

(* A service whose input has ended has read all of it.                     *)
LEMMA AllRead ==
  ASSUME ExecTyped, NEW d \in Execs, Slots(d), Wired(d), Relayed(d), Queued(d),
         relay[d] = "recv", queue[d] = <<>>, d \notin inbound, mode[d] = "service", dropped[d] =
            "no"
  PROVE  d \in ended /\ Len(got[d]) = fed[d]
<1>1. /\ Len(got[d]) \in Nat /\ next[d] \in Nat /\ fed[d] \in Nat /\ Base(d) = Len(got[d])
  BY BaseTyped DEF Queued, Held, Nothing
<1>2. d \in ended
  BY DEF Relayed, Slots, Fed
<1>3. next[d] = Base(d)
  <2>1. /\ Base(d) <= next[d] /\ DOMAIN queue[d] = {}
        /\ \A n \in Base(d)..(next[d] - 1) : \E k \in DOMAIN queue[d] : queue[d][k].item = n
    BY DEF Queued, NoGap
  <2>2. Base(d) < next[d] => Base(d) \in Base(d)..(next[d] - 1)
    BY <1>1
  <2> QED
    BY <1>1, <2>1, <2>2
<1>4. next[d] = fed[d]
  <2>1. /\ next[d] <= fed[d] /\ \A i \in DOMAIN wire : ~IsChunkOf(i, d)
        /\ \A n \in next[d]..(fed[d] - 1) : \E i \in DOMAIN wire : IsChunkOf(i, d) /\
              wire[i].seq = n
    BY DEF Wired, Fed
  <2>2. next[d] < fed[d] => next[d] \in next[d]..(fed[d] - 1)
    BY <1>1
  <2> QED
    BY <1>1, <2>1, <2>2
<1> QED
  BY <1>1, <1>2, <1>3, <1>4

(* Every action keeps what a child has read, and that the end of its       *)
(* input comes after all of it.                                            *)
LEMMA ReadStep == ExecTyped /\ (\A e \in Execs : Lives(e) /\ Slots(e) /\ Wired(e) /\ Relayed(e)
   /\ Queued(e) /\ Resizes(e) /\ Read(e)) /\ [Next]_vars => \A d \in Execs : Read(d)'
<1> SUFFICES ASSUME ExecTyped /\ (\A e \in Execs : Lives(e) /\ Slots(e) /\ Wired(e) /\
   Relayed(e) /\ Queued(e) /\ Resizes(e) /\ Read(e)) /\ [Next]_vars, NEW d \in Execs
             PROVE  Read(d)'
  OBVIOUS
<1>1. ASSUME NEW e \in Execs, Feed(e) PROVE Read(d)'
  <2>1. /\ UNCHANGED <<got, relay, mode, group, dropped>> /\ ended \subseteq ended'
        /\ e \notin ended /\ fed' = [fed EXCEPT ![e] = fed[e] + 1]
    BY <1>1 DEF Feed, tables, input, threads, supervisor
  <2>2. d \in ended => d \in ended' /\ fed'[d] = fed[d]
    BY <2>1 DEF ExecTyped, ClientTyped
  <2> QED
    BY <2>1, <2>2, ReadKept
<1>2. ASSUME NEW r \in Requests, Ask(r) PROVE Read(d)'
  <2>1. UNCHANGED <<got, relay, mode, group, dropped, fed>> /\ ended \subseteq ended'
    BY <1>2 DEF Ask, tables, input, supervisor
  <2> QED
    BY <2>1, ReadKept
<1>3. ASSUME NEW e \in Execs, Acquire(e) PROVE Read(d)'
  <2>1. /\ UNCHANGED <<got, relay, group, dropped, ended, fed>> /\ launch[e] = "new"
        /\ \E m \in Modes : mode' = [mode EXCEPT ![e] = m]
    BY <1>3 DEF Acquire, Launches, client, input, supervisor
  <2>2. relay[e] = "none" /\ (d # e => mode'[d] = mode[d])
    BY <2>1 DEF Relayed, Launched, ExecTyped, ThreadsTyped
  <2> QED
    BY <2>1, <2>2, ReadKept
<1>4. ASSUME NEW e \in Execs, LaunchFails(e) PROVE Read(d)'
  <2>1. UNCHANGED <<got, relay, mode, group, dropped, ended, fed>>
    BY <1>4 DEF LaunchFails, Launches, client, session, input, supervisor
  <2> QED
    BY <2>1, ReadKept
<1>5. ASSUME NEW e \in Execs, Spawn(e) PROVE Read(d)'
  <2>1. /\ UNCHANGED <<got, relay, mode, dropped, ended, fed>> /\ launch[e] = "permit"
        /\ group' = group \union {e}
    BY <1>5 DEF Spawn, Launches, client, input, tables
  <2>2. relay[e] = "none"
    BY <2>1 DEF Relayed, Launched
  <2> QED
    BY <2>1, <2>2, ReadKept
<1>6. ASSUME NEW e \in Execs, OpenInput(e) PROVE Read(d)'
  <2>1. /\ UNCHANGED <<got, mode, group, dropped, ended, fed>>
        /\ relay' = relay \/ relay' = [relay EXCEPT ![e] = "recv"]
    BY <1>6 DEF OpenInput, Launches, client, tables, supervisor
  <2>2. relay'[d] = "gone" => relay[d] = "gone"
    BY <2>1 DEF ExecTyped, InputTyped
  <2> QED
    BY <2>1, <2>2, ReadKept
<1>7. ASSUME NEW e \in Execs, Enter(e) PROVE Read(d)'
  <2>1. UNCHANGED <<got, relay, mode, group, dropped, ended, fed>>
    BY <1>7 DEF Enter, Launches, client, session, input, supervisor
  <2> QED
    BY <2>1, ReadKept
<1>8. ASSUME NEW e \in Execs, ReplyStarted(e) PROVE Read(d)'
  <2>1. /\ UNCHANGED <<got, mode, group, dropped, ended, fed>>
        /\ relay' = relay \/ relay' = [relay EXCEPT ![e] = "recv"]
    BY <1>8 DEF ReplyStarted, Launches, client, tables, supervisor
  <2>2. relay'[d] = "gone" => relay[d] = "gone"
    BY <2>1 DEF ExecTyped, InputTyped
  <2> QED
    BY <2>1, <2>2, ReadKept
<1>9. CASE PoisonChunk
  <2>1. UNCHANGED <<got, relay, mode, group, dropped, ended, fed>>
    BY <1>9 DEF PoisonChunk, Reads, IsChunk, tables, input, supervisor, threads
  <2> QED
    BY <2>1, ReadKept
<1>10. CASE RouteChunk
  <2> DEFINE c == Head(wire)
             e == c.chunk
  <2>1. c = wire[1] /\ 1 \in DOMAIN wire /\ IsChunkOf(1, e) /\ e \in Execs /\ wire # <<>>
    BY <1>10, Taken, FrameKinds DEF RouteChunk, IsChunk, Reads, IsChunkOf
  <2>2. /\ UNCHANGED <<got, relay, mode, group, ended, fed>>
        /\ dropped' = dropped \/ dropped' = [dropped EXCEPT ![e] = "pressure"]
    BY <1>10 DEF RouteChunk, supervisor, threads
  <2> HIDE DEF e, c
  <2>3. dropped'[d] = "no" => dropped[d] = "no"
    BY <2>1, <2>2 DEF ExecTyped, TablesTyped
  <2> QED
    BY <2>2, <2>3, ReadKept
<1>11. CASE AdmitRequest
  <2>1. UNCHANGED <<got, relay, mode, group, dropped, ended, fed>>
    BY <1>11 DEF AdmitRequest, Stays, Reads, IsChunk, tables, input, supervisor
  <2> QED
    BY <2>1, ReadKept
<1>12. CASE Leave
  <2>1. UNCHANGED <<got, relay, mode, group, dropped, ended, fed>>
    BY <1>12 DEF Leave, client, tables, input, supervisor, threads
  <2> QED
    BY <2>1, ReadKept
<1>13. ASSUME NEW r \in Requests, CloseRefused(r) PROVE Read(d)'
  <2>1. UNCHANGED <<got, relay, mode, group, dropped, ended, fed>>
    BY <1>13 DEF CloseRefused, Runs, client, session, tables, input, supervisor
  <2> QED
    BY <2>1, ReadKept
<1>14. ASSUME NEW r \in Requests, CloseFinds(r) PROVE Read(d)'
  <2>1. UNCHANGED <<got, relay, mode, group, dropped, ended, fed>>
    BY <1>14 DEF CloseFinds, Runs, client, session, tables, input, supervisor
  <2> QED
    BY <2>1, ReadKept
<1>15. ASSUME NEW r \in Requests, CloseDrops(r) PROVE Read(d)'
  <2>1. UNCHANGED <<got, relay, mode, group, dropped, ended, fed>>
    BY <1>15 DEF CloseDrops, Runs, client, session, input, supervisor
  <2> QED
    BY <2>1, ReadKept
<1>16. ASSUME NEW r \in Requests, Cancel(r) PROVE Read(d)'
  <2>1. UNCHANGED <<got, relay, mode, group, dropped, ended, fed>>
    BY <1>16 DEF Cancel, Runs, Revoke, LeaseAfter, client, session, input, supervisor
  <2> QED
    BY <2>1, ReadKept
<1>17. ASSUME NEW r \in Requests, ResizeRefused(r) PROVE Read(d)'
  <2>1. UNCHANGED <<got, relay, mode, group, dropped, ended, fed>>
    BY <1>17 DEF ResizeRefused, Runs, client, session, tables, input, supervisor
  <2> QED
    BY <2>1, ReadKept
<1>18. ASSUME NEW r \in Requests, ResizeFinds(r) PROVE Read(d)'
  <2>1. UNCHANGED <<got, relay, mode, group, dropped, ended, fed>>
    BY <1>18 DEF ResizeFinds, Runs, client, session, tables, input, supervisor
  <2> QED
    BY <2>1, ReadKept
<1>19. ASSUME NEW r \in Requests, ResizeQueues(r) PROVE Read(d)'
  <2>1. UNCHANGED <<got, relay, mode, group, dropped, ended, fed>>
    BY <1>19 DEF ResizeQueues, Runs, Full, Deaf, client, session, tables, supervisor
  <2> QED
    BY <2>1, ReadKept
<1>20. ASSUME NEW r \in Requests, ResizeFails(r) PROVE Read(d)'
  <2>1. UNCHANGED <<got, relay, mode, group, dropped, ended, fed>>
    BY <1>20 DEF ResizeFails, Runs, Revoke, LeaseAfter, Full, Deaf, client, session, input,
       supervisor
  <2> QED
    BY <2>1, ReadKept
<1>21. ASSUME NEW e \in Execs, RelayTakes(e) PROVE Read(d)'
  <2>1. /\ UNCHANGED <<got, mode, group, dropped, ended, fed>>
        /\ relay' = [relay EXCEPT ![e] = "write"]
    BY <1>21 DEF RelayTakes, Relays, client, tables, supervisor
  <2>2. relay'[d] = "gone" => relay[d] = "gone"
    BY <2>1 DEF ExecTyped, InputTyped
  <2> QED
    BY <2>1, <2>2, ReadKept
<1>22. ASSUME NEW e \in Execs, RelayCloses(e) PROVE Read(d)'
  <2>1. Leaves(e) \/ Continues(e, TRUE) \/ Continues(e, FALSE)
    BY <1>22 DEF RelayCloses, Continues
  <2>2. /\ UNCHANGED <<mode, group, dropped, ended, fed>>
        /\ d # e => relay'[d] = relay[d] /\ got'[d] = got[d]
    BY <2>1, <1>22, RelayTyped DEF RelayCloses, Relays, client, tables, supervisor, ExecTyped,
       InputTyped
  <2>3. CASE d # e
    BY <2>2, <2>3, ReadKept
  <2>4. CASE d = e
    <3>1. relay[d] = "recv" /\ queue[d] = <<>> /\ UNCHANGED got
          /\ d \notin inbound
      BY <1>22, <2>4 DEF RelayCloses, Relays, ChannelOver, Disconnected
    <3>2. mode[d] = "service" /\ dropped[d] = "no" => d \in ended /\ Len(got[d]) = fed[d]
      BY <3>1, AllRead
    <3> QED
      BY <2>2, <3>1, <3>2 DEF Read
  <2> QED
    BY <2>3, <2>4
<1>23. ASSUME NEW e \in Execs, ChildReads(e) PROVE Read(d)'
  <2>1. Leaves(e) \/ Continues(e, TRUE) \/ Continues(e, FALSE)
    BY <1>23 DEF ChildReads, Continues
  <2>2. /\ UNCHANGED <<mode, group, dropped, ended, fed>>
        /\ d # e => relay'[d] = relay[d] /\ got'[d] = got[d]
    BY <2>1, <1>23, RelayTyped DEF ChildReads, Relays, client, tables, supervisor, ExecTyped,
       InputTyped
  <2>3. CASE d # e
    BY <2>2, <2>3, ReadKept
  <2>4. CASE d = e
    <3>1. /\ relay[d] = "write" /\ hand[d].item \notin Requests
          /\ got' = [got EXCEPT ![d] = Append(got[d], hand[d].item)]
          /\ mode[d] = "service" => Continues(d, hand[d].last)
      BY <1>23, <2>4 DEF ChildReads, IsResize
    <3>2. hand[d].item = Len(got[d]) /\ hand[d].item \in Nat /\ got[d] \in Seq(Int)
      BY <3>1, BaseTyped DEF Queued, Held, ExecTyped, InputTyped
    <3>3. got'[d] = Append(got[d], Len(got[d])) /\ Len(got'[d]) = Len(got[d]) + 1
      BY <3>1, <3>2 DEF ExecTyped, InputTyped
    <3>4. got'[d] = [i \in 1..Len(got'[d]) |-> i - 1]
      <4>1. got[d] = [i \in 1..Len(got[d]) |-> i - 1]
        BY DEF Read
      <4>2. /\ DOMAIN got'[d] = 1..(Len(got[d]) + 1)
            /\ \A i \in 1..Len(got[d]) : got'[d][i] = got[d][i]
            /\ got'[d][Len(got[d]) + 1] = Len(got[d])
        BY <3>2, <3>3
      <4>3. ASSUME NEW i \in 1..(Len(got[d]) + 1) PROVE got'[d][i] = i - 1
        <5>1. CASE i \in 1..Len(got[d])
          BY <4>1, <4>2, <5>1
        <5>2. CASE i = Len(got[d]) + 1
          BY <3>2, <4>2, <5>2
        <5> QED
          BY <3>2, <5>1, <5>2
      <4>4. got'[d] = [i \in DOMAIN got'[d] |-> got'[d][i]]
        BY <3>3
      <4> QED
        BY <3>3, <4>2, <4>3, <4>4
    <3>5. mode[d] = "service" /\ relay'[d] = "gone" => d \in ended /\ Len(got'[d]) = fed[d]
      <4>1. mode[d] = "service" /\ relay'[d] = "gone" => hand[d].last
        BY <3>1 DEF Continues, ExecTyped, InputTyped
      <4>2. hand[d].last => d \in ended /\ hand[d].item = fed[d] - 1
        BY <3>2 DEF Queued, Held
      <4>3. fed[d] \in Nat
        BY DEF ExecTyped, ClientTyped
      <4> QED
        BY <3>2, <3>3, <4>1, <4>2, <4>3
    <3> QED
      BY <2>2, <3>4, <3>5 DEF Read
  <2> QED
    BY <2>3, <2>4
<1>24. ASSUME NEW e \in Execs, RelayFails(e) PROVE Read(d)'
  <2>1. Leaves(e) \/ Continues(e, TRUE) \/ Continues(e, FALSE)
    BY <1>24 DEF RelayFails, Continues
  <2>2. /\ UNCHANGED <<mode, group, dropped, ended, fed>>
        /\ d # e => relay'[d] = relay[d] /\ got'[d] = got[d]
    BY <2>1, <1>24, RelayTyped DEF RelayFails, Relays, client, tables, supervisor, ExecTyped,
       InputTyped
  <2>3. CASE d # e
    BY <2>2, <2>3, ReadKept
  <2>4. CASE d = e
    <3>1. d \notin group /\ UNCHANGED got
      BY <1>24, <2>4 DEF RelayFails
    <3> QED
      BY <2>2, <3>1 DEF Read
  <2> QED
    BY <2>3, <2>4
<1>25. ASSUME NEW e \in Execs, RelayResizes(e) PROVE Read(d)'
  <2>1. Leaves(e) \/ Continues(e, TRUE) \/ Continues(e, FALSE)
    BY <1>25 DEF RelayResizes, Continues
  <2>2. /\ UNCHANGED <<mode, group, dropped, ended, fed>>
        /\ d # e => relay'[d] = relay[d] /\ got'[d] = got[d]
    BY <2>1, <1>25, RelayTyped DEF RelayResizes, Relays, client, tables, supervisor, ExecTyped,
       InputTyped
  <2>3. CASE d # e
    BY <2>2, <2>3, ReadKept
  <2>4. CASE d = e
    <3>1. hand[d].item \in Requests /\ UNCHANGED got
      BY <1>25, <2>4 DEF RelayResizes, IsResize
    <3>2. mode[d] = "pty"
      BY <3>1 DEF Resizes, IsResizeOf
    <3> QED
      BY <2>2, <3>1, <3>2 DEF Read
  <2> QED
    BY <2>3, <2>4
<1>26. ASSUME NEW e \in Execs, ChildExits(e) PROVE Read(d)'
  <2>1. UNCHANGED <<got, relay, mode, dropped, ended, fed>> /\ group' \subseteq group
    BY <1>26 DEF ChildExits, client, tables, input, threads
  <2> QED
    BY <2>1, ReadKept
<1>27. ASSUME NEW e \in Execs, SeesRecord(e) PROVE Read(d)'
  <2>1. UNCHANGED <<got, relay, mode, group, dropped, ended, fed>>
    BY <1>27 DEF SeesRecord, Supervises, client, session, tables, input, threads
  <2> QED
    BY <2>1, ReadKept
<1>28. ASSUME NEW e \in Execs, SeesRevocation(e) PROVE Read(d)'
  <2>1. UNCHANGED <<got, relay, mode, group, dropped, ended, fed>>
    BY <1>28 DEF SeesRevocation, Supervises, client, session, tables, input, threads
  <2> QED
    BY <2>1, ReadKept
<1>29. ASSUME NEW e \in Execs, Terminate(e) PROVE Read(d)'
  <2>1. UNCHANGED <<got, relay, mode, group, dropped, ended, fed>>
    BY <1>29 DEF Terminate, Supervises, DrainOver, client, session, tables, input, threads
  <2> QED
    BY <2>1, ReadKept
<1>30. ASSUME NEW e \in Execs, KillGroup(e) PROVE Read(d)'
  <2>1. UNCHANGED <<got, relay, mode, dropped, ended, fed>> /\ group' \subseteq group
    BY <1>30 DEF KillGroup, Supervises, GroupAfterKill, client, tables, input, threads
  <2> QED
    BY <2>1, ReadKept
<1>31. ASSUME NEW e \in Execs, Reap(e) PROVE Read(d)'
  <2>1. UNCHANGED <<got, relay, mode, group, dropped, ended, fed>>
    BY <1>31 DEF Reap, Supervises, client, session, input, threads
  <2> QED
    BY <2>1, ReadKept
<1>32. ASSUME NEW e \in Execs, LeaveTable(e) PROVE Read(d)'
  <2>1. UNCHANGED <<got, relay, mode, group, dropped, ended, fed>>
    BY <1>32 DEF LeaveTable, Supervises, client, session, input, threads
  <2> QED
    BY <2>1, ReadKept
<1>33. ASSUME NEW e \in Execs, DropSlot(e) PROVE Read(d)'
  <2>1. /\ UNCHANGED <<got, relay, mode, group, ended, fed>>
        /\ dropped' = IF e \in inbound THEN [dropped EXCEPT ![e] = "settled"] ELSE dropped
    BY <1>33 DEF DropSlot, Supervises, client, input, threads
  <2>2. dropped'[d] = "no" => dropped[d] = "no"
    BY <2>1 DEF ExecTyped, TablesTyped
  <2> QED
    BY <2>1, <2>2, ReadKept
<1>34. ASSUME NEW e \in Execs, Publish(e) PROVE Read(d)'
  <2>1. UNCHANGED <<got, relay, mode, group, dropped, ended, fed>>
    BY <1>34 DEF Publish, Supervises, client, session, tables, input, threads
  <2> QED
    BY <2>1, ReadKept
<1>35. CASE Stop
  <2>1. UNCHANGED <<got, relay, mode, group, dropped, ended, fed>>
    BY <1>35 DEF Stop, client, tables, input, supervisor, threads
  <2> QED
    BY <2>1, ReadKept
<1>36. CASE Teardown
  <2>1. UNCHANGED <<got, relay, mode, group, dropped, ended, fed>>
    BY <1>36 DEF Teardown, Revoke, LeaseAfter, client, input, supervisor, threads
  <2> QED
    BY <2>1, ReadKept
<1>37. CASE Exit
  <2>1. UNCHANGED <<got, relay, mode, group, dropped, ended, fed>>
    BY <1>37 DEF Exit, client, tables, input, supervisor, threads
  <2> QED
    BY <2>1, ReadKept
<1>38. CASE UNCHANGED vars
  BY <1>38 DEF vars, Read, client, session, tables, input, supervisor, threads
<1>39. QED
  BY <1>1, <1>2, <1>3, <1>4, <1>5, <1>6, <1>7, <1>8, <1>9, <1>10, <1>11, <1>12, <1>13, <1>14,
     <1>15, <1>16, <1>17, <1>18, <1>19, <1>20, <1>21, <1>22, <1>23, <1>24, <1>25, <1>26, <1>27,
     <1>28, <1>29, <1>30, <1>31, <1>32, <1>33, <1>34, <1>35, <1>36, <1>37, <1>38 DEF Next,
     RequestRuns, LaunchRuns, RelayRuns, SettleRuns

-----------------------------------------------------------------------------
(* The invariant holds before anything was launched.                       *)
LEMMA ExecInit == Init => ExecInv
<1> SUFFICES ASSUME Init PROVE ExecInv
  OBVIOUS
<1>1. <<>> \in Seq(Frames) /\ <<>> \in Seq(Items) /\ <<>> \in Seq(Int) /\ Len(<<>>) = 0
  OBVIOUS
<1>2. Nothing \in Items /\ Nothing.item = -1
  BY DEF Nothing, Items
<1>3. ExecTyped
  BY <1>1, <1>2 DEF Init, ExecTyped, ClientTyped, TablesTyped, InputTyped, ThreadsTyped, 
     Launchings, Settlements
<1>4. ASSUME NEW e \in Execs PROVE Lives(e) /\ Slots(e) /\ Relayed(e) /\ Resizes(e) /\ Wired(e)
  <2>1. hand[e].item \notin Requests
    BY <1>2, ExecAssumption DEF Init
  <2> QED
    BY <2>1 DEF Init, Lives, Over, Slots, Fed, Launched, Relayed, Resizes, Wired
<1>5. ASSUME NEW e \in Execs PROVE Queued(e) /\ Read(e)
  <2>1. /\ relay[e] = "none" /\ hand[e] = Nothing /\ queue[e] = <<>> /\ got[e] = <<>>
        /\ next[e] = 0 /\ Base(e) = 0 /\ DOMAIN queue[e] = {}
    BY <1>1, <1>2 DEF Init, Base
  <2>2. got[e] = [i \in 1..Len(got[e]) |-> i - 1]
    BY <1>1, <2>1
  <2> QED
    BY <1>2, <2>1, <2>2 DEF Queued, Held, InOrder, NoGap, Read
<1>6. PoisonIsLate /\ \A r \in Requests : Closes(r)
  BY DEF Init, PoisonIsLate, Closes
<1> QED
  BY <1>3, <1>4, <1>5, <1>6 DEF ExecInv

(* Every step keeps it.                                                    *)
LEMMA ExecNext == ExecInv /\ [Next]_vars => ExecInv'
<1> SUFFICES ASSUME ExecInv, [Next]_vars PROVE ExecInv'
  OBVIOUS
<1>1. ExecTyped' /\ PoisonIsLate'
  BY TypesStep, PoisonStep DEF ExecInv
<1>2. \A e \in Execs : Lives(e)' /\ Slots(e)' /\ Wired(e)'
  BY LivesStep, SlotsStep, WiredStep DEF ExecInv
<1>3. \A e \in Execs : Relayed(e)' /\ Queued(e)'
  BY RelayedStep, QueuedStep DEF ExecInv
<1>4. \A e \in Execs : Resizes(e)' /\ Read(e)'
  BY ResizesStep, ReadStep DEF ExecInv
<1>5. \A r \in Requests : Closes(r)'
  BY ClosesStep DEF ExecInv
<1> QED
  BY <1>1, <1>2, <1>3, <1>4, <1>5 DEF ExecInv

(* It holds in every reachable state.                                      *)
LEMMA ExecHolds == Spec => []ExecInv
<1> QED
  BY ExecInit, ExecNext, PTL DEF Spec

-----------------------------------------------------------------------------
(* Only the teardown takes the session to its drain.                       *)
LEMMA DrainFollowsTeardown ==
  ASSUME [Next]_vars, reader # "drain", reader' = "drain"
  PROVE  Teardown
<1>1. ASSUME NEW e \in Execs,
             Feed(e) \/ Acquire(e) \/ LaunchFails(e) \/ Spawn(e) \/ LaunchRuns(e)
      PROVE  FALSE
  BY <1>1 DEF Feed, Acquire, LaunchFails, Spawn, LaunchRuns, OpenInput, Enter, ReplyStarted,
     Launches, session
<1>2. ASSUME NEW e \in Execs, ChildReads(e) \/ RelayRuns(e) \/ ChildExits(e) PROVE FALSE
  BY <1>2 DEF ChildReads, RelayRuns, RelayTakes, RelayCloses, RelayFails, RelayResizes,
     ChildExits, Relays, session
<1>3. ASSUME NEW e \in Execs, SettleRuns(e) PROVE FALSE
  BY <1>3 DEF SettleRuns, SeesRecord, SeesRevocation, Terminate, KillGroup, Reap, LeaveTable,
     DropSlot, Publish, Supervises, session
<1>4. ASSUME NEW r \in Requests, Ask(r) \/ RequestRuns(r) PROVE FALSE
  BY <1>4 DEF Ask, RequestRuns, CloseRefused, CloseFinds, CloseDrops, Cancel, ResizeRefused,
     ResizeFinds, ResizeQueues, ResizeFails, Runs, session
<1>5. ASSUME PoisonChunk \/ RouteChunk \/ AdmitRequest \/ Leave \/ Stop \/ Exit PROVE FALSE
  BY <1>5 DEF PoisonChunk, RouteChunk, AdmitRequest, Leave, Stop, Exit, Stays
<1>6. CASE UNCHANGED vars
  BY <1>6 DEF vars, session
<1> QED
  BY <1>1, <1>2, <1>3, <1>4, <1>5, <1>6 DEF Next

(* The teardown revokes every running child that has been entered in the   *)
(* table, for any execs and control requests: an exec leaves the table     *)
(* unrevoked only when its child has been reaped.  A child whose launch is *)
(* still under way is not among them.                                      *)
THEOREM TeardownReachesAll == Spec => TeardownRevokes
<1> DEFINE Reached == reader # "drain" /\ reader' = "drain" =>
      \A e \in Execs : launch[e] \in {"entered", "started"} /\ child[e] = "running"
        => e \in lease'
<1>1. ExecInv /\ [Next]_vars => Reached
  <2> SUFFICES ASSUME ExecInv, [Next]_vars, reader # "drain", reader' = "drain",
                      NEW e \in Execs, launch[e] \in {"entered", "started"},
                      child[e] = "running"
               PROVE  e \in lease'
    OBVIOUS
  <2>1. lease' = lease \union entries
    BY DrainFollowsTeardown DEF Teardown, Revoke, LeaseAfter
  <2>2. e \in entries \union lease
    BY DEF ExecInv, Lives, Over
  <2> QED
    BY <2>1, <2>2
<1>2. ExecInv /\ [Next]_vars => [Reached]_vars
  BY <1>1
<1> QED
  BY <1>2, ExecHolds, PTL DEF Spec, TeardownRevokes

(* A revocation that comes when the child has exited does not take its     *)
(* exit status away: the supervisor sees the record before the drain ends. *)
THEOREM ExitIsKept == Spec => []ExitWins
<1>1. ExecInv => ExitWins
  BY DEF ExecInv, ExitWins, Lives, ExecTyped, TablesTyped
<1> QED
  BY <1>1, ExecHolds, PTL

(* A reaped child leaves no member of its group, and an exec that settled  *)
(* by itself neither an entry nor a sender of its input.                   *)
THEOREM GroupsEnd == Spec => []NothingLeftBehind
<1>1. ExecInv => NothingLeftBehind
  BY DEF ExecInv, NothingLeftBehind, Lives, Slots, Over, ExecTyped, TablesTyped
<1> QED
  BY <1>1, ExecHolds, PTL

(* The read loop ends the session over a chunk only when its slot has gone *)
(* under pressure or at settlement.                                        *)
THEOREM PoisonComesLate == Spec => []PoisonIsLate
<1>1. ExecInv => PoisonIsLate
  BY DEF ExecInv
<1> QED
  BY <1>1, ExecHolds, PTL

(* Whatever is dropped, a child reads a prefix of what the client wrote;   *)
(* and when a service sees the end of its input it has read all of it.     *)
THEOREM InputArrivesWhole == Spec => []InputWhole
<1>1. ExecInv => InputWhole
  BY DEF ExecInv, InputWhole, Read
<1> QED
  BY <1>1, ExecHolds, PTL
=============================================================================
