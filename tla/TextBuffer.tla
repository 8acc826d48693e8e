----------------------------- MODULE TextBuffer -----------------------------
(* One editor buffer: its text, the tree of its undo revisions with the     *)
(* group still open, the journal of the current mutation lease, and what a  *)
(* session keeps of its history.  Positions are byte offsets: the text is a *)
(* sequence of bytes, "n" ends a line, "C" is the second byte of a          *)
(* character.                                                               *)
EXTENDS Integers, SequencesExt

CONSTANTS
  Payloads,     \* what users and tools type: a set of texts
  Files,        \* what a file may hold when it is opened or reloaded
  MaxEpoch,     \* the last revision number of a buffer (u64::MAX)
  MaxLen,       \* bound: bytes of the text
  MaxRestarts,  \* bound: sessions after the first
  UndoCap,      \* revisions a session keeps (UNDO_CAP)
  UndoBytes     \* bytes of edits a session keeps (UNDO_BYTES)

Bytes == UNION {{t[i] : i \in DOMAIN t} : t \in Files \union Payloads}

(* What is typed and what is in a file is a sequence of whole characters.   *)
ASSUME TextConstants ==
  /\ {MaxEpoch, MaxLen, MaxRestarts, UndoCap, UndoBytes} \subseteq Nat
  /\ Files \union Payloads \subseteq Seq(Bytes) /\ "?" \notin Bytes
  /\ \A t \in Files \union Payloads : t # <<>> => t[1] # "C"
  /\ <<>> \notin Payloads

VARIABLES
  buf,          \* [text, epoch, history, changes]
  leased,       \* ghost: the text when the current lease was taken
  texts,        \* ghost: the text every revision was committed with
  restarts      \* bound counter

textVars == <<buf, leased, texts, restarts>>

(* F(x), with x computed once.                                              *)
With(x, F(_)) == CHOOSE y \in {F(v) : v \in {x}} : TRUE

-----------------------------------------------------------------------------
(* Text.                                                                    *)

Boundary(t, p) == p \in 0..Len(t) /\ (p < Len(t) => t[p + 1] # "C")
Lines(t) == Len(SelectSeq(t, LAMBDA c : c = "n"))
LineOf(t, p) == Lines(SubSeq(t, 1, p))
Substitute(t, r) == SubSeq(t, 1, r.start) \o r.text \o SubSeq(t, r.end + 1, Len(t))

Replacement(s, e, w) == [start |-> s, end |-> e, text |-> w]

(* The ranges and texts an edit may name; an empty one does nothing.        *)
ReplacementsOf(t) ==
  {r \in [start : 0..Len(t), end : 0..Len(t), text : Payloads \union {<<>>}] :
     /\ r.start <= r.end /\ Boundary(t, r.start) /\ Boundary(t, r.end)
     /\ r.start < r.end \/ r.text # <<>>
     /\ Len(t) - (r.end - r.start) + Len(r.text) <= MaxLen}

-----------------------------------------------------------------------------
(* History: a tree of revisions rooted at 0.  `last' is the child visited   *)
(* last, 0 when there is none; undo and redo are the open group.            *)

Root == [parent |-> 0, last |-> 0, undo |-> <<>>, redo |-> <<>>]
NewHistory == [tree |-> [k \in {0} |-> Root], at |-> 0, undo |-> <<>>, redo |-> <<>>]

Edit(k, p, w) == [kind |-> k, at |-> p, text |-> w]

Record(h, undo, redo) == [h EXCEPT !.undo = Append(@, undo), !.redo = Append(@, redo)]

(* A replacement is recorded as a removal and an insertion at one place.    *)
Recorded(h, r, removed) ==
  LET cut == IF removed = <<>> THEN h
             ELSE Record(h, Edit("insert", r.start, removed), Edit("delete", r.start, removed))
  IN  IF r.text = <<>> THEN cut
      ELSE Record(cut, Edit("delete", r.start, r.text), Edit("insert", r.start, r.text))

(* The function f with one more argument.                                   *)
Extended(f, new, value) == [k \in DOMAIN f \union {new} |-> IF k = new THEN value ELSE f[k]]

Committed(h) ==
  LET n == Cardinality(DOMAIN h.tree)
      revision == [parent |-> h.at, last |-> 0, undo |-> h.undo, redo |-> h.redo]
  IN  IF h.undo = <<>> THEN h
      ELSE [tree |-> Extended([h.tree EXCEPT ![h.at].last = n], n, revision),
            at |-> n, undo |-> <<>>, redo |-> <<>>]

(* The way from a revision to the root, and where two ways meet.            *)
Chain(tree, k) ==
  LET up[i \in DOMAIN tree] == IF i = 0 THEN <<0>> ELSE <<i>> \o up[tree[i].parent]
  IN  up[k]
Above(tree, k) == Range(Chain(tree, k))
Fork(tree, j, k) == Max(Above(tree, j) \intersect Above(tree, k))

UndoOpsInOrder(revision) == revision.undo       \* mutant of UndoOps
UndoOps(revision) == Reverse(revision.undo)

(* The edits on the way up to a fork, and down from it.                     *)
UndoneTo(tree, fork, from) ==
  LET ops[k \in DOMAIN tree] ==
        IF k \in {0, fork} THEN <<>> ELSE UndoOps(tree[k]) \o ops[tree[k].parent]
  IN  ops[from]
RedoneFrom(tree, fork, to) ==
  LET ops[k \in DOMAIN tree] ==
        IF k \in {0, fork} THEN <<>> ELSE ops[tree[k].parent] \o tree[k].redo
  IN  ops[to]
OpsTo(h, target) ==
  LET fork == Fork(h.tree, h.at, target)
  IN  UndoneTo(h.tree, fork, h.at) \o RedoneFrom(h.tree, fork, target)

(* Both legs leave a trail of last children; at the fork the way down is    *)
(* the later one.                                                           *)
Leg(tree, fork, k) == {c \in Above(tree, k) : c > fork}
Visit(tree, leg) ==
  [k \in DOMAIN tree |->
     IF \E c \in leg : tree[c].parent = k
     THEN [tree[k] EXCEPT !.last = CHOOSE c \in leg : tree[c].parent = k] ELSE tree[k]]
Moved(h, target) ==
  LET fork == Fork(h.tree, h.at, target)
      up == Leg(h.tree, fork, h.at)
      down == Leg(h.tree, fork, target)
  IN  [h EXCEPT !.at = target, !.tree = Visit(Visit(@, up), down)]

(* What a history move costs in revision numbers, or None: an open group is *)
(* what undo takes back, and it leaves nothing to redo.                     *)
Refused == -1
PathCost(h, target) == Len(h.undo) + Len(OpsTo(h, target))
UndoCost(h) ==
  IF h.undo # <<>> THEN Len(h.undo)
  ELSE IF h.at # 0 THEN Len(h.tree[h.at].undo) ELSE Refused
RedoCost(h) ==
  IF h.undo = <<>> /\ h.tree[h.at].last # 0 THEN Len(h.tree[h.tree[h.at].last].redo) ELSE Refused
JumpCost(h, target) == IF target \in DOMAIN h.tree THEN PathCost(h, target) ELSE Refused

-----------------------------------------------------------------------------
(* The buffer: every change gets a revision number and leaves its geometry  *)
(* in the journal.                                                          *)

NewBuffer(t) == [text |-> t, epoch |-> 0, history |-> NewHistory, changes |-> <<>>]

Change(t, r) ==
  [start |-> r.start, oldEnd |-> r.end, newEnd |-> r.start + Len(r.text),
   row |-> LineOf(t, r.start), oldRow |-> LineOf(t, r.end),
   newRow |-> LineOf(t, r.start) + Lines(r.text)]

Published(b, r) ==
  [b EXCEPT !.text = Substitute(@, r), !.epoch = @ + 1, !.changes = Append(@, Change(b.text, r))]

Edited(b, r) ==
  [Published(b, r) EXCEPT !.history = Recorded(@, r, SubSeq(b.text, r.start + 1, r.end))]

(* A history move neither records nor opens a group.                        *)
AsReplacement(op) ==
  IF op.kind = "insert" THEN Replacement(op.at, op.at, op.text)
  ELSE Replacement(op.at, op.at + Len(op.text), <<>>)

Travelled(b, target) ==
  LET h == Committed(b.history)
      ops == OpsTo(h, target)
      run[i \in 0..Len(ops)] ==
        IF i = 0 THEN [b EXCEPT !.history = Moved(h, target)]
        ELSE Published(run[i - 1], AsReplacement(ops[i]))
  IN  run[Len(ops)]

(* A batch refers to one text: sorted, disjoint, with different starts, and *)
(* applied from the back.                                                   *)
BatchOk(edits) ==
  \A i \in 2..Len(edits) :
    edits[i - 1].start < edits[i].start /\ edits[i - 1].end <= edits[i].start
FromBack(edits, i) == edits[Len(edits) + 1 - i]
BatchEdited(b, edits) ==
  LET run[i \in 0..Len(edits)] ==
        IF i = 0 THEN b ELSE Edited(run[i - 1], FromBack(edits, i))
  IN  run[Len(edits)]
Replaced(t, edits) ==
  LET run[i \in 0..Len(edits)] ==
        IF i = 0 THEN t ELSE Substitute(run[i - 1], FromBack(edits, i))
  IN  run[Len(edits)]

Commit(b) == [b EXCEPT !.history = Committed(@)]

-----------------------------------------------------------------------------
(* What is derived from a journal: where a position goes, and replacements  *)
(* of the text before the lease that have the effect of all its changes.    *)

MapPositionLeft(p, c) ==                        \* mutant of MapPosition
  IF p <= c.start THEN p
  ELSE IF p >= c.oldEnd THEN c.newEnd + (p - c.oldEnd) ELSE c.start
MapPosition(p, c) ==
  IF p < c.start THEN p
  ELSE IF p >= c.oldEnd THEN c.newEnd + (p - c.oldEnd)
  ELSE c.start
Mapped(p, changes) ==
  LET run[i \in 0..Len(changes)] == IF i = 0 THEN p ELSE MapPosition(run[i - 1], changes[i])
  IN  run[Len(changes)]

(* Where the bytes of the text come from: the number of a byte before the   *)
(* lease, or Typed.                                                         *)
Typed == 0
Carried(from, c) ==
  SubSeq(from, 1, c.start) \o [i \in 1..(c.newEnd - c.start) |-> Typed]
    \o SubSeq(from, c.oldEnd + 1, Len(from))
Origins(n, changes) ==
  LET run[i \in 0..Len(changes)] ==
        IF i = 0 THEN [k \in 1..n |-> k] ELSE Carried(run[i - 1], changes[i])
  IN  run[Len(changes)]

(* A walk through the text, to byte i and where it comes from: the bytes    *)
(* since the last one that stayed, at `kept', replace the bytes after its   *)
(* place before the lease, `original'.                                      *)
Walked(w, t, from, i) ==
  IF from = Typed THEN w
  ELSE [edits |-> IF w.original = from - 1 /\ w.kept = i - 1 THEN w.edits
                  ELSE Append(w.edits, Replacement(w.original, from - 1, SubSeq(t, w.kept + 1, i - 1))),
        original |-> from, kept |-> i]
ReplacementsIn(t, n, changes) ==
  LET from == Append(Origins(n, changes), n + 1)
      run[i \in 0..Len(from)] ==
        IF i = 0 THEN [edits |-> <<>>, original |-> 0, kept |-> 0]
        ELSE Walked(run[i - 1], t, from[i], i)
  IN  run[Len(from)].edits

-----------------------------------------------------------------------------
(* What a session keeps: the newest straight path, open group first, within *)
(* both bounds; nothing when the newest step alone is too large.            *)

Size(ops) ==
  LET sum[i \in 0..Len(ops)] == IF i = 0 THEN 0 ELSE sum[i - 1] + Len(ops[i].text)
  IN  sum[Len(ops)]
TotalSize(steps, n) ==
  LET sum[i \in 0..n] == IF i = 0 THEN 0 ELSE sum[i - 1] + Size(steps[i].undo \o steps[i].redo)
  IN  sum[n]

Path(h) ==
  LET up == Chain(h.tree, h.at)
      nodes == [i \in 1..(Len(up) - 1) |-> [undo |-> h.tree[up[i]].undo, redo |-> h.tree[up[i]].redo]]
  IN  IF h.undo = <<>> THEN nodes ELSE <<[undo |-> h.undo, redo |-> h.redo]>> \o nodes

Fits(steps, n) == n <= UndoCap /\ TotalSize(steps, n) <= UndoBytes
Longest(steps) ==
  SubSeq(steps, 1, CHOOSE n \in 0..Len(steps) :
                     Fits(steps, n) /\ (n < Len(steps) => ~Fits(steps, n + 1)))

KeptSkipping(h) ==                              \* mutant of Kept
  LET path == Path(h)
  IN  Longest(IF h.undo # <<>> /\ ~Fits(path, 1) THEN Tail(path) ELSE path)
Kept(h) == Longest(Path(h))

Snapshot(h) ==
  LET steps == Reverse(Kept(h))
      n == Len(steps)
  IN  [tree |-> [k \in 0..n |->
                   [parent |-> IF k = 0 THEN 0 ELSE k - 1, last |-> IF k = n THEN 0 ELSE k + 1,
                    undo |-> IF k = 0 THEN <<>> ELSE steps[k].undo,
                    redo |-> IF k = 0 THEN <<>> ELSE steps[k].redo]],
       at |-> n, undo |-> <<>>, redo |-> <<>>]

(* Replaying edits on a text checks ranges and removed bytes.               *)
Applies(t, op) ==
  /\ Boundary(t, op.at)
  /\ op.kind = "delete" =>
       /\ Boundary(t, op.at + Len(op.text))
       /\ SubSeq(t, op.at + 1, op.at + Len(op.text)) = op.text
Unfit == <<"?">>
Checked(t, op) ==
  IF t # Unfit /\ Applies(t, op) THEN Substitute(t, AsReplacement(op)) ELSE Unfit
After(t, ops) ==
  LET run[i \in 0..Len(ops)] == IF i = 0 THEN t ELSE Checked(run[i - 1], ops[i])
  IN  run[Len(ops)]

(* The text of revision k: back from the text t to the root, then forward.  *)
Replay(h, t, k) ==
  After(t, Reverse(h.undo) \o UndoneTo(h.tree, 0, h.at) \o RedoneFrom(h.tree, 0, k))
Replays(h, t) == [k \in DOMAIN h.tree |-> Replay(h, t, k)]

ValidFor(h, t) ==
  \E seen \in {Replays(h, t)} :
    /\ h.undo = <<>> /\ seen[h.at] = t
    /\ \A k \in DOMAIN h.tree \ {0} :
         /\ seen[k] # Unfit
         /\ After(seen[k], Reverse(h.tree[k].undo)) = seen[h.tree[k].parent]

-----------------------------------------------------------------------------
(* A mutation lease publishes its journal when it is released: no other     *)
(* operation of the buffer happens before.                                  *)

Idle == buf.changes = <<>>
Fresh(n) == buf.epoch + n <= MaxEpoch

Init ==
  /\ \E t \in Files : buf = NewBuffer(t)
  /\ leased = buf.text
  /\ texts = [k \in {0} |-> buf.text]
  /\ restarts = 0

(* An operation leaves the buffer b; a revision it commits has the text t.  *)
Lease(b, t) ==
  /\ buf' = b
  /\ leased' = buf.text
  /\ texts' = [k \in DOMAIN b.history.tree |-> IF k \in DOMAIN texts THEN texts[k] ELSE t]
  /\ UNCHANGED restarts

(* Typing and commands edit inside a group that their end closes.           *)
UserEdit(r) == Idle /\ Fresh(1) /\ Lease(Edited(buf, r), buf.text)
CloseGroup == Idle /\ Lease(Commit(buf), buf.text)

Batch(edits) ==
  /\ Idle /\ edits # <<>> /\ BatchOk(edits) /\ Fresh(Len(edits))
  /\ \E undoOpen \in BOOLEAN, b \in {BatchEdited(buf, edits)} :
       /\ Len(b.text) <= MaxLen
       /\ Lease(IF undoOpen THEN b ELSE Commit(b), b.text)

Move(cost, target) ==
  /\ Idle /\ cost # Refused /\ Fresh(cost)
  /\ \E b \in {Travelled(buf, target)} : Lease(b, buf.text)
Undo ==
  LET h == buf.history
  IN  Move(UndoCost(h), IF h.undo # <<>> THEN h.at ELSE h.tree[h.at].parent)
Redo == Move(RedoCost(buf.history), buf.history.tree[buf.history.at].last)
Jump(k) == Move(JumpCost(buf.history, k), k)

(* A reload or another snapshot of the source replaces text and history.    *)
Snapshotted(b, w) ==
  [Published(b, Replacement(0, Len(b.text), w)) EXCEPT !.history = NewHistory]
Reload(w) ==
  /\ Idle /\ Fresh(1)
  /\ buf' = Snapshotted(buf, w)
  /\ leased' = buf.text /\ texts' = [k \in {0} |-> w] /\ UNCHANGED restarts

(* The editor ends and starts again on what the file holds then.            *)
Restored(w) ==
  [NewBuffer(w) EXCEPT !.history =
     IF w = buf.text /\ ValidFor(Snapshot(buf.history), w) THEN Snapshot(buf.history) ELSE @]
Restart(w) ==
  /\ Idle /\ restarts < MaxRestarts
  /\ restarts' = restarts + 1
  /\ buf' = Restored(w) /\ leased' = w
  /\ LET kept == buf'.history.at
         live == Committed(buf.history)
         line == Chain(live.tree, live.at)
     IN  texts' = [k \in 0..kept |-> IF k = kept THEN w ELSE texts[line[kept + 1 - k]]]

Release ==
  /\ ~Idle
  /\ buf' = [buf EXCEPT !.changes = <<>>]
  /\ leased' = buf.text
  /\ UNCHANGED <<texts, restarts>>

Next ==
  \/ \E r \in ReplacementsOf(buf.text) : UserEdit(r)
  \/ \E edits \in Seq(ReplacementsOf(buf.text)) : Batch(edits)
  \/ CloseGroup
  \/ Undo \/ Redo
  \/ \E k \in DOMAIN buf.history.tree : Jump(k)
  \/ \E w \in Files : Reload(w)
  \/ \E w \in Files \union {buf.text} : Restart(w)
  \/ Release

Spec == Init /\ [][Next]_textVars

-----------------------------------------------------------------------------
(* The history implements the abstract tree.                                *)

Tree == INSTANCE UndoTree WITH
  Texts <- Seq(Bytes),
  tree <- [texts |-> texts,
           parent |-> [k \in DOMAIN buf.history.tree |-> buf.history.tree[k].parent],
           through |-> [k \in DOMAIN buf.history.tree |-> buf.history.tree[k].last],
           at |-> buf.history.at],
  shown <- buf.text,
  drafted <- buf.history.undo # <<>>

(* Undo, redo and jumps through the revision tree show the text that was    *)
(* committed at the revision they reach, whatever was edited, batched,      *)
(* undone or reopened since, and redo follows the branch visited last.      *)
KeepsTree == Tree!Spec

(* While a lease is open, its journal accounts for all of it: the composed  *)
(* replacements are sorted and disjoint, turn the text before the lease     *)
(* into the text now when all are applied at once, and leave alone every    *)
(* byte that no change removed; and each such byte is where the mapping of  *)
(* positions says.                                                          *)
JournalComposes ==
  LET n == Len(leased)
      from == Origins(n, buf.changes)
      edits == ReplacementsIn(buf.text, n, buf.changes)
      Covered(i) == \E k \in DOMAIN edits : edits[k].start < i /\ i <= edits[k].end
  IN  /\ BatchOk(edits)
      /\ Replaced(leased, edits) = buf.text
      /\ \A i \in 1..n : Covered(i) <=> i \notin Range(from)
      /\ \A q \in DOMAIN from : from[q] # Typed => Mapped(from[q] - 1, buf.changes) = q - 1

(* What a session keeps of a history is valid for the text it was taken     *)
(* with, and walking it back shows the texts the live history would show.   *)
SnapshotRestores ==
  LET kept == Snapshot(buf.history)
      live == Committed(buf.history)
      line == Chain(live.tree, live.at)
  IN  /\ ValidFor(kept, buf.text)
      /\ \A k \in 0..kept.at :
           Replay(kept, buf.text, k) = Replay(live, buf.text, line[kept.at + 1 - k])
=============================================================================
