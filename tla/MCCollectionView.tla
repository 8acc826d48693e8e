--------------------------- MODULE MCCollectionView ---------------------------
(* Two small instances of CollectionView for TLC.  A word of one character  *)
(* of two bytes, edited, undone, reloaded, kept by a session and changed by *)
(* plans; or a listing of three lines under a collection of the first and   *)
(* the last.  Edits come early, so that undo, redo and jumps have room.     *)
EXTENDS CollectionView

Word == <<"L", "C">>
Other == <<"b">>
Listing == <<"x", "n", "y", "n", "z">>

MCPayloads == {<<"a">>, <<"n">>}
MCFiles == {Word, Other, Listing}
Span(s, e) == [start |-> s, end |-> e]
MCSpans == (Word :> {<<>>}) @@ (Other :> {<<>>}) @@ (Listing :> {<<Span(0, 2), Span(4, 5)>>})

MaxWord == 3        \* bound: bytes of an edited word
Before(n) == restarts = 0 /\ buf.epoch < n

WordEdits ==
  {r \in ReplacementsOf(buf.text) :
     r.text # <<"n">> /\ Len(Substitute(buf.text, r)) <= MaxWord}
OnWord == view = Closed
WordEdit ==
  /\ OnWord /\ Before(IF plan = None /\ receipts = <<>> THEN 4 ELSE 3)
  /\ \E r \in WordEdits : UserEdit(r) /\ Quiet
WordBatch == OnWord /\ Before(1) /\ \E q, r \in WordEdits : Batch(<<q, r>>) /\ Quiet
WordPlan ==
  /\ OnWord
  /\ \/ Before(1) /\ \E r \in WordEdits : Prepare(<<r>>)
     \/ Before(1) /\ \E q, r \in WordEdits : Prepare(<<q, r>>)
     \/ Before(2) /\ receipts = <<>> /\ Prepare(<<>>)
     \/ Before(2) /\ receipts = <<>> /\ Prepare(<<Replacement(0, 0, <<"a">>)>>)
WordClose == OnWord /\ CloseGroup /\ Quiet
WordJump == OnWord /\ \E k \in DOMAIN buf.history.tree : Jump(k) /\ Quiet
WordReload == OnWord /\ Before(2) /\ ViewReload(Other)
WordRestart == OnWord /\ \E w \in {Word, buf.text} : ViewRestart(w)

LineEdits ==
  {r \in ReplacementsOf(buf.text) :
     /\ r.end - r.start <= 2
     /\ buf.epoch = 2 => r.text # <<"a">>}
LineEdit == ~OnWord /\ Before(3) /\ \E r \in LineEdits : UserEdit(r) /\ Quiet
LineBatch == ~OnWord /\ Before(1) /\ \E q, r \in LineEdits : Batch(<<q, r>>) /\ Quiet
LineReload == ~OnWord /\ Before(3) /\ ViewReload(Listing)

ScenarioInit == ViewInit /\ buf.text \in {Word, Listing}
ScenarioNext ==
  \/ WordEdit \/ WordBatch \/ WordClose \/ WordJump \/ WordReload \/ WordRestart
  \/ WordPlan \/ ApplyPlan \/ RefusePlan \/ UndoChange
  \/ LineEdit \/ LineBatch \/ LineReload
  \/ Undo /\ Quiet
  \/ Redo /\ Quiet
  \/ Sync
ScenarioSpec == ScenarioInit /\ [][ScenarioNext]_vars
===============================================================================
