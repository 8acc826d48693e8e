--------------------------- MODULE CollectionView ---------------------------
(* A collection shows excerpts of a buffer in a generated view and keeps    *)
(* the view up to date from the journals of the buffer; change plans and    *)
(* their grouped undo edit the buffer under it.  One source, so one card.   *)
EXTENDS TextBuffer

CONSTANTS
  Spans,      \* the excerpts a collection of a file may open with
  Retained    \* receipts that are kept (RETAINED)

ASSUME ViewConstants == Retained \in Nat \ {0}

VARIABLES
  view,      \* [text, rows, excerpts], Closed when there is no collection
  plan,      \* [base, edits, text]: prepared edits and, ghost, their text
  receipts   \* what :undo-change takes back, newest last: [position, text, owned]

vars == <<textVars, view, plan, receipts>>

None == <<>>
Closed == [text |-> <<>>, rows |-> <<>>, excerpts |-> <<>>]
Stale == [Closed EXCEPT !.text = <<"!">>]

-----------------------------------------------------------------------------
(* The rendering: a title, the card's top, the excerpts with the number of  *)
(* lines left out between them, the card's bottom.                          *)

Padded(t) == IF t = <<>> \/ t[Len(t)] # "n" THEN Append(t, "n") ELSE t
Body(t, e) == Padded(SubSeq(t, e.start + 1, e.end))
Chrome(v, role, token) ==
  [v EXCEPT !.text = @ \o <<token, "n">>, !.rows = Append(@, role)]

Shown(v, t, e) ==
  LET body == Body(t, e)
      excerpt == [start |-> e.start, end |-> e.end,
                  viewStart |-> Len(v.text), viewEnd |-> Len(v.text) + Len(body),
                  viewLine |-> Len(v.rows) - 1, viewLines |-> Lines(body)]
  IN  [text |-> v.text \o body,
       rows |-> v.rows \o [i \in 1..Lines(body) |-> "body"],
       excerpts |-> Append(v.excerpts, excerpt)]

Gap(t, before, e) == ToString(IF LineOf(t, e.start) > LineOf(t, before.end)
                              THEN LineOf(t, e.start) - LineOf(t, before.end) ELSE 0)

Render(t, spans) ==
  LET top == Chrome(Chrome(Closed, "title", "#"), "top", "#")
      shown[i \in 0..Len(spans)] ==
        IF i = 0 THEN top
        ELSE With(shown[i - 1], LAMBDA v :
               Shown(IF i = 1 THEN v ELSE Chrome(v, "gap", Gap(t, spans[i - 1], spans[i])),
                     t, spans[i]))
  IN  Chrome(shown[Len(spans)], "bottom", "#")

-----------------------------------------------------------------------------
(* The spans of the excerpts follow every change of the journal.            *)

Delta(c) == c.newEnd - c.oldEnd
SpanStart(p, c) ==
  IF p <= c.start THEN p ELSE IF p >= c.oldEnd THEN p + Delta(c) ELSE c.start
SpanEnd(p, c) ==
  IF p < c.start THEN p
  ELSE IF p > c.oldEnd \/ (p = c.oldEnd /\ c.start < c.oldEnd) THEN p + Delta(c)
  ELSE c.newEnd
Followed(excerpts, changes) ==
  [i \in DOMAIN excerpts |->
     [excerpts[i] EXCEPT !.start = FoldLeft(SpanStart, @, changes),
                         !.end = FoldLeft(SpanEnd, @, changes)]]

-----------------------------------------------------------------------------
(* What a journal means for the view: the edits of the view, or a rebuild   *)
(* when a replacement crosses the border of an excerpt or may change the    *)
(* number of lines left out.                                                *)

Touches(r, e) == ~(r.end < e.start \/ r.start > e.end \/ (r.end = e.start /\ r.start < r.end))
Inside(r, e) == e.start <= r.start /\ r.end <= e.end

InGap(r, excerpts) ==
  /\ \E i \in DOMAIN excerpts : r.start < excerpts[i].end
  /\ \E i \in DOMAIN excerpts : r.end > excerpts[i].start
  /\ \A i \in DOMAIN excerpts : ~Inside(r, excerpts[i])

Rebuilds(excerpts, edits, changes) ==
  \/ \E i \in DOMAIN excerpts, k \in DOMAIN edits :
       Touches(edits[k], excerpts[i]) /\ ~Inside(edits[k], excerpts[i])
  \/ /\ \E k \in DOMAIN changes : changes[k].oldRow # changes[k].newRow
     /\ \E k \in DOMAIN edits : InGap(edits[k], excerpts)

(* The edits of the view, and whether each reaches the end of its excerpt.  *)
ViewEdit(r, e, i) ==
  [start |-> e.viewStart + r.start - e.start,
   end |-> IF r.end = e.end THEN e.viewEnd ELSE e.viewStart + r.end - e.start,
   text |-> r.text,
   ends |-> IF r.end = e.end THEN i ELSE 0]
ViewEdits(excerpts, edits) ==
  FlattenSeq([i \in DOMAIN excerpts |->
    LET mine == SelectSeq(edits, LAMBDA r : Touches(r, excerpts[i]))
    IN  [k \in DOMAIN mine |-> ViewEdit(mine[k], excerpts[i], i)]])

(* An excerpt always ends a line of the view.                               *)
TerminatedNever(edit, excerpts, t) == edit      \* mutant of Terminated
Terminated(edit, excerpts, t) ==
  LET e == excerpts[edit.ends]
      open == edit.ends # 0 /\ (e.start = e.end \/ t[e.end] # "n")
  IN  [edit EXCEPT !.text = IF open THEN Append(@, "n") ELSE @]

(* A change of the view moves the excerpts in it and the rows.              *)
MapView(v, c) ==
  LET lines == c.newRow - c.oldRow
      Map(e) ==
        IF c.start >= e.viewStart /\ c.oldEnd <= e.viewEnd
        THEN [e EXCEPT !.viewEnd = @ + Delta(c), !.viewLines = @ + lines]
        ELSE IF e.viewStart >= c.oldEnd
        THEN [e EXCEPT !.viewStart = @ + Delta(c), !.viewEnd = @ + Delta(c), !.viewLine = @ + lines]
        ELSE e
  IN  [v EXCEPT !.excerpts = [i \in DOMAIN v.excerpts |-> Map(v.excerpts[i])],
                !.rows = SubSeq(@, 1, c.row) \o [i \in 1..(c.newRow - c.row) |-> "body"]
                           \o SubSeq(@, c.oldRow + 1, Len(@))]

Applied(v, edit) ==
  IF v = Stale \/ ~Boundary(v.text, edit.start) \/ ~Boundary(v.text, edit.end) \/ edit.start > edit.end
  THEN Stale
  ELSE [MapView(v, Change(v.text, edit)) EXCEPT !.text = Substitute(v.text, edit)]

Synced(v, t, n, changes) ==
  With(ReplacementsIn(t, n, changes), LAMBDA edits :
    LET spans == Followed(v.excerpts, changes)
        moved == [v EXCEPT !.excerpts = spans]
    IN  IF Rebuilds(v.excerpts, edits, changes) THEN Render(t, spans)
        ELSE FoldRight(LAMBDA edit, acc : With(acc, LAMBDA w : Applied(w, Terminated(edit, spans, t))),
                       ViewEdits(v.excerpts, edits), moved))

-----------------------------------------------------------------------------
ViewInit ==
  /\ Init
  /\ \E spans \in Spans[buf.text] : view = IF spans = <<>> THEN Closed ELSE Render(buf.text, spans)
  /\ plan = None /\ receipts = <<>>

Quiet == UNCHANGED <<view, plan, receipts>>

(* The end of a lease brings the view up to date.                           *)
Sync ==
  /\ Release
  /\ view' = IF view \in {Closed, Stale} THEN view
             ELSE Synced(view, buf.text, Len(leased), buf.changes)
  /\ UNCHANGED <<plan, receipts>>

(* A plan is prepared from the text of a revision, and the editor goes on   *)
(* meanwhile.  Edits that change nothing have been left out of it.          *)
Prepare(edits) ==
  /\ Idle /\ plan = None /\ BatchOk(edits)
  /\ plan' = [base |-> buf.epoch, edits |-> edits, text |-> buf.text]
  /\ UNCHANGED <<textVars, view, receipts>>

AdmittedAlways(base) == TRUE                    \* mutant of Admitted
Admitted(base) == base = buf.epoch

(* The revision a buffer is at, when no group is open.                      *)
Position(h) == IF h.undo = <<>> THEN h.at ELSE -1

(* The receipt names the revision the buffer is at after the plan.  Ghost:  *)
(* the text before, and whether that revision holds the plan and no more.   *)
Receipt(b, owned) == [position |-> Position(b.history), text |-> buf.text, owned |-> owned]

Keep(receipt) ==
  LET all == Append(receipts, receipt)
  IN  receipts' = SubSeq(all, IF Len(all) > Retained THEN 2 ELSE 1, Len(all))

(* A plan applies to its revision or is refused; both leave a receipt.      *)
ApplyPlan ==
  /\ Idle /\ plan # None
  /\ Admitted(plan.base) /\ Fresh(Len(plan.edits))
  /\ plan' = None /\ UNCHANGED view
  /\ \/ /\ plan.edits # <<>>
        /\ \E b \in {Commit(BatchEdited(buf, plan.edits))} :
             /\ Lease(b, b.text)
             /\ Keep(Receipt(b, buf.history.undo = <<>>))
     \/ /\ plan.edits = <<>>
        /\ Keep(Receipt(buf, FALSE))
        /\ UNCHANGED textVars
RefusePlan ==
  /\ Idle /\ plan # None
  /\ ~(Admitted(plan.base) /\ Fresh(Len(plan.edits)))
  /\ plan' = None /\ Keep(None)
  /\ UNCHANGED <<textVars, view>>

(* Undoing the newest is refused when the buffer is not at its revision;    *)
(* there is nothing to undo of a plan that was refused.                     *)
Newest == receipts[Len(receipts)]
UndoChange ==
  /\ Idle /\ receipts # <<>>
  /\ \/ Newest # None /\ Newest.position = buf.history.at /\ buf.history.undo = <<>> /\ Undo
     \/ Newest = None /\ UNCHANGED textVars
  /\ receipts' = Front(receipts) /\ UNCHANGED <<view, plan>>

ViewReload(w) ==
  /\ Reload(w) /\ UNCHANGED <<view, plan>>
  /\ receipts' = [i \in DOMAIN receipts |->
                    IF receipts[i] = None THEN None ELSE [receipts[i] EXCEPT !.owned = FALSE]]

ViewRestart(w) == Restart(w) /\ view' = Closed /\ plan' = None /\ receipts' = <<>>

Steps ==
  \/ \E r \in ReplacementsOf(buf.text) : UserEdit(r)
  \/ \E edits \in Seq(ReplacementsOf(buf.text)) : Batch(edits)
  \/ CloseGroup
  \/ Undo \/ Redo
  \/ \E k \in DOMAIN buf.history.tree : Jump(k)

ViewNext ==
  \/ Steps /\ Quiet
  \/ Sync
  \/ \E edits \in Seq(ReplacementsOf(buf.text)) : Prepare(edits)
  \/ ApplyPlan \/ RefusePlan \/ UndoChange
  \/ \E w \in Files : ViewReload(w)
  \/ \E w \in Files \union {buf.text} : ViewRestart(w)

ViewSpec == ViewInit /\ [][ViewNext]_vars

-----------------------------------------------------------------------------
Rendered(v, t) == v = Render(t, v.excerpts)

(* What was replaced just before an excerpt: its new text has no place in   *)
(* either the gap or the excerpt (README, section 5).                       *)
Abuts(edits, excerpts) ==
  \E k \in DOMAIN edits, i \in DOMAIN excerpts :
    edits[k].start < edits[k].end /\ edits[k].text # <<>> /\ edits[k].end = excerpts[i].start

Updates == ~Idle /\ buf'.changes = <<>> /\ view \notin {Closed, Stale} /\ Rendered(view, leased)
Edits == ReplacementsIn(buf.text, Len(leased), buf.changes)

(* A view that is what a fresh rendering would show is so again after every *)
(* lease, text, rows and geometry, although it was edited in place.         *)
ProjectionExact ==
  [][Updates /\ ~Abuts(Edits, view.excerpts) => Rendered(view', buf'.text)]_vars

(* The same without the exception (README, section 5).                      *)
ProjectionAlwaysExact == [][Updates => Rendered(view', buf'.text)]_vars

PlanApplies == plan # None /\ plan' = None /\ restarts' = restarts /\ buf' # buf
TakesBack ==
  receipts # <<>> /\ Newest # None /\ receipts' = Front(receipts) /\ restarts' = restarts

(* A plan changes only the text it was prepared from, into what all of its  *)
(* edits at once make of it; and undoing a change shows again the text from *)
(* before it, unless its revision held other edits or none, or the source   *)
(* was reloaded since.                                                      *)
PlansOwnTheirChange ==
  [][/\ PlanApplies => /\ buf.text = plan.text
                    /\ buf'.text = Replaced(plan.text, plan.edits)
     /\ TakesBack /\ Newest.owned => buf'.text = Newest.text]_vars

(* The same of every receipt (README, section 5).                           *)
UndoneIsWhatWasDone == [][TakesBack => buf'.text = Newest.text]_vars
=============================================================================
