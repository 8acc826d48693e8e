------------------------------ MODULE UndoTree ------------------------------
(* What an undo history promises: every revision has a text, and going to a *)
(* revision shows that text again.  Redo follows the trail of the last      *)
(* visits, and a draft becomes a revision before it is left.                *)
EXTENDS Integers, SequencesExt

CONSTANT Texts

VARIABLES
  tree,      \* [texts, parent, through, at]: the revisions, from 0, the root
  shown,     \* the text of the buffer
  drafted    \* edits were made since the current revision

vars == <<tree, shown, drafted>>

Line(texts) ==
  LET n == Len(texts) - 1
  IN  [texts |-> [k \in 0..n |-> texts[k + 1]],
       parent |-> [k \in 0..n |-> IF k = 0 THEN 0 ELSE k - 1],
       through |-> [k \in 0..n |-> IF k = n THEN 0 ELSE k + 1],
       at |-> n]

Init == shown \in Texts /\ tree = Line(<<shown>>) /\ drafted = FALSE

(* The function f with one more argument.                                   *)
Extended(f, new, value) == [k \in DOMAIN f \union {new} |-> IF k = new THEN value ELSE f[k]]

Grown(tr, t) ==
  LET new == Cardinality(DOMAIN tr.texts)
  IN  [texts |-> Extended(tr.texts, new, t),
       parent |-> Extended(tr.parent, new, tr.at),
       through |-> Extended([tr.through EXCEPT ![tr.at] = new], new, 0),
       at |-> new]

Settled == IF drafted THEN Grown(tree, shown) ELSE tree

(* The revisions from k up to the root.                                     *)
Lineage(tr, k) ==
  LET up[i \in DOMAIN tr.parent] == IF i = 0 THEN <<0>> ELSE <<i>> \o up[tr.parent[i]]
  IN  up[k]

(* The child of i on the way to k, 0 when i is not above k.                 *)
Towards(tr, i, k) ==
  LET on == {c \in Range(Lineage(tr, k)) \ {0} : tr.parent[c] = i}
  IN  IF on = {} THEN 0 ELSE CHOOSE c \in on : TRUE

(* Every revision above the new place leads there; the others above the old *)
(* place lead back.                                                         *)
Gone(tr, k) ==
  [tr EXCEPT !.at = k,
     !.through = [i \in DOMAIN tr.texts |->
                    IF Towards(tr, i, k) # 0 THEN Towards(tr, i, k)
                    ELSE IF Towards(tr, i, tr.at) # 0 THEN Towards(tr, i, tr.at)
                    ELSE tr.through[i]]]

Draft == shown' \in Texts /\ drafted' = TRUE /\ tree' = tree
Close == drafted /\ drafted' = FALSE /\ tree' = Settled /\ shown' = shown
Apply == shown' \in Texts /\ drafted' = FALSE /\ tree' = Grown(tree, shown')
Go(k) == tree' = Gone(Settled, k) /\ shown' = tree.texts[k] /\ drafted' = FALSE
Reset == shown' \in Texts /\ drafted' = FALSE /\ tree' = Line(<<shown'>>)

(* A new session knows the last revisions of the line it was left on.       *)
Reopen ==
  LET line == Lineage(Settled, Settled.at)
  IN  \E n \in 1..Len(line) :
        /\ tree' = Line([i \in 1..n |-> Settled.texts[line[n + 1 - i]]])
        /\ shown' = shown /\ drafted' = FALSE

Next ==
  \/ Draft \/ Close \/ Apply \/ Reset \/ Reopen
  \/ \E k \in DOMAIN tree.texts : Go(k)

Spec == Init /\ [][Next]_vars
=============================================================================
