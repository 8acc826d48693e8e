------------------------ MODULE CollectionViewProofs ------------------------
EXTENDS CollectionView, FiniteSetTheorems, WellFoundedInduction, SequenceTheorems, TLAPS

(****************************************************************************)
(* Proofs about TextBuffer and CollectionView for any texts, payloads and   *)
(* bounds: the buffer, its undo tree, its journal, the plans and receipts   *)
(* of changes, and what a session keeps.                                    *)
(*                                                                          *)
(* The model computes with recursive functions over sequences and trees.    *)
(* Such a function is shown to exist (TreeRecursion, LinearRecursion) and   *)
(* to be its run (MappedRun, OriginsRun and the others), and what it does   *)
(* for every input follows by induction over a set of naturals (Induction,  *)
(* Descent), which the least element of what is missed gives.               *)
(*                                                                          *)
(* The inductive invariant ViewInv says that the texts of the revisions     *)
(* tell the tree: redoing an edge leads from the parent's text to the       *)
(* node's and undoing it back, the open group leads from the current        *)
(* revision to the text, the last visited children lie on the way to the    *)
(* current one, and the journal accounts for every byte since the lease.    *)
(****************************************************************************)

(* Strong induction on naturals, from the least element of what is missed.  *)
LEMMA Descent ==
  ASSUME NEW S, \A n \in Nat : (\A m \in 0..(n - 1) : m \in S) => n \in S
  PROVE  Nat \subseteq S
<1> DEFINE T == Nat \ S
<1> SUFFICES ASSUME T # {} PROVE FALSE
  OBVIOUS
<1>1. PICK m \in T : \A k \in T : ~(<<k, m>> \in OpToRel(<, Nat))
  BY WFMin, NatLessThanWellFounded, Zenon
<1>2. \A k \in T : ~(k < m)
  BY <1>1 DEF OpToRel
<1>3. \A k \in 0..(m - 1) : k \in S
  BY <1>2
<1> QED
  BY <1>3

(* Induction on naturals over a set.                                        *)
LEMMA Induction ==
  ASSUME NEW S, 0 \in S, \A n \in Nat : n \in S => n + 1 \in S
  PROVE  Nat \subseteq S
<1>1. ASSUME NEW n \in Nat, \A m \in 0..(n - 1) : m \in S PROVE n \in S
  <2>1. CASE n = 0
    BY <2>1
  <2>2. CASE n # 0
    <3>1. n - 1 \in Nat /\ n - 1 \in S /\ n = (n - 1) + 1
      BY <1>1, <2>2
    <3> QED BY <3>1
  <2> QED BY <2>1, <2>2
<1> QED
  BY <1>1, Descent

(* f is the function on 0..n that goes up a tree to where it stops.         *)
Descends(f, n, up, stop, base, G) ==
  \A i \in 0..n : f[i] = IF i \in stop THEN base[i] ELSE G[i][f[up[i]]]

(* A recursion from each node of a tree to its parent has a solution.       *)
LEMMA TreeRecursion ==
  ASSUME NEW n \in Nat, NEW V, NEW up \in [1..n -> Nat], \A i \in 1..n : up[i] < i,
         NEW stop, 0 \in stop, NEW base \in [0..n -> V], NEW G \in [1..n -> [V -> V]]
  PROVE  \E f \in [0..n -> V] : Descends(f, n, up, stop, base, G)
<1> DEFINE Good(m, f) == \A i \in 0..m : f[i] = IF i \in stop THEN base[i] ELSE G[i][f[up[i]]]
           S == {m \in Nat : m <= n => \E f \in [0..m -> V] : Good(m, f)}
<1>1. 0 \in S
  <2>1. [i \in 0..0 |-> base[0]] \in [0..0 -> V] /\ Good(0, [i \in 0..0 |-> base[0]])
    OBVIOUS
  <2> QED BY <2>1
<1>2. ASSUME NEW m \in Nat, m \in S PROVE m + 1 \in S
  <2>1. ASSUME m + 1 <= n PROVE \E g \in [0..(m + 1) -> V] : Good(m + 1, g)
    <3>1. PICK f \in [0..m -> V] : Good(m, f)
      BY <1>2, <2>1
    <3> DEFINE v == IF m + 1 \in stop THEN base[m + 1] ELSE G[m + 1][f[up[m + 1]]]
               g == [i \in 0..(m + 1) |-> IF i = m + 1 THEN v ELSE f[i]]
    <3>2. m + 1 \in 1..n /\ up[m + 1] \in 0..m /\ m + 1 \in 0..n
      BY <2>1
    <3>3. v \in V
      <4>1. f[up[m + 1]] \in V
        BY <3>2
      <4>2. G[m + 1] \in [V -> V] /\ base[m + 1] \in V
        BY <3>2
      <4> QED BY <4>1, <4>2
    <3>4. g \in [0..(m + 1) -> V]
      BY <3>3, SMTT(60)
    <3>5. ASSUME NEW i \in 0..(m + 1) PROVE g[i] = IF i \in stop THEN base[i] ELSE G[i][g[up[i]]]
      <4>1. CASE i = m + 1
        <5>1. g[up[i]] = f[up[i]]
          BY <4>1, <3>2
        <5> QED BY <4>1, <5>1
      <4>2. CASE i # m + 1
        <5>1. i \in 0..m
          BY <4>2
        <5>2. i \notin stop => i \in 1..n
          BY <5>1, <2>1
        <5>3. i \notin stop => up[i] \in 0..m
          BY <5>1, <5>2
        <5>4. g[i] = f[i] /\ (i \notin stop => g[up[i]] = f[up[i]])
          BY <5>1, <5>3, <4>2
        <5>5. f[i] = IF i \in stop THEN base[i] ELSE G[i][f[up[i]]]
          BY <5>1, <3>1, SMTT(60)
        <5> QED BY <5>4, <5>5
      <4> QED BY <4>1, <4>2
    <3>6. Good(m + 1, g)
      BY <3>5
    <3> QED BY <3>4, <3>6
  <2> HIDE DEF Good
  <2> QED BY <2>1
<1> HIDE DEF S
<1>3. n \in S
  BY <1>1, <1>2, Induction
<1>4. PICK f \in [0..n -> V] : Good(n, f)
  BY <1>3 DEF S
<1> QED BY <1>4 DEF Descends

(* f is the function on 0..n that begins with v and goes on by G.           *)
Proceeds(f, n, v, G) == f[0] = v /\ \A i \in 1..n : f[i] = G[i][f[i - 1]]

(* A recursion along a sequence has a solution.                             *)
LEMMA LinearRecursion ==
  ASSUME NEW n \in Nat, NEW V, NEW v \in V, NEW G \in [1..n -> [V -> V]]
  PROVE  \E f \in [0..n -> V] : Proceeds(f, n, v, G)
<1> DEFINE up == [i \in 1..n |-> i - 1]
           base == [i \in 0..n |-> v]
           stop == {0}
<1>1. up \in [1..n -> Nat]
  OBVIOUS
<1>1a. \A i \in 1..n : up[i] < i
  OBVIOUS
<1>1b. base \in [0..n -> V]
  OBVIOUS
<1>1c. 0 \in stop
  OBVIOUS
<1>2. \E f \in [0..n -> V] : Descends(f, n, up, stop, base, G)
  <2> HIDE DEF up, base, stop
  <2> QED BY <1>1, <1>1a, <1>1b, <1>1c, TreeRecursion
<1>2a. PICK f \in [0..n -> V] :
        \A i \in 0..n : f[i] = IF i \in stop THEN base[i] ELSE G[i][f[up[i]]]
  BY <1>2 DEF Descends
<1>3. f[0] = v
  <2>1. 0 \in 0..n /\ base[0] = v
    OBVIOUS
  <2>2. f[0] = IF 0 \in stop THEN base[0] ELSE G[0][f[up[0]]]
    BY <1>2a, <2>1
  <2> QED BY <2>2, <2>1
<1>4. ASSUME NEW i \in 1..n PROVE f[i] = G[i][f[i - 1]]
  <2>1. i \in 0..n /\ i \notin stop /\ up[i] = i - 1
    OBVIOUS
  <2> QED BY <1>2a, <2>1
<1> QED BY <1>3, <1>4 DEF Proceeds


(* The operations of a history, and what a replay of them may show.         *)
Ops == [kind : {"insert", "delete"}, at : Nat, text : Seq(Bytes)]
Shows == Seq(Bytes) \union {Unfit}

(* The mark of an operation that does not fit is no text.                   *)
LEMMA UnfitIsNoText == Unfit \notin Seq(Bytes)
  BY TextConstants DEF Unfit

(* u is a, then b, then c, byte by byte.                                    *)
Joins(u, a, b, c) ==
  \A i \in 1..(Len(a) + Len(b) + Len(c)) : u[i] =
    IF i <= Len(a) THEN a[i]
    ELSE IF i <= Len(a) + Len(b) THEN b[i - Len(a)] ELSE c[i - Len(a) - Len(b)]

(* Three sequences concatenated.                                            *)
LEMMA Concatenated ==
  ASSUME NEW S, NEW a \in Seq(S), NEW b \in Seq(S), NEW c \in Seq(S)
  PROVE  /\ a \o b \o c \in Seq(S)
         /\ Len(a \o b \o c) = Len(a) + Len(b) + Len(c)
         /\ Joins(a \o b \o c, a, b, c)
<1> DEFINE d == a \o b
<1>1. d \in Seq(S) /\ Len(d) = Len(a) + Len(b)
  BY ConcatProperties
<1>2. \A i \in 1..(Len(a) + Len(b)) : d[i] = IF i <= Len(a) THEN a[i] ELSE b[i - Len(a)]
  BY ConcatProperties
<1>3. Len(a) \in Nat /\ Len(b) \in Nat /\ Len(c) \in Nat
  OBVIOUS
<1> SUFFICES /\ d \o c \in Seq(S)
             /\ Len(d \o c) = Len(a) + Len(b) + Len(c)
             /\ Joins(d \o c, a, b, c)
  OBVIOUS
<1> HIDE DEF d
<1>4. d \o c \in Seq(S) /\ Len(d \o c) = Len(d) + Len(c)
  BY <1>1, ConcatProperties
<1>6. \A i \in 1..(Len(d) + Len(c)) : (d \o c)[i] = IF i <= Len(d) THEN d[i] ELSE c[i - Len(d)]
  BY <1>1, ConcatProperties
<1>5. ASSUME NEW i \in 1..(Len(a) + Len(b) + Len(c))
      PROVE  (d \o c)[i] = IF i <= Len(a) THEN a[i]
               ELSE IF i <= Len(a) + Len(b) THEN b[i - Len(a)] ELSE c[i - Len(a) - Len(b)]
  <2>1. i \in 1..(Len(d) + Len(c)) /\ (d \o c)[i] = IF i <= Len(d) THEN d[i] ELSE c[i - Len(d)]
    BY <1>1, <1>3, <1>6
  <2>2. CASE i <= Len(d)
    <3>1. i \in 1..(Len(a) + Len(b))
      BY <1>1, <1>3, <2>2
    <3> QED BY <1>1, <1>2, <1>3, <2>1, <2>2, <3>1
  <2>3. CASE ~(i <= Len(d))
    <3>1. i - Len(d) = i - Len(a) - Len(b) /\ ~(i <= Len(a)) /\ ~(i <= Len(a) + Len(b))
      BY <1>1, <1>3, <2>3
    <3> QED BY <2>1, <2>3, <3>1
  <2> QED BY <2>2, <2>3
<1>7. Joins(d \o c, a, b, c)
  BY <1>5 DEF Joins
<1> QED BY <1>1, <1>4, <1>7

(* u is t with what lies between s and e replaced by w, byte by byte.       *)
Splices(S, u, t, s, e, w) ==
  /\ u \in Seq(S) /\ Len(u) = Len(t) - (e - s) + Len(w)
  /\ \A i \in 1..Len(u) : u[i] =
       IF i <= s THEN t[i] ELSE IF i <= s + Len(w) THEN w[i - s] ELSE t[i - s - Len(w) + e]

(* The two ends of a sequence around a new middle.                          *)
LEMMA Spliced ==
  ASSUME NEW S, NEW t \in Seq(S), NEW s \in 0..Len(t), NEW e \in s..Len(t), NEW w \in Seq(S)
  PROVE  Splices(S, SubSeq(t, 1, s) \o w \o SubSeq(t, e + 1, Len(t)), t, s, e, w)
<1> DEFINE a == SubSeq(t, 1, s)
           c == SubSeq(t, e + 1, Len(t))
           u == a \o w \o c
<1>0. Len(t) \in Nat /\ Len(w) \in Nat /\ s \in Nat /\ e \in Nat
  OBVIOUS
<1>1. a \in Seq(S) /\ Len(a) = s /\ \A i \in 1..s : a[i] = t[i]
  BY SubSeqProperties
<1>2. c \in Seq(S) /\ Len(c) = Len(t) - e /\ \A i \in 1..(Len(t) - e) : c[i] = t[i + e]
  BY SubSeqProperties
<1> SUFFICES Splices(S, u, t, s, e, w)
  OBVIOUS
<1> HIDE DEF a, c
<1>3. u \in Seq(S) /\ Len(u) = Len(a) + Len(w) + Len(c)
  <2>1. u \in Seq(S)
    BY <1>1, <1>2, Concatenated
  <2>2. a \o w \in Seq(S) /\ Len(a \o w) = Len(a) + Len(w)
    BY <1>1, ConcatProperties
  <2>3. Len((a \o w) \o c) = Len(a \o w) + Len(c)
    BY <1>2, <2>2, ConcatProperties
  <2> QED BY <2>1, <2>2, <2>3
<1>6. Joins(u, a, w, c)
  BY <1>1, <1>2, Concatenated
<1> HIDE DEF u
<1>4. Len(u) = Len(t) - (e - s) + Len(w)
  BY <1>0, <1>1, <1>2, <1>3
<1>5. ASSUME NEW i \in 1..Len(u)
      PROVE  u[i] = IF i <= s THEN t[i]
                    ELSE IF i <= s + Len(w) THEN w[i - s] ELSE t[i - s - Len(w) + e]
  <2>1. u[i] = IF i <= s THEN a[i] ELSE IF i <= s + Len(w) THEN w[i - s] ELSE c[i - s - Len(w)]
    BY <1>1, <1>2, <1>3, <1>6 DEF Joins
  <2>2. i <= s => a[i] = t[i]
    BY <1>0, <1>1, <1>4
  <2>3. ~(i <= s + Len(w)) => c[i - s - Len(w)] = t[i - s - Len(w) + e]
    <3>1. ~(i <= s + Len(w)) => i - s - Len(w) \in 1..(Len(t) - e)
      BY <1>0, <1>4
    <3> QED BY <1>2, <3>1
  <2> QED BY <2>1, <2>2, <2>3
<1> QED BY <1>3, <1>4, <1>5 DEF Splices

(* What a replacement makes of a text, byte by byte.                        *)
LEMMA SubstituteType ==
  ASSUME NEW t \in Seq(Bytes), NEW r, r.start \in 0..Len(t), r.end \in r.start..Len(t), r.text \in Seq(Bytes)
  PROVE  Splices(Bytes, Substitute(t, r), t, r.start, r.end, r.text)
  BY Spliced DEF Substitute

(* An operation shows a text or that it does not fit, and once it did not   *)
(* nothing does.                                                            *)
LEMMA CheckedType ==
  ASSUME NEW t \in Shows, NEW op \in Ops
  PROVE  /\ Checked(t, op) \in Shows
         /\ Checked(Unfit, op) = Unfit
         /\ Checked(t, op) # Unfit =>
              /\ t \in Seq(Bytes) /\ Applies(t, op)
              /\ Checked(t, op) = Substitute(t, AsReplacement(op))
<1>1. CASE t # Unfit /\ Applies(t, op)
  <2>1. t \in Seq(Bytes) /\ Boundary(t, op.at) /\ op.at \in 0..Len(t)
    BY <1>1 DEF Shows, Applies, Boundary
  <2>2. op.kind = "delete" => op.at + Len(op.text) \in 0..Len(t)
    BY <1>1 DEF Applies, Boundary
  <2>3. op.kind = "insert" \/ op.kind = "delete"
    BY DEF Ops
  <2> DEFINE r == AsReplacement(op)
  <2>4. r.start \in 0..Len(t) /\ r.end \in r.start..Len(t) /\ r.text \in Seq(Bytes)
    <3>1. op.text \in Seq(Bytes) /\ Len(op.text) \in Nat
      BY DEF Ops
    <3> QED BY <2>1, <2>2, <2>3, <3>1, EmptySeq DEF AsReplacement, Replacement
  <2>5. Substitute(t, r) \in Seq(Bytes)
    <3> HIDE DEF r
    <3> QED BY <2>1, <2>4, SubstituteType DEF Splices
  <2> QED BY <1>1, <2>1, <2>5 DEF Checked, Shows
<1>2. CASE ~(t # Unfit /\ Applies(t, op))
  BY <1>2 DEF Checked, Shows
<1> QED BY <1>1, <1>2

(* run holds what each operation of a replay leaves.                        *)
RunOf(run, t, ops) ==
  /\ DOMAIN run = 0..Len(ops)
  /\ run[0] = t
  /\ \A i \in 1..Len(ops) : run[i] = Checked(run[i - 1], ops[i])

(* Every replay has a run.                                                  *)
LEMMA RunExists ==
  ASSUME NEW t \in Shows, NEW ops \in Seq(Ops)
  PROVE  \E run \in [0..Len(ops) -> Shows] : RunOf(run, t, ops)
<1> DEFINE G == [i \in 1..Len(ops) |-> [s \in Shows |-> Checked(s, ops[i])]]
<1>1. Len(ops) \in Nat /\ \A i \in 1..Len(ops) : ops[i] \in Ops
  OBVIOUS
<1>2. G \in [1..Len(ops) -> [Shows -> Shows]]
  <2>1. ASSUME NEW i \in 1..Len(ops) PROVE [s \in Shows |-> Checked(s, ops[i])] \in [Shows -> Shows]
    BY <1>1, CheckedType
  <2> QED BY <2>1
<1>3. PICK f \in [0..Len(ops) -> Shows] : Proceeds(f, Len(ops), t, G)
  <2> HIDE DEF G
  <2> QED BY <1>1, <1>2, LinearRecursion
<1>4. \A i \in 1..Len(ops) : f[i] = Checked(f[i - 1], ops[i])
  <2> TAKE i \in 1..Len(ops)
  <2>1. f[i - 1] \in Shows /\ f[i] = G[i][f[i - 1]]
    BY <1>3 DEF Proceeds
  <2> QED BY <2>1
<1> QED BY <1>3, <1>4 DEF RunOf, Proceeds

(* A replay has no other run.                                               *)
LEMMA RunUnique ==
  ASSUME NEW t, NEW ops, Len(ops) \in Nat, NEW f, NEW g, RunOf(f, t, ops), RunOf(g, t, ops)
  PROVE  \A i \in 0..Len(ops) : f[i] = g[i]
<1> DEFINE S == {i \in Nat : i <= Len(ops) => f[i] = g[i]}
<1>1. 0 \in S
  BY DEF RunOf
<1>2. ASSUME NEW i \in Nat, i \in S PROVE i + 1 \in S
  <2>1. CASE i + 1 <= Len(ops)
    <3>1. f[i] = g[i] /\ i + 1 \in 1..Len(ops) /\ (i + 1) - 1 = i
      BY <1>2, <2>1
    <3>2. f[i + 1] = Checked(f[i], ops[i + 1]) /\ g[i + 1] = Checked(g[i], ops[i + 1])
      BY <3>1 DEF RunOf
    <3> QED BY <3>1, <3>2
  <2>2. CASE ~(i + 1 <= Len(ops))
    BY <2>2
  <2> QED BY <2>1, <2>2
<1> HIDE DEF S
<1>3. Nat \subseteq S
  BY <1>1, <1>2, Induction
<1> QED BY <1>3 DEF S

(* After is the last element of the run of its replay.                      *)
LEMMA AfterRun ==
  ASSUME NEW t \in Shows, NEW ops \in Seq(Ops), NEW run, RunOf(run, t, ops)
  PROVE  After(t, ops) = run[Len(ops)]
<1> DEFINE Is(g) == g = [i \in 0..Len(ops) |-> IF i = 0 THEN t ELSE Checked(g[i - 1], ops[i])]
<1>1. PICK f \in [0..Len(ops) -> Shows] : RunOf(f, t, ops)
  BY RunExists
<1>2. Len(ops) \in Nat
  OBVIOUS
<1>3. Is(f)
  <2>1. ASSUME NEW i \in 0..Len(ops) PROVE f[i] = IF i = 0 THEN t ELSE Checked(f[i - 1], ops[i])
    <3>1. CASE i = 0
      BY <1>1, <3>1 DEF RunOf
    <3>2. CASE i # 0
      <4>1. i \in 1..Len(ops)
        BY <3>2
      <4> QED BY <1>1, <3>2, <4>1 DEF RunOf
    <3> QED BY <3>1, <3>2
  <2> QED BY <2>1, <1>1
<1>4. After(t, ops) = (CHOOSE g : Is(g))[Len(ops)]
  BY DEF After
<1>5. Is(CHOOSE g : Is(g))
  <2> HIDE DEF Is
  <2> QED BY <1>3
<1> DEFINE h == CHOOSE g : Is(g)
<1>6. h = [i \in 0..Len(ops) |-> IF i = 0 THEN t ELSE Checked(h[i - 1], ops[i])]
  BY <1>5
<1> HIDE DEF h
<1>7. RunOf(h, t, ops)
  <2>1. DOMAIN h = 0..Len(ops) /\ h[0] = t
    BY <1>6, <1>2
  <2>2. ASSUME NEW i \in 1..Len(ops) PROVE h[i] = Checked(h[i - 1], ops[i])
    <3>1. i \in 0..Len(ops) /\ i # 0
      OBVIOUS
    <3> QED BY <1>6, <3>1
  <2> QED BY <2>1, <2>2 DEF RunOf
<1>8. h[Len(ops)] = run[Len(ops)]
  BY <1>2, <1>7, RunUnique
<1> QED BY <1>4, <1>8 DEF h


(* After shows a text or that an operation did not fit, and no operation    *)
(* changes nothing.                                                         *)
LEMMA AfterType ==
  ASSUME NEW t \in Shows, NEW ops \in Seq(Ops)
  PROVE  /\ After(t, ops) \in Shows
         /\ After(t, <<>>) = t
<1>1. PICK run \in [0..Len(ops) -> Shows] : RunOf(run, t, ops)
  BY RunExists
<1>2. After(t, ops) = run[Len(ops)]
  BY <1>1, AfterRun
<1>3. run[Len(ops)] \in Shows
  <2>1. Len(ops) \in 0..Len(ops)
    OBVIOUS
  <2> QED BY <2>1
<1>4. After(t, <<>>) = t
  <2>1. <<>> \in Seq(Ops) /\ Len(<<>>) = 0
    BY EmptySeq
  <2>2. PICK r \in [0..Len(<<>>) -> Shows] : RunOf(r, t, <<>>)
    BY <2>1, RunExists
  <2>3. After(t, <<>>) = r[Len(<<>>)]
    BY <2>1, <2>2, AfterRun
  <2> QED BY <2>1, <2>2, <2>3 DEF RunOf
<1> QED BY <1>2, <1>3, <1>4

(* Operations replayed one list after the other.                            *)
LEMMA AfterConcat ==
  ASSUME NEW t \in Shows, NEW a \in Seq(Ops), NEW b \in Seq(Ops)
  PROVE  After(t, a \o b) = After(After(t, a), b)
<1>1. PICK f \in [0..Len(a) -> Shows] : RunOf(f, t, a)
  BY RunExists
<1>2. After(t, a) = f[Len(a)] /\ After(t, a) \in Shows
  BY <1>1, AfterRun, AfterType
<1>3. PICK g \in [0..Len(b) -> Shows] : RunOf(g, After(t, a), b)
  BY <1>2, RunExists
<1>4. After(After(t, a), b) = g[Len(b)]
  BY <1>2, <1>3, AfterRun
<1> DEFINE ab == a \o b
<1>5. ab \in Seq(Ops) /\ Len(ab) = Len(a) + Len(b) /\ Len(a) \in Nat /\ Len(b) \in Nat
  BY ConcatProperties
<1>6. \A i \in 1..(Len(a) + Len(b)) : ab[i] = IF i <= Len(a) THEN a[i] ELSE b[i - Len(a)]
  BY ConcatProperties
<1> HIDE DEF ab
<1> DEFINE run == [i \in 0..Len(ab) |-> IF i <= Len(a) THEN f[i] ELSE g[i - Len(a)]]
<1>7. RunOf(run, t, ab)
  <2>1. DOMAIN run = 0..Len(ab) /\ run[0] = t
    BY <1>1, <1>5 DEF RunOf
  <2>2. ASSUME NEW i \in 1..Len(ab) PROVE run[i] = Checked(run[i - 1], ab[i])
    <3>1. CASE i <= Len(a)
      <4>1. i \in 1..Len(a) /\ run[i] = f[i] /\ run[i - 1] = f[i - 1] /\ ab[i] = a[i]
        BY <1>5, <1>6, <3>1
      <4> QED BY <1>1, <4>1 DEF RunOf
    <3>2. CASE i = Len(a) + 1
      <4>1. 1 \in 1..Len(b) /\ run[i] = g[1] /\ run[i - 1] = f[Len(a)] /\ ab[i] = b[1]
        BY <1>5, <1>6, <3>2
      <4>2. g[0] = f[Len(a)] /\ g[1] = Checked(g[1 - 1], b[1])
        BY <1>2, <1>3, <4>1 DEF RunOf
      <4> QED BY <4>1, <4>2
    <3>3. CASE i > Len(a) + 1
      <4> DEFINE k == i - Len(a)
      <4>1. k \in 1..Len(b) /\ (i - 1) - Len(a) = k - 1
        BY <1>5, <3>3
      <4>2. run[i] = g[k] /\ run[i - 1] = g[k - 1] /\ ab[i] = b[k]
        BY <1>5, <1>6, <3>3, <4>1
      <4> HIDE DEF k
      <4>3. g[k] = Checked(g[k - 1], b[k])
        BY <1>3, <4>1 DEF RunOf
      <4> QED BY <4>2, <4>3
    <3> QED BY <3>1, <3>2, <3>3, <1>5
  <2> HIDE DEF run
  <2> QED BY <2>1, <2>2 DEF RunOf
<1>8. run[Len(ab)] = g[Len(b)]
  <2>1. CASE Len(b) = 0
    <3>1. run[Len(ab)] = f[Len(a)] /\ g[0] = f[Len(a)]
      BY <1>2, <1>3, <1>5, <2>1 DEF RunOf
    <3> QED BY <2>1, <3>1
  <2>2. CASE Len(b) # 0
    BY <1>5, <2>2
  <2> QED BY <2>1, <2>2
<1>9. After(t, ab) = run[Len(ab)]
  <2> HIDE DEF run
  <2> QED BY <1>5, <1>7, AfterRun
<1> QED BY <1>4, <1>8, <1>9 DEF ab

(* A replay of one operation.                                               *)
LEMMA AfterOne ==
  ASSUME NEW t \in Shows, NEW op \in Ops
  PROVE  After(t, <<op>>) = Checked(t, op)
<1>1. <<op>> \in Seq(Ops) /\ Len(<<op>>) = 1 /\ <<op>>[1] = op
  OBVIOUS
<1>2. PICK f \in [0..Len(<<op>>) -> Shows] : RunOf(f, t, <<op>>)
  BY <1>1, RunExists
<1>3. After(t, <<op>>) = f[1]
  BY <1>1, <1>2, AfterRun
<1>4. f[0] = t /\ f[1] = Checked(f[1 - 1], <<op>>[1])
  BY <1>1, <1>2 DEF RunOf
<1> QED BY <1>1, <1>3, <1>4

(* A replay with an operation more at its end, and at its front.            *)
LEMMA AfterAppend ==
  ASSUME NEW t \in Shows, NEW ops \in Seq(Ops), NEW op \in Ops
  PROVE  /\ After(t, Append(ops, op)) = Checked(After(t, ops), op)
         /\ After(t, <<op>> \o ops) = After(Checked(t, op), ops)
<1>1. <<op>> \in Seq(Ops) /\ Append(ops, op) = ops \o <<op>>
  BY AppendIsConcat
<1>2. After(t, ops) \in Shows
  BY AfterType
<1>3. After(t, ops \o <<op>>) = After(After(t, ops), <<op>>)
  BY <1>1, AfterConcat
<1>4. After(t, <<op>> \o ops) = After(After(t, <<op>>), ops)
  BY <1>1, AfterConcat
<1> QED BY <1>1, <1>2, <1>3, <1>4, AfterOne

(* Reverse, of any sequence and of one that was appended to.                *)
LEMMA Reversed ==
  ASSUME NEW S, NEW s \in Seq(S), NEW e \in S
  PROVE  /\ Reverse(s) \in Seq(S) /\ Len(Reverse(s)) = Len(s)
         /\ Reverse(Append(s, e)) = <<e>> \o Reverse(s)
         /\ Reverse(<<>>) = <<>>
<1>1. Reverse(s) \in Seq(S) /\ Len(Reverse(s)) = Len(s)
  BY DEF Reverse
<1>2. Append(s, e) \in Seq(S) /\ Len(Append(s, e)) = Len(s) + 1
  BY AppendProperties
<1>3. \A i \in 1..Len(s) : Append(s, e)[i] = s[i]
  BY AppendProperties
<1>4. Append(s, e)[Len(s) + 1] = e
  BY AppendProperties
<1> DEFINE a == Append(s, e)
           b == <<e>> \o Reverse(s)
<1>5. Reverse(a) \in Seq(S) /\ Len(Reverse(a)) = Len(s) + 1
  BY <1>2 DEF Reverse
<1>6. b \in Seq(S) /\ Len(b) = Len(s) + 1
  BY <1>1, ConcatProperties
<1>7. ASSUME NEW i \in 1..(Len(s) + 1) PROVE Reverse(a)[i] = b[i]
  <2>1. Reverse(a)[i] = a[(Len(s) + 1 - i) + 1]
    BY <1>2 DEF Reverse
  <2>2. CASE i = 1
    <3>1. b[1] = e
      BY <1>1
    <3>2. (Len(s) + 1 - i) + 1 = Len(s) + 1
      BY <2>2
    <3> QED BY <2>1, <2>2, <3>1, <3>2, <1>4
  <2>3. CASE i # 1
    <3>1. b[i] = Reverse(s)[i - 1] /\ i - 1 \in 1..Len(s)
      BY <1>1, <2>3
    <3>2. Reverse(s)[i - 1] = s[(Len(s) - (i - 1)) + 1]
      BY <3>1 DEF Reverse
    <3>3. (Len(s) - (i - 1)) + 1 \in 1..Len(s) /\ (Len(s) - (i - 1)) + 1 = (Len(s) + 1 - i) + 1
      BY <3>1
    <3> QED BY <2>1, <3>1, <3>2, <3>3, <1>3
  <2> QED BY <2>2, <2>3
<1>8. Reverse(a) = b
  <2> HIDE DEF a, b
  <2> QED BY <1>5, <1>6, <1>7, SeqEqual
<1>9. Reverse(<<>>) = <<>>
  BY DEF Reverse
<1> QED BY <1>1, <1>8, <1>9


(* The texts that do not begin inside a character.                          *)
Whole == {t \in Seq(Bytes) : t # <<>> => t[1] # "C"}

(* Redoing leads from t to u and undoing, newest first, back from u to t.   *)
Leads(t, undo, redo, u) ==
  /\ undo \in Seq(Ops) /\ redo \in Seq(Ops)
  /\ Len(undo) = Len(redo)
  /\ After(t, redo) = u /\ After(u, Reverse(undo)) = t

(* A replacement between two boundaries of a text by whole characters.      *)
Suits(t, r) ==
  /\ r.start \in Nat /\ r.end \in Nat /\ r.start <= r.end
  /\ Boundary(t, r.start) /\ Boundary(t, r.end)
  /\ r.text \in Whole
  /\ r.start < r.end \/ r.text # <<>>

(* An edit and the one that takes it back.                                  *)
Paired(t, op, back, u) ==
  op \in Ops /\ back \in Ops /\ Checked(t, op) = u /\ Checked(u, back) = t

(* An insertion at a boundary and the deletion that takes it back.          *)
LEMMA Put ==
  ASSUME NEW t \in Whole, NEW s \in Nat, Boundary(t, s), NEW w \in Whole, w # <<>>,
         NEW u, u = Substitute(t, Replacement(s, s, w))
  PROVE  /\ u \in Whole /\ Splices(Bytes, u, t, s, s, w)
         /\ Paired(t, Edit("insert", s, w), Edit("delete", s, w), u)
<1>1. /\ t \in Seq(Bytes) /\ w \in Seq(Bytes) /\ Len(t) \in Nat /\ Len(w) \in Nat \ {0}
      /\ s \in 0..Len(t) /\ w[1] # "C"
  BY EmptySeq DEF Whole, Boundary
<1>2. u = SubSeq(t, 1, s) \o w \o SubSeq(t, s + 1, Len(t))
  BY DEF Substitute, Replacement
<1>13. Splices(Bytes, u, t, s, s, w)
  BY <1>1, <1>2, Spliced
<1>3. /\ u \in Seq(Bytes)
      /\ Len(u) = Len(t) - (s - s) + Len(w)
      /\ \A i \in 1..Len(u) : u[i] =
           IF i <= s THEN t[i] ELSE IF i <= s + Len(w) THEN w[i - s] ELSE t[i - s - Len(w) + s]
  BY <1>13 DEF Splices
<1>4. Len(u) = Len(t) + Len(w)
  BY <1>1, <1>3
<1>5. \A i \in 1..Len(u) : u[i] =
        IF i <= s THEN t[i] ELSE IF i <= s + Len(w) THEN w[i - s] ELSE t[i - Len(w)]
  <2> TAKE i \in 1..Len(u)
  <2>1. i - s - Len(w) + s = i - Len(w)
    BY <1>1, <1>4
  <2> QED BY <1>3, <2>1
<1>6. u \in Whole
  <2>1. 1 \in 1..Len(u)
    BY <1>1, <1>4
  <2>2. CASE s = 0
    <3>1. u[1] = w[1 - 0] /\ 1 - 0 = 1
      BY <1>1, <1>5, <2>1, <2>2
    <3> QED BY <1>1, <1>3, <3>1 DEF Whole
  <2>3. CASE s # 0
    <3>1. u[1] = t[1] /\ t # <<>>
      BY <1>1, <1>5, <2>1, <2>3
    <3> QED BY <1>3, <3>1 DEF Whole
  <2> QED BY <2>2, <2>3
<1>7. Edit("insert", s, w) \in Ops /\ Edit("delete", s, w) \in Ops
  BY <1>1 DEF Edit, Ops
<1>8. t # Unfit /\ u # Unfit
  BY <1>1, <1>3, UnfitIsNoText
<1>9. Checked(t, Edit("insert", s, w)) = u
  <2>1. Applies(t, Edit("insert", s, w))
    BY DEF Applies, Edit
  <2>2. AsReplacement(Edit("insert", s, w)) = Replacement(s, s, w)
    BY DEF AsReplacement, Edit
  <2> QED BY <1>8, <2>1, <2>2 DEF Checked
<1>10. SubSeq(u, s + 1, s + Len(w)) = w
  <2> DEFINE v == SubSeq(u, s + 1, s + Len(w))
  <2>1. \A i \in (s + 1)..(s + Len(w)) : u[i] \in Bytes
    BY <1>1, <1>3, <1>4
  <2>2. v \in Seq(Bytes)
    BY <1>1, <2>1, SubSeqProperties
  <2>3. Len(v) = Len(w)
    BY <1>1, <2>1, SubSeqProperties
  <2>4. \A i \in 1..Len(w) : v[i] = u[(s + 1) + i - 1]
    BY <1>1, <2>1, SubSeqProperties
  <2> HIDE DEF v
  <2>5. ASSUME NEW i \in 1..Len(v) PROVE v[i] = w[i]
    <3>1. (s + 1) + i - 1 = s + i /\ s + i \in 1..Len(u) /\ s + i > s /\ s + i <= s + Len(w) /\ (s + i) - s = i
      BY <1>1, <1>4, <2>3
    <3>2. v[i] = u[s + i]
      BY <2>3, <2>4, <3>1
    <3>3. u[s + i] = w[(s + i) - s]
      BY <1>5, <3>1
    <3> QED BY <3>1, <3>2, <3>3
  <2>6. v = w
    BY <1>1, <2>2, <2>3, <2>5, SeqEqual
  <2> QED BY <2>6 DEF v
<1>11. Boundary(u, s) /\ Boundary(u, s + Len(w))
  <2>1. s \in 0..Len(u) /\ s + Len(w) \in 0..Len(u)
    BY <1>1, <1>4
  <2>2. u[s + 1] # "C"
    <3>1. s + 1 \in 1..Len(u) /\ (s + 1) - s = 1 /\ ~(s + 1 <= s) /\ s + 1 <= s + Len(w)
      BY <1>1, <1>4
    <3> QED BY <1>1, <1>5, <3>1
  <2>3. s + Len(w) < Len(u) => u[s + Len(w) + 1] # "C"
    <3> HAVE s + Len(w) < Len(u)
    <3>1. /\ s + Len(w) + 1 \in 1..Len(u) /\ ~(s + Len(w) + 1 <= s) /\ ~(s + Len(w) + 1 <= s + Len(w))
          /\ (s + Len(w) + 1) - Len(w) = s + 1 /\ s < Len(t)
      BY <1>1, <1>4
    <3> QED BY <1>5, <3>1 DEF Boundary
  <2> QED BY <2>1, <2>2, <2>3 DEF Boundary
<1>12. Checked(u, Edit("delete", s, w)) = t
  <2> DEFINE r == Replacement(s, s + Len(w), <<>>)
             v == Substitute(u, r)
  <2>1. Applies(u, Edit("delete", s, w))
    BY <1>10, <1>11 DEF Applies, Edit
  <2>2. AsReplacement(Edit("delete", s, w)) = r
    BY DEF AsReplacement, Edit
  <2>3. Checked(u, Edit("delete", s, w)) = v
    BY <1>8, <2>1, <2>2 DEF Checked
  <2>4. r.start = s /\ r.end = s + Len(w) /\ r.text = <<>>
    BY DEF Replacement
  <2>5. r.start \in 0..Len(u) /\ r.end \in r.start..Len(u) /\ r.text \in Seq(Bytes) /\ Len(r.text) = 0
    <3> HIDE DEF r
    <3>1. <<>> \in Seq(Bytes) /\ Len(<<>>) = 0
      BY EmptySeq
    <3> QED BY <1>1, <1>4, <2>4, <3>1
  <2> HIDE DEF r
  <2>6. Splices(Bytes, v, u, r.start, r.end, r.text)
    BY <1>3, <2>5, SubstituteType
  <2> HIDE DEF v
  <2>7. v \in Seq(Bytes) /\ Len(v) = Len(u) - (r.end - r.start) + Len(r.text)
    BY <2>6 DEF Splices
  <2>8. \A i \in 1..Len(v) : v[i] =
          IF i <= r.start THEN u[i]
          ELSE IF i <= r.start + Len(r.text) THEN r.text[i - r.start]
          ELSE u[i - r.start - Len(r.text) + r.end]
    BY <2>6 DEF Splices
  <2>9. Len(v) = Len(t)
    BY <1>1, <1>4, <2>4, <2>5, <2>7
  <2>10. ASSUME NEW i \in 1..Len(v) PROVE v[i] = t[i]
    <3>1. CASE i <= s
      BY <1>1, <1>4, <1>5, <2>4, <2>8, <2>9, <3>1
    <3>2. CASE ~(i <= s)
      <4>1. v[i] = u[i - r.start - Len(r.text) + r.end]
        BY <1>1, <2>4, <2>5, <2>8, <3>2
      <4>2. i - r.start - Len(r.text) + r.end = i + Len(w)
        BY <1>1, <2>4, <2>5
      <4>3. i + Len(w) \in 1..Len(u) /\ ~(i + Len(w) <= s + Len(w)) /\ ~(i + Len(w) <= s) /\ (i + Len(w)) - Len(w) = i
        BY <1>1, <1>4, <2>9, <3>2
      <4> QED BY <4>1, <4>2, <4>3, <1>5
    <3> QED BY <3>1, <3>2
  <2>11. v = t
    BY <1>1, <2>7, <2>9, <2>10, SeqEqual
  <2> QED BY <2>3, <2>11
<1> QED BY <1>6, <1>7, <1>9, <1>12, <1>13 DEF Paired


(* A group that leads from one text to another goes on with the next edit.  *)
LEMMA GroupGrows ==
  ASSUME NEW t0 \in Seq(Bytes), NEW t1 \in Seq(Bytes), NEW t2 \in Seq(Bytes),
         NEW undo, NEW redo, Leads(t0, undo, redo, t1),
         NEW uo, NEW ro, Paired(t1, ro, uo, t2)
  PROVE  Leads(t0, Append(undo, uo), Append(redo, ro), t2) /\ Append(undo, uo) # <<>>
<1>0. uo \in Ops /\ ro \in Ops /\ Checked(t1, ro) = t2 /\ Checked(t2, uo) = t1
  BY DEF Paired
<1>1. undo \in Seq(Ops) /\ redo \in Seq(Ops) /\ Len(undo) = Len(redo)
  BY DEF Leads
<1>2. After(t0, redo) = t1 /\ After(t1, Reverse(undo)) = t0
  BY DEF Leads
<1>3. t0 \in Shows /\ t1 \in Shows /\ t2 \in Shows
  BY DEF Shows
<1>4. After(t0, Append(redo, ro)) = t2
  BY <1>0, <1>1, <1>2, <1>3, AfterAppend
<1>5. After(t2, Reverse(Append(undo, uo))) = t0
  <2>1. Reverse(Append(undo, uo)) = <<uo>> \o Reverse(undo) /\ Reverse(undo) \in Seq(Ops)
    BY <1>0, <1>1, Reversed
  <2>2. After(t2, <<uo>> \o Reverse(undo)) = After(Checked(t2, uo), Reverse(undo))
    BY <1>0, <1>3, <2>1, AfterAppend
  <2> QED BY <1>0, <1>2, <2>1, <2>2
<1>6. Append(undo, uo) \in Seq(Ops) /\ Append(redo, ro) \in Seq(Ops) /\ Append(undo, uo) # <<>>
  BY <1>0, <1>1, AppendProperties
<1>7. Len(Append(undo, uo)) = Len(Append(redo, ro))
  BY <1>0, <1>1, AppendProperties
<1> QED BY <1>4, <1>5, <1>6, <1>7 DEF Leads

(* A deletion between boundaries and the insertion that takes it back.      *)
LEMMA Cut ==
  ASSUME NEW t \in Whole, NEW s \in Nat, NEW e \in Nat, s < e, Boundary(t, s), Boundary(t, e),
         NEW w, w = SubSeq(t, s + 1, e), NEW u, u = Substitute(t, Replacement(s, e, <<>>))
  PROVE  /\ u \in Whole /\ w \in Whole /\ w # <<>> /\ Boundary(u, s)
         /\ Paired(t, Edit("delete", s, w), Edit("insert", s, w), u)
<1> DEFINE r == Replacement(s, e, <<>>)
<1>1. t \in Seq(Bytes) /\ Len(t) \in Nat /\ s \in 0..Len(t) /\ e \in s..Len(t) /\ s + 1 \in 1..e
  BY DEF Whole, Boundary
<1>2. r.start = s /\ r.end = e /\ r.text = <<>>
  BY DEF Replacement
<1>3. r.start \in 0..Len(t) /\ r.end \in r.start..Len(t) /\ r.text \in Seq(Bytes) /\ Len(r.text) = 0
  <2> HIDE DEF r
  <2>1. <<>> \in Seq(Bytes) /\ Len(<<>>) = 0
    BY EmptySeq
  <2> QED BY <1>1, <1>2, <2>1
<1>4. Splices(Bytes, u, t, r.start, r.end, r.text)
  <2> HIDE DEF r
  <2> QED BY <1>1, <1>3, SubstituteType DEF r
<1> HIDE DEF r
<1>5. u \in Seq(Bytes) /\ Len(u) = Len(t) - (e - s)
  BY <1>1, <1>2, <1>3, <1>4 DEF Splices
<1>6. \A i \in 1..Len(u) : u[i] = IF i <= s THEN t[i] ELSE t[i + (e - s)]
  <2> TAKE i \in 1..Len(u)
  <2>1. u[i] = IF i <= r.start THEN t[i]
               ELSE IF i <= r.start + Len(r.text) THEN r.text[i - r.start]
               ELSE t[i - r.start - Len(r.text) + r.end]
    BY <1>4 DEF Splices
  <2>2. i - r.start - Len(r.text) + r.end = i + (e - s) /\ (i <= r.start + Len(r.text) <=> i <= s)
    BY <1>1, <1>2, <1>3, <1>5
  <2> QED BY <1>2, <2>1, <2>2
<1>7. w \in Seq(Bytes) /\ Len(w) = e - s
  <2>1. \A i \in (s + 1)..e : t[i] \in Bytes
    BY <1>1
  <2>2. w \in Seq(Bytes)
    BY <1>1, <2>1, SubSeqProperties
  <2>3. Len(w) = e - (s + 1) + 1
    BY <1>1, <2>1, SubSeqProperties
  <2> QED BY <1>1, <2>2, <2>3
<1>8. \A i \in 1..Len(w) : w[i] = t[s + i]
  <2>1. \A i \in (s + 1)..e : t[i] \in Bytes
    BY <1>1
  <2>2. \A i \in 1..(e - (s + 1) + 1) : w[i] = t[(s + 1) + i - 1]
    BY <1>1, <2>1, SubSeqProperties
  <2> TAKE i \in 1..Len(w)
  <2>3. i \in 1..(e - (s + 1) + 1) /\ (s + 1) + i - 1 = s + i
    BY <1>1, <1>7
  <2> QED BY <2>2, <2>3
<1>9. w \in Whole /\ w # <<>>
  <2>1. w[1] = t[s + 1]
    BY <1>1, <1>7, <1>8
  <2>2. t[s + 1] # "C"
    BY <1>1 DEF Boundary
  <2>3. w # <<>>
    BY <1>1, <1>7, EmptySeq
  <2> QED BY <1>7, <2>1, <2>2, <2>3 DEF Whole
<1>10. Boundary(u, s)
  <2>1. s \in 0..Len(u)
    BY <1>1, <1>5
  <2>2. s < Len(u) => u[s + 1] # "C"
    <3> HAVE s < Len(u)
    <3>1. s + 1 \in 1..Len(u) /\ ~(s + 1 <= s) /\ (s + 1) + (e - s) = e + 1 /\ e < Len(t)
      BY <1>1, <1>5
    <3> QED BY <1>6, <3>1 DEF Boundary
  <2> QED BY <2>1, <2>2 DEF Boundary
<1>11. u \in Whole
  <2> SUFFICES ASSUME u # <<>> PROVE u[1] # "C"
    BY <1>5 DEF Whole
  <2>1. 1 \in 1..Len(u)
    BY <1>5, EmptySeq
  <2>2. CASE s = 0
    BY <1>1, <1>10, <2>1, <2>2 DEF Boundary
  <2>3. CASE s # 0
    <3>1. u[1] = t[1] /\ t # <<>>
      BY <1>1, <1>6, <2>1, <2>3
    <3> QED BY <3>1 DEF Whole
  <2> QED BY <2>2, <2>3
<1>12. t = Substitute(u, Replacement(s, s, w))
  <2>0. PICK v : v = Substitute(u, Replacement(s, s, w))
    OBVIOUS
  <2>1. Len(v) = Len(u) + Len(w) /\ v \in Whole /\ Splices(Bytes, v, u, s, s, w)
    <3>1. v \in Whole
      BY <1>9, <1>10, <1>11, <2>0, Put
    <3>3. Splices(Bytes, v, u, s, s, w)
      BY <1>9, <1>10, <1>11, <2>0, Put
    <3>2. Len(v) = Len(u) + Len(w)
      <4>1. Len(v) = Len(u) - (s - s) + Len(w)
        BY <3>3 DEF Splices
      <4> QED BY <4>1, <1>1, <1>5, <1>7
    <3> QED BY <3>1, <3>2, <3>3
  <2>2. ASSUME NEW i \in 1..Len(v)
        PROVE  v[i] = IF i <= s THEN u[i] ELSE IF i <= s + Len(w) THEN w[i - s] ELSE u[i - Len(w)]
    <3>1. v[i] = IF i <= s THEN u[i] ELSE IF i <= s + Len(w) THEN w[i - s] ELSE u[i - s - Len(w) + s]
      BY <2>1 DEF Splices
    <3>2. i - s - Len(w) + s = i - Len(w)
      BY <1>1, <1>7
    <3> QED BY <3>1, <3>2
  <2>3. Len(v) = Len(t) /\ v \in Seq(Bytes)
    BY <1>1, <1>5, <1>7, <2>1 DEF Whole
  <2>4. ASSUME NEW i \in 1..Len(v) PROVE v[i] = t[i]
    <3>1. CASE i <= s
      <4>1. i \in 1..Len(u)
        BY <1>1, <1>5, <3>1
      <4>2. v[i] = u[i]
        BY <2>2, <3>1
      <4>3. u[i] = t[i]
        BY <1>6, <3>1, <4>1
      <4> QED BY <4>2, <4>3
    <3>2. CASE s < i /\ i <= s + Len(w)
      <4>1. v[i] = w[i - s]
        <5>1. ~(i <= s) /\ i <= s + Len(w)
          BY <1>1, <3>2
        <5> QED BY <2>2, <5>1
      <4>2. i - s \in 1..Len(w) /\ s + (i - s) = i
        BY <1>1, <1>7, <3>2
      <4> QED BY <1>8, <4>1, <4>2
    <3>3. CASE i > s + Len(w)
      <4>1. v[i] = u[i - Len(w)]
        BY <1>1, <1>7, <2>2, <3>3
      <4>2. i - Len(w) \in 1..Len(u) /\ ~(i - Len(w) <= s) /\ (i - Len(w)) + (e - s) = i
        BY <1>1, <1>5, <1>7, <2>3, <3>3
      <4> QED BY <1>6, <4>1, <4>2
    <3> QED BY <3>1, <3>2, <3>3, <1>1, <1>7
  <2>5. v = t
    BY <1>1, <2>3, <2>4, SeqEqual
  <2> QED BY <2>0, <2>5
<1>13. Paired(u, Edit("insert", s, w), Edit("delete", s, w), t)
  BY <1>9, <1>10, <1>11, <1>12, Put
<1> QED BY <1>9, <1>10, <1>11, <1>13 DEF Paired

(* A replacement is its deletion and then its insertion.                    *)
LEMMA TwoSteps ==
  ASSUME NEW t \in Whole, NEW s \in Nat, NEW e \in Nat, s <= e,
         Boundary(t, s), Boundary(t, e), NEW w \in Whole,
         NEW u \in Whole, u = Substitute(t, Replacement(s, e, <<>>)), Boundary(u, s),
         NEW v, v = Substitute(u, Replacement(s, s, w))
  PROVE  Substitute(t, Replacement(s, e, w)) = v
<1>1. /\ t \in Seq(Bytes) /\ u \in Seq(Bytes) /\ w \in Seq(Bytes) /\ Len(t) \in Nat /\ Len(u) \in Nat
      /\ Len(w) \in Nat /\ s \in 0..Len(t) /\ e \in s..Len(t) /\ s \in 0..Len(u) /\ s \in s..Len(u)
  BY DEF Whole, Boundary
<1>2. Splices(Bytes, Substitute(t, Replacement(s, e, w)), t, s, e, w)
  <2>1. Substitute(t, Replacement(s, e, w)) = SubSeq(t, 1, s) \o w \o SubSeq(t, e + 1, Len(t))
    BY DEF Substitute, Replacement
  <2> QED BY <1>1, <2>1, Spliced
<1>3. Splices(Bytes, u, t, s, e, <<>>)
  <2>1. <<>> \in Seq(Bytes) /\ u = SubSeq(t, 1, s) \o <<>> \o SubSeq(t, e + 1, Len(t))
    BY EmptySeq DEF Substitute, Replacement
  <2> QED BY <1>1, <2>1, Spliced
<1>4. Splices(Bytes, v, u, s, s, w)
  <2>1. v = SubSeq(u, 1, s) \o w \o SubSeq(u, s + 1, Len(u))
    BY DEF Substitute, Replacement
  <2> QED BY <1>1, <2>1, Spliced
<1>5. Len(<<>>) = 0
  OBVIOUS
<1> PICK x : x = Substitute(t, Replacement(s, e, w))
  OBVIOUS
<1>6. Len(x) = Len(t) - (e - s) + Len(w) /\ x \in Seq(Bytes)
  BY <1>2 DEF Splices
<1>7. Len(u) = Len(t) - (e - s)
  BY <1>1, <1>3, <1>5 DEF Splices
<1>8. Len(v) = Len(x) /\ v \in Seq(Bytes)
  <2>1. Len(v) = Len(u) - (s - s) + Len(w) /\ v \in Seq(Bytes)
    BY <1>4 DEF Splices
  <2>2. Len(t) \in Nat /\ Len(w) \in Nat /\ s \in Nat /\ e \in Nat
    BY <1>1
  <2>3. Len(v) = Len(x)
    BY <1>6, <1>7, <2>1, <2>2
  <2> QED BY <2>1, <2>3
<1>9. ASSUME NEW i \in 1..Len(x) PROVE x[i] = v[i]
  <2>1. x[i] = IF i <= s THEN t[i]
               ELSE IF i <= s + Len(w) THEN w[i - s] ELSE t[i - s - Len(w) + e]
    BY <1>2 DEF Splices
  <2>2. v[i] = IF i <= s THEN u[i]
               ELSE IF i <= s + Len(w) THEN w[i - s] ELSE u[i - s - Len(w) + s]
    BY <1>4, <1>8 DEF Splices
  <2>3. CASE i <= s
    <3>1. i \in 1..Len(u)
      BY <1>1, <2>3
    <3>2. u[i] = t[i]
      BY <1>3, <2>3, <3>1 DEF Splices
    <3> QED BY <2>1, <2>2, <2>3, <3>2
  <2>4. CASE ~(i <= s) /\ i <= s + Len(w)
    BY <2>1, <2>2, <2>4
  <2>5. CASE ~(i <= s) /\ ~(i <= s + Len(w))
    <3> PICK k : k = i - s - Len(w) + s
      OBVIOUS
    <3>0. k = i - Len(w) /\ i \in Nat
      BY <1>1, <1>6
    <3>1. k \in 1..Len(u) /\ ~(k <= s) /\ ~(k <= s + Len(<<>>)) /\ k - s - Len(<<>>) + e = i - s - Len(w) + e
      <4>1. i <= Len(t) - (e - s) + Len(w)
        BY <1>1, <1>6
      <4>2. k \in 1..Len(u) /\ ~(k <= s)
        BY <1>1, <1>7, <2>5, <3>0, <4>1
      <4> QED BY <1>1, <1>5, <3>0, <4>2
    <3>2. u[k] = t[k - s - Len(<<>>) + e]
      BY <1>3, <3>1 DEF Splices
    <3> QED BY <2>1, <2>2, <2>5, <3>1, <3>2
  <2> QED BY <2>3, <2>4, <2>5
<1> QED BY <1>6, <1>8, <1>9, SeqEqual

(* Record appends one operation to each list and keeps the rest.            *)
LEMMA RecordIs ==
  ASSUME NEW h, h = [tree |-> h.tree, at |-> h.at, undo |-> h.undo, redo |-> h.redo],
         NEW a, NEW b, NEW g, g = Record(h, a, b)
  PROVE  /\ g = [tree |-> h.tree, at |-> h.at, undo |-> g.undo, redo |-> g.redo]
         /\ g.undo = Append(h.undo, a) /\ g.redo = Append(h.redo, b)
<1>1. g = [tree |-> h.tree, at |-> h.at, undo |-> Append(h.undo, a), redo |-> Append(h.redo, b)]
  BY DEF Record
<1> QED BY <1>1

(* A recorded edit keeps what the open group promises.                      *)
LEMMA EditKept ==
  ASSUME NEW t0 \in Seq(Bytes), NEW t \in Whole, NEW h, NEW r, Suits(t, r),
         h = [tree |-> h.tree, at |-> h.at, undo |-> h.undo, redo |-> h.redo],
         Leads(t0, h.undo, h.redo, t),
         NEW g, g = Recorded(h, r, SubSeq(t, r.start + 1, r.end))
  PROVE  /\ Substitute(t, r) \in Whole
         /\ g = [tree |-> h.tree, at |-> h.at, undo |-> g.undo, redo |-> g.redo]
         /\ Leads(t0, g.undo, g.redo, Substitute(t, r))
         /\ g.undo # <<>>
<1> PICK s : s = r.start
  OBVIOUS
<1> PICK e : e = r.end
  OBVIOUS
<1> PICK x : x = r.text
  OBVIOUS
<1>1. /\ s \in Nat /\ e \in Nat /\ s <= e /\ Boundary(t, s) /\ Boundary(t, e)
      /\ x \in Whole /\ (s < e \/ x # <<>>) /\ t \in Seq(Bytes) /\ Len(t) \in Nat
      /\ s \in 0..Len(t) /\ e \in 0..Len(t)
  BY DEF Suits, Whole, Boundary
<1> PICK w : w = SubSeq(t, s + 1, e)
  OBVIOUS
<1> PICK u : u = Substitute(t, Replacement(s, e, <<>>))
  OBVIOUS
<1> PICK cut : cut = IF w = <<>> THEN h
                     ELSE Record(h, Edit("insert", s, w), Edit("delete", s, w))
  OBVIOUS
<1>2. g = IF x = <<>> THEN cut
          ELSE Record(cut, Edit("delete", s, x), Edit("insert", s, x))
  BY DEF Recorded
<1>3. /\ u \in Whole /\ Boundary(u, s) /\ Leads(t0, cut.undo, cut.redo, u)
      /\ cut = [tree |-> h.tree, at |-> h.at, undo |-> cut.undo, redo |-> cut.redo]
      /\ s < e => cut.undo # <<>>
  <2>1. CASE s = e
    <3>1. w = <<>>
      BY <1>1, <2>1, SubSeqEmpty
    <3>2. u = t
      <4>1. Splices(Bytes, u, t, s, e, <<>>)
        <5>1. <<>> \in Seq(Bytes) /\ s \in 0..Len(t) /\ e \in s..Len(t)
          BY <1>1, EmptySeq
        <5>2. u = SubSeq(t, 1, s) \o <<>> \o SubSeq(t, e + 1, Len(t))
          BY DEF Substitute, Replacement
        <5> QED BY <1>1, <5>1, <5>2, Spliced
      <4>2. u \in Seq(Bytes) /\ Len(u) = Len(t) /\ Len(<<>>) = 0
        BY <1>1, <2>1, <4>1, EmptySeq DEF Splices
      <4>3. ASSUME NEW i \in 1..Len(u) PROVE u[i] = t[i]
        <5>1. u[i] = IF i <= s THEN t[i]
                     ELSE IF i <= s + Len(<<>>) THEN <<>>[i - s] ELSE t[i - s - Len(<<>>) + e]
          BY <4>1 DEF Splices
        <5>2. i - s - Len(<<>>) + e = i /\ (i <= s + Len(<<>>) <=> i <= s)
          BY <1>1, <2>1, <4>2
        <5> QED BY <5>1, <5>2
      <4> QED BY <1>1, <4>2, <4>3, SeqEqual
    <3>3. cut = h
      BY <3>1
    <3> QED BY <1>1, <2>1, <3>2, <3>3
  <2>2. CASE s < e
    <3>1. u \in Whole /\ w \in Whole /\ w # <<>> /\ Boundary(u, s)
      BY <1>1, <2>2, Cut
    <3>2. Paired(t, Edit("delete", s, w), Edit("insert", s, w), u)
      BY <1>1, <2>2, Cut
    <3>3. /\ cut = [tree |-> h.tree, at |-> h.at, undo |-> cut.undo, redo |-> cut.redo]
          /\ cut.undo = Append(h.undo, Edit("insert", s, w))
          /\ cut.redo = Append(h.redo, Edit("delete", s, w))
      BY <3>1, RecordIs
    <3>4. u \in Seq(Bytes)
      BY <3>1 DEF Whole
    <3>5. /\ Leads(t0, Append(h.undo, Edit("insert", s, w)), Append(h.redo, Edit("delete", s, w)), u)
          /\ Append(h.undo, Edit("insert", s, w)) # <<>>
      BY <1>1, <3>2, <3>4, GroupGrows
    <3> QED BY <3>1, <3>3, <3>5
  <2> QED BY <1>1, <2>1, <2>2, SMTT(60)
<1>6. Substitute(t, r) = Substitute(t, Replacement(s, e, x))
  BY DEF Substitute, Replacement
<1>4. CASE x = <<>>
  <2>1. g = cut
    BY <1>2, <1>4
  <2>2. Substitute(t, r) = u
    BY <1>4, <1>6
  <2> QED BY <1>1, <1>3, <1>4, <2>1, <2>2
<1>5. CASE x # <<>>
  <2> PICK v : v = Substitute(u, Replacement(s, s, x))
    OBVIOUS
  <2>1. v \in Whole
    BY <1>1, <1>3, <1>5, Put
  <2>2. Paired(u, Edit("insert", s, x), Edit("delete", s, x), v)
    BY <1>1, <1>3, <1>5, Put
  <2>3. /\ g = [tree |-> cut.tree, at |-> cut.at, undo |-> g.undo, redo |-> g.redo]
        /\ g.undo = Append(cut.undo, Edit("delete", s, x))
        /\ g.redo = Append(cut.redo, Edit("insert", s, x))
    <3>1. g = Record(cut, Edit("delete", s, x), Edit("insert", s, x))
      BY <1>2, <1>5
    <3>2. cut = [tree |-> cut.tree, at |-> cut.at, undo |-> cut.undo, redo |-> cut.redo]
      BY <1>3
    <3>3. PICK a, b : a = Edit("delete", s, x) /\ b = Edit("insert", s, x)
      OBVIOUS
    <3>4. g = Record(cut, a, b)
      BY <3>1, <3>3
    <3>5. g = [tree |-> cut.tree, at |-> cut.at, undo |-> Append(cut.undo, a), redo |-> Append(cut.redo, b)]
      BY <3>2, <3>4, ZenonT(60) DEF Record
    <3>6. g.undo = Append(cut.undo, a) /\ g.redo = Append(cut.redo, b)
      BY <3>5
    <3>7. g = [tree |-> cut.tree, at |-> cut.at, undo |-> g.undo, redo |-> g.redo]
      BY <3>5, <3>6
    <3> QED BY <3>3, <3>6, <3>7, Zenon
  <2>4. cut.tree = h.tree /\ cut.at = h.at
    BY <1>3
  <2>5. v \in Seq(Bytes) /\ u \in Seq(Bytes)
    BY <1>3, <2>1 DEF Whole
  <2>6. /\ Leads(t0, Append(cut.undo, Edit("delete", s, x)), Append(cut.redo, Edit("insert", s, x)), v)
        /\ Append(cut.undo, Edit("delete", s, x)) # <<>>
    BY <1>3, <2>2, <2>5, GroupGrows, SMTT(60)
  <2>7. Substitute(t, r) = v
    BY <1>1, <1>3, <1>6, TwoSteps
  <2> QED BY <2>1, <2>3, <2>4, <2>6, <2>7, Zenon
<1> QED BY <1>4, <1>5


(* run holds where each change of a list moves a position.                  *)
MapsTo(run, p, changes) ==
  /\ run = [i \in 0..Len(changes) |-> run[i]]
  /\ run[0] = p
  /\ \A i \in 1..Len(changes) : run[i] = MapPosition(run[i - 1], changes[i])

(* Mapped is the last element of its run.                                   *)
LEMMA MappedRun ==
  ASSUME NEW p, NEW changes, Len(changes) \in Nat, NEW run, MapsTo(run, p, changes)
  PROVE  Mapped(p, changes) = run[Len(changes)]
<1> DEFINE Is(g) == g = [i \in 0..Len(changes) |-> IF i = 0 THEN p ELSE MapPosition(g[i - 1], changes[i])]
<1>1. Is(run)
  <2>1. ASSUME NEW i \in 0..Len(changes) PROVE run[i] = IF i = 0 THEN p ELSE MapPosition(run[i - 1], changes[i])
    <3>1. CASE i = 0
      BY <3>1 DEF MapsTo
    <3>2. CASE i # 0
      <4>1. i \in 1..Len(changes)
        BY <3>2
      <4> QED BY <3>2, <4>1 DEF MapsTo
    <3> QED BY <3>1, <3>2
  <2>2. run = [i \in 0..Len(changes) |-> run[i]]
    BY DEF MapsTo
  <2> QED BY <2>1, <2>2
<1>2. Mapped(p, changes) = (CHOOSE g : Is(g))[Len(changes)]
  BY DEF Mapped
<1>3. Is(CHOOSE g : Is(g))
  <2> HIDE DEF Is
  <2> QED BY <1>1
<1> DEFINE h == CHOOSE g : Is(g)
<1>4. h = [i \in 0..Len(changes) |-> IF i = 0 THEN p ELSE MapPosition(h[i - 1], changes[i])]
  BY <1>3
<1> HIDE DEF h
<1> DEFINE S == {i \in Nat : i <= Len(changes) => h[i] = run[i]}
<1>5. 0 \in S
  <2>1. h[0] = p
    BY <1>4
  <2> QED BY <2>1 DEF MapsTo
<1>6. ASSUME NEW i \in Nat, i \in S PROVE i + 1 \in S
  <2>1. CASE i + 1 <= Len(changes)
    <3>1. h[i] = run[i] /\ i + 1 \in 1..Len(changes) /\ i + 1 \in 0..Len(changes) /\ (i + 1) - 1 = i /\ i + 1 # 0
      BY <1>6, <2>1
    <3>2. run[i + 1] = MapPosition(run[(i + 1) - 1], changes[i + 1])
      BY <3>1 DEF MapsTo
    <3>3. h[i + 1] = MapPosition(h[(i + 1) - 1], changes[i + 1])
      BY <1>4, <3>1
    <3>4. h[i + 1] = run[i + 1]
      BY <3>1, <3>2, <3>3
    <3> QED BY <3>4
  <2>2. CASE ~(i + 1 <= Len(changes))
    BY <2>2
  <2> QED BY <2>1, <2>2
<1> HIDE DEF S
<1>7. Len(changes) \in S
  BY <1>5, <1>6, Induction
<1>8. h[Len(changes)] = run[Len(changes)]
  BY <1>7 DEF S
<1> QED BY <1>2, <1>8 DEF h

(* run holds where the bytes come from after each change.                   *)
Carries(run, n, changes) ==
  /\ run = [i \in 0..Len(changes) |-> run[i]]
  /\ run[0] = [k \in 1..n |-> k]
  /\ \A i \in 1..Len(changes) : run[i] = Carried(run[i - 1], changes[i])

(* Origins is the last element of its run.                                  *)
LEMMA OriginsRun ==
  ASSUME NEW n, NEW changes, Len(changes) \in Nat, NEW run, Carries(run, n, changes)
  PROVE  Origins(n, changes) = run[Len(changes)]
<1> DEFINE Is(g) == g = [i \in 0..Len(changes) |-> IF i = 0 THEN [k \in 1..n |-> k]
                                                   ELSE Carried(g[i - 1], changes[i])]
<1>1. Is(run)
  <2>1. ASSUME NEW i \in 0..Len(changes)
        PROVE  run[i] = IF i = 0 THEN [k \in 1..n |-> k] ELSE Carried(run[i - 1], changes[i])
    <3>1. CASE i = 0
      BY <3>1 DEF Carries
    <3>2. CASE i # 0
      <4>1. i \in 1..Len(changes)
        BY <3>2
      <4> QED BY <3>2, <4>1 DEF Carries
    <3> QED BY <3>1, <3>2
  <2>2. run = [i \in 0..Len(changes) |-> run[i]]
    BY DEF Carries
  <2> QED BY <2>1, <2>2
<1>2. Origins(n, changes) = (CHOOSE g : Is(g))[Len(changes)]
  BY DEF Origins
<1>3. Is(CHOOSE g : Is(g))
  <2> HIDE DEF Is
  <2> QED BY <1>1
<1> DEFINE h == CHOOSE g : Is(g)
<1>4. h = [i \in 0..Len(changes) |-> IF i = 0 THEN [k \in 1..n |-> k] ELSE Carried(h[i - 1], changes[i])]
  BY <1>3
<1> HIDE DEF h
<1> DEFINE S == {i \in Nat : i <= Len(changes) => h[i] = run[i]}
<1>5. 0 \in S
  <2>1. h[0] = [k \in 1..n |-> k]
    BY <1>4
  <2> QED BY <2>1 DEF Carries
<1>6. ASSUME NEW i \in Nat, i \in S PROVE i + 1 \in S
  <2>1. CASE i + 1 <= Len(changes)
    <3>1. h[i] = run[i] /\ i + 1 \in 1..Len(changes) /\ i + 1 \in 0..Len(changes) /\ (i + 1) - 1 = i /\ i + 1 # 0
      BY <1>6, <2>1
    <3>2. run[i + 1] = Carried(run[(i + 1) - 1], changes[i + 1])
      BY <3>1 DEF Carries
    <3>3. h[i + 1] = Carried(h[(i + 1) - 1], changes[i + 1])
      BY <1>4, <3>1
    <3>4. h[i + 1] = run[i + 1]
      BY <3>1, <3>2, <3>3
    <3> QED BY <3>4
  <2>2. CASE ~(i + 1 <= Len(changes))
    BY <2>2
  <2> QED BY <2>1, <2>2
<1> HIDE DEF S
<1>7. Len(changes) \in S
  BY <1>5, <1>6, Induction
<1>8. h[Len(changes)] = run[Len(changes)]
  BY <1>7 DEF S
<1> QED BY <1>2, <1>8 DEF h

(* run holds the text after each edit of a batch, applied from its end.     *)
Replaces(run, t, edits) ==
  /\ run = [i \in 0..Len(edits) |-> run[i]]
  /\ run[0] = t
  /\ \A i \in 1..Len(edits) : run[i] = Substitute(run[i - 1], FromBack(edits, i))

(* Replaced is the last element of its run.                                 *)
LEMMA ReplacedRun ==
  ASSUME NEW t, NEW edits, Len(edits) \in Nat, NEW run, Replaces(run, t, edits)
  PROVE  Replaced(t, edits) = run[Len(edits)]
<1> DEFINE Is(g) == g = [i \in 0..Len(edits) |-> IF i = 0 THEN t ELSE Substitute(g[i - 1], FromBack(edits, i))]
<1>1. Is(run)
  <2>1. ASSUME NEW i \in 0..Len(edits) PROVE run[i] = IF i = 0 THEN t ELSE Substitute(run[i - 1], FromBack(edits, i))
    <3>1. CASE i = 0
      BY <3>1 DEF Replaces
    <3>2. CASE i # 0
      <4>1. i \in 1..Len(edits)
        BY <3>2
      <4> QED BY <3>2, <4>1 DEF Replaces
    <3> QED BY <3>1, <3>2
  <2>2. run = [i \in 0..Len(edits) |-> run[i]]
    BY DEF Replaces
  <2> QED BY <2>1, <2>2
<1>2. Replaced(t, edits) = (CHOOSE g : Is(g))[Len(edits)]
  BY DEF Replaced
<1>3. Is(CHOOSE g : Is(g))
  <2> HIDE DEF Is
  <2> QED BY <1>1
<1> DEFINE h == CHOOSE g : Is(g)
<1>4. h = [i \in 0..Len(edits) |-> IF i = 0 THEN t ELSE Substitute(h[i - 1], FromBack(edits, i))]
  BY <1>3
<1> HIDE DEF h
<1> DEFINE S == {i \in Nat : i <= Len(edits) => h[i] = run[i]}
<1>5. 0 \in S
  <2>1. h[0] = t
    BY <1>4
  <2> QED BY <2>1 DEF Replaces
<1>6. ASSUME NEW i \in Nat, i \in S PROVE i + 1 \in S
  <2>1. CASE i + 1 <= Len(edits)
    <3>1. h[i] = run[i] /\ i + 1 \in 1..Len(edits) /\ i + 1 \in 0..Len(edits) /\ (i + 1) - 1 = i /\ i + 1 # 0
      BY <1>6, <2>1
    <3>2. run[i + 1] = Substitute(run[(i + 1) - 1], FromBack(edits, i + 1))
      BY <3>1 DEF Replaces
    <3>3. h[i + 1] = Substitute(h[(i + 1) - 1], FromBack(edits, i + 1))
      BY <1>4, <3>1
    <3>4. h[i + 1] = run[i + 1]
      BY <3>1, <3>2, <3>3
    <3> QED BY <3>4
  <2>2. CASE ~(i + 1 <= Len(edits))
    BY <2>2
  <2> QED BY <2>1, <2>2
<1> HIDE DEF S
<1>7. Len(edits) \in S
  BY <1>5, <1>6, Induction
<1>8. h[Len(edits)] = run[Len(edits)]
  BY <1>7 DEF S
<1> QED BY <1>2, <1>8 DEF h

(* run holds the buffer after each edit of a batch, applied from its end.   *)
Batches(run, b, edits) ==
  /\ run = [i \in 0..Len(edits) |-> run[i]]
  /\ run[0] = b
  /\ \A i \in 1..Len(edits) : run[i] = Edited(run[i - 1], FromBack(edits, i))

(* BatchEdited is the last element of its run.                              *)
LEMMA BatchEditedRun ==
  ASSUME NEW b, NEW edits, Len(edits) \in Nat, NEW run, Batches(run, b, edits)
  PROVE  BatchEdited(b, edits) = run[Len(edits)]
<1> DEFINE Is(g) == g = [i \in 0..Len(edits) |-> IF i = 0 THEN b ELSE Edited(g[i - 1], FromBack(edits, i))]
<1>1. Is(run)
  <2>1. ASSUME NEW i \in 0..Len(edits) PROVE run[i] = IF i = 0 THEN b ELSE Edited(run[i - 1], FromBack(edits, i))
    <3>1. CASE i = 0
      BY <3>1 DEF Batches
    <3>2. CASE i # 0
      <4>1. i \in 1..Len(edits)
        BY <3>2
      <4> QED BY <3>2, <4>1 DEF Batches
    <3> QED BY <3>1, <3>2
  <2>2. run = [i \in 0..Len(edits) |-> run[i]]
    BY DEF Batches
  <2> QED BY <2>1, <2>2
<1>2. BatchEdited(b, edits) = (CHOOSE g : Is(g))[Len(edits)]
  BY DEF BatchEdited
<1>3. Is(CHOOSE g : Is(g))
  <2> HIDE DEF Is
  <2> QED BY <1>1
<1> DEFINE h == CHOOSE g : Is(g)
<1>4. h = [i \in 0..Len(edits) |-> IF i = 0 THEN b ELSE Edited(h[i - 1], FromBack(edits, i))]
  BY <1>3
<1> HIDE DEF h
<1> DEFINE S == {i \in Nat : i <= Len(edits) => h[i] = run[i]}
<1>5. 0 \in S
  <2>1. h[0] = b
    BY <1>4
  <2> QED BY <2>1 DEF Batches
<1>6. ASSUME NEW i \in Nat, i \in S PROVE i + 1 \in S
  <2>1. CASE i + 1 <= Len(edits)
    <3>1. h[i] = run[i] /\ i + 1 \in 1..Len(edits) /\ i + 1 \in 0..Len(edits) /\ (i + 1) - 1 = i /\ i + 1 # 0
      BY <1>6, <2>1
    <3>2. run[i + 1] = Edited(run[(i + 1) - 1], FromBack(edits, i + 1))
      BY <3>1 DEF Batches
    <3>3. h[i + 1] = Edited(h[(i + 1) - 1], FromBack(edits, i + 1))
      BY <1>4, <3>1
    <3>4. h[i + 1] = run[i + 1]
      BY <3>1, <3>2, <3>3
    <3> QED BY <3>4
  <2>2. CASE ~(i + 1 <= Len(edits))
    BY <2>2
  <2> QED BY <2>1, <2>2
<1> HIDE DEF S
<1>7. Len(edits) \in S
  BY <1>5, <1>6, Induction
<1>8. h[Len(edits)] = run[Len(edits)]
  BY <1>7 DEF S
<1> QED BY <1>2, <1>8 DEF h

(* run holds the sizes of the prefixes of a list of operations.             *)
Sums(run, ops) ==
  /\ run = [i \in 0..Len(ops) |-> run[i]]
  /\ run[0] = 0
  /\ \A i \in 1..Len(ops) : run[i] = run[i - 1] + Len(ops[i].text)

(* Size is the last element of its run.                                     *)
LEMMA SizeRun ==
  ASSUME NEW ops, Len(ops) \in Nat, NEW run, Sums(run, ops)
  PROVE  Size(ops) = run[Len(ops)]
<1> DEFINE Is(g) == g = [i \in 0..Len(ops) |-> IF i = 0 THEN 0 ELSE g[i - 1] + Len(ops[i].text)]
<1>1. Is(run)
  <2>1. ASSUME NEW i \in 0..Len(ops) PROVE run[i] = IF i = 0 THEN 0 ELSE run[i - 1] + Len(ops[i].text)
    <3>1. CASE i = 0
      BY <3>1 DEF Sums
    <3>2. CASE i # 0
      <4>1. i \in 1..Len(ops)
        BY <3>2
      <4> QED BY <3>2, <4>1 DEF Sums
    <3> QED BY <3>1, <3>2
  <2>2. run = [i \in 0..Len(ops) |-> run[i]]
    BY DEF Sums
  <2> QED BY <2>1, <2>2
<1>2. Size(ops) = (CHOOSE g : Is(g))[Len(ops)]
  BY DEF Size
<1>3. Is(CHOOSE g : Is(g))
  <2> HIDE DEF Is
  <2> QED BY <1>1
<1> DEFINE h == CHOOSE g : Is(g)
<1>4. h = [i \in 0..Len(ops) |-> IF i = 0 THEN 0 ELSE h[i - 1] + Len(ops[i].text)]
  BY <1>3
<1> HIDE DEF h
<1> DEFINE S == {i \in Nat : i <= Len(ops) => h[i] = run[i]}
<1>5. 0 \in S
  <2>1. h[0] = 0
    BY <1>4
  <2> QED BY <2>1 DEF Sums
<1>6. ASSUME NEW i \in Nat, i \in S PROVE i + 1 \in S
  <2>1. CASE i + 1 <= Len(ops)
    <3>1. h[i] = run[i] /\ i + 1 \in 1..Len(ops) /\ i + 1 \in 0..Len(ops) /\ (i + 1) - 1 = i /\ i + 1 # 0
      BY <1>6, <2>1
    <3>2. run[i + 1] = run[(i + 1) - 1] + Len(ops[i + 1].text)
      BY <3>1 DEF Sums
    <3>3. h[i + 1] = h[(i + 1) - 1] + Len(ops[i + 1].text)
      BY <1>4, <3>1
    <3>4. h[i + 1] = run[i + 1]
      BY <3>1, <3>2, <3>3
    <3> QED BY <3>4
  <2>2. CASE ~(i + 1 <= Len(ops))
    BY <2>2
  <2> QED BY <2>1, <2>2
<1> HIDE DEF S
<1>7. Len(ops) \in S
  BY <1>5, <1>6, Induction
<1>8. h[Len(ops)] = run[Len(ops)]
  BY <1>7 DEF S
<1> QED BY <1>2, <1>8 DEF h

(* run holds the sizes of the first steps of a path.                        *)
SumsUp(run, steps, n) ==
  /\ run = [i \in 0..n |-> run[i]]
  /\ run[0] = 0
  /\ \A i \in 1..n : run[i] = run[i - 1] + Size(steps[i].undo \o steps[i].redo)

(* TotalSize is an element of its run.                                      *)
LEMMA TotalSizeRun ==
  ASSUME NEW steps, NEW n, n \in Nat, NEW run, SumsUp(run, steps, n)
  PROVE  TotalSize(steps, n) = run[n]
<1> DEFINE Is(g) == g = [i \in 0..n |-> IF i = 0 THEN 0 ELSE g[i - 1] + Size(steps[i].undo \o steps[i].redo)]
<1>1. Is(run)
  <2>1. ASSUME NEW i \in 0..n PROVE run[i] = IF i = 0 THEN 0 ELSE run[i - 1] + Size(steps[i].undo \o steps[i].redo)
    <3>1. CASE i = 0
      BY <3>1 DEF SumsUp
    <3>2. CASE i # 0
      <4>1. i \in 1..n
        BY <3>2
      <4> QED BY <3>2, <4>1 DEF SumsUp
    <3> QED BY <3>1, <3>2
  <2>2. run = [i \in 0..n |-> run[i]]
    BY DEF SumsUp
  <2> QED BY <2>1, <2>2
<1>2. TotalSize(steps, n) = (CHOOSE g : Is(g))[n]
  BY DEF TotalSize
<1>3. Is(CHOOSE g : Is(g))
  <2> HIDE DEF Is
  <2> QED BY <1>1
<1> DEFINE h == CHOOSE g : Is(g)
<1>4. h = [i \in 0..n |-> IF i = 0 THEN 0 ELSE h[i - 1] + Size(steps[i].undo \o steps[i].redo)]
  BY <1>3
<1> HIDE DEF h
<1> DEFINE S == {i \in Nat : i <= n => h[i] = run[i]}
<1>5. 0 \in S
  <2>1. h[0] = 0
    BY <1>4
  <2> QED BY <2>1 DEF SumsUp
<1>6. ASSUME NEW i \in Nat, i \in S PROVE i + 1 \in S
  <2>1. CASE i + 1 <= n
    <3>1. h[i] = run[i] /\ i + 1 \in 1..n /\ i + 1 \in 0..n /\ (i + 1) - 1 = i /\ i + 1 # 0
      BY <1>6, <2>1
    <3>2. run[i + 1] = run[(i + 1) - 1] + Size(steps[i + 1].undo \o steps[i + 1].redo)
      BY <3>1 DEF SumsUp
    <3>3. h[i + 1] = h[(i + 1) - 1] + Size(steps[i + 1].undo \o steps[i + 1].redo)
      BY <1>4, <3>1
    <3>4. h[i + 1] = run[i + 1]
      BY <3>1, <3>2, <3>3
    <3> QED BY <3>4
  <2>2. CASE ~(i + 1 <= n)
    BY <2>2
  <2> QED BY <2>1, <2>2
<1> HIDE DEF S
<1>7. n \in S
  BY <1>5, <1>6, Induction
<1>8. h[n] = run[n]
  BY <1>7 DEF S
<1> QED BY <1>2, <1>8 DEF h

(* run holds the walkers at each position of the origins.                   *)
Walks(run, t, from) ==
  /\ run = [i \in 0..Len(from) |-> run[i]]
  /\ run[0] = [edits |-> <<>>, original |-> 0, kept |-> 0]
  /\ \A i \in 1..Len(from) : run[i] = Walked(run[i - 1], t, from[i], i)

(* The origins of all bytes, and the end.                                   *)
Marks(from, n, changes) == from = Append(Origins(n, changes), n + 1)

(* ReplacementsIn are the edits of the last walker.                         *)
LEMMA ReplacementsInRun ==
  ASSUME NEW n, NEW changes, NEW t, NEW from, Marks(from, n, changes), Len(from) \in Nat,
         NEW run, Walks(run, t, from)
  PROVE  ReplacementsIn(t, n, changes) = run[Len(from)].edits
<1> DEFINE Is(g) == g = [i \in 0..Len(from) |-> IF i = 0 THEN [edits |-> <<>>, original |-> 0, kept |-> 0]
                                                ELSE Walked(g[i - 1], t, from[i], i)]
<1>1. Is(run)
  <2>1. ASSUME NEW i \in 0..Len(from)
        PROVE  run[i] = IF i = 0 THEN [edits |-> <<>>, original |-> 0, kept |-> 0] ELSE Walked(run[i - 1], t, from[i], i)
    <3>1. CASE i = 0
      BY <3>1 DEF Walks
    <3>2. CASE i # 0
      <4>1. i \in 1..Len(from)
        BY <3>2
      <4> QED BY <3>2, <4>1 DEF Walks
    <3> QED BY <3>1, <3>2
  <2>2. run = [i \in 0..Len(from) |-> run[i]]
    BY DEF Walks
  <2> QED BY <2>1, <2>2
<1>2. ReplacementsIn(t, n, changes) = (CHOOSE g : Is(g))[Len(from)].edits
  BY DEF ReplacementsIn, Marks
<1>3. Is(CHOOSE g : Is(g))
  <2> HIDE DEF Is
  <2> QED BY <1>1
<1> DEFINE h == CHOOSE g : Is(g)
<1>4. h = [i \in 0..Len(from) |-> IF i = 0 THEN [edits |-> <<>>, original |-> 0, kept |-> 0]
                                  ELSE Walked(h[i - 1], t, from[i], i)]
  BY <1>3
<1> HIDE DEF h
<1> DEFINE S == {i \in Nat : i <= Len(from) => h[i] = run[i]}
<1>5. 0 \in S
  <2>1. h[0] = [edits |-> <<>>, original |-> 0, kept |-> 0]
    BY <1>4
  <2> QED BY <2>1 DEF Walks
<1>6. ASSUME NEW i \in Nat, i \in S PROVE i + 1 \in S
  <2>1. CASE i + 1 <= Len(from)
    <3>1. h[i] = run[i] /\ i + 1 \in 1..Len(from) /\ i + 1 \in 0..Len(from) /\ (i + 1) - 1 = i /\ i + 1 # 0
      BY <1>6, <2>1
    <3>2. run[i + 1] = Walked(run[(i + 1) - 1], t, from[i + 1], i + 1)
      BY <3>1 DEF Walks
    <3>3. h[i + 1] = Walked(h[(i + 1) - 1], t, from[i + 1], i + 1)
      BY <1>4, <3>1
    <3>4. h[i + 1] = run[i + 1]
      BY <3>1, <3>2, <3>3
    <3> QED BY <3>4
  <2>2. CASE ~(i + 1 <= Len(from))
    BY <2>2
  <2> QED BY <2>1, <2>2
<1> HIDE DEF S
<1>7. Len(from) \in S
  BY <1>5, <1>6, Induction
<1>8. h[Len(from)] = run[Len(from)]
  BY <1>7 DEF S
<1> QED BY <1>2, <1>8 DEF h

(* run holds the buffer after each operation of a journey.                  *)
Travels(run, b, m, ops) ==
  /\ run = [i \in 0..Len(ops) |-> run[i]]
  /\ run[0] = [b EXCEPT !.history = m]
  /\ \A i \in 1..Len(ops) : run[i] = Published(run[i - 1], AsReplacement(ops[i]))

(* Travelled is the last element of its run.                                *)
LEMMA TravelledRun ==
  ASSUME NEW target, NEW b, NEW m, NEW ops, m = Moved(Committed(b.history), target),
         ops = OpsTo(Committed(b.history), target), Len(ops) \in Nat, NEW run, Travels(run, b, m, ops)
  PROVE  Travelled(b, target) = run[Len(ops)]
<1> DEFINE Is(g) == g = [i \in 0..Len(ops) |-> IF i = 0 THEN [b EXCEPT !.history = m]
                                               ELSE Published(g[i - 1], AsReplacement(ops[i]))]
<1>1. Is(run)
  <2>1. ASSUME NEW i \in 0..Len(ops)
        PROVE  run[i] = IF i = 0 THEN [b EXCEPT !.history = m] ELSE Published(run[i - 1], AsReplacement(ops[i]))
    <3>1. CASE i = 0
      BY <3>1 DEF Travels
    <3>2. CASE i # 0
      <4>1. i \in 1..Len(ops)
        BY <3>2
      <4> QED BY <3>2, <4>1 DEF Travels
    <3> QED BY <3>1, <3>2
  <2>2. run = [i \in 0..Len(ops) |-> run[i]]
    BY DEF Travels
  <2> QED BY <2>1, <2>2
<1>2. Travelled(b, target) = (CHOOSE g : Is(g))[Len(ops)]
  BY DEF Travelled
<1>3. Is(CHOOSE g : Is(g))
  <2> HIDE DEF Is
  <2> QED BY <1>1
<1> DEFINE h == CHOOSE g : Is(g)
<1>4. h = [i \in 0..Len(ops) |-> IF i = 0 THEN [b EXCEPT !.history = m]
                                 ELSE Published(h[i - 1], AsReplacement(ops[i]))]
  BY <1>3
<1> HIDE DEF h
<1> DEFINE S == {i \in Nat : i <= Len(ops) => h[i] = run[i]}
<1>5. 0 \in S
  <2>1. h[0] = [b EXCEPT !.history = m]
    BY <1>4
  <2> QED BY <2>1 DEF Travels
<1>6. ASSUME NEW i \in Nat, i \in S PROVE i + 1 \in S
  <2>1. CASE i + 1 <= Len(ops)
    <3>1. h[i] = run[i] /\ i + 1 \in 1..Len(ops) /\ i + 1 \in 0..Len(ops) /\ (i + 1) - 1 = i /\ i + 1 # 0
      BY <1>6, <2>1
    <3>2. run[i + 1] = Published(run[(i + 1) - 1], AsReplacement(ops[i + 1]))
      BY <3>1 DEF Travels
    <3>3. h[i + 1] = Published(h[(i + 1) - 1], AsReplacement(ops[i + 1]))
      BY <1>4, <3>1
    <3>4. h[i + 1] = run[i + 1]
      BY <3>1, <3>2, <3>3
    <3> QED BY <3>4
  <2>2. CASE ~(i + 1 <= Len(ops))
    BY <2>2
  <2> QED BY <2>1, <2>2
<1> HIDE DEF S
<1>7. Len(ops) \in S
  BY <1>5, <1>6, Induction
<1>8. h[Len(ops)] = run[Len(ops)]
  BY <1>7 DEF S
<1> QED BY <1>2, <1>8 DEF h


(* The replacements of any text and what the journal keeps of them.         *)
Replacements == [start : Nat, end : Nat, text : Seq(Bytes)]
Geometries == {Change(t, r) : t \in Seq(Bytes), r \in Replacements}

(* from tells of each byte of t which byte of l it is, or that it was       *)
(* typed, in order.                                                         *)
OriginsOk(l, changes, t, from) ==
  /\ from \in Seq(Nat) /\ Len(from) = Len(t)
  /\ \A q \in 1..Len(t) : from[q] # Typed =>
       /\ from[q] \in 1..Len(l) /\ t[q] = l[from[q]]
       /\ Mapped(from[q] - 1, changes) = q - 1
  /\ \A p, q \in 1..Len(t) : p < q /\ from[p] # Typed /\ from[q] # Typed => from[p] < from[q]

(* The changes since the lease account for every byte of the text.          *)
Accounts(l, changes, t) ==
  /\ changes \in Seq(Geometries)
  /\ \E run : Carries(run, Len(l), changes) /\ OriginsOk(l, changes, t, run[Len(changes)])

(* What the journal keeps of a change is three naturals.                    *)
LEMMA GeometryType ==
  ASSUME NEW c \in Geometries
  PROVE  c.start \in Nat /\ c.oldEnd \in Nat /\ c.newEnd \in Nat
<1>1. PICK t \in Seq(Bytes), r \in Replacements : c = Change(t, r)
  BY DEF Geometries
<1>2. c.start = r.start /\ c.oldEnd = r.end /\ c.newEnd = r.start + Len(r.text)
  BY <1>1 DEF Change
<1>3. r.start \in Nat /\ r.end \in Nat /\ Len(r.text) \in Nat
  BY DEF Replacements
<1> QED BY <1>2, <1>3

(* Every position has a run along a list of changes.                        *)
LEMMA MapsExist ==
  ASSUME NEW p \in Int, NEW changes \in Seq(Geometries)
  PROVE  \E run \in [0..Len(changes) -> Int] : MapsTo(run, p, changes)
<1> DEFINE G == [i \in 1..Len(changes) |-> [x \in Int |-> MapPosition(x, changes[i])]]
<1>1. Len(changes) \in Nat /\ \A i \in 1..Len(changes) : changes[i] \in Geometries
  OBVIOUS
<1>2. G \in [1..Len(changes) -> [Int -> Int]]
  <2>1. ASSUME NEW i \in 1..Len(changes) PROVE [x \in Int |-> MapPosition(x, changes[i])] \in [Int -> Int]
    <3>1. changes[i].start \in Nat /\ changes[i].oldEnd \in Nat /\ changes[i].newEnd \in Nat
      BY <1>1, GeometryType
    <3> QED BY <3>1 DEF MapPosition
  <2> QED BY <2>1
<1>3. PICK f \in [0..Len(changes) -> Int] : Proceeds(f, Len(changes), p, G)
  <2> HIDE DEF G
  <2> QED BY <1>1, <1>2, LinearRecursion
<1>4. \A i \in 1..Len(changes) : f[i] = MapPosition(f[i - 1], changes[i])
  <2> TAKE i \in 1..Len(changes)
  <2>1. f[i] = G[i][f[i - 1]]
    <3> HIDE DEF G
    <3> QED BY <1>3 DEF Proceeds
  <2>2. i - 1 \in 0..Len(changes)
    BY <1>1
  <2>3. f[i - 1] \in Int
    BY <2>2
  <2>4. G[i] = [x \in Int |-> MapPosition(x, changes[i])]
    OBVIOUS
  <2> HIDE DEF G
  <2> QED BY <2>1, <2>3, <2>4
<1>5. f = [i \in 0..Len(changes) |-> f[i]]
  OBVIOUS
<1> QED BY <1>3, <1>4, <1>5 DEF MapsTo, Proceeds

(* A position moved by one change more.                                     *)
LEMMA MappedAppend ==
  ASSUME NEW p \in Int, NEW changes \in Seq(Geometries), NEW c \in Geometries
  PROVE  Mapped(p, Append(changes, c)) = MapPosition(Mapped(p, changes), c)
<1> PICK more : more = Append(changes, c)
  OBVIOUS
<1>1. more \in Seq(Geometries) /\ Len(more) = Len(changes) + 1 /\ Len(changes) \in Nat
  BY AppendProperties
<1>2. (\A i \in 1..Len(changes) : more[i] = changes[i]) /\ more[Len(changes) + 1] = c
  BY AppendProperties
<1>3. PICK f \in [0..Len(more) -> Int] : MapsTo(f, p, more)
  BY <1>1, MapsExist
<1>4. Mapped(p, more) = f[Len(more)]
  <2>1. Len(more) \in Nat
    BY <1>1
  <2> QED BY <1>3, <2>1, MappedRun
<1> DEFINE g == [i \in 0..Len(changes) |-> f[i]]
<1>5. MapsTo(g, p, changes)
  <2>1. g[0] = p
    BY <1>1, <1>3 DEF MapsTo
  <2>2. ASSUME NEW i \in 1..Len(changes) PROVE g[i] = MapPosition(g[i - 1], changes[i])
    <3>1. i \in 1..Len(more) /\ g[i] = f[i] /\ g[i - 1] = f[i - 1] /\ more[i] = changes[i]
      BY <1>1, <1>2
    <3>2. f[i] = MapPosition(f[i - 1], more[i])
      BY <1>3, <3>1 DEF MapsTo
    <3> QED BY <3>1, <3>2
  <2>3. g = [i \in 0..Len(changes) |-> g[i]]
    OBVIOUS
  <2> HIDE DEF g
  <2> QED BY <2>1, <2>2, <2>3 DEF MapsTo
<1>6. Mapped(p, changes) = g[Len(changes)]
  <2> HIDE DEF g
  <2> QED BY <1>1, <1>5, MappedRun
<1>7. g[Len(changes)] = f[Len(changes)]
  BY <1>1
<1>8. f[Len(more)] = MapPosition(f[Len(changes)], c)
  <2>1. Len(more) \in 1..Len(more) /\ Len(more) - 1 = Len(changes)
    BY <1>1
  <2>2. f[Len(more)] = MapPosition(f[Len(more) - 1], more[Len(more)])
    BY <1>3, <2>1 DEF MapsTo
  <2> QED BY <1>1, <1>2, <2>1, <2>2
<1> QED BY <1>4, <1>6, <1>7, <1>8

(* No change accounts for the text of the lease.                            *)
LEMMA AccountsStart ==
  ASSUME NEW t \in Seq(Bytes)
  PROVE  Accounts(t, <<>>, t)
<1>1. <<>> \in Seq(Geometries) /\ Len(<<>>) = 0 /\ Len(t) \in Nat
  BY EmptySeq
<1> DEFINE from == [k \in 1..Len(t) |-> k]
           run == [i \in 0..Len(<<>>) |-> from]
<1>2. Carries(run, Len(t), <<>>)
  BY <1>1 DEF Carries
<1>3. run[Len(<<>>)] = from
  BY <1>1
<1>4. ASSUME NEW p \in Nat PROVE Mapped(p, <<>>) = p
  <2> DEFINE f == [i \in 0..0 |-> p]
  <2>1. MapsTo(f, p, <<>>)
    BY <1>1 DEF MapsTo
  <2> HIDE DEF f
  <2>2. Mapped(p, <<>>) = f[Len(<<>>)]
    BY <1>1, <2>1, MappedRun
  <2> QED BY <1>1, <2>1, <2>2 DEF MapsTo
<1>5. OriginsOk(t, <<>>, t, from)
  <2>1. from \in Seq(Nat) /\ Len(from) = Len(t)
    BY <1>1
  <2>2. ASSUME NEW q \in 1..Len(t) PROVE from[q] \in 1..Len(t) /\ t[q] = t[from[q]] /\ Mapped(from[q] - 1, <<>>) = q - 1
    <3>1. q - 1 \in Nat /\ from[q] = q
      BY <1>1
    <3> QED BY <1>4, <3>1
  <2>3. \A p, q \in 1..Len(t) : p < q => from[p] < from[q]
    OBVIOUS
  <2> HIDE DEF from
  <2> QED BY <2>1, <2>2, <2>3 DEF OriginsOk
<1>6. OriginsOk(t, <<>>, t, run[Len(<<>>)])
  BY <1>3, <1>5
<1> HIDE DEF run
<1> QED BY <1>1, <1>2, <1>6 DEF Accounts


(* A replacement whose range lies in the text.                              *)
Fitting(t, r) == r.start \in 0..Len(t) /\ r.end \in r.start..Len(t) /\ r.text \in Seq(Bytes)

(* The arithmetic of a byte behind a change.                                *)
LEMMA Shifts ==
  ASSUME NEW s \in Nat, NEW e \in Nat, s <= e, NEW n \in Nat, NEW q \in Nat, q > s + n
  PROVE  /\ q - s - n + e > e /\ ~((q - s - n + e) - 1 < s) /\ (q - s - n + e) - 1 >= e
         /\ (s + n) + (((q - s - n + e) - 1) - e) = q - 1
         /\ \A m \in Nat : q <= m - (e - s) + n => q - s - n + e \in 1..m
         /\ \A p \in Nat : p > s + n /\ p < q => p - s - n + e < q - s - n + e
  OBVIOUS

(* m is q shifted by a change of n bytes for those between s and e.         *)
Shifted(m, q, s, e, n) == m \in Int /\ q \in Nat /\ q > s + n /\ m = (q - s - n + e) - 1

(* What a change moves.                                                     *)
Moves(c, s, e, n) ==
  s \in Nat /\ e \in Nat /\ s <= e /\ n \in Nat /\ c.start = s /\ c.oldEnd = e /\ c.newEnd = s + n

(* A position that lands just before q.                                     *)
Lands(m, q) == m = q - 1

(* A byte behind a change is found where the change moved it.               *)
LEMMA MapShift ==
  ASSUME NEW s, NEW e, NEW n, NEW q, NEW c, Moves(c, s, e, n), NEW m, Shifted(m, q, s, e, n)
  PROVE  Lands(MapPosition(m, c), q)
<1>0. s \in Nat /\ e \in Nat /\ s <= e /\ n \in Nat /\ m \in Int /\ q \in Nat
  BY DEF Moves, Shifted
<1>1. q > s + n /\ m = (q - s - n + e) - 1
  BY DEF Shifted
<1>2. ~(m < s) /\ m >= e
  BY <1>0, <1>1
<1>3. (s + n) + (m - e) = q - 1
  BY <1>0, <1>1
<1>4. MapPosition(m, c) = c.newEnd + (m - c.oldEnd)
  BY <1>2 DEF MapPosition, Moves
<1>5. c.newEnd = s + n /\ c.oldEnd = e
  BY DEF Moves
<1>6. MapPosition(m, c) = q - 1
  BY <1>3, <1>4, <1>5
<1> QED BY <1>6 DEF Lands

(* A change splices typed bytes into the origins.                           *)
LEMMA CarriedSplices ==
  ASSUME NEW t \in Seq(Bytes), NEW r, Fitting(t, r), NEW from \in Seq(Nat), Len(from) = Len(t)
  PROVE  /\ Splices(Nat, Carried(from, Change(t, r)), from, r.start, r.end, [i \in 1..Len(r.text) |-> Typed])
         /\ Change(t, r) \in Geometries
<1> PICK s : s = r.start
  OBVIOUS
<1> PICK e : e = r.end
  OBVIOUS
<1> PICK w : w = r.text
  OBVIOUS
<1> PICK c : c = Change(t, r)
  OBVIOUS
<1>1. s \in 0..Len(t) /\ e \in s..Len(t) /\ w \in Seq(Bytes) /\ Len(w) \in Nat /\ Len(t) \in Nat
  BY DEF Fitting
<1>2. c.start = s /\ c.oldEnd = e /\ c.newEnd = s + Len(w)
  BY DEF Change
<1> PICK z : z = [i \in 1..Len(w) |-> Typed]
  OBVIOUS
<1>3. z \in Seq(Nat)
  <2>1. Typed \in Nat
    BY DEF Typed
  <2> QED BY <1>1, <2>1
<1>4. (s + Len(w)) - s = Len(w)
  BY <1>1
<1>5. Carried(from, c) = SubSeq(from, 1, s) \o z \o SubSeq(from, e + 1, Len(from))
  BY <1>2, <1>4 DEF Carried
<1>6. s \in 0..Len(from) /\ e \in s..Len(from)
  BY <1>1
<1>7. Splices(Nat, Carried(from, c), from, s, e, z)
  BY <1>3, <1>5, <1>6, Spliced
<1>8. c \in Geometries
  <2>1. Replacement(s, e, w) \in Replacements
    BY <1>1 DEF Replacement, Replacements
  <2>2. c = Change(t, Replacement(s, e, w))
    BY DEF Change, Replacement
  <2> QED BY <2>1, <2>2 DEF Geometries
<1> QED BY <1>7, <1>8

(* The origins stay right over one more change.                             *)
LEMMA OriginsExtend ==
  ASSUME NEW l \in Seq(Bytes), NEW changes \in Seq(Geometries), NEW t \in Seq(Bytes), NEW r, Fitting(t, r),
         NEW from, OriginsOk(l, changes, t, from),
         NEW u, u = Substitute(t, r), NEW c, c = Change(t, r), NEW g, g = Carried(from, c)
  PROVE  OriginsOk(l, Append(changes, c), u, g)
<1>s. PICK s, e, w : s = r.start /\ e = r.end /\ w = r.text
  OBVIOUS
<1>z. PICK z : z = [i \in 1..Len(w) |-> Typed]
  OBVIOUS
<1>1. s \in 0..Len(t) /\ e \in s..Len(t) /\ w \in Seq(Bytes) /\ Len(w) \in Nat /\ Len(t) \in Nat
  BY <1>s DEF Fitting
<1>2. from \in Seq(Nat) /\ Len(from) = Len(t)
  BY DEF OriginsOk
<1>3. \A q \in 1..Len(t) : from[q] # Typed =>
       /\ from[q] \in 1..Len(l) /\ t[q] = l[from[q]]
       /\ Mapped(from[q] - 1, changes) = q - 1
  BY DEF OriginsOk
<1>4. \A p, q \in 1..Len(t) : p < q /\ from[p] # Typed /\ from[q] # Typed => from[p] < from[q]
  BY DEF OriginsOk
<1>5. Splices(Nat, g, from, s, e, z)
  BY <1>2, <1>s, <1>z, CarriedSplices
<1>6. c \in Geometries
  BY <1>2, CarriedSplices
<1>7. Splices(Bytes, u, t, s, e, w)
  BY <1>s, SubstituteType DEF Fitting
<1>8. c.start = s /\ c.oldEnd = e /\ c.newEnd = s + Len(w)
  BY <1>s DEF Change
<1>9. Len(z) = Len(w) /\ \A i \in 1..Len(w) : z[i] = Typed
  BY <1>1, <1>z
<1>10. Len(u) = Len(t) - (e - s) + Len(w) /\ Len(g) = Len(u) /\ g \in Seq(Nat)
  BY <1>2, <1>5, <1>7, <1>9 DEF Splices
<1>11. Len(u) \in Nat
  BY <1>1, <1>10
<1> DEFINE at(q) == IF q <= s THEN q ELSE q - s - Len(w) + e
<1>12. ASSUME NEW q \in 1..Len(u), g[q] # Typed
       PROVE  /\ q <= s \/ q > s + Len(w)
              /\ at(q) \in 1..Len(t) /\ g[q] = from[at(q)] /\ u[q] = t[at(q)]
  <2>1. g[q] = IF q <= s THEN from[q] ELSE IF q <= s + Len(z) THEN z[q - s] ELSE from[q - s - Len(z) + e]
    BY <1>5, <1>10 DEF Splices
  <2>2. u[q] = IF q <= s THEN t[q] ELSE IF q <= s + Len(w) THEN w[q - s] ELSE t[q - s - Len(w) + e]
    BY <1>7 DEF Splices
  <2>3. CASE q <= s
    <3>1. q \in 1..Len(t)
      BY <1>1, <2>3
    <3> QED BY <2>1, <2>2, <2>3, <3>1
  <2>4. CASE ~(q <= s) /\ q <= s + Len(w)
    <3>1. q - s \in 1..Len(w)
      BY <1>1, <2>4
    <3>2. g[q] = z[q - s]
      BY <1>9, <2>1, <2>4
    <3> QED BY <1>9, <1>12, <3>1, <3>2
  <2>5. CASE ~(q <= s) /\ ~(q <= s + Len(w))
    <3>0. s \in Nat /\ e \in Nat /\ s <= e /\ q \in Nat /\ q <= Len(t) - (e - s) + Len(w) /\ Len(u) \in Nat
      BY <1>1, <1>10, <1>11
    <3>3. q > s + Len(w)
      BY <1>1, <2>5, <3>0
    <3>1. q - s - Len(w) + e \in 1..Len(t) /\ q > s + Len(w)
      BY <1>1, <3>3, <3>0, Shifts
    <3>2. g[q] = from[q - s - Len(w) + e]
      BY <1>9, <2>1, <2>5
    <3> QED BY <2>2, <2>5, <3>1, <3>2
  <2> QED BY <2>3, <2>4, <2>5
<1>13. ASSUME NEW q \in 1..Len(u), g[q] # Typed
       PROVE  /\ g[q] \in 1..Len(l) /\ u[q] = l[g[q]]
              /\ Mapped(g[q] - 1, Append(changes, c)) = q - 1
  <2>k. PICK k : k = at(q)
    OBVIOUS
  <2>1. k \in 1..Len(t) /\ g[q] = from[k] /\ u[q] = t[k] /\ (q <= s \/ q > s + Len(w))
    BY <1>12, <1>13, <2>k
  <2>2. from[k] \in 1..Len(l) /\ t[k] = l[from[k]] /\ Mapped(from[k] - 1, changes) = k - 1
    BY <1>3, <1>13, <2>1
  <2>3. from[k] - 1 \in Int
    BY <2>2
  <2>4. Mapped(from[k] - 1, Append(changes, c)) = MapPosition(Mapped(from[k] - 1, changes), c)
    BY <1>6, <2>3, MappedAppend
  <2>5. MapPosition(k - 1, c) = q - 1
    <3>1. CASE q <= s
      <4>1. k = q
        BY <3>1, <2>k
      <4> QED BY <1>1, <1>8, <2>1, <3>1, <4>1 DEF MapPosition
    <3>2. CASE q > s + Len(w)
      <4>1. k = q - s - Len(w) + e
        BY <1>1, <3>2, <2>k
      <4>0. s \in Nat /\ e \in Nat /\ s <= e /\ q \in Nat
        BY <1>1, <1>11
      <4>2. q > s + Len(w)
        BY <3>2
      <4> HIDE DEF at
      <4>n. PICK n : n = Len(w)
        OBVIOUS
      <4>m. PICK m : m = k - 1
        OBVIOUS
      <4>3. n \in Nat /\ q > s + n /\ c.newEnd = s + n
        BY <1>1, <1>8, <4>1, <4>2, <4>n
      <4>4. Shifted(m, q, s, e, n)
        BY <4>0, <4>1, <4>3, <4>m, <4>n DEF Shifted
      <4>6. Moves(c, s, e, n)
        BY <1>8, <4>0, <4>3 DEF Moves
      <4>5. Lands(MapPosition(m, c), q)
        BY <4>4, <4>6, MapShift
      <4> QED BY <4>5, <4>m DEF Lands
    <3> QED BY <2>1, <3>1, <3>2
  <2> HIDE DEF at
  <2> QED BY <2>1, <2>2, <2>4, <2>5
<1>14. ASSUME NEW p \in 1..Len(u), NEW q \in 1..Len(u), p < q, g[p] # Typed, g[q] # Typed
       PROVE  g[p] < g[q]
  <2>1. /\ at(p) \in 1..Len(t) /\ g[p] = from[at(p)] /\ (p <= s \/ p > s + Len(w))
        /\ at(q) \in 1..Len(t) /\ g[q] = from[at(q)] /\ (q <= s \/ q > s + Len(w))
    BY <1>12, <1>14
  <2>0. s \in Nat /\ e \in Nat /\ s <= e /\ p \in Nat /\ q \in Nat /\ Len(w) \in Nat
    BY <1>1, <1>11
  <2>2. at(p) < at(q)
    <3>1. CASE q <= s
      BY <2>0, <1>14, <3>1
    <3>2. CASE q > s + Len(w)
      <4>1. at(q) = q - s - Len(w) + e
        BY <2>0, <3>2
      <4>2. CASE p <= s
        <5>1. at(p) = p
          BY <4>2
        <5>2. at(q) > e
          BY <2>0, <3>2, <4>1, Shifts
        <5>3. at(q) \in Nat
          BY <2>1
        <5> HIDE DEF at
        <5> QED BY <2>0, <4>2, <5>1, <5>2, <5>3
      <4>3. CASE p > s + Len(w)
        <5>1. at(p) = p - s - Len(w) + e
          BY <2>0, <4>3
        <5>2. p - s - Len(w) + e < q - s - Len(w) + e
          BY <2>0, <1>14, <3>2, <4>3, Shifts
        <5> HIDE DEF at
        <5> QED BY <4>1, <5>1, <5>2
      <4> QED BY <2>1, <4>2, <4>3
    <3> QED BY <2>1, <3>1, <3>2
  <2> HIDE DEF at
  <2> QED BY <1>4, <1>14, <2>1, <2>2
<1> HIDE DEF at
<1> QED BY <1>10, <1>13, <1>14 DEF OriginsOk

(* The journal with one more change accounts for the text it leads to.      *)
LEMMA AccountsExtends ==
  ASSUME NEW l \in Seq(Bytes), NEW changes, NEW t \in Seq(Bytes), Accounts(l, changes, t),
         NEW r, Fitting(t, r)
  PROVE  Accounts(l, Append(changes, Change(t, r)), Substitute(t, r))
<1> PICK c : c = Change(t, r)
  OBVIOUS
<1> PICK u : u = Substitute(t, r)
  OBVIOUS
<1> PICK more : more = Append(changes, c)
  OBVIOUS
<1>1. changes \in Seq(Geometries)
  BY DEF Accounts
<1>2. PICK run : Carries(run, Len(l), changes) /\ OriginsOk(l, changes, t, run[Len(changes)])
  BY DEF Accounts
<1> PICK from : from = run[Len(changes)]
  OBVIOUS
<1>3. c \in Geometries
  <2>1. from \in Seq(Nat) /\ Len(from) = Len(t)
    BY <1>2 DEF OriginsOk
  <2> QED BY <2>1, CarriedSplices
<1>4. /\ more \in Seq(Geometries) /\ Len(more) = Len(changes) + 1 /\ Len(changes) \in Nat
      /\ more[Len(changes) + 1] = c
  BY <1>1, <1>3, AppendProperties
<1>5. \A i \in 1..Len(changes) : more[i] = changes[i]
  BY <1>1, <1>3, AppendProperties
<1> PICK g : g = Carried(from, c)
  OBVIOUS
<1> PICK new : new = [i \in 0..Len(more) |-> IF i = Len(more) THEN g ELSE run[i]]
  OBVIOUS
<1>6. OriginsOk(l, more, u, g)
  <2>1. OriginsOk(l, changes, t, from)
    BY <1>2
  <2> QED BY <1>1, <2>1, OriginsExtend
<1>7. Carries(new, Len(l), more)
  <2>1. new[0] = [k \in 1..Len(l) |-> k]
    <3>1. 0 \in 0..Len(more) /\ 0 # Len(more)
      BY <1>4
    <3>2. new[0] = run[0]
      BY <3>1
    <3> QED BY <1>2, <3>2 DEF Carries
  <2>2. ASSUME NEW i \in 1..Len(more) PROVE new[i] = Carried(new[i - 1], more[i])
    <3>1. CASE i = Len(more)
      <4>1. new[i] = g /\ new[i - 1] = run[Len(changes)] /\ more[i] = c
        BY <1>4, <3>1
      <4> QED BY <4>1
    <3>2. CASE i # Len(more)
      <4>1. i \in 1..Len(changes) /\ new[i] = run[i] /\ new[i - 1] = run[i - 1] /\ more[i] = changes[i]
        BY <1>4, <1>5, <3>2
      <4>2. run[i] = Carried(run[i - 1], changes[i])
        BY <1>2, <4>1 DEF Carries
      <4> QED BY <4>1, <4>2
    <3> QED BY <3>1, <3>2
  <2>3. new = [i \in 0..Len(more) |-> new[i]]
    OBVIOUS
  <2> QED BY <2>1, <2>2, <2>3 DEF Carries
<1>8. OriginsOk(l, more, u, new[Len(more)])
  <2>1. new[Len(more)] = g
    BY <1>4
  <2> QED BY <1>6, <2>1
<1>9. Accounts(l, more, u)
  BY <1>4, <1>7, <1>8 DEF Accounts
<1> QED BY <1>9


(* The buffers leased as l whose history is the tree T at the node a, of    *)
(* text t0.                                                                 *)
Drafts(l, t0, T, a) ==
  {c \in [text : Whole, epoch : Nat, changes : Seq(Geometries),
          history : [tree : {T}, at : {a}, undo : Seq(Ops), redo : Seq(Ops)]] :
     Leads(t0, c.history.undo, c.history.redo, c.text) /\ Accounts(l, c.changes, c.text)}

(* A suitable replacement fits.                                             *)
LEMMA SuitsFits ==
  ASSUME NEW t \in Whole, NEW r, Suits(t, r)
  PROVE  /\ Fitting(t, r) /\ t \in Seq(Bytes) /\ Len(t) \in Nat /\ r.text \in Seq(Bytes)
         /\ r.start \in Nat /\ r.end \in Nat /\ r.start <= r.end /\ r.end <= Len(t) /\ Len(r.text) \in Nat
  BY DEF Suits, Fitting, Whole, Boundary

(* What the user chooses suits the text.                                    *)
LEMMA ChoiceSuits ==
  ASSUME NEW t \in Whole, NEW r \in ReplacementsOf(t)
  PROVE  Suits(t, r)
<1>1. /\ r.start \in 0..Len(t) /\ r.end \in 0..Len(t) /\ r.start <= r.end
      /\ Boundary(t, r.start) /\ Boundary(t, r.end) /\ r.text \in Payloads \union {<<>>}
      /\ r.start < r.end \/ r.text # <<>>
  BY DEF ReplacementsOf
<1>2. r.text \in Whole
  <2>1. CASE r.text = <<>>
    BY <2>1, EmptySeq DEF Whole
  <2>2. CASE r.text \in Payloads
    <3>1. r.text \in Seq(Bytes) /\ (r.text # <<>> => r.text[1] # "C")
      BY <2>2, TextConstants
    <3> QED BY <3>1 DEF Whole
  <2> QED BY <1>1, <2>1, <2>2
<1>3. Len(t) \in Nat
  BY DEF Whole
<1> QED BY <1>1, <1>2, <1>3 DEF Suits

(* A boundary at or below a replacement stays one.                          *)
LEMMA BoundaryBelow ==
  ASSUME NEW t \in Whole, NEW r, Suits(t, r), NEW p, Boundary(t, p), p <= r.start,
         NEW u, u = Substitute(t, r)
  PROVE  Boundary(u, p)
<1>s. PICK s, e, w : s = r.start /\ e = r.end /\ w = r.text
  OBVIOUS
<1>1. /\ s \in Nat /\ e \in Nat /\ s <= e /\ e <= Len(t) /\ Len(t) \in Nat /\ Len(w) \in Nat
      /\ w \in Whole /\ Boundary(t, e) /\ p \in 0..Len(t) /\ p <= s /\ t \in Seq(Bytes) /\ w \in Seq(Bytes)
  BY <1>s, SuitsFits DEF Suits, Boundary
<1>2. Splices(Bytes, u, t, s, e, w)
  BY <1>s, SuitsFits, SubstituteType DEF Fitting
<1>3. Len(u) = Len(t) - (e - s) + Len(w)
  BY <1>2 DEF Splices
<1>4. p \in 0..Len(u)
  BY <1>1, <1>3
<1>5. ASSUME p < Len(u) PROVE u[p + 1] # "C"
  <2>0. p + 1 \in 1..Len(u) /\ p \in Nat /\ (p + 1) - s = p - s + 1
    BY <1>1, <1>3, <1>5
  <2>1. u[p + 1] = IF p + 1 <= s THEN t[p + 1] ELSE IF p + 1 <= s + Len(w) THEN w[(p + 1) - s]
                   ELSE t[(p + 1) - s - Len(w) + e]
    BY <1>2, <2>0 DEF Splices
  <2>2. CASE p < s
    <3>1. p + 1 <= s /\ p < Len(t)
      BY <1>1, <2>0, <2>2
    <3> QED BY <2>1, <3>1 DEF Boundary
  <2>3. CASE p = s /\ w # <<>>
    <3>1. Len(w) >= 1
      BY <1>1, <2>3, EmptySeq
    <3>2. ~(p + 1 <= s) /\ p + 1 <= s + Len(w) /\ (p + 1) - s = 1
      BY <1>1, <2>3, <3>1
    <3>3. w[1] # "C"
      BY <1>1, <2>3 DEF Whole
    <3> QED BY <2>1, <3>2, <3>3
  <2>4. CASE p = s /\ w = <<>>
    <3>1. Len(w) = 0
      BY <2>4
    <3>2. ~(p + 1 <= s) /\ ~(p + 1 <= s + Len(w)) /\ (p + 1) - s - Len(w) + e = e + 1 /\ e < Len(t)
      BY <1>1, <1>3, <1>5, <2>4, <3>1
    <3>3. t[e + 1] # "C"
      BY <1>1, <3>2 DEF Boundary
    <3> QED BY <2>1, <3>2, <3>3
  <2> QED BY <1>1, <2>0, <2>2, <2>3, <2>4
<1> QED BY <1>4, <1>5 DEF Boundary

(* A replacement below another still suits the text once the other is made. *)
LEMMA SuitsStill ==
  ASSUME NEW t \in Whole, NEW r, Suits(t, r), NEW q, Suits(t, q), q.end <= r.start,
         NEW u, u = Substitute(t, r)
  PROVE  Suits(u, q)
<1>1. q.start \in Nat /\ q.end \in Nat /\ r.start \in Nat /\ q.start <= q.end /\ q.start <= r.start
  BY DEF Suits
<1>2. Boundary(u, q.start)
  <2>1. Boundary(t, q.start)
    BY DEF Suits
  <2> QED BY <1>1, <2>1, BoundaryBelow
<1>3. Boundary(u, q.end)
  <2>1. Boundary(t, q.end)
    BY DEF Suits
  <2> QED BY <1>1, <2>1, BoundaryBelow
<1> QED BY <1>1, <1>2, <1>3 DEF Suits

(* Published, field by field.                                               *)
LEMMA PublishedIs ==
  ASSUME NEW b, NEW r, NEW t, NEW n, NEW j, NEW h,
         b = [text |-> t, epoch |-> n, changes |-> j, history |-> h]
  PROVE  Published(b, r) =
           [text |-> Substitute(t, r), epoch |-> n + 1, changes |-> Append(j, Change(t, r)), history |-> h]
<1>1. b.text = t /\ b.epoch = n /\ b.changes = j /\ b.history = h
  OBVIOUS
<1>2. Published(b, r) = [b EXCEPT !.text = Substitute(b.text, r), !.epoch = b.epoch + 1,
                                  !.changes = Append(b.changes, Change(b.text, r))]
  BY <1>1 DEF Published
<1> QED BY <1>1, <1>2

(* An edit keeps a buffer in order and opens the group.                     *)
LEMMA EditedDraft ==
  ASSUME NEW l \in Seq(Bytes), NEW t0 \in Seq(Bytes), NEW T, NEW a, NEW c \in Drafts(l, t0, T, a),
         NEW r, Suits(c.text, r), NEW d, d = Edited(c, r)
  PROVE  /\ d \in Drafts(l, t0, T, a)
         /\ d.text = Substitute(c.text, r) /\ d.epoch = c.epoch + 1 /\ d.history.undo # <<>>
<1>t. PICK t : t = c.text
  OBVIOUS
<1>h. PICK h : h = c.history
  OBVIOUS
<1>u. PICK u : u = Substitute(t, r)
  OBVIOUS
<1>g. PICK g : g = Recorded(h, r, SubSeq(t, r.start + 1, r.end))
  OBVIOUS
<1>w. PICK more : more = Append(c.changes, Change(t, r))
  OBVIOUS
<1>1. /\ t \in Whole /\ Suits(t, r) /\ c.epoch \in Nat /\ c.changes \in Seq(Geometries)
      /\ c = [text |-> t, epoch |-> c.epoch, changes |-> c.changes, history |-> h]
  BY <1>t, <1>h DEF Drafts
<1>2. /\ h = [tree |-> h.tree, at |-> h.at, undo |-> h.undo, redo |-> h.redo]
      /\ h.tree = T /\ h.at = a
  BY <1>h DEF Drafts
<1>3. Leads(t0, h.undo, h.redo, t)
  BY <1>h, <1>t DEF Drafts
<1>4. Accounts(l, c.changes, t)
  BY <1>t DEF Drafts
<1>5. d = [text |-> u, epoch |-> c.epoch + 1, changes |-> more, history |-> g]
  <2>1. Published(c, r) = [text |-> u, epoch |-> c.epoch + 1, changes |-> more, history |-> h]
    BY <1>1, <1>u, <1>w, PublishedIs
  <2>2. d = [Published(c, r) EXCEPT !.history = g]
    BY <1>t, <1>h, <1>g, <2>1 DEF Edited
  <2> QED BY <2>1, <2>2
<1>6. u \in Whole
  BY <1>1, <1>2, <1>3, <1>u, <1>g, EditKept
<1>7. g = [tree |-> h.tree, at |-> h.at, undo |-> g.undo, redo |-> g.redo]
  BY <1>1, <1>2, <1>3, <1>u, <1>g, EditKept
<1>8. Leads(t0, g.undo, g.redo, u)
  BY <1>1, <1>2, <1>3, <1>u, <1>g, EditKept
<1>9. g.undo # <<>>
  BY <1>1, <1>2, <1>3, <1>u, <1>g, EditKept
<1>10. Accounts(l, more, u)
  <2>1. Fitting(t, r) /\ t \in Seq(Bytes)
    BY <1>1, SuitsFits
  <2>2. Accounts(l, Append(c.changes, Change(t, r)), Substitute(t, r))
    BY <1>4, <2>1, AccountsExtends
  <2> QED BY <1>u, <1>w, <2>2
<1>11. more \in Seq(Geometries)
  BY <1>10 DEF Accounts
<1>12. g \in [tree : {T}, at : {a}, undo : Seq(Ops), redo : Seq(Ops)]
  <2>1. g.undo \in Seq(Ops) /\ g.redo \in Seq(Ops)
    BY <1>8 DEF Leads
  <2> QED BY <1>2, <1>7, <2>1
<1>13. d.text = u /\ d.history = g /\ d.changes = more /\ d.epoch = c.epoch + 1
  BY <1>5
<1>14. d \in [text : Whole, epoch : Nat, changes : Seq(Geometries),
              history : [tree : {T}, at : {a}, undo : Seq(Ops), redo : Seq(Ops)]]
  <2>1. c.epoch + 1 \in Nat
    BY <1>1
  <2> QED BY <1>5, <1>6, <1>11, <1>12, <2>1
<1>15. d \in Drafts(l, t0, T, a)
  BY <1>8, <1>10, <1>13, <1>14 DEF Drafts
<1> QED BY <1>9, <1>13, <1>15, <1>u, <1>t


(* The edits of a batch lie apart, in order.                                *)
LEMMA SortedApart ==
  ASSUME NEW edits, Len(edits) \in Nat, BatchOk(edits),
         \A i \in 1..Len(edits) : edits[i].start \in Nat /\ edits[i].end \in Nat /\ edits[i].start <= edits[i].end
  PROVE  \A i, j \in 1..Len(edits) :
           i < j => edits[i].end <= edits[j].start /\ edits[i].start < edits[j].start
<1> DEFINE Apart(i, j) == edits[i].end <= edits[j].start /\ edits[i].start < edits[j].start
           S == {j \in Nat : j \in 1..Len(edits) => \A i \in 1..Len(edits) : i < j => Apart(i, j)}
<1>1. 0 \in S
  OBVIOUS
<1>2. ASSUME NEW j \in Nat, j \in S PROVE j + 1 \in S
  <2>1. ASSUME j + 1 \in 1..Len(edits), NEW i \in 1..Len(edits), i < j + 1 PROVE Apart(i, j + 1)
    <3>1. j \in 1..Len(edits) /\ j + 1 \in 2..Len(edits) /\ (j + 1) - 1 = j
      BY <2>1
    <3>2. Apart(j, j + 1)
      BY <3>1 DEF BatchOk
    <3>3. CASE i = j
      BY <3>2, <3>3
    <3>4. CASE i # j
      <4>1. i < j
        BY <2>1, <3>4
      <4>2. Apart(i, j)
        BY <1>2, <3>1, <4>1
      <4>3. edits[j].start <= edits[j].end
        BY <3>1
      <4>4. /\ edits[i].start \in Nat /\ edits[i].end \in Nat /\ edits[j].start \in Nat
            /\ edits[j].end \in Nat /\ edits[j + 1].start \in Nat
        BY <2>1, <3>1
      <4> QED BY <3>2, <4>2, <4>3, <4>4
    <3> QED BY <3>3, <3>4
  <2> HIDE DEF Apart
  <2>2. j + 1 \in 1..Len(edits) => \A i \in 1..Len(edits) : i < j + 1 => Apart(i, j + 1)
    BY <2>1
  <2> PICK m \in Nat : m = j + 1
    OBVIOUS
  <2>3. m \in S
    BY <2>2
  <2> QED BY <2>3
<1> HIDE DEF S
<1>3. Nat \subseteq S
  BY <1>1, <1>2, Induction
<1> QED BY <1>3 DEF S

(* A batch keeps a buffer in order and makes the text that Replaced tells.  *)
LEMMA BatchGood ==
  ASSUME NEW l \in Seq(Bytes), NEW t0 \in Seq(Bytes), NEW T, NEW a, NEW b \in Drafts(l, t0, T, a),
         NEW edits, Len(edits) \in Nat, BatchOk(edits),
         \A i \in 1..Len(edits) : Suits(b.text, edits[i]),
         NEW d, d = BatchEdited(b, edits)
  PROVE  /\ d \in Drafts(l, t0, T, a)
         /\ d.text = Replaced(b.text, edits) /\ d.epoch = b.epoch + Len(edits)
         /\ Len(edits) > 0 => d.history.undo # <<>>
<1> DEFINE n == Len(edits)
           V == Drafts(l, t0, T, a)
           G == [i \in 1..n |-> [c \in V |->
                   IF Suits(c.text, FromBack(edits, i)) THEN Edited(c, FromBack(edits, i)) ELSE c]]
<1>1. G \in [1..n -> [V -> V]]
  <2>1. ASSUME NEW i \in 1..n, NEW c \in V
        PROVE  (IF Suits(c.text, FromBack(edits, i)) THEN Edited(c, FromBack(edits, i)) ELSE c) \in V
    <3> PICK e : e = FromBack(edits, i)
      OBVIOUS
    <3>1. Suits(c.text, e) => Edited(c, e) \in V
      BY EditedDraft
    <3> HIDE DEF V
    <3> QED BY <3>1
  <2> HIDE DEF V
  <2> QED BY <2>1
<1>2. PICK run \in [0..n -> V] : Proceeds(run, n, b, G)
  <2> HIDE DEF G, V
  <2> QED BY <1>1, LinearRecursion DEF V
<1>3. ASSUME NEW i \in 1..n
      PROVE  /\ run[i - 1] \in V /\ run[i] \in V
             /\ Suits(run[i - 1].text, FromBack(edits, i)) => run[i] = Edited(run[i - 1], FromBack(edits, i))
  <2>1. run[i] = G[i][run[i - 1]]
    <3> HIDE DEF G, V
    <3> QED BY <1>2 DEF Proceeds
  <2>2. i - 1 \in 0..n /\ i \in 0..n
    OBVIOUS
  <2>3. run[i - 1] \in V /\ run[i] \in V
    <3> HIDE DEF V
    <3> QED BY <2>2
  <2>4. G[i][run[i - 1]] = IF Suits(run[i - 1].text, FromBack(edits, i))
                           THEN Edited(run[i - 1], FromBack(edits, i)) ELSE run[i - 1]
    <3> HIDE DEF V
    <3> QED BY <2>3
  <2> HIDE DEF G, V
  <2> QED BY <2>1, <2>3, <2>4
<1>4. run[0] = b
  <2> HIDE DEF G, V
  <2> QED BY <1>2 DEF Proceeds
<1> HIDE DEF G
<1>5. \A i, j \in 1..n : i < j => edits[i].end <= edits[j].start
  <2>1. \A i \in 1..n : edits[i].start \in Nat /\ edits[i].end \in Nat /\ edits[i].start <= edits[i].end
    BY DEF Suits
  <2> QED BY <2>1, SortedApart
<1>6. V \subseteq [text : Whole, epoch : Nat, changes : Seq(Geometries),
                   history : [tree : {T}, at : {a}, undo : Seq(Ops), redo : Seq(Ops)]]
  BY DEF Drafts
<1> DEFINE Good(i) == /\ \A j \in 1..(n - i) : Suits(run[i].text, edits[j])
                      /\ run[i].epoch = b.epoch + i
                      /\ i > 0 => run[i].history.undo # <<>>
           S == {i \in Nat : i <= n => Good(i)}
<1>7. 0 \in S
  <2>1. b.epoch \in Nat
    BY <1>6
  <2>2. Good(0)
    BY <1>4, <2>1
  <2> QED BY <2>2
<1>8. ASSUME NEW i \in Nat, i + 1 <= n, Good(i)
      PROVE  Suits(run[i].text, FromBack(edits, i + 1)) /\ Good(i + 1)
  <2>e. PICK e : e = FromBack(edits, i + 1)
    OBVIOUS
  <2>c. PICK c : c = run[i]
    OBVIOUS
  <2>d. PICK x : x = run[i + 1]
    OBVIOUS
  <2>1. i + 1 \in 1..n /\ (i + 1) - 1 = i /\ n - i \in 1..n /\ n - i \in 1..(n - i)
    BY <1>8
  <2>2. e = edits[n - i]
    <3>1. n + 1 - (i + 1) = n - i
      BY <1>8
    <3> QED BY <2>e, <3>1 DEF FromBack
  <2>3. c \in V /\ c.text \in Whole
    <3>1. c \in V
      BY <1>3, <2>1, <2>c
    <3> HIDE DEF V
    <3> QED BY <1>6, <3>1
  <2>4. Suits(c.text, e)
    BY <1>8, <2>1, <2>2, <2>c
  <2>5. x = Edited(c, e)
    BY <1>3, <2>1, <2>4, <2>c, <2>d, <2>e
  <2>6. x.text = Substitute(c.text, e) /\ x.epoch = c.epoch + 1 /\ x.history.undo # <<>>
    BY <2>3, <2>4, <2>5, EditedDraft
  <2>7. ASSUME NEW j \in 1..(n - (i + 1)) PROVE Suits(x.text, edits[j])
    <3>1. j \in 1..(n - i) /\ j \in 1..n /\ j < n - i
      BY <1>8
    <3>2. Suits(c.text, edits[j])
      BY <1>8, <2>c, <3>1
    <3>3. edits[j].end <= e.start
      BY <1>5, <2>1, <2>2, <3>1
    <3> QED BY <2>3, <2>4, <2>6, <3>2, <3>3, SuitsStill
  <2>8. x.epoch = b.epoch + (i + 1)
    <3>1. b.epoch \in Nat /\ c.epoch = b.epoch + i
      BY <1>6, <1>8, <2>c
    <3>2. (b.epoch + i) + 1 = b.epoch + (i + 1)
      BY <3>1
    <3>3. x.epoch = c.epoch + 1
      BY <2>6
    <3> HIDE DEF n, V
    <3> QED BY <3>1, <3>2, <3>3
  <2> HIDE DEF n, V
  <2> QED BY <2>4, <2>6, <2>7, <2>8, <2>c, <2>d, <2>e
<1>9. ASSUME NEW i \in Nat, i \in S PROVE i + 1 \in S
  <2> HIDE DEF Good
  <2> QED BY <1>8, <1>9
<1>10. \A i \in 0..n : Good(i)
  <2>1. Nat \subseteq S
    <3> HIDE DEF S
    <3> QED BY <1>7, <1>9, Induction
  <2> HIDE DEF Good
  <2> QED BY <2>1
<1>11. ASSUME NEW i \in 1..n PROVE Suits(run[i - 1].text, FromBack(edits, i))
  <2>1. i - 1 \in Nat /\ (i - 1) + 1 <= n /\ (i - 1) + 1 = i /\ i - 1 \in 0..n
    OBVIOUS
  <2>2. Good(i - 1)
    BY <1>10, <2>1
  <2>3. Suits(run[i - 1].text, FromBack(edits, (i - 1) + 1))
    <3> HIDE DEF Good
    <3> QED BY <1>8, <2>1, <2>2
  <2> QED BY <2>1, <2>3
<1>12. Batches(run, b, edits)
  <2>1. run = [i \in 0..n |-> run[i]]
    BY <1>2
  <2>2. \A i \in 1..n : run[i] = Edited(run[i - 1], FromBack(edits, i))
    BY <1>3, <1>11
  <2> QED BY <1>4, <2>1, <2>2 DEF Batches
<1>13. d = run[n]
  BY <1>12, BatchEditedRun
<1>14. d \in V
  <2>1. n \in 0..n
    OBVIOUS
  <2> HIDE DEF V
  <2> QED BY <1>2, <1>13, <2>1
<1>15. d.epoch = b.epoch + n /\ (n > 0 => d.history.undo # <<>>)
  BY <1>10, <1>13
<1> DEFINE shown == [i \in 0..n |-> run[i].text]
<1>16. Replaces(shown, b.text, edits)
  <2>1. ASSUME NEW i \in 1..n PROVE shown[i] = Substitute(shown[i - 1], FromBack(edits, i))
    <3>e. PICK e : e = FromBack(edits, i)
      OBVIOUS
    <3>1. shown[i] = run[i].text /\ shown[i - 1] = run[i - 1].text
      OBVIOUS
    <3>2. run[i - 1] \in V /\ Suits(run[i - 1].text, e) /\ run[i] = Edited(run[i - 1], e)
      BY <1>3, <1>11, <3>e
    <3>3. run[i].text = Substitute(run[i - 1].text, e)
      BY <3>2, EditedDraft
    <3> QED BY <3>1, <3>3, <3>e
  <2>2. shown[0] = b.text
    BY <1>4
  <2>3. shown = [i \in 0..n |-> shown[i]]
    OBVIOUS
  <2> HIDE DEF shown
  <2> QED BY <2>1, <2>2, <2>3 DEF Replaces
<1>17. Replaced(b.text, edits) = shown[n]
  <2> HIDE DEF shown
  <2> QED BY <1>16, ReplacedRun
<1>18. d.text = Replaced(b.text, edits)
  BY <1>13, <1>17
<1> QED BY <1>14, <1>15, <1>18


(* The parent of every node but the root is an older node.                  *)
Parents(tree, n) ==
  n \in Nat /\ DOMAIN tree = 0..n /\ \A k \in 1..n : tree[k].parent \in Nat /\ tree[k].parent < k

(* Y with one element more.                                                 *)
Adds(X, e, Y) == X = {e} \union Y

(* A sequence with one element more at its front.                           *)
LEMMA Consed ==
  ASSUME NEW S, NEW e \in S, NEW s \in Seq(S), NEW x, x = <<e>> \o s
  PROVE  /\ x \in Seq(S) /\ Len(x) = Len(s) + 1 /\ x[1] = e
         /\ \A i \in 1..Len(s) : x[i + 1] = s[i]
         /\ Adds(Range(x), e, Range(s))
<1>1. <<e>> \in Seq(S) /\ Len(<<e>>) = 1 /\ <<e>>[1] = e /\ Len(s) \in Nat
  OBVIOUS
<1>2. x \in Seq(S) /\ Len(x) = 1 + Len(s)
  BY <1>1, ConcatProperties
<1>3. \A i \in 1..(1 + Len(s)) : x[i] = IF i <= 1 THEN <<e>>[i] ELSE s[i - 1]
  BY <1>1, ConcatProperties
<1>4. x[1] = e
  BY <1>1, <1>3
<1>5. \A i \in 1..Len(s) : x[i + 1] = s[i]
  <2> TAKE i \in 1..Len(s)
  <2>1. i + 1 \in 1..(1 + Len(s)) /\ ~(i + 1 <= 1) /\ (i + 1) - 1 = i
    BY <1>1
  <2> QED BY <1>3, <2>1
<1>6. Len(x) = Len(s) + 1
  BY <1>1, <1>2
<1>7. Adds(Range(x), e, Range(s))
  <2>1. DOMAIN x = 1..(Len(s) + 1) /\ DOMAIN s = 1..Len(s)
    BY <1>2, <1>6
  <2>2. ASSUME NEW v \in Range(x) PROVE v \in {e} \union Range(s)
    <3>1. PICK i \in 1..(Len(s) + 1) : v = x[i]
      BY <2>1, <2>2 DEF Range
    <3>2. CASE i = 1
      BY <1>4, <3>1, <3>2
    <3>3. CASE i # 1
      <4>1. i - 1 \in 1..Len(s) /\ (i - 1) + 1 = i
        BY <1>1, <3>3
      <4>2. v = s[i - 1]
        BY <1>5, <3>1, <4>1
      <4> QED BY <2>1, <4>1, <4>2 DEF Range
    <3> QED BY <3>2, <3>3
  <2>3. e \in Range(x)
    <3>1. 1 \in 1..(Len(s) + 1)
      BY <1>1
    <3> QED BY <1>4, <2>1, <3>1 DEF Range
  <2>4. ASSUME NEW v \in Range(s) PROVE v \in Range(x)
    <3>1. PICK i \in 1..Len(s) : v = s[i]
      BY <2>1, <2>4 DEF Range
    <3>2. i + 1 \in 1..(Len(s) + 1) /\ v = x[i + 1]
      BY <1>1, <1>5, <3>1
    <3> QED BY <2>1, <3>2 DEF Range
  <2> QED BY <2>2, <2>3, <2>4 DEF Adds
<1> QED BY <1>2, <1>4, <1>5, <1>6, <1>7

(* How a chain begins and goes on.                                          *)
ChainStep(tree, k) ==
  Chain(tree, k) = IF k = 0 THEN <<0>> ELSE <<k>> \o Chain(tree, tree[k].parent)

(* Chain climbs from a node to its parent.                                  *)
LEMMA ChainIs ==
  ASSUME NEW tree, NEW n, Parents(tree, n)
  PROVE  \A k \in 0..n : ChainStep(tree, k)
<1>1. n \in Nat /\ DOMAIN tree = 0..n /\ \A k \in 1..n : tree[k].parent \in Nat /\ tree[k].parent < k
  BY DEF Parents
<1>u. PICK up : up = [k \in 1..n |-> tree[k].parent]
  OBVIOUS
<1>b. PICK base : base = [i \in 0..n |-> <<0>>]
  OBVIOUS
<1>g. PICK G : G = [i \in 1..n |-> [s \in Seq(Nat) |-> <<i>> \o s]]
  OBVIOUS
<1>2. up \in [1..n -> Nat] /\ \A i \in 1..n : up[i] < i
  BY <1>1, <1>u
<1>3. base \in [0..n -> Seq(Nat)]
  BY <1>b
<1>4. G \in [1..n -> [Seq(Nat) -> Seq(Nat)]]
  <2>1. ASSUME NEW i \in 1..n PROVE [s \in Seq(Nat) |-> <<i>> \o s] \in [Seq(Nat) -> Seq(Nat)]
    <3>1. <<i>> \in Seq(Nat)
      OBVIOUS
    <3> QED BY <3>1
  <2> QED BY <1>g, <2>1
<1>5. PICK f \in [0..n -> Seq(Nat)] : Descends(f, n, up, {0}, base, G)
  BY <1>1, <1>2, <1>3, <1>4, TreeRecursion
<1> DEFINE Is(g) == g = [i \in DOMAIN tree |-> IF i = 0 THEN <<0>> ELSE <<i>> \o g[tree[i].parent]]
<1>6. Is(f)
  <2>1. ASSUME NEW i \in 0..n PROVE f[i] = IF i = 0 THEN <<0>> ELSE <<i>> \o f[tree[i].parent]
    <3>1. f[i] = IF i \in {0} THEN base[i] ELSE G[i][f[up[i]]]
      BY <1>5 DEF Descends
    <3>2. CASE i = 0
      BY <1>b, <3>1, <3>2
    <3>3. CASE i # 0
      <4>1. i \in 1..n /\ up[i] = tree[i].parent
        BY <1>u, <3>3
      <4>2. up[i] \in 0..n
        BY <1>1, <1>2, <4>1
      <4>3. f[up[i]] \in Seq(Nat)
        BY <4>2
      <4>4. G[i][f[up[i]]] = <<i>> \o f[up[i]]
        BY <1>g, <4>1, <4>3
      <4> QED BY <3>1, <3>3, <4>1, <4>4, Zenon
    <3> QED BY <3>2, <3>3
  <2> QED BY <1>1, <2>1
<1>7. Is(CHOOSE g : Is(g))
  <2> HIDE DEF Is
  <2> QED BY <1>6
<1>h. PICK h : h = CHOOSE g : Is(g)
  OBVIOUS
<1>8. h = [i \in DOMAIN tree |-> IF i = 0 THEN <<0>> ELSE <<i>> \o h[tree[i].parent]]
  BY <1>7, <1>h, Zenon
<1>9. \A k : Chain(tree, k) = h[k]
  BY <1>h DEF Chain
<1> HIDE DEF Is
<1>10. ASSUME NEW k \in 0..n PROVE ChainStep(tree, k)
  <2>1. h[k] = IF k = 0 THEN <<0>> ELSE <<k>> \o h[tree[k].parent]
    BY <1>1, <1>8
  <2> QED BY <1>9, <2>1 DEF ChainStep
<1> QED BY <1>10

(* c is the way from the node k up to the root.                             *)
Climbs(c, tree, n, k) ==
  /\ c \in Seq(0..n) /\ Len(c) >= 1 /\ c[1] = k /\ c[Len(c)] = 0
  /\ \A i \in 1..(Len(c) - 1) : c[i] \in 1..n /\ c[i + 1] = tree[c[i]].parent

(* Chain is the way up to the root.                                         *)
LEMMA ChainClimbs ==
  ASSUME NEW tree, NEW n, Parents(tree, n)
  PROVE  \A k \in 0..n : Climbs(Chain(tree, k), tree, n, k)
<1>1. n \in Nat /\ \A k \in 1..n : tree[k].parent \in Nat /\ tree[k].parent < k
  BY DEF Parents
<1>2. \A k \in 0..n : ChainStep(tree, k)
  BY ChainIs
<1> DEFINE S == {k \in Nat : k <= n => Climbs(Chain(tree, k), tree, n, k)}
<1>3. ASSUME NEW k \in Nat, \A m \in 0..(k - 1) : m \in S PROVE k \in S
  <2> SUFFICES ASSUME k <= n PROVE Climbs(Chain(tree, k), tree, n, k)
    OBVIOUS
  <2>c. PICK c : c = Chain(tree, k)
    OBVIOUS
  <2>1. CASE k = 0
    <3>0. ChainStep(tree, k)
      BY <1>1, <1>2, <2>1
    <3>1. c = <<0>>
      BY <3>0, <2>1, <2>c DEF ChainStep
    <3>2. c \in Seq(0..n) /\ Len(c) = 1 /\ c[1] = 0
      BY <1>1, <3>1
    <3>3. 1..(Len(c) - 1) = {}
      BY <3>2
    <3> QED BY <2>1, <2>c, <3>2, <3>3 DEF Climbs
  <2>2. CASE k # 0
    <3>p. PICK p : p = tree[k].parent
      OBVIOUS
    <3>s. PICK s : s = Chain(tree, p)
      OBVIOUS
    <3>1. k \in 1..n /\ p \in 0..(k - 1) /\ p <= n /\ k \in 0..n
      BY <1>1, <2>2, <3>p
    <3>2. Climbs(s, tree, n, p)
      BY <1>3, <3>1, <3>s
    <3>3. c = <<k>> \o s
      <4>1. ChainStep(tree, k)
        BY <1>2, <3>1
      <4> QED BY <2>2, <2>c, <3>p, <3>s, <4>1 DEF ChainStep
    <3>4. s \in Seq(0..n) /\ Len(s) >= 1 /\ s[1] = p /\ s[Len(s)] = 0 /\ Len(s) \in Nat
      BY <3>2 DEF Climbs
    <3>5. c \in Seq(0..n) /\ Len(c) = Len(s) + 1 /\ c[1] = k
      BY <3>1, <3>3, <3>4, Consed
    <3>6. \A i \in 1..Len(s) : c[i + 1] = s[i]
      BY <3>1, <3>3, <3>4, Consed
    <3>7. c[Len(c)] = 0
      <4>1. Len(s) \in 1..Len(s)
        BY <3>4
      <4> QED BY <3>4, <3>5, <3>6, <4>1
    <3>8. ASSUME NEW i \in 1..(Len(c) - 1) PROVE c[i] \in 1..n /\ c[i + 1] = tree[c[i]].parent
      <4>1. i \in 1..Len(s) /\ c[i + 1] = s[i]
        BY <3>4, <3>5, <3>6
      <4>2. CASE i = 1
        BY <3>1, <3>4, <3>5, <3>p, <4>1, <4>2
      <4>3. CASE i # 1
        <5>1. i - 1 \in 1..(Len(s) - 1) /\ (i - 1) + 1 = i /\ i - 1 \in 1..Len(s)
          BY <3>4, <4>1, <4>3
        <5>2. c[i] = s[i - 1]
          BY <3>6, <5>1
        <5>3. s[i - 1] \in 1..n /\ s[i] = tree[s[i - 1]].parent
          BY <3>2, <5>1 DEF Climbs
        <5> QED BY <4>1, <5>2, <5>3
      <4> QED BY <4>2, <4>3
    <3>9. Len(c) >= 1
      BY <3>4, <3>5
    <3> QED BY <2>c, <3>5, <3>7, <3>8, <3>9 DEF Climbs
  <2> QED BY <2>1, <2>2
<1> HIDE DEF S
<1>4. Nat \subseteq S
  BY <1>3, Descent
<1> QED BY <1>1, <1>4 DEF S

(* Above, in terms of the parent of the node.                               *)
LEMMA AboveIs ==
  ASSUME NEW tree, NEW n, Parents(tree, n)
  PROVE  /\ Above(tree, 0) = {0}
         /\ \A k \in 1..n : Above(tree, k) = {k} \union Above(tree, tree[k].parent)
<1>1. n \in Nat /\ \A k \in 1..n : tree[k].parent \in Nat /\ tree[k].parent < k
  BY DEF Parents
<1>2. Above(tree, 0) = {0}
  <2>1. ChainStep(tree, 0)
    BY <1>1, ChainIs
  <2>2. Chain(tree, 0) = <<0>>
    BY <2>1 DEF ChainStep
  <2> QED BY <2>2 DEF Above, Range
<1>3. ASSUME NEW k \in 1..n PROVE Above(tree, k) = {k} \union Above(tree, tree[k].parent)
  <2>p. PICK p : p = tree[k].parent
    OBVIOUS
  <2>s. PICK s : s = Chain(tree, p)
    OBVIOUS
  <2>1. p \in 0..n /\ k \in 0..n /\ k # 0
    BY <1>1, <2>p
  <2>2. Climbs(s, tree, n, p)
    BY <2>1, <2>s, ChainClimbs
  <2>3. s \in Seq(0..n)
    BY <2>2 DEF Climbs
  <2>4. ChainStep(tree, k)
    BY <2>1, ChainIs
  <2>5. Chain(tree, k) = <<k>> \o s
    BY <2>1, <2>4, <2>p, <2>s DEF ChainStep
  <2>c. PICK c : c = Chain(tree, k)
    OBVIOUS
  <2>6. Adds(Range(c), k, Range(s))
    BY <2>1, <2>3, <2>5, <2>c, Consed
  <2> QED BY <2>6, <2>p, <2>s, <2>c DEF Above, Adds
<1> QED BY <1>2, <1>3


(* What lies above a node is older than it and holds its own parents.       *)
Ascends(tree, k) ==
  /\ k \in Above(tree, k) /\ 0 \in Above(tree, k) /\ Above(tree, k) \subseteq 0..k
  /\ \A j \in Above(tree, k) \ {0} : tree[j].parent \in Above(tree, k)
  /\ \A c, d \in Above(tree, k) \ {0} : tree[c].parent = tree[d].parent => c = d
  /\ \A j \in Above(tree, k) :
       Above(tree, j) \subseteq Above(tree, k) /\ \A c \in Above(tree, k) : c <= j => c \in Above(tree, j)

(* What lies above every node ascends.                                      *)
LEMMA AboveAscends ==
  ASSUME NEW tree, NEW n, Parents(tree, n)
  PROVE  \A k \in 0..n : Ascends(tree, k)
<1>1. n \in Nat /\ \A k \in 1..n : tree[k].parent \in Nat /\ tree[k].parent < k
  BY DEF Parents
<1> DEFINE S == {k \in Nat : k <= n => Ascends(tree, k)}
<1>2. ASSUME NEW k \in Nat, \A m \in 0..(k - 1) : m \in S PROVE k \in S
  <2> SUFFICES ASSUME k <= n PROVE Ascends(tree, k)
    OBVIOUS
  <2>1. CASE k = 0
    <3>1. Above(tree, k) = {0}
      BY <2>1, AboveIs
    <3> QED BY <2>1, <3>1 DEF Ascends
  <2>2. CASE k # 0
    <3>p. PICK p : p = tree[k].parent
      OBVIOUS
    <3>b. PICK B : B = Above(tree, p)
      OBVIOUS
    <3>a. PICK A : A = Above(tree, k)
      OBVIOUS
    <3>1. k \in 1..n /\ p \in 0..(k - 1) /\ p \in Nat /\ p < k /\ p <= n
      BY <1>1, <2>2, <3>p
    <3>2. A = {k} \union B
      BY <3>1, <3>a, <3>b, <3>p, AboveIs
    <3>3. Ascends(tree, p)
      BY <1>2, <3>1
    <3>4. p \in B /\ 0 \in B /\ B \subseteq 0..p
      BY <3>3, <3>b DEF Ascends
    <3>5. \A j \in B \ {0} : tree[j].parent \in B
      BY <3>3, <3>b DEF Ascends
    <3>6. \A c, d \in B \ {0} : tree[c].parent = tree[d].parent => c = d
      BY <3>3, <3>b DEF Ascends
    <3>7. \A j \in B : Above(tree, j) \subseteq B /\ \A c \in B : c <= j => c \in Above(tree, j)
      BY <3>3, <3>b DEF Ascends
    <3>8. k \in A /\ 0 \in A /\ A \subseteq 0..k
      BY <3>1, <3>2, <3>4
    <3>9. \A j \in A \ {0} : tree[j].parent \in A
      BY <3>2, <3>4, <3>5, <3>p
    <3>10. \A d \in B \ {0} : tree[d].parent # p
      <4> TAKE d \in B \ {0}
      <4>0. d \in 0..p /\ d # 0
        BY <3>4
      <4>1. d \in 1..n /\ d <= p
        BY <1>1, <3>1, <4>0
      <4>2. tree[d].parent \in Nat /\ tree[d].parent < d
        BY <1>1, <4>1
      <4> QED BY <3>1, <4>1, <4>2
    <3>11. \A c, d \in A \ {0} : tree[c].parent = tree[d].parent => c = d
      BY <3>2, <3>6, <3>10, <3>p
    <3>12. ASSUME NEW j \in A PROVE Above(tree, j) \subseteq A /\ \A c \in A : c <= j => c \in Above(tree, j)
      <4>1. CASE j = k
        BY <3>a, <4>1
      <4>2. CASE j \in B
        <5>1. j \in 0..p
          BY <3>4, <4>2
        <5>2. \A c \in A : c <= j => c \in B
          BY <3>1, <3>2, <5>1
        <5> QED BY <3>2, <3>7, <4>2, <5>2
      <4> QED BY <3>2, <4>1, <4>2
    <3> QED BY <3>8, <3>9, <3>11, <3>12, <3>a DEF Ascends
  <2> QED BY <2>1, <2>2
<1> HIDE DEF S
<1>3. Nat \subseteq S
  BY <1>2, Descent
<1> QED BY <1>1, <1>3 DEF S

(* Trees that agree on the parents of the first nodes agree on their        *)
(* chains.                                                                  *)
LEMMA SameChains ==
  ASSUME NEW t1, NEW n1, Parents(t1, n1), NEW t2, NEW n2, Parents(t2, n2),
         NEW m \in Nat, m <= n1, m <= n2, \A k \in 1..m : t1[k].parent = t2[k].parent
  PROVE  \A k \in 0..m : Chain(t1, k) = Chain(t2, k) /\ Above(t1, k) = Above(t2, k)
<1>1. n1 \in Nat /\ n2 \in Nat /\ \A k \in 1..n1 : t1[k].parent \in Nat /\ t1[k].parent < k
  BY DEF Parents
<1> DEFINE S == {k \in Nat : k <= m => Chain(t1, k) = Chain(t2, k)}
<1>2. ASSUME NEW k \in Nat, \A j \in 0..(k - 1) : j \in S PROVE k \in S
  <2> SUFFICES ASSUME k <= m PROVE Chain(t1, k) = Chain(t2, k)
    OBVIOUS
  <2>1. k \in 0..n1 /\ k \in 0..n2
    BY <1>1
  <2>2. ChainStep(t1, k)
    BY <2>1, ChainIs
  <2>3. ChainStep(t2, k)
    BY <2>1, ChainIs
  <2>4. CASE k = 0
    BY <2>2, <2>3, <2>4 DEF ChainStep
  <2>5. CASE k # 0
    <3>1. k \in 1..m /\ k \in 1..n1
      BY <1>1, <2>5
    <3>2. t1[k].parent = t2[k].parent /\ t1[k].parent \in 0..(k - 1) /\ t1[k].parent <= m
      BY <1>1, <3>1
    <3>3. Chain(t1, t1[k].parent) = Chain(t2, t1[k].parent)
      BY <1>2, <3>2
    <3> QED BY <2>2, <2>3, <2>5, <3>2, <3>3 DEF ChainStep
  <2> QED BY <2>4, <2>5
<1> HIDE DEF S
<1>3. Nat \subseteq S
  BY <1>2, Descent
<1>4. \A k \in 0..m : Chain(t1, k) = Chain(t2, k)
  BY <1>3 DEF S
<1> QED BY <1>4 DEF Above

(* The maximum of a finite set of naturals.                                 *)
LEMMA Maximal ==
  ASSUME NEW n \in Nat, NEW T, T \subseteq 0..n, T # {}
  PROVE  Max(T) \in T /\ \A y \in T : y <= Max(T)
<1> DEFINE S == {m \in Nat : \A X \in SUBSET (0..m) : X # {} => \E x \in X : \A y \in X : x >= y}
<1>1. 0 \in S
  <2>1. ASSUME NEW X \in SUBSET (0..0), X # {} PROVE \E x \in X : \A y \in X : x >= y
    <3>1. \A y \in X : y = 0
      OBVIOUS
    <3>2. 0 \in X
      BY <2>1, <3>1
    <3> QED BY <3>1, <3>2
  <2> QED BY <2>1
<1>2. ASSUME NEW m \in Nat, m \in S PROVE m + 1 \in S
  <2>1. ASSUME NEW X \in SUBSET (0..(m + 1)), X # {} PROVE \E x \in X : \A y \in X : x >= y
    <3>1. CASE m + 1 \in X
      BY <3>1
    <3>2. CASE m + 1 \notin X
      <4>1. X \in SUBSET (0..m)
        BY <3>2
      <4> QED BY <1>2, <2>1, <4>1
    <3> QED BY <3>1, <3>2
  <2> QED BY <2>1
<1> HIDE DEF S
<1>3. n \in S
  BY <1>1, <1>2, Induction
<1>4. \E x \in T : \A y \in T : x >= y
  BY <1>3 DEF S
<1>5. Max(T) \in T /\ \A y \in T : Max(T) >= y
  BY <1>4 DEF Max
<1>6. \A y \in T : y \in Nat
  OBVIOUS
<1> QED BY <1>5, <1>6

(* The fork of two nodes is the newest that lies above both.                *)
LEMMA Forks ==
  ASSUME NEW tree, NEW n, Parents(tree, n), NEW j \in 0..n, NEW k \in 0..n
  PROVE  /\ Fork(tree, j, k) \in Above(tree, j) /\ Fork(tree, j, k) \in Above(tree, k)
         /\ \A c \in Above(tree, j) : c \in Above(tree, k) => c <= Fork(tree, j, k)
<1>1. n \in Nat
  BY DEF Parents
<1> PICK T : T = Above(tree, j) \intersect Above(tree, k)
  OBVIOUS
<1>2. Above(tree, j) \subseteq 0..j /\ 0 \in Above(tree, j)
  BY AboveAscends DEF Ascends
<1>3. 0 \in Above(tree, k)
  BY AboveAscends DEF Ascends
<1>4. T # {} /\ T \subseteq 0..n
  BY <1>1, <1>2, <1>3
<1>5. Max(T) \in T /\ \A y \in T : y <= Max(T)
  BY <1>1, <1>4, Maximal
<1>6. Fork(tree, j, k) = Max(T)
  BY DEF Fork
<1> QED BY <1>5, <1>6


(* The nodes of the tree the history keeps.                                 *)
Revisions == [parent : Nat, last : Nat, undo : Seq(Ops), redo : Seq(Ops)]

(* The tree is a sequence of revisions, each of an older parent.            *)
Shaped(tree, n) ==
  /\ n \in Nat /\ tree \in [0..n -> Revisions] /\ tree[0].parent = 0
  /\ \A k \in 1..n : tree[k].parent < k
  /\ \A k \in 0..n : tree[k].last # 0 => tree[k].last \in 1..n /\ tree[tree[k].last].parent = k

(* tx tells the text of every node, and every edge leads from its parent's  *)
(* text to its own.                                                         *)
Told(tree, n, tx) ==
  /\ tx \in [0..n -> Whole]
  /\ \A k \in 1..n : tree[k].undo # <<>> /\ Leads(tx[tree[k].parent], tree[k].undo, tree[k].redo, tx[k])

(* The type and the length of a reversed sequence.                          *)
LEMMA Turned ==
  ASSUME NEW S, NEW s \in Seq(S)
  PROVE  Reverse(s) \in Seq(S) /\ Len(Reverse(s)) = Len(s)
  BY DEF Reverse

(* A node of the tree, field by field.                                      *)
LEMMA ShapedRevision ==
  ASSUME NEW tree, NEW n, Shaped(tree, n), NEW k \in 0..n
  PROVE  /\ tree[k].parent \in Nat /\ tree[k].last \in Nat
         /\ tree[k].undo \in Seq(Ops) /\ tree[k].redo \in Seq(Ops)
         /\ tree[k] = [parent |-> tree[k].parent, last |-> tree[k].last,
                       undo |-> tree[k].undo, redo |-> tree[k].redo]
<1>1. tree[k] \in Revisions
  BY DEF Shaped
<1> QED BY <1>1 DEF Revisions

(* The parents of the tree are older nodes.                                 *)
LEMMA ShapedParents ==
  ASSUME NEW tree, NEW n, Shaped(tree, n)
  PROVE  Parents(tree, n)
<1>1. ASSUME NEW k \in 1..n PROVE tree[k].parent \in Nat /\ tree[k].parent < k
  <2>1. k \in 0..n
    BY DEF Shaped
  <2> QED BY <2>1, ShapedRevision DEF Shaped
<1>2. n \in Nat /\ DOMAIN tree = 0..n
  BY DEF Shaped
<1> QED BY <1>1, <1>2 DEF Parents

(* How undoing up to a fork begins and goes on.                             *)
UndoneToStep(tree, fork, k) ==
  UndoneTo(tree, fork, k) = IF k \in {0, fork} THEN <<>> ELSE UndoOps(tree[k]) \o UndoneTo(tree, fork, tree[k].parent)

(* UndoneTo, in terms of the parent of the node.                            *)
LEMMA UndoneToIs ==
  ASSUME NEW tree, NEW n, Shaped(tree, n), NEW fork \in 0..n
  PROVE  \A k \in 0..n : UndoneToStep(tree, fork, k) /\ UndoneTo(tree, fork, k) \in Seq(Ops)
<1>1. n \in Nat /\ DOMAIN tree = 0..n /\ \A k \in 1..n : tree[k].parent \in Nat /\ tree[k].parent < k
  BY ShapedParents DEF Parents
<1>u. PICK up : up = [k \in 1..n |-> tree[k].parent]
  OBVIOUS
<1>b. PICK base : base = [i \in 0..n |-> <<>>]
  OBVIOUS
<1>g. PICK G : G = [i \in 1..n |-> [s \in Seq(Ops) |-> UndoOps(tree[i]) \o s]]
  OBVIOUS
<1>2. up \in [1..n -> Nat] /\ \A i \in 1..n : up[i] < i
  BY <1>1, <1>u
<1>3. base \in [0..n -> Seq(Ops)]
  <2>1. <<>> \in Seq(Ops)
    BY EmptySeq
  <2> QED BY <1>b, <2>1
<1>4. ASSUME NEW i \in 1..n, NEW s \in Seq(Ops) PROVE UndoOps(tree[i]) \o s \in Seq(Ops)
  <2>0. i \in 0..n
    OBVIOUS
  <2>1. tree[i].undo \in Seq(Ops) /\ tree[i].redo \in Seq(Ops)
    BY <2>0, ShapedRevision
  <2>2. UndoOps(tree[i]) \in Seq(Ops)
    BY <2>1, Turned DEF UndoOps
  <2> QED BY <2>2, ConcatProperties
<1>4a. G \in [1..n -> [Seq(Ops) -> Seq(Ops)]]
  BY <1>4, <1>g
<1>5. PICK f \in [0..n -> Seq(Ops)] : Descends(f, n, up, {0, fork}, base, G)
  <2>1. 0 \in {0, fork}
    OBVIOUS
  <2> QED BY <1>1, <1>2, <1>3, <1>4a, <2>1, TreeRecursion
<1> DEFINE Is(g) == g = [k \in DOMAIN tree |->
                 IF k \in {0, fork} THEN <<>> ELSE UndoOps(tree[k]) \o g[tree[k].parent]]
<1>6. Is(f)
  <2>1. ASSUME NEW i \in 0..n
        PROVE  f[i] = IF i \in {0, fork} THEN <<>> ELSE UndoOps(tree[i]) \o f[tree[i].parent]
    <3>1. f[i] = IF i \in {0, fork} THEN base[i] ELSE G[i][f[up[i]]]
      BY <1>5 DEF Descends
    <3>2. CASE i \in {0, fork}
      BY <1>b, <3>1, <3>2
    <3>3. CASE i \notin {0, fork}
      <4>1. i \in 1..n
        BY <3>3
      <4>2. up[i] = tree[i].parent /\ up[i] \in 0..n
        BY <1>1, <1>2, <1>u, <4>1
      <4>3. f[up[i]] \in Seq(Ops)
        BY <4>2
      <4>4. G[i][f[up[i]]] = UndoOps(tree[i]) \o f[up[i]]
        BY <1>g, <4>1, <4>3
      <4> QED BY <3>1, <3>3, <4>2, <4>4, Zenon
    <3> QED BY <3>2, <3>3
  <2> QED BY <1>1, <2>1
<1>7. Is(CHOOSE g : Is(g))
  <2> HIDE DEF Is
  <2> QED BY <1>6
<1>h. PICK h : h = CHOOSE g : Is(g)
  OBVIOUS
<1>8. h = [k \in DOMAIN tree |->
             IF k \in {0, fork} THEN <<>> ELSE UndoOps(tree[k]) \o h[tree[k].parent]]
  BY <1>7, <1>h, Zenon
<1>9. \A k : UndoneTo(tree, fork, k) = h[k]
  BY <1>h DEF UndoneTo
<1> HIDE DEF Is
<1>10. ASSUME NEW k \in 0..n
       PROVE  UndoneToStep(tree, fork, k)
  <2>1. h[k] = IF k \in {0, fork} THEN <<>> ELSE UndoOps(tree[k]) \o h[tree[k].parent]
    BY <1>1, <1>8
  <2> QED BY <1>9, <2>1 DEF UndoneToStep
<1> DEFINE S == {k \in Nat : k <= n => UndoneTo(tree, fork, k) \in Seq(Ops)}
<1>11. ASSUME NEW k \in Nat, \A m \in 0..(k - 1) : m \in S PROVE k \in S
  <2> SUFFICES ASSUME k <= n PROVE UndoneTo(tree, fork, k) \in Seq(Ops)
    OBVIOUS
  <2>1. UndoneToStep(tree, fork, k)
    BY <1>10
  <2>2. CASE k \in {0, fork}
    BY <2>1, <2>2, EmptySeq DEF UndoneToStep
  <2>3. CASE k \notin {0, fork}
    <3>1. k \in 1..n /\ tree[k].parent \in 0..(k - 1) /\ tree[k].parent <= n
      BY <1>1, <2>3
    <3>2. UndoneTo(tree, fork, tree[k].parent) \in Seq(Ops)
      BY <1>11, <3>1
    <3> PICK s \in Seq(Ops) : s = UndoneTo(tree, fork, tree[k].parent)
      BY <3>2
    <3>3. UndoOps(tree[k]) \o s \in Seq(Ops)
      BY <1>4, <3>1
    <3> QED BY <2>1, <2>3, <3>3 DEF UndoneToStep
  <2> QED BY <2>2, <2>3
<1> HIDE DEF S
<1>12. Nat \subseteq S
  BY <1>11, Descent
<1>13. \A k \in 0..n : UndoneTo(tree, fork, k) \in Seq(Ops)
  BY <1>1, <1>12 DEF S
<1> QED BY <1>10, <1>13

(* How redoing down from a fork begins and goes on.                         *)
RedoneFromStep(tree, fork, k) ==
  RedoneFrom(tree, fork, k) = IF k \in {0, fork} THEN <<>> ELSE RedoneFrom(tree, fork, tree[k].parent) \o tree[k].redo

(* RedoneFrom, in terms of the parent of the node.                          *)
LEMMA RedoneFromIs ==
  ASSUME NEW tree, NEW n, Shaped(tree, n), NEW fork \in 0..n
  PROVE  \A k \in 0..n : RedoneFromStep(tree, fork, k) /\ RedoneFrom(tree, fork, k) \in Seq(Ops)
<1>1. n \in Nat /\ DOMAIN tree = 0..n /\ \A k \in 1..n : tree[k].parent \in Nat /\ tree[k].parent < k
  BY ShapedParents DEF Parents
<1>u. PICK up : up = [k \in 1..n |-> tree[k].parent]
  OBVIOUS
<1>b. PICK base : base = [i \in 0..n |-> <<>>]
  OBVIOUS
<1>g. PICK G : G = [i \in 1..n |-> [s \in Seq(Ops) |-> s \o tree[i].redo]]
  OBVIOUS
<1>2. up \in [1..n -> Nat] /\ \A i \in 1..n : up[i] < i
  BY <1>1, <1>u
<1>3. base \in [0..n -> Seq(Ops)]
  <2>1. <<>> \in Seq(Ops)
    BY EmptySeq
  <2> QED BY <1>b, <2>1
<1>4. ASSUME NEW i \in 1..n, NEW s \in Seq(Ops) PROVE s \o tree[i].redo \in Seq(Ops)
  <2>0. i \in 0..n
    OBVIOUS
  <2>1. tree[i].undo \in Seq(Ops) /\ tree[i].redo \in Seq(Ops)
    BY <2>0, ShapedRevision
  <2>2. tree[i].redo \in Seq(Ops)
    BY <2>1, Turned DEF UndoOps
  <2> QED BY <2>2, ConcatProperties
<1>4a. G \in [1..n -> [Seq(Ops) -> Seq(Ops)]]
  BY <1>4, <1>g
<1>5. PICK f \in [0..n -> Seq(Ops)] : Descends(f, n, up, {0, fork}, base, G)
  <2>1. 0 \in {0, fork}
    OBVIOUS
  <2> QED BY <1>1, <1>2, <1>3, <1>4a, <2>1, TreeRecursion
<1> DEFINE Is(g) == g = [k \in DOMAIN tree |->
                 IF k \in {0, fork} THEN <<>> ELSE g[tree[k].parent] \o tree[k].redo]
<1>6. Is(f)
  <2>1. ASSUME NEW i \in 0..n
        PROVE  f[i] = IF i \in {0, fork} THEN <<>> ELSE f[tree[i].parent] \o tree[i].redo
    <3>1. f[i] = IF i \in {0, fork} THEN base[i] ELSE G[i][f[up[i]]]
      BY <1>5 DEF Descends
    <3>2. CASE i \in {0, fork}
      BY <1>b, <3>1, <3>2
    <3>3. CASE i \notin {0, fork}
      <4>1. i \in 1..n
        BY <3>3
      <4>2. up[i] = tree[i].parent /\ up[i] \in 0..n
        BY <1>1, <1>2, <1>u, <4>1
      <4>3. f[up[i]] \in Seq(Ops)
        BY <4>2
      <4>4. G[i][f[up[i]]] = f[up[i]] \o tree[i].redo
        BY <1>g, <4>1, <4>3
      <4> QED BY <3>1, <3>3, <4>2, <4>4, Zenon
    <3> QED BY <3>2, <3>3
  <2> QED BY <1>1, <2>1
<1>7. Is(CHOOSE g : Is(g))
  <2> HIDE DEF Is
  <2> QED BY <1>6
<1>h. PICK h : h = CHOOSE g : Is(g)
  BY Zenon
<1>8. h = [k \in DOMAIN tree |->
             IF k \in {0, fork} THEN <<>> ELSE h[tree[k].parent] \o tree[k].redo]
  BY <1>7, <1>h, Zenon
<1>9. \A k : RedoneFrom(tree, fork, k) = h[k]
  BY <1>h DEF RedoneFrom
<1> HIDE DEF Is
<1>10. ASSUME NEW k \in 0..n
       PROVE  RedoneFromStep(tree, fork, k)
  <2>1. h[k] = IF k \in {0, fork} THEN <<>> ELSE h[tree[k].parent] \o tree[k].redo
    BY <1>1, <1>8
  <2> QED BY <1>9, <2>1 DEF RedoneFromStep
<1> DEFINE S == {k \in Nat : k <= n => RedoneFrom(tree, fork, k) \in Seq(Ops)}
<1>11. ASSUME NEW k \in Nat, \A m \in 0..(k - 1) : m \in S PROVE k \in S
  <2> SUFFICES ASSUME k <= n PROVE RedoneFrom(tree, fork, k) \in Seq(Ops)
    OBVIOUS
  <2>1. RedoneFromStep(tree, fork, k)
    BY <1>10
  <2>2. CASE k \in {0, fork}
    BY <2>1, <2>2, EmptySeq DEF RedoneFromStep
  <2>3. CASE k \notin {0, fork}
    <3>1. k \in 1..n /\ tree[k].parent \in 0..(k - 1) /\ tree[k].parent <= n
      BY <1>1, <2>3
    <3>2. RedoneFrom(tree, fork, tree[k].parent) \in Seq(Ops)
      BY <1>11, <3>1
    <3> PICK s \in Seq(Ops) : s = RedoneFrom(tree, fork, tree[k].parent)
      BY <3>2
    <3>3. s \o tree[k].redo \in Seq(Ops)
      BY <1>4, <3>1
    <3> QED BY <2>1, <2>3, <3>3 DEF RedoneFromStep
  <2> QED BY <2>2, <2>3
<1> HIDE DEF S
<1>12. Nat \subseteq S
  BY <1>11, Descent
<1>13. \A k \in 0..n : RedoneFrom(tree, fork, k) \in Seq(Ops)
  BY <1>1, <1>12 DEF S
<1> QED BY <1>10, <1>13

(* Undoing up to a node above leads to its text.                            *)
LEMMA UndoneToReaches ==
  ASSUME NEW tree, NEW n, Shaped(tree, n), NEW tx, Told(tree, n, tx), NEW fork \in 0..n
  PROVE  \A k \in 0..n : fork \in Above(tree, k) => After(tx[k], UndoneTo(tree, fork, k)) = tx[fork]
<1>1. n \in Nat /\ Parents(tree, n) /\ \A k \in 1..n : tree[k].parent \in Nat /\ tree[k].parent < k
  BY ShapedParents DEF Parents
<1>2. \A k \in 0..n : tx[k] \in Shows
  <2>1. \A k \in 0..n : tx[k] \in Whole
    BY DEF Told
  <2> QED BY <2>1 DEF Whole, Shows
<1> DEFINE S == {k \in Nat : k <= n /\ fork \in Above(tree, k) => After(tx[k], UndoneTo(tree, fork, k)) = tx[fork]}
<1>3. ASSUME NEW k \in Nat, \A m \in 0..(k - 1) : m \in S PROVE k \in S
  <2> SUFFICES ASSUME k <= n, fork \in Above(tree, k) PROVE After(tx[k], UndoneTo(tree, fork, k)) = tx[fork]
    OBVIOUS
  <2>1. UndoneToStep(tree, fork, k)
    BY UndoneToIs
  <2>2. CASE k \in {0, fork}
    <3>1. k = fork
      <4>1. Above(tree, 0) = {0}
        BY <1>1, AboveIs
      <4> QED BY <2>2, <4>1
    <3>2. UndoneTo(tree, fork, k) = <<>>
      BY <2>1, <2>2 DEF UndoneToStep
    <3>3. <<>> \in Seq(Ops) /\ tx[k] \in Shows
      BY <1>2, EmptySeq
    <3>4. After(tx[k], <<>>) = tx[k]
      BY <3>3, AfterType
    <3> QED BY <3>1, <3>2, <3>4
  <2>3. CASE k \notin {0, fork}
    <3>p. PICK p : p = tree[k].parent
      OBVIOUS
    <3>1. k \in 1..n /\ p \in 0..(k - 1) /\ p <= n /\ p \in 0..n
      BY <1>1, <2>3, <3>p
    <3>2. fork \in Above(tree, p)
      <4>1. Above(tree, k) = {k} \union Above(tree, p)
        BY <1>1, <3>1, <3>p, AboveIs
      <4> QED BY <2>3, <4>1
    <3>s. PICK s : s = UndoneTo(tree, fork, p)
      OBVIOUS
    <3>3. s \in Seq(Ops)
      BY <3>1, <3>s, UndoneToIs
    <3>4. After(tx[p], s) = tx[fork]
      BY <1>3, <3>1, <3>2, <3>s
    <3>5. Leads(tx[p], tree[k].undo, tree[k].redo, tx[k])
      BY <3>1, <3>p DEF Told
    <3>6. tree[k].undo \in Seq(Ops) /\ After(tx[k], Reverse(tree[k].undo)) = tx[p]
      BY <3>5 DEF Leads
    <3>7. UndoOps(tree[k]) \in Seq(Ops) /\ After(tx[k], UndoOps(tree[k])) = tx[p]
      BY <3>6, Turned DEF UndoOps
    <3>8. UndoneTo(tree, fork, k) = UndoOps(tree[k]) \o s
      BY <2>1, <2>3, <3>p, <3>s DEF UndoneToStep
    <3>9. After(tx[k], UndoOps(tree[k]) \o s) = After(After(tx[k], UndoOps(tree[k])), s)
      BY <1>2, <3>3, <3>7, AfterConcat
    <3> QED BY <3>4, <3>7, <3>8, <3>9
  <2> QED BY <2>2, <2>3
<1> HIDE DEF S
<1>4. Nat \subseteq S
  BY <1>3, Descent
<1> QED BY <1>1, <1>4 DEF S

(* Redoing down from a node above leads back.                               *)
LEMMA RedoneFromReaches ==
  ASSUME NEW tree, NEW n, Shaped(tree, n), NEW tx, Told(tree, n, tx), NEW fork \in 0..n
  PROVE  \A k \in 0..n : fork \in Above(tree, k) => After(tx[fork], RedoneFrom(tree, fork, k)) = tx[k]
<1>1. n \in Nat /\ Parents(tree, n) /\ \A k \in 1..n : tree[k].parent \in Nat /\ tree[k].parent < k
  BY ShapedParents DEF Parents
<1>2. \A k \in 0..n : tx[k] \in Shows
  <2>1. \A k \in 0..n : tx[k] \in Whole
    BY DEF Told
  <2> QED BY <2>1 DEF Whole, Shows
<1> DEFINE S == {k \in Nat : k <= n /\ fork \in Above(tree, k) => After(tx[fork], RedoneFrom(tree, fork, k)) = tx[k]}
<1>3. ASSUME NEW k \in Nat, \A m \in 0..(k - 1) : m \in S PROVE k \in S
  <2> SUFFICES ASSUME k <= n, fork \in Above(tree, k) PROVE After(tx[fork], RedoneFrom(tree, fork, k)) = tx[k]
    OBVIOUS
  <2>1. RedoneFromStep(tree, fork, k)
    BY RedoneFromIs
  <2>2. CASE k \in {0, fork}
    <3>1. k = fork
      <4>1. Above(tree, 0) = {0}
        BY <1>1, AboveIs
      <4> QED BY <2>2, <4>1
    <3>2. RedoneFrom(tree, fork, k) = <<>>
      BY <2>1, <2>2 DEF RedoneFromStep
    <3>3. <<>> \in Seq(Ops) /\ tx[k] \in Shows
      BY <1>2, EmptySeq
    <3>4. After(tx[k], <<>>) = tx[k]
      BY <3>3, AfterType
    <3> QED BY <3>1, <3>2, <3>4
  <2>3. CASE k \notin {0, fork}
    <3>p. PICK p : p = tree[k].parent
      OBVIOUS
    <3>1. k \in 1..n /\ p \in 0..(k - 1) /\ p <= n /\ p \in 0..n
      BY <1>1, <2>3, <3>p
    <3>2. fork \in Above(tree, p)
      <4>1. Above(tree, k) = {k} \union Above(tree, p)
        BY <1>1, <3>1, <3>p, AboveIs
      <4> QED BY <2>3, <4>1
    <3>s. PICK s : s = RedoneFrom(tree, fork, p)
      OBVIOUS
    <3>3. s \in Seq(Ops)
      BY <3>1, <3>s, RedoneFromIs
    <3>4. After(tx[fork], s) = tx[p]
      BY <1>3, <3>1, <3>2, <3>s
    <3>5. Leads(tx[p], tree[k].undo, tree[k].redo, tx[k])
      BY <3>1, <3>p DEF Told
    <3>6. tree[k].redo \in Seq(Ops) /\ After(tx[p], tree[k].redo) = tx[k]
      BY <3>5 DEF Leads
    <3>8. RedoneFrom(tree, fork, k) = s \o tree[k].redo
      BY <2>1, <2>3, <3>p, <3>s DEF RedoneFromStep
    <3>9. After(tx[fork], s \o tree[k].redo) = After(After(tx[fork], s), tree[k].redo)
      BY <1>2, <3>3, <3>6, AfterConcat
    <3> QED BY <3>4, <3>6, <3>8, <3>9
  <2> QED BY <2>2, <2>3
<1> HIDE DEF S
<1>4. Nat \subseteq S
  BY <1>3, Descent
<1> QED BY <1>1, <1>4 DEF S


(* Each node on the way to the current one is the last visited child of its *)
(* parent.                                                                  *)
Trail(tree, at) == \A c \in Above(tree, at) \ {0} : tree[tree[c].parent].last = c

(* What holds of a history whose node k has the text tx[k].                 *)
TreeOk(tree, n, tx, at) == Shaped(tree, n) /\ Told(tree, n, tx) /\ at \in 0..n /\ Trail(tree, at)

(* The child of i on the way to k; the child that leads there; and the      *)
(* child that is last visited after a journey.                              *)
On(tree, i, k) == {c \in Above(tree, k) \ {0} : tree[c].parent = i}
Heading(tree, i, k) == IF On(tree, i, k) = {} THEN 0 ELSE CHOOSE c \in On(tree, i, k) : TRUE
Route(tree, i, from, to) ==
  IF Heading(tree, i, to) # 0 THEN Heading(tree, i, to)
  ELSE IF Heading(tree, i, from) # 0 THEN Heading(tree, i, from) ELSE tree[i].last

(* The operations of a journey lead from the text of one node to that of    *)
(* any other.                                                               *)
LEMMA OpsReach ==
  ASSUME NEW h, NEW n, NEW tx, Shaped(h.tree, n), Told(h.tree, n, tx), h.at \in 0..n, NEW k \in 0..n
  PROVE  OpsTo(h, k) \in Seq(Ops) /\ After(tx[h.at], OpsTo(h, k)) = tx[k]
<1>t. PICK tree : tree = h.tree
  OBVIOUS
<1>a. PICK at : at = h.at
  OBVIOUS
<1>f. PICK fork : fork = Fork(tree, at, k)
  OBVIOUS
<1>1. Shaped(tree, n) /\ Told(tree, n, tx) /\ at \in 0..n /\ Parents(tree, n) /\ n \in Nat
  BY <1>t, <1>a, ShapedParents DEF Parents
<1>2. fork \in Above(tree, at) /\ fork \in Above(tree, k)
  BY <1>1, <1>f, Forks
<1>3. fork \in 0..n
  <2>1. Above(tree, at) \subseteq 0..at
    BY <1>1, AboveAscends DEF Ascends
  <2> QED BY <1>1, <1>2, <2>1
<1>4. tx[at] \in Shows
  <2>1. tx[at] \in Whole
    BY <1>1 DEF Told
  <2> QED BY <2>1 DEF Whole, Shows
<1>u. PICK up : up = UndoneTo(tree, fork, at)
  OBVIOUS
<1>d. PICK down : down = RedoneFrom(tree, fork, k)
  OBVIOUS
<1>5. up \in Seq(Ops) /\ After(tx[at], up) = tx[fork]
  BY <1>1, <1>2, <1>3, <1>u, UndoneToIs, UndoneToReaches
<1>6. down \in Seq(Ops) /\ After(tx[fork], down) = tx[k]
  <2>1. down \in Seq(Ops)
    BY <1>1, <1>3, <1>d, RedoneFromIs
  <2>2. After(tx[fork], down) = tx[k]
    BY <1>1, <1>2, <1>3, <1>d, RedoneFromReaches
  <2> QED BY <2>1, <2>2
<1>7. OpsTo(h, k) = up \o down
  BY <1>t, <1>a, <1>f, <1>u, <1>d DEF OpsTo
<1>8. up \o down \in Seq(Ops)
  BY <1>5, <1>6, ConcatProperties
<1>9. After(tx[at], up \o down) = After(After(tx[at], up), down)
  BY <1>4, <1>5, <1>6, AfterConcat
<1> QED BY <1>5, <1>6, <1>7, <1>8, <1>9, <1>a

(* There is at most one child on the way to a node.                         *)
LEMMA HeadingIs ==
  ASSUME NEW tree, NEW n, Parents(tree, n), NEW k \in 0..n, NEW i
  PROVE  /\ \A c \in Above(tree, k) \ {0} : tree[c].parent = i => Heading(tree, i, k) = c
         /\ Heading(tree, i, k) # 0 =>
              /\ Heading(tree, i, k) \in Above(tree, k) \ {0}
              /\ tree[Heading(tree, i, k)].parent = i
<1>1. \A c, d \in Above(tree, k) \ {0} : tree[c].parent = tree[d].parent => c = d
  BY AboveAscends DEF Ascends
<1>2. Heading(tree, i, k) # 0 => Heading(tree, i, k) \in On(tree, i, k)
  BY DEF Heading
<1>3. \A c \in On(tree, i, k) : Heading(tree, i, k) \in On(tree, i, k)
  BY DEF Heading
<1> QED BY <1>1, <1>2, <1>3 DEF On

(* Visit changes the last visited children along one leg.                   *)
LEMMA VisitIs ==
  ASSUME NEW tree, NEW n, Shaped(tree, n), NEW leg, NEW v, v = Visit(tree, leg)
  PROVE  /\ DOMAIN v = 0..n
         /\ \A i \in 0..n :
              /\ v[i] = [parent |-> tree[i].parent, last |-> v[i].last,
                         undo |-> tree[i].undo, redo |-> tree[i].redo]
              /\ (\A c \in leg : tree[c].parent # i) => v[i].last = tree[i].last
              /\ (\E c \in leg : tree[c].parent = i) => v[i].last \in leg /\ tree[v[i].last].parent = i
<1>1. DOMAIN tree = 0..n
  BY DEF Shaped
<1>2. ASSUME NEW i \in 0..n
      PROVE  /\ v[i] = [parent |-> tree[i].parent, last |-> v[i].last,
                        undo |-> tree[i].undo, redo |-> tree[i].redo]
             /\ (\A c \in leg : tree[c].parent # i) => v[i].last = tree[i].last
             /\ (\E c \in leg : tree[c].parent = i) => v[i].last \in leg /\ tree[v[i].last].parent = i
  <2>1. tree[i] = [parent |-> tree[i].parent, last |-> tree[i].last,
                   undo |-> tree[i].undo, redo |-> tree[i].redo]
    BY ShapedRevision
  <2>2. CASE \E c \in leg : tree[c].parent = i
    <3> PICK d : d = CHOOSE c \in leg : tree[c].parent = i
      OBVIOUS
    <3>1. d \in leg /\ tree[d].parent = i
      BY <2>2
    <3>2. v[i] = [tree[i] EXCEPT !.last = d]
      BY <1>1, <2>2 DEF Visit
    <3> QED BY <2>1, <2>2, <3>1, <3>2
  <2>3. CASE \A c \in leg : tree[c].parent # i
    <3>1. v[i] = tree[i]
      BY <1>1, <2>3 DEF Visit
    <3> QED BY <2>1, <2>3, <3>1
  <2> QED BY <2>2, <2>3
<1>3. DOMAIN v = 0..n
  BY <1>1 DEF Visit
<1> QED BY <1>2, <1>3


(* M is the tree after a journey: only the last visited children change,    *)
(* along the way.                                                           *)
Rerouted(M, tree, n, from, to) ==
  /\ M = [i \in 0..n |-> M[i]]
  /\ \A i \in 0..n :
       M[i] = [parent |-> tree[i].parent, last |-> Route(tree, i, from, to),
               undo |-> tree[i].undo, redo |-> tree[i].redo]

(* A node with another last visited child.                                  *)
LEMMA LastSet ==
  ASSUME NEW p, NEW l, NEW u, NEW r, NEW d, NEW x, x = [parent |-> p, last |-> l, undo |-> u, redo |-> r]
  PROVE  [x EXCEPT !.last = d] = [parent |-> p, last |-> d, undo |-> u, redo |-> r]
  OBVIOUS

(* Moved puts the history at the node and reroutes the tree.                *)
LEMMA MovedIs ==
  ASSUME NEW tree, NEW n, Shaped(tree, n), NEW at \in 0..n, Trail(tree, at), NEW k \in 0..n,
         NEW undo, NEW redo, NEW h, h = [tree |-> tree, at |-> at, undo |-> undo, redo |-> redo],
         NEW m, m = Moved(h, k)
  PROVE  /\ m = [tree |-> m.tree, at |-> k, undo |-> undo, redo |-> redo]
         /\ Rerouted(m.tree, tree, n, at, k)
<1>f. PICK fork : fork = Fork(tree, at, k)
  OBVIOUS
<1>u. PICK up : up = Leg(tree, fork, at)
  OBVIOUS
<1>d. PICK down : down = Leg(tree, fork, k)
  OBVIOUS
<1>v. PICK v : v = Visit(tree, up)
  OBVIOUS
<1>w. PICK w : w = Visit(v, down)
  OBVIOUS
<1>1. m = [tree |-> w, at |-> k, undo |-> undo, redo |-> redo]
  BY <1>f, <1>u, <1>d, <1>v, <1>w DEF Moved
<1>2. Parents(tree, n) /\ n \in Nat
  BY ShapedParents DEF Parents
<1>3. /\ fork \in Above(tree, at) /\ fork \in Above(tree, k)
      /\ \A c \in Above(tree, at) : c \in Above(tree, k) => c <= fork
  BY <1>2, <1>f, Forks
<1>4. Above(tree, at) \subseteq 0..at /\ Above(tree, k) \subseteq 0..k
  BY <1>2, AboveAscends DEF Ascends
<1>5. fork \in 0..n /\ fork \in Nat
  BY <1>2, <1>3, <1>4
<1>6. up = {c \in Above(tree, at) : c > fork} /\ down = {c \in Above(tree, k) : c > fork}
  BY <1>u, <1>d DEF Leg
<1>7. up \subseteq 1..n /\ down \subseteq 1..n
  BY <1>2, <1>4, <1>5, <1>6
<1>8. /\ DOMAIN v = 0..n
      /\ \A i \in 0..n :
           /\ v[i] = [parent |-> tree[i].parent, last |-> v[i].last,
                      undo |-> tree[i].undo, redo |-> tree[i].redo]
           /\ (\A c \in up : tree[c].parent # i) => v[i].last = tree[i].last
           /\ (\E c \in up : tree[c].parent = i) => v[i].last \in up /\ tree[v[i].last].parent = i
  BY <1>v, VisitIs
<1>9. \A c \in 0..n : v[c].parent = tree[c].parent
  <2> TAKE c \in 0..n
  <2>1. v[c] = [parent |-> tree[c].parent, last |-> v[c].last,
                undo |-> tree[c].undo, redo |-> tree[c].redo]
    BY <1>8
  <2> QED BY <2>1
<1>10. ASSUME NEW i \in 0..n
       PROVE  /\ w[i] = [parent |-> tree[i].parent, last |-> w[i].last,
                         undo |-> tree[i].undo, redo |-> tree[i].redo]
              /\ (\A c \in down : tree[c].parent # i) => w[i].last = v[i].last
              /\ (\E c \in down : tree[c].parent = i) => w[i].last \in down /\ tree[w[i].last].parent = i
  <2>1. v[i] = [parent |-> tree[i].parent, last |-> v[i].last,
                undo |-> tree[i].undo, redo |-> tree[i].redo]
    BY <1>8
  <2>2. \A c \in down : v[c].parent = tree[c].parent
    BY <1>7, <1>9
  <2>3. CASE \E c \in down : tree[c].parent = i
    <3>d. PICK d : d = CHOOSE c \in down : v[c].parent = i
      OBVIOUS
    <3>1. d \in down /\ tree[d].parent = i
      BY <2>2, <2>3, <3>d
    <3>2. w[i] = [v[i] EXCEPT !.last = d]
      BY <1>8, <1>w, <2>2, <2>3, <3>d DEF Visit
    <3>3. w[i] = [parent |-> tree[i].parent, last |-> d,
                  undo |-> tree[i].undo, redo |-> tree[i].redo]
      <4>r. PICK r : r = v[i]
        OBVIOUS
      <4>1. w[i] = [r EXCEPT !.last = d]
        BY <3>2, <4>r
      <4>2. r = [parent |-> tree[i].parent, last |-> r.last,
                 undo |-> tree[i].undo, redo |-> tree[i].redo]
        BY <2>1, <4>r
      <4>3. [r EXCEPT !.last = d] = [parent |-> tree[i].parent, last |-> d,
                                     undo |-> tree[i].undo, redo |-> tree[i].redo]
        BY <4>2, LastSet
      <4> QED BY <4>1, <4>3
    <3>4. w[i].last = d
      BY <3>3
    <3> QED BY <2>3, <3>1, <3>3, <3>4
  <2>4. CASE \A c \in down : tree[c].parent # i
    <3>1. w[i] = v[i]
      BY <1>8, <1>w, <2>2, <2>4 DEF Visit
    <3> QED BY <2>1, <2>4, <3>1
  <2> QED BY <2>3, <2>4
<1>11. ASSUME NEW i \in 0..n PROVE w[i].last = Route(tree, i, at, k)
  <2>a. PICK a : a = Heading(tree, i, at)
    OBVIOUS
  <2>b. PICK b : b = Heading(tree, i, k)
    OBVIOUS
  <2>r. Route(tree, i, at, k) = IF b # 0 THEN b ELSE IF a # 0 THEN a ELSE tree[i].last
    BY <2>a, <2>b DEF Route
  <2>1. /\ \A c \in Above(tree, at) \ {0} : tree[c].parent = i => a = c
        /\ a # 0 => a \in Above(tree, at) \ {0} /\ tree[a].parent = i
    BY <1>2, <2>a, HeadingIs
  <2>2. /\ \A c \in Above(tree, k) \ {0} : tree[c].parent = i => b = c
        /\ b # 0 => b \in Above(tree, k) \ {0} /\ tree[b].parent = i
    BY <1>2, <2>b, HeadingIs
  <2>3. CASE \E c \in down : tree[c].parent = i
    <3>1. w[i].last \in down /\ tree[w[i].last].parent = i
      BY <1>10, <2>3
    <3>2. w[i].last \in Above(tree, k) \ {0}
      BY <1>6, <1>7, <3>1
    <3>3. b = w[i].last
      BY <2>2, <3>1, <3>2
    <3> QED BY <2>r, <3>2, <3>3
  <2>4. CASE \A c \in down : tree[c].parent # i
    <3>0. w[i].last = v[i].last
      BY <1>10, <2>4
    <3>1. b # 0 => b \in Above(tree, at) \ {0} /\ b <= fork /\ b = a
      <4> HAVE b # 0
      <4>1. b \in Above(tree, k) /\ tree[b].parent = i /\ b \in Nat
        BY <1>4, <2>2
      <4>2. ~(b > fork)
        BY <1>6, <2>4, <4>1
      <4>3. b <= fork
        BY <1>5, <4>1, <4>2
      <4>4. b \in Above(tree, fork)
        BY <1>2, <1>3, <4>1, <4>3, AboveAscends DEF Ascends
      <4>5. b \in Above(tree, at)
        BY <1>2, <1>3, <4>4, AboveAscends DEF Ascends
      <4> QED BY <2>1, <4>1, <4>3, <4>5
    <3>2. CASE \E c \in up : tree[c].parent = i
      <4>1. v[i].last \in up /\ tree[v[i].last].parent = i
        BY <1>8, <3>2
      <4>2. v[i].last \in Above(tree, at) \ {0} /\ v[i].last > fork /\ v[i].last \in Nat
        BY <1>6, <1>7, <4>1
      <4>3. a = v[i].last
        BY <2>1, <4>1, <4>2
      <4>4. b = 0
        BY <1>5, <3>1, <4>2, <4>3
      <4> QED BY <2>r, <3>0, <4>2, <4>3, <4>4
    <3>3. CASE \A c \in up : tree[c].parent # i
      <4>1. w[i].last = tree[i].last
        BY <1>8, <3>0, <3>3
      <4>2. a # 0 => a = tree[i].last
        BY <2>1 DEF Trail
      <4> QED BY <2>r, <3>1, <4>1, <4>2
    <3> QED BY <3>2, <3>3
  <2> QED BY <2>3, <2>4
<1>12. w = [i \in 0..n |-> w[i]]
  BY <1>8, <1>w DEF Visit
<1>13. Rerouted(w, tree, n, at, k)
  BY <1>10, <1>11, <1>12 DEF Rerouted
<1>14. m.tree = w
  BY <1>1
<1> QED BY <1>1, <1>13, <1>14

(* A journey keeps what holds of a history.                                 *)
LEMMA MovedOk ==
  ASSUME NEW tree, NEW n, NEW tx, NEW at, TreeOk(tree, n, tx, at), NEW k \in 0..n,
         NEW M, Rerouted(M, tree, n, at, k)
  PROVE  TreeOk(M, n, tx, k)
<1>1. Shaped(tree, n) /\ Told(tree, n, tx) /\ at \in 0..n /\ Trail(tree, at)
  BY DEF TreeOk
<1>2. Parents(tree, n) /\ n \in Nat
  BY <1>1, ShapedParents DEF Parents
<1>4. ASSUME NEW i \in 0..n
      PROVE  /\ M[i] = [parent |-> tree[i].parent, last |-> Route(tree, i, at, k),
                        undo |-> tree[i].undo, redo |-> tree[i].redo]
             /\ M[i].parent = tree[i].parent /\ M[i].undo = tree[i].undo /\ M[i].redo = tree[i].redo
             /\ M[i].last = Route(tree, i, at, k)
  <2>1. M[i] = [parent |-> tree[i].parent, last |-> Route(tree, i, at, k),
                undo |-> tree[i].undo, redo |-> tree[i].redo]
    BY DEF Rerouted
  <2> QED BY <2>1
<1>5. ASSUME NEW i \in 0..n
      PROVE  /\ M[i].last # 0 => M[i].last \in 1..n /\ tree[M[i].last].parent = i
             /\ M[i].last \in Nat
  <2>1. \A j \in 0..n : Above(tree, j) \subseteq 0..n
    <3> TAKE j \in 0..n
    <3>1. Above(tree, j) \subseteq 0..j
      BY <1>2, AboveAscends DEF Ascends
    <3> QED BY <1>2, <3>1
  <2>2. \A j \in 0..n : Heading(tree, i, j) # 0 =>
          Heading(tree, i, j) \in 1..n /\ tree[Heading(tree, i, j)].parent = i
    <3> TAKE j \in 0..n
    <3>1. Heading(tree, i, j) # 0 =>
            Heading(tree, i, j) \in Above(tree, j) \ {0} /\ tree[Heading(tree, i, j)].parent = i
      BY <1>2, HeadingIs
    <3> QED BY <2>1, <3>1
  <2>3. tree[i].last # 0 => tree[i].last \in 1..n /\ tree[tree[i].last].parent = i
    BY <1>1 DEF Shaped
  <2> PICK x : x = M[i].last
    OBVIOUS
  <2>4. (x = Heading(tree, i, k) /\ x # 0) \/ (x = Heading(tree, i, at) /\ x # 0) \/ x = tree[i].last
    BY <1>4 DEF Route
  <2>5. x # 0 => x \in 1..n /\ tree[x].parent = i
    BY <1>1, <2>2, <2>3, <2>4
  <2> QED BY <2>5
<1>6. M \in [0..n -> Revisions]
  <2>1. ASSUME NEW i \in 0..n PROVE M[i] \in Revisions
    <3>1. /\ tree[i].parent \in Nat /\ tree[i].undo \in Seq(Ops) /\ tree[i].redo \in Seq(Ops)
          /\ M[i].last \in Nat
      BY <1>1, <1>5, ShapedRevision
    <3>2. M[i] = [parent |-> tree[i].parent, last |-> M[i].last,
                  undo |-> tree[i].undo, redo |-> tree[i].redo]
      BY <1>4
    <3> QED BY <3>1, <3>2 DEF Revisions
  <2>2. M = [i \in 0..n |-> M[i]]
    BY DEF Rerouted
  <2> QED BY <2>1, <2>2
<1>7. Shaped(M, n)
  <2>1. M[0].parent = 0
    <3>1. 0 \in 0..n /\ tree[0].parent = 0
      BY <1>1, <1>2 DEF Shaped
    <3> QED BY <1>4, <3>1
  <2>2. \A i \in 1..n : M[i].parent < i
    <3> TAKE i \in 1..n
    <3>1. i \in 0..n
      OBVIOUS
    <3> QED BY <1>1, <1>4, <3>1 DEF Shaped
  <2>3. ASSUME NEW i \in 0..n, M[i].last # 0 PROVE M[i].last \in 1..n /\ M[M[i].last].parent = i
    <3>1. M[i].last \in 1..n /\ tree[M[i].last].parent = i
      BY <1>5, <2>3
    <3>2. M[i].last \in 0..n
      BY <3>1
    <3> QED BY <1>4, <3>1, <3>2
  <2> QED BY <1>2, <1>6, <2>1, <2>2, <2>3 DEF Shaped
<1>8. Told(M, n, tx)
  <2>1. ASSUME NEW i \in 1..n
        PROVE  M[i].undo # <<>> /\ Leads(tx[M[i].parent], M[i].undo, M[i].redo, tx[i])
    <3>1. i \in 0..n
      OBVIOUS
    <3>2. M[i].parent = tree[i].parent /\ M[i].undo = tree[i].undo /\ M[i].redo = tree[i].redo
      BY <1>4, <3>1
    <3>3. tree[i].undo # <<>> /\ Leads(tx[tree[i].parent], tree[i].undo, tree[i].redo, tx[i])
      BY <1>1 DEF Told
    <3> QED BY <3>2, <3>3
  <2>2. tx \in [0..n -> Whole]
    BY <1>1 DEF Told
  <2> QED BY <2>1, <2>2 DEF Told
<1>9. Trail(M, k)
  <2>1. Above(M, k) = Above(tree, k)
    <3>1. Parents(M, n)
      BY <1>7, ShapedParents
    <3>2. \A i \in 1..n : M[i].parent = tree[i].parent
      <4> TAKE i \in 1..n
      <4>1. i \in 0..n
        OBVIOUS
      <4> QED BY <1>4, <4>1
    <3>3. n <= n
      BY <1>2
    <3> QED BY <1>2, <3>1, <3>2, <3>3, SameChains
  <2>2. ASSUME NEW c \in Above(tree, k) \ {0} PROVE M[M[c].parent].last = c
    <3>1. c \in 1..n /\ c \in 0..n
      <4>1. Above(tree, k) \subseteq 0..k
        BY <1>2, AboveAscends DEF Ascends
      <4> QED BY <1>2, <4>1
    <3>2. M[c].parent = tree[c].parent /\ tree[c].parent \in 0..n
      <4>1. tree[c].parent \in Nat /\ tree[c].parent < c
        BY <1>2, <3>1 DEF Parents
      <4>2. tree[c].parent \in 0..n
        BY <1>2, <3>1, <4>1
      <4> QED BY <1>4, <3>1, <4>2
    <3> PICK i \in 0..n : i = tree[c].parent
      BY <3>2
    <3>3. Heading(tree, i, k) = c
      BY <1>2, HeadingIs
    <3>4. M[i].last = Route(tree, i, at, k)
      BY <1>4
    <3> QED BY <3>1, <3>2, <3>3, <3>4 DEF Route
  <2> QED BY <2>1, <2>2 DEF Trail
<1> QED BY <1>7, <1>8, <1>9 DEF TreeOk


(* T2 is the tree with the open group as a node more, a child of the        *)
(* current one.                                                             *)
Grows(T2, tree, n, at, undo, redo) ==
  /\ T2 = [i \in 0..(n + 1) |-> T2[i]]
  /\ \A i \in 0..n :
       T2[i] = [parent |-> tree[i].parent, last |-> IF i = at THEN n + 1 ELSE tree[i].last,
                undo |-> tree[i].undo, redo |-> tree[i].redo]
  /\ T2[n + 1] = [parent |-> at, last |-> 0, undo |-> undo, redo |-> redo]

(* Committed changes nothing or makes a node of the open group.             *)
LEMMA CommittedIs ==
  ASSUME NEW tree, NEW n, Shaped(tree, n), NEW at \in 0..n, NEW undo, NEW redo,
         NEW h, h = [tree |-> tree, at |-> at, undo |-> undo, redo |-> redo],
         NEW g, g = Committed(h)
  PROVE  /\ undo = <<>> => g = h
         /\ undo # <<>> => g = [tree |-> g.tree, at |-> n + 1, undo |-> <<>>, redo |-> <<>>]
         /\ undo # <<>> => Grows(g.tree, tree, n, at, undo, redo)
<1>1. n \in Nat /\ DOMAIN tree = 0..n
  BY DEF Shaped
<1>2. Cardinality(0..n) = n + 1
  BY <1>1, FS_Interval
<1>3. h.undo = undo /\ h.redo = redo /\ h.tree = tree /\ h.at = at
  OBVIOUS
<1>4. undo = <<>> => g = h
  BY <1>3 DEF Committed
<1>5. ASSUME undo # <<>>
      PROVE  /\ g = [tree |-> g.tree, at |-> n + 1, undo |-> <<>>, redo |-> <<>>]
             /\ Grows(g.tree, tree, n, at, undo, redo)
  <2>l. PICK linked : linked = [tree EXCEPT ![at].last = n + 1]
    OBVIOUS
  <2>r. PICK revision : revision = [parent |-> at, last |-> 0, undo |-> undo, redo |-> redo]
    OBVIOUS
  <2>T. PICK T2 : T2 = Extended(linked, n + 1, revision)
    OBVIOUS
  <2>1. g = [tree |-> T2, at |-> n + 1, undo |-> <<>>, redo |-> <<>>]
    BY <1>1, <1>2, <1>3, <1>5, <2>l, <2>r, <2>T DEF Committed
  <2>2. DOMAIN linked = 0..n
    BY <1>1, <2>l
  <2>3. ASSUME NEW i \in 0..n
        PROVE  linked[i] = [parent |-> tree[i].parent, last |-> IF i = at THEN n + 1 ELSE tree[i].last,
                            undo |-> tree[i].undo, redo |-> tree[i].redo]
    <3>1. tree[i] = [parent |-> tree[i].parent, last |-> tree[i].last,
                     undo |-> tree[i].undo, redo |-> tree[i].redo]
      BY ShapedRevision
    <3>2. CASE i = at
      <4>x. PICK x : x = tree[i]
        OBVIOUS
      <4>1. linked[i] = [x EXCEPT !.last = n + 1]
        BY <1>1, <2>l, <3>2, <4>x
      <4>2. x = [parent |-> tree[i].parent, last |-> tree[i].last,
                 undo |-> tree[i].undo, redo |-> tree[i].redo]
        BY <3>1, <4>x
      <4>3. [x EXCEPT !.last = n + 1] = [parent |-> tree[i].parent, last |-> n + 1,
                                         undo |-> tree[i].undo, redo |-> tree[i].redo]
        BY <4>2, LastSet
      <4> QED BY <3>2, <4>1, <4>3
    <3>3. CASE i # at
      <4>1. linked[i] = tree[i]
        BY <1>1, <2>l, <3>3
      <4> QED BY <3>1, <3>3, <4>1
    <3> QED BY <3>2, <3>3
  <2>4. 0..n \union {n + 1} = 0..(n + 1) /\ \A i \in 0..n : i # n + 1
    BY <1>1
  <2>5. T2 = [k \in 0..(n + 1) |-> IF k = n + 1 THEN revision ELSE linked[k]]
    BY <2>2, <2>4, <2>T DEF Extended
  <2>6. T2 = [i \in 0..(n + 1) |-> T2[i]]
    BY <2>5
  <2>7. \A i \in 0..n : T2[i] = linked[i]
    BY <2>4, <2>5
  <2>8. T2[n + 1] = revision
    BY <1>1, <2>5
  <2>9. Grows(T2, tree, n, at, undo, redo)
    BY <2>3, <2>6, <2>7, <2>8, <2>r DEF Grows
  <2>10. g.tree = T2
    BY <2>1
  <2> QED BY <2>1, <2>9, <2>10
<1> QED BY <1>4, <1>5

(* tx2 tells the text of one node more.                                     *)
Retold(tx2, tx, n, t) ==
  /\ tx2 \in [0..(n + 1) -> Whole]
  /\ \A i \in 0..n : tx2[i] = tx[i]
  /\ tx2[n + 1] = t

(* A node more keeps what holds of a history.                               *)
LEMMA GrownOk ==
  ASSUME NEW tree, NEW n, NEW tx, NEW at, TreeOk(tree, n, tx, at),
         NEW undo, NEW redo, NEW t, undo # <<>>, Leads(tx[at], undo, redo, t),
         NEW T2, Grows(T2, tree, n, at, undo, redo), NEW tx2, Retold(tx2, tx, n, t)
  PROVE  TreeOk(T2, n + 1, tx2, n + 1)
<1>1. Shaped(tree, n) /\ Told(tree, n, tx) /\ at \in 0..n /\ Trail(tree, at)
  BY DEF TreeOk
<1>2. Parents(tree, n) /\ n \in Nat
  BY <1>1, ShapedParents DEF Parents
<1>3. ASSUME NEW i \in 0..n
      PROVE  /\ T2[i] = [parent |-> tree[i].parent, last |-> T2[i].last,
                         undo |-> tree[i].undo, redo |-> tree[i].redo]
             /\ T2[i].last = IF i = at THEN n + 1 ELSE tree[i].last
             /\ T2[i].parent = tree[i].parent /\ T2[i].undo = tree[i].undo /\ T2[i].redo = tree[i].redo
  <2>1. T2[i] = [parent |-> tree[i].parent, last |-> IF i = at THEN n + 1 ELSE tree[i].last,
                 undo |-> tree[i].undo, redo |-> tree[i].redo]
    BY DEF Grows
  <2> QED BY <2>1
<1>4. /\ T2[n + 1] = [parent |-> at, last |-> 0, undo |-> undo, redo |-> redo]
      /\ T2[n + 1].parent = at /\ T2[n + 1].last = 0 /\ T2[n + 1].undo = undo /\ T2[n + 1].redo = redo
  <2>1. T2[n + 1] = [parent |-> at, last |-> 0, undo |-> undo, redo |-> redo]
    BY DEF Grows
  <2> QED BY <2>1
<1>5. undo \in Seq(Ops) /\ redo \in Seq(Ops)
  BY DEF Leads
<1>6. n + 1 \in Nat /\ 0 \in 0..n /\ n + 1 \in 1..(n + 1)
  BY <1>2
<1>7. \A i \in 0..(n + 1) : i \in 0..n \/ i = n + 1
  BY <1>2
<1>8. T2 \in [0..(n + 1) -> Revisions]
  <2>1. ASSUME NEW i \in 0..(n + 1) PROVE T2[i] \in Revisions
    <3>1. CASE i \in 0..n
      <4>1. /\ tree[i].parent \in Nat /\ tree[i].last \in Nat
            /\ tree[i].undo \in Seq(Ops) /\ tree[i].redo \in Seq(Ops)
        BY <1>1, <3>1, ShapedRevision
      <4>2. T2[i].last \in Nat
        BY <1>3, <1>6, <3>1, <4>1
      <4>3. T2[i] = [parent |-> tree[i].parent, last |-> T2[i].last,
                     undo |-> tree[i].undo, redo |-> tree[i].redo]
        BY <1>3, <3>1
      <4> QED BY <4>1, <4>2, <4>3 DEF Revisions
    <3>2. CASE i = n + 1
      <4>1. at \in Nat /\ 0 \in Nat
        BY <1>1
      <4> QED BY <1>4, <1>5, <3>2, <4>1 DEF Revisions
    <3> QED BY <1>7, <3>1, <3>2
  <2>2. T2 = [i \in 0..(n + 1) |-> T2[i]]
    BY DEF Grows
  <2> QED BY <2>1, <2>2
<1>9. Shaped(T2, n + 1)
  <2>1. T2[0].parent = 0
    BY <1>1, <1>3, <1>6 DEF Shaped
  <2>2. ASSUME NEW i \in 1..(n + 1) PROVE T2[i].parent < i
    <3>1. CASE i \in 0..n
      <4>1. i \in 1..n
        BY <1>2, <3>1
      <4>2. tree[i].parent < i
        BY <1>1, <4>1 DEF Shaped
      <4> QED BY <1>3, <3>1, <4>2
    <3>2. CASE i = n + 1
      <4>1. at < n + 1
        BY <1>1, <1>2
      <4> QED BY <1>4, <3>2, <4>1
    <3> QED BY <1>7, <3>1, <3>2
  <2>3. ASSUME NEW i \in 0..(n + 1), T2[i].last # 0
        PROVE  T2[i].last \in 1..(n + 1) /\ T2[T2[i].last].parent = i
    <3>1. CASE i = n + 1
      BY <1>4, <2>3, <3>1
    <3>2. CASE i \in 0..n /\ i = at
      <4>1. T2[i].last = n + 1
        BY <1>3, <3>2
      <4> QED BY <1>4, <1>6, <3>2, <4>1
    <3>3. CASE i \in 0..n /\ i # at
      <4>1. T2[i].last = tree[i].last
        BY <1>3, <3>3
      <4>2. tree[i].last \in 1..n /\ tree[tree[i].last].parent = i
        BY <1>1, <2>3, <3>3, <4>1 DEF Shaped
      <4>3. tree[i].last \in 0..n /\ tree[i].last \in 1..(n + 1)
        BY <1>2, <4>2
      <4>4. T2[tree[i].last].parent = i
        BY <1>3, <4>2, <4>3
      <4> QED BY <4>1, <4>3, <4>4
    <3> QED BY <1>7, <3>1, <3>2, <3>3
  <2> QED BY <1>6, <1>8, <2>1, <2>2, <2>3 DEF Shaped
<1>10. Told(T2, n + 1, tx2)
  <2>1. ASSUME NEW i \in 1..(n + 1)
        PROVE  T2[i].undo # <<>> /\ Leads(tx2[T2[i].parent], T2[i].undo, T2[i].redo, tx2[i])
    <3>1. CASE i \in 0..n
      <4>1. i \in 1..n
        BY <1>2, <3>1
      <4>2. tree[i].undo # <<>> /\ Leads(tx[tree[i].parent], tree[i].undo, tree[i].redo, tx[i])
        BY <1>1, <4>1 DEF Told
      <4>3. T2[i].parent = tree[i].parent /\ T2[i].undo = tree[i].undo /\ T2[i].redo = tree[i].redo
        BY <1>3, <3>1
      <4>4. tree[i].parent \in 0..n
        <5>1. tree[i].parent \in Nat /\ tree[i].parent < i
          BY <1>2, <4>1 DEF Parents
        <5> QED BY <1>2, <4>1, <5>1
      <4>5. tx2[i] = tx[i] /\ tx2[tree[i].parent] = tx[tree[i].parent]
        BY <3>1, <4>4 DEF Retold
      <4> QED BY <4>2, <4>3, <4>5
    <3>2. CASE i = n + 1
      <4>1. tx2[at] = tx[at] /\ tx2[n + 1] = t
        BY <1>1 DEF Retold
      <4> QED BY <1>4, <3>2, <4>1
    <3> QED BY <1>7, <3>1, <3>2
  <2>2. tx2 \in [0..(n + 1) -> Whole]
    BY DEF Retold
  <2> QED BY <2>1, <2>2 DEF Told
<1>11. Trail(T2, n + 1)
  <2>1. Parents(T2, n + 1)
    BY <1>9, ShapedParents
  <2>2. Above(T2, at) = Above(tree, at)
    <3>1. \A i \in 1..n : T2[i].parent = tree[i].parent
      <4> TAKE i \in 1..n
      <4>1. i \in 0..n
        OBVIOUS
      <4> QED BY <1>3, <4>1
    <3>2. n <= n /\ n <= n + 1
      BY <1>2
    <3> QED BY <1>1, <1>2, <2>1, <3>1, <3>2, SameChains
  <2>3. Above(T2, n + 1) = {n + 1} \union Above(tree, at)
    <3>1. Above(T2, n + 1) = {n + 1} \union Above(T2, T2[n + 1].parent)
      BY <1>6, <2>1, AboveIs
    <3> QED BY <1>4, <2>2, <3>1
  <2>4. ASSUME NEW c \in Above(T2, n + 1) \ {0} PROVE T2[T2[c].parent].last = c
    <3>1. CASE c = n + 1
      <4>1. T2[at].last = n + 1
        BY <1>1, <1>3
      <4> QED BY <1>4, <3>1, <4>1
    <3>2. CASE c \in Above(tree, at)
      <4>1. c \in 1..n /\ c \in 0..n /\ c <= at
        <5>1. Above(tree, at) \subseteq 0..at
          BY <1>1, <1>2, AboveAscends DEF Ascends
        <5> QED BY <1>1, <1>2, <2>4, <3>2, <5>1
      <4>2. tree[c].parent \in Nat /\ tree[c].parent < c
        BY <1>2, <4>1 DEF Parents
      <4>3. tree[c].parent \in 0..n /\ tree[c].parent # at
        BY <1>1, <1>2, <4>1, <4>2
      <4>4. tree[tree[c].parent].last = c
        BY <1>1, <2>4, <3>2 DEF Trail
      <4>5. T2[c].parent = tree[c].parent
        BY <1>3, <4>1
      <4>6. T2[tree[c].parent].last = tree[tree[c].parent].last
        BY <1>3, <4>3
      <4> QED BY <4>4, <4>5, <4>6
    <3> QED BY <2>3, <2>4, <3>1, <3>2
  <2> QED BY <2>4 DEF Trail
<1>12. n + 1 \in 0..(n + 1)
  BY <1>6
<1> QED BY <1>9, <1>10, <1>11, <1>12 DEF TreeOk


(* Every text on the way to a text is one.                                  *)
LEMMA Unspoilt ==
  ASSUME NEW t, NEW ops \in Seq(Ops), NEW run \in [0..Len(ops) -> Shows], RunOf(run, t, ops),
         run[Len(ops)] # Unfit
  PROVE  \A i \in 0..Len(ops) : run[i] # Unfit
<1>0. PICK n \in Nat : n = Len(ops)
  OBVIOUS
<1> DEFINE S == {j \in Nat : j <= n => run[n - j] # Unfit}
<1>1. 0 \in S
  BY <1>0
<1>2. ASSUME NEW j \in Nat, j \in S PROVE j + 1 \in S
  <2>1. CASE j + 1 <= n
    <3>1. n - j \in 1..n /\ n - (j + 1) = (n - j) - 1 /\ (n - j) - 1 \in 0..n
      BY <1>0, <2>1
    <3>2. PICK op : op = ops[n - j]
      OBVIOUS
    <3>3. op \in Ops
      BY <1>0, <3>1, <3>2
    <3>4. run[n - j] = Checked(run[(n - j) - 1], op)
      BY <1>0, <3>1, <3>2 DEF RunOf
    <3>5. run[n - j] # Unfit
      BY <1>2, <2>1
    <3>6. run[(n - j) - 1] \in Shows
      BY <1>0, <3>1
    <3>7. run[(n - j) - 1] # Unfit
      BY <3>3, <3>4, <3>5, <3>6, CheckedType
    <3> QED BY <3>1, <3>7
  <2>2. CASE ~(j + 1 <= n)
    BY <2>2
  <2> QED BY <2>1, <2>2
<1>3. Nat \subseteq S
  <2> HIDE DEF S
  <2> QED BY <1>1, <1>2, Induction
<1>4. ASSUME NEW i \in 0..Len(ops) PROVE run[i] # Unfit
  <2>1. n - i \in Nat /\ n - i <= n /\ n - (n - i) = i
    BY <1>0
  <2> QED BY <1>3, <2>1
<1> QED BY <1>4

(* An operation that does not show Unfit fits.                              *)
LEMMA CheckedFits ==
  ASSUME NEW t \in Shows, NEW op \in Ops, Checked(t, op) # Unfit
  PROVE  /\ t \in Seq(Bytes) /\ Fitting(t, AsReplacement(op))
         /\ Checked(t, op) = Substitute(t, AsReplacement(op))
         /\ Checked(t, op) \in Seq(Bytes)
<1>1. /\ t \in Seq(Bytes) /\ Applies(t, op) /\ Checked(t, op) = Substitute(t, AsReplacement(op))
  BY CheckedType
<1>2. Checked(t, op) \in Seq(Bytes)
  BY CheckedType DEF Shows
<1>3. op.at \in 0..Len(t) /\ op.text \in Seq(Bytes) /\ Len(op.text) \in Nat /\ Len(t) \in Nat
  BY <1>1 DEF Applies, Boundary, Ops
<1>4. op.kind = "delete" => op.at + Len(op.text) \in 0..Len(t)
  BY <1>1 DEF Applies, Boundary
<1>5. op.kind = "insert" \/ op.kind = "delete"
  BY DEF Ops
<1>6. Fitting(t, AsReplacement(op))
  BY <1>3, <1>4, <1>5, EmptySeq DEF AsReplacement, Replacement, Fitting
<1> QED BY <1>1, <1>2, <1>6

(* A journey whose operations lead to a text arrives there and is accounted *)
(* for.                                                                     *)
LEMMA Arrives ==
  ASSUME NEW l \in Seq(Bytes), NEW b, NEW t \in Seq(Bytes), NEW n0 \in Nat, NEW j, NEW h,
         b = [text |-> t, epoch |-> n0, changes |-> j, history |-> h], Accounts(l, j, t),
         NEW k, NEW m, m = Moved(Committed(h), k),
         NEW ops \in Seq(Ops), ops = OpsTo(Committed(h), k),
         NEW u \in Seq(Bytes), After(t, ops) = u,
         NEW d, d = Travelled(b, k)
  PROVE  /\ d = [text |-> u, epoch |-> n0 + Len(ops), changes |-> d.changes, history |-> m]
         /\ Accounts(l, d.changes, u)
<1> DEFINE n == Len(ops)
           R(i) == AsReplacement(ops[i])
           V == {c \in [text : Seq(Bytes), epoch : Nat, changes : Seq(Geometries), history : {m}] :
                   Accounts(l, c.changes, c.text)}
           G == [i \in 1..n |-> [c \in V |-> IF Fitting(c.text, R(i)) THEN Published(c, R(i)) ELSE c]]
<1>0. n \in Nat /\ \A i \in 1..n : ops[i] \in Ops
  OBVIOUS
<1>1. ASSUME NEW c \in V, NEW r, Fitting(c.text, r)
      PROVE  /\ Published(c, r) \in V
             /\ Published(c, r).text = Substitute(c.text, r) /\ Published(c, r).epoch = c.epoch + 1
  <2>p. PICK p : p = Published(c, r)
    OBVIOUS
  <2>w. PICK more : more = Append(c.changes, Change(c.text, r))
    OBVIOUS
  <2>1. /\ c = [text |-> c.text, epoch |-> c.epoch, changes |-> c.changes, history |-> m]
        /\ c.text \in Seq(Bytes) /\ c.epoch \in Nat /\ Accounts(l, c.changes, c.text)
    OBVIOUS
  <2>2. p = [text |-> Substitute(c.text, r), epoch |-> c.epoch + 1, changes |-> more, history |-> m]
    BY <2>1, <2>p, <2>w, PublishedIs
  <2>3. Accounts(l, more, Substitute(c.text, r))
    <3>1. Accounts(l, Append(c.changes, Change(c.text, r)), Substitute(c.text, r))
      BY <1>1, <2>1, AccountsExtends
    <3> QED BY <3>1, <2>w
  <2>4. more \in Seq(Geometries)
    BY <2>3 DEF Accounts
  <2>5. Substitute(c.text, r) \in Seq(Bytes)
    BY <1>1, <2>1, SubstituteType DEF Fitting, Splices
  <2>6. c.epoch + 1 \in Nat
    BY <2>1
  <2>7. p \in V
    BY <2>2, <2>3, <2>4, <2>5, <2>6
  <2> QED BY <2>2, <2>7, <2>p
<1>2. G \in [1..n -> [V -> V]]
  <2>1. ASSUME NEW i \in 1..n, NEW c \in V
        PROVE  (IF Fitting(c.text, R(i)) THEN Published(c, R(i)) ELSE c) \in V
    <3> PICK r : r = R(i)
      BY SMTT(60)
    <3> HIDE DEF V
    <3> QED BY <1>1
  <2> HIDE DEF V
  <2> QED BY <2>1
<1> DEFINE b0 == [b EXCEPT !.history = m]
<1>3. /\ b0 = [text |-> t, epoch |-> n0, changes |-> j, history |-> m]
      /\ b0 \in V
  <2>1. b0 = [text |-> t, epoch |-> n0, changes |-> j, history |-> m]
    OBVIOUS
  <2>2. j \in Seq(Geometries)
    BY DEF Accounts
  <2> HIDE DEF b0
  <2> QED BY <2>1, <2>2
<1>3a. b0.text = t /\ b0.epoch = n0
  <2> HIDE DEF b0
  <2> QED BY <1>3
<1> HIDE DEF b0
<1>4. PICK run \in [0..n -> V] : Proceeds(run, n, b0, G)
  <2> HIDE DEF G, V
  <2> QED BY <1>0, <1>2, <1>3, LinearRecursion
<1>5. ASSUME NEW i \in 1..n
      PROVE  /\ run[i - 1] \in V /\ run[i] \in V
             /\ Fitting(run[i - 1].text, R(i)) => run[i] = Published(run[i - 1], R(i))
  <2>1. run[i] = G[i][run[i - 1]]
    <3> HIDE DEF G, V
    <3> QED BY <1>4 DEF Proceeds
  <2>2. i - 1 \in 0..n /\ i \in 0..n
    OBVIOUS
  <2>3. run[i - 1] \in V /\ run[i] \in V
    <3> HIDE DEF V
    <3> QED BY <2>2
  <2>4. G[i][run[i - 1]] = IF Fitting(run[i - 1].text, R(i)) THEN Published(run[i - 1], R(i)) ELSE run[i - 1]
    <3> HIDE DEF V
    <3> QED BY <2>3
  <2> HIDE DEF G, V
  <2> QED BY <2>1, <2>3, <2>4
<1>6. run[0] = b0
  <2> HIDE DEF G, V
  <2> QED BY <1>4 DEF Proceeds
<1> HIDE DEF G
<1>7. t \in Shows
  BY DEF Shows
<1>8. PICK seen \in [0..n -> Shows] : RunOf(seen, t, ops)
  BY <1>7, RunExists
<1>9. seen[n] = u
  BY <1>7, <1>8, AfterRun
<1>10. \A i \in 0..n : seen[i] # Unfit
  <2>1. u # Unfit
    BY UnfitIsNoText
  <2> QED BY <1>8, <1>9, <2>1, Unspoilt
<1> DEFINE Good(i) == run[i].text = seen[i] /\ run[i].epoch = n0 + i
           S == {i \in Nat : i <= n => Good(i)}
<1>11. 0 \in S
  <2>1. seen[0] = t
    BY <1>8 DEF RunOf
  <2>2. n0 + 0 = n0
    OBVIOUS
  <2> HIDE DEF V, n
  <2> QED BY <1>3a, <1>6, <2>1, <2>2
<1>12. ASSUME NEW i \in 1..n, Good(i - 1)
       PROVE  /\ Fitting(run[i - 1].text, R(i)) /\ run[i] = Published(run[i - 1], R(i))
              /\ Good(i)
  <2>0. i - 1 \in 0..n /\ i \in 0..n /\ i - 1 \in Nat
    OBVIOUS
  <2>p. PICK op : op = ops[i]
    OBVIOUS
  <2>1. op \in Ops
    BY <1>0, <2>p
  <2>2. seen[i] = Checked(seen[i - 1], op) /\ seen[i - 1] \in Shows /\ seen[i] # Unfit
    BY <1>8, <1>10, <2>0, <2>p DEF RunOf
  <2>3. Fitting(seen[i - 1], AsReplacement(op)) /\ seen[i] = Substitute(seen[i - 1], AsReplacement(op))
    BY <2>1, <2>2, CheckedFits
  <2>4. PICK r : r = R(i)
    OBVIOUS
  <2>5. Fitting(run[i - 1].text, r) /\ seen[i] = Substitute(run[i - 1].text, r)
    BY <1>12, <2>3, <2>4, <2>p
  <2>6. run[i - 1] \in V /\ run[i] = Published(run[i - 1], r)
    BY <1>5, <2>4, <2>5
  <2>7. run[i].text = Substitute(run[i - 1].text, r) /\ run[i].epoch = run[i - 1].epoch + 1
    <3> HIDE DEF V
    <3> QED BY <1>1, <2>5, <2>6
  <2>8. run[i].epoch = n0 + i
    <3>1. run[i - 1].epoch = n0 + (i - 1)
      BY <1>12
    <3>2. (n0 + (i - 1)) + 1 = n0 + i
      BY <2>0
    <3> HIDE DEF V, n
    <3> QED BY <2>7, <3>1, <3>2
  <2> HIDE DEF V
  <2> QED BY <2>4, <2>5, <2>6, <2>7, <2>8
<1>13. ASSUME NEW i \in Nat, i \in S PROVE i + 1 \in S
  <2>1. i + 1 <= n => i + 1 \in 1..n /\ (i + 1) - 1 = i /\ i <= n
    OBVIOUS
  <2> HIDE DEF Good
  <2> QED BY <1>12, <1>13, <2>1
<1>14. \A i \in 0..n : Good(i)
  <2>1. Nat \subseteq S
    <3> HIDE DEF S
    <3> QED BY <1>11, <1>13, Induction
  <2> HIDE DEF Good
  <2> QED BY <2>1
<1>15. Travels(run, b, m, ops)
  <2>1. run = [i \in 0..n |-> run[i]]
    BY <1>4
  <2>2. ASSUME NEW i \in 1..n PROVE run[i] = Published(run[i - 1], R(i))
    <3>1. i - 1 \in 0..n
      OBVIOUS
    <3>2. Good(i - 1)
      BY <1>14, <3>1
    <3> HIDE DEF Good, V, R
    <3> QED BY <1>12, <3>2
  <2> QED BY <1>6, <2>1, <2>2 DEF Travels, b0
<1>16. d = run[n]
  <2>1. b.history = h
    OBVIOUS
  <2>2. m = Moved(Committed(b.history), k)
    BY <2>1
  <2>3. ops = OpsTo(Committed(b.history), k)
    BY <2>1
  <2>4. Travelled(b, k) = run[n]
    <3> HIDE DEF V, b0, R
    <3> QED BY <1>0, <1>15, <2>2, <2>3, TravelledRun
  <2> QED BY <2>4
<1>17. d \in V /\ d.text = u /\ d.epoch = n0 + n
  <2>1. n \in 0..n
    OBVIOUS
  <2>2. Good(n)
    BY <1>14, <2>1
  <2>3. d \in V
    <3> HIDE DEF V
    <3> QED BY <1>4, <1>16, <2>1
  <2> QED BY <1>9, <1>16, <2>2, <2>3
<1> QED BY <1>17


(* What holds of a buffer b leased as l whose history has n nodes under the *)
(* root, of the texts tx.                                                   *)
TextOk(b, l, tx, n) ==
  /\ n \in Nat /\ l \in Seq(Bytes)
  /\ TreeOk(b.history.tree, n, tx, b.history.at)
  /\ b \in Drafts(l, tx[b.history.at], b.history.tree, b.history.at)

(* The texts of the nodes of a tree, those tx does not tell being t.        *)
TextsOf(tx, T, t) == [k \in DOMAIN T |-> IF k \in DOMAIN tx THEN tx[k] ELSE t]

(* g is the history once its group is closed, of n1 nodes of the texts tx1. *)
Settles(h, n, tx, t, g, n1, tx1) ==
  \/ h.undo = <<>> /\ g = h /\ n1 = n /\ tx1 = tx
  \/ /\ h.undo # <<>> /\ n1 = n + 1
     /\ g = [tree |-> g.tree, at |-> n + 1, undo |-> <<>>, redo |-> <<>>]
     /\ Grows(g.tree, h.tree, n, h.at, h.undo, h.redo) /\ Retold(tx1, tx, n, t)

(* A buffer in order, field by field.                                       *)
LEMMA DraftIs ==
  ASSUME NEW l, NEW t0, NEW T, NEW a, NEW b \in Drafts(l, t0, T, a)
  PROVE  /\ b = [text |-> b.text, epoch |-> b.epoch, changes |-> b.changes, history |-> b.history]
         /\ b.text \in Whole /\ b.text \in Seq(Bytes) /\ b.epoch \in Nat /\ Accounts(l, b.changes, b.text)
         /\ b.history = [tree |-> T, at |-> a, undo |-> b.history.undo, redo |-> b.history.redo]
         /\ b.history.undo \in Seq(Ops) /\ b.history.redo \in Seq(Ops)
         /\ b.history.tree = T /\ b.history.at = a
         /\ Leads(t0, b.history.undo, b.history.redo, b.text)
  BY DEF Drafts, Whole

(* A buffer given by its fields is in order.                                *)
LEMMA IsDraft ==
  ASSUME NEW l, NEW t0, NEW T, NEW a, NEW t \in Whole, NEW e \in Nat, NEW j, Accounts(l, j, t),
         NEW undo, NEW redo, Leads(t0, undo, redo, t),
         NEW b, NEW h, h = [tree |-> T, at |-> a, undo |-> undo, redo |-> redo],
         b = [text |-> t, epoch |-> e, changes |-> j, history |-> h]
  PROVE  b \in Drafts(l, t0, T, a)
<1>1. j \in Seq(Geometries) /\ undo \in Seq(Ops) /\ redo \in Seq(Ops)
  BY DEF Accounts, Leads
<1>2. h \in [tree : {T}, at : {a}, undo : Seq(Ops), redo : Seq(Ops)]
  BY <1>1
<1>3. b \in [text : Whole, epoch : Nat, changes : Seq(Geometries),
             history : [tree : {T}, at : {a}, undo : Seq(Ops), redo : Seq(Ops)]]
  BY <1>1, <1>2
<1>4. b.text = t /\ b.changes = j /\ b.history.undo = undo /\ b.history.redo = redo
  OBVIOUS
<1> QED BY <1>3, <1>4 DEF Drafts

(* An empty group leads nowhere.                                            *)
LEMMA NoOps ==
  ASSUME NEW t \in Seq(Bytes)
  PROVE  /\ Leads(t, <<>>, <<>>, t)
         /\ \A u \in Seq(Bytes) : \A redo : Leads(t, <<>>, redo, u) => u = t /\ redo = <<>>
<1>1. t \in Shows /\ After(t, <<>>) = t
  BY AfterType, EmptySeq DEF Shows
<1>2. Reverse(<<>>) = <<>>
  BY DEF Reverse
<1>3. <<>> \in Seq(Ops)
  OBVIOUS
<1>4. ASSUME NEW u \in Seq(Bytes), NEW redo, Leads(t, <<>>, redo, u)
      PROVE  u = t /\ redo = <<>>
  <2>1. redo \in Seq(Ops) /\ Len(redo) = 0 /\ After(u, Reverse(<<>>)) = t
    BY <1>4 DEF Leads
  <2>2. redo = <<>>
    BY <2>1, EmptySeq
  <2>3. After(u, <<>>) = u
    BY AfterType, <1>3 DEF Shows
  <2> QED BY <1>2, <2>1, <2>2, <2>3
<1> QED BY <1>1, <1>2, <1>3, <1>4 DEF Leads

(* A buffer without changes is in order for a lease taken now.              *)
LEMMA Rebased ==
  ASSUME NEW l, NEW t0, NEW T, NEW a, NEW b \in Drafts(l, t0, T, a), b.changes = <<>>
  PROVE  b \in Drafts(b.text, t0, T, a)
<1>1. Accounts(b.text, <<>>, b.text)
  BY DraftIs, AccountsStart
<1> QED BY <1>1 DEF Drafts

(* No node more, no text more.                                              *)
LEMMA TextsStay ==
  ASSUME NEW T, NEW n, NEW tx, DOMAIN T = 0..n, tx \in [0..n -> Whole], NEW t
  PROVE  TextsOf(tx, T, t) = tx
  BY DEF TextsOf

(* A node more has the text of the buffer.                                  *)
LEMMA TextsGrow ==
  ASSUME NEW T, NEW n \in Nat, NEW tx \in [0..n -> Whole], DOMAIN T = 0..(n + 1), NEW t \in Whole
  PROVE  Retold(TextsOf(tx, T, t), tx, n, t)
<1>1. n + 1 \in 0..(n + 1) /\ n + 1 \notin 0..n /\ 0..n \subseteq 0..(n + 1)
  OBVIOUS
<1>2. TextsOf(tx, T, t) = [k \in 0..(n + 1) |-> IF k \in 0..n THEN tx[k] ELSE t]
  BY DEF TextsOf
<1> QED BY <1>1, <1>2 DEF Retold

(* Closing the group keeps what holds of a history and ends at the text of  *)
(* the buffer.                                                              *)
LEMMA CommitOk ==
  ASSUME NEW tree, NEW n, NEW tx, NEW at, TreeOk(tree, n, tx, at), NEW undo, NEW redo,
         NEW h, h = [tree |-> tree, at |-> at, undo |-> undo, redo |-> redo],
         NEW t \in Whole, Leads(tx[at], undo, redo, t),
         NEW g, g = Committed(h), NEW tx1, tx1 = TextsOf(tx, g.tree, t)
  PROVE  \E n1 \in Nat : /\ Settles(h, n, tx, t, g, n1, tx1)
                         /\ TreeOk(g.tree, n1, tx1, g.at) /\ tx1[g.at] = t
                         /\ g = [tree |-> g.tree, at |-> g.at, undo |-> <<>>, redo |-> <<>>]
<1>1. Shaped(tree, n) /\ n \in Nat /\ at \in 0..n /\ tx \in [0..n -> Whole] /\ DOMAIN tree = 0..n
  BY DEF TreeOk, Shaped, Told
<1>2. t \in Seq(Bytes) /\ tx[at] \in Seq(Bytes)
  BY <1>1 DEF Whole
<1>3. CASE undo = <<>>
  <2>1. t = tx[at] /\ redo = <<>>
    BY <1>2, <1>3, NoOps
  <2>2. g = h
    BY <1>1, <1>3, CommittedIs
  <2>3. tx1 = tx
    BY <1>1, <2>2, TextsStay
  <2>4. h.undo = <<>> /\ g.tree = tree /\ g.at = at
    BY <1>3, <2>2
  <2> QED BY <1>1, <1>3, <2>1, <2>2, <2>3, <2>4 DEF Settles
<1>4. CASE undo # <<>>
  <2>1. g = [tree |-> g.tree, at |-> n + 1, undo |-> <<>>, redo |-> <<>>]
    BY <1>1, <1>4, CommittedIs
  <2>2. Grows(g.tree, tree, n, at, undo, redo)
    BY <1>1, <1>4, CommittedIs
  <2>3. DOMAIN g.tree = 0..(n + 1)
    BY <2>2 DEF Grows
  <2>4. Retold(tx1, tx, n, t)
    BY <1>1, <2>3, TextsGrow
  <2>5. TreeOk(g.tree, n + 1, tx1, n + 1)
    BY <1>4, <2>2, <2>4, GrownOk
  <2>6. g.at = n + 1 /\ n + 1 \in Nat
    BY <1>1, <2>1
  <2>7. tx1[g.at] = t
    BY <2>4, <2>6 DEF Retold
  <2>8. Settles(h, n, tx, t, g, n + 1, tx1)
    BY <1>4, <2>1, <2>2, <2>4 DEF Settles
  <2> QED BY <2>1, <2>5, <2>6, <2>7, <2>8
<1> QED BY <1>3, <1>4


(* What an operation leaves when the group may have been closed.            *)
LEMMA CommitBuffer ==
  ASSUME NEW l \in Seq(Bytes), NEW n \in Nat, NEW tx, NEW T, NEW a, TreeOk(T, n, tx, a),
         NEW b \in Drafts(l, tx[a], T, a), NEW d, d = Commit(b),
         NEW tx1, tx1 = TextsOf(tx, d.history.tree, b.text)
  PROVE  /\ \E n1 \in Nat : TextOk(d, l, tx1, n1) /\ Settles(b.history, n, tx, b.text, d.history, n1, tx1)
         /\ d.text = b.text /\ d.epoch = b.epoch /\ d.changes = b.changes /\ d.history = Committed(b.history)
         /\ d.history.undo = <<>> /\ tx1[d.history.at] = d.text
<1>h. PICK h : h = b.history
  OBVIOUS
<1>g. PICK g : g = Committed(h)
  OBVIOUS
<1>1. /\ b = [text |-> b.text, epoch |-> b.epoch, changes |-> b.changes, history |-> h]
      /\ b.text \in Whole /\ b.text \in Seq(Bytes) /\ b.epoch \in Nat /\ Accounts(l, b.changes, b.text)
      /\ h = [tree |-> T, at |-> a, undo |-> h.undo, redo |-> h.redo]
      /\ Leads(tx[a], h.undo, h.redo, b.text)
  BY <1>h, DraftIs
<1>2. d = [text |-> b.text, epoch |-> b.epoch, changes |-> b.changes, history |-> g]
  BY <1>1, <1>g, <1>h DEF Commit
<1>3. d.history = g /\ d.text = b.text
  BY <1>2
<1>4. PICK n1 \in Nat : /\ Settles(h, n, tx, b.text, g, n1, tx1)
                        /\ TreeOk(g.tree, n1, tx1, g.at) /\ tx1[g.at] = b.text
                        /\ g = [tree |-> g.tree, at |-> g.at, undo |-> <<>>, redo |-> <<>>]
  <2>1. tx1 = TextsOf(tx, g.tree, b.text)
    BY <1>3
  <2> QED BY <1>1, <1>g, <2>1, CommitOk
<1>5. Leads(tx1[g.at], <<>>, <<>>, b.text)
  BY <1>1, <1>4, NoOps
<1>6. d \in Drafts(l, tx1[g.at], g.tree, g.at)
  BY <1>1, <1>2, <1>4, <1>5, IsDraft
<1>7. TextOk(d, l, tx1, n1)
  BY <1>3, <1>4, <1>6 DEF TextOk
<1>8. g.undo = <<>>
  BY <1>4
<1> QED BY <1>2, <1>3, <1>4, <1>7, <1>8, <1>g, <1>h

(* A move shows the text of the revision it reaches.                        *)
LEMMA MoveBuffer ==
  ASSUME NEW l \in Seq(Bytes), NEW n \in Nat, NEW tx, NEW T, NEW a, TreeOk(T, n, tx, a),
         NEW b \in Drafts(l, tx[a], T, a), NEW k \in 0..n, NEW d, d = Travelled(b, k),
         NEW tx1, tx1 = TextsOf(tx, d.history.tree, b.text)
  PROVE  /\ \E n1 \in Nat : \E g :
              /\ TextOk(d, l, tx1, n1) /\ Settles(b.history, n, tx, b.text, g, n1, tx1)
              /\ n1 >= n /\ Shaped(g.tree, n1) /\ g.at \in 0..n1 /\ Rerouted(d.history.tree, g.tree, n1, g.at, k)
         /\ d.history.at = k /\ d.history.undo = <<>> /\ d.text = tx[k] /\ tx1[k] = tx[k]
         /\ d.epoch >= b.epoch /\ (d.epoch = b.epoch => d.text = b.text)
<1>h. PICK h : h = b.history
  OBVIOUS
<1>g. PICK g : g = Committed(h)
  OBVIOUS
<1>m. PICK m : m = Moved(g, k)
  OBVIOUS
<1>o. PICK ops : ops = OpsTo(g, k)
  OBVIOUS
<1>t. PICK tx2 : tx2 = TextsOf(tx, g.tree, b.text)
  OBVIOUS
<1>1. /\ b = [text |-> b.text, epoch |-> b.epoch, changes |-> b.changes, history |-> h]
      /\ b.text \in Whole /\ b.text \in Seq(Bytes) /\ b.epoch \in Nat /\ Accounts(l, b.changes, b.text)
      /\ h = [tree |-> T, at |-> a, undo |-> h.undo, redo |-> h.redo]
      /\ Leads(tx[a], h.undo, h.redo, b.text)
  BY <1>h, DraftIs
<1>2. PICK n1 \in Nat : /\ Settles(h, n, tx, b.text, g, n1, tx2)
                        /\ TreeOk(g.tree, n1, tx2, g.at) /\ tx2[g.at] = b.text
                        /\ g = [tree |-> g.tree, at |-> g.at, undo |-> <<>>, redo |-> <<>>]
  BY <1>1, <1>g, <1>t, CommitOk
<1>3. n1 >= n /\ k \in 0..n1 /\ tx2[k] = tx[k]
  BY <1>2 DEF Settles, Retold
<1>4. Shaped(g.tree, n1) /\ Told(g.tree, n1, tx2) /\ g.at \in 0..n1 /\ Trail(g.tree, g.at)
  BY <1>2 DEF TreeOk
<1>5. m = [tree |-> m.tree, at |-> k, undo |-> <<>>, redo |-> <<>>]
  BY <1>2, <1>3, <1>4, <1>m, MovedIs
<1>6. Rerouted(m.tree, g.tree, n1, g.at, k)
  BY <1>2, <1>3, <1>4, <1>m, MovedIs
<1>7. TreeOk(m.tree, n1, tx2, k)
  BY <1>2, <1>3, <1>6, MovedOk
<1>8. ops \in Seq(Ops) /\ After(b.text, ops) = tx2[k]
  <2>1. OpsTo(g, k) \in Seq(Ops) /\ After(tx2[g.at], OpsTo(g, k)) = tx2[k]
    BY <1>3, <1>4, OpsReach
  <2> QED BY <1>2, <1>o, <2>1
<1>9. tx2[k] \in Whole /\ tx2[k] \in Seq(Bytes) /\ tx2 \in [0..n1 -> Whole]
  BY <1>3, <1>4 DEF Told, Whole
<1>u. PICK u : u = tx2[k]
  OBVIOUS
<1>10. /\ d = [text |-> u, epoch |-> b.epoch + Len(ops), changes |-> d.changes, history |-> m]
       /\ Accounts(l, d.changes, u)
  BY <1>1, <1>8, <1>9, <1>g, <1>m, <1>o, <1>u, Arrives
<1>11. d.text = u /\ d.history = m /\ d.epoch = b.epoch + Len(ops)
  BY <1>10
<1>12. tx1 = tx2
  <2>1. DOMAIN d.history.tree = DOMAIN g.tree
    BY <1>4, <1>6, <1>11 DEF Rerouted, Shaped
  <2> QED BY <2>1, <1>t DEF TextsOf
<1>13. m.undo = <<>> /\ m.at = k
  BY <1>5
<1>14. Leads(tx1[k], <<>>, <<>>, u)
  BY <1>9, <1>12, <1>u, NoOps
<1>15. Len(ops) \in Nat /\ b.epoch + Len(ops) \in Nat /\ b.epoch + Len(ops) >= b.epoch
       /\ (b.epoch + Len(ops) = b.epoch => Len(ops) = 0)
  BY <1>1, <1>8
<1>16. d \in Drafts(l, tx1[k], m.tree, k)
  BY <1>5, <1>9, <1>10, <1>14, <1>15, <1>u, IsDraft
<1>17. TextOk(d, l, tx1, n1)
  BY <1>7, <1>11, <1>12, <1>13, <1>16 DEF TextOk
<1>18. d.epoch = b.epoch => d.text = b.text
  <2>1. Len(ops) = 0 => ops = <<>>
    BY <1>8, EmptySeq
  <2>2. b.text \in Shows
    BY <1>1 DEF Shows
  <2>3. After(b.text, <<>>) = b.text
    BY <2>2, AfterType, <1>8
  <2> QED BY <1>8, <1>11, <1>15, <1>u, <2>1, <2>3
<1> QED BY <1>2, <1>3, <1>4, <1>6, <1>11, <1>12, <1>13, <1>15, <1>17, <1>18, <1>h, <1>u

(* A text opened anew.                                                      *)
LEMMA FreshBuffer ==
  ASSUME NEW w \in Whole, NEW l \in Seq(Bytes), NEW j, Accounts(l, j, w), NEW e \in Nat,
         NEW d, d = [text |-> w, epoch |-> e, changes |-> j, history |-> NewHistory],
         NEW tx, tx = [k \in {0} |-> w]
  PROVE  TextOk(d, l, tx, 0)
<1>1. 0..0 = {0}
  OBVIOUS
<1>2. NewHistory = [tree |-> NewHistory.tree, at |-> 0, undo |-> <<>>, redo |-> <<>>]
  BY DEF NewHistory
<1>T. PICK T : T = NewHistory.tree
  OBVIOUS
<1>3. T = [k \in {0} |-> Root] /\ T[0] = Root
  BY <1>T DEF NewHistory
<1>4. Root \in Revisions /\ Root.parent = 0 /\ Root.last = 0
  <2>1. <<>> \in Seq(Ops)
    OBVIOUS
  <2> QED BY <2>1 DEF Root, Revisions
<1>5. Shaped(T, 0)
  BY <1>1, <1>3, <1>4 DEF Shaped
<1>6. tx \in [0..0 -> Whole] /\ tx[0] = w
  BY <1>1
<1>7. Told(T, 0, tx)
  BY <1>6 DEF Told
<1>8. Trail(T, 0)
  <2>1. Above(T, 0) = {0}
    BY <1>5, ShapedParents, AboveIs
  <2> QED BY <2>1 DEF Trail
<1>9. TreeOk(T, 0, tx, 0)
  BY <1>1, <1>5, <1>7, <1>8 DEF TreeOk
<1>10. Leads(tx[0], <<>>, <<>>, w)
  BY <1>6, NoOps DEF Whole
<1>11. d \in Drafts(l, tx[0], T, 0)
  BY <1>2, <1>10, <1>T, IsDraft
<1>12. d.history.tree = T /\ d.history.at = 0
  BY <1>2, <1>T
<1> QED BY <1>9, <1>11, <1>12 DEF TextOk

(* Files hold whole characters.                                             *)
LEMMA WholeFiles ==
  ASSUME NEW w \in Files
  PROVE  w \in Whole
  BY TextConstants DEF Whole

(* A replacement of everything.                                             *)
LEMMA OverwrittenIs ==
  ASSUME NEW t \in Seq(Bytes), NEW w \in Seq(Bytes), NEW r, r = Replacement(0, Len(t), w)
  PROVE  Fitting(t, r) /\ Substitute(t, r) = w
<1>1. r.start = 0 /\ r.end = Len(t) /\ r.text = w /\ Len(t) \in Nat
  BY DEF Replacement
<1>2. Fitting(t, r)
  BY <1>1 DEF Fitting
<1>3. SubSeq(t, 1, 0) = <<>> /\ SubSeq(t, Len(t) + 1, Len(t)) = <<>>
  BY <1>1
<1>4. <<>> \o w \o <<>> = w
  OBVIOUS
<1> QED BY <1>1, <1>2, <1>3, <1>4 DEF Substitute

(* A reload starts a new history and is one change to the lease.            *)
LEMMA ReloadBuffer ==
  ASSUME NEW l, NEW t0, NEW T, NEW a, l \in Seq(Bytes), NEW b \in Drafts(l, t0, T, a),
         NEW w \in Whole, NEW d, d = Snapshotted(b, w), NEW tx, tx = [k \in {0} |-> w]
  PROVE  /\ TextOk(d, l, tx, 0) /\ d.text = w /\ d.epoch = b.epoch + 1
         /\ d.history = NewHistory
<1>1. /\ b = [text |-> b.text, epoch |-> b.epoch, changes |-> b.changes, history |-> b.history]
      /\ b.text \in Seq(Bytes) /\ b.epoch \in Nat /\ Accounts(l, b.changes, b.text)
  BY DraftIs, SMTT(60)
<1>2. w \in Seq(Bytes)
  BY DEF Whole
<1>r. PICK r : r = Replacement(0, Len(b.text), w)
  OBVIOUS
<1>j. PICK more : more = Append(b.changes, Change(b.text, r))
  OBVIOUS
<1>3. Fitting(b.text, r) /\ Substitute(b.text, r) = w
  BY <1>1, <1>2, <1>r, OverwrittenIs
<1>4. Published(b, r) = [text |-> w, epoch |-> b.epoch + 1, changes |-> more, history |-> b.history]
  BY <1>1, <1>3, <1>j, PublishedIs
<1>5. d = [text |-> w, epoch |-> b.epoch + 1, changes |-> more, history |-> NewHistory]
  BY <1>4, <1>r DEF Snapshotted
<1>6. Accounts(l, more, w)
  <2>1. Accounts(l, Append(b.changes, Change(b.text, r)), Substitute(b.text, r))
    BY <1>1, <1>3, AccountsExtends
  <2> QED BY <1>3, <1>j, <2>1
<1>7. b.epoch + 1 \in Nat
  BY <1>1
<1>8. TextOk(d, l, tx, 0)
  BY <1>5, <1>6, <1>7, FreshBuffer
<1> QED BY <1>5, <1>8


(* What a snapshot keeps of a node.                                         *)
Node(tree, c) == [undo |-> tree[c].undo, redo |-> tree[c].redo]

(* The elements of a sequence.                                              *)
LEMMA ElementOf ==
  ASSUME NEW S, NEW s \in Seq(S), NEW i \in 1..Len(s)
  PROVE  s[i] \in S
  OBVIOUS

(* The nodes that were there before a node was added.                       *)
LEMMA GrowsAt ==
  ASSUME NEW T2, NEW tree, NEW n, NEW at, NEW undo, NEW redo, Grows(T2, tree, n, at, undo, redo), NEW c \in 0..n
  PROVE  /\ T2[c].parent = tree[c].parent /\ T2[c].undo = tree[c].undo /\ T2[c].redo = tree[c].redo
         /\ T2[c].last = IF c = at THEN n + 1 ELSE tree[c].last
<1>1. T2[c] = [parent |-> tree[c].parent, last |-> IF c = at THEN n + 1 ELSE tree[c].last,
               undo |-> tree[c].undo, redo |-> tree[c].redo]
  BY DEF Grows
<1> QED BY <1>1

(* The way up to the root, element by element.                              *)
LEMMA ChainsOf ==
  ASSUME NEW tree, NEW n, Parents(tree, n), NEW k \in 0..n, NEW line, line = Chain(tree, k)
  PROVE  /\ Climbs(line, tree, n, k) /\ Len(line) \in Nat \ {0}
         /\ \A i \in 1..Len(line) : line[i] \in 0..n
         /\ \A i \in 1..(Len(line) - 1) : line[i] \in 1..n /\ line[i + 1] = tree[line[i]].parent
<1>1. Climbs(line, tree, n, k)
  BY ChainClimbs
<1>2. Len(line) \in Nat \ {0} /\ line \in Seq(0..n)
  BY <1>1 DEF Climbs
<1>3. \A i \in 1..Len(line) : line[i] \in 0..n
  BY <1>2, ElementOf
<1>4. \A i \in 1..(Len(line) - 1) : line[i] \in 1..n /\ line[i + 1] = tree[line[i]].parent
  BY <1>1 DEF Climbs
<1> QED BY <1>1, <1>2, <1>3, <1>4

(* Path holds the nodes on the way to the root, newest first.               *)
LEMMA PathIs ==
  ASSUME NEW tree, NEW n, Shaped(tree, n), NEW at \in 0..n, NEW undo, NEW redo,
         NEW h, h = [tree |-> tree, at |-> at, undo |-> undo, redo |-> redo],
         NEW g, g = Committed(h), NEW n1, Shaped(g.tree, n1), g.at \in 0..n1,
         NEW line, line = Chain(g.tree, g.at), NEW path, path = Path(h)
  PROVE  /\ path = [i \in 1..(Len(line) - 1) |-> path[i]]
         /\ \A i \in 1..(Len(line) - 1) : path[i] = Node(g.tree, line[i])
         /\ \A i \in 1..(Len(line) - 1) : line[i + 1] \in 0..n
<1>1. Parents(tree, n) /\ Parents(g.tree, n1) /\ n \in Nat
  BY ShapedParents DEF Shaped
<1>up. PICK up : up = Chain(tree, at)
  OBVIOUS
<1>2. /\ Len(up) \in Nat \ {0} /\ \A i \in 1..Len(up) : up[i] \in 0..n
      /\ up \in Seq(0..n)
  BY <1>1, <1>up, ChainsOf DEF Climbs
<1>no. PICK nodes : nodes = [i \in 1..(Len(up) - 1) |-> [undo |-> tree[up[i]].undo, redo |-> tree[up[i]].redo]]
  OBVIOUS
<1>3. CASE undo = <<>>
  <2>1. g = h
    BY <1>3, CommittedIs
  <2>2. line = up
    BY <1>up, <2>1
  <2>3. path = nodes
    BY <1>3, <1>no, <1>up DEF Path
  <2>4. \A i \in 1..(Len(up) - 1) : i + 1 \in 1..Len(up)
    BY <1>2
  <2>5. g.tree = tree
    BY <2>1
  <2> QED BY <1>2, <1>no, <2>2, <2>3, <2>4, <2>5 DEF Node
<1>4. CASE undo # <<>>
  <2>1. g = [tree |-> g.tree, at |-> n + 1, undo |-> <<>>, redo |-> <<>>]
    BY <1>4, CommittedIs
  <2>2. Grows(g.tree, tree, n, at, undo, redo)
    BY <1>4, CommittedIs
  <2>3. g.at = n + 1 /\ n + 1 \in 1..n1
    BY <1>1, <2>1
  <2>4. g.tree[n + 1].parent = at /\ g.tree[n + 1].undo = undo /\ g.tree[n + 1].redo = redo
    BY <2>2 DEF Grows
  <2>5. line = <<n + 1>> \o Chain(g.tree, at)
    <3>1. ChainStep(g.tree, n + 1)
      BY <1>1, <2>3, ChainIs
    <3>2. n + 1 # 0
      BY <1>1
    <3> QED BY <2>3, <2>4, <3>1, <3>2 DEF ChainStep
  <2>6. Chain(g.tree, at) = up
    <3>1. ASSUME NEW k \in 1..n PROVE tree[k].parent = g.tree[k].parent
      <4>1. k \in 0..n
        BY <1>1
      <4> QED BY <2>2, <4>1, GrowsAt
    <3>2. n <= n1
      <4>1. n1 \in Nat
        BY <1>1 DEF Parents
      <4> QED BY <1>1, <2>3, <4>1
    <3>3. Chain(tree, at) = Chain(g.tree, at)
      BY <1>1, <3>1, <3>2, SameChains
    <3> QED BY <1>up, <3>3
  <2>7. /\ Len(line) = Len(up) + 1 /\ line[1] = n + 1
        /\ \A i \in 1..Len(up) : line[i + 1] = up[i]
    <3>1. n1 \in Nat /\ n + 1 \in 0..n1
      BY <1>1, <2>3 DEF Parents
    <3>2. up \in Seq(0..n1)
      BY <1>1, <1>2, <3>1
    <3>3. line = <<n + 1>> \o up
      BY <2>5, <2>6
    <3> QED BY <3>1, <3>2, <3>3, Consed, SMTT(60)
  <2>n. PICK first : first = [undo |-> undo, redo |-> redo]
    OBVIOUS
  <2>8. path = <<first>> \o nodes
    <3>1. h.undo = undo /\ h.redo = redo /\ h.tree = tree /\ h.at = at
      OBVIOUS
    <3> QED BY <1>4, <1>no, <1>up, <2>n, <3>1 DEF Path
  <2>s. PICK N : N = {first} \union {nodes[i] : i \in 1..(Len(up) - 1)}
    OBVIOUS
  <2>9. nodes \in Seq(N) /\ Len(nodes) = Len(up) - 1 /\ first \in N
    <3>1. \A i \in 1..(Len(up) - 1) : nodes[i] \in N
      BY <2>s
    <3>2. Len(up) - 1 \in Nat
      BY <1>2
    <3>3. nodes = [i \in 1..(Len(up) - 1) |-> nodes[i]]
      BY <1>no
    <3> QED BY <2>s, <3>1, <3>2, <3>3
  <2>10. /\ path \in Seq(N)
         /\ Len(path) = Len(nodes) + 1 /\ path[1] = first
         /\ \A i \in 1..Len(nodes) : path[i + 1] = nodes[i]
    <3>1. path \in Seq(N)
      BY <2>8, <2>9, Consed
    <3>2. Len(path) = Len(nodes) + 1
      BY <2>8, <2>9, Consed
    <3>3. path[1] = first
      BY <2>8, <2>9, Consed
    <3>4. \A i \in 1..Len(nodes) : path[i + 1] = nodes[i]
      BY <2>8, <2>9, Consed
    <3> QED BY <3>1, <3>2, <3>3, <3>4
  <2>11. Len(line) - 1 = Len(up) /\ Len(path) = Len(up)
    BY <1>2, <2>7, <2>9, <2>10
  <2>12. ASSUME NEW i \in 1..Len(up) PROVE path[i] = Node(g.tree, line[i])
    <3>1. CASE i = 1
      BY <2>4, <2>7, <2>10, <2>n, <3>1 DEF Node
    <3>2. CASE i # 1
      <4>1. i - 1 \in 1..(Len(up) - 1) /\ (i - 1) + 1 = i /\ i - 1 \in 1..Len(up)
        BY <1>2, <3>2
      <4>2. path[i] = nodes[i - 1] /\ line[i] = up[i - 1]
        BY <2>7, <2>9, <2>10, <4>1
      <4>3. up[i - 1] \in 0..n
        BY <1>2, <4>1
      <4>4. g.tree[up[i - 1]].undo = tree[up[i - 1]].undo /\ g.tree[up[i - 1]].redo = tree[up[i - 1]].redo
        <5>1. PICK c : c = up[i - 1]
          OBVIOUS
        <5>2. c \in 0..n
          BY <4>3, <5>1
        <5>3. g.tree[c].undo = tree[c].undo /\ g.tree[c].redo = tree[c].redo
          BY <2>2, <5>2, GrowsAt
        <5> QED BY <5>1, <5>3
      <4> QED BY <1>no, <4>1, <4>2, <4>4 DEF Node
    <3> QED BY <3>1, <3>2
  <2>13. path = [i \in 1..Len(up) |-> path[i]]
    BY <2>10, <2>11
  <2>14. path = [i \in 1..(Len(line) - 1) |-> path[i]]
    BY <2>11, <2>13
  <2>15. ASSUME NEW i \in 1..(Len(line) - 1) PROVE path[i] = Node(g.tree, line[i]) /\ line[i + 1] \in 0..n
    <3>1. i \in 1..Len(up)
      BY <2>11
    <3>2. line[i + 1] = up[i] /\ up[i] \in 0..n
      BY <1>2, <2>7, <3>1
    <3>3. path[i] = Node(g.tree, line[i])
      BY <2>12, <3>1
    <3> QED BY <3>2, <3>3
  <2> QED BY <2>14, <2>15
<1> QED BY <1>3, <1>4

(* Some prefix is the longest that fits.                                    *)
LEMMA LongestIs ==
  ASSUME NEW steps, Len(steps) \in Nat
  PROVE  \E m \in 0..Len(steps) : Longest(steps) = SubSeq(steps, 1, m)
<1> DEFINE n == Len(steps)
           Ends(m) == Fits(steps, m) /\ (m < n => ~Fits(steps, m + 1))
<1>1. Fits(steps, 0)
  <2>1. PICK run : run = [i \in 0..0 |-> 0]
    OBVIOUS
  <2>2. SumsUp(run, steps, 0)
    BY <2>1 DEF SumsUp
  <2>3. TotalSize(steps, 0) = run[0]
    BY <2>2, TotalSizeRun
  <2>4. run[0] = 0
    BY <2>1
  <2>5. UndoCap \in Nat /\ UndoBytes \in Nat
    BY TextConstants
  <2> QED BY <2>3, <2>4, <2>5 DEF Fits
<1>2. \E m \in 0..n : Ends(m)
  <2>1. SUFFICES ASSUME \A m \in 0..n : ~Ends(m) PROVE FALSE
    OBVIOUS
  <2> DEFINE S == {i \in Nat : i <= n => Fits(steps, i)}
  <2>2. 0 \in S
    BY <1>1
  <2>3. ASSUME NEW i \in Nat, i \in S PROVE i + 1 \in S
    <3>1. i + 1 <= n => i \in 0..n /\ i < n /\ i <= n
      OBVIOUS
    <3> QED BY <2>1, <2>3, <3>1
  <2>4. Nat \subseteq S
    <3> HIDE DEF S
    <3> QED BY <2>2, <2>3, Induction
  <2>5. Ends(n)
    BY <2>4
  <2> QED BY <2>1, <2>5
<1>3. PICK m : m = CHOOSE i \in 0..n : Ends(i)
  OBVIOUS
<1>4. m \in 0..n
  <2> HIDE DEF Ends
  <2> QED BY <1>2, <1>3
<1>5. Longest(steps) = SubSeq(steps, 1, m)
  BY <1>3 DEF Longest
<1> QED BY <1>4, <1>5

(* S is a straight history: the newest m nodes of the way line, oldest      *)
(* first.                                                                   *)
Straight(S, m, tree, line) ==
  /\ S = [k \in 0..m |-> S[k]]
  /\ \A k \in 0..m :
       S[k] = [parent |-> IF k = 0 THEN 0 ELSE k - 1, last |-> IF k = m THEN 0 ELSE k + 1,
               undo |-> IF k = 0 THEN <<>> ELSE tree[line[m + 1 - k]].undo,
               redo |-> IF k = 0 THEN <<>> ELSE tree[line[m + 1 - k]].redo]

(* Reverse, element by element.                                             *)
LEMMA ReverseIs ==
  ASSUME NEW s, NEW m \in Nat, s = [i \in 1..m |-> s[i]], NEW r, r = Reverse(s)
  PROVE  Len(r) = m /\ \A k \in 1..m : r[k] = s[(m - k) + 1]
<1>1. Len(s) = m
  OBVIOUS
<1>2. r = [i \in 1..m |-> s[(m - i) + 1]]
  BY <1>1 DEF Reverse
<1> QED BY <1>2, SMTT(60)

(* A snapshot is the newest part of the path that fits, as a straight       *)
(* history.                                                                 *)
LEMMA SnapshotIs ==
  ASSUME NEW tree, NEW n, Shaped(tree, n), NEW at \in 0..n, NEW undo, NEW redo,
         NEW h, h = [tree |-> tree, at |-> at, undo |-> undo, redo |-> redo],
         NEW g, g = Committed(h), NEW n1, Shaped(g.tree, n1), g.at \in 0..n1,
         NEW line, line = Chain(g.tree, g.at), NEW s, s = Snapshot(h)
  PROVE  /\ s = [tree |-> s.tree, at |-> s.at, undo |-> <<>>, redo |-> <<>>]
         /\ s.at \in 0..(Len(line) - 1)
         /\ Straight(s.tree, s.at, g.tree, line)
<1>p. PICK path : path = Path(h)
  OBVIOUS
<1>1. path = [i \in 1..(Len(line) - 1) |-> path[i]]
  BY <1>p, PathIs
<1>2. \A i \in 1..(Len(line) - 1) : path[i] = Node(g.tree, line[i])
  BY <1>p, PathIs
<1>3. Len(line) \in Nat \ {0}
  BY ShapedParents, ChainsOf
<1>4. Len(path) = Len(line) - 1 /\ Len(line) - 1 \in Nat
  BY <1>1, <1>3
<1>5. PICK m \in 0..Len(path) : Longest(path) = SubSeq(path, 1, m)
  BY <1>4, LongestIs
<1>k. PICK kept : kept = Kept(h)
  OBVIOUS
<1>6. kept = [i \in 1..m |-> path[i]] /\ m \in Nat /\ \A i \in 1..m : kept[i] = path[i]
  <2>1. kept = SubSeq(path, 1, m)
    BY <1>5, <1>k, <1>p DEF Kept
  <2>2. path \in Seq({path[i] : i \in 1..(Len(line) - 1)})
    BY <1>1, <1>3
  <2>3. SubSeq(path, 1, m) = [i \in 1..m |-> path[i]]
    BY <2>2, <1>4, <1>5
  <2> QED BY <2>1, <2>3
<1>r. PICK steps : steps = Reverse(kept)
  OBVIOUS
<1>7. Len(steps) = m
  BY <1>6, <1>r, ReverseIs
<1>8. \A k \in 1..m : steps[k] = kept[(m - k) + 1]
  BY <1>6, <1>r, ReverseIs, SMTT(60)
<1>t. PICK S : S = [k \in 0..m |->
                   [parent |-> IF k = 0 THEN 0 ELSE k - 1, last |-> IF k = m THEN 0 ELSE k + 1,
                    undo |-> IF k = 0 THEN <<>> ELSE steps[k].undo,
                    redo |-> IF k = 0 THEN <<>> ELSE steps[k].redo]]
  OBVIOUS
<1>9. s = [tree |-> S, at |-> m, undo |-> <<>>, redo |-> <<>>]
  BY <1>k, <1>r, <1>t, <1>7 DEF Snapshot
<1>10. s.at = m /\ s.tree = S
  BY <1>9
<1>11. ASSUME NEW k \in 1..m
       PROVE  steps[k].undo = g.tree[line[m + 1 - k]].undo /\ steps[k].redo = g.tree[line[m + 1 - k]].redo
  <2>1. (m - k) + 1 \in 1..m /\ m + 1 - k = (m - k) + 1 /\ (m - k) + 1 \in 1..(Len(line) - 1)
    BY <1>4, <1>5
  <2>i. PICK i : i = (m - k) + 1
    OBVIOUS
  <2>3. i \in 1..m /\ i \in 1..(Len(line) - 1) /\ m + 1 - k = i
    BY <2>1, <2>i
  <2>4. steps[k] = kept[i]
    BY <1>8, <2>i
  <2>2. steps[k] = Node(g.tree, line[m + 1 - k])
    BY <1>2, <1>6, <2>3, <2>4
  <2> QED BY <2>2 DEF Node
<1>12. \A k \in 0..m : k # 0 => k \in 1..m
  BY <1>6
<1>13. Straight(s.tree, m, g.tree, line)
  <2>1. S = [k \in 0..m |-> S[k]]
    BY <1>t
  <2>2. ASSUME NEW k \in 0..m
        PROVE  S[k] = [parent |-> IF k = 0 THEN 0 ELSE k - 1, last |-> IF k = m THEN 0 ELSE k + 1,
                       undo |-> IF k = 0 THEN <<>> ELSE g.tree[line[m + 1 - k]].undo,
                       redo |-> IF k = 0 THEN <<>> ELSE g.tree[line[m + 1 - k]].redo]
    <3>1. CASE k = 0
      BY <1>t, <3>1
    <3>2. CASE k # 0
      <4>1. steps[k].undo = g.tree[line[m + 1 - k]].undo /\ steps[k].redo = g.tree[line[m + 1 - k]].redo
        BY <1>11, <1>12, <3>2
      <4> QED BY <1>t, <3>2, <4>1
    <3> QED BY <3>1, <3>2
  <2>3. Straight(S, m, g.tree, line)
    BY <2>1, <2>2 DEF Straight
  <2> QED BY <1>10, <2>3
<1> QED BY <1>4, <1>5, <1>9, <1>10, <1>13


(* The texts of the revisions a session keeps.                              *)
Titles(ts, m, tx, line) ==
  /\ ts = [k \in 0..m |-> ts[k]]
  /\ \A k \in 0..m : ts[k] = tx[line[m + 1 - k]]

(* A node of a straight history.                                            *)
LEMMA StraightAt ==
  ASSUME NEW S, NEW m \in Nat, NEW tree, NEW line, Straight(S, m, tree, line), NEW k \in 1..m,
         NEW c, c = line[m + 1 - k]
  PROVE  /\ S[k].parent = k - 1 /\ S[k].last = (IF k = m THEN 0 ELSE k + 1)
         /\ S[k].undo = tree[c].undo /\ S[k].redo = tree[c].redo
         /\ S[k] = [parent |-> k - 1, last |-> IF k = m THEN 0 ELSE k + 1, undo |-> tree[c].undo, redo |-> tree[c].redo]
<1>1. k \in 0..m /\ k # 0
  OBVIOUS
<1>2. S[k] = [parent |-> k - 1, last |-> IF k = m THEN 0 ELSE k + 1, undo |-> tree[c].undo, redo |-> tree[c].redo]
  BY <1>1 DEF Straight
<1> QED BY <1>2

(* The root of a straight history.                                          *)
LEMMA StraightRoot ==
  ASSUME NEW S, NEW m \in Nat, NEW tree, NEW line, Straight(S, m, tree, line)
  PROVE  S[0] = [parent |-> 0, last |-> IF m = 0 THEN 0 ELSE 1, undo |-> <<>>, redo |-> <<>>]
<1>1. 0 \in 0..m
  OBVIOUS
<1>2. S[0] = [parent |-> 0, last |-> IF 0 = m THEN 0 ELSE 0 + 1, undo |-> <<>>, redo |-> <<>>]
  BY <1>1 DEF Straight
<1>3. (IF 0 = m THEN 0 ELSE 0 + 1) = IF m = 0 THEN 0 ELSE 1
  OBVIOUS
<1> QED BY <1>2, <1>3

(* What a snapshot keeps is a history whose nodes have the texts of those   *)
(* it was taken from.                                                       *)
LEMMA SnapshotOk ==
  ASSUME NEW tree, NEW n, NEW tx, NEW at, TreeOk(tree, n, tx, at),
         NEW line, line = Chain(tree, at), NEW m, m \in 0..(Len(line) - 1),
         NEW S, Straight(S, m, tree, line), NEW ts, Titles(ts, m, tx, line)
  PROVE  TreeOk(S, m, ts, m) /\ ts[m] = tx[at]
<1>1. Shaped(tree, n) /\ at \in 0..n /\ tx \in [0..n -> Whole] /\ Told(tree, n, tx) /\ n \in Nat
  BY DEF TreeOk, Told, Shaped
<1>2. /\ Climbs(line, tree, n, at) /\ Len(line) \in Nat \ {0}
      /\ \A i \in 1..Len(line) : line[i] \in 0..n
      /\ \A i \in 1..(Len(line) - 1) : line[i] \in 1..n /\ line[i + 1] = tree[line[i]].parent
  <2>0. Parents(tree, n)
    BY <1>1, ShapedParents
  <2>1. Climbs(line, tree, n, at)
    BY <1>1, <2>0, ChainsOf
  <2>2. Len(line) \in Nat \ {0}
    BY <1>1, <2>0, ChainsOf
  <2>3. \A i \in 1..Len(line) : line[i] \in 0..n
    BY <1>1, <2>0, ChainsOf
  <2>4. \A i \in 1..(Len(line) - 1) : line[i] \in 1..n /\ line[i + 1] = tree[line[i]].parent
    BY <1>1, <2>0, ChainsOf
  <2> QED BY <2>1, <2>2, <2>3, <2>4
<1>3. m \in Nat /\ m + 1 <= Len(line)
  BY <1>2
<1>4. ASSUME NEW k \in 0..m PROVE ts[k] \in Whole
  <2>1. m + 1 - k \in 1..Len(line)
    BY <1>2, <1>3
  <2>2. PICK c : c = line[m + 1 - k]
    OBVIOUS
  <2>3. c \in 0..n
    BY <1>2, <2>1, <2>2
  <2>4. ts[k] = tx[c]
    BY <2>2 DEF Titles
  <2> QED BY <1>1, <2>3, <2>4
<1>5. ts \in [0..m -> Whole]
  BY <1>4 DEF Titles
<1>6. ASSUME NEW k \in 1..m
      PROVE  /\ S[k] \in Revisions /\ S[k].parent = k - 1 /\ S[k].undo # <<>>
             /\ Leads(ts[S[k].parent], S[k].undo, S[k].redo, ts[k])
  <2>1. PICK c : c = line[m + 1 - k]
    OBVIOUS
  <2>i. PICK i : i = m + 1 - k
    OBVIOUS
  <2>2. i \in 1..(Len(line) - 1) /\ k - 1 \in 0..m /\ k \in 0..m
    BY <1>2, <1>3, <2>i
  <2>3. c \in 1..n /\ c \in 0..n /\ line[i + 1] = tree[c].parent
    BY <1>1, <1>2, <2>1, <2>2, <2>i
  <2>4. ts[k] = tx[c]
    BY <2>1, <2>2 DEF Titles
  <2>5. ts[k - 1] = tx[tree[c].parent]
    <3>1. ts[k - 1] = tx[line[m + 1 - (k - 1)]]
      BY <2>2 DEF Titles
    <3>2. m + 1 - (k - 1) = i + 1
      BY <1>3, <2>i
    <3> QED BY <2>3, <3>1, <3>2
  <2>6. tree[c].undo # <<>> /\ Leads(tx[tree[c].parent], tree[c].undo, tree[c].redo, tx[c])
    BY <1>1, <2>3 DEF Told
  <2>7. tree[c].undo \in Seq(Ops) /\ tree[c].redo \in Seq(Ops)
    BY <1>1, <2>3, ShapedRevision
  <2>8. /\ S[k].parent = k - 1 /\ S[k].undo = tree[c].undo /\ S[k].redo = tree[c].redo
        /\ S[k] = [parent |-> k - 1, last |-> IF k = m THEN 0 ELSE k + 1, undo |-> tree[c].undo, redo |-> tree[c].redo]
    BY <1>3, <2>1, StraightAt
  <2>9. S[k] \in Revisions
    <3>1. k - 1 \in Nat /\ (IF k = m THEN 0 ELSE k + 1) \in Nat
      BY <1>3
    <3> QED BY <2>7, <2>8, <3>1 DEF Revisions
  <2> QED BY <2>4, <2>5, <2>6, <2>8, <2>9
<1>7. S[0] \in Revisions /\ S[0].parent = 0
  <2>1. <<>> \in Seq(Ops)
    OBVIOUS
  <2>2. S[0] = [parent |-> 0, last |-> IF m = 0 THEN 0 ELSE 1, undo |-> <<>>, redo |-> <<>>]
    BY <1>3, StraightRoot
  <2> QED BY <2>1, <2>2 DEF Revisions
<1>8. S \in [0..m -> Revisions]
  <2>1. ASSUME NEW k \in 0..m PROVE S[k] \in Revisions
    <3>1. k = 0 \/ k \in 1..m
      BY <1>3
    <3> QED BY <1>6, <1>7, <3>1
  <2> QED BY <2>1 DEF Straight
<1>9. ASSUME NEW k \in 0..m, S[k].last # 0 PROVE S[k].last \in 1..m /\ S[S[k].last].parent = k
  <2>1. S[k].last = IF k = m THEN 0 ELSE k + 1
    <3>1. CASE k = 0
      <4>1. S[0] = [parent |-> 0, last |-> IF m = 0 THEN 0 ELSE 1, undo |-> <<>>, redo |-> <<>>]
        BY <1>3, StraightRoot
      <4>2. S[0].last = IF m = 0 THEN 0 ELSE 1
        BY <4>1
      <4> QED BY <1>3, <3>1, <4>2
    <3>2. CASE k # 0
      <4>1. k \in 1..m
        BY <1>3, <3>2
      <4> QED BY <1>3, <4>1, StraightAt, ZenonT(60)
    <3> QED BY <3>1, <3>2
  <2>2. k # m /\ S[k].last = k + 1 /\ k + 1 \in 1..m
    BY <1>3, <1>9, <2>1
  <2>3. S[k + 1].parent = (k + 1) - 1
    BY <1>6, <2>2
  <2>4. (k + 1) - 1 = k
    OBVIOUS
  <2> QED BY <2>2, <2>3, <2>4
<1>10. \A k \in 1..m : S[k].parent < k
  <2>1. ASSUME NEW k \in 1..m PROVE S[k].parent < k
    <3>1. S[k].parent = k - 1 /\ k - 1 < k
      BY <1>6
    <3> QED BY <3>1
  <2> QED BY <2>1
<1>11. Shaped(S, m)
  BY <1>3, <1>7, <1>8, <1>9, <1>10 DEF Shaped
<1>12. Told(S, m, ts)
  BY <1>5, <1>6 DEF Told
<1>13. Trail(S, m)
  <2>1. ASSUME NEW c \in Above(S, m) \ {0} PROVE S[S[c].parent].last = c
    <3>1. c \in 1..m
      <4>1. Ascends(S, m)
        BY <1>3, <1>11, ShapedParents, AboveAscends
      <4> QED BY <1>3, <4>1 DEF Ascends
    <3>2. S[c].parent = c - 1
      BY <1>6, <3>1
    <3>3. S[c - 1].last = c
      <4>1. CASE c = 1
        <5>1. S[0] = [parent |-> 0, last |-> IF m = 0 THEN 0 ELSE 1, undo |-> <<>>, redo |-> <<>>]
          BY <1>3, StraightRoot
        <5>2. S[0].last = 1 /\ c - 1 = 0
          BY <1>3, <3>1, <4>1, <5>1
        <5> QED BY <4>1, <5>2
      <4>2. CASE c # 1
        <5>1. c - 1 \in 1..m /\ c - 1 # m
          BY <1>3, <3>1, <4>2
        <5>2. S[c - 1].last = IF c - 1 = m THEN 0 ELSE (c - 1) + 1
          BY <1>3, <5>1, StraightAt, ZenonT(60)
        <5>3. (c - 1) + 1 = c
          BY <3>1
        <5> QED BY <5>1, <5>2, <5>3
      <4> QED BY <4>1, <4>2
    <3> QED BY <3>2, <3>3
  <2> QED BY <2>1 DEF Trail
<1>14. ts[m] = tx[at]
  <2>1. m \in 0..m /\ m + 1 - m = 1
    BY <1>3
  <2>2. ts[m] = tx[line[m + 1 - m]]
    BY <2>1 DEF Titles
  <2>3. line[1] = at
    BY <1>2 DEF Climbs
  <2> QED BY <2>1, <2>2, <2>3
<1>15. m \in 0..m
  BY <1>3
<1> QED BY <1>11, <1>12, <1>13, <1>14, <1>15 DEF TreeOk

(* A history without an open group that ends at the text t.                 *)
Tells(h, n, tx, t) == TreeOk(h.tree, n, tx, h.at) /\ h.undo = <<>> /\ tx[h.at] = t

(* Replaying such a history leads to the text of each of its nodes.         *)
LEMMA Replayed ==
  ASSUME NEW h, NEW n, NEW tx, NEW t, Tells(h, n, tx, t), NEW k \in 0..n
  PROVE  Replay(h, t, k) = tx[k]
<1>0. Shaped(h.tree, n) /\ Told(h.tree, n, tx) /\ h.at \in 0..n /\ h.undo = <<>> /\ tx[h.at] = t
  BY DEF Tells, TreeOk
<1>1. n \in Nat /\ 0 \in 0..n /\ tx \in [0..n -> Whole] /\ t \in Whole
  BY <1>0 DEF Shaped, Told
<1>2. t \in Shows
  BY <1>1 DEF Shows, Whole
<1>3. 0 \in Above(h.tree, h.at) /\ 0 \in Above(h.tree, k)
  <2>1. Ascends(h.tree, h.at) /\ Ascends(h.tree, k)
    BY <1>0, ShapedParents, AboveAscends
  <2> QED BY <2>1 DEF Ascends
<1>u. PICK up : up = UndoneTo(h.tree, 0, h.at)
  OBVIOUS
<1>d. PICK down : down = RedoneFrom(h.tree, 0, k)
  OBVIOUS
<1>4. up \in Seq(Ops)
  BY <1>0, <1>1, <1>u, UndoneToIs
<1>5. down \in Seq(Ops)
  BY <1>0, <1>1, <1>d, RedoneFromIs
<1>6. After(t, up) = tx[0]
  <2>1. After(tx[h.at], up) = tx[0]
    BY <1>0, <1>1, <1>3, <1>u, UndoneToReaches
  <2> QED BY <1>0, <2>1
<1>7. After(tx[0], down) = tx[k]
  BY <1>0, <1>1, <1>3, <1>d, RedoneFromReaches
<1>8. Reverse(h.undo) \o up \o down = up \o down
  <2>1. Reverse(h.undo) = <<>>
    BY <1>0 DEF Reverse
  <2>2. <<>> \o up = up
    BY <1>4
  <2> QED BY <2>1, <2>2
<1>9. Replay(h, t, k) = After(t, up \o down)
  BY <1>8, <1>u, <1>d DEF Replay
<1>10. After(t, up \o down) = After(After(t, up), down)
  BY <1>2, <1>4, <1>5, AfterConcat
<1> QED BY <1>6, <1>7, <1>9, <1>10

(* Such a history passes the validation a session makes before it restores  *)
(* one.                                                                     *)
LEMMA Valid ==
  ASSUME NEW h, NEW n, NEW tx, NEW t, Tells(h, n, tx, t)
  PROVE  ValidFor(h, t)
<1>1. /\ Shaped(h.tree, n) /\ Told(h.tree, n, tx) /\ h.at \in 0..n /\ h.undo = <<>> /\ tx[h.at] = t
      /\ DOMAIN h.tree = 0..n /\ n \in Nat
  BY DEF Tells, TreeOk, Shaped
<1>s. PICK seen : seen = Replays(h, t)
  OBVIOUS
<1>2. \A k \in 0..n : seen[k] = tx[k]
  <2>1. \A k \in 0..n : Replay(h, t, k) = tx[k]
    BY Replayed
  <2> QED BY <1>1, <1>s, <2>1 DEF Replays
<1>3. seen[h.at] = t
  BY <1>1, <1>2
<1>4. ASSUME NEW k \in DOMAIN h.tree \ {0}
      PROVE  seen[k] # Unfit /\ After(seen[k], Reverse(h.tree[k].undo)) = seen[h.tree[k].parent]
  <2>1. k \in 1..n /\ k \in 0..n
    BY <1>1
  <2>2. h.tree[k].parent \in 0..n
    <3>1. h.tree[k].parent \in Nat /\ h.tree[k].parent < k
      BY <1>1, <2>1, ShapedParents DEF Parents
    <3> QED BY <1>1, <2>1, <3>1
  <2>3. Leads(tx[h.tree[k].parent], h.tree[k].undo, h.tree[k].redo, tx[k])
    BY <1>1, <2>1 DEF Told
  <2>4. tx[k] \in Seq(Bytes)
    BY <1>1, <2>1 DEF Told, Whole
  <2>5. seen[k] # Unfit
    BY <1>2, <2>1, <2>4, UnfitIsNoText
  <2>6. After(tx[k], Reverse(h.tree[k].undo)) = tx[h.tree[k].parent]
    BY <2>3 DEF Leads
  <2> QED BY <1>2, <2>1, <2>2, <2>5, <2>6
<1> QED BY <1>1, <1>3, <1>4, <1>s DEF ValidFor


(* The texts of what is kept are those of the path it is taken from.        *)
TitlesKept(h, ts, tx, t) ==
  Titles(ts, Snapshot(h).at, TextsOf(tx, Committed(h).tree, t), Chain(Committed(h).tree, Committed(h).at))

(* The history s, kept of the buffer b whose committed history is live: a   *)
(* straight one, told by ts, that restores the text and replays its path.   *)
Survives(b, s, live, line, tx, ts) ==
  /\ TreeOk(s.tree, s.at, ts, s.at) /\ ts[s.at] = b.text
  /\ s = [tree |-> s.tree, at |-> s.at, undo |-> <<>>, redo |-> <<>>]
  /\ s.at \in 0..(Len(line) - 1) /\ Straight(s.tree, s.at, live.tree, line)
  /\ TitlesKept(b.history, ts, tx, b.text)
  /\ ValidFor(s, b.text)
  /\ \A k \in 0..s.at : Replay(s, b.text, k) = Replay(live, b.text, line[s.at + 1 - k])

(* What a session keeps of a buffer survives.                               *)
LEMMA SnapshotBuffer ==
  ASSUME NEW b, NEW l, NEW tx, NEW n, TextOk(b, l, tx, n),
         NEW s, s = Snapshot(b.history), NEW live, live = Committed(b.history),
         NEW line, line = Chain(live.tree, live.at),
         NEW tx1, tx1 = TextsOf(tx, live.tree, b.text),
         NEW ts, ts = [k \in 0..s.at |-> IF k = s.at THEN b.text ELSE tx[line[s.at + 1 - k]]]
  PROVE  Survives(b, s, live, line, tx, ts)
<1>h. PICK h : h = b.history
  OBVIOUS
<1>T. PICK T : T = h.tree
  OBVIOUS
<1>a. PICK a : a = h.at
  OBVIOUS
<1>0. n \in Nat /\ l \in Seq(Bytes) /\ TreeOk(T, n, tx, a) /\ b \in Drafts(l, tx[a], T, a)
  BY <1>h, <1>T, <1>a DEF TextOk
<1>1. /\ b.text \in Whole /\ h = [tree |-> T, at |-> a, undo |-> h.undo, redo |-> h.redo]
      /\ Leads(tx[a], h.undo, h.redo, b.text)
  BY <1>0, <1>h, DraftIs
<1>2. PICK n1 \in Nat : /\ Settles(h, n, tx, b.text, live, n1, tx1)
                        /\ TreeOk(live.tree, n1, tx1, live.at) /\ tx1[live.at] = b.text
                        /\ live = [tree |-> live.tree, at |-> live.at, undo |-> <<>>, redo |-> <<>>]
  BY <1>0, <1>1, <1>h, CommitOk
<1>3. Shaped(live.tree, n1) /\ live.at \in 0..n1 /\ Told(live.tree, n1, tx1) /\ live.undo = <<>>
  BY <1>2 DEF TreeOk
<1>4. Shaped(T, n) /\ a \in 0..n /\ tx \in [0..n -> Whole]
  BY <1>0 DEF TreeOk, Told
<1>5. s = [tree |-> s.tree, at |-> s.at, undo |-> <<>>, redo |-> <<>>]
  BY <1>1, <1>3, <1>4, <1>h, SnapshotIs
<1>6. s.at \in 0..(Len(line) - 1)
  BY <1>1, <1>3, <1>4, <1>h, SnapshotIs
<1>7. Straight(s.tree, s.at, live.tree, line)
  BY <1>1, <1>3, <1>4, <1>h, SnapshotIs
<1>p. PICK path : path = Path(h)
  OBVIOUS
<1>8. \A i \in 1..(Len(line) - 1) : line[i + 1] \in 0..n
  BY <1>1, <1>3, <1>4, <1>h, <1>p, PathIs
<1>9. Parents(live.tree, n1)
  BY <1>3, ShapedParents
<1>10. Len(line) \in Nat \ {0}
  BY <1>3, <1>9, ChainsOf
<1>11. line[1] = live.at
  <2>1. Climbs(line, live.tree, n1, live.at)
    BY <1>3, <1>9, ChainsOf
  <2> QED BY <2>1 DEF Climbs
<1>12. DOMAIN live.tree = 0..n1
  BY <1>3 DEF Shaped
<1>m. PICK m : m = s.at
  OBVIOUS
<1>13. m \in Nat /\ m + 1 <= Len(line)
  BY <1>6, <1>10, <1>m
<1>14. ASSUME NEW k \in 0..m PROVE ts[k] = tx1[line[m + 1 - k]]
  <2>1. CASE k = m
    <3>1. m + 1 - k = 1
      BY <1>13, <2>1
    <3>2. ts[k] = b.text
      BY <1>m, <2>1, SMTT(60)
    <3> QED BY <1>2, <1>11, <3>1, <3>2
  <2>2. CASE k # m
    <3>1. PICK i : i = m - k
      OBVIOUS
    <3>2. i \in 1..(Len(line) - 1) /\ i + 1 = m + 1 - k
      BY <1>10, <1>13, <2>2, <3>1
    <3>3. PICK c : c = line[m + 1 - k]
      OBVIOUS
    <3>4. c \in 0..n
      BY <1>8, <3>2, <3>3
    <3>5. ts[k] = tx[c]
      BY <1>m, <2>2, <3>3
    <3>6. c \in 0..n1 /\ tx1[c] = tx[c]
      <4>1. c \in 0..n1
        BY <1>0, <1>2, <3>4 DEF Settles
      <4>2. tx1[c] = IF c \in DOMAIN tx THEN tx[c] ELSE b.text
        BY <1>12, <4>1 DEF TextsOf
      <4>3. c \in DOMAIN tx
        BY <1>4, <3>4, SMTT(60)
      <4> QED BY <4>1, <4>2, <4>3
    <3> QED BY <3>3, <3>5, <3>6
  <2> QED BY <2>1, <2>2, SMTT(60)
<1>15. Titles(ts, m, tx1, line)
  BY <1>14, <1>m DEF Titles
<1>16. TreeOk(s.tree, m, ts, m)
  BY <1>2, <1>6, <1>7, <1>15, <1>m, SnapshotOk
<1>17. ts[m] = b.text
  BY <1>13, <1>m
<1>18. s.undo = <<>>
  BY <1>5
<1>19. ValidFor(s, b.text)
  <2>1. Tells(s, m, ts, b.text)
    BY <1>16, <1>17, <1>18, <1>m DEF Tells
  <2> QED BY <2>1, Valid, SMTT(60)
<1>us. PICK us : us = ts
  OBVIOUS
<1>ux. PICK ux : ux = tx1
  OBVIOUS
<1>v. PICK v : v = live
  OBVIOUS
<1>20. us[m] = b.text /\ TreeOk(s.tree, m, us, m) /\ \A k \in 0..m : us[k] = ux[line[m + 1 - k]]
  <2>1. us[m] = b.text
    BY <1>17, <1>us
  <2>2. TreeOk(s.tree, m, us, m)
    BY <1>16, <1>us, SMTT(60)
  <2>3. ASSUME NEW k \in 0..m PROVE us[k] = ux[line[m + 1 - k]]
    <3>1. ts[k] = tx1[line[m + 1 - k]]
      BY <1>14
    <3> QED BY <3>1, <1>us, <1>ux
  <2> QED BY <2>1, <2>2, <2>3, SMTT(60)
<1>21. Shaped(v.tree, n1) /\ Told(v.tree, n1, ux) /\ v.at \in 0..n1 /\ v.undo = <<>> /\ ux[v.at] = b.text
  BY <1>2, <1>3, <1>ux, <1>v
<1>22. ASSUME NEW k \in 0..m PROVE Replay(s, b.text, k) = Replay(live, b.text, line[m + 1 - k])
  <2>1. Replay(s, b.text, k) = us[k]
    <3>1. Shaped(s.tree, m) /\ Told(s.tree, m, us) /\ m \in 0..m
      BY <1>20 DEF TreeOk
    <3>2. PICK t : t = us[s.at]
      OBVIOUS
    <3>3. t = b.text /\ s.at \in 0..m
      BY <1>20, <1>m, <3>1, <3>2
    <3>4. Tells(s, m, us, t)
      BY <1>18, <1>20, <1>m, <3>2 DEF Tells
    <3>5. Replay(s, t, k) = us[k]
      BY <3>4, Replayed
    <3> QED BY <3>3, <3>5
  <2>2. PICK c : c = line[m + 1 - k]
    OBVIOUS
  <2>3. c \in 0..n1
    <3>1. m + 1 - k \in 1..Len(line)
      BY <1>10, <1>13
    <3>2. \A i \in 1..Len(line) : line[i] \in 0..n1
      BY <1>3, <1>9, ChainsOf
    <3> QED BY <2>2, <3>1, <3>2
  <2>4. Replay(v, b.text, c) = ux[c]
    <3>2. PICK t : t = ux[v.at]
      OBVIOUS
    <3>3. t = b.text
      BY <1>21, <3>2
    <3>4. Tells(v, n1, ux, t)
      BY <1>2, <1>21, <1>ux, <1>v, <3>2 DEF Tells
    <3>5. Replay(v, t, c) = ux[c]
      BY <2>3, <3>4, Replayed
    <3> QED BY <3>3, <3>5
  <2>5. us[k] = ux[c]
    BY <1>20, <2>2
  <2>6. Replay(s, b.text, k) = Replay(v, b.text, c)
    BY <2>1, <2>4, <2>5
  <2> QED BY <1>v, <2>2, <2>6
<1>23. TitlesKept(b.history, ts, tx, b.text)
  BY <1>15, <1>m DEF TitlesKept
<1> QED BY <1>5, <1>6, <1>7, <1>16, <1>17, <1>19, <1>22, <1>23, <1>m, Zenon DEF Survives


(* The invariant of the buffer alone.                                       *)
TextInv == restarts \in Nat /\ \E n \in Nat : TextOk(buf, leased, texts, n)

(* No revision that is known changes, and only a new epoch shows a new text. *)
Remembers(b, tx, n, d, ty, n1) ==
  /\ n1 >= n /\ \A k \in 0..n : ty[k] = tx[k] /\ d.history.tree[k].parent = b.history.tree[k].parent

(* The epoch never falls, and the text changes only with it.                *)
Ages(b, d) == d.epoch >= b.epoch /\ (d.epoch = b.epoch => d.text = b.text)

(* What holds of a buffer, one fact at a time.                              *)
LEMMA TextOkIs ==
  ASSUME NEW b, NEW l, NEW tx, NEW n, TextOk(b, l, tx, n), NEW h, h = b.history
  PROVE  /\ n \in Nat /\ l \in Seq(Bytes) /\ TreeOk(h.tree, n, tx, h.at)
         /\ Shaped(h.tree, n) /\ DOMAIN h.tree = 0..n /\ h.at \in 0..n /\ tx \in [0..n -> Whole]
         /\ b.text \in Whole /\ b.text \in Seq(Bytes) /\ b.epoch \in Nat
         /\ b \in Drafts(l, tx[h.at], h.tree, h.at)
         /\ tx[h.at] \in Seq(Bytes)
         /\ b.history = [tree |-> h.tree, at |-> h.at, undo |-> h.undo, redo |-> h.redo]
         /\ b = [text |-> b.text, epoch |-> b.epoch, changes |-> b.changes, history |-> h]
         /\ Accounts(l, b.changes, b.text)
<1>1. n \in Nat /\ l \in Seq(Bytes) /\ TreeOk(h.tree, n, tx, h.at) /\ b \in Drafts(l, tx[h.at], h.tree, h.at)
  BY DEF TextOk
<1>2. Shaped(h.tree, n) /\ DOMAIN h.tree = 0..n /\ h.at \in 0..n /\ tx \in [0..n -> Whole]
  BY <1>1 DEF TreeOk, Shaped, Told
<1>3. tx[h.at] \in Seq(Bytes)
  BY <1>2 DEF Whole
<1>4. /\ b.text \in Whole /\ b.text \in Seq(Bytes) /\ b.epoch \in Nat
      /\ b.history = [tree |-> h.tree, at |-> h.at, undo |-> h.undo, redo |-> h.redo]
      /\ b = [text |-> b.text, epoch |-> b.epoch, changes |-> b.changes, history |-> h]
      /\ Accounts(l, b.changes, b.text)
  BY <1>1, DraftIs
<1> QED BY <1>1, <1>2, <1>3, <1>4

(* A buffer that is not changed may be leased.                              *)
LEMMA IdleBase ==
  ASSUME NEW b, NEW l, NEW tx, NEW n, TextOk(b, l, tx, n), b.changes = <<>>
  PROVE  TextOk(b, b.text, tx, n)
<1>1. b \in Drafts(l, tx[b.history.at], b.history.tree, b.history.at)
  BY DEF TextOk
<1>2. b \in Drafts(b.text, tx[b.history.at], b.history.tree, b.history.at)
  BY <1>1, Rebased
<1>3. b.text \in Seq(Bytes)
  BY <1>1, DraftIs, ZenonT(60)
<1> QED BY <1>2, <1>3 DEF TextOk

(* An edit opens the group or adds to it.                                   *)
Opens(b, tx, d, ty) ==
  /\ d.history.tree = b.history.tree /\ d.history.at = b.history.at /\ ty = tx
  /\ d.history.undo # <<>>

(* An edit keeps what holds of a buffer.                                    *)
LEMMA EditBuffer ==
  ASSUME NEW b, NEW tx, NEW n, TextOk(b, b.text, tx, n), NEW r, Suits(b.text, r), NEW d, d = Edited(b, r),
         NEW t, NEW ty, ty = TextsOf(tx, d.history.tree, t)
  PROVE  /\ TextOk(d, b.text, ty, n) /\ Opens(b, tx, d, ty)
         /\ Remembers(b, tx, n, d, ty, n) /\ Ages(b, d)
<1>a. /\ b \in Drafts(b.text, tx[b.history.at], b.history.tree, b.history.at)
      /\ n \in Nat /\ TreeOk(b.history.tree, n, tx, b.history.at) /\ b.text \in Seq(Bytes)
  BY DEF TextOk
<1>b. b.epoch \in Nat
  BY <1>a, DraftIs
<1>c. tx \in [0..n -> Whole] /\ DOMAIN b.history.tree = 0..n /\ b.history.at \in 0..n
  BY <1>a DEF TreeOk, Shaped, Told
<1>d. tx[b.history.at] \in Seq(Bytes)
  BY <1>c DEF Whole
<1>1. /\ b \in Drafts(b.text, tx[b.history.at], b.history.tree, b.history.at)
      /\ b.text \in Seq(Bytes) /\ b.epoch \in Nat /\ n \in Nat /\ tx[b.history.at] \in Seq(Bytes)
      /\ TreeOk(b.history.tree, n, tx, b.history.at)
      /\ tx \in [0..n -> Whole] /\ DOMAIN b.history.tree = 0..n
  BY <1>a, <1>b, <1>c, <1>d
<1>2. d \in Drafts(b.text, tx[b.history.at], b.history.tree, b.history.at)
  BY <1>1, EditedDraft
<1>3. d.epoch = b.epoch + 1 /\ d.history.undo # <<>>
  BY <1>1, EditedDraft
<1>4. d.history.tree = b.history.tree /\ d.history.at = b.history.at
  BY <1>2 DEF Drafts
<1>5. ty = tx
  BY <1>1, <1>4, TextsStay
<1>6. TextOk(d, b.text, ty, n)
  BY <1>1, <1>2, <1>4, <1>5 DEF TextOk
<1>7. Remembers(b, tx, n, d, ty, n)
  BY <1>1, <1>4, <1>5 DEF Remembers
<1>8. Ages(b, d)
  BY <1>1, <1>3 DEF Ages
<1> QED BY <1>3, <1>4, <1>5, <1>6, <1>7, <1>8 DEF Opens

(* A batch has the effect of all its edits.                                 *)
Effects(b, edits, d) == d.epoch > b.epoch /\ d.text = Replaced(b.text, edits)

(* A batch keeps what holds of a buffer.                                    *)
LEMMA BatchBuffer ==
  ASSUME NEW b, NEW tx, NEW n, TextOk(b, b.text, tx, n), NEW edits, Len(edits) \in Nat \ {0}, BatchOk(edits),
         \A i \in 1..Len(edits) : Suits(b.text, edits[i]), NEW d, d = BatchEdited(b, edits),
         NEW t, NEW ty, ty = TextsOf(tx, d.history.tree, t)
  PROVE  /\ TextOk(d, b.text, ty, n) /\ Opens(b, tx, d, ty)
         /\ Remembers(b, tx, n, d, ty, n) /\ Ages(b, d) /\ Effects(b, edits, d)
<1>a. /\ b \in Drafts(b.text, tx[b.history.at], b.history.tree, b.history.at)
      /\ n \in Nat /\ TreeOk(b.history.tree, n, tx, b.history.at) /\ b.text \in Seq(Bytes)
  BY DEF TextOk
<1>b. b.epoch \in Nat
  BY <1>a, DraftIs
<1>c. tx \in [0..n -> Whole] /\ DOMAIN b.history.tree = 0..n /\ b.history.at \in 0..n
  BY <1>a DEF TreeOk, Shaped, Told
<1>d. tx[b.history.at] \in Seq(Bytes)
  BY <1>c DEF Whole
<1>1. /\ b \in Drafts(b.text, tx[b.history.at], b.history.tree, b.history.at)
      /\ b.text \in Seq(Bytes) /\ b.epoch \in Nat /\ n \in Nat /\ tx[b.history.at] \in Seq(Bytes)
      /\ TreeOk(b.history.tree, n, tx, b.history.at)
      /\ tx \in [0..n -> Whole] /\ DOMAIN b.history.tree = 0..n
  BY <1>a, <1>b, <1>c, <1>d
<1>0. Len(edits) \in Nat /\ Len(edits) > 0
  OBVIOUS
<1>2. d \in Drafts(b.text, tx[b.history.at], b.history.tree, b.history.at)
  BY <1>0, <1>1, BatchGood
<1>3. d.epoch = b.epoch + Len(edits)
  BY <1>0, <1>1, BatchGood
<1>3a. d.history.undo # <<>>
  BY <1>0, <1>1, BatchGood
<1>3b. d.text = Replaced(b.text, edits)
  BY <1>0, <1>1, BatchGood
<1>4. d.history.tree = b.history.tree /\ d.history.at = b.history.at
  BY <1>2 DEF Drafts
<1>5. ty = tx
  BY <1>1, <1>4, TextsStay
<1>6. TextOk(d, b.text, ty, n)
  BY <1>1, <1>2, <1>4, <1>5 DEF TextOk
<1>7. Remembers(b, tx, n, d, ty, n)
  BY <1>1, <1>4, <1>5 DEF Remembers
<1>8. Ages(b, d) /\ d.epoch > b.epoch
  BY <1>0, <1>1, <1>3 DEF Ages
<1> QED BY <1>3a, <1>3b, <1>4, <1>5, <1>6, <1>7, <1>8 DEF Opens, Effects

(* Closing a group forgets no node.                                         *)
LEMMA SettlesRemembers ==
  ASSUME NEW b, NEW tx, NEW n \in Nat, NEW t, NEW d, NEW ty, NEW n1,
         Settles(b.history, n, tx, t, d.history, n1, ty)
  PROVE  Remembers(b, tx, n, d, ty, n1)
<1>h. PICK h : h = b.history
  OBVIOUS
<1>g. PICK g : g = d.history
  OBVIOUS
<1>0. Settles(h, n, tx, t, g, n1, ty)
  BY <1>h, <1>g
<1>1. n1 >= n
  BY <1>0 DEF Settles
<1>2. ASSUME NEW k \in 0..n PROVE ty[k] = tx[k] /\ g.tree[k].parent = h.tree[k].parent
  <2>1. CASE h.undo = <<>>
    BY <1>0, <2>1 DEF Settles
  <2>2. CASE h.undo # <<>>
    <3>1. Grows(g.tree, h.tree, n, h.at, h.undo, h.redo) /\ Retold(ty, tx, n, t)
      BY <1>0, <2>2 DEF Settles
    <3>2. g.tree[k].parent = h.tree[k].parent
      BY <3>1, GrowsAt
    <3> QED BY <3>1, <3>2 DEF Retold
  <2> QED BY <2>1, <2>2
<1> QED BY <1>1, <1>2, <1>h, <1>g DEF Remembers

(* The open group, if any, becomes a revision.                              *)
Closes(b, l, tx, n, d, ty, n1) ==
  /\ TextOk(d, l, ty, n1) /\ Settles(b.history, n, tx, b.text, d.history, n1, ty)
  /\ Remembers(b, tx, n, d, ty, n1) /\ d.text = b.text /\ d.epoch = b.epoch
  /\ d.history.undo = <<>> /\ ty[d.history.at] = d.text

(* Closing a group keeps what holds of a buffer and the lease.              *)
LEMMA CloseBuffer ==
  ASSUME NEW b, NEW l, NEW tx, NEW n, TextOk(b, l, tx, n), NEW d, d = Commit(b),
         NEW ty, ty = TextsOf(tx, d.history.tree, b.text)
  PROVE  \E n1 \in Nat : Closes(b, l, tx, n, d, ty, n1)
<1>1. /\ b \in Drafts(l, tx[b.history.at], b.history.tree, b.history.at)
      /\ l \in Seq(Bytes) /\ n \in Nat /\ TreeOk(b.history.tree, n, tx, b.history.at)
  BY TextOkIs
<1>2. PICK n1 \in Nat : TextOk(d, l, ty, n1) /\ Settles(b.history, n, tx, b.text, d.history, n1, ty)
  BY <1>1, CommitBuffer
<1>3. d.text = b.text /\ d.epoch = b.epoch
  BY <1>1, CommitBuffer
<1>3a. d.history.undo = <<>> /\ ty[d.history.at] = d.text
  BY <1>1, CommitBuffer
<1>4. Remembers(b, tx, n, d, ty, n1)
  BY <1>1, <1>2, SettlesRemembers
<1> QED BY <1>2, <1>3, <1>3a, <1>4 DEF Closes

(* A move: the group is closed and the trail follows.                       *)
Goes(b, n, tx, k, d, n1, ty) ==
  /\ \E g : /\ Settles(b.history, n, tx, b.text, g, n1, ty)
            /\ Shaped(g.tree, n1) /\ g.at \in 0..n1
            /\ Rerouted(d.history.tree, g.tree, n1, g.at, k)
  /\ d.history.at = k /\ d.history.undo = <<>> /\ d.text = tx[k]

(* A journey keeps what holds of a buffer and ends at the text of its node. *)
LEMMA TravelBuffer ==
  ASSUME NEW b, NEW l, NEW tx, NEW n, TextOk(b, l, tx, n), NEW k \in 0..n, NEW d, d = Travelled(b, k),
         NEW ty, ty = TextsOf(tx, d.history.tree, b.text)
  PROVE  \E n1 \in Nat :
           /\ TextOk(d, l, ty, n1) /\ Goes(b, n, tx, k, d, n1, ty)
           /\ Remembers(b, tx, n, d, ty, n1) /\ Ages(b, d)
<1>1. /\ b \in Drafts(l, tx[b.history.at], b.history.tree, b.history.at)
      /\ l \in Seq(Bytes) /\ n \in Nat /\ TreeOk(b.history.tree, n, tx, b.history.at)
  BY TextOkIs
<1>n. PICK n1 \in Nat : \E g :
        /\ TextOk(d, l, ty, n1) /\ Settles(b.history, n, tx, b.text, g, n1, ty)
        /\ n1 >= n /\ Shaped(g.tree, n1) /\ g.at \in 0..n1 /\ Rerouted(d.history.tree, g.tree, n1, g.at, k)
  BY <1>1, MoveBuffer
<1>2. PICK g :
        /\ TextOk(d, l, ty, n1) /\ Settles(b.history, n, tx, b.text, g, n1, ty)
        /\ n1 >= n /\ Shaped(g.tree, n1) /\ g.at \in 0..n1 /\ Rerouted(d.history.tree, g.tree, n1, g.at, k)
  BY <1>n
<1>3. d.history.at = k /\ d.history.undo = <<>> /\ d.text = tx[k]
  BY <1>1, MoveBuffer
<1>4. Ages(b, d)
  <2>1. d.epoch >= b.epoch
    BY <1>1, MoveBuffer
  <2>2. d.epoch = b.epoch => d.text = b.text
    BY <1>1, MoveBuffer
  <2> QED BY <2>1, <2>2 DEF Ages
<1>5. Goes(b, n, tx, k, d, n1, ty)
  BY <1>2, <1>3 DEF Goes
<1>6. Remembers(b, tx, n, d, ty, n1)
  <2>h. PICK c : c = [history |-> g]
    OBVIOUS
  <2>1. c.history = g
    BY <2>h
  <2>2. Remembers(b, tx, n, c, ty, n1)
    BY <1>1, <1>2, <2>1, SettlesRemembers
  <2>3. ASSUME NEW i \in 0..n PROVE d.history.tree[i].parent = g.tree[i].parent
    <3>1. i \in 0..n1
      BY <1>1, <1>2
    <3>2. d.history.tree[i] = [parent |-> g.tree[i].parent, last |-> Route(g.tree, i, g.at, k),
                               undo |-> g.tree[i].undo, redo |-> g.tree[i].redo]
      BY <1>2, <3>1 DEF Rerouted
    <3> QED BY <3>2
  <2> QED BY <2>1, <2>2, <2>3 DEF Remembers
<1> QED BY <1>2, <1>4, <1>5, <1>6


(* The abstract tree of a history of the texts tx.                          *)
AbsT(h, tx) ==
  [texts |-> tx,
   parent |-> [k \in DOMAIN h.tree |-> h.tree[k].parent],
   through |-> [k \in DOMAIN h.tree |-> h.tree[k].last],
   at |-> h.at]

(* How a lineage begins and goes on.                                        *)
LineageStep(tr, k) ==
  Tree!Lineage(tr, k) = IF k = 0 THEN <<0>> ELSE <<k>> \o Tree!Lineage(tr, tr.parent[k])

(* The lineage of a node, in terms of its parent.                           *)
LEMMA LineageSteps ==
  ASSUME NEW tr, NEW n \in Nat, DOMAIN tr.parent = 0..n,
         \A k \in 1..n : tr.parent[k] \in Nat /\ tr.parent[k] < k
  PROVE  \A k \in 0..n : LineageStep(tr, k)
<1>u. PICK up : up = [k \in 1..n |-> tr.parent[k]]
  OBVIOUS
<1>b. PICK base : base = [i \in 0..n |-> <<0>>]
  OBVIOUS
<1>g. PICK G : G = [i \in 1..n |-> [s \in Seq(Nat) |-> <<i>> \o s]]
  OBVIOUS
<1>2. up \in [1..n -> Nat] /\ \A i \in 1..n : up[i] < i
  BY <1>u
<1>3. base \in [0..n -> Seq(Nat)]
  BY <1>b
<1>4. G \in [1..n -> [Seq(Nat) -> Seq(Nat)]]
  <2>1. ASSUME NEW i \in 1..n PROVE [s \in Seq(Nat) |-> <<i>> \o s] \in [Seq(Nat) -> Seq(Nat)]
    <3>1. <<i>> \in Seq(Nat)
      OBVIOUS
    <3> QED BY <3>1
  <2> QED BY <1>g, <2>1
<1>5. PICK f \in [0..n -> Seq(Nat)] : Descends(f, n, up, {0}, base, G)
  BY <1>2, <1>3, <1>4, TreeRecursion
<1> DEFINE Is(g) == g = [i \in DOMAIN tr.parent |-> IF i = 0 THEN <<0>> ELSE <<i>> \o g[tr.parent[i]]]
<1>6. Is(f)
  <2>1. ASSUME NEW i \in 0..n PROVE f[i] = IF i = 0 THEN <<0>> ELSE <<i>> \o f[tr.parent[i]]
    <3>1. f[i] = IF i \in {0} THEN base[i] ELSE G[i][f[up[i]]]
      BY <1>5 DEF Descends
    <3>2. CASE i = 0
      BY <1>b, <3>1, <3>2
    <3>3. CASE i # 0
      <4>1. i \in 1..n /\ up[i] = tr.parent[i]
        BY <1>u, <3>3
      <4>2. up[i] \in 0..n
        BY <1>2, <4>1
      <4>3. f[up[i]] \in Seq(Nat)
        BY <4>2
      <4>4. G[i][f[up[i]]] = <<i>> \o f[up[i]]
        BY <1>g, <4>1, <4>3
      <4> QED BY <3>1, <3>3, <4>1, <4>4, Zenon
    <3> QED BY <3>2, <3>3
  <2> QED BY <2>1
<1>7. Is(CHOOSE g : Is(g))
  <2> HIDE DEF Is
  <2> QED BY <1>6
<1>h. PICK h : h = CHOOSE g : Is(g)
  OBVIOUS
<1>8. h = [i \in DOMAIN tr.parent |-> IF i = 0 THEN <<0>> ELSE <<i>> \o h[tr.parent[i]]]
  BY <1>7, <1>h, Zenon
<1>9. \A k : Tree!Lineage(tr, k) = h[k]
  BY <1>h DEF Tree!Lineage
<1> HIDE DEF Is
<1>10. ASSUME NEW k \in 0..n PROVE LineageStep(tr, k)
  <2>1. h[k] = IF k = 0 THEN <<0>> ELSE <<k>> \o h[tr.parent[k]]
    BY <1>8
  <2> QED BY <1>9, <2>1 DEF LineageStep
<1> QED BY <1>10

(* The abstract lineage is the chain of the history.                        *)
LEMMA LineageIs ==
  ASSUME NEW h, NEW n, Parents(h.tree, n), NEW tx, NEW tr, tr = AbsT(h, tx)
  PROVE  \A k \in 0..n : Tree!Lineage(tr, k) = Chain(h.tree, k)
<1>1. n \in Nat /\ DOMAIN h.tree = 0..n /\ \A k \in 1..n : h.tree[k].parent \in Nat /\ h.tree[k].parent < k
  BY DEF Parents
<1>2. tr.parent = [k \in 0..n |-> h.tree[k].parent]
  BY <1>1 DEF AbsT
<1>3. ASSUME NEW k \in 1..n PROVE tr.parent[k] = h.tree[k].parent /\ tr.parent[k] \in Nat /\ tr.parent[k] < k
  BY <1>1, <1>2
<1> DEFINE S == {k \in Nat : k <= n => Tree!Lineage(tr, k) = Chain(h.tree, k)}
<1>4. ASSUME NEW k \in Nat, \A j \in 0..(k - 1) : j \in S PROVE k \in S
  <2> SUFFICES ASSUME k <= n PROVE Tree!Lineage(tr, k) = Chain(h.tree, k)
    OBVIOUS
  <2>1. k \in 0..n
    BY <1>1
  <2>2. LineageStep(tr, k)
    BY <1>1, <1>2, <1>3, <2>1, LineageSteps
  <2>3. ChainStep(h.tree, k)
    BY <2>1, ChainIs
  <2>4. CASE k = 0
    BY <2>2, <2>3, <2>4 DEF ChainStep, LineageStep
  <2>5. CASE k # 0
    <3>1. k \in 1..n
      BY <1>1, <2>5
    <3>2. tr.parent[k] = h.tree[k].parent /\ h.tree[k].parent \in 0..(k - 1) /\ h.tree[k].parent <= n
      BY <1>1, <1>3, <3>1
    <3>3. Tree!Lineage(tr, h.tree[k].parent) = Chain(h.tree, h.tree[k].parent)
      BY <1>4, <3>2
    <3> QED BY <2>2, <2>3, <2>5, <3>2, <3>3 DEF ChainStep, LineageStep
  <2> QED BY <2>4, <2>5
<1> HIDE DEF S
<1>5. Nat \subseteq S
  BY <1>4, Descent
<1> QED BY <1>1, <1>5 DEF S

(* The abstract way towards a node is the history's.                        *)
LEMMA TowardsIs ==
  ASSUME NEW h, NEW n, Parents(h.tree, n), NEW tx, NEW tr, tr = AbsT(h, tx), NEW k \in 0..n, NEW i
  PROVE  Tree!Towards(tr, i, k) = Heading(h.tree, i, k)
<1>1. Tree!Lineage(tr, k) = Chain(h.tree, k)
  BY LineageIs
<1>2. Range(Tree!Lineage(tr, k)) = Above(h.tree, k)
  BY <1>1 DEF Above
<1>3. \A c \in Above(h.tree, k) : tr.parent[c] = h.tree[c].parent
  <2>1. Above(h.tree, k) \subseteq 0..k
    BY AboveAscends DEF Ascends
  <2>2. DOMAIN h.tree = 0..n /\ n \in Nat
    BY DEF Parents
  <2>3. \A c \in 0..n : tr.parent[c] = h.tree[c].parent
    BY <2>2 DEF AbsT
  <2> QED BY <2>1, <2>2, <2>3
<1>4. {c \in Range(Tree!Lineage(tr, k)) \ {0} : tr.parent[c] = i} = On(h.tree, i, k)
  BY <1>2, <1>3 DEF On
<1>5. Tree!Towards(tr, i, k) = LET on == {c \in Range(Tree!Lineage(tr, k)) \ {0} : tr.parent[c] = i}
                            IN  IF on = {} THEN 0 ELSE CHOOSE c \in on : TRUE
  BY DEF Tree!Towards, Tree!Range, Range
<1> QED BY <1>4, <1>5 DEF Heading

(* The same towards every node.                                             *)
LEMMA TowardsAll ==
  ASSUME NEW h, NEW n, Parents(h.tree, n), NEW tx, NEW k \in 0..n
  PROVE  \A i : Tree!Towards(AbsT(h, tx), i, k) = Heading(h.tree, i, k)
<1> TAKE i
<1>1. PICK tr : tr = AbsT(h, tx)
  OBVIOUS
<1>2. Tree!Towards(tr, i, k) = Heading(h.tree, i, k)
  BY <1>1, TowardsIs
<1> QED BY <1>1, <1>2


(* Functions with the same values are the same.                             *)
LEMMA SameFunction ==
  ASSUME NEW S, NEW f, NEW g, f = [k \in S |-> f[k]], g = [k \in S |-> g[k]], \A k \in S : f[k] = g[k]
  PROVE  f = g
  OBVIOUS

(* The abstract tree, field by field.                                       *)
LEMMA AbsFields ==
  ASSUME NEW h, NEW tx, NEW tr, tr = AbsT(h, tx)
  PROVE  /\ tr.texts = tx /\ tr.at = h.at
         /\ DOMAIN tr.parent = DOMAIN h.tree /\ DOMAIN tr.through = DOMAIN h.tree
         /\ \A k \in DOMAIN h.tree : tr.parent[k] = h.tree[k].parent /\ tr.through[k] = h.tree[k].last
  BY DEF AbsT

(* x is f with the value v at the new argument e.                           *)
Adjoins(x, f, S, e, v) == x = [k \in S \union {e} |-> x[k]] /\ x[e] = v /\ \A k \in S : x[k] = f[k]

(* Extended adjoins one argument.                                           *)
LEMMA ExtendedIs ==
  ASSUME NEW f, NEW S, DOMAIN f = S, NEW e, e \notin S, NEW v
  PROVE  Adjoins(Tree!Extended(f, e, v), f, S, e, v)
<1>1. Tree!Extended(f, e, v) = [k \in S \union {e} |-> IF k = e THEN v ELSE f[k]]
  BY DEF Tree!Extended
<1> QED BY <1>1 DEF Adjoins

(* A node more in the history is a node more in the abstract tree.          *)
LEMMA AbsGrown ==
  ASSUME NEW h, NEW n, Shaped(h.tree, n), h.at \in 0..n, NEW tx \in [0..n -> Whole], NEW t, NEW g, NEW n1, NEW tx1,
         Settles(h, n, tx, t, g, n1, tx1), h.undo # <<>>
  PROVE  AbsT(g, tx1) = Tree!Grown(AbsT(h, tx), t)
<1>0. n \in Nat /\ DOMAIN h.tree = 0..n /\ DOMAIN tx = 0..n
  BY DEF Shaped
<1>0a. Cardinality(0..n) = n + 1
  BY <1>0, FS_Interval
<1>1. n \in Nat /\ DOMAIN h.tree = 0..n /\ DOMAIN tx = 0..n /\ Cardinality(0..n) = n + 1
  BY <1>0, <1>0a
<1>2. /\ g = [tree |-> g.tree, at |-> n + 1, undo |-> <<>>, redo |-> <<>>]
      /\ Grows(g.tree, h.tree, n, h.at, h.undo, h.redo) /\ Retold(tx1, tx, n, t)
  BY DEF Settles
<1>a. PICK tr : tr = AbsT(h, tx)
  OBVIOUS
<1>b. PICK tg : tg = AbsT(g, tx1)
  OBVIOUS
<1>3. tr.texts = tx /\ tr.at = h.at /\ DOMAIN tr.parent = 0..n /\ DOMAIN tr.through = 0..n
  BY <1>1, <1>a, AbsFields
<1>4. \A k \in 0..n : tr.parent[k] = h.tree[k].parent /\ tr.through[k] = h.tree[k].last
  BY <1>1, <1>a, AbsFields
<1>5. g.at = n + 1 /\ DOMAIN g.tree = 0..(n + 1)
  BY <1>2 DEF Grows
<1>x. PICK new : new = n + 1
  OBVIOUS
<1>6. 0..(n + 1) = 0..n \union {new} /\ new \notin 0..n /\ new \in 0..(n + 1)
  BY <1>1, <1>x
<1>l. PICK linked : linked = [tr.through EXCEPT ![h.at] = new]
  OBVIOUS
<1>p. PICK ts : ts = Tree!Extended(tx, new, t)
  OBVIOUS
<1>q. PICK ps : ps = Tree!Extended(tr.parent, new, h.at)
  OBVIOUS
<1>r. PICK ls : ls = Tree!Extended(linked, new, 0)
  OBVIOUS
<1>7. Tree!Grown(tr, t) = [texts |-> ts, parent |-> ps, through |-> ls, at |-> new]
  BY <1>1, <1>3, <1>x, <1>l, <1>p, <1>q, <1>r DEF Tree!Grown, Tree!Cardinality, Cardinality
<1>8. tg = [texts |-> tx1, parent |-> [k \in DOMAIN g.tree |-> g.tree[k].parent],
            through |-> [k \in DOMAIN g.tree |-> g.tree[k].last], at |-> new]
  BY <1>5, <1>b, <1>x DEF AbsT
<1>9. tx1 = ts
  <2>1. ts = [k \in 0..n \union {new} |-> ts[k]] /\ ts[new] = t /\ \A k \in 0..n : ts[k] = tx[k]
    BY <1>1, <1>6, <1>p, ExtendedIs DEF Adjoins
  <2>2. tx1 = [k \in 0..(n + 1) |-> tx1[k]] /\ tx1[new] = t /\ \A k \in 0..n : tx1[k] = tx[k]
    BY <1>2, <1>x DEF Retold
  <2>3. \A k \in 0..(n + 1) : ts[k] = tx1[k]
    BY <1>6, <2>1, <2>2
  <2> QED BY <1>6, <2>1, <2>2, <2>3
<1>10. [k \in DOMAIN g.tree |-> g.tree[k].parent] = ps
  <2>p. PICK P : P = [k \in DOMAIN g.tree |-> g.tree[k].parent]
    OBVIOUS
  <2>0. Adjoins(ps, tr.parent, 0..n, new, h.at)
    BY <1>3, <1>6, <1>q, ExtendedIs
  <2>1. ps = [k \in 0..n \union {new} |-> ps[k]]
    BY <2>0 DEF Adjoins
  <2>2. ps[new] = h.at /\ \A k \in 0..n : ps[k] = tr.parent[k]
    BY <2>0 DEF Adjoins
  <2>3. \A k \in 0..n : g.tree[k].parent = h.tree[k].parent
    BY <1>2, GrowsAt
  <2>4. g.tree[new].parent = h.at
    BY <1>2, <1>x DEF Grows
  <2>5. P = [k \in 0..(n + 1) |-> P[k]] /\ \A k \in 0..(n + 1) : P[k] = g.tree[k].parent
    BY <1>5, <2>p
  <2>6. ASSUME NEW k \in 0..(n + 1) PROVE P[k] = ps[k]
    <3>1. CASE k = new
      BY <1>6, <2>2, <2>4, <2>5, <3>1
    <3>2. CASE k # new
      <4>1. k \in 0..n
        BY <1>6, <3>2
      <4> QED BY <1>4, <2>2, <2>3, <2>5, <4>1
    <3> QED BY <3>1, <3>2
  <2>7. P = ps
    BY <1>6, <2>1, <2>5, <2>6
  <2> QED BY <2>p, <2>7
<1>11. [k \in DOMAIN g.tree |-> g.tree[k].last] = ls
  <2>p. PICK P : P = [k \in DOMAIN g.tree |-> g.tree[k].last]
    OBVIOUS
  <2>0. DOMAIN linked = 0..n /\ \A k \in 0..n : linked[k] = IF k = h.at THEN new ELSE h.tree[k].last
    BY <1>3, <1>4, <1>l
  <2>9. Adjoins(ls, linked, 0..n, new, 0)
    BY <1>6, <1>r, <2>0, ExtendedIs
  <2>1. ls = [k \in 0..n \union {new} |-> ls[k]]
    BY <2>9 DEF Adjoins
  <2>2. ls[new] = 0 /\ \A k \in 0..n : ls[k] = linked[k]
    BY <2>9 DEF Adjoins
  <2>3. ASSUME NEW k \in 0..n PROVE g.tree[k].last = IF k = h.at THEN new ELSE h.tree[k].last
    BY <1>2, <1>x, GrowsAt
  <2>4. g.tree[new].last = 0
    BY <1>2, <1>x DEF Grows
  <2>5. P = [k \in 0..(n + 1) |-> P[k]] /\ \A k \in 0..(n + 1) : P[k] = g.tree[k].last
    BY <1>5, <2>p
  <2>6. ASSUME NEW k \in 0..(n + 1) PROVE P[k] = ls[k]
    <3>1. CASE k = new
      BY <1>6, <2>2, <2>4, <2>5, <3>1
    <3>2. CASE k # new
      <4>1. k \in 0..n
        BY <1>6, <3>2
      <4>2. ls[k] = linked[k] /\ P[k] = g.tree[k].last
        BY <2>2, <2>5, <4>1
      <4> QED BY <2>0, <2>3, <4>1, <4>2
    <3> QED BY <3>1, <3>2
  <2>7. P = ls
    BY <1>6, <2>1, <2>5, <2>6
  <2> QED BY <2>p, <2>7
<1>12. tg = Tree!Grown(tr, t)
  BY <1>7, <1>8, <1>9, <1>10, <1>11
<1> QED BY <1>12, <1>a, <1>b

(* A journey in the history is one in the abstract tree.                    *)
LEMMA AbsGone ==
  ASSUME NEW g, NEW n, Shaped(g.tree, n), g.at \in 0..n, NEW k \in 0..n, NEW tx, DOMAIN tx = 0..n,
         NEW m, m.at = k, Rerouted(m.tree, g.tree, n, g.at, k)
  PROVE  AbsT(m, tx) = Tree!Gone(AbsT(g, tx), k)
<1>1. n \in Nat /\ DOMAIN g.tree = 0..n /\ Parents(g.tree, n)
  BY ShapedParents DEF Shaped
<1>a. PICK tr : tr = AbsT(g, tx)
  OBVIOUS
<1>b. PICK tm : tm = AbsT(m, tx)
  OBVIOUS
<1>2. DOMAIN m.tree = 0..n
  BY DEF Rerouted
<1>3. ASSUME NEW i \in 0..n PROVE m.tree[i].parent = g.tree[i].parent /\ m.tree[i].last = Route(g.tree, i, g.at, k)
  <2>1. m.tree[i] = [parent |-> g.tree[i].parent, last |-> Route(g.tree, i, g.at, k),
                     undo |-> g.tree[i].undo, redo |-> g.tree[i].redo]
    BY DEF Rerouted
  <2> QED BY <2>1
<1>4. tr.texts = tx /\ tr.at = g.at
  BY <1>a, AbsFields
<1>5. \A i \in 0..n : tr.through[i] = g.tree[i].last
  BY <1>1, <1>a, AbsFields
<1>j. PICK j : j = g.at
  OBVIOUS
<1>5a. \A i : Tree!Towards(AbsT(g, tx), i, k) = Heading(g.tree, i, k)
  BY <1>1, TowardsAll
<1>5b. \A i : Tree!Towards(AbsT(g, tx), i, j) = Heading(g.tree, i, j)
  BY <1>1, <1>j, TowardsAll
<1>6. \A i : Tree!Towards(tr, i, k) = Heading(g.tree, i, k) /\ Tree!Towards(tr, i, g.at) = Heading(g.tree, i, g.at)
  BY <1>a, <1>j, <1>5a, <1>5b
<1>f. PICK F : F = [i \in 0..n |-> IF Tree!Towards(tr, i, k) # 0 THEN Tree!Towards(tr, i, k)
                    ELSE IF Tree!Towards(tr, i, tr.at) # 0 THEN Tree!Towards(tr, i, tr.at)
                    ELSE tr.through[i]]
  OBVIOUS
<1>7. Tree!Gone(tr, k) = [tr EXCEPT !.at = k, !.through = F]
  BY <1>4, <1>f DEF Tree!Gone
<1>8. ASSUME NEW i \in 0..n PROVE F[i] = Route(g.tree, i, g.at, k)
  BY <1>4, <1>5, <1>6, <1>f DEF Route
<1>9. tr = [texts |-> tx, parent |-> [i \in 0..n |-> g.tree[i].parent],
            through |-> [i \in 0..n |-> g.tree[i].last], at |-> g.at]
  BY <1>1, <1>a DEF AbsT
<1>10. Tree!Gone(tr, k) = [texts |-> tx, parent |-> [i \in 0..n |-> g.tree[i].parent], through |-> F, at |-> k]
  BY <1>7, <1>9
<1>11. tm = [texts |-> tx, parent |-> [i \in 0..n |-> m.tree[i].parent],
             through |-> [i \in 0..n |-> m.tree[i].last], at |-> k]
  BY <1>2, <1>b DEF AbsT
<1>12. [i \in 0..n |-> m.tree[i].parent] = [i \in 0..n |-> g.tree[i].parent]
  BY <1>3
<1>13. [i \in 0..n |-> m.tree[i].last] = F
  <2>1. F = [i \in 0..n |-> F[i]]
    BY <1>f
  <2>2. \A i \in 0..n : m.tree[i].last = F[i]
    BY <1>3, <1>8
  <2> QED BY <2>1, <2>2
<1>14. tm = Tree!Gone(tr, k)
  BY <1>10, <1>11, <1>12, <1>13
<1> QED BY <1>14, <1>a, <1>b

(* names are the texts ts.                                                  *)
Labels(names, ts, m) == \A k \in 0..m : names[k + 1] = ts[k]

(* A straight history is an abstract line.                                  *)
LEMMA LineIs ==
  ASSUME NEW s, NEW m \in Nat, s.at = m, NEW tree, NEW line, Straight(s.tree, m, tree, line),
         NEW ts, ts = [k \in 0..m |-> ts[k]], NEW names, Len(names) = m + 1,
         Labels(names, ts, m)
  PROVE  AbsT(s, ts) = Tree!Line(names)
<1>1. Len(names) - 1 = m
  OBVIOUS
<1>2. DOMAIN s.tree = 0..m
  BY DEF Straight
<1>3. ASSUME NEW k \in 0..m
      PROVE  s.tree[k].parent = (IF k = 0 THEN 0 ELSE k - 1) /\ s.tree[k].last = (IF k = m THEN 0 ELSE k + 1)
  <2>1. s.tree[k] = [parent |-> IF k = 0 THEN 0 ELSE k - 1, last |-> IF k = m THEN 0 ELSE k + 1,
                     undo |-> IF k = 0 THEN <<>> ELSE tree[line[m + 1 - k]].undo,
                     redo |-> IF k = 0 THEN <<>> ELSE tree[line[m + 1 - k]].redo]
    BY DEF Straight
  <2> QED BY <2>1
<1>4. AbsT(s, ts) = [texts |-> ts, parent |-> [k \in 0..m |-> s.tree[k].parent],
                     through |-> [k \in 0..m |-> s.tree[k].last], at |-> m]
  BY <1>2 DEF AbsT
<1>5. Tree!Line(names) = [texts |-> [k \in 0..m |-> names[k + 1]],
                          parent |-> [k \in 0..m |-> IF k = 0 THEN 0 ELSE k - 1],
                          through |-> [k \in 0..m |-> IF k = m THEN 0 ELSE k + 1], at |-> m]
  BY <1>1 DEF Tree!Line
<1>6. [k \in 0..m |-> names[k + 1]] = ts
  BY DEF Labels
<1>7. [k \in 0..m |-> s.tree[k].parent] = [k \in 0..m |-> IF k = 0 THEN 0 ELSE k - 1]
  BY <1>3
<1>8. [k \in 0..m |-> s.tree[k].last] = [k \in 0..m |-> IF k = m THEN 0 ELSE k + 1]
  BY <1>3
<1> QED BY <1>4, <1>5, <1>6, <1>7, <1>8

(* A new history is a line of one text.                                     *)
LEMMA FreshLine ==
  ASSUME NEW w, NEW tx, tx = [k \in {0} |-> w], NEW b, b.history = NewHistory
  PROVE  AbsT(b.history, tx) = Tree!Line(<<w>>)
<1>1. AbsT(b.history, tx) = [texts |-> [k \in {0} |-> w], parent |-> [k \in {0} |-> 0],
                             through |-> [k \in {0} |-> 0], at |-> 0]
  BY DEF AbsT, NewHistory, Root
<1>2. Len(<<w>>) - 1 = 0 /\ 0..0 = {0}
  OBVIOUS
<1>3. Tree!Line(<<w>>) = [texts |-> [k \in {0} |-> w], parent |-> [k \in {0} |-> 0],
                          through |-> [k \in {0} |-> 0], at |-> 0]
  BY <1>2 DEF Tree!Line
<1> QED BY <1>1, <1>3


(* The abstract tree, before and after its draft became a revision.         *)
Abs == AbsT(buf.history, texts)
Drafted == buf.history.undo # <<>>
SettledAbs == IF Drafted THEN Tree!Grown(Abs, buf.text) ELSE Abs

(* The mapped tree, as TextBuffer writes it.                                *)
LEMMA AbsIs ==
  Abs = [texts |-> texts,
         parent |-> [k \in DOMAIN buf.history.tree |-> buf.history.tree[k].parent],
         through |-> [k \in DOMAIN buf.history.tree |-> buf.history.tree[k].last],
         at |-> buf.history.at]
  BY DEF Abs, AbsT

(* An edit of the buffer is a step of the abstract tree.                    *)
LEMMA DraftStep ==
  ASSUME buf'.text \in Seq(Bytes), Drafted', Abs' = Abs
  PROVE  Tree!Next
<1>1. Tree!Draft
  BY DEF Tree!Draft, Abs, AbsT, Drafted
<1> QED BY <1>1 DEF Tree!Next

(* So is closing the group.                                                 *)
LEMMA CloseStep ==
  ASSUME buf'.text = buf.text, Drafted, ~Drafted', Abs' = Tree!Grown(Abs, buf.text)
  PROVE  Tree!Next
<1>1. Tree!Close
  BY DEF Tree!Close, Tree!Settled, Abs, AbsT, Drafted
<1> QED BY <1>1 DEF Tree!Next

(* So is a change that is a group of its own.                               *)
LEMMA ApplyStep ==
  ASSUME buf'.text \in Seq(Bytes), ~Drafted', Abs' = Tree!Grown(Abs, buf'.text)
  PROVE  Tree!Next
<1>1. Tree!Apply
  BY DEF Tree!Apply, Abs, AbsT, Drafted
<1> QED BY <1>1 DEF Tree!Next

(* So is a journey.                                                         *)
LEMMA GoStep ==
  ASSUME NEW k \in DOMAIN texts, buf'.text = texts[k], ~Drafted', Abs' = Tree!Gone(SettledAbs, k)
  PROVE  Tree!Next
<1>1. Tree!Go(k)
  BY DEF Tree!Go, Tree!Settled, SettledAbs, Abs, AbsT, Drafted
<1>2. [texts |-> texts, parent |-> [i \in DOMAIN buf.history.tree |-> buf.history.tree[i].parent],
       through |-> [i \in DOMAIN buf.history.tree |-> buf.history.tree[i].last],
       at |-> buf.history.at].texts = texts
  OBVIOUS
<1> QED BY <1>1, <1>2 DEF Tree!Next

(* So is a new history.                                                     *)
LEMMA ResetStep ==
  ASSUME buf'.text \in Seq(Bytes), ~Drafted', Abs' = Tree!Line(<<buf'.text>>)
  PROVE  Tree!Next
<1>1. Tree!Reset
  BY DEF Tree!Reset, Abs, AbsT, Drafted
<1> QED BY <1>1 DEF Tree!Next

(* So is the history a session kept.                                        *)
LEMMA ReopenStep ==
  ASSUME buf'.text = buf.text, ~Drafted',
         NEW line, line = Tree!Lineage(SettledAbs, SettledAbs.at), NEW n \in 1..Len(line),
         Abs' = Tree!Line([i \in 1..n |-> SettledAbs.texts[line[n + 1 - i]]])
  PROVE  Tree!Next
<1>0. SettledAbs = Tree!Settled
  BY Zenon DEF Tree!Settled, SettledAbs, Abs, AbsT, Drafted
<1>1. Tree!Reopen
  BY <1>0 DEF Tree!Reopen, Abs, AbsT, Drafted
<1> QED BY <1>1 DEF Tree!Next

(* What leaves the text, the group and the tree leaves the abstract tree.   *)
LEMMA RestStep ==
  ASSUME buf'.text = buf.text, Drafted' <=> Drafted, Abs' = Abs
  PROVE  UNCHANGED Tree!vars
  BY DEF Tree!vars, Abs, AbsT, Drafted


(* The buffer goes on: what held of it holds, nothing is forgotten and it   *)
(* does not get younger.                                                    *)
Onward(n) ==
  /\ restarts' = restarts
  /\ \E n1 \in Nat : /\ TextOk(buf', leased', texts', n1)
                     /\ Remembers(buf, texts, n, buf', texts', n1) /\ Ages(buf, buf')

(* A step of the abstract tree, or none.                                    *)
TreeSteps == Tree!Next \/ UNCHANGED Tree!vars

(* A batch that becomes a revision of its own.                              *)
Becomes(b, tx, n, edits, d, ty) ==
  /\ TextOk(d, b.text, ty, n + 1) /\ Remembers(b, tx, n, d, ty, n + 1) /\ Ages(b, d)
  /\ Effects(b, edits, d) /\ d.history.undo = <<>>
  /\ d.history.at = n + 1 /\ d.history.tree[n + 1].parent = b.history.at
  /\ AbsT(d.history, ty) = Tree!Grown(AbsT(b.history, tx), d.text)

(* A batch that is committed keeps what holds of a buffer and is one group  *)
(* of the tree.                                                             *)
LEMMA BatchCommitted ==
  ASSUME NEW b, NEW tx, NEW n, TextOk(b, b.text, tx, n), NEW edits, Len(edits) \in Nat \ {0}, BatchOk(edits),
         \A i \in 1..Len(edits) : Suits(b.text, edits[i]),
         NEW e, e = BatchEdited(b, edits), NEW d, d = Commit(e),
         NEW ty, ty = TextsOf(tx, d.history.tree, e.text)
  PROVE  Becomes(b, tx, n, edits, d, ty)
<1>0. n \in Nat
  BY DEF TextOk
<1>w. PICK te : te = TextsOf(tx, e.history.tree, e.text)
  OBVIOUS
<1>1. TextOk(e, b.text, te, n)
  BY <1>w, BatchBuffer
<1>2. Opens(b, tx, e, te)
  BY <1>w, BatchBuffer
<1>3. Ages(b, e) /\ e.epoch > b.epoch /\ e.text = Replaced(b.text, edits)
  <2>1. Ages(b, e)
    BY <1>w, BatchBuffer
  <2>2. Effects(b, edits, e)
    BY <1>w, BatchBuffer
  <2> QED BY <2>1, <2>2 DEF Effects
<1>4. te = tx /\ e.history.tree = b.history.tree /\ e.history.at = b.history.at /\ e.history.undo # <<>>
  BY <1>2 DEF Opens
<1>5. TextOk(e, b.text, tx, n)
  BY <1>1, <1>4
<1>6. PICK n1 \in Nat :
           /\ TextOk(d, b.text, ty, n1) /\ Settles(e.history, n, tx, e.text, d.history, n1, ty)
           /\ Remembers(e, tx, n, d, ty, n1) /\ d.text = e.text /\ d.epoch = e.epoch
           /\ d.history.undo = <<>> /\ ty[d.history.at] = d.text
  <2>1. \E n1 \in Nat : Closes(e, b.text, tx, n, d, ty, n1)
    <3>l. PICK l : l = b.text
      OBVIOUS
    <3>1. \E n1 \in Nat : Closes(e, l, tx, n, d, ty, n1)
      BY <1>5, <3>l, CloseBuffer
    <3> QED BY <3>1, <3>l
  <2> QED BY <2>1 DEF Closes
<1>h. PICK h : h = e.history
  OBVIOUS
<1>g. PICK g : g = d.history
  OBVIOUS
<1>7. Settles(h, n, tx, e.text, g, n1, ty) /\ h.undo # <<>>
  BY <1>4, <1>6, <1>h, <1>g
<1>8. /\ n1 = n + 1 /\ g = [tree |-> g.tree, at |-> n + 1, undo |-> <<>>, redo |-> <<>>]
      /\ Grows(g.tree, h.tree, n, h.at, h.undo, h.redo)
  BY <1>7 DEF Settles
<1>9. g.at = n + 1 /\ g.tree[n + 1].parent = h.at
  BY <1>8 DEF Grows
<1>10. AbsT(g, ty) = Tree!Grown(AbsT(h, tx), e.text)
  <2>1. Shaped(h.tree, n) /\ h.at \in 0..n /\ tx \in [0..n -> Whole]
    BY <1>5, <1>h DEF TextOk, TreeOk, Told
  <2> QED BY <1>7, <2>1, AbsGrown
<1>11. AbsT(h, tx) = AbsT(b.history, tx)
  BY <1>4, <1>h DEF AbsT
<1>12. Remembers(b, tx, n, d, ty, n + 1)
  BY <1>4, <1>6, <1>8 DEF Remembers
<1>13. TextOk(d, b.text, ty, n + 1)
  BY <1>6, <1>8
<1>14. Ages(b, d) /\ d.epoch > b.epoch
  BY <1>3, <1>6 DEF Ages
<1>15. d.history.at = n + 1 /\ d.history.tree[n + 1].parent = b.history.at
  BY <1>4, <1>9, <1>g, <1>h
<1>16. AbsT(d.history, ty) = Tree!Grown(AbsT(b.history, tx), d.text)
  BY <1>6, <1>10, <1>11, <1>g
<1>17. Effects(b, edits, d)
  BY <1>3, <1>6 DEF Effects
<1> QED BY <1>6, <1>12, <1>13, <1>14, <1>15, <1>16, <1>17 DEF Becomes

(* What Lease writes.                                                       *)
LEMMA LeaseIs ==
  ASSUME NEW b, NEW t, Lease(b, t)
  PROVE  /\ buf' = b /\ leased' = buf.text /\ texts' = TextsOf(texts, b.history.tree, t)
         /\ restarts' = restarts
  BY DEF Lease, TextsOf

(* An edit leaves the abstract tree and opens the group.                    *)
LEMMA OpensAbs ==
  ASSUME NEW b, NEW tx, NEW d, NEW ty, Opens(b, tx, d, ty)
  PROVE  AbsT(d.history, ty) = AbsT(b.history, tx) /\ d.history.undo # <<>>
  BY DEF Opens, AbsT

(* An edit of the user keeps the invariant and is a step of the tree.       *)
LEMMA EditAction ==
  ASSUME NEW n, TextOk(buf, leased, texts, n), NEW r \in ReplacementsOf(buf.text), UserEdit(r)
  PROVE  Onward(n) /\ TreeSteps
<1>1. buf.changes = <<>> /\ Lease(Edited(buf, r), buf.text)
  BY DEF UserEdit, Idle
<1>2. TextOk(buf, buf.text, texts, n)
  BY <1>1, IdleBase
<1>3. n \in Nat /\ buf.text \in Whole
  BY <1>2, TextOkIs
<1>4. Suits(buf.text, r)
  BY <1>3, ChoiceSuits
<1>d. PICK d : d = Edited(buf, r)
  OBVIOUS
<1>y. PICK ty : ty = TextsOf(texts, d.history.tree, buf.text)
  OBVIOUS
<1>5. buf' = d /\ leased' = buf.text /\ texts' = ty /\ restarts' = restarts
  <2>1. Lease(d, buf.text)
    BY <1>1, <1>d
  <2> QED BY <2>1, <1>y, LeaseIs
<1>6. TextOk(d, buf.text, ty, n)
  BY <1>2, <1>4, <1>d, <1>y, EditBuffer
<1>7. Opens(buf, texts, d, ty)
  BY <1>2, <1>4, <1>d, <1>y, EditBuffer
<1>8. Remembers(buf, texts, n, d, ty, n)
  BY <1>2, <1>4, <1>d, <1>y, EditBuffer
<1>9. Ages(buf, d)
  BY <1>2, <1>4, <1>d, <1>y, EditBuffer
<1>10. Onward(n)
  BY <1>3, <1>5, <1>6, <1>8, <1>9 DEF Onward
<1>11. Tree!Next
  <2>1. d.text \in Seq(Bytes)
    BY <1>6, TextOkIs
  <2>2. AbsT(d.history, ty) = AbsT(buf.history, texts) /\ d.history.undo # <<>>
    BY <1>7, OpensAbs
  <2>3. Abs' = Abs /\ Drafted'
    BY <1>5, <2>2 DEF Abs, Drafted
  <2> QED BY <1>5, <2>1, <2>3, DraftStep
<1> QED BY <1>10, <1>11 DEF TreeSteps

(* So is a batch.                                                           *)
LEMMA BatchAction ==
  ASSUME NEW n, TextOk(buf, leased, texts, n), NEW edits \in Seq(ReplacementsOf(buf.text)), Batch(edits)
  PROVE  Onward(n) /\ TreeSteps
<1>1. buf.changes = <<>> /\ edits # <<>> /\ BatchOk(edits)
  BY DEF Batch, Idle
<1>2. TextOk(buf, buf.text, texts, n)
  BY <1>1, IdleBase
<1>3. n \in Nat /\ buf.text \in Whole
  BY <1>2, TextOkIs
<1>4. Len(edits) \in Nat \ {0}
  BY <1>1, EmptySeq
<1>5. ASSUME NEW i \in 1..Len(edits) PROVE Suits(buf.text, edits[i])
  <2>1. edits[i] \in ReplacementsOf(buf.text)
    BY ElementOf
  <2> QED BY <1>3, <2>1, ChoiceSuits
<1>b. PICK b : b = BatchEdited(buf, edits)
  OBVIOUS
<1>6. PICK undoOpen \in BOOLEAN : Lease(IF undoOpen THEN b ELSE Commit(b), b.text)
  BY <1>b DEF Batch
<1>7. CASE undoOpen
  <2>y. PICK ty : ty = TextsOf(texts, b.history.tree, b.text)
    OBVIOUS
  <2>1. Lease(b, b.text)
    BY <1>6, <1>7
  <2>2. buf' = b /\ leased' = buf.text /\ texts' = ty /\ restarts' = restarts
    BY <2>1, <2>y, LeaseIs
  <2>3. TextOk(b, buf.text, ty, n)
    BY <1>1, <1>2, <1>4, <1>5, <1>b, <2>y, BatchBuffer
  <2>4. Opens(buf, texts, b, ty)
    BY <1>1, <1>2, <1>4, <1>5, <1>b, <2>y, BatchBuffer
  <2>5. Remembers(buf, texts, n, b, ty, n)
    BY <1>1, <1>2, <1>4, <1>5, <1>b, <2>y, BatchBuffer
  <2>6. Ages(buf, b)
    BY <1>1, <1>2, <1>4, <1>5, <1>b, <2>y, BatchBuffer
  <2>7. Onward(n)
    BY <1>3, <2>2, <2>3, <2>5, <2>6 DEF Onward
  <2>8. Tree!Next
    <3>1. b.text \in Seq(Bytes)
      BY <2>3, TextOkIs
    <3>2. AbsT(b.history, ty) = AbsT(buf.history, texts) /\ b.history.undo # <<>>
      BY <2>4, OpensAbs
    <3>3. Abs' = Abs /\ Drafted'
      BY <2>2, <3>2 DEF Abs, Drafted
    <3> QED BY <2>2, <3>1, <3>3, DraftStep
  <2> QED BY <2>7, <2>8 DEF TreeSteps
<1>8. CASE ~undoOpen
  <2>d. PICK d : d = Commit(b)
    OBVIOUS
  <2>y. PICK ty : ty = TextsOf(texts, d.history.tree, b.text)
    OBVIOUS
  <2>1. Lease(d, b.text)
    BY <1>6, <1>8, <2>d
  <2>2. buf' = d /\ leased' = buf.text /\ texts' = ty /\ restarts' = restarts
    BY <2>1, <2>y, LeaseIs
  <2>3. Becomes(buf, texts, n, edits, d, ty)
    BY <1>1, <1>2, <1>4, <1>5, <1>b, <2>d, <2>y, BatchCommitted
  <2>4. TextOk(d, buf.text, ty, n + 1) /\ Remembers(buf, texts, n, d, ty, n + 1) /\ Ages(buf, d)
    BY <2>3 DEF Becomes
  <2>6. AbsT(d.history, ty) = Tree!Grown(AbsT(buf.history, texts), d.text) /\ d.history.undo = <<>>
    BY <2>3 DEF Becomes
  <2>8. Onward(n)
    <3>1. n + 1 \in Nat
      BY <1>3
    <3> QED BY <2>2, <2>4, <3>1 DEF Onward
  <2>9. Tree!Next
    <3>1. d.text \in Seq(Bytes)
      BY <2>4, TextOkIs
    <3>2. Abs' = Tree!Grown(Abs, buf'.text)
      BY <2>2, <2>6 DEF Abs
    <3>3. ~Drafted'
      BY <2>2, <2>6 DEF Drafted
    <3> QED BY <2>2, <3>1, <3>2, <3>3, ApplyStep
  <2> QED BY <2>8, <2>9 DEF TreeSteps
<1> QED BY <1>7, <1>8

(* So is closing the group.                                                 *)
LEMMA CloseAction ==
  ASSUME NEW n, TextOk(buf, leased, texts, n), CloseGroup
  PROVE  Onward(n) /\ TreeSteps
<1>1. buf.changes = <<>> /\ Lease(Commit(buf), buf.text)
  BY DEF CloseGroup, Idle
<1>2. TextOk(buf, buf.text, texts, n)
  BY <1>1, IdleBase
<1>d. PICK d : d = Commit(buf)
  OBVIOUS
<1>y. PICK ty : ty = TextsOf(texts, d.history.tree, buf.text)
  OBVIOUS
<1>3. buf' = d /\ leased' = buf.text /\ texts' = ty /\ restarts' = restarts
  <2>1. Lease(d, buf.text)
    BY <1>1, <1>d
  <2> QED BY <2>1, <1>y, LeaseIs
<1>4. PICK n1 \in Nat :
           /\ TextOk(d, buf.text, ty, n1) /\ Settles(buf.history, n, texts, buf.text, d.history, n1, ty)
           /\ Remembers(buf, texts, n, d, ty, n1) /\ d.text = buf.text /\ d.epoch = buf.epoch
           /\ d.history.undo = <<>> /\ ty[d.history.at] = d.text
  <2>1. \E n1 \in Nat : Closes(buf, buf.text, texts, n, d, ty, n1)
    <3>l. PICK l : l = buf.text
      OBVIOUS
    <3>1. \E n1 \in Nat : Closes(buf, l, texts, n, d, ty, n1)
      BY <1>2, <1>d, <1>y, <3>l, CloseBuffer
    <3> QED BY <3>1, <3>l
  <2> QED BY <2>1 DEF Closes
<1>5. buf.epoch \in Nat
  BY <1>2, TextOkIs
<1>6. Onward(n)
  BY <1>3, <1>4, <1>5 DEF Onward, Ages
<1>h. PICK h : h = buf.history
  OBVIOUS
<1>g. PICK g : g = d.history
  OBVIOUS
<1>7. Settles(h, n, texts, buf.text, g, n1, ty)
  BY <1>4, <1>h, <1>g
<1>8. CASE buf.history.undo # <<>>
  <2>1. Shaped(h.tree, n) /\ h.at \in 0..n /\ texts \in [0..n -> Whole]
    BY <1>2, <1>h DEF TextOk, TreeOk, Told
  <2>2. AbsT(g, ty) = Tree!Grown(AbsT(h, texts), buf.text)
    BY <1>7, <1>8, <1>h, <2>1, AbsGrown
  <2>3. Abs' = Tree!Grown(Abs, buf.text)
    BY <1>3, <1>g, <1>h, <2>2 DEF Abs
  <2>4. Drafted /\ ~Drafted' /\ buf'.text = buf.text
    BY <1>3, <1>4, <1>8 DEF Drafted
  <2>5. Tree!Next
    BY <2>3, <2>4, CloseStep
  <2> QED BY <1>6, <2>5 DEF TreeSteps
<1>9. CASE buf.history.undo = <<>>
  <2>1. g = h /\ ty = texts
    BY <1>7, <1>9, <1>h DEF Settles
  <2>2. Abs' = Abs /\ ~Drafted /\ ~Drafted' /\ buf'.text = buf.text
    BY <1>3, <1>4, <1>9, <1>g, <1>h, <2>1 DEF Abs, Drafted
  <2>3. UNCHANGED Tree!vars
    BY <2>2, RestStep
  <2> QED BY <1>6, <2>3 DEF TreeSteps
<1> QED BY <1>8, <1>9


(* So is a journey, and it shows the text of its node.                      *)
LEMMA MoveAction ==
  ASSUME NEW n, TextOk(buf, leased, texts, n), NEW cost, NEW k \in 0..n, Move(cost, k)
  PROVE  Onward(n) /\ TreeSteps /\ buf'.text = texts[k]
<1>1. buf.changes = <<>> /\ Lease(Travelled(buf, k), buf.text)
  BY DEF Move, Idle
<1>2. TextOk(buf, buf.text, texts, n)
  BY <1>1, IdleBase
<1>d. PICK d : d = Travelled(buf, k)
  OBVIOUS
<1>y. PICK ty : ty = TextsOf(texts, d.history.tree, buf.text)
  OBVIOUS
<1>3. buf' = d /\ leased' = buf.text /\ texts' = ty /\ restarts' = restarts
  <2>1. Lease(d, buf.text)
    BY <1>1, <1>d
  <2> QED BY <2>1, <1>y, LeaseIs
<1>4. PICK n1 \in Nat :
           /\ TextOk(d, buf.text, ty, n1) /\ Goes(buf, n, texts, k, d, n1, ty)
           /\ Remembers(buf, texts, n, d, ty, n1) /\ Ages(buf, d)
  <2>l. PICK l : l = buf.text
    OBVIOUS
  <2>1. \E n1 \in Nat :
           /\ TextOk(d, l, ty, n1) /\ Goes(buf, n, texts, k, d, n1, ty)
           /\ Remembers(buf, texts, n, d, ty, n1) /\ Ages(buf, d)
    BY <1>2, <1>d, <1>y, <2>l, TravelBuffer
  <2> QED BY <2>1, <2>l
<1>5. Onward(n)
  BY <1>3, <1>4 DEF Onward
<1>6. PICK g : /\ Settles(buf.history, n, texts, buf.text, g, n1, ty)
               /\ Shaped(g.tree, n1) /\ g.at \in 0..n1
               /\ Rerouted(d.history.tree, g.tree, n1, g.at, k)
  BY <1>4 DEF Goes
<1>7. d.history.at = k /\ d.history.undo = <<>> /\ d.text = texts[k]
  BY <1>4 DEF Goes
<1>h. PICK h : h = buf.history
  OBVIOUS
<1>m. PICK m : m = d.history
  OBVIOUS
<1>8. Shaped(h.tree, n) /\ h.at \in 0..n /\ texts \in [0..n -> Whole] /\ n \in Nat
  BY <1>2, <1>h DEF TextOk, TreeOk, Told
<1>9. ty \in [0..n1 -> Whole]
  BY <1>4 DEF TextOk, TreeOk, Told
<1>10. AbsT(g, ty) = SettledAbs
  <2>1. Settles(h, n, texts, buf.text, g, n1, ty)
    BY <1>6, <1>h
  <2>2. CASE h.undo # <<>>
    <3>1. AbsT(g, ty) = Tree!Grown(AbsT(h, texts), buf.text)
      BY <1>8, <2>1, <2>2, AbsGrown
    <3> QED BY <1>h, <2>2, <3>1 DEF SettledAbs, Abs, Drafted
  <2>3. CASE h.undo = <<>>
    <3>1. g = h /\ ty = texts
      BY <2>1, <2>3 DEF Settles
    <3> QED BY <1>h, <2>3, <3>1 DEF SettledAbs, Abs, Drafted
  <2> QED BY <2>2, <2>3
<1>11. AbsT(m, ty) = Tree!Gone(AbsT(g, ty), k)
  <2>1. k \in 0..n1
    BY <1>4, <1>8 DEF Remembers
  <2>2. m.at = k /\ Rerouted(m.tree, g.tree, n1, g.at, k) /\ DOMAIN ty = 0..n1
    BY <1>6, <1>7, <1>9, <1>m
  <2> QED BY <1>6, <2>1, <2>2, AbsGone
<1>12. Abs' = Tree!Gone(SettledAbs, k) /\ ~Drafted' /\ buf'.text = texts[k]
  BY <1>3, <1>7, <1>10, <1>11, <1>m DEF Abs, Drafted
<1>13. Tree!Next
  <2>1. k \in DOMAIN texts
    BY <1>8
  <2> QED BY <1>12, <2>1, GoStep
<1> QED BY <1>5, <1>12, <1>13 DEF TreeSteps

(* So is an undo, and without an open group it shows the text of the        *)
(* parent.                                                                  *)
LEMMA UndoAction ==
  ASSUME NEW n, TextOk(buf, leased, texts, n), Undo
  PROVE  /\ Onward(n) /\ TreeSteps
         /\ buf.history.undo = <<>> => buf'.text = texts[buf.history.tree[buf.history.at].parent]
<1>h. PICK h : h = buf.history
  OBVIOUS
<1>k. PICK k : k = IF h.undo # <<>> THEN h.at ELSE h.tree[h.at].parent
  OBVIOUS
<1>c. PICK cost : cost = UndoCost(h)
  OBVIOUS
<1>1. Move(cost, k)
  BY <1>h, <1>k, <1>c DEF Undo
<1>2. Shaped(h.tree, n) /\ h.at \in 0..n /\ n \in Nat
  BY <1>h DEF TextOk, TreeOk
<1>3. h.tree[h.at].parent \in 0..n
  <2>1. CASE h.at = 0
    BY <1>2, <2>1 DEF Shaped
  <2>2. CASE h.at # 0
    <3>1. h.at \in 1..n
      BY <1>2, <2>2
    <3>2. h.tree[h.at].parent \in Nat /\ h.tree[h.at].parent < h.at
      BY <1>2, <3>1, ShapedParents DEF Parents
    <3> QED BY <1>2, <3>1, <3>2
  <2> QED BY <2>1, <2>2
<1>4. k \in 0..n
  BY <1>2, <1>3, <1>k
<1>5. Onward(n) /\ TreeSteps /\ buf'.text = texts[k]
  BY <1>1, <1>4, MoveAction
<1> QED BY <1>5, <1>h, <1>k

(* So is a redo.                                                            *)
LEMMA RedoAction ==
  ASSUME NEW n, TextOk(buf, leased, texts, n), Redo
  PROVE  Onward(n) /\ TreeSteps
<1>h. PICK h : h = buf.history
  OBVIOUS
<1>k. PICK k : k = h.tree[h.at].last
  OBVIOUS
<1>c. PICK cost : cost = RedoCost(h)
  OBVIOUS
<1>1. Move(cost, k) /\ cost # Refused
  BY <1>h, <1>k, <1>c DEF Redo, Move
<1>2. Shaped(h.tree, n) /\ h.at \in 0..n /\ n \in Nat
  BY <1>h DEF TextOk, TreeOk
<1>3. k # 0
  BY <1>1, <1>c, <1>k DEF RedoCost
<1>4. k \in 0..n
  BY <1>2, <1>3, <1>k DEF Shaped
<1> QED BY <1>1, <1>4, MoveAction

(* So is a jump.                                                            *)
LEMMA JumpAction ==
  ASSUME NEW n, TextOk(buf, leased, texts, n), NEW k \in DOMAIN buf.history.tree, Jump(k)
  PROVE  Onward(n) /\ TreeSteps
<1>1. k \in 0..n
  BY DEF TextOk, TreeOk, Shaped
<1>2. PICK cost : Move(cost, k)
  BY DEF Jump
<1> QED BY <1>1, <1>2, MoveAction

(* So is a number of undo or redo steps.                                    *)
LEMMA StepsAction ==
  ASSUME NEW n, TextOk(buf, leased, texts, n), Steps
  PROVE  Onward(n) /\ TreeSteps
  BY EditAction, BatchAction, CloseAction, UndoAction, RedoAction, JumpAction DEF Steps

(* So is a reload, and it raises the epoch.                                 *)
LEMMA ReloadAction ==
  ASSUME NEW n, TextOk(buf, leased, texts, n), NEW w \in Files, Reload(w)
  PROVE  /\ restarts' = restarts /\ TextOk(buf', leased', texts', 0) /\ TreeSteps
         /\ buf'.epoch > buf.epoch
<1>0. w \in Whole
  BY WholeFiles
<1>1. buf.changes = <<>>
  BY DEF Reload, Idle
<1>2. TextOk(buf, buf.text, texts, n)
  BY <1>1, IdleBase
<1>d. PICK d : d = Snapshotted(buf, w)
  OBVIOUS
<1>y. PICK ty : ty = [k \in {0} |-> w]
  OBVIOUS
<1>3. buf' = d /\ leased' = buf.text /\ texts' = ty /\ restarts' = restarts
  BY <1>d, <1>y DEF Reload
<1>4. /\ buf \in Drafts(buf.text, texts[buf.history.at], buf.history.tree, buf.history.at)
      /\ buf.text \in Seq(Bytes) /\ buf.epoch \in Nat
  <2>1. buf \in Drafts(buf.text, texts[buf.history.at], buf.history.tree, buf.history.at)
    BY <1>2 DEF TextOk
  <2> QED BY <2>1, DraftIs
<1>l. PICK l : l = buf.text
  OBVIOUS
<1>5. TextOk(d, l, ty, 0)
  BY <1>0, <1>4, <1>d, <1>l, <1>y, ReloadBuffer
<1>6. d.text = w /\ d.epoch = buf.epoch + 1
  BY <1>0, <1>4, <1>d, <1>l, <1>y, ReloadBuffer
<1>7. d.history = NewHistory
  BY <1>0, <1>4, <1>d, <1>l, <1>y, ReloadBuffer
<1>8. AbsT(d.history, ty) = Tree!Line(<<w>>)
  BY <1>7, <1>y, FreshLine
<1>9. Abs' = Tree!Line(<<buf'.text>>)
  BY <1>3, <1>6, <1>8 DEF Abs
<1>10. ~Drafted'
  BY <1>3, <1>7 DEF Drafted, NewHistory
<1>11. Tree!Next
  <2>1. buf'.text \in Seq(Bytes)
    BY <1>0, <1>3, <1>6 DEF Whole
  <2> QED BY <1>9, <1>10, <2>1, ResetStep
<1>12. TextOk(buf', leased', texts', 0)
  BY <1>3, <1>5, <1>l
<1>13. buf'.epoch > buf.epoch
  BY <1>3, <1>4, <1>6
<1> QED BY <1>3, <1>11, <1>12, <1>13 DEF TreeSteps

(* So is the release of the lease.                                          *)
LEMMA ReleaseAction ==
  ASSUME NEW n, TextOk(buf, leased, texts, n), Release
  PROVE  Onward(n) /\ TreeSteps
<1>h. PICK h : h = buf.history
  OBVIOUS
<1>d. PICK d : d = [buf EXCEPT !.changes = <<>>]
  OBVIOUS
<1>1. buf' = d /\ leased' = buf.text /\ texts' = texts /\ restarts' = restarts
  BY <1>d DEF Release
<1>2. buf \in Drafts(leased, texts[h.at], h.tree, h.at) /\ n \in Nat /\ TreeOk(h.tree, n, texts, h.at)
  BY <1>h DEF TextOk
<1>3. /\ buf = [text |-> buf.text, epoch |-> buf.epoch, changes |-> buf.changes, history |-> h]
      /\ buf.text \in Whole /\ buf.text \in Seq(Bytes) /\ buf.epoch \in Nat
      /\ h = [tree |-> h.tree, at |-> h.at, undo |-> h.undo, redo |-> h.redo]
      /\ Leads(texts[h.at], h.undo, h.redo, buf.text)
  BY <1>2, <1>h, DraftIs
<1>4. d = [text |-> buf.text, epoch |-> buf.epoch, changes |-> <<>>, history |-> h]
  BY <1>3, <1>d
<1>5. Accounts(buf.text, <<>>, buf.text)
  BY <1>3, AccountsStart
<1>6. d \in Drafts(buf.text, texts[h.at], h.tree, h.at)
  BY <1>3, <1>4, <1>5, IsDraft
<1>7. d.history = h /\ d.text = buf.text /\ d.epoch = buf.epoch
  BY <1>4
<1>8. TextOk(d, buf.text, texts, n)
  BY <1>2, <1>3, <1>6, <1>7 DEF TextOk
<1>9. Onward(n)
  BY <1>1, <1>2, <1>3, <1>7, <1>8, <1>h DEF Onward, Remembers, Ages
<1>10. Abs' = Abs /\ (Drafted' <=> Drafted) /\ buf'.text = buf.text
  BY <1>1, <1>7, <1>h DEF Abs, Drafted
<1> QED BY <1>9, <1>10, RestStep DEF TreeSteps


(* The history with its group closed is the settled abstract tree.          *)
LEMMA LiveIs ==
  ASSUME NEW n, TextOk(buf, leased, texts, n), NEW live, live = Committed(buf.history),
         NEW tx1, tx1 = TextsOf(texts, live.tree, buf.text)
  PROVE  /\ AbsT(live, tx1) = SettledAbs
         /\ \E n1 \in Nat : Parents(live.tree, n1) /\ live.at \in 0..n1
<1>h. PICK h : h = buf.history
  OBVIOUS
<1>0. /\ n \in Nat /\ TreeOk(h.tree, n, texts, h.at)
      /\ buf \in Drafts(leased, texts[h.at], h.tree, h.at)
  BY <1>h DEF TextOk
<1>1. /\ buf.text \in Whole /\ h = [tree |-> h.tree, at |-> h.at, undo |-> h.undo, redo |-> h.redo]
      /\ Leads(texts[h.at], h.undo, h.redo, buf.text)
  BY <1>0, <1>h, DraftIs
<1>v. PICK v : v = live
  OBVIOUS
<1>2. PICK n1 \in Nat : /\ Settles(h, n, texts, buf.text, v, n1, tx1)
                        /\ TreeOk(v.tree, n1, tx1, v.at)
  BY <1>0, <1>1, <1>h, <1>v, CommitOk
<1>3. Shaped(h.tree, n) /\ h.at \in 0..n /\ texts \in [0..n -> Whole]
  BY <1>0 DEF TreeOk, Told
<1>4. AbsT(v, tx1) = SettledAbs
  <2>2. CASE h.undo # <<>>
    <3>1. AbsT(v, tx1) = Tree!Grown(AbsT(h, texts), buf.text)
      BY <1>2, <1>3, <2>2, AbsGrown
    <3> QED BY <1>h, <2>2, <3>1 DEF SettledAbs, Abs, Drafted
  <2>3. CASE h.undo = <<>>
    <3>1. v = h /\ tx1 = texts
      BY <1>2, <2>3 DEF Settles
    <3> QED BY <1>h, <2>3, <3>1 DEF SettledAbs, Abs, Drafted
  <2> QED BY <2>2, <2>3
<1>5. Parents(v.tree, n1) /\ v.at \in 0..n1
  BY <1>2, ShapedParents DEF TreeOk
<1> QED BY <1>4, <1>5, <1>v

(* A session on another text starts a new history.                          *)
LEMMA OpenAction ==
  ASSUME NEW w \in Whole, buf' = NewBuffer(w), leased' = w, texts' = [k \in {0} |-> w]
  PROVE  TextOk(buf', leased', texts', 0) /\ TreeSteps
<1>1. w \in Seq(Bytes)
  BY DEF Whole
<1>d. PICK d : d = NewBuffer(w)
  OBVIOUS
<1>y. PICK ty : ty = [k \in {0} |-> w]
  OBVIOUS
<1>2. d = [text |-> w, epoch |-> 0, changes |-> <<>>, history |-> NewHistory]
  BY <1>d DEF NewBuffer
<1>3. Accounts(w, <<>>, w)
  BY <1>1, AccountsStart
<1>4. TextOk(d, w, ty, 0)
  BY <1>1, <1>2, <1>3, <1>y, FreshBuffer
<1>5. d.history = NewHistory /\ d.text = w
  BY <1>2
<1>6. AbsT(d.history, ty) = Tree!Line(<<w>>)
  BY <1>5, <1>y, FreshLine
<1>7. buf' = d /\ texts' = ty
  BY <1>d, <1>y
<1>8. Abs' = Tree!Line(<<buf'.text>>) /\ ~Drafted' /\ buf'.text \in Seq(Bytes)
  BY <1>1, <1>5, <1>6, <1>7 DEF Abs, Drafted, NewHistory
<1>9. Tree!Next
  BY <1>8, ResetStep
<1> QED BY <1>4, <1>7, <1>9 DEF TreeSteps

(* A session on the text that was left goes on with the history it kept.    *)
LEMMA ReopenAction ==
  ASSUME NEW n, TextOk(buf, leased, texts, n),
         NEW s, s = Snapshot(buf.history), NEW live, live = Committed(buf.history),
         NEW line, line = Chain(live.tree, live.at),
         buf' = [text |-> buf.text, epoch |-> 0, changes |-> <<>>, history |-> s], leased' = buf.text,
         texts' = [k \in 0..s.at |-> IF k = s.at THEN buf.text ELSE texts[line[s.at + 1 - k]]]
  PROVE  TextOk(buf', leased', texts', s.at) /\ TreeSteps
<1>y. PICK ts : ts = [k \in 0..s.at |-> IF k = s.at THEN buf.text ELSE texts[line[s.at + 1 - k]]]
  OBVIOUS
<1>x. PICK tx1 : tx1 = TextsOf(texts, live.tree, buf.text)
  OBVIOUS
<1>d. PICK d : d = [text |-> buf.text, epoch |-> 0, changes |-> <<>>, history |-> s]
  OBVIOUS
<1>0. buf.text \in Whole /\ buf.text \in Seq(Bytes)
  BY TextOkIs
<1>S. Survives(buf, s, live, line, texts, ts)
  BY <1>x, <1>y, SnapshotBuffer
<1>1. TreeOk(s.tree, s.at, ts, s.at)
  BY <1>S DEF Survives
<1>2. ts[s.at] = buf.text
  BY <1>S DEF Survives
<1>3. s = [tree |-> s.tree, at |-> s.at, undo |-> <<>>, redo |-> <<>>]
  BY <1>S DEF Survives
<1>4. s.at \in 0..(Len(line) - 1)
  BY <1>S DEF Survives
<1>5. Straight(s.tree, s.at, live.tree, line)
  BY <1>S DEF Survives
<1>6. Titles(ts, s.at, tx1, line)
  <2>1. TitlesKept(buf.history, ts, texts, buf.text)
    BY <1>S DEF Survives
  <2> QED BY <1>x, <2>1 DEF TitlesKept
<1>7. PICK n1 \in Nat : Parents(live.tree, n1) /\ live.at \in 0..n1
  BY <1>x, LiveIs
<1>8. AbsT(live, tx1) = SettledAbs
  BY <1>x, LiveIs
<1>9. Len(line) \in Nat \ {0}
  BY <1>7, ChainsOf
<1>m. PICK m : m = s.at
  OBVIOUS
<1>10. m \in Nat /\ m + 1 \in 1..Len(line)
  BY <1>4, <1>9, <1>m
<1>11. Leads(ts[s.at], <<>>, <<>>, buf.text)
  BY <1>0, <1>2, NoOps
<1>12. Accounts(buf.text, <<>>, buf.text)
  BY <1>0, AccountsStart
<1>13. d \in Drafts(buf.text, ts[s.at], s.tree, s.at)
  BY <1>0, <1>3, <1>11, <1>12, <1>d, IsDraft
<1>14. d.history = s /\ d.text = buf.text
  BY <1>d
<1>15. TextOk(d, buf.text, ts, s.at)
  BY <1>0, <1>1, <1>10, <1>13, <1>14, <1>m DEF TextOk
<1>16. SettledAbs.texts = tx1 /\ SettledAbs.at = live.at
  BY <1>8, AbsFields
<1>17. Tree!Lineage(SettledAbs, SettledAbs.at) = line
  <2>1. PICK tr : tr = AbsT(live, tx1)
    OBVIOUS
  <2>2. Tree!Lineage(tr, live.at) = Chain(live.tree, live.at)
    BY <1>7, <2>1, LineageIs
  <2> QED BY <1>8, <1>16, <2>1, <2>2
<1>n. PICK names : names = [i \in 1..(m + 1) |-> tx1[line[(m + 1) + 1 - i]]]
  OBVIOUS
<1>18. Len(names) = m + 1
  BY <1>10, <1>n
<1>19. ASSUME NEW k \in 0..m PROVE names[k + 1] = ts[k]
  <2>1. k + 1 \in 1..(m + 1) /\ (m + 1) + 1 - (k + 1) = m + 1 - k
    BY <1>10
  <2>2. names[k + 1] = tx1[line[(m + 1) + 1 - (k + 1)]]
    BY <1>n, <2>1
  <2>3. ts[k] = tx1[line[m + 1 - k]]
    BY <1>6, <1>m DEF Titles
  <2> QED BY <2>1, <2>2, <2>3
<1>20. ts = [k \in 0..m |-> ts[k]]
  BY <1>y, <1>m
<1>v. PICK r : r = s
  OBVIOUS
<1>21. AbsT(r, ts) = Tree!Line(names)
  <2>1. r.at = m /\ Straight(r.tree, m, live.tree, line)
    BY <1>5, <1>m, <1>v
  <2>2. Labels(names, ts, m)
    BY <1>19 DEF Labels
  <2> QED BY <1>10, <1>18, <1>20, <2>1, <2>2, LineIs
<1>22. Abs' = Tree!Line(names) /\ ~Drafted' /\ buf'.text = buf.text
  <2>1. buf' = d /\ texts' = ts
    BY <1>d, <1>y
  <2>2. r.undo = <<>>
    BY <1>3, <1>v
  <2> QED BY <1>14, <1>21, <1>v, <2>1, <2>2 DEF Abs, Drafted
<1>23. Tree!Next
  <2>l. PICK up : up = line
    OBVIOUS
  <2>1. up = Tree!Lineage(SettledAbs, SettledAbs.at)
    BY <1>17, <2>l
  <2>2. m + 1 \in 1..Len(up)
    BY <1>10, <2>l
  <2>3. Abs' = Tree!Line([i \in 1..(m + 1) |-> SettledAbs.texts[up[(m + 1) + 1 - i]]])
    BY <1>16, <1>22, <1>n, <2>l
  <2> QED BY <1>22, <2>1, <2>2, <2>3, ReopenStep
<1> QED BY <1>15, <1>23, <1>d, <1>y DEF TreeSteps

(* A restart keeps the invariant and is a step of the tree.                 *)
LEMMA RestartAction ==
  ASSUME NEW n, TextOk(buf, leased, texts, n), NEW w \in Files \union {buf.text}, Restart(w)
  PROVE  restarts' = restarts + 1 /\ (\E n1 \in Nat : TextOk(buf', leased', texts', n1)) /\ TreeSteps
<1>s. PICK s : s = Snapshot(buf.history)
  OBVIOUS
<1>v. PICK live : live = Committed(buf.history)
  OBVIOUS
<1>l. PICK line : line = Chain(live.tree, live.at)
  OBVIOUS
<1>1. buf' = Restored(w) /\ leased' = w /\ restarts' = restarts + 1
  BY DEF Restart
<1>2. texts' = [k \in 0..buf'.history.at |-> IF k = buf'.history.at THEN w ELSE texts[line[buf'.history.at + 1 - k]]]
  BY <1>v, <1>l DEF Restart
<1>3. w \in Whole
  <2>1. buf.text \in Whole
    BY TextOkIs
  <2>2. CASE w \in Files
    BY <2>2, WholeFiles
  <2> QED BY <2>1, <2>2
<1>4. NewBuffer(w) = [text |-> w, epoch |-> 0, changes |-> <<>>, history |-> NewHistory]
  BY DEF NewBuffer
<1>5. CASE w = buf.text /\ ValidFor(s, w)
  <2>1. buf' = [text |-> buf.text, epoch |-> 0, changes |-> <<>>, history |-> s]
    BY <1>1, <1>4, <1>5, <1>s DEF Restored
  <2>2. buf'.history = s
    BY <2>1
  <2>3. texts' = [k \in 0..s.at |-> IF k = s.at THEN buf.text ELSE texts[line[s.at + 1 - k]]]
    BY <1>2, <1>5, <2>2
  <2>4. leased' = buf.text
    BY <1>1, <1>5
  <2>5. TextOk(buf', leased', texts', s.at) /\ TreeSteps
    BY <1>s, <1>v, <1>l, <2>1, <2>3, <2>4, ReopenAction
  <2>6. s.at \in Nat
    BY <2>5 DEF TextOk
  <2> QED BY <1>1, <2>5, <2>6
<1>6. CASE ~(w = buf.text /\ ValidFor(s, w))
  <2>1. buf' = NewBuffer(w)
    BY <1>1, <1>4, <1>6, <1>s DEF Restored
  <2>2. buf'.history.at = 0
    BY <1>4, <2>1 DEF NewHistory
  <2>3. 0..0 = {0}
    OBVIOUS
  <2>4. texts' = [k \in {0} |-> w]
    BY <1>2, <2>2, <2>3
  <2>5. TextOk(buf', leased', texts', 0) /\ TreeSteps
    BY <1>1, <1>3, <2>1, <2>4, OpenAction
  <2> QED BY <1>1, <2>5
<1> QED BY <1>5, <1>6


(* The receipts a change leaves.                                            *)
Receipts == {None} \union [position : Int, text : Seq(Bytes), owned : BOOLEAN]

(* A receipt that is owned names the revision of its plan.                  *)
ReceiptOk(b, tx, n, r) ==
  r # None /\ r.owned =>
    r.position \in 1..n /\ tx[b.history.tree[r.position].parent] = r.text

(* All receipts that are kept are in order.                                 *)
ReceiptsOk(b, tx, n, rs) == rs \in Seq(Receipts) /\ \A i \in 1..Len(rs) : ReceiptOk(b, tx, n, rs[i])

(* A plan is for the text of its revision.                                  *)
PlanOk(b, p) ==
  p # None =>
    /\ p.base <= b.epoch /\ (p.base = b.epoch => p.text = b.text) /\ p.base \in Nat
    /\ BatchOk(p.edits) /\ Len(p.edits) \in Nat /\ (p.edits # <<>> => Len(p.edits) # 0)
    /\ \A i \in 1..Len(p.edits) : Suits(p.text, p.edits[i])

(* The inductive invariant of the buffer, its receipts and its plan.        *)
ViewInv ==
  /\ restarts \in Nat
  /\ \E n \in Nat : TextOk(buf, leased, texts, n) /\ ReceiptsOk(buf, texts, n, receipts)
  /\ PlanOk(buf, plan)

(* A receipt stays in order while no node is forgotten.                     *)
LEMMA ReceiptStays ==
  ASSUME NEW b, NEW tx, NEW n, NEW l, TextOk(b, l, tx, n), NEW d, NEW ty, NEW n1 \in Nat,
         Remembers(b, tx, n, d, ty, n1), NEW r, ReceiptOk(b, tx, n, r)
  PROVE  ReceiptOk(d, ty, n1, r)
<1>1. n \in Nat /\ Shaped(b.history.tree, n)
  BY TextOkIs
<1>2. SUFFICES ASSUME r # None, r.owned
               PROVE  r.position \in 1..n1 /\ ty[d.history.tree[r.position].parent] = r.text
  BY DEF ReceiptOk
<1>p. PICK p : p = r.position
  OBVIOUS
<1>3. p \in 1..n /\ tx[b.history.tree[p].parent] = r.text
  BY <1>2, <1>p DEF ReceiptOk
<1>4. d.history.tree[p].parent = b.history.tree[p].parent /\ n1 >= n
  BY <1>1, <1>3 DEF Remembers
<1>5. Parents(b.history.tree, n)
  BY <1>1, ShapedParents
<1>6. b.history.tree[p].parent \in 0..n
  BY <1>1, <1>3, <1>5 DEF Parents
<1>7. ty[b.history.tree[p].parent] = tx[b.history.tree[p].parent]
  BY <1>6 DEF Remembers
<1>8. p \in 1..n1
  BY <1>1, <1>3, <1>4
<1> QED BY <1>3, <1>4, <1>7, <1>8, <1>p

(* So do all.                                                               *)
LEMMA ReceiptsStay ==
  ASSUME NEW b, NEW tx, NEW n, NEW l, TextOk(b, l, tx, n), NEW d, NEW ty, NEW n1 \in Nat,
         Remembers(b, tx, n, d, ty, n1), NEW rs, ReceiptsOk(b, tx, n, rs)
  PROVE  ReceiptsOk(d, ty, n1, rs)
<1>1. rs \in Seq(Receipts) /\ \A i \in 1..Len(rs) : ReceiptOk(b, tx, n, rs[i])
  BY DEF ReceiptsOk
<1>2. ASSUME NEW i \in 1..Len(rs) PROVE ReceiptOk(d, ty, n1, rs[i])
  BY <1>1, ReceiptStays
<1> QED BY <1>1, <1>2 DEF ReceiptsOk

(* A plan stays in order while the text changes only with the epoch.        *)
LEMMA PlanStays ==
  ASSUME NEW b, NEW d, NEW p, b.epoch \in Nat, d.epoch \in Nat, Ages(b, d), PlanOk(b, p)
  PROVE  PlanOk(d, p)
  BY DEF PlanOk, Ages

(* What Keep keeps.                                                         *)
LEMMA KeepIs ==
  ASSUME receipts \in Seq(Receipts), NEW r \in Receipts, Keep(r)
  PROVE  /\ receipts' \in Seq(Receipts) /\ Len(receipts') >= Len(receipts)
         /\ \A i \in 1..Len(receipts') :
              receipts'[i] = r \/ \E j \in 1..Len(receipts) : receipts'[i] = receipts[j]
<1>a. PICK all : all = Append(receipts, r)
  OBVIOUS
<1>1. /\ all \in Seq(Receipts) /\ Len(all) = Len(receipts) + 1 /\ Len(receipts) \in Nat
      /\ \A i \in 1..Len(all) : all[i] = IF i = Len(receipts) + 1 THEN r ELSE receipts[i]
  BY <1>a
<1>f. PICK from \in 1..2 : from = IF Len(all) > Retained THEN 2 ELSE 1
  OBVIOUS
<1>2. receipts' = SubSeq(all, from, Len(all))
  BY <1>a, <1>f DEF Keep
<1>3. from = 2 => Len(all) > 1
  BY <1>1, <1>f, ViewConstants
<1>4. /\ receipts' \in Seq(Receipts) /\ Len(receipts') = Len(all) - from + 1
      /\ \A i \in 1..Len(receipts') : receipts'[i] = all[from + i - 1]
  <2>1. Len(all) \in Nat /\ \A i \in from..Len(all) : all[i] \in Receipts
    BY <1>1
  <2>m. PICK m \in Nat : m = Len(all)
    BY <2>1
  <2>2. /\ SubSeq(all, from, m) \in Seq(Receipts)
        /\ Len(SubSeq(all, from, m)) = IF from <= m THEN m - from + 1 ELSE 0
        /\ \A i \in 1..(m - from + 1) : SubSeq(all, from, m)[i] = all[from + i - 1]
    BY <2>1, <2>m, SubSeqProperties
  <2>3. receipts' = SubSeq(all, from, m)
    BY <1>2, <2>m
  <2>4. from <= m
    BY <1>1, <1>3, <2>m
  <2> QED BY <2>m, <2>2, <2>3, <2>4
<1>5. ASSUME NEW i \in 1..Len(receipts')
      PROVE  receipts'[i] = r \/ \E j \in 1..Len(receipts) : receipts'[i] = receipts[j]
  <2>1. from + i - 1 \in 1..Len(all)
    BY <1>1, <1>4
  <2> QED BY <1>1, <1>4, <2>1
<1> QED BY <1>1, <1>4, <1>5

(* The receipts stay in order when one in order is kept.                    *)
LEMMA KeepReceipt ==
  ASSUME NEW b, NEW tx, NEW n, ReceiptsOk(b, tx, n, receipts), NEW r \in Receipts, ReceiptOk(b, tx, n, r), Keep(r)
  PROVE  ReceiptsOk(b, tx, n, receipts')
<1>1. receipts \in Seq(Receipts) /\ \A i \in 1..Len(receipts) : ReceiptOk(b, tx, n, receipts[i])
  BY DEF ReceiptsOk
<1>2. receipts' \in Seq(Receipts)
  BY <1>1, KeepIs
<1>3. \A i \in 1..Len(receipts') : receipts'[i] = r \/ \E j \in 1..Len(receipts) : receipts'[i] = receipts[j]
  BY <1>1, KeepIs
<1>4. ASSUME NEW i \in 1..Len(receipts') PROVE ReceiptOk(b, tx, n, receipts'[i])
  BY <1>1, <1>3
<1> QED BY <1>2, <1>4 DEF ReceiptsOk

(* The receipts but the newest.                                             *)
LEMMA FrontReceipts ==
  ASSUME NEW b, NEW tx, NEW n, NEW rs, ReceiptsOk(b, tx, n, rs), rs # <<>>
  PROVE  ReceiptsOk(b, tx, n, Front(rs)) /\ Len(Front(rs)) = Len(rs) - 1 /\ Len(rs) \in Nat \ {0}
<1>1. rs \in Seq(Receipts) /\ \A i \in 1..Len(rs) : ReceiptOk(b, tx, n, rs[i])
  BY DEF ReceiptsOk
<1>2. Len(rs) \in Nat \ {0}
  BY <1>1, EmptySeq
<1>3. Front(rs) = SubSeq(rs, 1, Len(rs) - 1)
  BY DEF Front
<1>4. /\ Front(rs) \in Seq(Receipts) /\ Len(Front(rs)) = Len(rs) - 1
      /\ \A i \in 1..(Len(rs) - 1) : Front(rs)[i] = rs[i]
  <2>p. PICK q \in Nat : q = Len(rs) - 1
    BY <1>2
  <2>1. \A i \in 1..q : rs[i] \in Receipts
    BY <1>1, <1>2, <2>p
  <2>2. /\ SubSeq(rs, 1, q) \in Seq(Receipts)
        /\ Len(SubSeq(rs, 1, q)) = IF 1 <= q THEN q - 1 + 1 ELSE 0
        /\ \A i \in 1..(q - 1 + 1) : SubSeq(rs, 1, q)[i] = rs[1 + i - 1]
    BY <2>1, SubSeqProperties
  <2>3. \A i \in 1..q : SubSeq(rs, 1, q)[i] = rs[i]
    BY <2>2
  <2> QED BY <1>3, <2>p, <2>2, <2>3
<1>5. \A i \in 1..Len(Front(rs)) : ReceiptOk(b, tx, n, Front(rs)[i])
  BY <1>1, <1>2, <1>4
<1> QED BY <1>2, <1>4, <1>5 DEF ReceiptsOk


(* A plan applied makes its own change of the text it was prepared for.     *)
Planned ==
  PlanApplies => buf.text = plan.text /\ buf'.text = Replaced(plan.text, plan.edits)

(* A change of its own that is taken back leads to the text before it.      *)
TakenBack == TakesBack /\ Newest.owned => buf'.text = Newest.text

(* What holds at a revision of the buffer.                                  *)
Holds(b, l, tx, rs, p, n) == TextOk(b, l, tx, n) /\ ReceiptsOk(b, tx, n, rs) /\ PlanOk(b, p)

(* The invariant, for some number of nodes.                                 *)
LEMMA ViewInvIs ==
  ASSUME ViewInv
  PROVE  restarts \in Nat /\ \E n \in Nat : Holds(buf, leased, texts, receipts, plan, n)
<1>1. PICK n : TextOk(buf, leased, texts, n) /\ ReceiptsOk(buf, texts, n, receipts) /\ PlanOk(buf, plan)
  BY DEF ViewInv
<1>2. n \in Nat
  BY <1>1, TextOkIs
<1> QED BY <1>1, <1>2 DEF Holds, ViewInv

(* What goes on keeps the invariant.                                        *)
LEMMA OnwardHolds ==
  ASSUME NEW n, Holds(buf, leased, texts, receipts, plan, n), Onward(n), restarts \in Nat
  PROVE  /\ restarts' \in Nat /\ restarts' = restarts
         /\ \E n1 \in Nat : Holds(buf', leased', texts', receipts, plan, n1)
<1>1. TextOk(buf, leased, texts, n) /\ ReceiptsOk(buf, texts, n, receipts) /\ PlanOk(buf, plan)
  BY DEF Holds
<1>2. PICK n1 \in Nat : TextOk(buf', leased', texts', n1) /\ Remembers(buf, texts, n, buf', texts', n1)
                        /\ Ages(buf, buf')
  BY DEF Onward
<1>3. ReceiptsOk(buf', texts', n1, receipts)
  BY <1>1, <1>2, ReceiptsStay
<1>4. buf.epoch \in Nat /\ buf'.epoch \in Nat
  BY <1>1, <1>2, TextOkIs
<1>5. PlanOk(buf', plan)
  BY <1>1, <1>2, <1>4, PlanStays
<1>6. restarts' = restarts
  BY DEF Onward
<1> QED BY <1>2, <1>3, <1>5, <1>6 DEF Holds

(* A step of the buffer alone keeps the invariant.                          *)
LEMMA QuietStep ==
  ASSUME ViewInv, Steps, Quiet
  PROVE  ViewInv' /\ TreeSteps /\ Planned /\ TakenBack
<1>1. PICK n \in Nat : Holds(buf, leased, texts, receipts, plan, n)
  BY ViewInvIs
<1>2. Onward(n) /\ TreeSteps
  <2>1. TextOk(buf, leased, texts, n)
    BY <1>1 DEF Holds
  <2> QED BY <2>1, StepsAction
<1>3. restarts' \in Nat /\ \E n1 \in Nat : Holds(buf', leased', texts', receipts, plan, n1)
  BY <1>1, <1>2, ViewInvIs, OnwardHolds
<1>4. receipts' = receipts /\ plan' = plan
  BY DEF Quiet
<1>5. ViewInv'
  BY <1>3, <1>4 DEF Holds, ViewInv
<1>6. Planned
  BY <1>4 DEF Planned, PlanApplies
<1>7. TakenBack
  <2>1. receipts # <<>> => receipts # Front(receipts)
    BY <1>1, FrontReceipts DEF Holds
  <2> QED BY <1>4, <2>1, Zenon DEF TakenBack, TakesBack
<1> QED BY <1>2, <1>5, <1>6, <1>7

(* Moving the view keeps the invariant.                                     *)
LEMMA SyncStep ==
  ASSUME ViewInv, Sync
  PROVE  ViewInv' /\ TreeSteps /\ Planned /\ TakenBack
<1>1. PICK n \in Nat : Holds(buf, leased, texts, receipts, plan, n)
  BY ViewInvIs
<1>2. Onward(n) /\ TreeSteps
  <2>1. TextOk(buf, leased, texts, n) /\ Release
    BY <1>1 DEF Holds, Sync
  <2> QED BY <2>1, ReleaseAction
<1>3. restarts' \in Nat /\ \E n1 \in Nat : Holds(buf', leased', texts', receipts, plan, n1)
  BY <1>1, <1>2, ViewInvIs, OnwardHolds
<1>4. receipts' = receipts /\ plan' = plan
  BY DEF Sync
<1>5. ViewInv'
  BY <1>3, <1>4 DEF Holds, ViewInv
<1>6. Planned
  BY <1>4 DEF Planned, PlanApplies
<1>7. TakenBack
  <2>1. receipts # <<>> => receipts # Front(receipts)
    BY <1>1, FrontReceipts DEF Holds
  <2> QED BY <1>4, <2>1, Zenon DEF TakenBack, TakesBack
<1> QED BY <1>2, <1>5, <1>6, <1>7

(* What leaves the buffer.                                                  *)
LEMMA StillText ==
  ASSUME UNCHANGED textVars
  PROVE  /\ buf' = buf /\ leased' = leased /\ texts' = texts /\ restarts' = restarts /\ TreeSteps
<1>1. buf' = buf /\ leased' = leased /\ texts' = texts /\ restarts' = restarts
  BY DEF textVars
<1>2. Abs' = Abs /\ (Drafted' <=> Drafted) /\ buf'.text = buf.text
  BY <1>1 DEF Abs, AbsT, Drafted
<1>3. UNCHANGED Tree!vars
  BY <1>1 DEF Tree!vars
<1> QED BY <1>1, <1>3 DEF TreeSteps

(* Preparing a plan keeps the invariant.                                    *)
LEMMA PrepareStep ==
  ASSUME ViewInv, NEW edits \in Seq(ReplacementsOf(buf.text)), Prepare(edits)
  PROVE  ViewInv' /\ TreeSteps /\ Planned /\ TakenBack
<1>1. PICK n \in Nat : Holds(buf, leased, texts, receipts, plan, n)
  BY ViewInvIs
<1>2. /\ buf' = buf /\ leased' = leased /\ texts' = texts /\ restarts' = restarts /\ TreeSteps
  BY StillText DEF Prepare
<1>3. /\ plan = None /\ BatchOk(edits) /\ receipts' = receipts
      /\ plan' = [base |-> buf.epoch, edits |-> edits, text |-> buf.text]
  BY DEF Prepare
<1>4. buf.text \in Whole /\ buf.epoch \in Nat
  BY <1>1, TextOkIs DEF Holds
<1>5. Len(edits) \in Nat /\ (edits # <<>> => Len(edits) # 0)
  BY EmptySeq
<1>6. ASSUME NEW i \in 1..Len(edits) PROVE Suits(buf.text, edits[i])
  <2>1. edits[i] \in ReplacementsOf(buf.text)
    BY ElementOf
  <2> QED BY <1>4, <2>1, ChoiceSuits
<1>p. PICK p : p = [base |-> buf.epoch, edits |-> edits, text |-> buf.text]
  OBVIOUS
<1>7. PlanOk(buf, p)
  <2>1. p.base = buf.epoch /\ p.edits = edits /\ p.text = buf.text
    BY <1>p
  <2> QED BY <1>3, <1>4, <1>5, <1>6, <2>1 DEF PlanOk
<1>8. ViewInv'
  <2>1. PlanOk(buf', plan')
    BY <1>2, <1>3, <1>7, <1>p
  <2>2. restarts \in Nat
    BY DEF ViewInv
  <2> QED BY <1>1, <1>2, <1>3, <2>1, <2>2 DEF Holds, ViewInv
<1>9. Planned
  BY <1>3 DEF Planned, PlanApplies
<1>10. TakenBack
  <2>1. receipts # <<>> => receipts # Front(receipts)
    BY <1>1, FrontReceipts DEF Holds
  <2> QED BY <1>3, <2>1, Zenon DEF TakenBack, TakesBack
<1> QED BY <1>2, <1>8, <1>9, <1>10

(* No plan is in order.                                                     *)
LEMMA NoPlan ==
  ASSUME NEW b
  PROVE  PlanOk(b, None)
  BY DEF PlanOk

(* Keeping a receipt is not dropping one.                                   *)
LEMMA KeepsNoFront ==
  ASSUME receipts \in Seq(Receipts), NEW r \in Receipts, Keep(r), receipts # <<>>
  PROVE  receipts' # Front(receipts)
<1>1. Len(receipts') >= Len(receipts) /\ Len(receipts) \in Nat
  BY KeepIs
<1>2. Len(receipts) \in Nat \ {0} /\ Front(receipts) = SubSeq(receipts, 1, Len(receipts) - 1)
  BY EmptySeq DEF Front
<1>p. PICK q \in Nat : q = Len(receipts) - 1
  BY <1>2
<1>3. Len(SubSeq(receipts, 1, q)) = IF 1 <= q THEN q - 1 + 1 ELSE 0
  <2>1. \A i \in 1..q : receipts[i] \in Receipts
    BY <1>2, <1>p
  <2> QED BY <2>1, SubSeqProperties
<1> QED BY <1>1, <1>2, <1>3, <1>p

(* Refusing a plan keeps the invariant.                                     *)
LEMMA RefuseStep ==
  ASSUME ViewInv, RefusePlan
  PROVE  ViewInv' /\ TreeSteps /\ Planned /\ TakenBack
<1>1. PICK n \in Nat : Holds(buf, leased, texts, receipts, plan, n)
  BY ViewInvIs
<1>2. /\ buf' = buf /\ leased' = leased /\ texts' = texts /\ restarts' = restarts /\ TreeSteps
  BY StillText DEF RefusePlan
<1>3. plan' = None /\ Keep(None)
  BY DEF RefusePlan
<1>r. PICK r : r = None
  OBVIOUS
<1>4. r \in Receipts /\ ReceiptOk(buf, texts, n, r) /\ Keep(r)
  BY <1>3, <1>r DEF Receipts, ReceiptOk
<1>5. TextOk(buf, leased, texts, n) /\ ReceiptsOk(buf, texts, n, receipts) /\ receipts \in Seq(Receipts)
  BY <1>1 DEF Holds, ReceiptsOk
<1>6. ReceiptsOk(buf, texts, n, receipts')
  BY <1>4, <1>5, KeepReceipt
<1>7. ViewInv'
  <2>1. restarts \in Nat /\ PlanOk(buf', plan')
    BY <1>3, NoPlan DEF ViewInv
  <2> QED BY <1>2, <1>5, <1>6, <2>1 DEF ViewInv
<1>8. Planned
  BY <1>2 DEF Planned, PlanApplies
<1>9. TakenBack
  BY <1>4, <1>5, KeepsNoFront DEF TakenBack, TakesBack
<1> QED BY <1>2, <1>7, <1>8, <1>9

(* Applying a plan with edits keeps the invariant, and the change is the    *)
(* plan's own.                                                              *)
LEMMA ApplyStepOf ==
  ASSUME ViewInv, ApplyPlan, plan.edits # <<>>,
         NEW b, b = Commit(BatchEdited(buf, plan.edits)), Lease(b, b.text),
         Keep(Receipt(b, buf.history.undo = <<>>))
  PROVE  ViewInv' /\ TreeSteps /\ Planned /\ TakenBack
<1>1. PICK n \in Nat : Holds(buf, leased, texts, receipts, plan, n)
  BY ViewInvIs
<1>2. buf.changes = <<>> /\ plan # None /\ plan.base = buf.epoch /\ plan' = None
  BY DEF ApplyPlan, Idle, Admitted
<1>3. TextOk(buf, leased, texts, n) /\ ReceiptsOk(buf, texts, n, receipts) /\ PlanOk(buf, plan)
  BY <1>1 DEF Holds
<1>4. TextOk(buf, buf.text, texts, n)
  BY <1>2, <1>3, IdleBase
<1>5. /\ plan.text = buf.text /\ BatchOk(plan.edits) /\ Len(plan.edits) \in Nat \ {0}
      /\ \A i \in 1..Len(plan.edits) : Suits(buf.text, plan.edits[i])
  BY <1>2, <1>3 DEF PlanOk
<1>m. PICK edits : edits = plan.edits
  OBVIOUS
<1>e. PICK e : e = BatchEdited(buf, edits)
  OBVIOUS
<1>d. PICK d : d = b
  OBVIOUS
<1>y. PICK ty : ty = TextsOf(texts, d.history.tree, e.text)
  OBVIOUS
<1>w. PICK te : te = TextsOf(texts, e.history.tree, e.text)
  OBVIOUS
<1>6. Len(edits) \in Nat \ {0} /\ BatchOk(edits) /\ \A i \in 1..Len(edits) : Suits(buf.text, edits[i])
  BY <1>5, <1>m
<1>7. d = Commit(e)
  BY <1>m, <1>e, <1>d
<1>8. Becomes(buf, texts, n, edits, d, ty)
  BY <1>4, <1>6, <1>7, <1>e, <1>y, BatchCommitted
<1>9. d.text = e.text
  <2>1. TextOk(e, buf.text, te, n)
    BY <1>4, <1>6, <1>e, <1>w, BatchBuffer
  <2>2. e = [text |-> e.text, epoch |-> e.epoch, changes |-> e.changes, history |-> e.history]
    BY <2>1, TextOkIs
  <2> QED BY <1>7, <2>2 DEF Commit
<1>10. buf' = d /\ leased' = buf.text /\ texts' = ty /\ restarts' = restarts
  <2>1. Lease(d, d.text)
    BY <1>d
  <2> QED BY <1>9, <1>y, <2>1, LeaseIs
<1>11. TextOk(d, buf.text, ty, n + 1) /\ Remembers(buf, texts, n, d, ty, n + 1) /\ Ages(buf, d)
  BY <1>8 DEF Becomes
<1>12. d.text = Replaced(buf.text, edits) /\ d.history.undo = <<>> /\ d.history.at = n + 1
       /\ d.history.tree[n + 1].parent = buf.history.at
  BY <1>8 DEF Becomes, Effects
<1>13. ReceiptsOk(d, ty, n + 1, receipts)
  <2>1. n + 1 \in Nat
    OBVIOUS
  <2> QED BY <1>3, <1>11, <2>1, ReceiptsStay
<1>o. PICK own \in BOOLEAN : own = (buf.history.undo = <<>>)
  OBVIOUS
<1>r. PICK r : r = Receipt(d, own)
  OBVIOUS
<1>14. r = [position |-> n + 1, text |-> buf.text, owned |-> own]
  BY <1>12, <1>r DEF Receipt, Position
<1>15. r \in Receipts
  <2>1. buf.text \in Seq(Bytes)
    BY <1>3, TextOkIs
  <2> QED BY <1>14, <2>1 DEF Receipts
<1>16. ReceiptOk(d, ty, n + 1, r)
  <2>1. SUFFICES ASSUME own PROVE ty[buf.history.at] = buf.text
    BY <1>12, <1>14 DEF ReceiptOk
  <2>2. buf.history.at \in 0..n /\ buf \in Drafts(leased, texts[buf.history.at], buf.history.tree, buf.history.at)
    BY <1>3, TextOkIs
  <2>3. ty[buf.history.at] = texts[buf.history.at]
    BY <1>11, <2>2 DEF Remembers
  <2>4. buf.history.undo = <<>>
    BY <1>o, <2>1
  <2>5. Leads(texts[buf.history.at], buf.history.undo, buf.history.redo, buf.text)
    BY <2>2, DraftIs
  <2>6. texts[buf.history.at] = buf.text
    <3>l. PICK t0 : t0 = texts[buf.history.at]
      OBVIOUS
    <3>1. t0 \in Seq(Bytes) /\ buf.text \in Seq(Bytes)
      BY <1>3, <3>l, TextOkIs
    <3>2. Leads(t0, <<>>, buf.history.redo, buf.text)
      BY <2>4, <2>5, <3>l
    <3>3. t0 = buf.text
      BY <3>1, <3>2, NoOps
    <3> QED BY <3>3, <3>l
  <2> QED BY <2>3, <2>6
<1>17. Keep(r)
  BY <1>d, <1>o, <1>r
<1>18. ReceiptsOk(d, ty, n + 1, receipts')
  BY <1>13, <1>15, <1>16, <1>17, KeepReceipt
<1>19. ViewInv'
  <2>1. restarts \in Nat /\ PlanOk(buf', plan')
    BY <1>2, NoPlan DEF ViewInv
  <2> QED BY <1>10, <1>11, <1>18, <2>1 DEF ViewInv
<1>20. Planned
  BY <1>5, <1>10, <1>12, <1>m DEF Planned
<1>21. TakenBack
  <2>1. receipts \in Seq(Receipts)
    BY <1>3 DEF ReceiptsOk
  <2> QED BY <1>15, <1>17, <2>1, KeepsNoFront DEF TakenBack, TakesBack
<1>22. Tree!Next
  <2>1. AbsT(d.history, ty) = Tree!Grown(AbsT(buf.history, texts), d.text)
    BY <1>8 DEF Becomes
  <2>2. d.text \in Seq(Bytes)
    BY <1>11, TextOkIs
  <2>3. Abs' = Tree!Grown(Abs, buf'.text)
    BY <1>10, <2>1 DEF Abs
  <2>4. ~Drafted'
    BY <1>10, <1>12 DEF Drafted
  <2> QED BY <1>10, <2>2, <2>3, <2>4, ApplyStep
<1> QED BY <1>19, <1>20, <1>21, <1>22 DEF TreeSteps


(* Applying a plan without edits changes no text.                           *)
LEMMA IdleApplyStep ==
  ASSUME ViewInv, ApplyPlan, Keep(Receipt(buf, FALSE)), UNCHANGED textVars
  PROVE  ViewInv' /\ TreeSteps /\ Planned /\ TakenBack
<1>1. PICK n \in Nat : Holds(buf, leased, texts, receipts, plan, n)
  BY ViewInvIs
<1>2. /\ buf' = buf /\ leased' = leased /\ texts' = texts /\ restarts' = restarts /\ TreeSteps
  BY StillText
<1>3. plan' = None
  BY DEF ApplyPlan
<1>4. TextOk(buf, leased, texts, n) /\ ReceiptsOk(buf, texts, n, receipts) /\ receipts \in Seq(Receipts)
  BY <1>1 DEF Holds, ReceiptsOk
<1>r. PICK r : r = Receipt(buf, FALSE)
  OBVIOUS
<1>5. r \in Receipts /\ r.owned = FALSE
  <2>p. PICK p : p = Position(buf.history)
    OBVIOUS
  <2>1. n \in Nat /\ buf.history.at \in 0..n /\ buf.text \in Seq(Bytes)
    BY <1>4, TextOkIs
  <2>2. p \in Int
    BY <2>1, <2>p DEF Position
  <2>3. r = [position |-> p, text |-> buf.text, owned |-> FALSE]
    BY <1>r, <2>p DEF Receipt
  <2> QED BY <2>1, <2>2, <2>3 DEF Receipts
<1>6. ReceiptOk(buf, texts, n, r) /\ Keep(r)
  BY <1>5, <1>r DEF ReceiptOk
<1>7. ReceiptsOk(buf, texts, n, receipts')
  BY <1>4, <1>5, <1>6, KeepReceipt
<1>8. ViewInv'
  <2>1. restarts \in Nat /\ PlanOk(buf', plan')
    BY <1>3, NoPlan DEF ViewInv
  <2> QED BY <1>2, <1>4, <1>7, <2>1 DEF ViewInv
<1>9. Planned
  BY <1>2 DEF Planned, PlanApplies
<1>10. TakenBack
  BY <1>4, <1>5, <1>6, KeepsNoFront DEF TakenBack, TakesBack
<1> QED BY <1>2, <1>8, <1>9, <1>10

(* Applying a plan keeps the invariant, and the change is the plan's own.   *)
LEMMA ApplyPlanStep ==
  ASSUME ViewInv, ApplyPlan
  PROVE  ViewInv' /\ TreeSteps /\ Planned /\ TakenBack
<1>1. CASE /\ plan.edits # <<>>
           /\ \E b \in {Commit(BatchEdited(buf, plan.edits))} :
                Lease(b, b.text) /\ Keep(Receipt(b, buf.history.undo = <<>>))
  <2>b. PICK b : b = Commit(BatchEdited(buf, plan.edits))
    OBVIOUS
  <2>1. plan.edits # <<>> /\ Lease(b, b.text) /\ Keep(Receipt(b, buf.history.undo = <<>>))
    BY <1>1, <2>b
  <2> QED BY <2>b, <2>1, ApplyStepOf
<1>2. CASE Keep(Receipt(buf, FALSE)) /\ UNCHANGED textVars
  BY <1>2, IdleApplyStep
<1> QED BY <1>1, <1>2 DEF ApplyPlan

(* Taking a change back keeps the invariant, and leads to the text before a *)
(* change of its own.                                                       *)
LEMMA UndoChangeStep ==
  ASSUME ViewInv, UndoChange
  PROVE  ViewInv' /\ TreeSteps /\ Planned /\ TakenBack
<1>1. PICK n \in Nat : Holds(buf, leased, texts, receipts, plan, n)
  BY ViewInvIs
<1>2. receipts # <<>> /\ receipts' = Front(receipts) /\ plan' = plan /\ restarts \in Nat
  BY ViewInvIs DEF UndoChange
<1>3. TextOk(buf, leased, texts, n) /\ ReceiptsOk(buf, texts, n, receipts) /\ PlanOk(buf, plan)
  BY <1>1 DEF Holds
<1>4. Planned
  BY <1>2 DEF Planned, PlanApplies
<1>5. CASE Newest # None /\ Newest.position = buf.history.at /\ buf.history.undo = <<>> /\ Undo
  <2>1. Onward(n) /\ TreeSteps /\ buf'.text = texts[buf.history.tree[buf.history.at].parent]
    BY <1>3, <1>5, UndoAction
  <2>2. restarts' \in Nat /\ \E n1 \in Nat : Holds(buf', leased', texts', receipts, plan, n1)
    BY <1>1, <1>2, <2>1, OnwardHolds
  <2>3. PICK n1 \in Nat : TextOk(buf', leased', texts', n1) /\ ReceiptsOk(buf', texts', n1, receipts) /\ PlanOk(buf', plan)
    BY <2>2 DEF Holds
  <2>4. ReceiptsOk(buf', texts', n1, receipts')
    BY <1>2, <2>3, FrontReceipts
  <2>5. ViewInv'
    BY <1>2, <2>2, <2>3, <2>4 DEF ViewInv
  <2>6. TakenBack
    <3>1. Len(receipts) \in Nat \ {0}
      BY <1>2, <1>3, FrontReceipts
    <3>2. ReceiptOk(buf, texts, n, Newest)
      BY <1>3, <3>1 DEF ReceiptsOk, Newest
    <3>3. Newest.owned => texts[buf.history.tree[Newest.position].parent] = Newest.text
      BY <1>5, <3>2 DEF ReceiptOk
    <3> QED BY <1>5, <2>1, <3>3 DEF TakenBack
  <2> QED BY <1>4, <2>1, <2>5, <2>6
<1>6. CASE Newest = None /\ UNCHANGED textVars
  <2>1. /\ buf' = buf /\ leased' = leased /\ texts' = texts /\ restarts' = restarts /\ TreeSteps
    BY <1>6, StillText
  <2>2. ReceiptsOk(buf, texts, n, receipts')
    BY <1>2, <1>3, FrontReceipts
  <2>3. ViewInv'
    BY <1>2, <1>3, <2>1, <2>2 DEF ViewInv
  <2>4. TakenBack
    BY <1>6 DEF TakenBack, TakesBack
  <2> QED BY <1>4, <2>1, <2>3, <2>4
<1> QED BY <1>5, <1>6 DEF UndoChange

(* A reload keeps the invariant.                                            *)
LEMMA ReloadStep ==
  ASSUME ViewInv, NEW w \in Files, ViewReload(w)
  PROVE  ViewInv' /\ TreeSteps /\ Planned /\ TakenBack
<1>1. PICK n \in Nat : Holds(buf, leased, texts, receipts, plan, n)
  BY ViewInvIs
<1>2. TextOk(buf, leased, texts, n) /\ ReceiptsOk(buf, texts, n, receipts) /\ PlanOk(buf, plan) /\ Reload(w)
  BY <1>1 DEF Holds, ViewReload
<1>3. restarts' = restarts /\ TextOk(buf', leased', texts', 0) /\ TreeSteps /\ buf'.epoch > buf.epoch
  BY <1>2, ReloadAction
<1>4. plan' = plan /\ receipts' = [i \in DOMAIN receipts |->
                    IF receipts[i] = None THEN None ELSE [receipts[i] EXCEPT !.owned = FALSE]]
  BY DEF ViewReload
<1>5. receipts \in Seq(Receipts) /\ DOMAIN receipts = 1..Len(receipts) /\ Len(receipts) \in Nat
  BY <1>2 DEF ReceiptsOk
<1>6. ASSUME NEW i \in 1..Len(receipts)
      PROVE  receipts'[i] \in Receipts /\ ReceiptOk(buf', texts', 0, receipts'[i])
  <2>1. receipts[i] \in Receipts
    BY <1>5
  <2>2. receipts'[i] = IF receipts[i] = None THEN None ELSE [receipts[i] EXCEPT !.owned = FALSE]
    BY <1>4, <1>5
  <2>3. CASE receipts[i] = None
    <3>1. receipts'[i] = None
      BY <2>2, <2>3
    <3> QED BY <3>1 DEF Receipts, ReceiptOk
  <2>4. CASE receipts[i] # None
    <3>1. receipts[i] \in [position : Int, text : Seq(Bytes), owned : BOOLEAN]
      BY <2>1, <2>4 DEF Receipts
    <3>2. /\ receipts'[i] \in [position : Int, text : Seq(Bytes), owned : BOOLEAN]
          /\ receipts'[i].owned = FALSE
      BY <2>2, <2>4, <3>1
    <3> QED BY <3>2 DEF Receipts, ReceiptOk
  <2> QED BY <2>3, <2>4
<1>7. receipts' \in Seq(Receipts) /\ Len(receipts') = Len(receipts)
  BY <1>4, <1>5, <1>6
<1>8. ReceiptsOk(buf', texts', 0, receipts')
  BY <1>6, <1>7 DEF ReceiptsOk
<1>9. PlanOk(buf', plan')
  <2>1. buf.epoch \in Nat /\ buf'.epoch \in Nat
    BY <1>2, <1>3, TextOkIs
  <2>2. Ages(buf, buf')
    BY <1>3, <2>1 DEF Ages
  <2> QED BY <1>2, <1>4, <2>1, <2>2, PlanStays
<1>10. ViewInv'
  BY <1>3, <1>8, <1>9, ViewInvIs DEF ViewInv
<1>11. Planned
  BY <1>4 DEF Planned, PlanApplies
<1>12. TakenBack
  <2>1. receipts # <<>> => Len(Front(receipts)) = Len(receipts) - 1
    BY <1>2, FrontReceipts
  <2>2. receipts # <<>> => receipts' # Front(receipts)
    BY <1>5, <1>7, <2>1
  <2> QED BY <2>2 DEF TakenBack, TakesBack
<1> QED BY <1>3, <1>10, <1>11, <1>12

(* A restart keeps the invariant.                                           *)
LEMMA RestartStep ==
  ASSUME ViewInv, NEW w \in Files \union {buf.text}, ViewRestart(w)
  PROVE  ViewInv' /\ TreeSteps /\ Planned /\ TakenBack
<1>1. PICK n \in Nat : Holds(buf, leased, texts, receipts, plan, n)
  BY ViewInvIs
<1>2. restarts' = restarts + 1 /\ (\E n1 \in Nat : TextOk(buf', leased', texts', n1)) /\ TreeSteps
  <2>1. TextOk(buf, leased, texts, n) /\ Restart(w)
    BY <1>1 DEF Holds, ViewRestart
  <2> QED BY <2>1, RestartAction
<1>3. plan' = None /\ receipts' = <<>> /\ restarts \in Nat
  BY ViewInvIs DEF ViewRestart
<1>4. PICK n1 \in Nat : TextOk(buf', leased', texts', n1)
  BY <1>2
<1>5. ReceiptsOk(buf', texts', n1, <<>>)
  BY EmptySeq DEF ReceiptsOk
<1>6. ViewInv'
  <2>1. PlanOk(buf', plan')
    BY <1>3, NoPlan
  <2>2. ReceiptsOk(buf', texts', n1, receipts')
    BY <1>3, <1>5
  <2>3. restarts' \in Nat
    BY <1>2, <1>3
  <2> QED BY <1>4, <2>1, <2>2, <2>3 DEF ViewInv
<1>7. Planned /\ TakenBack
  BY <1>2, <1>3 DEF Planned, PlanApplies, TakenBack, TakesBack
<1> QED BY <1>2, <1>6, <1>7

(* A stutter keeps the invariant.                                           *)
LEMMA StillStep ==
  ASSUME ViewInv, UNCHANGED vars
  PROVE  ViewInv' /\ TreeSteps /\ Planned /\ TakenBack
<1>1. PICK n \in Nat : Holds(buf, leased, texts, receipts, plan, n)
  BY ViewInvIs
<1>2. /\ buf' = buf /\ leased' = leased /\ texts' = texts /\ restarts' = restarts /\ TreeSteps
  BY StillText DEF vars
<1>3. plan' = plan /\ receipts' = receipts
  BY DEF vars
<1>4. ViewInv'
  BY <1>1, <1>2, <1>3, ViewInvIs DEF Holds, ViewInv
<1>5. Planned
  BY <1>2 DEF Planned, PlanApplies
<1>6. TakenBack
  <2>1. receipts # <<>> => receipts # Front(receipts)
    BY <1>1, FrontReceipts DEF Holds
  <2> QED BY <1>3, <2>1, Zenon DEF TakenBack, TakesBack
<1> QED BY <1>2, <1>4, <1>5, <1>6

(* Every step keeps the invariant, is a step of the abstract tree, and does *)
(* of plans and receipts what they promise.                                 *)
LEMMA ViewStep ==
  ASSUME ViewInv, [ViewNext]_vars
  PROVE  ViewInv' /\ TreeSteps /\ Planned /\ TakenBack
<1>1. CASE Steps /\ Quiet
  BY <1>1, QuietStep
<1>2. CASE Sync
  BY <1>2, SyncStep
<1>3. ASSUME NEW edits \in Seq(ReplacementsOf(buf.text)), Prepare(edits)
      PROVE  ViewInv' /\ TreeSteps /\ Planned /\ TakenBack
  BY <1>3, PrepareStep
<1>4. CASE ApplyPlan
  BY <1>4, ApplyPlanStep
<1>5. CASE RefusePlan
  BY <1>5, RefuseStep
<1>6. CASE UndoChange
  BY <1>6, UndoChangeStep
<1>7. ASSUME NEW w \in Files, ViewReload(w)
      PROVE  ViewInv' /\ TreeSteps /\ Planned /\ TakenBack
  BY <1>7, ReloadStep
<1>8. ASSUME NEW w \in Files \union {buf.text}, ViewRestart(w)
      PROVE  ViewInv' /\ TreeSteps /\ Planned /\ TakenBack
  BY <1>8, RestartStep
<1>9. CASE UNCHANGED vars
  BY <1>9, StillStep
<1> QED BY <1>1, <1>2, <1>3, <1>4, <1>5, <1>6, <1>7, <1>8, <1>9 DEF ViewNext

(* The invariant holds initially, and so does the initial predicate of the  *)
(* tree.                                                                    *)
LEMMA ViewStart ==
  ASSUME ViewInit
  PROVE  ViewInv /\ Tree!Init
<1>1. PICK w \in Files : buf = NewBuffer(w)
  BY DEF ViewInit, Init
<1>2. leased = buf.text /\ texts = [k \in {0} |-> buf.text] /\ restarts = 0 /\ plan = None /\ receipts = <<>>
  BY DEF ViewInit, Init
<1>3. w \in Whole
  BY WholeFiles
<1>4. w \in Seq(Bytes)
  BY <1>3 DEF Whole
<1>5. buf = [text |-> w, epoch |-> 0, changes |-> <<>>, history |-> NewHistory]
  BY <1>1 DEF NewBuffer
<1>6. buf.text = w /\ buf.history = NewHistory
  BY <1>5
<1>7. Accounts(w, <<>>, w)
  BY <1>4, AccountsStart
<1>y. PICK ty : ty = [k \in {0} |-> w]
  OBVIOUS
<1>8. texts = ty
  BY <1>2, <1>6, <1>y
<1>d. PICK d : d = buf
  OBVIOUS
<1>9. TextOk(d, w, ty, 0)
  BY <1>3, <1>4, <1>5, <1>7, <1>d, <1>y, FreshBuffer
<1>10. TextOk(buf, leased, texts, 0)
  BY <1>2, <1>6, <1>8, <1>9, <1>d
<1>11. ReceiptsOk(buf, texts, 0, <<>>)
  BY EmptySeq DEF ReceiptsOk
<1>12. PlanOk(buf, plan)
  BY <1>2, NoPlan
<1>13. ViewInv
  BY <1>2, <1>10, <1>11, <1>12 DEF ViewInv
<1>14. AbsT(d.history, ty) = Tree!Line(<<w>>)
  BY <1>6, <1>d, <1>y, FreshLine
<1>15. Abs = Tree!Line(<<buf.text>>)
  BY <1>6, <1>8, <1>14, <1>d DEF Abs
<1>16. (buf.history.undo # <<>>) = FALSE
  BY <1>6 DEF NewHistory
<1>17. Tree!Init
  BY <1>4, <1>6, <1>15, <1>16 DEF Tree!Init, Abs, AbsT
<1> QED BY <1>13, <1>17

(* Every reachable state satisfies the inductive invariant: the buffer and  *)
(* its history (history.rs, buffer/mutation.rs), the receipts of changes    *)
(* and the plan that is prepared (changes/mod.rs) are in order.             *)
THEOREM ViewInvariant == ViewSpec => []ViewInv
<1>1. ViewInit => ViewInv
  BY ViewStart
<1>2. ViewInv /\ [ViewNext]_vars => ViewInv'
  BY ViewStep
<1> QED BY <1>1, <1>2, PTL DEF ViewSpec

(* The history of a buffer implements the abstract undo tree: undo, redo    *)
(* and jumps show the text that was committed at the revision they reach,   *)
(* whatever was edited, batched, undone or reopened since, and redo follows *)
(* the branch visited last (history.rs).                                    *)
THEOREM HistoryKeepsTree == ViewSpec => KeepsTree
<1>1. ViewInit => Tree!Init
  BY ViewStart
<1>2. ViewInv /\ [ViewNext]_vars => [Tree!Next]_(Tree!vars)
  BY ViewStep DEF TreeSteps
<1> QED BY <1>1, <1>2, ViewInvariant, PTL DEF ViewSpec, KeepsTree, Tree!Spec

(* What a session keeps of a history is valid for the text it was taken     *)
(* with, and walking it back shows the texts the live history would show    *)
(* (history.rs, history/validate.rs).                                       *)
THEOREM SessionsRestore == ViewSpec => []SnapshotRestores
<1>1. ViewInv => SnapshotRestores
  <2> SUFFICES ASSUME ViewInv PROVE SnapshotRestores
    OBVIOUS
  <2>1. PICK n : TextOk(buf, leased, texts, n)
    BY DEF ViewInv
  <2>s. PICK s : s = Snapshot(buf.history)
    OBVIOUS
  <2>v. PICK live : live = Committed(buf.history)
    OBVIOUS
  <2>l. PICK line : line = Chain(live.tree, live.at)
    OBVIOUS
  <2>x. PICK tx1 : tx1 = TextsOf(texts, live.tree, buf.text)
    OBVIOUS
  <2>y. PICK ts : ts = [k \in 0..s.at |-> IF k = s.at THEN buf.text ELSE texts[line[s.at + 1 - k]]]
    OBVIOUS
  <2>4. Survives(buf, s, live, line, texts, ts)
    BY <2>1, <2>s, <2>v, <2>l, <2>x, <2>y, SnapshotBuffer
  <2>2. ValidFor(s, buf.text)
    BY <2>4 DEF Survives
  <2>3. \A k \in 0..s.at : Replay(s, buf.text, k) = Replay(live, buf.text, line[s.at + 1 - k])
    BY <2>4 DEF Survives
  <2> QED BY <2>2, <2>3, <2>s, <2>v, <2>l DEF SnapshotRestores
<1> QED BY <1>1, ViewInvariant, PTL

(* A plan changes only the text it was prepared from, into what all of its  *)
(* edits at once make of it, and undoing a change of its own shows again    *)
(* the text from before it (changes/mod.rs).                                *)
THEOREM PlansKeepTheirs == ViewSpec => PlansOwnTheirChange
<1>1. ViewInv /\ [ViewNext]_vars =>
        [/\ PlanApplies => /\ buf.text = plan.text
                           /\ buf'.text = Replaced(plan.text, plan.edits)
         /\ TakesBack /\ Newest.owned => buf'.text = Newest.text]_vars
  BY ViewStep DEF Planned, TakenBack
<1> QED BY <1>1, ViewInvariant, PTL DEF ViewSpec, PlansOwnTheirChange


(* The edits, from the back, turn u into x.                                 *)
Yields(u, edits, x) == \E run : Replaces(run, u, edits) /\ run[Len(edits)] = x

(* Replaced is what they yield.                                             *)
LEMMA YieldsAll ==
  ASSUME NEW u, NEW edits, Len(edits) \in Nat, NEW x, Yields(u, edits, x)
  PROVE  Replaced(u, edits) = x
  BY ReplacedRun DEF Yields

(* An edit behind all others is made first.                                 *)
LEMMA ReplacesAppend ==
  ASSUME NEW u, NEW edits \in Seq(Replacements), NEW e \in Replacements, NEW more, more = Append(edits, e),
         NEW v, v = Substitute(u, e), NEW x, Yields(v, edits, x)
  PROVE  Yields(u, more, x)
<1>r. PICK run : Replaces(run, v, edits) /\ run[Len(edits)] = x
  BY DEF Yields
<1>n. PICK n \in Nat : n = Len(edits)
  OBVIOUS
<1>1. Len(more) = n + 1 /\ more[n + 1] = e /\ \A i \in 1..n : more[i] = edits[i]
  BY <1>n, AppendProperties
<1> DEFINE r == [i \in 0..(n + 1) |-> IF i = 0 THEN u ELSE run[i - 1]]
<1>2. run[0] = v /\ \A i \in 1..n : run[i] = Substitute(run[i - 1], FromBack(edits, i))
  BY <1>n, <1>r DEF Replaces
<1>3. r = [i \in 0..(n + 1) |-> r[i]] /\ r[0] = u
  OBVIOUS
<1>4. ASSUME NEW i \in 1..(n + 1) PROVE r[i] = Substitute(r[i - 1], FromBack(more, i))
  <2>1. CASE i = 1
    <3>1. r[i] = v /\ r[i - 1] = u
      BY <1>2, <2>1
    <3>2. FromBack(more, i) = e
      BY <1>1, <2>1 DEF FromBack
    <3> QED BY <3>1, <3>2
  <2>2. CASE i # 1
    <3>1. i - 1 \in 1..n /\ r[i] = run[i - 1] /\ r[i - 1] = run[(i - 1) - 1]
      BY <2>2
    <3>2. FromBack(more, i) = FromBack(edits, i - 1)
      <4>1. (n + 1) + 1 - i \in 1..n /\ (n + 1) + 1 - i = n + 1 - (i - 1)
        BY <2>2
      <4> QED BY <1>1, <1>n, <4>1 DEF FromBack
    <3> HIDE DEF r
    <3> QED BY <1>2, <3>1, <3>2
  <2> QED BY <2>1, <2>2
<1>5. r[n + 1] = run[n]
  OBVIOUS
<1> HIDE DEF r
<1>6. Replaces(r, u, more)
  BY <1>1, <1>3, <1>4 DEF Replaces
<1> QED BY <1>1, <1>5, <1>6, <1>n, <1>r DEF Yields

(* The first p bytes of t in the place of the first k of u.                 *)
Made(v, t, p, u, k) ==
  /\ v \in Seq(Bytes) /\ Len(v) = p + Len(u) - k
  /\ \A i \in 1..Len(v) : v[i] = IF i <= p THEN t[i] ELSE u[i - p + k]

(* Whatever begins like the first k bytes of l, the edits give it the first *)
(* p bytes of t instead.                                                    *)
Turns(l, t, edits, k, p) ==
  \A u \in Seq(Bytes) :
    Len(u) >= k /\ (\A j \in 1..k : u[j] = l[j]) =>
      \E x : Yields(u, edits, x) /\ Made(x, t, p, u, k)

(* They cover the bytes that none of the first p come from.                 *)
Misses(from, edits, k, p) ==
  \A j \in 1..k :
    (\E e \in 1..Len(edits) : edits[e].start < j /\ j <= edits[e].end) <=> \A q \in 1..p : from[q] # j

(* How far a walk got: to byte k of l and byte p of t.                      *)
Reaches(l, t, from, edits, k, p, limit) ==
  /\ edits \in Seq(Replacements) /\ BatchOk(edits)
  /\ \A e \in 1..Len(edits) : edits[e].start <= edits[e].end /\ edits[e].end < limit
  /\ Turns(l, t, edits, k, p) /\ Misses(from, edits, k, p)

(* No edit turns nothing.                                                   *)
LEMMA TurnsNothing ==
  ASSUME NEW l \in Seq(Bytes), NEW t \in Seq(Bytes)
  PROVE  Turns(l, t, <<>>, 0, 0)
<1> SUFFICES ASSUME NEW u \in Seq(Bytes)
             PROVE  \E x : Yields(u, <<>>, x) /\ Made(x, t, 0, u, 0)
  BY DEF Turns
<1>1. Len(<<>>) = 0
  OBVIOUS
<1> DEFINE run == [i \in 0..0 |-> u]
<1>2. Replaces(run, u, <<>>)
  BY <1>1 DEF Replaces
<1>3. Made(run[0], t, 0, u, 0)
  BY DEF Made
<1> HIDE DEF run
<1> QED BY <1>1, <1>2, <1>3 DEF Yields

(* w are the bytes of t from p to b.                                        *)
Between(w, t, p, b) == w = SubSeq(t, p + 1, b)

(* One splice more makes one piece of the text more.                        *)
LEMMA MadeOn ==
  ASSUME NEW t \in Seq(Bytes), NEW p \in Nat, NEW b \in Nat, p <= b, b <= Len(t),
         NEW u \in Seq(Bytes), NEW k \in Nat, NEW e \in Nat, k <= e, e <= Len(u),
         NEW w, Between(w, t, p, b), NEW v, Splices(Bytes, v, u, k, e, w),
         NEW x, Made(x, t, p, v, k)
  PROVE  Made(x, t, b, u, e)
<1>1. Len(w) = b - p /\ \A j \in 1..Len(w) : w[j] = t[p + j]
  <2>1. /\ Len(SubSeq(t, p + 1, b)) = b - p
        /\ \A j \in 1..(b - p) : SubSeq(t, p + 1, b)[j] = t[p + j]
    OBVIOUS
  <2>2. w = SubSeq(t, p + 1, b)
    BY DEF Between
  <2> QED BY <2>1, <2>2
<1>0. b - p \in Nat
  OBVIOUS
<1>l. PICK n \in Nat : n = Len(w)
  BY <1>0, <1>1
<1>2. Len(v) = Len(u) - (e - k) + n /\ Len(u) \in Nat
  BY <1>l DEF Splices
<1>2a. \A i \in 1..Len(v) : v[i] = IF i <= k THEN u[i] ELSE IF i <= k + n THEN w[i - k] ELSE u[i - k - n + e]
  BY <1>l DEF Splices
<1>2b. x \in Seq(Bytes) /\ Len(x) = p + Len(v) - k
  BY DEF Made
<1>2c. \A j \in 1..Len(x) : x[j] = IF j <= p THEN t[j] ELSE v[j - p + k]
  BY DEF Made
<1>3. x \in Seq(Bytes) /\ Len(x) = b + Len(u) - e /\ n = b - p
  BY <1>1, <1>l, <1>2, <1>2b
<1>4. ASSUME NEW j \in 1..Len(x) PROVE x[j] = IF j <= b THEN t[j] ELSE u[j - b + e]
  <2>0. j \in Nat /\ j <= Len(x)
    BY <1>3
  <2>1. x[j] = IF j <= p THEN t[j] ELSE v[j - p + k]
    BY <1>2c
  <2>2. CASE j <= p
    BY <2>1, <2>2
  <2>3. CASE j > p
    <3>m. PICK m \in Nat : m = j - p + k
      BY <2>0, <2>3
    <3>1. m \in 1..Len(v) /\ m > k
      BY <1>2, <1>2b, <2>0, <2>3, <3>m
    <3>2. v[m] = IF m <= k + n THEN w[m - k] ELSE u[m - k - n + e]
      <4>1. v[m] = IF m <= k THEN u[m] ELSE IF m <= k + n THEN w[m - k] ELSE u[m - k - n + e]
        BY <1>2a, <3>1
      <4>2. ~(m <= k)
        BY <3>1
      <4> QED BY <4>1, <4>2
    <3>3. CASE j <= b
      <4>1. m <= k + n /\ m - k \in 1..n /\ p + (m - k) = j
        BY <1>3, <2>0, <2>3, <3>3, <3>m
      <4>2. w[m - k] = t[p + (m - k)]
        BY <1>1, <1>l, <4>1
      <4> QED BY <2>1, <2>3, <3>2, <3>3, <3>m, <4>1, <4>2
    <3>4. CASE j > b
      <4>1. m > k + n /\ m - k - n + e = j - b + e
        BY <1>3, <2>0, <2>3, <3>4, <3>m
      <4>2. v[m] = u[m - k - n + e]
        BY <3>2, <4>1
      <4>3. x[j] = v[m]
        BY <2>1, <2>3, <3>m
      <4>4. x[j] = u[j - b + e]
        BY <4>1, <4>2, <4>3
      <4> QED BY <2>0, <3>4, <4>4
    <3> QED BY <2>0, <3>3, <3>4
  <2> QED BY <2>0, <2>2, <2>3
<1> QED BY <1>3, <1>4 DEF Made

(* One edit more turns one piece of the text more.                          *)
LEMMA TurnsOn ==
  ASSUME NEW l \in Seq(Bytes), NEW t \in Seq(Bytes), NEW edits \in Seq(Replacements),
         NEW k \in Nat, NEW p \in Nat, Turns(l, t, edits, k, p),
         NEW e \in Nat, k <= e, NEW b \in Nat, p <= b, b <= Len(t),
         NEW r, r = Replacement(k, e, SubSeq(t, p + 1, b)), NEW more, more = Append(edits, r)
  PROVE  Turns(l, t, more, e, b) /\ r \in Replacements
<1>w. PICK w : w = SubSeq(t, p + 1, b)
  OBVIOUS
<1>1. w \in Seq(Bytes)
  <2>1. \A i \in (p + 1)..b : t[i] \in Bytes
    OBVIOUS
  <2> QED BY <1>w, <2>1, SubSeqProperties
<1>2. r = [start |-> k, end |-> e, text |-> w]
  BY <1>w DEF Replacement
<1>3. r \in Replacements
  BY <1>1, <1>2 DEF Replacements
<1>4. ASSUME NEW u \in Seq(Bytes), Len(u) >= e, \A j \in 1..e : u[j] = l[j]
      PROVE  \E x : Yields(u, more, x) /\ Made(x, t, b, u, e)
  <2>v. PICK v : v = Substitute(u, r)
    OBVIOUS
  <2>0. r.start = k /\ r.end = e /\ r.text = w /\ Len(u) \in Nat
    BY <1>2
  <2>1. Splices(Bytes, v, u, k, e, w)
    <3>1. r.start \in 0..Len(u) /\ r.end \in r.start..Len(u) /\ r.text \in Seq(Bytes)
      BY <1>1, <1>4, <2>0
    <3>2. Splices(Bytes, Substitute(u, r), u, r.start, r.end, r.text)
      BY <3>1, SubstituteType
    <3> QED BY <2>v, <2>0, <3>2
  <2>2. v \in Seq(Bytes) /\ Len(v) >= k /\ \A j \in 1..k : v[j] = l[j]
    <3>1. Len(w) \in Nat
      BY <1>1
    <3>2. v \in Seq(Bytes) /\ Len(v) = Len(u) - (e - k) + Len(w)
      BY <2>1 DEF Splices
    <3>3. Len(v) >= k
      BY <1>4, <2>0, <3>1, <3>2
    <3>4. ASSUME NEW j \in 1..k PROVE v[j] = u[j]
      <4>1. j \in 1..Len(v)
        BY <3>2, <3>3, <3>1, <2>0
      <4> QED BY <4>1, <2>1 DEF Splices
    <3>5. \A j \in 1..k : u[j] = l[j]
      BY <1>4
    <3> QED BY <3>2, <3>3, <3>4, <3>5
  <2>3. PICK x : Yields(v, edits, x) /\ Made(x, t, p, v, k)
    BY <2>2 DEF Turns
  <2>4. Made(x, t, b, u, e)
    <3>1. e <= Len(u)
      BY <1>4, <2>0
    <3>2. Between(w, t, p, b)
      BY <1>w DEF Between
    <3> QED BY <2>1, <2>3, <3>1, <3>2, MadeOn
  <2>5. Yields(u, more, x)
    BY <1>3, <2>3, <2>v, ReplacesAppend
  <2> QED BY <2>4, <2>5
<1> QED BY <1>3, <1>4 DEF Turns


(* The edit that leads from byte k and p to byte e and b.                   *)
Bridged(edits, t, k, p, e, b) ==
  IF k = e /\ p = b THEN edits ELSE Append(edits, Replacement(k, e, SubSeq(t, p + 1, b)))

(* The bytes of a gap are none of the lease from k on.                      *)
Trails(from, k, p, b) ==
  /\ \A q \in 1..p : from[q] \in Nat /\ from[q] <= k
  /\ \A q \in (p + 1)..b : from[q] = Typed

(* The edit that bridges a gap turns it.                                    *)
LEMMA TurnsBridged ==
  ASSUME NEW l \in Seq(Bytes), NEW t \in Seq(Bytes), NEW edits \in Seq(Replacements),
         NEW k \in Nat, NEW p \in Nat, Turns(l, t, edits, k, p),
         NEW e \in Nat, k <= e, NEW b \in Nat, p <= b, b <= Len(t),
         NEW more, more = Bridged(edits, t, k, p, e, b)
  PROVE  Turns(l, t, more, e, b) /\ more \in Seq(Replacements)
<1>1. CASE k = e /\ p = b
  BY <1>1 DEF Bridged
<1>2. CASE ~(k = e /\ p = b)
  <2>r. PICK r : r = Replacement(k, e, SubSeq(t, p + 1, b))
    OBVIOUS
  <2>1. more = Append(edits, r)
    BY <1>2, <2>r DEF Bridged
  <2>2. Turns(l, t, more, e, b)
    BY <2>r, <2>1, TurnsOn
  <2>3. r \in Replacements
    BY <2>r, <2>1, TurnsOn
  <2> QED BY <2>1, <2>2, <2>3
<1> QED BY <1>1, <1>2

(* A gap bridged is reached.                                                *)
LEMMA JumpTo ==
  ASSUME NEW l \in Seq(Bytes), NEW t \in Seq(Bytes), NEW from, NEW edits, NEW k \in Nat, NEW p \in Nat,
         Reaches(l, t, from, edits, k, p, k),
         NEW e \in Nat, k <= e, NEW b \in Nat, p <= b, b <= Len(t), Trails(from, k, p, b),
         NEW more, more = Bridged(edits, t, k, p, e, b)
  PROVE  Reaches(l, t, from, more, e, b, e + 1)
<1>1. /\ edits \in Seq(Replacements) /\ BatchOk(edits) /\ Turns(l, t, edits, k, p) /\ Misses(from, edits, k, p)
      /\ \A i \in 1..Len(edits) : edits[i].start <= edits[i].end /\ edits[i].end < k
  BY DEF Reaches
<1>2. \A i \in 1..Len(edits) : edits[i].start \in Nat /\ edits[i].end \in Nat
  <2> TAKE i \in 1..Len(edits)
  <2>1. edits[i] \in Replacements
    BY <1>1, ElementOf
  <2> QED BY <2>1 DEF Replacements
<1>3. Turns(l, t, more, e, b)
  BY <1>1, TurnsBridged
<1>4. more \in Seq(Replacements)
  BY <1>1, TurnsBridged
<1>5. CASE k = e /\ p = b
  <2>1. more = edits
    BY <1>5 DEF Bridged
  <2>2. \A i \in 1..Len(edits) : edits[i].start <= edits[i].end /\ edits[i].end < e + 1
    BY <1>1, <1>2, <1>5
  <2> QED BY <1>1, <1>3, <1>5, <2>1, <2>2 DEF Reaches
<1>6. CASE ~(k = e /\ p = b)
  <2>r. PICK r : r = Replacement(k, e, SubSeq(t, p + 1, b))
    OBVIOUS
  <2>n. PICK n \in Nat : n = Len(edits)
    BY <1>1
  <2>1. r.start = k /\ r.end = e /\ more = Append(edits, r)
    BY <1>6, <2>r DEF Bridged, Replacement
  <2>2. Len(more) = n + 1 /\ more[n + 1] = r /\ \A i \in 1..n : more[i] = edits[i]
    BY <1>1, <2>1, <2>n, AppendProperties
  <2>3. BatchOk(more)
    <3> SUFFICES ASSUME NEW i \in 2..(n + 1)
                 PROVE  more[i - 1].start < more[i].start /\ more[i - 1].end <= more[i].start
      BY <2>2 DEF BatchOk
    <3>1. CASE i = n + 1
      <4>1. i - 1 \in 1..n /\ more[i] = r /\ more[i - 1] = edits[i - 1]
        BY <2>2, <3>1
      <4>2. edits[i - 1].start <= edits[i - 1].end /\ edits[i - 1].end < k
            /\ edits[i - 1].start \in Nat /\ edits[i - 1].end \in Nat
        BY <1>1, <1>2, <2>n, <4>1
      <4>3. PICK q : q = edits[i - 1]
        OBVIOUS
      <4>4. PICK z : z = more[i]
        OBVIOUS
      <4>5. z.start = k
        BY <2>1, <4>1, <4>4
      <4>6. q.start < k /\ q.end <= k
        <5>1. q.start <= q.end /\ q.end < k /\ q.start \in Nat /\ q.end \in Nat
          BY <4>2, <4>3
        <5> QED BY <5>1
      <4>7. more[i - 1] = q
        BY <4>1, <4>3
      <4> QED BY <4>4, <4>5, <4>6, <4>7
    <3>2. CASE i # n + 1
      <4>1. i \in 2..n /\ i - 1 \in 1..n /\ i \in 1..n
        BY <3>2
      <4>2. edits[i - 1].start < edits[i].start /\ edits[i - 1].end <= edits[i].start
        BY <1>1, <2>n, <4>1 DEF BatchOk
      <4> QED BY <2>2, <4>1, <4>2
    <3> QED BY <3>1, <3>2
  <2>4. \A i \in 1..Len(more) : more[i].start <= more[i].end /\ more[i].end < e + 1
    <3> SUFFICES ASSUME NEW i \in 1..(n + 1)
                 PROVE  more[i].start <= more[i].end /\ more[i].end < e + 1
      BY <2>2
    <3>1. CASE i = n + 1
      BY <2>1, <2>2, <3>1
    <3>2. CASE i # n + 1
      <4>1. i \in 1..n /\ more[i] = edits[i]
        BY <2>2, <3>2
      <4>2. edits[i].start <= edits[i].end /\ edits[i].end < k /\ edits[i].end \in Nat
        BY <1>1, <1>2, <2>n, <4>1
      <4> QED BY <4>1, <4>2, SMTT(60)
    <3> QED BY <3>1, <3>2
  <2>5. Misses(from, more, e, b)
    <3> SUFFICES ASSUME NEW j \in 1..e
                 PROVE  (\E i \in 1..(n + 1) : more[i].start < j /\ j <= more[i].end)
                          <=> \A q \in 1..b : from[q] # j
      BY <2>2 DEF Misses
    <3>0. /\ \A q \in 1..p : from[q] \in Nat /\ from[q] <= k
          /\ \A q \in (p + 1)..b : from[q] = 0
      BY DEF Trails, Typed
    <3>1. CASE j <= k
      <4>1. (\E i \in 1..n : edits[i].start < j /\ j <= edits[i].end) <=> \A q \in 1..p : from[q] # j
        BY <1>1, <2>n, <3>1 DEF Misses
      <4>2. (\E i \in 1..(n + 1) : more[i].start < j /\ j <= more[i].end)
              <=> \E i \in 1..n : edits[i].start < j /\ j <= edits[i].end
        <5>1. ~(r.start < j)
          BY <2>1, <3>1
        <5>2. \A i \in 1..(n + 1) : i = n + 1 \/ i \in 1..n
          OBVIOUS
        <5>3. \A i \in 1..n : i \in 1..(n + 1)
          OBVIOUS
        <5> QED BY <2>2, <5>1, <5>2, <5>3
      <4>3. (\A q \in 1..b : from[q] # j) <=> \A q \in 1..p : from[q] # j
        <5>1. \A q \in 1..b : q \in 1..p \/ q \in (p + 1)..b
          OBVIOUS
        <5>2. \A q \in 1..p : q \in 1..b
          OBVIOUS
        <5>3. j # 0
          OBVIOUS
        <5> QED BY <3>0, <5>1, <5>2, <5>3
      <4> QED BY <4>1, <4>2, <4>3
    <3>2. CASE j > k
      <4>1. n + 1 \in 1..(n + 1) /\ more[n + 1].start < j /\ j <= more[n + 1].end
        BY <2>1, <2>2, <3>2
      <4>2. \A q \in 1..b : from[q] # j
        <5> TAKE q \in 1..b
        <5>1. CASE q \in 1..p
          BY <3>0, <3>2, <5>1
        <5>2. CASE q \in (p + 1)..b
          BY <3>0, <5>2
        <5> QED BY <5>1, <5>2
      <4> QED BY <4>1, <4>2
    <3> QED BY <3>1, <3>2
  <2> QED BY <1>3, <1>4, <2>3, <2>4, <2>5 DEF Reaches
<1> QED BY <1>5, <1>6

(* A byte kept is reached.                                                  *)
LEMMA StayAt ==
  ASSUME NEW l \in Seq(Bytes), NEW t \in Seq(Bytes), NEW from, NEW edits, NEW e \in Nat, NEW b \in Nat,
         NEW f, f = e + 1, NEW c, c = b + 1,
         Reaches(l, t, from, edits, e, b, f), f <= Len(l), c <= Len(t), from[c] = f, t[c] = l[f],
         \A q \in 1..b : from[q] # f
  PROVE  Reaches(l, t, from, edits, f, c, f)
<1>1. /\ edits \in Seq(Replacements) /\ BatchOk(edits) /\ Turns(l, t, edits, e, b) /\ Misses(from, edits, e, b)
      /\ \A i \in 1..Len(edits) : edits[i].start <= edits[i].end /\ edits[i].end < f
  BY DEF Reaches
<1>2. Turns(l, t, edits, f, c)
  <2> SUFFICES ASSUME NEW u \in Seq(Bytes), Len(u) >= f, \A j \in 1..f : u[j] = l[j]
               PROVE  \E x : Yields(u, edits, x) /\ Made(x, t, c, u, f)
    BY DEF Turns
  <2>1. Len(u) >= e /\ Len(u) \in Nat /\ \A j \in 1..e : u[j] = l[j]
    OBVIOUS
  <2>2. PICK x : Yields(u, edits, x) /\ Made(x, t, b, u, e)
    BY <1>1, <2>1 DEF Turns
  <2>3. x \in Seq(Bytes) /\ Len(x) = c + Len(u) - f
    BY <2>1, <2>2, SMTT(60) DEF Made
  <2>4. ASSUME NEW i \in 1..Len(x) PROVE x[i] = IF i <= c THEN t[i] ELSE u[i - c + f]
    <3>1. x[i] = IF i <= b THEN t[i] ELSE u[i - b + e]
      BY <2>2 DEF Made
    <3>2. i \in Nat
      BY <2>3
    <3>3. CASE i = c
      <4>1. i - b + e = f /\ ~(i <= b) /\ f \in 1..f
        BY <3>3
      <4>2. x[i] = u[f] /\ u[f] = l[f]
        BY <3>1, <4>1
      <4> QED BY <3>3, <4>2
    <3>4. CASE i # c
      <4>1. (i <= b <=> i <= c) /\ i - b + e = i - c + f
        BY <3>2, <3>4
      <4> QED BY <3>1, <4>1
    <3> QED BY <3>3, <3>4
  <2>5. Made(x, t, c, u, f)
    BY <2>3, <2>4 DEF Made
  <2> QED BY <2>2, <2>5
<1>3. Misses(from, edits, f, c)
  <2> SUFFICES ASSUME NEW j \in 1..f
               PROVE  (\E i \in 1..Len(edits) : edits[i].start < j /\ j <= edits[i].end)
                        <=> \A q \in 1..c : from[q] # j
    BY DEF Misses
  <2>0. \A q \in 1..c : q = c \/ q \in 1..b
    OBVIOUS
  <2>1. c \in 1..c /\ \A q \in 1..b : q \in 1..c
    OBVIOUS
  <2>2. CASE j = f
    <3>1. ASSUME NEW i \in 1..Len(edits) PROVE ~(j <= edits[i].end)
      <4>1. edits[i] \in Replacements
        BY <1>1, ElementOf
      <4>2. edits[i].end \in Nat /\ edits[i].end < f
        BY <1>1, <4>1 DEF Replacements
      <4> QED BY <2>2, <4>2
    <3> QED BY <2>1, <2>2, <3>1
  <2>3. CASE j # f
    <3>1. j \in 1..e
      BY <2>3
    <3>2. (\E i \in 1..Len(edits) : edits[i].start < j /\ j <= edits[i].end) <=> \A q \in 1..b : from[q] # j
      BY <1>1, <3>1 DEF Misses
    <3> QED BY <2>0, <2>1, <2>3, <3>2
  <2> QED BY <2>2, <2>3
<1> QED BY <1>1, <1>2, <1>3 DEF Reaches


(* The states of the walk over the origins.                                 *)
Walkers == [edits : Seq(Replacements), original : Nat, kept : Nat]

(* A stride of the walk: the gap before a kept byte is bridged.             *)
Strides(x, w, t, f, i) ==
  x.edits = Bridged(w.edits, t, w.original, w.kept, f - 1, i - 1) /\ x.original = f /\ x.kept = i

(* What a stride makes of a walker.                                         *)
LEMMA WalkedIs ==
  ASSUME NEW w \in Walkers, NEW t \in Seq(Bytes), NEW f \in Nat, NEW i \in Nat \ {0}, i - 1 <= Len(t),
         NEW x, x = Walked(w, t, f, i)
  PROVE  /\ x \in Walkers
         /\ f = Typed => x = w
         /\ f # Typed => Strides(x, w, t, f, i)
<1>1. CASE f = Typed
  BY <1>1 DEF Walked
<1>2. CASE f # Typed
  <2>0. f - 1 \in Nat /\ i - 1 \in Nat /\ w.edits \in Seq(Replacements) /\ w.original \in Nat /\ w.kept \in Nat
    BY <1>2 DEF Typed, Walkers
  <2>m. PICK m : m = Bridged(w.edits, t, w.original, w.kept, f - 1, i - 1)
    OBVIOUS
  <2>r. PICK r : r = Replacement(w.original, f - 1, SubSeq(t, w.kept + 1, i - 1))
    OBVIOUS
  <2>1. x = [edits |-> m, original |-> f, kept |-> i]
    BY <1>2, <2>m DEF Walked, Bridged
  <2>2. r \in Replacements
    <3>b. PICK b \in Nat : b = i - 1
      BY <2>0
    <3>a. PICK a \in Nat : a = w.kept + 1
      BY <2>0
    <3>1. a >= 1
      BY <2>0, <3>a
    <3>2. \A j \in a..b : t[j] \in Bytes
      BY <3>1, <3>b
    <3>3. SubSeq(t, a, b) \in Seq(Bytes)
      BY <3>2, SubSeqProperties
    <3>4. r = [start |-> w.original, end |-> f - 1, text |-> SubSeq(t, a, b)]
      BY <2>r, <3>a, <3>b DEF Replacement
    <3> QED BY <2>0, <3>3, <3>4 DEF Replacements
  <2>3. m \in Seq(Replacements)
    <3>1. m = w.edits \/ m = Append(w.edits, r)
      BY <2>m, <2>r DEF Bridged
    <3>2. Append(w.edits, r) \in Seq(Replacements)
      BY <2>0, <2>2, AppendProperties
    <3> QED BY <2>0, <3>1, <3>2
  <2>4. x \in Walkers
    BY <2>1, <2>3 DEF Walkers
  <2> QED BY <1>2, <2>1, <2>4, <2>m DEF Strides
<1> QED BY <1>1, <1>2

(* Every list of origins has a walk.                                        *)
LEMMA WalkExists ==
  ASSUME NEW t \in Seq(Bytes), NEW from \in Seq(Nat), Len(from) = Len(t) + 1
  PROVE  \E run \in [0..Len(from) -> Walkers] : Walks(run, t, from)
<1>n. PICK n \in Nat : n = Len(from)
  OBVIOUS
<1>1. \A i \in 1..n : from[i] \in Nat /\ i \in Nat \ {0} /\ i - 1 <= Len(t)
  BY <1>n
<1> DEFINE G == [i \in 1..n |-> [w \in Walkers |-> Walked(w, t, from[i], i)]]
           w0 == [edits |-> <<>>, original |-> 0, kept |-> 0]
<1>2. G \in [1..n -> [Walkers -> Walkers]]
  <2>1. ASSUME NEW i \in 1..n, NEW w \in Walkers PROVE Walked(w, t, from[i], i) \in Walkers
    BY <1>1, WalkedIs
  <2> QED BY <2>1
<1>3. w0 \in Walkers
  BY EmptySeq DEF Walkers
<1>4. PICK run \in [0..n -> Walkers] : Proceeds(run, n, w0, G)
  <2> HIDE DEF G, w0
  <2> QED BY <1>2, <1>3, LinearRecursion
<1>5. run[0] = w0
  BY <1>4 DEF Proceeds
<1>6. ASSUME NEW i \in 1..n PROVE run[i] = Walked(run[i - 1], t, from[i], i)
  <2>1. run[i] = G[i][run[i - 1]]
    <3> HIDE DEF G, w0
    <3> QED BY <1>4 DEF Proceeds
  <2>2. i - 1 \in 0..n
    OBVIOUS
  <2>3. run[i - 1] \in Walkers
    BY <2>2
  <2>4. G[i] = [w \in Walkers |-> Walked(w, t, from[i], i)]
    OBVIOUS
  <2> HIDE DEF G
  <2> QED BY <2>1, <2>3, <2>4
<1>7. run = [i \in 0..n |-> run[i]]
  OBVIOUS
<1> QED BY <1>5, <1>6, <1>7, <1>n DEF Walks

(* Where a walk is after byte i.                                            *)
Walking(l, t, from, w, i) ==
  /\ w \in Walkers
  /\ w.original <= Len(l) /\ w.kept <= i
  /\ w.original = 0 \/ (w.kept >= 1 /\ from[w.kept] = w.original)
  /\ Trails(from, w.original, w.kept, i)
  /\ Reaches(l, t, from, w.edits, w.original, w.kept, w.original)

(* The walk starts at the front.                                            *)
LEMMA WalkStarts ==
  ASSUME NEW l \in Seq(Bytes), NEW t \in Seq(Bytes), NEW from,
         NEW w, w = [edits |-> <<>>, original |-> 0, kept |-> 0]
  PROVE  Walking(l, t, from, w, 0)
<1>1. w.edits = <<>> /\ w.original = 0 /\ w.kept = 0 /\ w \in Walkers /\ Len(<<>>) = 0
  BY EmptySeq DEF Walkers
<1>2. Turns(l, t, <<>>, 0, 0)
  BY TurnsNothing
<1>3. Reaches(l, t, from, <<>>, 0, 0, 0)
  BY <1>1, <1>2, EmptySeq DEF Reaches, BatchOk, Misses
<1>4. Trails(from, 0, 0, 0)
  BY DEF Trails
<1> QED BY <1>1, <1>3, <1>4 DEF Walking

(* What a change journal says of the bytes of the text.                     *)
Stays(l, t, from) ==
  /\ from \in Seq(Nat) /\ Len(from) = Len(t) + 1 /\ from[Len(t) + 1] = Len(l) + 1
  /\ \A q \in 1..Len(t) : from[q] # Typed => from[q] \in 1..Len(l) /\ t[q] = l[from[q]]
  /\ \A p, q \in 1..Len(t) : p < q /\ from[p] # Typed /\ from[q] # Typed => from[p] < from[q]

(* A stride goes on.                                                        *)
LEMMA WalksOn ==
  ASSUME NEW l \in Seq(Bytes), NEW t \in Seq(Bytes), NEW from, Stays(l, t, from),
         NEW i \in Nat, NEW c, c = i + 1, c <= Len(t), NEW w, Walking(l, t, from, w, i),
         NEW x, x = Walked(w, t, from[c], c)
  PROVE  Walking(l, t, from, x, c)
<1>0. /\ Len(l) \in Nat /\ Len(t) \in Nat /\ c \in 1..Len(t) /\ c \in Nat \ {0} /\ c - 1 <= Len(t) /\ c - 1 = i
  OBVIOUS
<1>k. PICK k \in Nat : k = w.original
  BY DEF Walking, Walkers
<1>p. PICK p \in Nat : p = w.kept
  BY DEF Walking, Walkers
<1>d. PICK edits : edits = w.edits
  OBVIOUS
<1>1. /\ w \in Walkers /\ k <= Len(l) /\ p <= i /\ (k = 0 \/ (p >= 1 /\ from[p] = k))
      /\ Trails(from, k, p, i) /\ Reaches(l, t, from, edits, k, p, k)
  BY <1>k, <1>p, <1>d DEF Walking
<1>f. PICK f \in Nat : f = from[c]
  BY <1>0 DEF Stays
<1>2. x \in Walkers /\ (f = Typed => x = w)
  BY <1>0, <1>1, <1>f, WalkedIs
<1>3. CASE f = Typed
  <2>1. Trails(from, k, p, c)
    <3>1. \A q \in (p + 1)..c : q = c \/ q \in (p + 1)..i
      OBVIOUS
    <3> QED BY <1>1, <1>3, <1>f, <3>1 DEF Trails
  <2>2. p <= c
    BY <1>1
  <2> QED BY <1>1, <1>2, <1>3, <1>k, <1>p, <1>d, <2>1, <2>2 DEF Walking
<1>4. CASE f # Typed
  <2>1. x.edits = Bridged(edits, t, k, p, f - 1, i) /\ x.original = f /\ x.kept = c
    <3>1. Strides(x, w, t, f, c)
      BY <1>0, <1>1, <1>4, <1>f, WalkedIs
    <3> QED BY <1>0, <1>k, <1>p, <1>d, <3>1 DEF Strides
  <2>2. f \in 1..Len(l) /\ t[c] = l[f]
    BY <1>0, <1>4, <1>f DEF Stays
  <2>3. \A q \in 1..i : from[q] \in Nat /\ from[q] < f
    <3> TAKE q \in 1..i
    <3>1. q \in 1..Len(t) /\ q < c /\ q \in 1..Len(from)
      BY <1>0 DEF Stays
    <3>2. from[q] \in Nat
      BY <3>1, ElementOf DEF Stays
    <3>3. CASE from[q] = Typed
      BY <2>2, <3>2, <3>3 DEF Typed
    <3>4. CASE from[q] # Typed
      BY <1>0, <1>4, <1>f, <3>1, <3>2, <3>4 DEF Stays
    <3> QED BY <3>3, <3>4
  <2>e. PICK e \in Nat : e = f - 1
    BY <2>2
  <2>4. k <= e
    <3>1. CASE k = 0
      BY <3>1
    <3>2. CASE k # 0
      <4>1. p \in 1..i /\ from[p] = k
        BY <1>1, <3>2
      <4>2. k < f
        BY <2>3, <4>1
      <4> QED BY <2>e, <4>2
    <3> QED BY <3>1, <3>2
  <2>m. PICK more : more = Bridged(edits, t, k, p, e, i)
    OBVIOUS
  <2>5. Reaches(l, t, from, more, e, i, e + 1)
    <3>1. i <= Len(t)
      BY <1>0
    <3> QED BY <1>1, <2>4, <2>m, <3>1, JumpTo
  <2>6. f = e + 1 /\ f <= Len(l) /\ from[c] = f /\ \A q \in 1..i : from[q] # f
    BY <1>f, <2>2, <2>3, <2>e
  <2>7. Reaches(l, t, from, more, e, i, f)
    BY <2>5, <2>6
  <2>8. Reaches(l, t, from, more, f, c, f)
    BY <2>2, <2>6, <2>7, StayAt
  <2>9. Trails(from, f, c, c)
    <3>1. \A q \in 1..c : q = c \/ q \in 1..i
      OBVIOUS
    <3>2. \A q \in 1..c : from[q] \in Nat /\ from[q] <= f
      BY <2>3, <2>6, <3>1
    <3> QED BY <3>2 DEF Trails
  <2>10. x.edits = more
    BY <2>1, <2>e, <2>m
  <2>11. c >= 1 /\ c <= c
    BY <1>0
  <2> QED BY <1>2, <2>1, <2>6, <2>8, <2>9, <2>10, <2>11 DEF Walking
<1> QED BY <1>3, <1>4

(* The walk reaches the end: its edits are a batch that turns the lease     *)
(* into the text and misses what is kept.                                   *)
LEMMA WalkReaches ==
  ASSUME NEW l \in Seq(Bytes), NEW t \in Seq(Bytes), NEW from, Stays(l, t, from),
         NEW run, Walks(run, t, from)
  PROVE  /\ BatchOk(run[Len(from)].edits) /\ run[Len(from)].edits \in Seq(Replacements)
         /\ Replaced(l, run[Len(from)].edits) = t
         /\ Misses(from, run[Len(from)].edits, Len(l), Len(t))
<1>n. PICK n \in Nat : n = Len(t)
  OBVIOUS
<1>m. PICK m \in Nat : m = Len(l)
  OBVIOUS
<1>1. Len(from) = n + 1 /\ from[n + 1] = m + 1
  BY <1>n, <1>m DEF Stays
<1>2. /\ run[0] = [edits |-> <<>>, original |-> 0, kept |-> 0]
      /\ \A i \in 1..(n + 1) : run[i] = Walked(run[i - 1], t, from[i], i)
  BY <1>1 DEF Walks
<1> DEFINE S == {i \in Nat : i <= n => Walking(l, t, from, run[i], i)}
<1>3. 0 \in S
  BY <1>2, WalkStarts
<1>4. ASSUME NEW i \in Nat, i \in S PROVE i + 1 \in S
  <2>1. SUFFICES ASSUME i + 1 <= n PROVE Walking(l, t, from, run[i + 1], i + 1)
    OBVIOUS
  <2>c. PICK c \in Nat : c = i + 1
    OBVIOUS
  <2>w. PICK w : w = run[i]
    OBVIOUS
  <2>x. PICK x : x = run[c]
    OBVIOUS
  <2>2. Walking(l, t, from, w, i)
    BY <1>4, <2>1, <2>w
  <2>3. x = Walked(w, t, from[c], c)
    <3>1. c \in 1..(n + 1) /\ c - 1 = i
      BY <2>1, <2>c
    <3> QED BY <1>2, <2>w, <2>x, <3>1
  <2>4. c <= Len(t)
    BY <1>n, <2>1, <2>c
  <2>5. Walking(l, t, from, x, c)
    BY <2>c, <2>2, <2>3, <2>4, WalksOn
  <2> QED BY <2>5, <2>c, <2>x
<1>5. Walking(l, t, from, run[n], n)
  <2> HIDE DEF S
  <2>1. n \in S
    BY <1>3, <1>4, Induction
  <2> QED BY <2>1 DEF S
<1>w. PICK w : w = run[n]
  OBVIOUS
<1>x. PICK x : x = run[n + 1]
  OBVIOUS
<1>f. PICK f \in Nat : f = m + 1
  OBVIOUS
<1>c. PICK c \in Nat \ {0} : c = n + 1
  OBVIOUS
<1>6. Walking(l, t, from, w, n)
  BY <1>5, <1>w
<1>7. x = Walked(w, t, f, c)
  <2>1. n + 1 \in 1..(n + 1) /\ (n + 1) - 1 = n
    OBVIOUS
  <2> QED BY <1>1, <1>2, <1>w, <1>x, <1>f, <1>c, <2>1
<1>8. Strides(x, w, t, f, c)
  <2>1. f # Typed /\ c - 1 <= Len(t)
    BY <1>f, <1>c, <1>n DEF Typed
  <2>2. w \in Walkers
    BY <1>6 DEF Walking
  <2> QED BY <1>7, <2>1, <2>2, WalkedIs
<1>k. PICK k \in Nat : k = w.original
  BY <1>6 DEF Walking, Walkers
<1>p. PICK p \in Nat : p = w.kept
  BY <1>6 DEF Walking, Walkers
<1>d. PICK edits : edits = w.edits
  OBVIOUS
<1>b. PICK more : more = Bridged(edits, t, k, p, m, n)
  OBVIOUS
<1>9. x.edits = more
  BY <1>8, <1>f, <1>c, <1>k, <1>p, <1>d, <1>b DEF Strides
<1>10. k <= m /\ p <= n /\ Trails(from, k, p, n) /\ Reaches(l, t, from, edits, k, p, k)
  BY <1>6, <1>k, <1>p, <1>d, <1>m DEF Walking
<1>11. Reaches(l, t, from, more, m, n, m + 1)
  <2>1. n <= Len(t)
    BY <1>n
  <2> QED BY <1>10, <1>b, <2>1, JumpTo
<1>12. more \in Seq(Replacements) /\ BatchOk(more) /\ Turns(l, t, more, m, n) /\ Misses(from, more, m, n)
  BY <1>11 DEF Reaches
<1>13. Replaced(l, more) = t
  <2>1. PICK y : Yields(l, more, y) /\ Made(y, t, n, l, m)
    BY <1>12, <1>m DEF Turns
  <2>2. Len(y) = n /\ y \in Seq(Bytes)
    BY <2>1, <1>m DEF Made
  <2>3. \A i \in 1..n : y[i] = t[i]
    BY <2>1, <2>2 DEF Made
  <2>4. y = t
    BY <1>n, <2>2, <2>3, SeqEqual
  <2>5. Len(more) \in Nat
    BY <1>12
  <2>6. Replaced(l, more) = y
    BY <2>1, <2>5, YieldsAll
  <2> QED BY <2>4, <2>6
<1>14. run[Len(from)].edits = more
  BY <1>1, <1>9, <1>x
<1> QED BY <1>12, <1>13, <1>14, <1>n, <1>m


(* The origins that the journal accounts for.                               *)
LEMMA JournalIs ==
  ASSUME NEW l \in Seq(Bytes), NEW t \in Seq(Bytes), NEW changes, Accounts(l, changes, t)
  PROVE  /\ OriginsOk(l, changes, t, Origins(Len(l), changes))
         /\ Len(changes) \in Nat
<1>1. changes \in Seq(Geometries)
  BY DEF Accounts
<1>2. PICK run : Carries(run, Len(l), changes) /\ OriginsOk(l, changes, t, run[Len(changes)])
  BY DEF Accounts
<1>3. Len(changes) \in Nat
  BY <1>1
<1>n. PICK n : n = Len(l)
  OBVIOUS
<1>4. Origins(n, changes) = run[Len(changes)]
  BY <1>2, <1>3, <1>n, OriginsRun
<1> QED BY <1>2, <1>3, <1>4, <1>n

(* The composed replacements are a batch that turns the lease into the text *)
(* and misses what is kept.                                                 *)
LEMMA Composed ==
  ASSUME NEW l \in Seq(Bytes), NEW t \in Seq(Bytes), NEW changes, NEW start, start = Origins(Len(l), changes),
         OriginsOk(l, changes, t, start),
         NEW edits, edits = ReplacementsIn(t, Len(l), changes)
  PROVE  /\ BatchOk(edits) /\ edits \in Seq(Replacements) /\ Replaced(l, edits) = t
         /\ Misses(start, edits, Len(l), Len(t))
<1>n. PICK n \in Nat : n = Len(l)
  OBVIOUS
<1>f. PICK from : from = Append(start, n + 1)
  OBVIOUS
<1>1. start \in Seq(Nat) /\ Len(start) = Len(t) /\ Len(t) \in Nat
  BY DEF OriginsOk
<1>2. /\ from \in Seq(Nat) /\ Len(from) = Len(t) + 1 /\ from[Len(t) + 1] = n + 1
      /\ \A q \in 1..Len(t) : from[q] = start[q]
  BY <1>1, <1>f, AppendProperties
<1>3. Stays(l, t, from)
  <2>1. \A q \in 1..Len(t) : from[q] # Typed => from[q] \in 1..Len(l) /\ t[q] = l[from[q]]
    BY <1>2 DEF OriginsOk
  <2>2. \A p, q \in 1..Len(t) : p < q /\ from[p] # Typed /\ from[q] # Typed => from[p] < from[q]
    BY <1>2 DEF OriginsOk
  <2> QED BY <1>2, <1>n, <2>1, <2>2 DEF Stays
<1>4. PICK run : Walks(run, t, from)
  BY <1>2, WalkExists
<1>x. PICK x : x = run[Len(from)].edits
  OBVIOUS
<1>5. ReplacementsIn(t, n, changes) = x
  <2>1. Marks(from, n, changes) /\ Len(from) \in Nat
    BY <1>1, <1>2, <1>f, <1>n DEF Marks
  <2> QED BY <1>4, <1>x, <2>1, ReplacementsInRun
<1>6. BatchOk(x)
  BY <1>3, <1>4, <1>x, WalkReaches
<1>7. x \in Seq(Replacements)
  BY <1>3, <1>4, <1>x, WalkReaches
<1>8. Replaced(l, x) = t
  BY <1>3, <1>4, <1>x, WalkReaches
<1>9. Misses(from, x, Len(l), Len(t))
  BY <1>3, <1>4, <1>x, WalkReaches
<1>10. Misses(start, x, Len(l), Len(t))
  BY <1>2, <1>9, ZenonT(60) DEF Misses
<1>11. edits = x
  BY <1>5, <1>n
<1> QED BY <1>6, <1>7, <1>8, <1>10, <1>11

(* The invariant implies that the journal composes.                         *)
LEMMA JournalOk ==
  ASSUME ViewInv
  PROVE  JournalComposes
<1>1. PICK m : TextOk(buf, leased, texts, m)
  BY DEF ViewInv
<1>2. leased \in Seq(Bytes) /\ buf.text \in Seq(Bytes) /\ Accounts(leased, buf.changes, buf.text)
  BY <1>1, TextOkIs
<1>n. PICK n \in Nat : n = Len(leased)
  BY <1>2
<1>f. PICK from : from = Origins(n, buf.changes)
  OBVIOUS
<1>e. PICK edits : edits = ReplacementsIn(buf.text, n, buf.changes)
  OBVIOUS
<1>3. OriginsOk(leased, buf.changes, buf.text, from)
  BY <1>2, <1>n, <1>f, JournalIs
<1>4. from \in Seq(Nat) /\ Len(from) = Len(buf.text) /\ DOMAIN from = 1..Len(buf.text)
  BY <1>3 DEF OriginsOk
<1>5. BatchOk(edits)
  BY <1>2, <1>3, <1>n, <1>f, <1>e, Composed
<1>6. edits \in Seq(Replacements)
  BY <1>2, <1>3, <1>n, <1>f, <1>e, Composed
<1>7. Replaced(leased, edits) = buf.text
  BY <1>2, <1>3, <1>n, <1>f, <1>e, Composed
<1>8. Misses(from, edits, Len(leased), Len(buf.text))
  BY <1>2, <1>3, <1>n, <1>f, <1>e, Composed
<1>9. ASSUME NEW i \in 1..n
      PROVE  (\E k \in DOMAIN edits : edits[k].start < i /\ i <= edits[k].end) <=> i \notin Range(from)
  <2>1. DOMAIN edits = 1..Len(edits)
    BY <1>6
  <2>2. (\E k \in 1..Len(edits) : edits[k].start < i /\ i <= edits[k].end)
          <=> \A q \in 1..Len(buf.text) : from[q] # i
    BY <1>8, <1>n DEF Misses
  <2>3. i \in Range(from) <=> \E q \in 1..Len(buf.text) : from[q] = i
    BY <1>4 DEF Range
  <2> QED BY <2>1, <2>2, <2>3
<1>10. ASSUME NEW q \in DOMAIN from, from[q] # Typed
       PROVE  Mapped(from[q] - 1, buf.changes) = q - 1
  BY <1>3, <1>4, <1>10 DEF OriginsOk
<1> QED BY <1>5, <1>7, <1>9, <1>10, <1>n, <1>f, <1>e DEF JournalComposes

(* While a lease is open its journal accounts for all of it: the composed   *)
(* replacements are a sorted and disjoint batch, turn the text before the   *)
(* lease into the text now when all are applied at once, leave alone every  *)
(* byte that no change removed, and each such byte is where the mapping of  *)
(* positions says (collections/journal.rs, editmap.rs).                     *)
THEOREM JournalsCompose == ViewSpec => []JournalComposes
<1>1. ViewInv => JournalComposes
  BY JournalOk
<1> QED BY <1>1, ViewInvariant, PTL

=============================================================================
