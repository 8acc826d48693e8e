---------------------------- MODULE RequestLedger ---------------------------
(***************************************************************************)
(* What a serving session promises of its requests, with no threads, lanes *)
(* or transport: an id is used once; it is rejected only when it belongs   *)
(* to another incarnation, is a mutation the retiring session takes no     *)
(* more, or its class has no room; it is answered at most once; and an     *)
(* accepted one gives its slot back only after its answer, unless it is a  *)
(* resize, which a terminal may answer later or never.                     *)
(***************************************************************************)
EXTENDS Integers, FiniteSets

CONSTANTS
  Requests, Class, Stale,
  Mutations, Resizes,
  MaxPending,     \* slots of the registry
  SharedSlots,    \* those that bulk and standard requests may take
  MaxReads        \* open bulk reads

VARIABLES
  used,           \* ids the session has seen
  open,           \* accepted ids whose slot is taken
  answers,        \* per id: outcomes given
  retired         \* no new mutations

ledger == <<used, open, answers, retired>>

Init ==
  /\ used = {} /\ open = {} /\ retired = FALSE
  /\ answers = [r \in Requests |-> 0]

OfClass(class) == {r \in open : Class[r] = class}

Room(r) ==
  /\ Cardinality(open) < IF Class[r] = "control" THEN MaxPending ELSE SharedSlots
  /\ Class[r] = "bulk" => Cardinality(OfClass("bulk")) < MaxReads

Accept(r) ==
  /\ r \notin used /\ r \notin Stale /\ Room(r)
  /\ used' = used \union {r} /\ open' = open \union {r}
  /\ UNCHANGED <<answers, retired>>

Reject(r) ==
  /\ r \notin used
  /\ r \in Stale \/ (retired /\ r \in Mutations) \/ ~Room(r)
  /\ used' = used \union {r}
  /\ UNCHANGED <<open, answers, retired>>

Answer(r) ==
  /\ r \in used /\ answers[r] = 0
  /\ answers' = [answers EXCEPT ![r] = 1]
  /\ UNCHANGED <<used, open, retired>>

Close(r) ==
  /\ r \in open /\ (answers[r] = 1 \/ r \in Resizes)
  /\ open' = open \ {r}
  /\ UNCHANGED <<used, answers, retired>>

Retire == retired' = TRUE /\ UNCHANGED <<used, open, answers>>

Next ==
  \/ \E r \in Requests : Accept(r) \/ Reject(r) \/ Answer(r) \/ Close(r)
  \/ Retire

Spec == Init /\ [][Next]_ledger
=============================================================================
