--------------------------- MODULE MCLanguageSync ---------------------------
(* A document that is edited and opened again, with requests about it, and *)
(* perhaps a second one that is opened and closed.                         *)
EXTENDS LanguageSync

CONSTANTS r1, Texts, Documents    \* of the first path

MCAbout == [r \in Requests |-> 1]
MCEdits == [p \in Paths |-> IF p = 1 THEN Texts ELSE 1]
MCOpens == [p \in Paths |-> IF p = 1 THEN Documents ELSE 1]
=============================================================================
