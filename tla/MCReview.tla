------------------------------ MODULE MCReview ------------------------------
(* Small instances of Review for TLC: two colliding columns and a safe one *)
(* in one file, three records with an identifier and one other field.        *)
EXTENDS Review, TLC

CONSTANTS a, b, c, email, name, f1, r1, r2, r3, i1, i2, i3, s1, s2

OneFile == [k \in Column |-> f1]
Proposed == [k \in Column |-> IF k = c THEN name ELSE email]
Renaming == Permutations(Session) \cup Permutations(Record) \cup Permutations(Id)
=============================================================================
