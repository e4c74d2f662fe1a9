------------------------------ MODULE MCTarget ------------------------------
(* Small instances of Target for TLC: a record for each outcome of a push. *)
EXTENDS Target, TLC

CONSTANTS s1, s2, sent, late, refused

FateOf == [r \in Record |-> IF r = late THEN "RETRYABLE_FAILURE"
                            ELSE IF r = refused THEN "PERMANENT_FAILURE" ELSE "SUCCESS"]
Renaming == Permutations(Session)
=============================================================================
