------------------------------ MODULE Delivery ------------------------------
(***************************************************************************)
(* What the target promises about each record, whatever requests, retries  *)
(* and losses happen: one effect, in one direction.  A record is written   *)
(* once; a temporary failure may become a success, a success may be        *)
(* undone, and nothing else changes any more.                              *)
(***************************************************************************)
CONSTANT Record

VARIABLE effect

Effects == {"none", "held", "postponed", "refused", "undone"}

Init == effect = [r \in Record |-> "none"]

Become(R, from, to) ==
  /\ \A r \in R : effect[r] = from
  /\ effect' = [r \in Record |-> IF r \in R THEN to ELSE effect[r]]

Send == \E r \in Record, to \in {"held", "postponed", "refused"} : Become({r}, "none", to)

Retry == \E R \in SUBSET Record : Become(R, "postponed", "held")

Undo == \E R \in SUBSET Record : Become(R, "held", "undone")

Next == Send \/ Retry \/ Undo

Spec == Init /\ [][Next]_effect
=============================================================================
