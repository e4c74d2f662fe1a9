---------------------------- MODULE MCReconcile ----------------------------
(* Small instances of Reconcile for TLC: an identifier in two spellings    *)
(* that differ in case and stay different, an address that cleaning        *)
(* changes, and dates that can be read in one way, in two and in none.     *)
EXTENDS Reconcile

IdSpellings == {"e1", "E1"}
EmailSpellings == {"M1"}
NormalOf == [t \in Ids \cup Emails |->
               IF t = "M1" THEN "m1" ELSE t]
FoldedOf == [v \in Value \ {Blank} |-> IF v = "E1" THEN "e1" ELSE v]

Cell(form, first, second) == [form |-> form, first |-> first, second |-> second, leap |-> FALSE]
SomeDates == {Cell("iso", 3, 13), Cell("slash", 13, 3), Cell("slash", 3, 4), Cell("slash", 2, 30)}
DaysOf == [leap \in BOOLEAN |-> [month \in 1..12 |->
             CASE month = 2 -> IF leap THEN 29 ELSE 28
               [] month \in {4, 6, 9, 11} -> 30
               [] OTHER -> 31]]
=============================================================================
