---------------------------- MODULE MCProposals ----------------------------
(* Small instances of Proposals for TLC.  id is a name the fast path       *)
(* knows, number another alias of the same target that stays a question;   *)
(* start, in the second file, is an alias of a date target.                *)
EXTENDS Proposals

CONSTANTS s1, s2, id, number, start, empid, hired, unheard

TwoFiles == <<<<id, number>>, <<start>>>>

Ev(name, alias, type, unique) ==
  [name |-> name, alias |-> alias, type |-> type, pattern |-> 90, unique |-> unique]
EvidenceOf ==
  [c \in Column |-> [t \in Target |->
     CASE <<c, t>> = <<id, empid>> -> Ev(60, 100, 100, 100)
       [] <<c, t>> = <<number, empid>> -> Ev(30, 100, 100, 100)
       [] <<c, t>> = <<start, hired>> -> Ev(40, 100, 100, 80)
       [] <<c, t>> = <<number, hired>> -> Ev(70, 0, 100, 80)
       [] OTHER -> Ev(20, 0, 0, 100)]]

Said(t, n) == [target |-> t, confidence |-> n]
Saying == {Said(empid, 100), Said(empid, 40), Said(hired, 100), Said(unheard, 60)}

On(db, workers, failover, fast) ==
  [database |-> db, workers |-> workers, failover |-> failover, fast |-> fast]
Deployed == {On("sqlite", 1, FALSE, TRUE), On("sqlite", 2, TRUE, FALSE),
             On("postgresql", 2, FALSE, TRUE), On("postgresql", 1, TRUE, FALSE)}
=============================================================================
