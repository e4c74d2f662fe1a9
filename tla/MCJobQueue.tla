---------------------------- MODULE MCJobQueue ----------------------------
(* Small instances of JobQueue for TLC: threads are pairs of a process and *)
(* a slot, so that the owner of a thread is its first component.           *)
EXTENDS JobQueue

CONSTANTS p1, p2, b1, b2

OneThreadEach == {<<p1, 1>>, <<p2, 1>>}
TwoAndOne == {<<p1, 1>>, <<p1, 2>>, <<p2, 1>>}
OwnerOf == [w \in Worker |-> w[1]]
=============================================================================
