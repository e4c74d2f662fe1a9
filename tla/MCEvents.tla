------------------------------ MODULE MCEvents ------------------------------
(* Small instances of Events for TLC. *)
EXTENDS Events

CONSTANTS s1, s2, browser
=============================================================================
