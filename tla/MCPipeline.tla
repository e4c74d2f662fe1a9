----------------------------- MODULE MCPipeline -----------------------------
(* Small instances of Pipeline for TLC: one pool thread, one or two        *)
(* requests in flight.                                                     *)
EXTENDS Pipeline

CONSTANTS pool, q1, q2
=============================================================================
