------------------------------ MODULE MCPipeline ------------------------------
(***************************************************************************)
(* Three candidates: the parser's, and two that a correction may propose.  *)
(***************************************************************************)
EXTENDS Pipeline

CONSTANTS c1, c2, c3

MCCandidates == {c1, c2, c3}
=============================================================================
