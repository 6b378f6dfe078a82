----------------------------- MODULE MCFusedLane -------------------------------
(* The chain of the repository's own test: an as-of join and a grouped       *)
(* aggregator, which drain, around a key rewrite, which is silent, and the   *)
(* terminal tile.                                                            *)
EXTENDS FusedLane
================================================================================
