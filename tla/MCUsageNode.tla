----------------------------- MODULE MCUsageNode -----------------------------
(* Small instances of UsageNode.                                           *)
EXTENDS UsageNode, TLC

CONSTANTS c1, c2

(* The clients are interchangeable (for runs without temporal properties). *)
ClientSymmetry == Permutations(Clients)
=============================================================================
