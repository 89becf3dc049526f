---------------------------- MODULE MCMasterLock ----------------------------
(* Small instances of MasterLock: the jobs are interchangeable.            *)
EXTENDS MasterLock, TLC

JobSymmetry == Permutations(Holders)
=============================================================================
