----------------------------- MODULE MCAccounts -----------------------------
(* A small instance of Accounts: the slots of the requests are alike.      *)
EXTENDS Accounts, TLC

(* So are the names of the projects there may be at first.                *)
Alike == Permutations(Requests) \cup Permutations(Founding)
=============================================================================
