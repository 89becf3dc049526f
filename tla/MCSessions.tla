----------------------------- MODULE MCSessions -----------------------------
(* A small instance of Sessions: one user with two pairs, a second user    *)
(* with one.                                                               *)
EXTENDS Sessions, TLC

CONSTANTS alice, bob, p1, p2, p3

Owners == [p \in Pairs |-> IF p = p3 THEN bob ELSE alice]

(* The slots of the requests are interchangeable.                          *)
SlotSymmetry == Permutations(Requests)
=============================================================================
