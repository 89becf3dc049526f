---------------------------- MODULE MCIngestion ----------------------------
(* A small instance of Ingestion: two song contests, one by its name and   *)
(* one by two weaker words, and a concert.                                 *)
EXTENDS Ingestion, TLC

CONSTANTS gala, trot, concert

Titles == [rec \in Records |->
    CASE rec = gala -> {"strong"}
      [] rec = trot -> {"singing", "contest"}
      [] rec = concert -> {"singing"}]

Alike == Permutations(Requests)
=============================================================================
