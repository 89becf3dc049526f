-------------------------- MODULE MCMasterCleanup --------------------------
(* A meeting beside another job on the masters, or a design beside its     *)
(* autofill, and the clean-ups that their texts ask for.                   *)
EXTENDS MasterCleanup

CONSTANTS j1, j2

Pairs == {k \in [Jobs -> Kinds] :
             \/ k[j1] = "post_meeting" /\ k[j2] \notin {"design", "autofill"}
             \/ k[j1] = "design" /\ k[j2] = "autofill"}
=============================================================================
