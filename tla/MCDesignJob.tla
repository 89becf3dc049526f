----------------------------- MODULE MCDesignJob -----------------------------
(* Small instances of DesignJob.                                           *)
EXTENDS DesignJob

CONSTANTS j1, j2
=============================================================================
