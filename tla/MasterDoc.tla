------------------------------ MODULE MasterDoc ------------------------------
(***************************************************************************)
(* What the project lock promises to the master documents (the merged CPS  *)
(* and PRD of a project): jobs may run in any order, but each write adds   *)
(* the job's delta to everything written before it.  The promise lapses    *)
(* when the lock is passed without Redis ("availability first") or a lock  *)
(* changes hands under a late command; from then on anything may be        *)
(* stored.  Nothing here knows of leases, holders or worker processes.     *)
(***************************************************************************)
CONSTANT Jobs          \* the jobs that write one project's master

VARIABLES
    doc,               \* the deltas the master contains
    kept               \* is the promise in force

Init == doc = {} /\ kept = TRUE

(* A job merges its delta into the current master, as one atomic update.   *)
Merge(j) == kept /\ doc' = doc \cup {j} /\ kept' = TRUE

Lapse == kept' = FALSE

Next == Lapse \/ \E j \in Jobs : Merge(j)

Spec == Init /\ [][Next]_<<doc, kept>>
=============================================================================
