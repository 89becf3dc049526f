----------------------------- MODULE MasterLock -----------------------------
(***************************************************************************)
(* The project write lock of app/core/master_lock.py and the jobs of       *)
(* app/queue/jobs.py that read, recompute and rewrite a project's master   *)
(* while they hold it.                                                     *)
(*                                                                         *)
(* One project key, hence one Redis lock.  Every Redis command is one      *)
(* atomic step; everything between two awaits of a job may interleave with *)
(* every other job.  A tick is one poll interval (_POLL_INTERVAL_SEC).     *)
(***************************************************************************)
EXTENDS Integers

CONSTANTS
    Holders,       \* job ids; a retry of a job keeps its id (the lock's holder value)
    NoJob,         \* no such key in Redis
    Unlocked,      \* jobs that run with redis None or an empty project_key
    LockTTL,       \* _LOCK_TTL_SEC in ticks
    WaitMax,       \* _WAIT_TIMEOUT_SEC in ticks
    HoldMax,       \* the longest time a job stays in the locked section, in ticks
    MaxTries,      \* WorkerSettings.max_tries
    MaxCrashes,    \* bound: worker crashes in one behaviour
    MaxErrors      \* bound: failing Redis commands in one behaviour

ASSUME LockAssumption ==
    /\ NoJob \notin Holders
    /\ Unlocked \subseteq Holders
    /\ LockTTL \in Nat \ {0}
    /\ HoldMax \in Nat
    /\ WaitMax \in Nat
    /\ MaxTries \in Nat
    /\ MaxCrashes \in Nat
    /\ MaxErrors \in Nat

VARIABLES
    lock,          \* the Redis key: holder and remaining time to live
    step,          \* where each job is
    wait,          \* ticks since the job computed its deadline, up to WaitMax
    held,          \* ticks since the job entered the locked section
    tries,         \* attempts started so far (arq's job_try)
    ok,            \* did the locked body return normally in this attempt
    master,        \* the deltas merged into the stored master
    basis,         \* the master each job read at the start of its body
    committed,     \* jobs whose write has been stored at some time
    crashes,
    errors,
    bypassed,      \* lockHistory: some job entered without having the lock
    stolen         \* lockHistory: a SET or DEL hit a lock held by another job

lockVars == <<lock, step, wait, held, tries, ok, master, basis, committed,
              crashes, errors, bypassed, stolen>>

lockHistory == <<bypassed, stolen>>
data    == <<master, basis, committed>>

Phases == {"queued", "try", "get", "reset", "sleep", "read", "write",
           "relget", "reldel", "done", "failed"}

(* The locked section runs from the acquiring SET to the end of _release.  *)
Section == {"read", "write", "relget", "reldel"}
Waiting == {"try", "get", "reset", "sleep"}

InSection(j) == step[j] \in Section

Free       == [holder |-> NoJob, left |-> 0]
HeldBy(j)  == [holder |-> j, left |-> LockTTL]

LockTypeOK ==
    /\ lock \in [holder : Holders \cup {NoJob}, left : 0 .. LockTTL]
    /\ lock.holder = NoJob <=> lock.left = 0
    /\ step \in [Holders -> Phases]
    /\ wait \in [Holders -> 0 .. WaitMax]
    /\ held \in [Holders -> 0 .. HoldMax]
    /\ tries \in [Holders -> 0 .. MaxTries]
    /\ ok \in [Holders -> BOOLEAN]
    /\ master \in SUBSET Holders
    /\ basis \in [Holders -> SUBSET Holders]
    /\ committed \in SUBSET Holders
    /\ crashes \in 0 .. MaxCrashes
    /\ errors \in 0 .. MaxErrors
    /\ bypassed \in BOOLEAN
    /\ stolen \in BOOLEAN

LockInit ==
    /\ lock = Free
    /\ step = [j \in Holders |-> "queued"]
    /\ wait = [j \in Holders |-> 0]
    /\ held = [j \in Holders |-> 0]
    /\ tries = [j \in Holders |-> 0]
    /\ ok = [j \in Holders |-> FALSE]
    /\ master = {}
    /\ basis = [j \in Holders |-> {}]
    /\ committed = {}
    /\ crashes = 0
    /\ errors = 0
    /\ bypassed = FALSE
    /\ stolen = FALSE
-----------------------------------------------------------------------------
GoTo(j, phase) == step' = [step EXCEPT ![j] = phase]

(* Enter the locked section: the clock of the section starts again.        *)
Enter(j) == GoTo(j, "read") /\ held' = [held EXCEPT ![j] = 0]

(* Defect: a job without tries left is put back into the queue.            *)
AlwaysRequeue(j) == GoTo(j, "queued")

(* Leaving master_write_lock ends the attempt.  A job whose body returned  *)
(* is done; one that raised is run again by the queue, or not.             *)
AfterRaise(j) ==
    \/ tries[j] < MaxTries /\ GoTo(j, "queued")
    \/ GoTo(j, "failed")

Leave(j) == IF ok[j] THEN GoTo(j, "done") ELSE AfterRaise(j)

(* A worker picks the job up and reaches master_write_lock, which computes *)
(* its deadline, or yields at once when there is no Redis or no key.       *)
StartAttempt(j) ==
    /\ step[j] = "queued"
    /\ tries[j] < MaxTries
    /\ tries' = [tries EXCEPT ![j] = @ + 1]
    /\ ok' = [ok EXCEPT ![j] = FALSE]
    /\ \/ /\ j \notin Unlocked
          /\ GoTo(j, "try")
          /\ wait' = [wait EXCEPT ![j] = 0]
          /\ UNCHANGED <<held, bypassed>>
       \/ /\ j \in Unlocked
          /\ Enter(j)
          /\ bypassed' = TRUE
          /\ UNCHANGED wait
    /\ UNCHANGED <<lock, data, crashes, errors, stolen>>

(* Defect: SET without NX.                                                 *)
SetAlways(j) ==
    /\ step[j] = "try"
    /\ lock' = HeldBy(j)
    /\ Enter(j)
    /\ UNCHANGED <<wait, tries, ok, data, crashes, errors, lockHistory>>

(* _try_acquire: SET key holder NX EX ttl.                                 *)
SetIfAbsent(j) ==
    /\ step[j] = "try"
    /\ \/ /\ lock.holder = NoJob
          /\ lock' = HeldBy(j)
          /\ Enter(j)
       \/ /\ lock.holder # NoJob
          /\ GoTo(j, "get")
          /\ UNCHANGED <<lock, held>>
    /\ UNCHANGED <<wait, tries, ok, data, crashes, errors, lockHistory>>

(* Defect: any value found counts as the job's own.                        *)
ReenterAnyHolder(j) ==
    /\ step[j] = "get"
    /\ GoTo(j, "reset")
    /\ UNCHANGED <<lock, wait, held, tries, ok, data, crashes, errors, lockHistory>>

(* _try_acquire: GET after a failed NX.  A foreign value makes the attempt *)
(* fail, and master_write_lock raises past its deadline or sleeps.         *)
ReadHolder(j) ==
    /\ step[j] = "get"
    /\ \/ lock.holder = j /\ GoTo(j, "reset")
       \/ lock.holder # j /\ wait[j] < WaitMax /\ GoTo(j, "sleep")
       \/ lock.holder # j /\ wait[j] = WaitMax /\ AfterRaise(j)
    /\ UNCHANGED <<lock, wait, held, tries, ok, data, crashes, errors, lockHistory>>

(* _try_acquire: the re-entry of a job that finds its own value.  This SET *)
(* has no NX: whatever the key holds by now is overwritten.                *)
Reenter(j) ==
    /\ step[j] = "reset"
    /\ lock' = HeldBy(j)
    /\ Enter(j)
    /\ stolen' = (stolen \/ lock.holder \notin {j, NoJob})
    /\ UNCHANGED <<wait, tries, ok, data, crashes, errors, bypassed>>

(* _try_acquire: a failing command lets the job pass without the lock; the *)
(* server may or may not have applied it before the failure.               *)
AcquireError(j) ==
    /\ step[j] \in {"try", "get", "reset"}
    /\ errors < MaxErrors
    /\ errors' = errors + 1
    /\ \/ lock' = lock
       \/ /\ \/ step[j] = "try" /\ lock.holder = NoJob
             \/ step[j] = "reset"
          /\ lock' = HeldBy(j)
    /\ Enter(j)
    /\ bypassed' = TRUE
    /\ UNCHANGED <<wait, tries, ok, data, crashes, stolen>>

(* Defect: the lock protects the read only.                                *)
ReadThenRelease(j) ==
    /\ step[j] = "read"
    /\ basis' = [basis EXCEPT ![j] = master]
    /\ lock' = Free
    /\ GoTo(j, "write")
    /\ UNCHANGED <<wait, held, tries, ok, master, committed,
                   crashes, errors, lockHistory>>

(* The locked body reads the master, calls the LLM and stores the merge.   *)
ReadMaster(j) ==
    /\ step[j] = "read"
    /\ basis' = [basis EXCEPT ![j] = master]
    /\ GoTo(j, "write")
    /\ UNCHANGED <<lock, wait, held, tries, ok, master, committed,
                   crashes, errors, lockHistory>>

(* After the write the body may still raise (a later write, the PRD).      *)
WriteMaster(j) ==
    /\ step[j] = "write"
    /\ master' = basis[j] \cup {j}
    /\ committed' = committed \cup {j}
    /\ \E returned \in BOOLEAN : ok' = [ok EXCEPT ![j] = returned]
    /\ GoTo(j, "relget")
    /\ UNCHANGED <<lock, wait, held, tries, basis, crashes, errors, lockHistory>>

(* The body raises before it writes; ok keeps the FALSE of the start.      *)
BodyRaises(j) ==
    /\ step[j] \in {"read", "write"}
    /\ GoTo(j, "relget")
    /\ UNCHANGED <<lock, wait, held, tries, ok, data, crashes, errors, lockHistory>>

(* _release: GET; only the job's own value leads to the DEL.  A job that   *)
(* ran without Redis or key has no release; no lock ever has its id.       *)
ReleaseGet(j) ==
    /\ step[j] = "relget"
    /\ IF lock.holder = j THEN GoTo(j, "reldel") ELSE Leave(j)
    /\ UNCHANGED <<lock, wait, held, tries, ok, data, crashes, errors, lockHistory>>

(* _release: DEL, a command of its own, which deletes whatever is there.   *)
ReleaseDel(j) ==
    /\ step[j] = "reldel"
    /\ lock' = Free
    /\ stolen' = (stolen \/ lock.holder \notin {j, NoJob})
    /\ Leave(j)
    /\ UNCHANGED <<wait, held, tries, ok, data, crashes, errors, bypassed>>

(* _release: an error of the GET or of the DEL is swallowed; the lock then *)
(* stays until its time to live ends, unless the DEL was applied.          *)
ReleaseError(j) ==
    /\ step[j] \in {"relget", "reldel"}
    /\ j \notin Unlocked
    /\ errors < MaxErrors
    /\ errors' = errors + 1
    /\ \/ UNCHANGED <<lock, stolen>>
       \/ /\ step[j] = "reldel"
          /\ lock' = Free
          /\ stolen' = (stolen \/ lock.holder \notin {j, NoJob})
    /\ Leave(j)
    /\ UNCHANGED <<wait, held, tries, ok, data, crashes, bypassed>>

(* The worker dies (or is cancelled inside a Redis call): no finally runs  *)
(* and the queue hands the same job id to a worker again.                  *)
WorkerDies(j) ==
    /\ step[j] \in Waiting \cup Section
    /\ crashes < MaxCrashes
    /\ crashes' = crashes + 1
    /\ AfterRaise(j)
    /\ UNCHANGED <<lock, wait, held, tries, ok, data, errors, lockHistory>>

(* The clocks of the jobs advance, sleepers try again.  No job stays in    *)
(* its locked section for more than HoldMax.                               *)
Advance ==
    /\ \A j \in Holders : InSection(j) => held[j] < HoldMax
    /\ step' = [j \in Holders |-> IF step[j] = "sleep" THEN "try" ELSE step[j]]
    /\ wait' = [j \in Holders |-> IF step[j] \in Waiting /\ wait[j] < WaitMax
                               THEN wait[j] + 1 ELSE wait[j]]
    /\ held' = [j \in Holders |-> IF InSection(j) THEN held[j] + 1 ELSE held[j]]
    /\ UNCHANGED <<tries, ok, data, crashes, errors, lockHistory>>

(* Defect: a lock set without EX.                                          *)
TickWithoutTTL == Advance /\ UNCHANGED lock

(* One poll interval passes and the lease runs down.                       *)
Tick ==
    /\ Advance
    /\ lock' = IF lock.left > 1 THEN [lock EXCEPT !.left = @ - 1] ELSE Free

LockStep(j) ==
    \/ StartAttempt(j)
    \/ SetIfAbsent(j) \/ ReadHolder(j) \/ Reenter(j)
    \/ ReadMaster(j) \/ WriteMaster(j) \/ BodyRaises(j)
    \/ ReleaseGet(j) \/ ReleaseDel(j)

LockFault(j) == AcquireError(j) \/ ReleaseError(j) \/ WorkerDies(j)

LockNext == Tick \/ \E j \in Holders : LockStep(j) \/ LockFault(j)

LockSpec == LockInit /\ [][LockNext]_lockVars

(* The event loop runs every job whose await is answered, and time passes. *)
Fairness == WF_lockVars(Tick) /\ \A j \in Holders : WF_lockVars(LockStep(j))

LockFairSpec == LockSpec /\ Fairness
-----------------------------------------------------------------------------
(* Two jobs are never in the locked section of one project at once, unless *)
(* a job passed without the lock (Redis failure, no key) or a SET or DEL   *)
(* hit the lock of another job.  It needs HoldMax < LockTTL.               *)
MutualExclusion ==
    ~bypassed /\ ~stolen =>
        \A i, j \in Holders : InSection(i) /\ InSection(j) => i = j

(* No lost update: what a job stored is still in the master whatever the   *)
(* other jobs wrote since (the purpose of master_write_lock), with the     *)
(* same two exceptions.                                                    *)
NoLostUpdate == ~bypassed /\ ~stolen => committed \subseteq master

(* The lock of a job outside its section is always one that a crash or a   *)
(* failed release left behind: without these no SET or DEL ever hits the   *)
(* lock of another job.                                                    *)
NoTheft == crashes = 0 /\ errors = 0 /\ Unlocked = {} => ~stolen

(* Every job that was submitted ends: it never polls for ever, since each  *)
(* wait ends by acquisition or by MasterLockTimeout.                       *)
JobsEnd == \A j \in Holders : <>(step[j] \in {"done", "failed"})

(* A lock that a crashed or failed job left behind is given up.            *)
LockReclaimed == \A j \in Holders : lock.holder = j ~> lock.holder # j

(* The locked read, compute and write of every job is one atomic update of *)
(* the master, until the lock is bypassed or changes hands: the jobs of    *)
(* MasterLock implement MasterDoc.                                         *)
Doc == INSTANCE MasterDoc WITH Jobs <- Holders, doc <- master, kept <- ~bypassed /\ ~stolen

MasterIsSerial == Doc!Spec
=============================================================================
