--------------------------- MODULE MeetingPipeline ---------------------------
(***************************************************************************)
(* A batch of meetings of one project: post_meeting_pipeline_job for every *)
(* version, the prefetch_extract_job it starts for the next one, and the   *)
(* extract cache (app/queue/extract_cache.py) both share.                  *)
(*                                                                         *)
(* The pipelines behind run_cps_merge and _prd_merge_compute are external: *)
(* they read, call the LLM and write, or raise.  The project lock is taken *)
(* at its word (MasterLock shows when it keeps it): one holder, re-entered *)
(* by a retry of the same job, given up when its job is gone.              *)
(***************************************************************************)
EXTENDS Integers, FiniteSets

CONSTANTS
    N,             \* versions 1 .. N; version k names k + 1 as next_meeting
    ExtractSpan,   \* longest extraction (three LLM calls), in ticks
    WaitMax,       \* _WAIT_TIMEOUT_SEC of extract_cache, in ticks
    LockTTL,       \* DEFAULT_LOCK_TTL_SEC, in ticks
    MaxTries,      \* WorkerSettings.max_tries
    MaxFaults      \* bound: crashes, cancellations, leaks of the project gate,
                   \* failing Redis commands and lost cache entries, together

ASSUME ConstantsAssumption ==
    /\ N \in Nat \ {0} /\ MaxTries \in Nat \ {0}
    /\ ExtractSpan \in Nat /\ WaitMax \in Nat /\ LockTTL \in Nat \ {0}
    /\ MaxFaults \in Nat

Versions == 1 .. N

VARIABLES
    mpc,           \* the post_meeting job of each version
    ppc,           \* the prefetch job of each version
    mclock, pclock,\* time in the current wait or extraction
    tries,         \* attempts of the post_meeting job
    cache,         \* the extract stored for the version
    exlock,        \* remaining time to live of its single-flight lock
    extract,       \* what the post_meeting job will merge
    holder,        \* the version whose job has the project lock, or 0
    cps,           \* the CPS merge, a task of its own inside the job
    prd,           \* what became of the PRD: a result, or the demoted failure
    masterCps, masterPrd,   \* the versions merged into the stored masters
    crashes,       \* crashes, cancellations and leaks of the gate so far
    errors         \* failing Redis commands and lost entries so far

jobs   == <<mpc, ppc, mclock, pclock, tries>>
shared == <<cache, exlock>>
attempt == <<extract, cps, prd>>
master == <<holder, masterCps, masterPrd>>
faults == <<crashes, errors>>
vars   == <<jobs, shared, attempt, master, faults>>

(* _is_valid_extract tells the two kinds of stored extracts apart.         *)
Extracts == {"valid", "invalid"}

(* What `except (ValueError, RuntimeError)` catches: a deterministic error *)
(* of the pipeline, and an LLM that failed for the moment, since its       *)
(* GeminiError is a RuntimeError.  Other exceptions leave the job.         *)
Demoted == {"deterministic", "llm"}

Merging == {"merge", "awaitcps", "awaitfail", "commit", "release", "raise"}

TypeOK ==
    /\ mpc \in [Versions -> {"idle", "queued", "get", "lock", "wait", "compute", "set",
                             "next", "acquire", "done", "failed"} \cup Merging]
    /\ ppc \in [Versions -> {"none", "queued", "get", "lock", "compute", "set", "over"}]
    /\ mclock \in [Versions -> 0 .. WaitMax + ExtractSpan]
    /\ pclock \in [Versions -> 0 .. ExtractSpan]
    /\ tries \in [Versions -> 0 .. MaxTries]
    /\ cache \in [Versions -> {"none"} \cup Extracts]
    /\ exlock \in [Versions -> 0 .. LockTTL]
    /\ extract \in [Versions -> {"none"} \cup Extracts]
    /\ holder \in 0 .. N
    /\ cps \in [Versions -> {"none", "running", "merged", "failed"}]
    /\ prd \in [Versions -> {"none", "ready", "committed"} \cup Demoted]
    /\ masterCps \in SUBSET Versions /\ masterPrd \in SUBSET Versions
    /\ crashes \in 0 .. MaxFaults /\ errors \in 0 .. MaxFaults

Init ==
    /\ mpc = [k \in Versions |-> "idle"]
    /\ ppc = [k \in Versions |-> "none"]
    /\ mclock = [k \in Versions |-> 0] /\ pclock = [k \in Versions |-> 0]
    /\ tries = [k \in Versions |-> 0]
    /\ cache = [k \in Versions |-> "none"] /\ exlock = [k \in Versions |-> 0]
    /\ extract = [k \in Versions |-> "none"]
    /\ holder = 0
    /\ cps = [k \in Versions |-> "none"]
    /\ prd = [k \in Versions |-> "none"]
    /\ masterCps = {} /\ masterPrd = {}
    /\ crashes = 0 /\ errors = 0
-----------------------------------------------------------------------------
MainTo(k, phase) == mpc' = [mpc EXCEPT ![k] = phase]
PreTo(k, phase)  == ppc' = [ppc EXCEPT ![k] = phase]

Fail    == crashes + errors < MaxFaults /\ errors' = errors + 1
Disrupt == crashes + errors < MaxFaults /\ crashes' = crashes + 1

(* An exception leaves the job, and with it go its local variables: the    *)
(* queue runs it again while it may, or gives it up (which exceptions it   *)
(* retries is the queue's choice).                                         *)
GiveUp(k) ==
    /\ (tries[k] < MaxTries /\ MainTo(k, "queued")) \/ MainTo(k, "failed")
    /\ mclock' = [mclock EXCEPT ![k] = 0]
    /\ extract' = [extract EXCEPT ![k] = "none"]
    /\ prd' = [prd EXCEPT ![k] = "none"]

(* A CPS task that nobody awaited would go on without the job.             *)
Retry(k) == GiveUp(k) /\ cps' = [cps EXCEPT ![k] = IF @ = "running" THEN @ ELSE "none"]

(* The marker of the project gate is a job's from its submission until its *)
(* first attempt ends (JobGate has the details).                           *)
Marked(k) == ~(mpc[k] \in {"idle", "done", "failed"} \/ (mpc[k] = "queued" /\ tries[k] > 0))

(* The client submits the meetings of a batch in any order.  The gate lets *)
(* one in while no other job of the project has its marker; a race or an   *)
(* error of the gate lets it in anyway.                                    *)
Submit(k) ==
    /\ mpc[k] = "idle"
    /\ MainTo(k, "queued")
    /\ \/ (\A other \in Versions : ~Marked(other)) /\ UNCHANGED faults
       \/ (\E other \in Versions : Marked(other)) /\ Disrupt /\ UNCHANGED errors
    /\ UNCHANGED <<ppc, mclock, pclock, tries, shared, attempt, master>>

StartMain(k) ==
    /\ mpc[k] = "queued"
    /\ tries[k] < MaxTries
    /\ tries' = [tries EXCEPT ![k] = @ + 1]
    /\ MainTo(k, "get")
    /\ UNCHANGED <<ppc, mclock, pclock, shared, attempt, master, faults>>
-----------------------------------------------------------------------------
(* _get_or_compute_extract.                                                *)

Use(k, e) == extract' = [extract EXCEPT ![k] = e] /\ MainTo(k, "next")

(* get_cached_extract: a valid entry is a hit, anything else a miss.       *)
MainGet(k) ==
    /\ mpc[k] = "get"
    /\ \/ cache[k] = "valid" /\ Use(k, "valid")
       \/ cache[k] # "valid" /\ MainTo(k, "lock") /\ UNCHANGED extract
    /\ UNCHANGED <<ppc, mclock, pclock, tries, shared, cps, prd, master, faults>>

(* try_acquire_extract_lock: SET NX EX; nobody ever deletes the lock.      *)
MainLock(k) ==
    /\ mpc[k] = "lock"
    /\ \/ /\ exlock[k] = 0
          /\ exlock' = [exlock EXCEPT ![k] = LockTTL]
          /\ MainTo(k, "compute")
       \/ exlock[k] > 0 /\ MainTo(k, "wait") /\ UNCHANGED exlock
    /\ UNCHANGED <<ppc, mclock, pclock, tries, cache, attempt, master, faults>>

(* Defect: the job uses whatever the wait returned.                        *)
UseAnyEntry(k) ==
    /\ mpc[k] = "wait"
    /\ \/ mclock[k] < WaitMax /\ cache[k] # "none" /\ Use(k, cache[k])
       \/ mclock[k] = WaitMax /\ MainTo(k, "compute") /\ UNCHANGED extract
    /\ mclock' = [mclock EXCEPT ![k] = 0]
    /\ UNCHANGED <<ppc, pclock, tries, shared, cps, prd, master, faults>>

(* wait_for_cached_extract returns the first entry it sees, which may be   *)
(* an invalid one, or nothing at its deadline: then the job computes.      *)
MainWait(k) ==
    /\ mpc[k] = "wait"
    /\ \/ mclock[k] < WaitMax /\ cache[k] = "valid" /\ Use(k, "valid")
       \/ /\ mclock[k] < WaitMax => cache[k] = "invalid"
          /\ MainTo(k, "compute")
          /\ UNCHANGED extract
    /\ mclock' = [mclock EXCEPT ![k] = 0]
    /\ UNCHANGED <<ppc, pclock, tries, shared, cps, prd, master, faults>>

(* _compute_extract returns whatever the LLM produced, or raises.          *)
MainCompute(k) ==
    /\ mpc[k] = "compute"
    /\ \/ /\ \E e \in Extracts : extract' = [extract EXCEPT ![k] = e]
          /\ MainTo(k, "set")
          /\ mclock' = [mclock EXCEPT ![k] = 0]
          /\ UNCHANGED <<cps, prd>>
       \/ Retry(k)
    /\ UNCHANGED <<ppc, pclock, tries, shared, master, faults>>

MainSet(k) ==
    /\ mpc[k] = "set"
    /\ cache' = [cache EXCEPT ![k] = extract[k]]
    /\ MainTo(k, "next")
    /\ UNCHANGED <<ppc, mclock, pclock, tries, exlock, attempt, master, faults>>

(* Every cache operation survives a Redis error: a failed GET is a miss, a *)
(* failed lock lets the job compute, a failed SET leaves the entry.        *)
MainCacheError(k) ==
    /\ Fail
    /\ \/ mpc[k] = "get" /\ MainTo(k, "lock")
       \/ mpc[k] = "lock" /\ MainTo(k, "compute")
       \/ mpc[k] = "set" /\ MainTo(k, "next")
    /\ UNCHANGED <<ppc, mclock, pclock, tries, shared, attempt, master, crashes>>
-----------------------------------------------------------------------------
(* prefetch_extract_job.                                                   *)

StartPrefetch(k) ==
    /\ ppc[k] = "queued"
    /\ PreTo(k, "get")
    /\ UNCHANGED <<mpc, mclock, pclock, tries, shared, attempt, master, faults>>

(* already_cached, skipped_quota, or go on to the lock.                    *)
PrefetchGet(k) ==
    /\ ppc[k] = "get"
    /\ \/ PreTo(k, "over")
       \/ cache[k] # "valid" /\ PreTo(k, "lock")
    /\ UNCHANGED <<mpc, mclock, pclock, tries, shared, attempt, master, faults>>

(* Defect: the prefetch computes although the lock is taken.               *)
PrefetchAnyway(k) ==
    /\ ppc[k] = "lock"
    /\ exlock' = [exlock EXCEPT ![k] = LockTTL]
    /\ PreTo(k, "compute")
    /\ UNCHANGED <<mpc, mclock, pclock, tries, cache, attempt, master, faults>>

PrefetchLock(k) ==
    /\ ppc[k] = "lock"
    /\ \/ /\ exlock[k] = 0
          /\ exlock' = [exlock EXCEPT ![k] = LockTTL]
          /\ PreTo(k, "compute")
       \/ exlock[k] > 0 /\ PreTo(k, "over") /\ UNCHANGED exlock
    /\ UNCHANGED <<mpc, mclock, pclock, tries, cache, attempt, master, faults>>

(* The extraction and set_cached_extract; an error ends the job.           *)
PrefetchCompute(k) ==
    /\ ppc[k] = "compute"
    /\ \/ \E e \in Extracts : cache' = [cache EXCEPT ![k] = e]
       \/ UNCHANGED cache
    /\ PreTo(k, "over")
    /\ pclock' = [pclock EXCEPT ![k] = 0]
    /\ UNCHANGED <<mpc, mclock, tries, exlock, attempt, master, faults>>

(* A failed GET is a miss, a failed lock lets the prefetch compute.        *)
PrefetchError(k) ==
    /\ Fail
    /\ \/ ppc[k] = "get" /\ PreTo(k, "lock")
       \/ ppc[k] = "lock" /\ PreTo(k, "compute")
    /\ UNCHANGED <<mpc, mclock, pclock, tries, shared, attempt, master, crashes>>

(* The entry's time to live ends, or Redis evicts it.                      *)
LoseEntry(k) ==
    /\ cache[k] # "none"
    /\ Fail
    /\ cache' = [cache EXCEPT ![k] = "none"]
    /\ UNCHANGED <<jobs, exlock, attempt, master, crashes>>
-----------------------------------------------------------------------------
(* post_meeting_pipeline_job after the extract.                            *)

(* _enqueue_next_prefetch: best effort, and the deterministic task id lets *)
(* the queue drop a second one.                                            *)
EnqueueNext(k) ==
    /\ mpc[k] = "next"
    /\ \/ k < N /\ ppc[k + 1] = "none" /\ PreTo(k + 1, "queued")
       \/ UNCHANGED ppc
    /\ MainTo(k, "acquire")
    /\ UNCHANGED <<mclock, pclock, tries, shared, attempt, master, faults>>

(* master_write_lock, then create_task(run_cps_merge); MasterLockTimeout   *)
(* is raised when another job keeps the lock for too long.                 *)
AcquireMaster(k) ==
    /\ mpc[k] = "acquire"
    /\ \/ /\ holder \in {0, k}
          /\ holder' = k
          /\ cps' = [cps EXCEPT ![k] = "running"]
          /\ MainTo(k, "merge")
          /\ UNCHANGED <<mclock, extract, prd>>
       \/ holder \notin {0, k} /\ Retry(k) /\ UNCHANGED holder
    /\ UNCHANGED <<ppc, pclock, tries, shared, masterCps, masterPrd, faults>>

(* The CPS task runs beside the job: it stores the new master CPS or fails.*)
CpsTask(k) ==
    /\ cps[k] = "running"
    /\ \/ cps' = [cps EXCEPT ![k] = "merged"] /\ masterCps' = masterCps \cup {k}
       \/ cps' = [cps EXCEPT ![k] = "failed"] /\ UNCHANGED masterCps
    /\ UNCHANGED <<jobs, shared, extract, prd, holder, masterPrd, faults>>

PrdIs(k, outcome) == prd' = [prd EXCEPT ![k] = outcome]

(* _prd_merge_compute: a result, a failure that is demoted, or one that    *)
(* waits for the CPS task and then leaves the job.                         *)
PrdCompute(k) ==
    /\ mpc[k] = "merge"
    /\ \/ \E o \in {"ready"} \cup Demoted : PrdIs(k, o) /\ MainTo(k, "awaitcps")
       \/ MainTo(k, "awaitfail") /\ UNCHANGED prd
    /\ UNCHANGED <<ppc, mclock, pclock, tries, shared, extract, cps, master, faults>>

(* Defect: the PRD is committed without waiting for the CPS task.          *)
CommitAtOnce(k) ==
    /\ mpc[k] = "awaitcps"
    /\ MainTo(k, IF prd[k] = "ready" THEN "commit" ELSE "release")
    /\ UNCHANGED <<ppc, mclock, pclock, tries, shared, attempt, master, faults>>

(* Defect: a failure of the CPS task is swallowed, the PRD is kept back.   *)
SwallowCpsError(k) ==
    /\ mpc[k] = "awaitcps"
    /\ cps[k] # "running"
    /\ MainTo(k, IF prd[k] = "ready" /\ cps[k] = "merged" THEN "commit" ELSE "release")
    /\ UNCHANGED <<ppc, mclock, pclock, tries, shared, attempt, master, faults>>

(* await cps_task: its exception, if it has one, leaves the job.           *)
AwaitCps(k) ==
    /\ mpc[k] = "awaitcps"
    /\ \/ cps[k] = "merged" /\ MainTo(k, IF prd[k] = "ready" THEN "commit" ELSE "release")
       \/ cps[k] = "failed" /\ MainTo(k, "raise")
    /\ UNCHANGED <<ppc, mclock, pclock, tries, shared, attempt, master, faults>>

(* Defect: the exception leaves the job before the CPS task has ended.     *)
RaiseAtOnce(k) ==
    /\ mpc[k] = "awaitfail"
    /\ MainTo(k, "raise")
    /\ UNCHANGED <<ppc, mclock, pclock, tries, shared, attempt, master, faults>>

(* Defect: only a successful CPS task ends the wait.                       *)
AwaitMergeOnly(k) ==
    /\ mpc[k] = "awaitfail"
    /\ cps[k] = "merged"
    /\ MainTo(k, "raise")
    /\ UNCHANGED <<ppc, mclock, pclock, tries, shared, attempt, master, faults>>

(* with suppress(BaseException): await cps_task, before the raise.         *)
AwaitFail(k) ==
    /\ mpc[k] = "awaitfail"
    /\ cps[k] # "running"
    /\ MainTo(k, "raise")
    /\ UNCHANGED <<ppc, mclock, pclock, tries, shared, attempt, master, faults>>

(* prd_commit writes the master PRD, based on the CPS stored before.       *)
PrdCommit(k) ==
    /\ mpc[k] = "commit"
    /\ \/ /\ masterPrd' = masterPrd \cup {k}
          /\ PrdIs(k, "committed")
          /\ MainTo(k, "release")
       \/ /\ \E o \in Demoted : PrdIs(k, o)
          /\ MainTo(k, "release")
          /\ UNCHANGED masterPrd
       \/ MainTo(k, "raise") /\ UNCHANGED <<prd, masterPrd>>
    /\ UNCHANGED <<ppc, mclock, pclock, tries, shared, extract, cps, holder, masterCps, faults>>

(* Leaving master_write_lock; the rest of the job is best effort.          *)
Release(k) ==
    /\ holder' = IF holder = k THEN 0 ELSE holder
    /\ \/ /\ mpc[k] = "release"
          /\ MainTo(k, "done")
          /\ extract' = [extract EXCEPT ![k] = "none"]
          /\ cps' = [cps EXCEPT ![k] = IF @ = "running" THEN @ ELSE "none"]
          /\ UNCHANGED <<mclock, prd>>
       \/ mpc[k] = "raise" /\ Retry(k)
    /\ UNCHANGED <<ppc, pclock, tries, shared, masterCps, masterPrd, faults>>

(* job_timeout or a worker shutdown cancels the job at its await.  While   *)
(* it awaits the CPS task, the task is cancelled with it; while the PRD is *)
(* computed, the except branch waits for the task first.                   *)
Cancel(k) ==
    /\ Disrupt
    /\ \/ /\ mpc[k] \in {"get", "lock", "wait", "compute", "set", "next", "acquire"}
          /\ Retry(k)
       \/ /\ mpc[k] = "merge"
          /\ MainTo(k, "awaitfail")
          /\ UNCHANGED <<mclock, attempt>>
       \/ /\ mpc[k] \in {"awaitcps", "awaitfail"}
          /\ cps' = [cps EXCEPT ![k] = IF @ = "running" THEN "failed" ELSE @]
          /\ MainTo(k, "raise")
          /\ UNCHANGED <<mclock, extract, prd>>
       \/ /\ mpc[k] = "commit"
          /\ MainTo(k, "raise")
          /\ UNCHANGED <<mclock, attempt>>
    /\ UNCHANGED <<ppc, pclock, tries, shared, master, errors>>

(* The worker process dies with the job and its CPS task; the project lock *)
(* stays until its lease ends.                                             *)
Crash(k) ==
    /\ mpc[k] \notin {"idle", "queued", "done", "failed"}
    /\ Disrupt
    /\ GiveUp(k)
    /\ cps' = [cps EXCEPT ![k] = "none"]
    /\ UNCHANGED <<ppc, pclock, tries, shared, master, errors>>

(* The worker of a prefetch dies: the single-flight lock stays.            *)
PrefetchCrash(k) ==
    /\ ppc[k] \in {"get", "lock", "compute"}
    /\ Disrupt
    /\ PreTo(k, "over")
    /\ pclock' = [pclock EXCEPT ![k] = 0]
    /\ UNCHANGED <<mpc, mclock, tries, shared, attempt, master, errors>>

(* The lease of a job that is not in its locked section ends.              *)
LeaseEnds ==
    /\ holder # 0
    /\ mpc[holder] \notin Merging
    /\ holder' = 0
    /\ UNCHANGED <<jobs, shared, attempt, masterCps, masterPrd, faults>>

Older(clock, pc, phases) ==
    [k \in Versions |-> IF pc[k] \in phases THEN clock[k] + 1 ELSE clock[k]]

Tick ==
    /\ \A k \in Versions :
          /\ mpc[k] = "compute" => mclock[k] < ExtractSpan
          /\ mpc[k] = "wait" => mclock[k] < WaitMax
          /\ ppc[k] = "compute" => pclock[k] < ExtractSpan
    /\ \E k \in Versions :
          mpc[k] \in {"compute", "wait"} \/ ppc[k] = "compute" \/ exlock[k] > 0
    /\ mclock' = Older(mclock, mpc, {"compute", "wait"})
    /\ pclock' = Older(pclock, ppc, {"compute"})
    /\ exlock' = [k \in Versions |-> IF exlock[k] > 0 THEN exlock[k] - 1 ELSE 0]
    /\ UNCHANGED <<mpc, ppc, tries, cache, attempt, master, faults>>

MainStep(k) ==
    \/ Submit(k) \/ StartMain(k) \/ MainGet(k) \/ MainLock(k) \/ MainWait(k)
    \/ MainCompute(k) \/ MainSet(k) \/ EnqueueNext(k) \/ AcquireMaster(k)
    \/ PrdCompute(k) \/ AwaitCps(k) \/ AwaitFail(k) \/ PrdCommit(k) \/ Release(k)

PrefetchStep(k) ==
    \/ StartPrefetch(k) \/ PrefetchGet(k) \/ PrefetchLock(k) \/ PrefetchCompute(k)

Fault(k) ==
    \/ MainCacheError(k) \/ PrefetchError(k) \/ LoseEntry(k)
    \/ Cancel(k) \/ Crash(k) \/ PrefetchCrash(k)

Next ==
    \/ Tick \/ LeaseEnds
    \/ \E k \in Versions : MainStep(k) \/ CpsTask(k) \/ PrefetchStep(k) \/ Fault(k)

Spec == Init /\ [][Next]_vars

(* Redis and the LLM answer or time out, the event loop runs every task,   *)
(* workers take queued jobs, leases end.                                   *)
FairSpec ==
    /\ Spec
    /\ WF_vars(Tick) /\ WF_vars(LeaseEnds)
    /\ \A k \in Versions : WF_vars(MainStep(k)) /\ WF_vars(CpsTask(k)) /\ WF_vars(PrefetchStep(k))
-----------------------------------------------------------------------------
(* No master is written outside the project lock: the CPS task, which runs *)
(* beside the job, has ended when the job leaves the locked section, on    *)
(* every path (result, demotion, exception, cancellation).                 *)
WritesUnderLock == \A k \in Versions : cps[k] = "running" => holder = k

(* A stored PRD is always based on a stored CPS of the same version.       *)
PrdAfterCps == masterPrd \subseteq masterCps

(* A job that reports success has stored its CPS, and reports the PRD as   *)
(* an error exactly when it did not store it.                              *)
HonestResult ==
    \A k \in Versions : mpc[k] = "done" =>
        /\ k \in masterCps
        /\ prd[k] \in Demoted \/ (prd[k] = "committed" /\ k \in masterPrd)

(* Single flight: in its first attempt a job never extracts (and pays for) *)
(* its version at the same time as a prefetch, unless Redis failed or lost *)
(* an entry.  It needs ExtractSpan < WaitMax and ExtractSpan < LockTTL.    *)
(* A retry finds the lock of the failed attempt, waits for nothing and     *)
(* then extracts without a lock, so it has no such promise.                *)
SingleFlight ==
    errors = 0 => \A k \in Versions :
                     tries[k] = 1 => ~(mpc[k] = "compute" /\ ppc[k] = "compute")

(* An entry that fails validation never reaches the merge from the cache.  *)
(* (A job may merge an invalid extract it has just computed itself.)       *)
NoStaleExtract ==
    [][\A k \in Versions :
         mpc[k] \in {"get", "wait"} /\ mpc'[k] = "next" => extract'[k] = "valid"]_vars

(* Every submitted meeting ends, whatever its prefetch does.               *)
MeetingsEnd == \A k \in Versions : <>(mpc[k] \in {"done", "failed"})

=============================================================================
