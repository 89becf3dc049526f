------------------------ MODULE MeetingPipelineProofs ------------------------
(***************************************************************************)
(* For any number of meetings, any bounds and all faults of the model: the *)
(* masters of a project are written under its lock, the PRD after the CPS, *)
(* and the answer of a job says what is stored.                            *)
(*                                                                         *)
(* None of the three is inductive.  MergeInv adds what the job knows at    *)
(* every await of its locked section: it has the lock, its CPS task runs   *)
(* only while it is awaited, and the outcome it will act on is stored.     *)
(***************************************************************************)
EXTENDS MeetingPipeline, TLAPS

(* The awaits at which the CPS task may still run.                         *)
Awaiting == {"merge", "awaitcps", "awaitfail"}

(* The lock is the job's in the whole section, the task's while it runs.   *)
LockInv ==
    /\ \A k \in Versions : mpc[k] \in Merging => holder = k
    /\ \A k \in Versions : cps[k] = "running" => mpc[k] \in Awaiting

(* What is known of the stored masters at each step of the section.        *)
StoredInv ==
    /\ \A k \in Versions : cps[k] = "merged" => k \in masterCps
    /\ \A k \in Versions : mpc[k] = "commit" => cps[k] = "merged"
    /\ \A k \in Versions : mpc[k] = "awaitcps" => prd[k] \in {"ready"} \cup Demoted
    /\ \A k \in Versions : mpc[k] \in {"release", "done"} =>
          /\ k \in masterCps
          /\ prd[k] \in Demoted \/ (prd[k] = "committed" /\ k \in masterPrd)

MergeInv == TypeOK /\ LockInv /\ StoredInv /\ PrdAfterCps

-----------------------------------------------------------------------------
(* The initial state has every variable in its type.                       *)
LEMMA InitType == Init => TypeOK
BY ConstantsAssumption DEF Init, TypeOK, Versions

(* A version, or none, can be the holder of the project lock.              *)
LEMMA VersionIsHolder == Versions \subseteq 0 .. N /\ 0 \in 0 .. N /\ 0 \notin Versions
BY ConstantsAssumption DEF Versions

(* Every step of every job, task and fault keeps the types.                *)
LEMMA TypeStep == TypeOK /\ [Next]_vars => TypeOK'
<1> SUFFICES ASSUME TypeOK, [Next]_vars PROVE TypeOK'
  OBVIOUS
<1> USE ConstantsAssumption DEF TypeOK, Merging, Extracts, Demoted
<1>1. ASSUME NEW k \in Versions,
             MainStep(k) \/ CpsTask(k) \/ PrefetchStep(k) \/ Fault(k)
      PROVE TypeOK'
  <2> USE DEF MainTo, PreTo, Fail, Disrupt, GiveUp, Retry, Use, PrdIs, jobs, shared, attempt, master, faults
  <2>1. CASE Submit(k)
    BY <2>1 DEF Submit
  <2>2. CASE StartMain(k)
    BY <2>2 DEF StartMain
  <2>3. CASE MainGet(k)
    BY <2>3 DEF MainGet
  <2>4. CASE MainLock(k)
    BY <2>4 DEF MainLock
  <2>5. CASE MainWait(k)
    BY <2>5 DEF MainWait
  <2>6. CASE MainCompute(k)
    BY <2>6 DEF MainCompute
  <2>7. CASE MainSet(k)
    BY <2>7 DEF MainSet
  <2>8. CASE EnqueueNext(k)
    BY <2>8 DEF EnqueueNext, Versions
  <2>9. CASE AcquireMaster(k)
    BY <2>9, VersionIsHolder DEF AcquireMaster
  <2>10. CASE PrdCompute(k)
    BY <2>10 DEF PrdCompute
  <2>11. CASE AwaitCps(k)
    BY <2>11 DEF AwaitCps
  <2>12. CASE AwaitFail(k)
    BY <2>12 DEF AwaitFail
  <2>13. CASE PrdCommit(k)
    BY <2>13 DEF PrdCommit
  <2>14. CASE Release(k)
    BY <2>14, VersionIsHolder DEF Release
  <2>15. CASE CpsTask(k)
    BY <2>15 DEF CpsTask
  <2>16. CASE StartPrefetch(k)
    BY <2>16 DEF StartPrefetch
  <2>17. CASE PrefetchGet(k)
    BY <2>17 DEF PrefetchGet
  <2>18. CASE PrefetchLock(k)
    BY <2>18 DEF PrefetchLock
  <2>19. CASE PrefetchCompute(k)
    BY <2>19 DEF PrefetchCompute
  <2>20. CASE MainCacheError(k)
    BY <2>20 DEF MainCacheError
  <2>21. CASE PrefetchError(k)
    BY <2>21 DEF PrefetchError
  <2>22. CASE LoseEntry(k)
    BY <2>22 DEF LoseEntry
  <2>23. CASE Cancel(k)
    BY <2>23 DEF Cancel
  <2>24. CASE Crash(k)
    BY <2>24 DEF Crash
  <2>25. CASE PrefetchCrash(k)
    BY <2>25 DEF PrefetchCrash
  <2> HIDE DEF TypeOK, MainTo, PreTo, Fail, Disrupt, GiveUp, Retry, Use, PrdIs, jobs, shared, attempt, master, faults
  <2> QED BY <1>1, <2>1, <2>2, <2>3, <2>4, <2>5, <2>6, <2>7, <2>8, <2>9, <2>10, <2>11, <2>12, <2>13, <2>14, <2>15, <2>16, <2>17, <2>18, <2>19, <2>20, <2>21, <2>22, <2>23, <2>24, <2>25 DEF MainStep, PrefetchStep, Fault
<1>2. CASE Tick
  BY <1>2 DEF Tick, Older, attempt, master, faults
<1>3. CASE LeaseEnds
  BY <1>3 DEF LeaseEnds, jobs, shared, attempt, faults
<1>4. CASE UNCHANGED vars
  BY <1>4 DEF vars, jobs, shared, attempt, master, faults
<1> QED BY <1>1, <1>2, <1>3, <1>4 DEF Next

(* No step lets a job into the section without the lock, or out of it      *)
(* while its CPS task runs.                                                *)
LEMMA LockStep == TypeOK /\ TypeOK' /\ LockInv /\ [Next]_vars => LockInv'
<1> SUFFICES ASSUME TypeOK, TypeOK', LockInv, [Next]_vars PROVE LockInv'
  OBVIOUS
<1> USE ConstantsAssumption DEF LockInv, TypeOK, Merging, Awaiting, Demoted
<1>1. ASSUME NEW k \in Versions,
             MainStep(k) \/ CpsTask(k) \/ PrefetchStep(k) \/ Fault(k)
      PROVE LockInv'
  <2> USE DEF MainTo, PreTo, Fail, Disrupt, GiveUp, Retry, Use, PrdIs, jobs, shared, attempt, master, faults
  <2>1. CASE Submit(k)
    BY <2>1 DEF Submit
  <2>2. CASE StartMain(k)
    BY <2>2 DEF StartMain
  <2>3. CASE MainGet(k)
    BY <2>3 DEF MainGet
  <2>4. CASE MainLock(k)
    BY <2>4 DEF MainLock
  <2>5. CASE MainWait(k)
    BY <2>5 DEF MainWait
  <2>6. CASE MainCompute(k)
    BY <2>6 DEF MainCompute
  <2>7. CASE MainSet(k)
    BY <2>7 DEF MainSet
  <2>8. CASE EnqueueNext(k)
    BY <2>8 DEF EnqueueNext
  <2>9. CASE AcquireMaster(k)
    BY <2>9, VersionIsHolder DEF AcquireMaster
  <2>10. CASE PrdCompute(k)
    BY <2>10 DEF PrdCompute
  <2>11. CASE AwaitCps(k)
    BY <2>11 DEF AwaitCps
  <2>12. CASE AwaitFail(k)
    BY <2>12 DEF AwaitFail
  <2>13. CASE PrdCommit(k)
    BY <2>13 DEF PrdCommit
  <2>14. CASE Release(k)
    BY <2>14 DEF Release
  <2>15. CASE CpsTask(k)
    BY <2>15 DEF CpsTask
  <2>16. CASE StartPrefetch(k)
    BY <2>16 DEF StartPrefetch
  <2>17. CASE PrefetchGet(k)
    BY <2>17 DEF PrefetchGet
  <2>18. CASE PrefetchLock(k)
    BY <2>18 DEF PrefetchLock
  <2>19. CASE PrefetchCompute(k)
    BY <2>19 DEF PrefetchCompute
  <2>20. CASE MainCacheError(k)
    BY <2>20 DEF MainCacheError
  <2>21. CASE PrefetchError(k)
    BY <2>21 DEF PrefetchError
  <2>22. CASE LoseEntry(k)
    BY <2>22 DEF LoseEntry
  <2>23. CASE Cancel(k)
    BY <2>23 DEF Cancel
  <2>24. CASE Crash(k)
    BY <2>24 DEF Crash
  <2>25. CASE PrefetchCrash(k)
    BY <2>25 DEF PrefetchCrash
  <2> HIDE DEF LockInv, TypeOK, Merging, Awaiting, Demoted, MainTo, PreTo, Fail, Disrupt, GiveUp, Retry, Use, PrdIs, jobs, shared, attempt, master, faults
  <2> QED BY <1>1, <2>1, <2>2, <2>3, <2>4, <2>5, <2>6, <2>7, <2>8, <2>9, <2>10, <2>11, <2>12, <2>13, <2>14, <2>15, <2>16, <2>17, <2>18, <2>19, <2>20, <2>21, <2>22, <2>23, <2>24, <2>25 DEF MainStep, PrefetchStep, Fault
<1>2. CASE Tick
  BY <1>2 DEF Tick, Older, attempt, master, faults
<1>3. CASE LeaseEnds
  BY <1>3 DEF LeaseEnds, jobs, shared, attempt, faults
<1>4. CASE UNCHANGED vars
  BY <1>4 DEF vars, jobs, shared, attempt, master, faults
<1> QED BY <1>1, <1>2, <1>3, <1>4 DEF Next

(* Every step keeps what the job knows of the stored masters.              *)
LEMMA StoredStep == TypeOK /\ TypeOK' /\ StoredInv /\ [Next]_vars => StoredInv'
<1> SUFFICES ASSUME TypeOK, TypeOK', StoredInv, [Next]_vars PROVE StoredInv'
  OBVIOUS
<1> USE ConstantsAssumption DEF StoredInv, TypeOK, Merging, Demoted
<1>1. ASSUME NEW k \in Versions,
             MainStep(k) \/ CpsTask(k) \/ PrefetchStep(k) \/ Fault(k)
      PROVE StoredInv'
  <2> USE DEF MainTo, PreTo, Fail, Disrupt, GiveUp, Retry, Use, PrdIs, jobs, shared, attempt, master, faults
  <2>1. CASE Submit(k)
    BY <2>1 DEF Submit
  <2>2. CASE StartMain(k)
    BY <2>2 DEF StartMain
  <2>3. CASE MainGet(k)
    BY <2>3 DEF MainGet
  <2>4. CASE MainLock(k)
    BY <2>4 DEF MainLock
  <2>5. CASE MainWait(k)
    BY <2>5 DEF MainWait
  <2>6. CASE MainCompute(k)
    BY <2>6 DEF MainCompute
  <2>7. CASE MainSet(k)
    BY <2>7 DEF MainSet
  <2>8. CASE EnqueueNext(k)
    BY <2>8 DEF EnqueueNext
  <2>9. CASE AcquireMaster(k)
    BY <2>9 DEF AcquireMaster
  <2>10. CASE PrdCompute(k)
    BY <2>10 DEF PrdCompute
  <2>11. CASE AwaitCps(k)
    BY <2>11 DEF AwaitCps
  <2>12. CASE AwaitFail(k)
    BY <2>12 DEF AwaitFail
  <2>13. CASE PrdCommit(k)
    BY <2>13 DEF PrdCommit
  <2>14. CASE Release(k)
    BY <2>14 DEF Release
  <2>15. CASE CpsTask(k)
    BY <2>15 DEF CpsTask
  <2>16. CASE StartPrefetch(k)
    BY <2>16 DEF StartPrefetch
  <2>17. CASE PrefetchGet(k)
    BY <2>17 DEF PrefetchGet
  <2>18. CASE PrefetchLock(k)
    BY <2>18 DEF PrefetchLock
  <2>19. CASE PrefetchCompute(k)
    BY <2>19 DEF PrefetchCompute
  <2>20. CASE MainCacheError(k)
    BY <2>20 DEF MainCacheError
  <2>21. CASE PrefetchError(k)
    BY <2>21 DEF PrefetchError
  <2>22. CASE LoseEntry(k)
    BY <2>22 DEF LoseEntry
  <2>23. CASE Cancel(k)
    BY <2>23 DEF Cancel
  <2>24. CASE Crash(k)
    BY <2>24 DEF Crash
  <2>25. CASE PrefetchCrash(k)
    BY <2>25 DEF PrefetchCrash
  <2> HIDE DEF StoredInv, TypeOK, Merging, Demoted, MainTo, PreTo, Fail, Disrupt, GiveUp, Retry, Use, PrdIs, jobs, shared, attempt, master, faults
  <2> QED BY <1>1, <2>1, <2>2, <2>3, <2>4, <2>5, <2>6, <2>7, <2>8, <2>9, <2>10, <2>11, <2>12, <2>13, <2>14, <2>15, <2>16, <2>17, <2>18, <2>19, <2>20, <2>21, <2>22, <2>23, <2>24, <2>25 DEF MainStep, PrefetchStep, Fault
<1>2. CASE Tick
  BY <1>2 DEF Tick, Older, attempt, master, faults
<1>3. CASE LeaseEnds
  BY <1>3 DEF LeaseEnds, jobs, shared, attempt, faults
<1>4. CASE UNCHANGED vars
  BY <1>4 DEF vars, jobs, shared, attempt, master, faults
<1> QED BY <1>1, <1>2, <1>3, <1>4 DEF Next

(* A PRD is only stored by a job whose CPS is stored already.              *)
LEMMA PrdStep == TypeOK /\ TypeOK' /\ StoredInv /\ PrdAfterCps /\ [Next]_vars => PrdAfterCps'
<1> SUFFICES ASSUME TypeOK, TypeOK', StoredInv, PrdAfterCps, [Next]_vars PROVE PrdAfterCps'
  OBVIOUS
<1> USE ConstantsAssumption DEF PrdAfterCps, StoredInv, TypeOK
<1>1. ASSUME NEW k \in Versions,
             MainStep(k) \/ CpsTask(k) \/ PrefetchStep(k) \/ Fault(k)
      PROVE PrdAfterCps'
  <2> USE DEF MainTo, PreTo, Fail, Disrupt, GiveUp, Retry, Use, PrdIs, jobs, shared, attempt, master, faults
  <2>1. CASE Submit(k)
    BY <2>1 DEF Submit
  <2>2. CASE StartMain(k)
    BY <2>2 DEF StartMain
  <2>3. CASE MainGet(k)
    BY <2>3 DEF MainGet
  <2>4. CASE MainLock(k)
    BY <2>4 DEF MainLock
  <2>5. CASE MainWait(k)
    BY <2>5 DEF MainWait
  <2>6. CASE MainCompute(k)
    BY <2>6 DEF MainCompute
  <2>7. CASE MainSet(k)
    BY <2>7 DEF MainSet
  <2>8. CASE EnqueueNext(k)
    BY <2>8 DEF EnqueueNext
  <2>9. CASE AcquireMaster(k)
    BY <2>9 DEF AcquireMaster
  <2>10. CASE PrdCompute(k)
    BY <2>10 DEF PrdCompute
  <2>11. CASE AwaitCps(k)
    BY <2>11 DEF AwaitCps
  <2>12. CASE AwaitFail(k)
    BY <2>12 DEF AwaitFail
  <2>13. CASE PrdCommit(k)
    BY <2>13 DEF PrdCommit
  <2>14. CASE Release(k)
    BY <2>14 DEF Release
  <2>15. CASE CpsTask(k)
    BY <2>15 DEF CpsTask
  <2>16. CASE StartPrefetch(k)
    BY <2>16 DEF StartPrefetch
  <2>17. CASE PrefetchGet(k)
    BY <2>17 DEF PrefetchGet
  <2>18. CASE PrefetchLock(k)
    BY <2>18 DEF PrefetchLock
  <2>19. CASE PrefetchCompute(k)
    BY <2>19 DEF PrefetchCompute
  <2>20. CASE MainCacheError(k)
    BY <2>20 DEF MainCacheError
  <2>21. CASE PrefetchError(k)
    BY <2>21 DEF PrefetchError
  <2>22. CASE LoseEntry(k)
    BY <2>22 DEF LoseEntry
  <2>23. CASE Cancel(k)
    BY <2>23 DEF Cancel
  <2>24. CASE Crash(k)
    BY <2>24 DEF Crash
  <2>25. CASE PrefetchCrash(k)
    BY <2>25 DEF PrefetchCrash
  <2> HIDE DEF PrdAfterCps, StoredInv, TypeOK, MainTo, PreTo, Fail, Disrupt, GiveUp, Retry, Use, PrdIs, jobs, shared, attempt, master, faults
  <2> QED BY <1>1, <2>1, <2>2, <2>3, <2>4, <2>5, <2>6, <2>7, <2>8, <2>9, <2>10, <2>11, <2>12, <2>13, <2>14, <2>15, <2>16, <2>17, <2>18, <2>19, <2>20, <2>21, <2>22, <2>23, <2>24, <2>25 DEF MainStep, PrefetchStep, Fault
<1>2. CASE Tick
  BY <1>2 DEF Tick, Older, attempt, master, faults
<1>3. CASE LeaseEnds
  BY <1>3 DEF LeaseEnds, jobs, shared, attempt, faults
<1>4. CASE UNCHANGED vars
  BY <1>4 DEF vars, jobs, shared, attempt, master, faults
<1> QED BY <1>1, <1>2, <1>3, <1>4 DEF Next

-----------------------------------------------------------------------------
(* The types hold in every reachable state, for any number of meetings.    *)
THEOREM TypeCorrect == Spec => []TypeOK
BY InitType, TypeStep, PTL DEF Spec

(* The inductive invariant of the locked section.                          *)
THEOREM MergeInvariant == Spec => []MergeInv
<1>1. Init => MergeInv
  <2>1. Init => LockInv
    BY DEF Init, LockInv, Merging
  <2>2. Init => StoredInv
    BY DEF Init, StoredInv
  <2>3. Init => PrdAfterCps
    BY DEF Init, PrdAfterCps
  <2> QED BY <2>1, <2>2, <2>3, InitType DEF MergeInv
<1>2. MergeInv /\ [Next]_vars => MergeInv'
  BY TypeStep, LockStep, StoredStep, PrdStep DEF MergeInv
<1> QED BY <1>1, <1>2, PTL DEF Spec

(* The CPS task of a job only ever runs while the job has the project lock *)
(* (jobs.py awaits it on every way out of master_write_lock).              *)
THEOREM MastersWrittenUnderLock == Spec => []WritesUnderLock
<1>1. MergeInv => WritesUnderLock
  BY DEF MergeInv, LockInv, WritesUnderLock, Awaiting, Merging
<1> QED BY <1>1, MergeInvariant, PTL

(* Every stored PRD has the CPS of its version stored (BASED_ON).          *)
THEOREM PrdsAreBased == Spec => []PrdAfterCps
<1>1. MergeInv => PrdAfterCps
  BY DEF MergeInv
<1> QED BY <1>1, MergeInvariant, PTL

(* The answer of a successful job tells what it stored.                    *)
THEOREM ResultsAreHonest == Spec => []HonestResult
<1>1. MergeInv => HonestResult
  BY DEF MergeInv, StoredInv, HonestResult
<1> QED BY <1>1, MergeInvariant, PTL

(* No extract that fails validation goes from the cache into a merge.      *)
THEOREM CachedExtractsAreValid == Spec => NoStaleExtract
<1> DEFINE Fresh(k) == mpc[k] \in {"get", "wait"} /\ mpc'[k] = "next" => extract'[k] = "valid"
<1>1. ASSUME TypeOK, [Next]_vars, NEW j \in Versions PROVE Fresh(j)
  <2> USE <1>1 DEF TypeOK, Versions
  <2>1. ASSUME NEW k \in Versions,
               MainStep(k) \/ CpsTask(k) \/ PrefetchStep(k) \/ Fault(k)
        PROVE Fresh(j)
    <3> USE DEF MainTo, PreTo, Fail, Disrupt, GiveUp, Retry, Use, PrdIs, jobs, shared, attempt, master, faults
    <3>1. CASE Submit(k)
      BY <3>1 DEF Submit
    <3>2. CASE StartMain(k)
      BY <3>2 DEF StartMain
    <3>3. CASE MainGet(k)
      BY <3>3 DEF MainGet
    <3>4. CASE MainLock(k)
      BY <3>4 DEF MainLock
    <3>5. CASE MainWait(k)
      BY <3>5 DEF MainWait
    <3>6. CASE MainCompute(k)
      BY <3>6 DEF MainCompute
    <3>7. CASE MainSet(k)
      BY <3>7 DEF MainSet
    <3>8. CASE EnqueueNext(k)
      BY <3>8 DEF EnqueueNext
    <3>9. CASE AcquireMaster(k)
      BY <3>9 DEF AcquireMaster
    <3>10. CASE PrdCompute(k)
      BY <3>10 DEF PrdCompute
    <3>11. CASE AwaitCps(k)
      BY <3>11 DEF AwaitCps
    <3>12. CASE AwaitFail(k)
      BY <3>12 DEF AwaitFail
    <3>13. CASE PrdCommit(k)
      BY <3>13 DEF PrdCommit
    <3>14. CASE Release(k)
      BY <3>14 DEF Release
    <3>15. CASE CpsTask(k)
      BY <3>15 DEF CpsTask
    <3>16. CASE StartPrefetch(k)
      BY <3>16 DEF StartPrefetch
    <3>17. CASE PrefetchGet(k)
      BY <3>17 DEF PrefetchGet
    <3>18. CASE PrefetchLock(k)
      BY <3>18 DEF PrefetchLock
    <3>19. CASE PrefetchCompute(k)
      BY <3>19 DEF PrefetchCompute
    <3>20. CASE MainCacheError(k)
      BY <3>20 DEF MainCacheError
    <3>21. CASE PrefetchError(k)
      BY <3>21 DEF PrefetchError
    <3>22. CASE LoseEntry(k)
      BY <3>22 DEF LoseEntry
    <3>23. CASE Cancel(k)
      BY <3>23 DEF Cancel
    <3>24. CASE Crash(k)
      BY <3>24 DEF Crash
    <3>25. CASE PrefetchCrash(k)
      BY <3>25 DEF PrefetchCrash
    <3> HIDE DEF TypeOK, Fresh, MainTo, PreTo, Fail, Disrupt, GiveUp, Retry, Use, PrdIs, jobs, shared, attempt, master, faults
    <3> QED BY <2>1, <3>1, <3>2, <3>3, <3>4, <3>5, <3>6, <3>7, <3>8, <3>9, <3>10, <3>11, <3>12, <3>13, <3>14, <3>15, <3>16, <3>17, <3>18, <3>19, <3>20, <3>21, <3>22, <3>23, <3>24, <3>25 DEF MainStep, PrefetchStep, Fault
  <2>2. CASE Tick
    BY <2>2 DEF Tick
  <2>3. CASE LeaseEnds
    BY <2>3 DEF LeaseEnds, jobs
  <2>4. CASE UNCHANGED vars
    BY <2>4 DEF vars, jobs
  <2> QED BY <2>1, <2>2, <2>3, <2>4 DEF Next
<1>2. TypeOK /\ [Next]_vars => [\A k \in Versions : Fresh(k)]_vars
  BY <1>1
<1> QED BY <1>2, TypeCorrect, PTL DEF Spec, NoStaleExtract

-----------------------------------------------------------------------------
(* Single flight.  An extraction is shorter than the lock's time to live   *)
(* and than the wait of a job that finds the lock taken.                   *)
FlightAssumption == ExtractSpan < WaitMax /\ ExtractSpan < LockTTL

(* The first attempt has not got past the single-flight lock.              *)
Early(k) == tries[k] = 0 \/ (tries[k] = 1 /\ mpc[k] \in {"get", "lock"})

FirstTry(k, phase) == tries[k] = 1 /\ mpc[k] = phase

(* The lock outlasts the extraction it was taken for; in the first attempt *)
(* it can only be the prefetch that has taken it or stored an entry, and a *)
(* job that waits began to wait after the prefetch began to extract.       *)
FlightAt(k) ==
    /\ ppc[k] = "compute" => exlock[k] + pclock[k] >= LockTTL
    /\ mpc[k] \notin {"wait", "compute"} => mclock[k] = 0
    /\ mpc[k] = "compute" => mclock[k] <= ExtractSpan
    /\ tries[k] = 0 => mpc[k] \in {"idle", "queued"}
    /\ Early(k) /\ exlock[k] > 0 => ppc[k] \in {"compute", "over"}
    /\ (Early(k) \/ FirstTry(k, "wait")) /\ cache[k] # "none" => ppc[k] = "over"
    /\ FirstTry(k, "wait") => \/ ppc[k] = "over"
                              \/ ppc[k] = "compute" /\ pclock[k] >= mclock[k]
    /\ FirstTry(k, "compute") => \/ ppc[k] = "over"
                                 \/ ppc[k] # "compute" /\ exlock[k] + mclock[k] >= LockTTL

FlightInv == errors = 0 => \A k \in Versions : FlightAt(k)

(* Failures of Redis are counted and never forgotten.                      *)
LEMMA ErrorsGrow ==
    ASSUME TypeOK, [Next]_vars
    PROVE  errors' = errors \/ errors' = errors + 1
<1> USE DEF Fail, Disrupt, faults
<1>1. ASSUME NEW k \in Versions, MainStep(k) \/ CpsTask(k) \/ PrefetchStep(k)
      PROVE  errors' = errors
  BY <1>1 DEF MainStep, PrefetchStep, CpsTask, Submit, StartMain, MainGet, MainLock, MainWait,
     MainCompute, MainSet, EnqueueNext, AcquireMaster, PrdCompute, AwaitCps, AwaitFail,
     PrdCommit, Release, StartPrefetch, PrefetchGet, PrefetchLock, PrefetchCompute
<1>2. ASSUME NEW k \in Versions, Fault(k) PROVE errors' = errors \/ errors' = errors + 1
  BY <1>2 DEF Fault, MainCacheError, PrefetchError, LoseEntry, Cancel, Crash, PrefetchCrash
<1>3. CASE Tick \/ LeaseEnds \/ UNCHANGED vars
  BY <1>3 DEF Tick, LeaseEnds, vars
<1> QED
  BY <1>1, <1>2, <1>3 DEF Next

(* A step that leaves alone what FlightAt reads of version k.              *)
Aside(k) ==
    /\ mpc'[k] = mpc[k] /\ ppc'[k] = ppc[k] /\ mclock'[k] = mclock[k] /\ pclock'[k] = pclock[k]
    /\ tries'[k] = tries[k] /\ cache'[k] = cache[k] /\ exlock'[k] = exlock[k]

(* No step of the jobs of version k breaks what holds of version k.        *)
LEMMA FlightOwnStep ==
    ASSUME FlightAssumption, TypeOK, NEW k \in Versions, errors' = 0, errors = 0, FlightAt(k),
           MainStep(k) \/ CpsTask(k) \/ PrefetchStep(k) \/ Fault(k)
    PROVE  FlightAt(k)'
<1> USE ConstantsAssumption DEF FlightAssumption, TypeOK, FlightAt, Early, FirstTry,
      Merging, Extracts, Demoted, MainTo, PreTo, Fail, Disrupt, GiveUp, Retry, Use, PrdIs,
      jobs, shared, attempt, master, faults
<1>1. CASE Submit(k)
  BY <1>1 DEF Submit
<1>2. CASE StartMain(k)
  BY <1>2 DEF StartMain
<1>3. CASE MainGet(k)
  BY <1>3 DEF MainGet
<1>4. CASE MainLock(k)
  BY <1>4 DEF MainLock
<1>5. CASE MainWait(k)
  BY <1>5 DEF MainWait
<1>6. CASE MainCompute(k)
  BY <1>6 DEF MainCompute
<1>7. CASE MainSet(k)
  BY <1>7 DEF MainSet
<1>8. CASE EnqueueNext(k)
  BY <1>8 DEF EnqueueNext, Versions
<1>9. CASE AcquireMaster(k)
  BY <1>9 DEF AcquireMaster
<1>10. CASE PrdCompute(k)
  BY <1>10 DEF PrdCompute
<1>11. CASE AwaitCps(k)
  BY <1>11 DEF AwaitCps
<1>12. CASE AwaitFail(k)
  BY <1>12 DEF AwaitFail
<1>13. CASE PrdCommit(k)
  BY <1>13 DEF PrdCommit
<1>14. CASE Release(k)
  BY <1>14 DEF Release
<1>15. CASE CpsTask(k)
  BY <1>15 DEF CpsTask
<1>16. CASE StartPrefetch(k)
  BY <1>16 DEF StartPrefetch
<1>17. CASE PrefetchGet(k)
  BY <1>17 DEF PrefetchGet
<1>18. CASE PrefetchLock(k)
  BY <1>18 DEF PrefetchLock
<1>19. CASE PrefetchCompute(k)
  BY <1>19 DEF PrefetchCompute
<1>20. CASE MainCacheError(k)
  BY <1>20 DEF MainCacheError
<1>21. CASE PrefetchError(k)
  BY <1>21 DEF PrefetchError
<1>22. CASE LoseEntry(k)
  BY <1>22 DEF LoseEntry
<1>23. CASE Cancel(k)
  BY <1>23 DEF Cancel
<1>24. CASE Crash(k)
  BY <1>24 DEF Crash
<1>25. CASE PrefetchCrash(k)
  BY <1>25 DEF PrefetchCrash
<1> HIDE DEF TypeOK, FlightAt, MainTo, PreTo, Fail, Disrupt, GiveUp, Retry, Use, PrdIs,
      jobs, shared, attempt, master, faults
<1> QED
  BY <1>1, <1>2, <1>3, <1>4, <1>5, <1>6, <1>7, <1>8, <1>9, <1>10, <1>11, <1>12, <1>13,
     <1>14, <1>15, <1>16, <1>17, <1>18, <1>19, <1>20, <1>21, <1>22, <1>23, <1>24, <1>25
     DEF MainStep, PrefetchStep, Fault

(* What the jobs of version k do leaves the other versions alone, but for  *)
(* the prefetch of the next one, which was not there before.               *)
LEMMA FlightOtherStep ==
    ASSUME TypeOK, NEW k \in Versions, NEW o \in Versions, o # k,
           MainStep(k) \/ CpsTask(k) \/ PrefetchStep(k) \/ Fault(k)
    PROVE  Aside(o) \/ (/\ ppc[o] = "none" /\ ppc'[o] = "queued"
                       /\ mpc'[o] = mpc[o] /\ mclock'[o] = mclock[o] /\ pclock'[o] = pclock[o]
                       /\ tries'[o] = tries[o] /\ cache'[o] = cache[o] /\ exlock'[o] = exlock[o])
<1> USE ConstantsAssumption DEF TypeOK, Aside, Merging, Extracts, Demoted, MainTo, PreTo, Fail,
      Disrupt, GiveUp, Retry, Use, PrdIs, jobs, shared, attempt, master, faults
<1>1. CASE Submit(k)
  BY <1>1 DEF Submit
<1>2. CASE StartMain(k)
  BY <1>2 DEF StartMain
<1>3. CASE MainGet(k)
  BY <1>3 DEF MainGet
<1>4. CASE MainLock(k)
  BY <1>4 DEF MainLock
<1>5. CASE MainWait(k)
  BY <1>5 DEF MainWait
<1>6. CASE MainCompute(k)
  BY <1>6 DEF MainCompute
<1>7. CASE MainSet(k)
  BY <1>7 DEF MainSet
<1>8. CASE EnqueueNext(k)
  BY <1>8 DEF EnqueueNext, Versions
<1>9. CASE AcquireMaster(k)
  BY <1>9 DEF AcquireMaster
<1>10. CASE PrdCompute(k)
  BY <1>10 DEF PrdCompute
<1>11. CASE AwaitCps(k)
  BY <1>11 DEF AwaitCps
<1>12. CASE AwaitFail(k)
  BY <1>12 DEF AwaitFail
<1>13. CASE PrdCommit(k)
  BY <1>13 DEF PrdCommit
<1>14. CASE Release(k)
  BY <1>14 DEF Release
<1>15. CASE CpsTask(k)
  BY <1>15 DEF CpsTask
<1>16. CASE StartPrefetch(k)
  BY <1>16 DEF StartPrefetch
<1>17. CASE PrefetchGet(k)
  BY <1>17 DEF PrefetchGet
<1>18. CASE PrefetchLock(k)
  BY <1>18 DEF PrefetchLock
<1>19. CASE PrefetchCompute(k)
  BY <1>19 DEF PrefetchCompute
<1>20. CASE MainCacheError(k)
  BY <1>20 DEF MainCacheError
<1>21. CASE PrefetchError(k)
  BY <1>21 DEF PrefetchError
<1>22. CASE LoseEntry(k)
  BY <1>22 DEF LoseEntry
<1>23. CASE Cancel(k)
  BY <1>23 DEF Cancel
<1>24. CASE Crash(k)
  BY <1>24 DEF Crash
<1>25. CASE PrefetchCrash(k)
  BY <1>25 DEF PrefetchCrash
<1> HIDE DEF TypeOK, Aside, MainTo, PreTo, Fail, Disrupt, GiveUp, Retry, Use, PrdIs,
      jobs, shared, attempt, master, faults
<1> QED
  BY <1>1, <1>2, <1>3, <1>4, <1>5, <1>6, <1>7, <1>8, <1>9, <1>10, <1>11, <1>12, <1>13,
     <1>14, <1>15, <1>16, <1>17, <1>18, <1>19, <1>20, <1>21, <1>22, <1>23, <1>24, <1>25
     DEF MainStep, PrefetchStep, Fault

LEMMA FlightStep ==
    ASSUME FlightAssumption, TypeOK, FlightInv, [Next]_vars
    PROVE  FlightInv'
<1> SUFFICES ASSUME errors' = 0, NEW o \in Versions
             PROVE  FlightAt(o)'
  BY DEF FlightInv
<1>1. errors = 0
  <2>1. errors \in Nat /\ (errors' = errors \/ errors' = errors + 1)
    BY ErrorsGrow DEF TypeOK
  <2> QED
    BY <2>1
<1>2. FlightAt(o)
  BY <1>1 DEF FlightInv
<1>3. ASSUME NEW k \in Versions, MainStep(k) \/ CpsTask(k) \/ PrefetchStep(k) \/ Fault(k)
      PROVE  FlightAt(o)'
  <2>1. CASE k = o
    BY <1>1, <1>2, <1>3, <2>1, FlightOwnStep
  <2>2. CASE k # o
    BY <1>2, <1>3, <2>2, FlightOtherStep DEF Aside, FlightAt, Early, FirstTry
  <2> QED
    BY <2>1, <2>2
<1>4. CASE Tick
  BY <1>2, <1>4, ConstantsAssumption
     DEF Tick, Older, FlightAssumption, TypeOK, FlightAt, Early, FirstTry, Merging
<1>5. CASE LeaseEnds
  BY <1>2, <1>5 DEF LeaseEnds, jobs, shared, FlightAt, Early, FirstTry
<1>6. CASE UNCHANGED vars
  BY <1>2, <1>6 DEF vars, jobs, shared, FlightAt, Early, FirstTry
<1> QED
  BY <1>3, <1>4, <1>5, <1>6 DEF Next

(* A job in its first attempt and a prefetch never extract one version at  *)
(* the same time while Redis answers, for any number of meetings, faults   *)
(* of workers and times with an extraction shorter than wait and lock.     *)
THEOREM ExtractionsAreSingle ==
    ASSUME FlightAssumption
    PROVE  Spec => []SingleFlight
<1>1. Init => FlightInv
  BY DEF Init, FlightInv, FlightAt, Early, FirstTry
<1>2. TypeOK /\ FlightInv /\ [Next]_vars => FlightInv'
  BY FlightStep
<1>3. FlightInv => SingleFlight
  BY DEF FlightInv, FlightAt, FirstTry, SingleFlight
<1> QED
  BY <1>1, <1>2, <1>3, TypeCorrect, PTL DEF Spec
=============================================================================
