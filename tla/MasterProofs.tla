---------------------------- MODULE MasterProofs ----------------------------
(***************************************************************************)
(* Proofs about the documents of a project, for every set of jobs and all  *)
(* bounds: first what the project's lock gives to the jobs that hold it    *)
(* (MasterLock), then what the jobs and the clean-up make of the documents *)
(* under it (MasterCleanup, where the lock is one mutex that a Redis error *)
(* lets a job pass).                                                       *)
(***************************************************************************)
EXTENDS MasterLock, MasterCleanup, TLAPS

-----------------------------------------------------------------------------
(* The lock.  The argument is the one of a timed lease: while a job is in  *)
(* its section, its time in the section and the remaining time to live of  *)
(* the lock add up to LockTTL, so a section that fits in the lease keeps   *)
(* the lock to its end.                                                    *)

(* While nothing bypassed or stole the lock, a job in its section owns it  *)
(* with exactly the time it has not used yet, what it read is still the    *)
(* stored master, and nothing stored has been lost.                        *)
Lease ==
    ~bypassed /\ ~stolen =>
        /\ \A j \in Holders :
              InSection(j) => lock.holder = j /\ lock.left + held[j] = LockTTL
        /\ \A j \in Holders : step[j] = "write" => basis[j] = master
        /\ committed \subseteq master

(* Without faults the converse holds too: the lock belongs to a job in its *)
(* section, so no job ever finds its own value left behind.                *)
Quiet == crashes = 0 /\ errors = 0 /\ Unlocked = {}

NoLeftover ==
    Quiet => /\ ~bypassed /\ ~stolen
             /\ \A j \in Holders : lock.holder = j => InSection(j)
             /\ \A j \in Holders : step[j] # "reset"

-----------------------------------------------------------------------------
(* Every variable of the lock and of its jobs keeps its type; in           *)
(* particular the key has a holder exactly while it has time to live.      *)
THEOREM LockTypeCorrect == LockSpec => []LockTypeOK
<1> USE LockAssumption DEF LockTypeOK, Phases
<1>1. LockInit => LockTypeOK
  <2> SUFFICES ASSUME LockInit PROVE LockTypeOK
    OBVIOUS
  <2>1. /\ lock \in [holder : Holders \cup {NoJob}, left : 0 .. LockTTL]
        /\ lock.holder = NoJob <=> lock.left = 0
    BY DEF LockInit, Free
  <2>2. ok \in [Holders -> BOOLEAN] /\ bypassed \in BOOLEAN /\ stolen \in BOOLEAN
    BY DEF LockInit
  <2>3. /\ step \in [Holders -> Phases]
        /\ basis \in [Holders -> SUBSET Holders]
        /\ wait \in [Holders -> 0 .. WaitMax]
        /\ held \in [Holders -> 0 .. HoldMax]
        /\ tries \in [Holders -> 0 .. MaxTries]
    BY DEF LockInit
  <2> QED
    BY <2>1, <2>2, <2>3 DEF LockInit
<1>2. LockTypeOK /\ [LockNext]_lockVars => LockTypeOK'
  <2> SUFFICES ASSUME LockTypeOK, [LockNext]_lockVars PROVE LockTypeOK'
    OBVIOUS
  <2> USE DEF GoTo, Enter, AfterRaise, Leave, Free, HeldBy, data, lockHistory
  <2>1. ASSUME NEW j \in Holders, StartAttempt(j) PROVE LockTypeOK'
    <3>1. ok' \in [Holders -> BOOLEAN] /\ bypassed' \in BOOLEAN
      BY <2>1 DEF StartAttempt
    <3>2. /\ tries' \in [Holders -> 0 .. MaxTries]
          /\ wait' \in [Holders -> 0 .. WaitMax]
          /\ held' \in [Holders -> 0 .. HoldMax]
      BY <2>1 DEF StartAttempt
    <3>3. step' \in [Holders -> Phases]
      BY <2>1 DEF StartAttempt
    <3> QED
      BY <2>1, <3>1, <3>2, <3>3 DEF StartAttempt
  <2>2. ASSUME NEW j \in Holders, SetIfAbsent(j) PROVE LockTypeOK'
    BY <2>2 DEF SetIfAbsent
  <2>3. ASSUME NEW j \in Holders, ReadHolder(j) PROVE LockTypeOK'
    BY <2>3 DEF ReadHolder
  <2>4. ASSUME NEW j \in Holders, Reenter(j) PROVE LockTypeOK'
    BY <2>4 DEF Reenter
  <2>5. ASSUME NEW j \in Holders, AcquireError(j) PROVE LockTypeOK'
    BY <2>5 DEF AcquireError
  <2>6. ASSUME NEW j \in Holders, ReadMaster(j) PROVE LockTypeOK'
    BY <2>6 DEF ReadMaster
  <2>7. ASSUME NEW j \in Holders, WriteMaster(j) PROVE LockTypeOK'
    BY <2>7 DEF WriteMaster
  <2>8. ASSUME NEW j \in Holders, BodyRaises(j) PROVE LockTypeOK'
    BY <2>8 DEF BodyRaises
  <2>9. ASSUME NEW j \in Holders, ReleaseGet(j) PROVE LockTypeOK'
    BY <2>9 DEF ReleaseGet
  <2>10. ASSUME NEW j \in Holders, ReleaseDel(j) PROVE LockTypeOK'
    BY <2>10 DEF ReleaseDel
  <2>11. ASSUME NEW j \in Holders, ReleaseError(j) PROVE LockTypeOK'
    <3>1. /\ lock' \in [holder : Holders \cup {NoJob}, left : 0 .. LockTTL]
          /\ lock'.holder = NoJob <=> lock'.left = 0
      BY <2>11 DEF ReleaseError
    <3>3. stolen' \in BOOLEAN
      BY <2>11 DEF ReleaseError
    <3>2. step' \in [Holders -> Phases]
      BY <2>11 DEF ReleaseError
    <3> QED
      BY <2>11, <3>1, <3>2, <3>3 DEF ReleaseError
  <2>12. ASSUME NEW j \in Holders, WorkerDies(j) PROVE LockTypeOK'
    BY <2>12 DEF WorkerDies
  <2>13. CASE Tick
    <3>1. lock' \in [holder : Holders \cup {NoJob}, left : 0 .. LockTTL]
          /\ (lock'.holder = NoJob <=> lock'.left = 0)
      BY <2>13 DEF Tick, Advance
    <3>2. held' \in [Holders -> 0 .. HoldMax]
      BY <2>13 DEF Tick, Advance, InSection
    <3> QED
      BY <2>13, <3>1, <3>2 DEF Tick, Advance
  <2>14. CASE UNCHANGED lockVars
    BY <2>14 DEF lockVars
  <2> QED
    BY <2>1, <2>2, <2>3, <2>4, <2>5, <2>6, <2>7, <2>8, <2>9, <2>10,
       <2>11, <2>12, <2>13, <2>14 DEF LockNext, LockStep, LockFault
<1> QED
  BY <1>1, <1>2, PTL DEF LockSpec

-----------------------------------------------------------------------------
(* The lease argument: no step of a job, no fault and no passing of time   *)
(* breaks Lease when the locked section fits in the time to live.          *)
LEMMA LeaseStep ==
  ASSUME HoldMax < LockTTL, LockTypeOK, Lease, [LockNext]_lockVars
  PROVE  Lease'
<1> USE LockAssumption DEF LockTypeOK
<1> SUFFICES ASSUME ~bypassed', ~stolen'
             PROVE  /\ \A i \in Holders : InSection(i)' =>
                              /\ lock'.holder = i
                              /\ lock'.left + held'[i] = LockTTL
                    /\ \A i \in Holders : step'[i] = "write" => basis'[i] = master'
                    /\ committed' \subseteq master'
  BY DEF Lease
<1> USE DEF Lease, InSection, Section, GoTo, Enter, AfterRaise, Leave,
            Free, HeldBy, data, lockHistory
<1>1. ASSUME NEW j \in Holders, StartAttempt(j) PROVE Lease'
  <2>1. ~bypassed /\ ~stolen /\ j \notin Unlocked
    BY <1>1 DEF StartAttempt
  <2>2. step' = [step EXCEPT ![j] = "try"] /\ UNCHANGED <<lock, held, master, basis, committed>>
    BY <1>1, <2>1 DEF StartAttempt
  <2> QED
    BY <2>1, <2>2
<1>2. ASSUME NEW j \in Holders, SetIfAbsent(j) PROVE Lease'
  BY <1>2 DEF SetIfAbsent
<1>3. ASSUME NEW j \in Holders, ReadHolder(j) PROVE Lease'
  BY <1>3 DEF ReadHolder
<1>4. ASSUME NEW j \in Holders, Reenter(j) PROVE Lease'
  <2>1. ~bypassed /\ ~stolen /\ lock.holder \in {j, NoJob}
    BY <1>4 DEF Reenter
  <2>2. \A i \in Holders \ {j} : ~InSection(i)
    BY <2>1
  <2>3. /\ lock' = [holder |-> j, left |-> LockTTL]
        /\ step' = [step EXCEPT ![j] = "read"] /\ held' = [held EXCEPT ![j] = 0]
        /\ UNCHANGED <<master, basis, committed>>
    BY <1>4 DEF Reenter
  <2> QED
    BY <2>1, <2>2, <2>3
<1>5. ASSUME NEW j \in Holders, AcquireError(j) PROVE Lease'
  BY <1>5 DEF AcquireError
<1>6. ASSUME NEW j \in Holders, ReadMaster(j) PROVE Lease'
  BY <1>6 DEF ReadMaster
<1>7. ASSUME NEW j \in Holders, WriteMaster(j) PROVE Lease'
  BY <1>7 DEF WriteMaster
<1>8. ASSUME NEW j \in Holders, BodyRaises(j) PROVE Lease'
  BY <1>8 DEF BodyRaises
<1>9. ASSUME NEW j \in Holders, ReleaseGet(j) PROVE Lease'
  BY <1>9 DEF ReleaseGet
<1>10. ASSUME NEW j \in Holders, ReleaseDel(j) PROVE Lease'
  BY <1>10 DEF ReleaseDel
<1>11. ASSUME NEW j \in Holders, ReleaseError(j) PROVE Lease'
  BY <1>11 DEF ReleaseError
<1>12. ASSUME NEW j \in Holders, WorkerDies(j) PROVE Lease'
  BY <1>12 DEF WorkerDies
<1>13. CASE Tick
  BY <1>13 DEF Tick, Advance
<1>14. CASE UNCHANGED lockVars
  BY <1>14 DEF lockVars
<1> QED
  BY <1>1, <1>2, <1>3, <1>4, <1>5, <1>6, <1>7, <1>8, <1>9, <1>10,
     <1>11, <1>12, <1>13, <1>14 DEF LockNext, LockStep, LockFault

(* Hence Lease is an invariant of the lock.                                *)
LEMMA LeaseInvariant ==
  ASSUME HoldMax < LockTTL
  PROVE  LockSpec => []Lease
<1>1. LockInit => Lease
  BY DEF LockInit, Lease, InSection, Section
<1>2. LockTypeOK /\ Lease /\ [LockNext]_lockVars => Lease'
  BY LeaseStep
<1> QED
  BY <1>1, <1>2, LockTypeCorrect, PTL DEF LockSpec

(* If the locked section of every job fits in the lock's time to live, at  *)
(* most one job is in it, whatever crashes, retries and lease expiries     *)
(* happen, as long as no job passed without the lock and no SET or DEL hit *)
(* the lock of another job.                                                *)
THEOREM SectionIsExclusive ==
  ASSUME HoldMax < LockTTL
  PROVE  LockSpec => []MutualExclusion
<1>1. Lease => MutualExclusion
  BY DEF Lease, MutualExclusion
<1> QED
  BY <1>1, LeaseInvariant, PTL

(* Under the same conditions no stored delta is ever lost: every write is  *)
(* made from a read that is still current.                                 *)
THEOREM MergesAreKept ==
  ASSUME HoldMax < LockTTL
  PROVE  LockSpec => []NoLostUpdate
<1>1. Lease => NoLostUpdate
  BY DEF Lease, NoLostUpdate
<1> QED
  BY <1>1, LeaseInvariant, PTL

-----------------------------------------------------------------------------
(* A behaviour without crash and without Redis error leaves no lock behind,*)
(* so neither re-entry nor a release can meet the lock of another job.     *)
LEMMA NoLeftoverStep ==
  ASSUME HoldMax < LockTTL, LockTypeOK, Lease, NoLeftover, [LockNext]_lockVars
  PROVE  NoLeftover'
<1> USE LockAssumption DEF LockTypeOK
<1> SUFFICES ASSUME Quiet' PROVE NoLeftover'
  BY DEF NoLeftover
<1>0. Unlocked = {} /\ crashes' = 0 /\ errors' = 0
  BY DEF Quiet
<1> USE <1>0 DEF NoLeftover, Quiet, InSection, Section, GoTo, Enter, AfterRaise,
            Leave, Free, HeldBy, data, lockHistory
<1>1. ASSUME NEW j \in Holders, StartAttempt(j) PROVE NoLeftover'
  <2>1. ~bypassed /\ ~stolen /\ j \notin Unlocked
    BY <1>1 DEF StartAttempt
  <2>2. /\ step[j] = "queued" /\ step' = [step EXCEPT ![j] = "try"]
        /\ UNCHANGED <<lock, held, crashes, errors, bypassed, stolen>>
    BY <1>1, <2>1 DEF StartAttempt
  <2> QED
    BY <2>1, <2>2
<1>2. ASSUME NEW j \in Holders, SetIfAbsent(j) PROVE NoLeftover'
  BY <1>2 DEF SetIfAbsent
<1>3. ASSUME NEW j \in Holders, ReadHolder(j) PROVE NoLeftover'
  BY <1>3 DEF ReadHolder
<1>4. ASSUME NEW j \in Holders, Reenter(j) PROVE NoLeftover'
  BY <1>4 DEF Reenter
<1>5. ASSUME NEW j \in Holders, AcquireError(j) PROVE NoLeftover'
  BY <1>5 DEF AcquireError
<1>6. ASSUME NEW j \in Holders, ReadMaster(j) PROVE NoLeftover'
  BY <1>6 DEF ReadMaster
<1>7. ASSUME NEW j \in Holders, WriteMaster(j) PROVE NoLeftover'
  BY <1>7 DEF WriteMaster
<1>8. ASSUME NEW j \in Holders, BodyRaises(j) PROVE NoLeftover'
  BY <1>8 DEF BodyRaises
<1>9. ASSUME NEW j \in Holders, ReleaseGet(j) PROVE NoLeftover'
  BY <1>9 DEF ReleaseGet, Lease
<1>10. ASSUME NEW j \in Holders, ReleaseDel(j) PROVE NoLeftover'
  BY <1>10 DEF ReleaseDel, Lease
<1>11. ASSUME NEW j \in Holders, ReleaseError(j) PROVE NoLeftover'
  BY <1>11 DEF ReleaseError
<1>12. ASSUME NEW j \in Holders, WorkerDies(j) PROVE NoLeftover'
  BY <1>12 DEF WorkerDies
<1>13. CASE Tick
  BY <1>13 DEF Tick, Advance, Lease
<1>14. CASE UNCHANGED lockVars
  BY <1>14 DEF lockVars
<1> QED
  BY <1>1, <1>2, <1>3, <1>4, <1>5, <1>6, <1>7, <1>8, <1>9, <1>10,
     <1>11, <1>12, <1>13, <1>14 DEF LockNext, LockStep, LockFault

(* Hence NoLeftover is an invariant of the lock.                           *)
LEMMA NoLeftoverInvariant ==
  ASSUME HoldMax < LockTTL
  PROVE  LockSpec => []NoLeftover
<1>1. LockInit => NoLeftover
  BY LockAssumption DEF LockInit, NoLeftover, Free, InSection, Section
<1>2. LockTypeOK /\ Lease /\ NoLeftover /\ [LockNext]_lockVars => NoLeftover'
  BY NoLeftoverStep
<1> QED
  BY <1>1, <1>2, LockTypeCorrect, LeaseInvariant, PTL DEF LockSpec

(* With healthy workers and Redis, and sections that fit in the lease, the *)
(* token comparison does what the comment says: no job ever deletes or     *)
(* overwrites the lock of another one.                                     *)
THEOREM LocksAreNotStolen ==
  ASSUME HoldMax < LockTTL
  PROVE  LockSpec => []NoTheft
<1>1. NoLeftover => NoTheft
  BY DEF NoLeftover, NoTheft, Quiet
<1> QED
  BY <1>1, NoLeftoverInvariant, PTL

(* Sections that fit in the lease make the read, compute and write of      *)
(* every job one atomic merge of the abstract master, through every crash, *)
(* retry and expiry, until a job passes without the lock or a late command *)
(* hits the lock of another one: MasterLock implements MasterDoc.          *)
THEOREM ImplementsMasterDoc ==
  ASSUME HoldMax < LockTTL
  PROVE  LockSpec => MasterIsSerial
<1> USE DEF Doc!Init, Doc!Next, Doc!Merge, Doc!Lapse
<1>1. LockInit => Doc!Init
  BY DEF LockInit
<1>2. LockTypeOK /\ Lease /\ [LockNext]_lockVars => [Doc!Next]_<<master, ~bypassed /\ ~stolen>>
  <2> SUFFICES ASSUME LockTypeOK, Lease, [LockNext]_lockVars, ~bypassed', ~stolen'
               PROVE  \/ \E j \in Holders : Doc!Merge(j)
                      \/ ~bypassed /\ ~stolen /\ master' = master
    OBVIOUS
  <2>1. ~bypassed /\ ~stolen
    <3>1. ASSUME NEW j \in Holders, StartAttempt(j) PROVE ~bypassed /\ ~stolen
      BY <3>1 DEF StartAttempt
    <3>2. ASSUME NEW j \in Holders, Reenter(j) PROVE ~bypassed /\ ~stolen
      BY <3>2 DEF Reenter
    <3>3. ASSUME NEW j \in Holders, AcquireError(j) PROVE ~bypassed /\ ~stolen
      BY <3>3 DEF AcquireError
    <3>4. ASSUME NEW j \in Holders, ReleaseDel(j) PROVE ~bypassed /\ ~stolen
      BY <3>4 DEF ReleaseDel
    <3>5. ASSUME NEW j \in Holders, ReleaseError(j) PROVE ~bypassed /\ ~stolen
      <4>1. UNCHANGED bypassed
        BY <3>5 DEF ReleaseError
      <4>2. stolen' = stolen \/ stolen' = (stolen \/ lock.holder \notin {j, NoJob})
        BY <3>5 DEF ReleaseError
      <4> QED
        BY <4>1, <4>2, Zenon DEF LockTypeOK
    <3>6. CASE UNCHANGED lockHistory
      BY <3>6 DEF lockHistory
    <3> QED
      BY <3>1, <3>2, <3>3, <3>4, <3>5, <3>6
         DEF LockNext, LockStep, LockFault, SetIfAbsent, ReadHolder, ReadMaster, WriteMaster,
             BodyRaises, ReleaseGet, WorkerDies, Tick, Advance, lockHistory, lockVars
  <2>2. ASSUME NEW j \in Holders, WriteMaster(j) PROVE Doc!Merge(j)
    <3>1. basis[j] = master
      BY <2>1, <2>2 DEF Lease, WriteMaster
    <3> QED
      BY <2>1, <2>2, <3>1 DEF WriteMaster
  <2>3. CASE ~ \E j \in Holders : WriteMaster(j)
    BY <2>1, <2>3 DEF LockNext, LockStep, LockFault, StartAttempt, SetIfAbsent, ReadHolder,
         Reenter, ReadMaster, BodyRaises, ReleaseGet, ReleaseDel,
         AcquireError, ReleaseError, WorkerDies, Tick, Advance, data, lockVars
  <2> QED
    BY <2>2, <2>3
<1> QED
  BY <1>1, <1>2, LockTypeCorrect, LeaseInvariant, PTL
     DEF LockSpec, MasterIsSerial, Doc!Spec

-----------------------------------------------------------------------------
(* The jobs that rewrite the documents.  While no task without the lock    *)
(* met another one, at most one task is between its read and its write, so *)
(* what it read is what is stored when it writes.                          *)

Docs == [cps : SUBSET Jobs, prd : Prds, design : SUBSET Jobs]

(* A task that is in its section holds the lock or is known to be loose.   *)
LockInv ==
    \A t \in Tasks : pc[t] \in {"read", "write", "release"} => t \in loose \/ holder = t

(* What a task is about to rewrite is what is stored.                      *)
FreshInv ==
    /\ \A t \in Tasks : pc[t] = "write" => seen[t] = doc
    /\ \A t, u \in Tasks : pc[t] = "write" /\ pc[u] = "write" => t = u

(* What is stored is what is on record.                                    *)
Kept ==
    \A j \in Jobs : /\ <<"cps", j>> \in applied <=> j \in doc.cps
                    /\ <<"prd", j>> \in applied <=> j \in doc.prd.has
                    /\ <<"design", j>> \in applied <=> j \in doc.design

-----------------------------------------------------------------------------
(* The stored PRD.                                                         *)

(* A new text is not the stored one and has a number above 0.              *)
LEMMA FreeText ==
  ASSUME FreeTexts # {}
  PROVE  /\ NewText \in FreeTexts /\ NewText \in Texts
         /\ NewText # 0 /\ NewText # doc.prd.text
<1>1. NewText \in FreeTexts
  BY DEF NewText
<1>2. NewText \in Texts /\ NewText # doc.prd.text
  BY <1>1 DEF FreeTexts
<1> QED
  BY <1>1, <1>2, ConstantsAssumption DEF Texts

(* What a merge, a rebuild or a clean-up makes of a PRD is a PRD.          *)
LEMMA PrdsTyped ==
  ASSUME FreeTexts # {}, NEW p \in Prds, NEW j \in Jobs
  PROVE  /\ MergedPrds(p, j) \subseteq Prds
         /\ RebuiltPrds(p, j) \subseteq Prds
         /\ CleanedPrd(p) \in Prds
<1> USE FreeText, ConstantsAssumption DEF Prds, Texts
<1>1. Grown(p.size) \in 0 .. SizeThreshold
  BY DEF Grown
<1>2. MergedPrds(p, j) \subseteq Prds
  <2> SUFFICES ASSUME NEW d \in SUBSET Repeats
               PROVE  [text |-> NewText, has |-> p.has \cup {j}, size |-> Grown(p.size),
                       dups |-> p.dups \cup d] \in Prds
    BY DEF MergedPrds
  <2>1. p.has \cup {j} \in SUBSET Jobs /\ p.dups \cup d \in SUBSET Repeats
    OBVIOUS
  <2>2. NewText \in 0 .. MaxTexts
    OBVIOUS
  <2> QED
    BY <1>1, <2>1, <2>2
<1>3. RebuiltPrds(p, j) \subseteq Prds
  BY DEF RebuiltPrds
<1>4. CleanedPrd(p) \in Prds
  BY DEF CleanedPrd
<1> QED
  BY <1>2, <1>3, <1>4

(* What a job stores has the type of the documents.                        *)
LEMMA WriteTyped ==
  ASSUME TypeOK, NEW t \in Tasks, Write(t)
  PROVE  /\ doc' \in Docs /\ quiet' \in BOOLEAN
         /\ applied' \subseteq {"cps", "prd", "design"} \X Jobs
<1> USE DEF Docs, Stores, Watched, Unwatched
<1>1. doc \in Docs /\ seen[t] \in Docs /\ quiet \in BOOLEAN
  BY DEF TypeOK
<1>2. applied \subseteq {"cps", "prd", "design"} \X Jobs
  BY DEF TypeOK
<1>3. FreeTexts # {}
  BY DEF Write
<1>4. KindOf(t) # "cleanup" => t \in Jobs
  BY DEF KindOf
<1>5. CASE PostMeetingJob(t)
  <2>1. t \in Jobs
    BY <1>5, <1>4 DEF PostMeetingJob
  <2>2. MergedPrds(seen[t].prd, t) \subseteq Prds
    BY <2>1, <1>1, <1>3, PrdsTyped
  <2>3. \E p \in Prds : Stores(seen[t].cps \cup {t}, p, doc.design)
    BY <2>2, <1>1, <1>5 DEF PostMeetingJob
  <2>4. quiet' \in BOOLEAN
    BY <1>1, <1>5 DEF PostMeetingJob
  <2>5. applied' \subseteq {"cps", "prd", "design"} \X Jobs
    BY <2>1, <1>2, <1>5 DEF PostMeetingJob, Apply
  <2> QED
    BY <2>1, <2>3, <2>4, <2>5, <1>1
<1>6. CASE CpsPipelineJob(t)
  <2>1. t \in Jobs
    BY <1>6, <1>4 DEF CpsPipelineJob
  <2>2. doc' \in Docs /\ quiet' \in BOOLEAN
    BY <2>1, <1>1, <1>6 DEF CpsPipelineJob
  <2>3. applied' \subseteq {"cps", "prd", "design"} \X Jobs
    BY <2>1, <1>2, <1>6 DEF CpsPipelineJob, Apply
  <2> QED
    BY <2>2, <2>3
<1>7. CASE PrdPipelineJob(t)
  <2>1. t \in Jobs
    BY <1>7, <1>4 DEF PrdPipelineJob
  <2>2. MergedPrds(seen[t].prd, t) \subseteq Prds
    BY <2>1, <1>1, <1>3, PrdsTyped
  <2>3. doc' \in Docs /\ quiet' \in BOOLEAN
    BY <2>1, <2>2, <1>1, <1>7 DEF PrdPipelineJob
  <2>4. applied' \subseteq {"cps", "prd", "design"} \X Jobs
    BY <2>1, <1>2, <1>7 DEF PrdPipelineJob, Apply
  <2> QED
    BY <2>3, <2>4
<1>8. CASE DeleteMeetingJob(t)
  <2>1. \A j \in seen[t].cps \cup seen[t].prd.has : j \in Jobs
    BY <1>1 DEF Prds
  <2>2. \A j \in Jobs : RebuiltPrds(seen[t].prd, j) \subseteq Prds
    BY <1>1, <1>3, PrdsTyped
  <2>3. \/ UNCHANGED doc
        \/ \E p \in Prds, j \in Jobs : Stores(seen[t].cps \ {j}, p, doc.design)
    BY <2>1, <2>2, <1>8 DEF DeleteMeetingJob
  <2>4. doc' \in Docs
    BY <2>3, <1>1
  <2>5. quiet' \in BOOLEAN
    BY <1>1, <1>8 DEF DeleteMeetingJob
  <2>6. applied' \subseteq applied
    BY <1>8 DEF DeleteMeetingJob, Apply
  <2> QED
    BY <2>4, <2>5, <2>6, <1>2
<1>9. CASE GithubOnboardJob(t)
  <2>1. t \in Jobs
    BY <1>9, <1>4 DEF GithubOnboardJob
  <2>2. MergedPrds(seen[t].prd, t) \subseteq Prds
    BY <2>1, <1>1, <1>3, PrdsTyped
  <2>3. doc' \in Docs /\ quiet' \in BOOLEAN
    BY <2>1, <2>2, <1>1, <1>9 DEF GithubOnboardJob
  <2>4. applied' \subseteq {"cps", "prd", "design"} \X Jobs
    BY <2>1, <1>2, <1>9 DEF GithubOnboardJob, Apply
  <2> QED
    BY <2>3, <2>4
<1>10. CASE DesignPipelineJob(t)
  <2>1. t \in Jobs
    BY <1>10, <1>4 DEF DesignPipelineJob
  <2>2. doc' \in Docs /\ quiet' \in BOOLEAN
    BY <2>1, <1>1, <1>10 DEF DesignPipelineJob
  <2>3. applied' \subseteq {"cps", "prd", "design"} \X Jobs
    BY <2>1, <1>2, <1>10 DEF DesignPipelineJob, Apply
  <2> QED
    BY <2>2, <2>3
<1>11. CASE AutofillApiSpecsJob(t)
  <2>1. t \in Jobs
    BY <1>11, <1>4 DEF AutofillApiSpecsJob
  <2>2. doc' \in Docs /\ quiet' \in BOOLEAN
    BY <2>1, <1>1, <1>11 DEF AutofillApiSpecsJob
  <2>3. applied' \subseteq {"cps", "prd", "design"} \X Jobs
    BY <2>1, <1>2, <1>11 DEF AutofillApiSpecsJob, Apply
  <2> QED
    BY <2>2, <2>3
<1>12. CASE CleanupMasterPrdJob(t)
  <2>1. CleanedPrd(seen[t].prd) \in Prds
    BY <1>1, <1>3, FreeText, ConstantsAssumption DEF CleanedPrd, Prds, Texts
  <2> QED
    BY <2>1, <1>1, <1>2, <1>12 DEF CleanupMasterPrdJob
<1> QED
  BY <1>5, <1>6, <1>7, <1>8, <1>9, <1>10, <1>11, <1>12 DEF Write

(* Every document, text number and history variable keeps its type: a new  *)
(* text always gets a number, and sizes stop at the threshold.             *)
THEOREM TypeCorrect == Spec => []TypeOK
<1>1. Init => TypeOK
  <2> SUFFICES ASSUME Init PROVE TypeOK
    OBVIOUS
  <2>1. NoDocs \in Docs
    BY ConstantsAssumption DEF NoDocs, NoPrd, Prds, Docs
  <2>2. kind \in [Jobs -> Kinds]
    BY ConstantsAssumption DEF Init
  <2>3. {raced, quiet} \subseteq BOOLEAN
    BY DEF Init
  <2>4. faults \in 0 .. MaxFaults
    BY ConstantsAssumption DEF Init
  <2> QED
    BY <2>1, <2>2, <2>3, <2>4 DEF Init, TypeOK, Docs
<1>2. TypeOK /\ [Next]_vars => TypeOK'
  <2> SUFFICES ASSUME TypeOK, [Next]_vars PROVE TypeOK'
    OBVIOUS
  <2> USE ConstantsAssumption
      DEF TypeOK, Goto, Fault, Submit, Freed, Forgets, Tasks, Triggers, history
  <2>1. CASE View
    <3>1. CleanupTaskId(doc.prd) \in {0} \cup Texts
      BY DEF CleanupTaskId, Prds, Texts
    <3> QED
      BY <3>1, <2>1 DEF View
  <2>2. CASE LazyTrigger
    <3>1. aim[Viewer] \in Texts
      BY <2>2 DEF LazyTrigger
    <3>2. pc' \in [Tasks -> {"new", "queued", "lock", "read", "write", "release",
                              "look", "enqueue", "over"}]
      BY <3>1, <2>2 DEF LazyTrigger
    <3>3. faults' \in 0 .. MaxFaults
      BY <2>2 DEF LazyTrigger
    <3> QED
      BY <3>2, <3>3, <2>2 DEF LazyTrigger
  <2>3. ASSUME NEW j \in Jobs, Look(j) PROVE TypeOK'
    <3>1. CleanupTaskId(doc.prd) \in {0} \cup Texts
      BY DEF CleanupTaskId, Prds, Texts
    <3> QED
      BY <3>1, <2>3 DEF Look
  <2>4. ASSUME NEW j \in Jobs, AutoTrigger(j) PROVE TypeOK'
    BY <2>4 DEF AutoTrigger
  <2>5. ASSUME NEW j \in Jobs, TriggerFails(j) PROVE TypeOK'
    BY <2>5 DEF TriggerFails
  <2>6. ASSUME NEW t \in Tasks, StartJob(t) PROVE TypeOK'
    BY <2>6 DEF StartJob
  <2>7. ASSUME NEW t \in Tasks, Acquire(t) PROVE TypeOK'
    BY <2>7 DEF Acquire
  <2>8. ASSUME NEW t \in Tasks, Read(t) PROVE TypeOK'
    BY <2>8 DEF Read
  <2>9. ASSUME NEW t \in Tasks, Write(t) PROVE TypeOK'
    <3>1. /\ doc' \in Docs /\ quiet' \in BOOLEAN
          /\ applied' \subseteq {"cps", "prd", "design"} \X Jobs
      BY <2>9, WriteTyped
    <3>2. pc' \in [Tasks -> {"new", "queued", "lock", "read", "write", "release",
                              "look", "enqueue", "over"}]
      BY <2>9 DEF Write
    <3> QED
      BY <3>1, <3>2, <2>9 DEF Write, Docs
  <2>10. ASSUME NEW t \in Tasks, Release(t) PROVE TypeOK'
    <3>1. NoDocs \in Docs
      BY DEF NoDocs, NoPrd, Prds, Docs
    <3> QED
      BY <3>1, <2>10 DEF Release, Docs
  <2>11. ASSUME NEW t \in Tasks, Raises(t) PROVE TypeOK'
    <3>1. NoDocs \in Docs
      BY DEF NoDocs, NoPrd, Prds, Docs
    <3> QED
      BY <3>1, <2>11 DEF Raises, Docs
  <2>12. ASSUME NEW t \in Tasks, Crash(t) PROVE TypeOK'
    <3>1. NoDocs \in Docs
      BY DEF NoDocs, NoPrd, Prds, Docs
    <3> QED
      BY <3>1, <2>12 DEF Crash, Docs
  <2>13. ASSUME NEW id \in Texts, Forget(id) PROVE TypeOK'
    BY <2>13 DEF Forget
  <2>14. CASE UNCHANGED vars
    BY <2>14 DEF vars, history
  <2> QED
    BY <2>1, <2>2, <2>3, <2>4, <2>5, <2>6, <2>7, <2>8, <2>9, <2>10,
       <2>11, <2>12, <2>13, <2>14
       DEF Next, JobStep
<1> QED
  BY <1>1, <1>2, PTL DEF Spec

-----------------------------------------------------------------------------
(* A section is entered with the lock or on a recorded path; only its own  *)
(* task gives the lock back, and a crash keeps it.                         *)
LEMMA LockInvStep ==
  ASSUME TypeOK, LockInv, [Next]_vars
  PROVE  LockInv'
<1> USE ConstantsAssumption
    DEF TypeOK, LockInv, Goto, Fault, Submit, Freed, Forgets, Tasks, Triggers, history
<1>1. CASE View
  BY <1>1 DEF View
<1>2. CASE LazyTrigger
  BY <1>2 DEF LazyTrigger
<1>3. ASSUME NEW j \in Jobs, Look(j) PROVE LockInv'
  BY <1>3 DEF Look
<1>4. ASSUME NEW j \in Jobs, AutoTrigger(j) PROVE LockInv'
  BY <1>4 DEF AutoTrigger
<1>5. ASSUME NEW j \in Jobs, TriggerFails(j) PROVE LockInv'
  BY <1>5 DEF TriggerFails
<1>6. ASSUME NEW t \in Tasks, StartJob(t) PROVE LockInv'
  BY <1>6 DEF StartJob, TakesLock, Onboarding
<1>7. ASSUME NEW t \in Tasks, Acquire(t) PROVE LockInv'
  BY <1>7 DEF Acquire
<1>8. ASSUME NEW t \in Tasks, Read(t) PROVE LockInv'
  BY <1>8 DEF Read
<1>9. ASSUME NEW t \in Tasks, Write(t) PROVE LockInv'
  BY <1>9 DEF Write
<1>10. ASSUME NEW t \in Tasks, Release(t) PROVE LockInv'
  BY <1>10 DEF Release
<1>11. ASSUME NEW t \in Tasks, Raises(t) PROVE LockInv'
  BY <1>11 DEF Raises
<1>12. ASSUME NEW t \in Tasks, Crash(t) PROVE LockInv'
  BY <1>12 DEF Crash
<1>13. ASSUME NEW id \in Texts, Forget(id) PROVE LockInv'
  BY <1>13 DEF Forget
<1>14. CASE UNCHANGED vars
  BY <1>14 DEF vars, history
<1> QED
  BY <1>1, <1>2, <1>3, <1>4, <1>5, <1>6, <1>7, <1>8, <1>9, <1>10,
     <1>11, <1>12, <1>13, <1>14
     DEF Next, JobStep

(* As long as nobody raced, a task reads only when no other one is between *)
(* its read and its write.                                                 *)
LEMMA FreshInvStep ==
  ASSUME TypeOK, LockInv, ~ raced => FreshInv, [Next]_vars
  PROVE  (~ raced => FreshInv)'
<1> SUFFICES ASSUME ~ raced' PROVE FreshInv'
  OBVIOUS
<1> USE ConstantsAssumption
    DEF TypeOK, FreshInv, Goto, Fault, Submit, Freed, Forgets, Tasks, Triggers, history
<1>1. CASE View
  BY <1>1 DEF View
<1>2. CASE LazyTrigger
  BY <1>2 DEF LazyTrigger
<1>3. ASSUME NEW j \in Jobs, Look(j) PROVE FreshInv'
  BY <1>3 DEF Look
<1>4. ASSUME NEW j \in Jobs, AutoTrigger(j) PROVE FreshInv'
  BY <1>4 DEF AutoTrigger
<1>5. ASSUME NEW j \in Jobs, TriggerFails(j) PROVE FreshInv'
  BY <1>5 DEF TriggerFails
<1>6. ASSUME NEW t \in Tasks, StartJob(t) PROVE FreshInv'
  BY <1>6 DEF StartJob
<1>7. ASSUME NEW t \in Tasks, Acquire(t) PROVE FreshInv'
  BY <1>7 DEF Acquire
<1>8. ASSUME NEW t \in Tasks, Read(t) PROVE FreshInv'
  <2>1. ~ raced /\ \A u \in Tasks \ {t} : pc[u] = "write" => t \notin loose /\ u \notin loose
    BY <1>8 DEF Read
  <2>2. \A u \in Tasks \ {t} : pc[u] # "write"
    BY <2>1, <1>8 DEF Read, LockInv
  <2>3. seen'[t] = doc' /\ pc' = [pc EXCEPT ![t] = "write"]
    BY <1>8 DEF Read
  <2> QED
    BY <2>2, <2>3
<1>9. ASSUME NEW t \in Tasks, Write(t) PROVE FreshInv'
  <2>1. ~ raced /\ pc[t] = "write"
    BY <1>9 DEF Write
  <2>2. \A u \in Tasks : pc[u] = "write" => u = t
    BY <2>1
  <2>3. \A u \in Tasks : pc'[u] # "write"
    BY <2>2, <1>9 DEF Write
  <2> QED
    BY <2>3
<1>10. ASSUME NEW t \in Tasks, Release(t) PROVE FreshInv'
  BY <1>10 DEF Release
<1>11. ASSUME NEW t \in Tasks, Raises(t) PROVE FreshInv'
  BY <1>11 DEF Raises
<1>12. ASSUME NEW t \in Tasks, Crash(t) PROVE FreshInv'
  BY <1>12 DEF Crash
<1>13. ASSUME NEW id \in Texts, Forget(id) PROVE FreshInv'
  BY <1>13 DEF Forget
<1>14. CASE UNCHANGED vars
  BY <1>14 DEF vars, history
<1> QED
  BY <1>1, <1>2, <1>3, <1>4, <1>5, <1>6, <1>7, <1>8, <1>9, <1>10,
     <1>11, <1>12, <1>13, <1>14
     DEF Next, JobStep

(* A merged PRD has the delta of its job besides what it had.              *)
LEMMA MergeAdds ==
  ASSUME NEW p0, NEW t
  PROVE  \A p \in MergedPrds(p0, t) : p.has = p0.has \cup {t}
BY DEF MergedPrds

(* What a job stores, when it read what is stored, is what it records: all *)
(* of it but what it deletes or draws anew, and its own update.            *)
LEMMA WriteKeeps ==
  ASSUME TypeOK, NEW t \in Tasks, Write(t), seen[t] = doc, Kept
  PROVE  Kept'
<1> USE DEF Stores, Kept
<1>1. CASE PostMeetingJob(t)
  <2>1. doc'.cps = doc.cps \cup {t} /\ doc'.design = doc.design
    BY <1>1 DEF PostMeetingJob
  <2>2. CASE Apply(t, {"cps"}, {}) /\ doc'.prd = doc.prd
    <3>1. applied' = applied \cup {<<"cps", t>>}
      BY <2>2 DEF Apply
    <3> QED
      BY <2>1, <2>2, <3>1
  <2>3. CASE Apply(t, {"cps", "prd"}, {}) /\ doc'.prd \in MergedPrds(seen[t].prd, t)
    <3>1. applied' = applied \cup {<<"cps", t>>, <<"prd", t>>}
      BY <2>3 DEF Apply
    <3>2. doc'.prd.has = doc.prd.has \cup {t}
      BY <2>3, MergeAdds
    <3> QED
      BY <2>1, <3>1, <3>2
  <2> QED
    <3>1. CASE \E p \in MergedPrds(seen[t].prd, t) :
                  /\ Stores(seen[t].cps \cup {t}, p, doc.design)
                  /\ Apply(t, {"cps", "prd"}, {})
      <4>1. doc'.prd \in MergedPrds(seen[t].prd, t)
        BY <3>1
      <4> QED
        BY <3>1, <4>1, <2>3
    <3>2. CASE /\ Stores(seen[t].cps \cup {t}, doc.prd, doc.design)
               /\ Apply(t, {"cps"}, {})
      BY <3>2, <2>2
    <3> QED
      BY <1>1, <3>1, <3>2 DEF PostMeetingJob
<1>2. CASE CpsPipelineJob(t)
  BY <1>2 DEF CpsPipelineJob, Apply
<1>3. CASE PrdPipelineJob(t)
  <2>1. doc'.cps = doc.cps /\ doc'.prd.has = doc.prd.has \cup {t} /\ doc'.design = doc.design
    BY <1>3, MergeAdds DEF PrdPipelineJob
  <2>2. applied' = applied \cup {<<"prd", t>>}
    BY <1>3 DEF PrdPipelineJob, Apply
  <2> QED
    BY <2>1, <2>2
<1>4. CASE DeleteMeetingJob(t)
  <2>1. CASE UNCHANGED <<doc, applied, quiet>>
    BY <2>1
  <2>2. ASSUME NEW j \in seen[t].cps \cup seen[t].prd.has,
               NEW p \in RebuiltPrds(seen[t].prd, j),
               Stores(seen[t].cps \ {j}, p, doc.design),
               Apply(t, {}, {<<"cps", j>>, <<"prd", j>>})
        PROVE  Kept'
    <3>1. doc'.cps = doc.cps \ {j} /\ doc'.prd.has = doc.prd.has \ {j} /\ doc'.design = doc.design
      BY <2>2 DEF RebuiltPrds
    <3>2. applied' = applied \ {<<"cps", j>>, <<"prd", j>>}
      BY <2>2 DEF Apply
    <3> QED
      BY <3>1, <3>2
  <2> QED
    BY <2>1, <2>2, <1>4 DEF DeleteMeetingJob
<1>5. CASE GithubOnboardJob(t)
  <2>1. /\ doc'.cps = doc.cps \cup {t} /\ doc'.prd.has = doc.prd.has \cup {t}
        /\ doc'.design = doc.design
    BY <1>5, MergeAdds DEF GithubOnboardJob
  <2>2. applied' = applied \cup {<<"cps", t>>, <<"prd", t>>}
    BY <1>5 DEF GithubOnboardJob, Apply
  <2> QED
    BY <2>1, <2>2
<1>6. CASE DesignPipelineJob(t)
  BY <1>6 DEF DesignPipelineJob, Apply
<1>7. CASE AutofillApiSpecsJob(t)
  BY <1>7 DEF AutofillApiSpecsJob, Apply
<1>8. CASE CleanupMasterPrdJob(t)
  BY <1>8 DEF CleanupMasterPrdJob, CleanedPrd
<1> QED
  BY <1>1, <1>2, <1>3, <1>4, <1>5, <1>6, <1>7, <1>8 DEF Write

(* No step makes the documents differ from the record.                     *)
LEMMA KeptStep ==
  ASSUME TypeOK, ~ raced => FreshInv, ~ raced => Kept, [Next]_vars
  PROVE  (~ raced => Kept)'
<1> SUFFICES ASSUME ~ raced' PROVE Kept'
  OBVIOUS
<1>1. UNCHANGED <<doc, applied>> /\ ~ raced => Kept'
  BY DEF Kept, Holds
<1> USE <1>1 DEF history
<1>2. CASE View
  BY <1>2 DEF View
<1>3. CASE LazyTrigger
  BY <1>3 DEF LazyTrigger
<1>4. ASSUME NEW j \in Jobs, Look(j) PROVE Kept'
  BY <1>4 DEF Look
<1>5. ASSUME NEW j \in Jobs, AutoTrigger(j) PROVE Kept'
  BY <1>5 DEF AutoTrigger
<1>6. ASSUME NEW j \in Jobs, TriggerFails(j) PROVE Kept'
  BY <1>6 DEF TriggerFails
<1>7. ASSUME NEW t \in Tasks, StartJob(t) PROVE Kept'
  BY <1>7 DEF StartJob
<1>8. ASSUME NEW t \in Tasks, Acquire(t) PROVE Kept'
  BY <1>8 DEF Acquire
<1>9. ASSUME NEW t \in Tasks, Read(t) PROVE Kept'
  BY <1>9 DEF Read
<1>10. ASSUME NEW t \in Tasks, Write(t) PROVE Kept'
  <2>1. ~ raced /\ pc[t] = "write"
    BY <1>10 DEF Write
  <2> QED
    BY <2>1, <1>10, WriteKeeps DEF FreshInv
<1>11. ASSUME NEW t \in Tasks, Release(t) PROVE Kept'
  BY <1>11 DEF Release
<1>12. ASSUME NEW t \in Tasks, Raises(t) PROVE Kept'
  BY <1>12 DEF Raises
<1>13. ASSUME NEW t \in Tasks, Crash(t) PROVE Kept'
  BY <1>13 DEF Crash
<1>14. ASSUME NEW id \in Texts, Forget(id) PROVE Kept'
  BY <1>14 DEF Forget
<1>15. CASE UNCHANGED vars
  BY <1>15 DEF vars, history
<1> QED
  BY <1>2, <1>3, <1>4, <1>5, <1>6, <1>7, <1>8, <1>9, <1>10, <1>11,
     <1>12, <1>13, <1>14, <1>15
     DEF Next, JobStep

(* Whatever was merged, patched or drawn stays stored until it is deleted  *)
(* or redrawn, and then it does not come back, unless a task without the   *)
(* lock raced with another one.                                            *)
THEOREM UpdatesAreKept == Spec => []UpdatesKept
<1>1. Init => LockInv /\ (~ raced => FreshInv) /\ (~ raced => Kept)
  BY DEF Init, LockInv, FreshInv, Kept, NoDocs, NoPrd
<1>2. TypeOK /\ LockInv /\ [Next]_vars => LockInv'
  BY LockInvStep
<1>3. TypeOK /\ LockInv /\ (~ raced => FreshInv) /\ [Next]_vars => (~ raced => FreshInv)'
  BY FreshInvStep
<1>4. TypeOK /\ (~ raced => FreshInv) /\ (~ raced => Kept) /\ [Next]_vars => (~ raced => Kept)'
  BY KeptStep
<1>5. (~ raced => Kept) => UpdatesKept
  BY DEF Kept, UpdatesKept, Holds
<1> QED
  BY <1>1, <1>2, <1>3, <1>4, <1>5, TypeCorrect, PTL DEF Spec

-----------------------------------------------------------------------------
(* Only the empty PRD has no text.                                         *)
TextInv == doc.prd.text = 0 => doc.prd = NoPrd

(* A job that is still going to look at the present PRD.                   *)
WillLook(j) ==
    /\ KindOf(j) = "post_meeting"
    /\ \/ pc[j] \in {"release", "look"}
       \/ pc[j] = "enqueue" /\ aim[j] = doc.prd.text

Noticed == pc[doc.prd.text] # "new" \/ \E j \in Jobs : WillLook(j)

(* Every new text either is stored unwatched, or is clean, or its writer   *)
(* is a meeting job at the end of its section.                             *)
LEMMA WriteWatches ==
  ASSUME TypeOK, TextInv, NEW t \in Tasks, Write(t)
  PROVE  /\ TextInv'
         /\ \/ quiet' \/ ~ Cluttered(doc'.prd)
            \/ KindOf(t) = "post_meeting"
            \/ UNCHANGED quiet /\ doc'.prd = doc.prd
<1> USE DEF Stores, TextInv, Watched, Unwatched
<1>1. FreeTexts # {} /\ NewText # 0
  BY FreeText DEF Write
<1>2. CASE PostMeetingJob(t)
  BY <1>2, <1>1 DEF PostMeetingJob, MergedPrds, RebuiltPrds
<1>3. CASE CpsPipelineJob(t)
  BY <1>3, <1>1 DEF CpsPipelineJob, MergedPrds, RebuiltPrds
<1>4. CASE PrdPipelineJob(t)
  BY <1>4, <1>1 DEF PrdPipelineJob, MergedPrds, RebuiltPrds
<1>5. CASE DeleteMeetingJob(t)
  <2>1. \A p, j : p \in RebuiltPrds(seen[t].prd, j) => p.text = NewText
    BY DEF RebuiltPrds
  <2>2. ASSUME NEW j, NEW p \in RebuiltPrds(seen[t].prd, j),
               Stores(seen[t].cps \ {j}, p, doc.design)
        PROVE  doc'.prd.text = NewText
    BY <2>1, <2>2
  <2>3. doc'.prd.text = NewText \/ UNCHANGED doc
    BY <2>2, <1>5, Zenon DEF DeleteMeetingJob
  <2>4. quiet' \/ UNCHANGED <<doc, quiet>>
    BY <1>5, Zenon DEF DeleteMeetingJob
  <2> QED
    BY <2>3, <2>4, <1>1
<1>6. CASE GithubOnboardJob(t)
  BY <1>6, <1>1 DEF GithubOnboardJob, MergedPrds, RebuiltPrds
<1>7. CASE DesignPipelineJob(t)
  BY <1>7, <1>1 DEF DesignPipelineJob, MergedPrds, RebuiltPrds
<1>8. CASE AutofillApiSpecsJob(t)
  BY <1>8, <1>1 DEF AutofillApiSpecsJob, MergedPrds, RebuiltPrds
<1>9. CASE CleanupMasterPrdJob(t)
  <2>1. ~ Cluttered(doc'.prd) /\ doc'.prd.text # 0
    BY <1>9, <1>1, ConstantsAssumption DEF CleanupMasterPrdJob, CleanedPrd, Cluttered
  <2> QED
    BY <2>1
<1> QED
  BY <1>2, <1>3, <1>4, <1>5, <1>6, <1>7, <1>8, <1>9 DEF Write

(* A new text has a number above 0.                                        *)
LEMMA TextInvStep ==
  ASSUME TypeOK, TextInv, [Next]_vars
  PROVE  TextInv'
<1>1. UNCHANGED doc => TextInv'
  BY DEF TextInv
<1> USE <1>1 DEF history
<1>2. CASE View
  BY <1>2 DEF View
<1>3. CASE LazyTrigger
  BY <1>3 DEF LazyTrigger
<1>4. ASSUME NEW j \in Jobs, Look(j) PROVE TextInv'
  BY <1>4 DEF Look
<1>5. ASSUME NEW j \in Jobs, AutoTrigger(j) PROVE TextInv'
  BY <1>5 DEF AutoTrigger
<1>6. ASSUME NEW j \in Jobs, TriggerFails(j) PROVE TextInv'
  BY <1>6 DEF TriggerFails
<1>7. ASSUME NEW t \in Tasks, StartJob(t) PROVE TextInv'
  BY <1>7 DEF StartJob
<1>8. ASSUME NEW t \in Tasks, Acquire(t) PROVE TextInv'
  BY <1>8 DEF Acquire
<1>9. ASSUME NEW t \in Tasks, Read(t) PROVE TextInv'
  BY <1>9 DEF Read
<1>10. ASSUME NEW t \in Tasks, Write(t) PROVE TextInv'
  BY <1>10, WriteWatches
<1>11. ASSUME NEW t \in Tasks, Release(t) PROVE TextInv'
  BY <1>11 DEF Release
<1>12. ASSUME NEW t \in Tasks, Raises(t) PROVE TextInv'
  BY <1>12 DEF Raises
<1>13. ASSUME NEW t \in Tasks, Crash(t) PROVE TextInv'
  BY <1>13 DEF Crash
<1>14. ASSUME NEW id \in Texts, Forget(id) PROVE TextInv'
  BY <1>14 DEF Forget
<1>15. CASE UNCHANGED vars
  BY <1>15 DEF vars, history
<1> QED
  BY <1>2, <1>3, <1>4, <1>5, <1>6, <1>7, <1>8, <1>9, <1>10, <1>11,
     <1>12, <1>13, <1>14, <1>15
     DEF Next, JobStep

(* A text that is noticed stays so until it is replaced or excused.        *)
LEMMA ClutterNoticedStep ==
  ASSUME TypeOK, TextInv, ClutterNoticed, [Next]_vars
  PROVE  ClutterNoticed'
<1> DEFINE n == doc.prd.text
<1>1. SUFFICES ASSUME Cluttered(doc'.prd), ~ quiet' PROVE Noticed'
  BY DEF ClutterNoticed, Noticed, WillLook
<1>2. Cluttered(doc.prd) => n \in Texts /\ n \notin Jobs /\ n # 0
  BY ConstantsAssumption DEF TypeOK, TextInv, Cluttered, NoPrd, Prds, Texts
<1>3. Cluttered(doc.prd) /\ ~ quiet => Noticed
  BY DEF ClutterNoticed, Noticed, WillLook
<1>4. ASSUME UNCHANGED <<kind, doc>>, ~ quiet,
              \A j \in Jobs : WillLook(j) => WillLook(j)' \/ pc'[n] # "new",
              pc[n] # "new" => pc'[n] # "new"
       PROVE  Noticed'
  BY <1>1, <1>3, <1>4 DEF Noticed
<1> USE <1>2 DEF TypeOK, WillLook, KindOf, Goto, Tasks, Texts, history
<1>5. CASE View
  <2>1. UNCHANGED <<kind, doc>> /\ ~ quiet
    BY <1>5, <1>1 DEF View
  <2>2. pc[n] # "new" => pc'[n] # "new"
    BY <1>1, <2>1, <1>5 DEF View
  <2>3. \A i \in Jobs : WillLook(i) => WillLook(i)' \/ pc'[n] # "new"
    BY <1>1, <2>1, <1>5 DEF View
  <2> QED
    BY <1>4, <2>1, <2>2, <2>3
<1>6. CASE LazyTrigger
  <2>1. UNCHANGED <<kind, doc>> /\ ~ quiet
    BY <1>6, <1>1 DEF LazyTrigger
  <2>2. pc[n] # "new" => pc'[n] # "new"
    BY <1>1, <2>1, <1>6 DEF LazyTrigger, Submit
  <2>3. \A i \in Jobs : pc'[i] = pc[i] /\ aim'[i] = aim[i]
    BY <1>6, ConstantsAssumption DEF LazyTrigger, Submit, Triggers
  <2>4. \A i \in Jobs : WillLook(i) => WillLook(i)' \/ pc'[n] # "new"
    BY <2>1, <2>3
  <2> QED
    BY <1>4, <2>1, <2>2, <2>4
<1>7. ASSUME NEW j \in Jobs, Look(j) PROVE Noticed'
  <2>1. UNCHANGED <<kind, doc>> /\ ~ quiet
    BY <1>7, <1>1 DEF Look
  <2>2. pc[n] # "new" => pc'[n] # "new"
    BY <1>1, <2>1, <1>7 DEF Look
  <2>3. pc' = [pc EXCEPT ![j] = "enqueue"] /\ aim' = [aim EXCEPT ![j] = n]
    BY <1>7, <2>1, <1>1 DEF Look, ShouldTriggerCleanup, CleanupTaskId
  <2>4. pc'[j] = "enqueue" /\ aim'[j] = n
    BY <2>3 DEF Triggers
  <2>5. \A i \in Jobs \ {j} : pc'[i] = pc[i] /\ aim'[i] = aim[i]
    BY <2>3 DEF Triggers
  <2>6. \A i \in Jobs : WillLook(i) => WillLook(i)' \/ pc'[n] # "new"
    BY <2>1, <2>4, <2>5
  <2> QED
    BY <1>4, <2>1, <2>2, <2>6
<1>8. ASSUME NEW j \in Jobs, AutoTrigger(j) PROVE Noticed'
  <2>1. UNCHANGED <<kind, doc>> /\ ~ quiet
    BY <1>8, <1>1 DEF AutoTrigger
  <2>2. pc[n] # "new" => pc'[n] # "new"
    BY <1>1, <2>1, <1>8 DEF AutoTrigger
  <2>3. \A i \in Jobs : WillLook(i) => WillLook(i)' \/ pc'[n] # "new"
    BY <1>1, <2>1, <1>8 DEF AutoTrigger
  <2> QED
    BY <1>4, <2>1, <2>2, <2>3
<1>9. ASSUME NEW j \in Jobs, TriggerFails(j) PROVE Noticed'
  <2>1. UNCHANGED <<kind, doc>> /\ ~ quiet
    BY <1>9, <1>1 DEF TriggerFails
  <2>2. pc[n] # "new" => pc'[n] # "new"
    BY <1>1, <2>1, <1>9 DEF TriggerFails
  <2>3. \A i \in Jobs : WillLook(i) => WillLook(i)' \/ pc'[n] # "new"
    BY <1>1, <2>1, <1>9 DEF TriggerFails
  <2> QED
    BY <1>4, <2>1, <2>2, <2>3
<1>10. ASSUME NEW t \in Tasks, StartJob(t) PROVE Noticed'
  <2>1. UNCHANGED <<kind, doc>> /\ ~ quiet
    BY <1>10, <1>1 DEF StartJob
  <2>2. pc[n] # "new" => pc'[n] # "new"
    BY <1>1, <2>1, <1>10 DEF StartJob
  <2>3. \A i \in Jobs : WillLook(i) => WillLook(i)' \/ pc'[n] # "new"
    BY <1>1, <2>1, <1>10 DEF StartJob
  <2> QED
    BY <1>4, <2>1, <2>2, <2>3
<1>11. ASSUME NEW t \in Tasks, Acquire(t) PROVE Noticed'
  <2>1. UNCHANGED <<kind, doc>> /\ ~ quiet
    BY <1>11, <1>1 DEF Acquire
  <2>2. pc[n] # "new" => pc'[n] # "new"
    BY <1>1, <2>1, <1>11 DEF Acquire
  <2>3. \A i \in Jobs : WillLook(i) => WillLook(i)' \/ pc'[n] # "new"
    BY <1>1, <2>1, <1>11 DEF Acquire
  <2> QED
    BY <1>4, <2>1, <2>2, <2>3
<1>12. ASSUME NEW t \in Tasks, Read(t) PROVE Noticed'
  <2>1. UNCHANGED <<kind, doc>> /\ ~ quiet
    BY <1>12, <1>1 DEF Read
  <2>2. pc[n] # "new" => pc'[n] # "new"
    BY <1>1, <2>1, <1>12 DEF Read
  <2>3. \A i \in Jobs : WillLook(i) => WillLook(i)' \/ pc'[n] # "new"
    BY <1>1, <2>1, <1>12 DEF Read
  <2> QED
    BY <1>4, <2>1, <2>2, <2>3
<1>13. ASSUME NEW t \in Tasks, Write(t) PROVE Noticed'
  <2>1. CASE KindOf(t) = "post_meeting"
    <3>1. t \in Jobs /\ pc'[t] = "release" /\ KindOf(t)' = "post_meeting"
      BY <2>1, <1>13 DEF Write
    <3> QED
      BY <3>1 DEF Noticed
  <2>2. CASE KindOf(t) # "post_meeting"
    <3>1. UNCHANGED quiet /\ doc'.prd = doc.prd
      BY <2>2, <1>1, <1>13, WriteWatches
    <3>2. pc[t] = "write" /\ UNCHANGED <<kind, aim>>
      BY <1>13 DEF Write
    <3>3. pc'[t] = "release" /\ n \notin FreeTexts
      BY <1>13 DEF Write, FreeTexts
    <3>4. \A u \in Tasks \ {t} : u \notin FreeTexts => pc'[u] = pc[u]
      BY <1>13 DEF Write
    <3>5. \A j \in Jobs : j \notin FreeTexts
      BY ConstantsAssumption DEF FreeTexts
    <3>6. pc[n] # "new" => pc'[n] # "new"
      BY <1>1, <3>1, <3>3, <3>4
    <3>7. \A j \in Jobs : WillLook(j) => WillLook(j)'
      BY <2>2, <3>1, <3>2, <3>4, <3>5
    <3> QED
      BY <1>1, <1>3, <3>1, <3>6, <3>7 DEF Noticed
  <2> QED
    BY <2>1, <2>2
<1>14. ASSUME NEW t \in Tasks, Release(t) PROVE Noticed'
  <2>1. UNCHANGED <<kind, doc>> /\ ~ quiet
    BY <1>14, <1>1 DEF Release
  <2>2. pc[n] # "new" => pc'[n] # "new"
    BY <1>1, <2>1, <1>14 DEF Release
  <2>3. \A i \in Jobs : WillLook(i) => WillLook(i)' \/ pc'[n] # "new"
    BY <1>1, <2>1, <1>14 DEF Release
  <2> QED
    BY <1>4, <2>1, <2>2, <2>3
<1>15. ASSUME NEW t \in Tasks, Raises(t) PROVE Noticed'
  <2>1. UNCHANGED <<kind, doc>> /\ ~ quiet
    BY <1>15, <1>1 DEF Raises
  <2>2. pc[n] # "new" => pc'[n] # "new"
    BY <1>1, <2>1, <1>15 DEF Raises, Forgets
  <2>3. \A i \in Jobs : WillLook(i) => WillLook(i)' \/ pc'[n] # "new"
    BY <1>1, <2>1, <1>15 DEF Raises, Forgets
  <2> QED
    BY <1>4, <2>1, <2>2, <2>3
<1>16. ASSUME NEW t \in Tasks, Crash(t) PROVE Noticed'
  <2>1. UNCHANGED <<kind, doc>> /\ ~ quiet
    BY <1>16, <1>1 DEF Crash
  <2>2. pc[n] # "new" => pc'[n] # "new"
    BY <1>1, <2>1, <1>16 DEF Crash
  <2>3. t \in Jobs => pc[t] \notin {"release", "look", "enqueue"}
    BY <1>16, <1>1 DEF Crash
  <2>4. \A i \in Jobs \ {t} : pc'[i] = pc[i] /\ aim'[i] = aim[i]
    BY <1>16 DEF Crash, Triggers
  <2>5. \A i \in Jobs : WillLook(i) => WillLook(i)' \/ pc'[n] # "new"
    BY <2>1, <2>3, <2>4
  <2> QED
    BY <1>4, <2>1, <2>2, <2>5
<1>17. ASSUME NEW id \in Texts, Forget(id) PROVE Noticed'
  <2>1. UNCHANGED <<kind, doc>> /\ ~ quiet
    BY <1>17, <1>1 DEF Forget
  <2>2. pc[n] # "new" => pc'[n] # "new"
    BY <1>1, <2>1, <1>17 DEF Forget
  <2>3. \A i \in Jobs : WillLook(i) => WillLook(i)' \/ pc'[n] # "new"
    BY <1>1, <2>1, <1>17 DEF Forget
  <2> QED
    BY <1>4, <2>1, <2>2, <2>3
<1>18. CASE UNCHANGED vars
  <2>1. UNCHANGED <<kind, doc>> /\ ~ quiet
    BY <1>18, <1>1 DEF vars
  <2>2. pc[n] # "new" => pc'[n] # "new"
    BY <1>1, <2>1, <1>18 DEF vars
  <2>3. \A i \in Jobs : WillLook(i) => WillLook(i)' \/ pc'[n] # "new"
    BY <1>1, <2>1, <1>18 DEF vars
  <2> QED
    BY <1>4, <2>1, <2>2, <2>3
<1> QED
  BY <1>5, <1>6, <1>7, <1>8, <1>9, <1>10, <1>11, <1>12, <1>13, <1>14,
     <1>15, <1>16, <1>17, <1>18
     DEF Next, JobStep

(* A cluttered PRD that a meeting job wrote is never lost sight of, except *)
(* on the paths that the history variable notes.                           *)
THEOREM ClutterIsNoticed == Spec => []ClutterNoticed
<1>1. Init => TextInv /\ ClutterNoticed
  <2> SUFFICES ASSUME Init PROVE TextInv /\ ClutterNoticed
    OBVIOUS
  <2>1. doc.prd = NoPrd
    BY DEF Init, NoDocs
  <2>2. ~ Cluttered(NoPrd)
    BY ConstantsAssumption DEF Cluttered, NoPrd
  <2> QED
    BY <2>1, <2>2 DEF TextInv, ClutterNoticed
<1>2. TypeOK /\ TextInv /\ [Next]_vars => TextInv'
  BY TextInvStep
<1>3. TypeOK /\ TextInv /\ ClutterNoticed /\ [Next]_vars => ClutterNoticed'
  BY ClutterNoticedStep
<1> QED
  BY <1>1, <1>2, <1>3, TypeCorrect, PTL DEF Spec
=============================================================================
