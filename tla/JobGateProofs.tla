---------------------------- MODULE JobGateProofs ----------------------------
(***************************************************************************)
(* Proofs about JobGate for every set of requests, tasks, accounts and     *)
(* projects, and for every limit, time and fault bound: nothing but the    *)
(* recorded paths leaves a slot or a project marker behind.                *)
(***************************************************************************)
EXTENDS JobGate, FiniteSetTheorems, TLAPS

(* Only master-writing jobs pass the project gate and get a marker, so the *)
(* jobs whose end does not release one have none.                          *)
GateShape ==
    /\ \A r \in Requests :
          rpc[r] \in {"proj", "projadd", "backout"} => IsMasterWrite(TaskOf[r])
    /\ \A t \in Tasks : mark[t] # Absent => IsMasterWrite(t)

(* Every variable of the gates keeps its type: in particular ages stop at  *)
(* StaleAge and no job starts more than MaxTries times.                    *)
THEOREM TypeCorrect == Spec => []TypeOK
<1> USE ConstantsAssumption DEF TypeOK, Phases, JobPhases, Ages, Absent
<1>1. Init => TypeOK
  BY DEF Init
<1>2. TypeOK /\ [Next]_vars => TypeOK'
  <2> SUFFICES ASSUME TypeOK, [Next]_vars PROVE TypeOK'
    OBVIOUS
  <2> USE DEF Answer, Fail, Disrupt, Unknown, Purge, Members, OfUser, OfProject, AfterSlot,
              SelectedQueues, JobTo, AfterRaise, Finish, Older
  <2>1. ASSUME NEW r \in Requests, Begin(r) PROVE TypeOK'
    BY <2>1 DEF Begin
  <2>2. ASSUME NEW r \in Requests, SlotCheck(r) PROVE TypeOK'
    BY <2>2 DEF SlotCheck
  <2>3. ASSUME NEW r \in Requests, SlotAdd(r) PROVE TypeOK'
    BY <2>3 DEF SlotAdd
  <2>4. ASSUME NEW r \in Requests, SlotError(r) PROVE TypeOK'
    BY <2>4 DEF SlotError
  <2>5. ASSUME NEW r \in Requests, ProjectCheck(r) PROVE TypeOK'
    BY <2>5 DEF ProjectCheck
  <2>6. ASSUME NEW r \in Requests, ProjectAdd(r) PROVE TypeOK'
    BY <2>6 DEF ProjectAdd
  <2>7. ASSUME NEW r \in Requests, ProjectError(r) PROVE TypeOK'
    BY <2>7 DEF ProjectError
  <2>8. ASSUME NEW r \in Requests, BackOut(r) PROVE TypeOK'
    BY <2>8 DEF BackOut
  <2>9. ASSUME NEW r \in Requests, BackOutError(r) PROVE TypeOK'
    BY <2>9 DEF BackOutError
  <2>10. ASSUME NEW r \in Requests, Enqueue(r) PROVE TypeOK'
    BY <2>10 DEF Enqueue
  <2>11. ASSUME NEW r \in Requests, EnqueueError(r) PROVE TypeOK'
    BY <2>11 DEF EnqueueError
  <2>12. ASSUME NEW r \in Requests, RequestDies(r) PROVE TypeOK'
    BY <2>12 DEF RequestDies
  <2>13. ASSUME NEW r \in Requests, Resubmit(r) PROVE TypeOK'
    BY <2>13 DEF Resubmit
  <2>14. ASSUME NEW t \in Tasks, StartJob(t) PROVE TypeOK'
    BY <2>14 DEF StartJob
  <2>15. ASSUME NEW t \in Tasks, EnterTry(t) PROVE TypeOK'
    BY <2>15 DEF EnterTry
  <2>16. ASSUME NEW t \in Tasks, PreludeRaises(t) PROVE TypeOK'
    BY <2>16 DEF PreludeRaises
  <2>17. ASSUME NEW t \in Tasks, DesignOverQuota(t) PROVE TypeOK'
    BY <2>17 DEF DesignOverQuota
  <2>18. ASSUME NEW t \in Tasks, BodyEnds(t) PROVE TypeOK'
    BY <2>18 DEF BodyEnds
  <2>19. ASSUME NEW t \in Tasks, ReleaseSlot(t) PROVE TypeOK'
    BY <2>19 DEF ReleaseSlot
  <2>20. ASSUME NEW t \in Tasks, ReleaseProject(t) PROVE TypeOK'
    BY <2>20 DEF ReleaseProject
  <2>21. ASSUME NEW t \in Tasks, ReleaseError(t) PROVE TypeOK'
    BY <2>21 DEF ReleaseError
  <2>22. ASSUME NEW t \in Tasks, WorkerCrash(t) PROVE TypeOK'
    BY <2>22 DEF WorkerCrash
  <2>23. ASSUME NEW p \in Projects, BusyQuery(p) PROVE TypeOK'
    BY <2>23 DEF BusyQuery
  <2>24. CASE FlushQueues
    BY <2>24 DEF FlushQueues
  <2>25. CASE Tick
    <3>0. \A age \in Ages : Older(age) \in Ages
      OBVIOUS
    <3>1. slot' \in [Tasks -> Ages]
      BY <3>0, <2>25 DEF Tick
    <3>2. mark' \in [Tasks -> Ages]
      BY <3>0, <2>25 DEF Tick
    <3> QED
      BY <2>25, <3>1, <3>2 DEF Tick
  <2>26. CASE UNCHANGED vars
    BY <2>26 DEF vars
  <2> QED
    BY <2>1, <2>2, <2>3, <2>4, <2>5, <2>6, <2>7, <2>8, <2>9, <2>10,
       <2>11, <2>12, <2>13, <2>14, <2>15, <2>16, <2>17, <2>18, <2>19,
       <2>20, <2>21, <2>22, <2>23, <2>24, <2>25, <2>26
       DEF Next, RequestStep, RequestFault, JobStep, JobFault
<1> QED
  BY <1>1, <1>2, PTL DEF Spec

-----------------------------------------------------------------------------
(* No step lets a job outside MASTER_WRITE_JOBS reach the project gate.    *)
LEMMA GateShapeStep ==
  ASSUME TypeOK, GateShape, [Next]_vars
  PROVE  GateShape'
<1> USE ConstantsAssumption DEF TypeOK, GateShape, Phases, JobPhases, Ages, Absent, Answer,
        Purge, OfProject, AfterSlot, Older
<1>1. ASSUME NEW r \in Requests, Begin(r) PROVE GateShape'
  BY <1>1 DEF Begin
<1>2. ASSUME NEW r \in Requests, SlotCheck(r) PROVE GateShape'
  BY <1>2 DEF SlotCheck
<1>3. ASSUME NEW r \in Requests, SlotAdd(r) PROVE GateShape'
  BY <1>3 DEF SlotAdd
<1>4. ASSUME NEW r \in Requests, SlotError(r) PROVE GateShape'
  BY <1>4 DEF SlotError
<1>5. ASSUME NEW r \in Requests, ProjectCheck(r) PROVE GateShape'
  BY <1>5 DEF ProjectCheck
<1>6. ASSUME NEW r \in Requests, ProjectAdd(r) PROVE GateShape'
  BY <1>6 DEF ProjectAdd
<1>7. ASSUME NEW r \in Requests, ProjectError(r) PROVE GateShape'
  BY <1>7 DEF ProjectError
<1>8. ASSUME NEW r \in Requests, BackOut(r) PROVE GateShape'
  BY <1>8 DEF BackOut
<1>9. ASSUME NEW r \in Requests, BackOutError(r) PROVE GateShape'
  BY <1>9 DEF BackOutError
<1>10. ASSUME NEW r \in Requests, Enqueue(r) PROVE GateShape'
  BY <1>10 DEF Enqueue
<1>11. ASSUME NEW r \in Requests, EnqueueError(r) PROVE GateShape'
  BY <1>11 DEF EnqueueError
<1>12. ASSUME NEW r \in Requests, RequestDies(r) PROVE GateShape'
  BY <1>12 DEF RequestDies
<1>13. ASSUME NEW r \in Requests, Resubmit(r) PROVE GateShape'
  BY <1>13 DEF Resubmit
<1>14. ASSUME NEW t \in Tasks, StartJob(t) PROVE GateShape'
  BY <1>14 DEF StartJob
<1>15. ASSUME NEW t \in Tasks, EnterTry(t) PROVE GateShape'
  BY <1>15 DEF EnterTry
<1>16. ASSUME NEW t \in Tasks, PreludeRaises(t) PROVE GateShape'
  BY <1>16 DEF PreludeRaises
<1>17. ASSUME NEW t \in Tasks, DesignOverQuota(t) PROVE GateShape'
  BY <1>17 DEF DesignOverQuota
<1>18. ASSUME NEW t \in Tasks, BodyEnds(t) PROVE GateShape'
  BY <1>18 DEF BodyEnds
<1>19. ASSUME NEW t \in Tasks, ReleaseSlot(t) PROVE GateShape'
  BY <1>19 DEF ReleaseSlot
<1>20. ASSUME NEW t \in Tasks, ReleaseProject(t) PROVE GateShape'
  BY <1>20 DEF ReleaseProject
<1>21. ASSUME NEW t \in Tasks, ReleaseError(t) PROVE GateShape'
  BY <1>21 DEF ReleaseError
<1>22. ASSUME NEW t \in Tasks, WorkerCrash(t) PROVE GateShape'
  BY <1>22 DEF WorkerCrash
<1>23. ASSUME NEW p \in Projects, BusyQuery(p) PROVE GateShape'
  BY <1>23 DEF BusyQuery
<1>24. CASE FlushQueues
  BY <1>24 DEF FlushQueues
<1>25. CASE Tick
  BY <1>25 DEF Tick
<1>26. CASE UNCHANGED vars
  BY <1>26 DEF vars
<1> QED
  BY <1>1, <1>2, <1>3, <1>4, <1>5, <1>6, <1>7, <1>8, <1>9, <1>10,
     <1>11, <1>12, <1>13, <1>14, <1>15, <1>16, <1>17, <1>18, <1>19,
     <1>20, <1>21, <1>22, <1>23, <1>24, <1>25, <1>26
     DEF Next, RequestStep, RequestFault, JobStep, JobFault

(* No request and no end of a job leaves an account slot behind, except on *)
(* the recorded paths.                                                     *)
LEMMA NoOrphanSlotStep ==
  ASSUME TypeOK, NoOrphanSlot, [Next]_vars
  PROVE  NoOrphanSlot'
<1> USE ConstantsAssumption DEF TypeOK, NoOrphanSlot, Admitting, Phases, JobPhases, Ages, Absent,
        Answer, Unknown, Purge, AfterSlot, Older, JobTo, AfterRaise, Finish
<1>1. ASSUME NEW r \in Requests, Begin(r) PROVE NoOrphanSlot'
  BY <1>1 DEF Begin
<1>2. ASSUME NEW r \in Requests, SlotCheck(r) PROVE NoOrphanSlot'
  BY <1>2 DEF SlotCheck
<1>3. ASSUME NEW r \in Requests, SlotAdd(r) PROVE NoOrphanSlot'
  BY <1>3 DEF SlotAdd
<1>4. ASSUME NEW r \in Requests, SlotError(r) PROVE NoOrphanSlot'
  BY <1>4 DEF SlotError
<1>5. ASSUME NEW r \in Requests, ProjectCheck(r) PROVE NoOrphanSlot'
  BY <1>5 DEF ProjectCheck
<1>6. ASSUME NEW r \in Requests, ProjectAdd(r) PROVE NoOrphanSlot'
  BY <1>6 DEF ProjectAdd
<1>7. ASSUME NEW r \in Requests, ProjectError(r) PROVE NoOrphanSlot'
  BY <1>7 DEF ProjectError
<1>8. ASSUME NEW r \in Requests, BackOut(r) PROVE NoOrphanSlot'
  BY <1>8 DEF BackOut
<1>9. ASSUME NEW r \in Requests, BackOutError(r) PROVE NoOrphanSlot'
  BY <1>9 DEF BackOutError
<1>10. ASSUME NEW r \in Requests, Enqueue(r) PROVE NoOrphanSlot'
  BY <1>10 DEF Enqueue
<1>11. ASSUME NEW r \in Requests, EnqueueError(r) PROVE NoOrphanSlot'
  BY <1>11 DEF EnqueueError
<1>12. ASSUME NEW r \in Requests, RequestDies(r) PROVE NoOrphanSlot'
  BY <1>12 DEF RequestDies
<1>13. ASSUME NEW r \in Requests, Resubmit(r) PROVE NoOrphanSlot'
  BY <1>13 DEF Resubmit
<1>14. ASSUME NEW t \in Tasks, StartJob(t) PROVE NoOrphanSlot'
  BY <1>14 DEF StartJob
<1>15. ASSUME NEW t \in Tasks, EnterTry(t) PROVE NoOrphanSlot'
  BY <1>15 DEF EnterTry
<1>16. ASSUME NEW t \in Tasks, PreludeRaises(t) PROVE NoOrphanSlot'
  BY <1>16 DEF PreludeRaises
<1>17. ASSUME NEW t \in Tasks, DesignOverQuota(t) PROVE NoOrphanSlot'
  BY <1>17 DEF DesignOverQuota
<1>18. ASSUME NEW t \in Tasks, BodyEnds(t) PROVE NoOrphanSlot'
  BY <1>18 DEF BodyEnds
<1>19. ASSUME NEW t \in Tasks, ReleaseSlot(t) PROVE NoOrphanSlot'
  BY <1>19 DEF ReleaseSlot
<1>20. ASSUME NEW t \in Tasks, ReleaseProject(t) PROVE NoOrphanSlot'
  BY <1>20 DEF ReleaseProject
<1>21. ASSUME NEW t \in Tasks, ReleaseError(t) PROVE NoOrphanSlot'
  BY <1>21 DEF ReleaseError
<1>22. ASSUME NEW t \in Tasks, WorkerCrash(t) PROVE NoOrphanSlot'
  BY <1>22 DEF WorkerCrash
<1>23. ASSUME NEW p \in Projects, BusyQuery(p) PROVE NoOrphanSlot'
  BY <1>23 DEF BusyQuery
<1>24. CASE FlushQueues
  BY <1>24 DEF FlushQueues
<1>25. CASE Tick
  BY <1>25 DEF Tick
<1>26. CASE UNCHANGED vars
  BY <1>26 DEF vars
<1> QED
  BY <1>1, <1>2, <1>3, <1>4, <1>5, <1>6, <1>7, <1>8, <1>9, <1>10,
     <1>11, <1>12, <1>13, <1>14, <1>15, <1>16, <1>17, <1>18, <1>19,
     <1>20, <1>21, <1>22, <1>23, <1>24, <1>25, <1>26
     DEF Next, RequestStep, RequestFault, JobStep, JobFault

(* The same for the project markers.                                       *)
LEMMA NoOrphanMarkStep ==
  ASSUME TypeOK, GateShape, NoOrphanMark, [Next]_vars
  PROVE  NoOrphanMark'
<1> USE ConstantsAssumption DEF TypeOK, GateShape, NoOrphanMark, Admitting, Active, Phases, JobPhases,
        Ages, Absent, Answer, Unknown, Purge, Older, JobTo, AfterRaise, Finish
<1>1. ASSUME NEW r \in Requests, Begin(r) PROVE NoOrphanMark'
  BY <1>1 DEF Begin
<1>2. ASSUME NEW r \in Requests, SlotCheck(r) PROVE NoOrphanMark'
  BY <1>2 DEF SlotCheck
<1>3. ASSUME NEW r \in Requests, SlotAdd(r) PROVE NoOrphanMark'
  BY <1>3 DEF SlotAdd
<1>4. ASSUME NEW r \in Requests, SlotError(r) PROVE NoOrphanMark'
  BY <1>4 DEF SlotError
<1>5. ASSUME NEW r \in Requests, ProjectCheck(r) PROVE NoOrphanMark'
  BY <1>5 DEF ProjectCheck
<1>6. ASSUME NEW r \in Requests, ProjectAdd(r) PROVE NoOrphanMark'
  BY <1>6 DEF ProjectAdd
<1>7. ASSUME NEW r \in Requests, ProjectError(r) PROVE NoOrphanMark'
  BY <1>7 DEF ProjectError
<1>8. ASSUME NEW r \in Requests, BackOut(r) PROVE NoOrphanMark'
  BY <1>8 DEF BackOut
<1>9. ASSUME NEW r \in Requests, BackOutError(r) PROVE NoOrphanMark'
  BY <1>9 DEF BackOutError
<1>10. ASSUME NEW r \in Requests, Enqueue(r) PROVE NoOrphanMark'
  BY <1>10 DEF Enqueue
<1>11. ASSUME NEW r \in Requests, EnqueueError(r) PROVE NoOrphanMark'
  BY <1>11 DEF EnqueueError
<1>12. ASSUME NEW r \in Requests, RequestDies(r) PROVE NoOrphanMark'
  BY <1>12 DEF RequestDies
<1>13. ASSUME NEW r \in Requests, Resubmit(r) PROVE NoOrphanMark'
  BY <1>13 DEF Resubmit
<1>14. ASSUME NEW t \in Tasks, StartJob(t) PROVE NoOrphanMark'
  BY <1>14 DEF StartJob
<1>15. ASSUME NEW t \in Tasks, EnterTry(t) PROVE NoOrphanMark'
  BY <1>15 DEF EnterTry
<1>16. ASSUME NEW t \in Tasks, PreludeRaises(t) PROVE NoOrphanMark'
  BY <1>16 DEF PreludeRaises
<1>17. ASSUME NEW t \in Tasks, DesignOverQuota(t) PROVE NoOrphanMark'
  BY <1>17 DEF DesignOverQuota
<1>18. ASSUME NEW t \in Tasks, BodyEnds(t) PROVE NoOrphanMark'
  BY <1>18 DEF BodyEnds
<1>19. ASSUME NEW t \in Tasks, ReleaseSlot(t) PROVE NoOrphanMark'
  BY <1>19 DEF ReleaseSlot
<1>20. ASSUME NEW t \in Tasks, ReleaseProject(t) PROVE NoOrphanMark'
  BY <1>20 DEF ReleaseProject
<1>21. ASSUME NEW t \in Tasks, ReleaseError(t) PROVE NoOrphanMark'
  BY <1>21 DEF ReleaseError
<1>22. ASSUME NEW t \in Tasks, WorkerCrash(t) PROVE NoOrphanMark'
  BY <1>22 DEF WorkerCrash
<1>23. ASSUME NEW p \in Projects, BusyQuery(p) PROVE NoOrphanMark'
  BY <1>23 DEF BusyQuery
<1>24. CASE FlushQueues
  BY <1>24 DEF FlushQueues
<1>25. CASE Tick
  BY <1>25 DEF Tick
<1>26. CASE UNCHANGED vars
  BY <1>26 DEF vars
<1> QED
  BY <1>1, <1>2, <1>3, <1>4, <1>5, <1>6, <1>7, <1>8, <1>9, <1>10,
     <1>11, <1>12, <1>13, <1>14, <1>15, <1>16, <1>17, <1>18, <1>19,
     <1>20, <1>21, <1>22, <1>23, <1>24, <1>25, <1>26
     DEF Next, RequestStep, RequestFault, JobStep, JobFault

(* A slot in Redis always has an owner that will give it back: a request   *)
(* that is being admitted or a job that has not reached its release.  A    *)
(* 429, a 409, a duplicate, a retry and every end of a job return what     *)
(* they took; only the paths that leaky records do not.                    *)
THEOREM SlotsHaveOwners == Spec => []NoOrphanSlot
<1>1. Init => NoOrphanSlot
  BY DEF Init, NoOrphanSlot
<1>2. TypeOK /\ NoOrphanSlot /\ [Next]_vars => NoOrphanSlot'
  BY NoOrphanSlotStep
<1> QED
  BY <1>1, <1>2, TypeCorrect, PTL DEF Spec

(* The same for the marker that makes a project busy.                      *)
THEOREM MarksHaveOwners == Spec => []NoOrphanMark
<1>1. Init => GateShape /\ NoOrphanMark
  BY DEF Init, GateShape, NoOrphanMark
<1>2. TypeOK /\ GateShape /\ [Next]_vars => GateShape'
  BY GateShapeStep
<1>3. TypeOK /\ GateShape /\ NoOrphanMark /\ [Next]_vars => NoOrphanMark'
  BY NoOrphanMarkStep
<1> QED
  BY <1>1, <1>2, <1>3, TypeCorrect, PTL DEF Spec

-----------------------------------------------------------------------------
(* One request at a time between its check and its ZADD, jobs that run     *)
(* once and end before their marker is stale, a Redis that answers.        *)
CalmGate ==
    /\ ApiWindow = 1 /\ IsFiniteSet(Requests)
    /\ MaxErrors = 0 /\ MaxTries = 1
    /\ JobSpan < StaleAge /\ 1 < StaleAge

(* Why the project gate then works: a project has one marker, a request    *)
(* about to add one has seen no other, and a job that still counts, or is  *)
(* about to be queued, has a marker too young to be purged.                *)
Marked(t) == mark[t] # Absent
Young(t)  == Marked(t) /\ mark[t] < StaleAge

GateInv ==
    /\ \A r1, r2 \in Window : r1 = r2
    /\ \A t1, t2 \in Tasks :
          ProjectOf[t1] = ProjectOf[t2] /\ Marked(t1) /\ Marked(t2) => t1 = t2
    /\ \A r \in Requests, t \in Tasks :
          rpc[r] = "projadd" /\ ProjectOf[t] = ProjectOf[TaskOf[r]] /\ Marked(t)
              => t = TaskOf[r]
    /\ \A t \in Tasks : IsMasterWrite(t) /\ Unreleased(t) => Young(t)
    /\ \A r \in Requests :
          rpc[r] = "enq" /\ IsMasterWrite(TaskOf[r]) /\ Unknown(TaskOf[r])
              => Young(TaskOf[r])
    /\ \A t \in Tasks :
          job[t] \in {"prelude", "body", "relslot", "relproj"} => attempt[t] = 1

(* No step breaks it.                                                      *)
LEMMA GateInvStep ==
  ASSUME CalmGate, TypeOK, GateShape, GateInv, [Next]_vars
  PROVE  GateInv'
<1>0. Cardinality(Window) < 1 => Window = {}
  <2>1. Window \subseteq Requests
    BY DEF Window
  <2>2. IsFiniteSet(Window)
    BY <2>1, FS_Subset DEF CalmGate
  <2> QED
    BY <2>2, FS_EmptySet, FS_CardinalityType
<1> USE <1>0, ConstantsAssumption DEF CalmGate, TypeOK, GateShape, GateInv, Window, Marked, Young,
        Unreleased, Admitting, Active, Phases, JobPhases, Ages, Absent, Answer, Fail, Unknown, Purge, OfProject,
        AfterSlot, Older, JobTo, AfterRaise, Finish
<1>1. ASSUME NEW r \in Requests, Begin(r) PROVE GateInv'
  BY <1>1 DEF Begin
<1>2. ASSUME NEW r \in Requests, SlotCheck(r) PROVE GateInv'
  BY <1>2 DEF SlotCheck
<1>3. ASSUME NEW r \in Requests, SlotAdd(r) PROVE GateInv'
  BY <1>3 DEF SlotAdd
<1>4. ASSUME NEW r \in Requests, SlotError(r) PROVE GateInv'
  BY <1>4 DEF SlotError
<1>5. ASSUME NEW r \in Requests, ProjectCheck(r) PROVE GateInv'
  <2> DEFINE S == OfProject(ProjectOf[TaskOf[r]])
  <2>1. Window = {} /\ rpc[r] = "proj"
    BY <1>5 DEF ProjectCheck
  <2>2. /\ mark' = Purge(mark, S)
        /\ rpc' = [rpc EXCEPT ![r] =
              IF Members(Purge(mark, S), S) # {} /\ Purge(mark, S)[TaskOf[r]] = Absent
              THEN "backout" ELSE "projadd"]
        /\ UNCHANGED <<job, attempt>>
    BY <1>5 DEF ProjectCheck
  <2>3. \A t \in Tasks : Marked(t)' => Marked(t) /\ mark'[t] = mark[t]
    BY <2>2
  <2>4. \A t \in Tasks : Young(t) => Young(t)'
    BY <2>2
  <2>5. \A r1, r2 \in Window' : r1 = r2
    BY <2>1, <2>2
  <2>6. ASSUME NEW q \in Requests, NEW t \in Tasks, rpc'[q] = "projadd",
               ProjectOf[t] = ProjectOf[TaskOf[q]], Marked(t)'
        PROVE  t = TaskOf[q]
    <3>1. q = r /\ TaskOf[r] \in Tasks
      BY <2>1, <2>2, <2>6
    <3>2. t \in Members(mark', S)
      BY <2>6, <3>1 DEF Members
    <3>3. Marked(TaskOf[r])'
      BY <2>2, <2>6, <3>1, <3>2
    <3> QED
      BY <2>3, <2>6, <3>1, <3>3
  <2>7. \A q \in Requests : rpc'[q] = "enq" => rpc[q] = "enq"
    BY <2>2
  <2>8. \A t \in Tasks : IsMasterWrite(t) /\ Unreleased(t)' => Young(t)'
    BY <2>2, <2>4
  <2>9. \A t1, t2 \in Tasks :
           ProjectOf[t1] = ProjectOf[t2] /\ Marked(t1)' /\ Marked(t2)' => t1 = t2
    BY <2>3
  <2>10. \A q \in Requests :
           rpc'[q] = "enq" /\ IsMasterWrite(TaskOf[q]) /\ Unknown(TaskOf[q])'
               => Young(TaskOf[q])'
    BY <2>2, <2>4, <2>7
  <2> HIDE DEF Window, Marked, Young, Unreleased
  <2> QED
    BY <2>2, <2>5, <2>6, <2>8, <2>9, <2>10
<1>6. ASSUME NEW r \in Requests, ProjectAdd(r) PROVE GateInv'
  BY <1>6 DEF ProjectAdd
<1>7. ASSUME NEW r \in Requests, ProjectError(r) PROVE GateInv'
  BY <1>7 DEF ProjectError
<1>8. ASSUME NEW r \in Requests, BackOut(r) PROVE GateInv'
  BY <1>8 DEF BackOut
<1>9. ASSUME NEW r \in Requests, BackOutError(r) PROVE GateInv'
  BY <1>9 DEF BackOutError
<1>10. ASSUME NEW r \in Requests, Enqueue(r) PROVE GateInv'
  BY <1>10 DEF Enqueue
<1>11. ASSUME NEW r \in Requests, EnqueueError(r) PROVE GateInv'
  BY <1>11 DEF EnqueueError
<1>12. ASSUME NEW r \in Requests, RequestDies(r) PROVE GateInv'
  BY <1>12 DEF RequestDies
<1>13. ASSUME NEW r \in Requests, Resubmit(r) PROVE GateInv'
  BY <1>13 DEF Resubmit
<1>14. ASSUME NEW t \in Tasks, StartJob(t) PROVE GateInv'
  BY <1>14 DEF StartJob
<1>15. ASSUME NEW t \in Tasks, EnterTry(t) PROVE GateInv'
  BY <1>15 DEF EnterTry
<1>16. ASSUME NEW t \in Tasks, PreludeRaises(t) PROVE GateInv'
  BY <1>16 DEF PreludeRaises
<1>17. ASSUME NEW t \in Tasks, DesignOverQuota(t) PROVE GateInv'
  BY <1>17 DEF DesignOverQuota
<1>18. ASSUME NEW t \in Tasks, BodyEnds(t) PROVE GateInv'
  BY <1>18 DEF BodyEnds
<1>19. ASSUME NEW t \in Tasks, ReleaseSlot(t) PROVE GateInv'
  BY <1>19 DEF ReleaseSlot
<1>20. ASSUME NEW t \in Tasks, ReleaseProject(t) PROVE GateInv'
  BY <1>20 DEF ReleaseProject
<1>21. ASSUME NEW t \in Tasks, ReleaseError(t) PROVE GateInv'
  BY <1>21 DEF ReleaseError
<1>22. ASSUME NEW t \in Tasks, WorkerCrash(t) PROVE GateInv'
  BY <1>22 DEF WorkerCrash
<1>23. ASSUME NEW p \in Projects, BusyQuery(p) PROVE GateInv'
  BY <1>23 DEF BusyQuery
<1>24. CASE FlushQueues
  BY <1>24 DEF FlushQueues
<1>25. CASE Tick
  BY <1>25 DEF Tick
<1>26. CASE UNCHANGED vars
  BY <1>26 DEF vars
<1> QED
  BY <1>1, <1>2, <1>3, <1>4, <1>5, <1>6, <1>7, <1>8, <1>9, <1>10,
     <1>11, <1>12, <1>13, <1>14, <1>15, <1>16, <1>17, <1>18, <1>19,
     <1>20, <1>21, <1>22, <1>23, <1>24, <1>25, <1>26
     DEF Next, RequestStep, RequestFault, JobStep, JobFault

(* A project never has two master-writing jobs waiting or running, under   *)
(* the conditions of CalmGate, whatever the workers and the API do.        *)
THEOREM ProjectGateIsExclusive ==
  ASSUME CalmGate
  PROVE  Spec => []ProjectExclusive
<1>1. Init => GateShape /\ GateInv
  BY DEF Init, GateShape, GateInv, Window, Marked, Unreleased
<1>2. TypeOK /\ GateShape /\ [Next]_vars => GateShape'
  BY GateShapeStep
<1>3. TypeOK /\ GateShape /\ GateInv /\ [Next]_vars => GateInv'
  BY GateInvStep
<1>4. GateInv => ProjectExclusive
  BY DEF GateInv, ProjectExclusive, Young
<1> QED
  BY <1>1, <1>2, <1>3, <1>4, TypeCorrect, PTL DEF Spec

-----------------------------------------------------------------------------
(* The account gate, under the same conditions.                            *)

(* Nothing is submitted twice: a second request for a task could give back *)
(* the slot of the first one on its 409, and the job would run uncounted.  *)
OneRequestPerTask ==
    /\ IsFiniteSet(Tasks)
    /\ \A r, q \in Requests : TaskOf[r] = TaskOf[q] => r = q

Slotted(t) == slot[t] # Absent
SlotYoung(t) == Slotted(t) /\ slot[t] < StaleAge

(* The slots of an account, with the one a request is about to add.        *)
CountInv ==
    /\ \A u \in Users : Cardinality(Members(slot, OfUser(u))) <= Limit
    /\ \A r \in Requests : rpc[r] = "slotadd" =>
          Cardinality(Members(slot, OfUser(OwnerOf[TaskOf[r]])) \cup {TaskOf[r]}) <= Limit

(* A heavy job that is waiting or running, or about to be queued, has a    *)
(* slot too young to be purged; before its request is accepted no job is   *)
(* there that could give it back.                                          *)
HoldInv ==
    /\ \A t \in Tasks : IsHeavy(t) /\ Unreleased(t) => SlotYoung(t)
    /\ \A r \in Requests :
          rpc[r] \in {"proj", "projadd", "enq"} /\ IsHeavy(TaskOf[r]) => SlotYoung(TaskOf[r])
    /\ \A r \in Requests : rpc[r] # "accepted" => job[TaskOf[r]] = "none"

LEMMA HoldInvStep ==
  ASSUME CalmGate, OneRequestPerTask, TypeOK, GateInv, HoldInv, [Next]_vars
  PROVE  HoldInv'
<1> USE ConstantsAssumption DEF CalmGate, OneRequestPerTask, TypeOK, GateInv, HoldInv, Slotted,
        SlotYoung, Unreleased, Admitting, Active, Phases, JobPhases, Ages, Absent, Answer, Fail,
        Unknown, Purge, OfUser, AfterSlot, Older, JobTo, AfterRaise, Finish
<1>1. ASSUME NEW r \in Requests, Begin(r) PROVE HoldInv'
  BY <1>1 DEF Begin
<1>2. ASSUME NEW r \in Requests, SlotCheck(r) PROVE HoldInv'
  BY <1>2 DEF SlotCheck
<1>3. ASSUME NEW r \in Requests, SlotAdd(r) PROVE HoldInv'
  BY <1>3 DEF SlotAdd
<1>4. ASSUME NEW r \in Requests, SlotError(r) PROVE HoldInv'
  BY <1>4 DEF SlotError
<1>5. ASSUME NEW r \in Requests, ProjectCheck(r) PROVE HoldInv'
  BY <1>5 DEF ProjectCheck
<1>6. ASSUME NEW r \in Requests, ProjectAdd(r) PROVE HoldInv'
  BY <1>6 DEF ProjectAdd
<1>7. ASSUME NEW r \in Requests, ProjectError(r) PROVE HoldInv'
  BY <1>7 DEF ProjectError
<1>8. ASSUME NEW r \in Requests, BackOut(r) PROVE HoldInv'
  BY <1>8 DEF BackOut
<1>9. ASSUME NEW r \in Requests, BackOutError(r) PROVE HoldInv'
  BY <1>9 DEF BackOutError
<1>10. ASSUME NEW r \in Requests, Enqueue(r) PROVE HoldInv'
  BY <1>10 DEF Enqueue
<1>11. ASSUME NEW r \in Requests, EnqueueError(r) PROVE HoldInv'
  BY <1>11 DEF EnqueueError
<1>12. ASSUME NEW r \in Requests, RequestDies(r) PROVE HoldInv'
  BY <1>12 DEF RequestDies, Ended
<1>13. ASSUME NEW r \in Requests, Resubmit(r) PROVE HoldInv'
  BY <1>13 DEF Resubmit
<1>14. ASSUME NEW t \in Tasks, StartJob(t) PROVE HoldInv'
  BY <1>14 DEF StartJob
<1>15. ASSUME NEW t \in Tasks, EnterTry(t) PROVE HoldInv'
  BY <1>15 DEF EnterTry
<1>16. ASSUME NEW t \in Tasks, PreludeRaises(t) PROVE HoldInv'
  BY <1>16 DEF PreludeRaises
<1>17. ASSUME NEW t \in Tasks, DesignOverQuota(t) PROVE HoldInv'
  BY <1>17 DEF DesignOverQuota
<1>18. ASSUME NEW t \in Tasks, BodyEnds(t) PROVE HoldInv'
  BY <1>18 DEF BodyEnds
<1>19. ASSUME NEW t \in Tasks, ReleaseSlot(t) PROVE HoldInv'
  BY <1>19 DEF ReleaseSlot
<1>20. ASSUME NEW t \in Tasks, ReleaseProject(t) PROVE HoldInv'
  BY <1>20 DEF ReleaseProject
<1>21. ASSUME NEW t \in Tasks, ReleaseError(t) PROVE HoldInv'
  BY <1>21 DEF ReleaseError
<1>22. ASSUME NEW t \in Tasks, WorkerCrash(t) PROVE HoldInv'
  BY <1>22 DEF WorkerCrash
<1>23. ASSUME NEW p \in Projects, BusyQuery(p) PROVE HoldInv'
  BY <1>23 DEF BusyQuery
<1>24. CASE FlushQueues
  BY <1>24 DEF FlushQueues
<1>25. CASE Tick
  BY <1>25 DEF Tick
<1>26. CASE UNCHANGED vars
  BY <1>26 DEF vars
<1> QED
  BY <1>1, <1>2, <1>3, <1>4, <1>5, <1>6, <1>7, <1>8, <1>9, <1>10,
     <1>11, <1>12, <1>13, <1>14, <1>15, <1>16, <1>17, <1>18, <1>19, <1>20,
     <1>21, <1>22, <1>23, <1>24, <1>25, <1>26
     DEF Next, RequestStep, RequestFault, JobStep, JobFault

(* Steps that add no slot and let nobody pass the check.                   *)
Shrinks ==
    /\ \A t \in Tasks : Slotted(t)' => Slotted(t)
    /\ \A r \in Requests : rpc'[r] = "slotadd" => rpc[r] = "slotadd"

(* Sets of tasks: smaller sets count less, one more task counts one more.  *)
LEMMA TaskCounts ==
  ASSUME IsFiniteSet(Tasks)
  PROVE  /\ \A A, B \in SUBSET Tasks : A \subseteq B => Cardinality(A) <= Cardinality(B)
         /\ \A A \in SUBSET Tasks, t \in Tasks : Cardinality(A \cup {t}) <= Cardinality(A) + 1
         /\ \A A \in SUBSET Tasks : Cardinality(A) \in Nat
<1>1. \A A \in SUBSET Tasks : IsFiniteSet(A) /\ Cardinality(A) \in Nat
  BY FS_Subset, FS_CardinalityType
<1>2. \A A, B \in SUBSET Tasks : A \subseteq B => Cardinality(A) <= Cardinality(B)
  BY <1>1, FS_Subset
<1>3. ASSUME NEW A \in SUBSET Tasks, NEW t \in Tasks
      PROVE  Cardinality(A \cup {t}) <= Cardinality(A) + 1
  <2>1. CASE t \in A
    <3>1. A \cup {t} = A
      BY <2>1
    <3> QED
      BY <1>1, <3>1
  <2>2. CASE t \notin A
    BY <1>1, <2>2, FS_AddElement
  <2> QED
    BY <2>1, <2>2
<1> QED
  BY <1>1, <1>2, <1>3

LEMMA ShrinkKeepsCount ==
  ASSUME IsFiniteSet(Tasks), TypeOK, CountInv, Shrinks, TypeOK'
  PROVE  CountInv'
<1>1. \A u \in Users : Members(slot', OfUser(u)) \subseteq Members(slot, OfUser(u))
  BY DEF Members, OfUser, Shrinks, Slotted
<1>2. \A u \in Users : Members(slot, OfUser(u)) \subseteq Tasks
  BY DEF Members, OfUser
<1>3. ASSUME NEW u \in Users PROVE Cardinality(Members(slot', OfUser(u))) <= Limit
  <2> DEFINE A == Members(slot', OfUser(u))
             B == Members(slot, OfUser(u))
  <2>1. A \in SUBSET Tasks /\ B \in SUBSET Tasks /\ A \subseteq B /\ Cardinality(B) <= Limit
    BY <1>1, <1>2 DEF CountInv
  <2> HIDE DEF A, B
  <2>2. Cardinality(A) <= Cardinality(B) /\ Cardinality(A) \in Nat /\ Cardinality(B) \in Nat
    BY <2>1, TaskCounts
  <2>3. Cardinality(A) <= Limit
    BY <2>1, <2>2, ConstantsAssumption
  <2> QED
    BY <2>3 DEF A
<1>4. ASSUME NEW r \in Requests, rpc'[r] = "slotadd"
      PROVE  Cardinality(Members(slot', OfUser(OwnerOf[TaskOf[r]])) \cup {TaskOf[r]}) <= Limit
  <2> DEFINE A == Members(slot', OfUser(OwnerOf[TaskOf[r]])) \cup {TaskOf[r]}
             B == Members(slot, OfUser(OwnerOf[TaskOf[r]])) \cup {TaskOf[r]}
  <2>0. TaskOf[r] \in Tasks /\ OwnerOf[TaskOf[r]] \in Users
    BY ConstantsAssumption
  <2>1. A \in SUBSET Tasks /\ B \in SUBSET Tasks /\ A \subseteq B
    BY <1>1, <1>2, <2>0
  <2>2. Cardinality(B) <= Limit
    BY <1>4 DEF CountInv, Shrinks
  <2> HIDE DEF A, B
  <2>3. Cardinality(A) <= Cardinality(B) /\ Cardinality(A) \in Nat /\ Cardinality(B) \in Nat
    BY <2>1, TaskCounts
  <2>4. Cardinality(A) <= Limit
    BY <2>2, <2>3, ConstantsAssumption
  <2> QED
    BY <2>4 DEF A
<1> QED
  BY <1>3, <1>4 DEF CountInv

LEMMA OthersShrink ==
  ASSUME CalmGate, TypeOK, [Next]_vars,
         ~ \E r \in Requests : SlotCheck(r) \/ SlotAdd(r)
  PROVE  Shrinks
<1> USE ConstantsAssumption DEF CalmGate, TypeOK, Shrinks, Slotted, Phases, JobPhases, Ages, Absent,
        Answer, Fail, Purge, AfterSlot, Older, JobTo, AfterRaise, Finish
<1>1. ASSUME NEW r \in Requests, Begin(r) PROVE Shrinks
  BY <1>1 DEF Begin
<1>2. ASSUME NEW r \in Requests, SlotError(r) PROVE Shrinks
  BY <1>2 DEF SlotError
<1>3. ASSUME NEW r \in Requests, ProjectCheck(r) PROVE Shrinks
  BY <1>3 DEF ProjectCheck
<1>4. ASSUME NEW r \in Requests, ProjectAdd(r) PROVE Shrinks
  BY <1>4 DEF ProjectAdd
<1>5. ASSUME NEW r \in Requests, ProjectError(r) PROVE Shrinks
  BY <1>5 DEF ProjectError
<1>6. ASSUME NEW r \in Requests, BackOut(r) PROVE Shrinks
  BY <1>6 DEF BackOut
<1>7. ASSUME NEW r \in Requests, BackOutError(r) PROVE Shrinks
  BY <1>7 DEF BackOutError
<1>8. ASSUME NEW r \in Requests, Enqueue(r) PROVE Shrinks
  BY <1>8 DEF Enqueue
<1>9. ASSUME NEW r \in Requests, EnqueueError(r) PROVE Shrinks
  BY <1>9 DEF EnqueueError
<1>10. ASSUME NEW r \in Requests, RequestDies(r) PROVE Shrinks
  BY <1>10 DEF RequestDies
<1>11. ASSUME NEW r \in Requests, Resubmit(r) PROVE Shrinks
  BY <1>11 DEF Resubmit
<1>12. ASSUME NEW t \in Tasks, StartJob(t) PROVE Shrinks
  BY <1>12 DEF StartJob
<1>13. ASSUME NEW t \in Tasks, EnterTry(t) PROVE Shrinks
  BY <1>13 DEF EnterTry
<1>14. ASSUME NEW t \in Tasks, PreludeRaises(t) PROVE Shrinks
  BY <1>14 DEF PreludeRaises
<1>15. ASSUME NEW t \in Tasks, DesignOverQuota(t) PROVE Shrinks
  BY <1>15 DEF DesignOverQuota
<1>16. ASSUME NEW t \in Tasks, BodyEnds(t) PROVE Shrinks
  BY <1>16 DEF BodyEnds
<1>17. ASSUME NEW t \in Tasks, ReleaseSlot(t) PROVE Shrinks
  BY <1>17 DEF ReleaseSlot
<1>18. ASSUME NEW t \in Tasks, ReleaseProject(t) PROVE Shrinks
  BY <1>18 DEF ReleaseProject
<1>19. ASSUME NEW t \in Tasks, ReleaseError(t) PROVE Shrinks
  BY <1>19 DEF ReleaseError
<1>20. ASSUME NEW t \in Tasks, WorkerCrash(t) PROVE Shrinks
  BY <1>20 DEF WorkerCrash
<1>21. ASSUME NEW p \in Projects, BusyQuery(p) PROVE Shrinks
  BY <1>21 DEF BusyQuery
<1>22. CASE FlushQueues
  BY <1>22 DEF FlushQueues
<1>23. CASE Tick
  BY <1>23 DEF Tick
<1>24. CASE UNCHANGED vars
  BY <1>24 DEF vars
<1> QED
  BY <1>1, <1>2, <1>3, <1>4, <1>5, <1>6, <1>7, <1>8, <1>9, <1>10,
     <1>11, <1>12, <1>13, <1>14, <1>15, <1>16, <1>17, <1>18, <1>19, <1>20,
     <1>21, <1>22, <1>23, <1>24
     DEF Next, RequestStep, RequestFault, JobStep, JobFault

LEMMA CountInvStep ==
  ASSUME CalmGate, OneRequestPerTask, TypeOK, GateInv, CountInv, [Next]_vars, TypeOK', GateInv'
  PROVE  CountInv'
<1>0. IsFiniteSet(Tasks)
  BY DEF OneRequestPerTask
<1>1. ASSUME NEW r \in Requests, SlotCheck(r) PROVE CountInv'
  <2> DEFINE t == TaskOf[r]
             S == OfUser(OwnerOf[t])
             kept == Purge(slot, S)
             full == Cardinality(Members(kept, S)) >= Limit /\ kept[t] = Absent
  <2>1. /\ slot' = kept
        /\ rpc' = [rpc EXCEPT ![r] = IF full THEN "limited" ELSE "slotadd"]
    BY <1>1 DEF SlotCheck, Answer
  <2>2. t \in Tasks /\ t \in S /\ S \subseteq Tasks /\ OwnerOf[t] \in Users
    BY ConstantsAssumption DEF OfUser
  <2>3. \A x \in Tasks : Slotted(x)' => Slotted(x)
    BY <2>1 DEF Purge, Slotted, Absent
  <2>4. CASE full
    <3>1. Shrinks
      BY <2>1, <2>3, <2>4 DEF Shrinks, TypeOK
    <3> QED
      BY <1>0, <3>1, ShrinkKeepsCount
  <2>5. CASE ~ full
    <3>1. ASSUME NEW u \in Users PROVE Cardinality(Members(slot', OfUser(u))) <= Limit
      <4> DEFINE A == Members(slot', OfUser(u))
                 B == Members(slot, OfUser(u))
      <4>1. A \in SUBSET Tasks /\ B \in SUBSET Tasks /\ A \subseteq B /\ Cardinality(B) <= Limit
        BY <2>3 DEF Members, OfUser, Slotted, CountInv
      <4> HIDE DEF A, B
      <4>2. Cardinality(A) <= Cardinality(B) /\ Cardinality(A) \in Nat /\ Cardinality(B) \in Nat
        BY <1>0, <4>1, TaskCounts
      <4>3. Cardinality(A) <= Limit
        BY <4>1, <4>2, ConstantsAssumption
      <4> QED
        BY <4>3 DEF A
    <3>2. Cardinality(Members(slot', S) \cup {t}) <= Limit
      <4> DEFINE M == Members(slot', S)
      <4>1. M \in SUBSET Tasks
        BY <2>2 DEF Members
      <4>2. Cardinality(M) <= Limit /\ Cardinality(M) \in Nat
        BY <1>0, <2>2, <3>1, <4>1, TaskCounts
      <4>3. CASE kept[t] # Absent
        <5>1. M \cup {t} = M
          BY <2>1, <2>2, <4>3 DEF Members
        <5> QED
          BY <4>2, <5>1
      <4>4. CASE kept[t] = Absent
        <5>1. ~ (Cardinality(M) >= Limit)
          BY <2>1, <2>5, <4>4
        <5> HIDE DEF M, t
        <5>2. Cardinality(M \cup {t}) <= Cardinality(M) + 1 /\ Cardinality(M \cup {t}) \in Nat
          <6>1. M \cup {t} \in SUBSET Tasks
            BY <2>2, <4>1
          <6> QED
            BY <1>0, <2>2, <4>1, <6>1, TaskCounts
        <5>3. Cardinality(M \cup {t}) <= Limit
          BY <4>2, <5>1, <5>2, ConstantsAssumption
        <5> QED
          BY <5>3 DEF M
      <4> QED
        BY <4>3, <4>4
    <3>3. ASSUME NEW q \in Requests, rpc'[q] = "slotadd" PROVE q = r
      <4>1. r \in Window' /\ q \in Window'
        BY <2>1, <2>5, <3>3 DEF Window, TypeOK
      <4> QED
        BY <4>1 DEF GateInv
    <3> QED
      BY <3>1, <3>2, <3>3 DEF CountInv
  <2> QED
    BY <2>4, <2>5
<1>2. ASSUME NEW r \in Requests, SlotAdd(r) PROVE CountInv'
  <2> DEFINE t == TaskOf[r]
  <2>1. /\ slot' = [slot EXCEPT ![t] = 0] /\ rpc[r] = "slotadd"
        /\ rpc' = [rpc EXCEPT ![r] = AfterSlot(t)]
    BY <1>2 DEF SlotAdd, Answer
  <2>2. t \in Tasks /\ OwnerOf[t] \in Users
    BY ConstantsAssumption
  <2>3. ASSUME NEW u \in Users PROVE Cardinality(Members(slot', OfUser(u))) <= Limit
    <3>1. CASE u = OwnerOf[t]
      <4>1. Members(slot', OfUser(u)) = Members(slot, OfUser(u)) \cup {t}
        BY <2>1, <2>2, <3>1 DEF Members, OfUser, TypeOK, Absent
      <4> QED
        BY <2>1, <3>1, <4>1 DEF CountInv
    <3>2. CASE u # OwnerOf[t]
      <4>1. Members(slot', OfUser(u)) = Members(slot, OfUser(u))
        BY <2>1, <2>2, <3>2 DEF Members, OfUser, TypeOK
      <4> QED
        BY <4>1 DEF CountInv
    <3> QED
      BY <3>1, <3>2
  <2>4. \A q \in Requests : rpc'[q] # "slotadd"
    <3>1. \A q \in Requests : rpc[q] = "slotadd" => q = r
      BY <2>1 DEF GateInv, Window
    <3> QED
      BY <2>1, <3>1 DEF AfterSlot, TypeOK
  <2> QED
    BY <2>3, <2>4 DEF CountInv
<1>3. CASE ~ \E r \in Requests : SlotCheck(r) \/ SlotAdd(r)
  BY <1>0, <1>3, OthersShrink, ShrinkKeepsCount
<1> QED
  BY <1>1, <1>2, <1>3

(* An account never has more than Limit heavy jobs waiting or running,     *)
(* under the conditions of CalmGate and if no task is submitted twice.     *)
THEOREM AccountsAreLimited ==
  ASSUME CalmGate, OneRequestPerTask
  PROVE  Spec => []AccountLimit
<1>1. Init => GateShape /\ GateInv /\ HoldInv
  BY ConstantsAssumption
     DEF Init, GateShape, GateInv, HoldInv, Window, Marked, Unreleased
<1>2. Init => CountInv
  <2> SUFFICES ASSUME Init PROVE CountInv
    OBVIOUS
  <2>1. \A u \in Users : Members(slot, OfUser(u)) = {}
    BY DEF Init, Members, OfUser
  <2>2. Cardinality({}) = 0 /\ 0 <= Limit
    BY FS_EmptySet, ConstantsAssumption
  <2>3. \A r \in Requests : rpc[r] # "slotadd"
    BY DEF Init
  <2> QED
    BY <2>1, <2>2, <2>3 DEF CountInv
<1>3. TypeOK /\ GateShape /\ [Next]_vars => GateShape'
  BY GateShapeStep
<1>4. TypeOK /\ GateShape /\ GateInv /\ [Next]_vars => GateInv'
  BY GateInvStep
<1>5. TypeOK /\ GateInv /\ HoldInv /\ [Next]_vars => HoldInv'
  BY HoldInvStep
<1>6. TypeOK /\ GateInv /\ CountInv /\ [Next]_vars /\ TypeOK' /\ GateInv' => CountInv'
  BY CountInvStep
<1>7. TypeOK /\ HoldInv /\ CountInv => AccountLimit
  <2> SUFFICES ASSUME HoldInv, CountInv, NEW u \in Users
               PROVE  Cardinality({t \in OfUser(u) : IsHeavy(t) /\ Unreleased(t)}) <= Limit
    BY DEF AccountLimit
  <2> DEFINE A == {t \in OfUser(u) : IsHeavy(t) /\ Unreleased(t)}
             B == Members(slot, OfUser(u))
  <2>1. A \in SUBSET Tasks /\ B \in SUBSET Tasks /\ A \subseteq B
    BY DEF OfUser, Members, HoldInv, SlotYoung, Slotted
  <2>2. Cardinality(B) <= Limit
    BY DEF CountInv
  <2> HIDE DEF A, B
  <2>3. Cardinality(A) <= Cardinality(B) /\ Cardinality(A) \in Nat /\ Cardinality(B) \in Nat
    BY <2>1, TaskCounts DEF OneRequestPerTask
  <2>4. Cardinality(A) <= Limit
    BY <2>2, <2>3, ConstantsAssumption
  <2> QED
    BY <2>4 DEF A
<1> QED
  BY <1>1, <1>2, <1>3, <1>4, <1>5, <1>6, <1>7, TypeCorrect, PTL DEF Spec
=============================================================================
