------------------------------- MODULE JobGate -------------------------------
(***************************************************************************)
(* Admission of pipeline jobs: the per-account slots and per-project       *)
(* markers of app/core/concurrency.py (Redis sorted sets), the enqueue     *)
(* path of app/queue/client.py that takes them, and the end of every job   *)
(* of app/queue/jobs.py that gives them back.  arq, the queue itself, is   *)
(* external and modelled from how the code uses it.                        *)
(*                                                                         *)
(* A sorted-set member is kept by its age in ticks instead of its score,   *)
(* so time needs no bound; an entry is stale once its age is StaleAge.     *)
(***************************************************************************)
EXTENDS Integers, FiniteSets

CONSTANTS
    Requests,      \* calls of _enqueue
    Tasks,         \* task ids (arq job ids)
    Users, Projects,
    TaskOf,        \* the task id a request submits; two requests may share one
    OwnerOf, ProjectOf, KindOf,
    Limit,         \* DEFAULT_CONCURRENCY_LIMIT
    StaleAge,      \* _STALE_AGE_SEC in ticks
    JobSpan,       \* longest time from taking a slot to the end of the job
    ApiWindow,     \* how many requests may be between a check and its ZADD
    Retries,       \* does the queue run a job that raised again
    Tiered,        \* are ARQ_QUEUE_NAME_PRO / _FREE set
    Quota,         \* can a queued design job be over its token quota
    MaxTries,      \* WorkerSettings.max_tries
    MaxCrashes,    \* bound: crashes of a worker or the API, operator resets
    MaxErrors      \* bound: failing Redis or database calls

Kinds == {"merge", "design", "lint", "delete", "cleanup"}

ASSUME ConstantsAssumption ==
    /\ TaskOf \in [Requests -> Tasks]
    /\ OwnerOf \in [Tasks -> Users]
    /\ ProjectOf \in [Tasks -> Projects]
    /\ KindOf \in [Tasks -> Kinds]
    /\ Limit \in Nat /\ StaleAge \in Nat \ {0} /\ JobSpan \in Nat
    /\ ApiWindow \in Nat /\ MaxTries \in Nat \ {0}
    /\ MaxCrashes \in Nat /\ MaxErrors \in Nat
    /\ {Retries, Tiered, Quota} \subseteq BOOLEAN

VARIABLES
    rpc,           \* progress of each request through _enqueue
    slot,          \* age of the task in its owner's inflight set, or Absent
    mark,          \* age of the task in its project's inflight set, or Absent
    job,           \* the arq job of each task
    queue,         \* the queue the job was put in
    attempt,       \* attempts started
    raised,        \* did the body of the current attempt raise
    leaky,         \* history: tasks whose slot or marker nobody will give back
    crashes,
    errors

vars == <<rpc, slot, mark, job, queue, attempt, raised, leaky, crashes, errors>>

(* HEAVY_JOBS and MASTER_WRITE_JOBS; "merge" stands for the cps, prd,      *)
(* post_meeting and autofill jobs, "lint" for the heavy jobs that leave    *)
(* the master alone, "cleanup" for the jobs in neither set.                *)
HeavyJobs       == {"merge", "design", "lint"}
MasterWriteJobs == {"merge", "design", "delete"}

IsHeavy(t)       == KindOf[t] \in HeavyJobs
IsMasterWrite(t) == KindOf[t] \in MasterWriteJobs

Absent == -1
Ages   == Absent .. StaleAge

Phases == {"new", "slot", "slotadd", "proj", "projadd", "backout", "enq",
           "accepted", "limited", "busy", "error", "dead"}
JobPhases == {"none", "queued", "prelude", "body", "relslot", "relproj",
              "complete", "flushed"}

(* Between submission and the end of its finally clause.                   *)
Active(t) == job[t] \in {"queued", "prelude", "body", "relslot", "relproj"}

Ended(r) == rpc[r] \in {"accepted", "limited", "busy", "error", "dead"}

(* Requests that passed a check and have not executed its ZADD.            *)
Window == {r \in Requests : rpc[r] \in {"slotadd", "projadd"}}

TypeOK ==
    /\ rpc \in [Requests -> Phases]
    /\ slot \in [Tasks -> Ages]
    /\ mark \in [Tasks -> Ages]
    /\ job \in [Tasks -> JobPhases]
    /\ queue \in [Tasks -> {"default", "pro", "free"}]
    /\ attempt \in [Tasks -> 0 .. MaxTries]
    /\ raised \in [Tasks -> BOOLEAN]
    /\ leaky \in SUBSET Tasks
    /\ crashes \in 0 .. MaxCrashes
    /\ errors \in 0 .. MaxErrors

Init ==
    /\ rpc = [r \in Requests |-> "new"]
    /\ slot = [t \in Tasks |-> Absent]
    /\ mark = [t \in Tasks |-> Absent]
    /\ job = [t \in Tasks |-> "none"]
    /\ queue = [t \in Tasks |-> "default"]
    /\ attempt = [t \in Tasks |-> 0]
    /\ raised = [t \in Tasks |-> FALSE]
    /\ leaky = {}
    /\ crashes = 0
    /\ errors = 0
-----------------------------------------------------------------------------
(* _enqueue and the two gates.                                             *)

Answer(r, phase) == rpc' = [rpc EXCEPT ![r] = phase]

Fail    == errors < MaxErrors /\ errors' = errors + 1
Disrupt == crashes < MaxCrashes /\ crashes' = crashes + 1

(* Defect: stale entries are never purged.                                 *)
PurgeNothing(ages, S) == ages

(* ZREMRANGEBYSCORE -inf (now - _STALE_AGE_SEC) on the sorted set S.       *)
Purge(ages, S) ==
    [t \in Tasks |-> IF t \in S /\ ages[t] >= StaleAge THEN Absent ELSE ages[t]]

Members(ages, S) == {t \in S : ages[t] # Absent}

OfUser(u)    == {t \in Tasks : OwnerOf[t] = u}
OfProject(p) == {t \in Tasks : ProjectOf[t] = p}

AfterSlot(t) == IF IsMasterWrite(t) THEN "proj" ELSE "enq"

(* Which gates a request has to pass.                                      *)
Begin(r) ==
    /\ rpc[r] = "new"
    /\ Answer(r, IF IsHeavy(TaskOf[r]) THEN "slot" ELSE AfterSlot(TaskOf[r]))
    /\ UNCHANGED <<slot, mark, job, queue, attempt, raised, leaky, crashes, errors>>

(* Defect: off by one in the comparison with the limit.                    *)
SlotCheckOffByOne(r) ==
    LET t == TaskOf[r]
        S == OfUser(OwnerOf[t])
        kept == Purge(slot, S)
    IN  /\ rpc[r] = "slot"
        /\ Cardinality(Window) < ApiWindow
        /\ slot' = kept
        /\ Answer(r, IF Cardinality(Members(kept, S)) > Limit THEN "limited" ELSE "slotadd")
        /\ UNCHANGED <<mark, job, queue, attempt, raised, leaky, crashes, errors>>

(* try_acquire_slot up to its decision: purge, ZCARD, ZSCORE.  They are    *)
(* taken together because only the ZADD that follows depends on what       *)
(* happens in between.                                                     *)
SlotCheck(r) ==
    LET t == TaskOf[r]
        S == OfUser(OwnerOf[t])
        kept == Purge(slot, S)
        full == Cardinality(Members(kept, S)) >= Limit /\ kept[t] = Absent
    IN  /\ rpc[r] = "slot"
        /\ Cardinality(Window) < ApiWindow
        /\ slot' = kept
        /\ Answer(r, IF full THEN "limited" ELSE "slotadd")
        /\ UNCHANGED <<mark, job, queue, attempt, raised, leaky, crashes, errors>>

(* try_acquire_slot: ZADD (and the EXPIRE of the whole set, which lasts    *)
(* longer than any entry stays unpurged).                                  *)
SlotAdd(r) ==
    /\ rpc[r] = "slotadd"
    /\ slot' = [slot EXCEPT ![TaskOf[r]] = 0]
    /\ Answer(r, AfterSlot(TaskOf[r]))
    /\ UNCHANGED <<mark, job, queue, attempt, raised, leaky, crashes, errors>>

(* A Redis error lets the request pass the account gate; the ZADD may have *)
(* been applied.                                                           *)
SlotError(r) ==
    /\ rpc[r] \in {"slot", "slotadd"}
    /\ Fail
    /\ \/ UNCHANGED slot
       \/ rpc[r] = "slotadd" /\ slot' = [slot EXCEPT ![TaskOf[r]] = 0]
    /\ Answer(r, AfterSlot(TaskOf[r]))
    /\ UNCHANGED <<mark, job, queue, attempt, raised, leaky, crashes>>

(* Defect: the project gate lets a second job pass.                        *)
ProjectCheckPasses(r) ==
    /\ rpc[r] = "proj"
    /\ Cardinality(Window) < ApiWindow
    /\ mark' = Purge(mark, OfProject(ProjectOf[TaskOf[r]]))
    /\ Answer(r, "projadd")
    /\ UNCHANGED <<slot, job, queue, attempt, raised, leaky, crashes, errors>>

(* try_acquire_project: the same protocol with a limit of one.             *)
ProjectCheck(r) ==
    LET t == TaskOf[r]
        S == OfProject(ProjectOf[t])
        kept == Purge(mark, S)
        taken == Members(kept, S) # {} /\ kept[t] = Absent
    IN  /\ rpc[r] = "proj"
        /\ Cardinality(Window) < ApiWindow
        /\ mark' = kept
        /\ Answer(r, IF taken THEN "backout" ELSE "projadd")
        /\ UNCHANGED <<slot, job, queue, attempt, raised, leaky, crashes, errors>>

ProjectAdd(r) ==
    /\ rpc[r] = "projadd"
    /\ mark' = [mark EXCEPT ![TaskOf[r]] = 0]
    /\ Answer(r, "enq")
    /\ UNCHANGED <<slot, job, queue, attempt, raised, leaky, crashes, errors>>

ProjectError(r) ==
    /\ rpc[r] \in {"proj", "projadd"}
    /\ Fail
    /\ \/ UNCHANGED mark
       \/ rpc[r] = "projadd" /\ mark' = [mark EXCEPT ![TaskOf[r]] = 0]
    /\ Answer(r, "enq")
    /\ UNCHANGED <<slot, job, queue, attempt, raised, leaky, crashes>>

(* Defect: the 409 keeps the account slot.                                 *)
BackOutKeepsSlot(r) ==
    /\ rpc[r] = "backout"
    /\ Answer(r, "busy")
    /\ UNCHANGED <<slot, mark, job, queue, attempt, raised, leaky, crashes, errors>>

(* 409: the account slot taken before is given back.                       *)
BackOut(r) ==
    /\ rpc[r] = "backout"
    /\ slot' = [slot EXCEPT ![TaskOf[r]] = Absent]
    /\ Answer(r, "busy")
    /\ UNCHANGED <<mark, job, queue, attempt, raised, leaky, crashes, errors>>

(* release_slot swallows the error of its ZREM.                            *)
BackOutError(r) ==
    /\ rpc[r] = "backout"
    /\ Fail
    /\ Answer(r, "busy")
    /\ leaky' = leaky \cup {TaskOf[r]}
    /\ UNCHANGED <<slot, mark, job, queue, attempt, raised, crashes>>

(* _select_queue_for_user: a paid account goes to PRO_QUEUE_NAME, any      *)
(* other one, or a failed lookup, to FREE_QUEUE_NAME; both default to      *)
(* QUEUE_NAME.                                                             *)
SelectedQueues == IF Tiered THEN {"pro", "free"} ELSE {"default"}

(* The queue knows the ids it has a job or a kept result for.              *)
Unknown(t) == job[t] \in {"none", "flushed"}

(* pool.enqueue_job: an unknown id is queued; a known one is a duplicate   *)
(* and only answered, whether its job is still active or not.              *)
Enqueue(r) ==
    LET t == TaskOf[r]
    IN  /\ rpc[r] = "enq"
        /\ \/ /\ Unknown(t)
              /\ job' = [job EXCEPT ![t] = "queued"]
              /\ \E q \in SelectedQueues : queue' = [queue EXCEPT ![t] = q]
              /\ UNCHANGED leaky
           \/ /\ ~Unknown(t)
              /\ leaky' = IF job[t] \in {"relproj", "complete"}
                          THEN leaky \cup {t} ELSE leaky
              /\ UNCHANGED <<job, queue>>
        /\ Answer(r, "accepted")
        /\ UNCHANGED <<slot, mark, attempt, raised, crashes, errors>>

(* enqueue_job raises: nothing gives the slot and the marker back.         *)
EnqueueError(r) ==
    /\ rpc[r] = "enq"
    /\ Fail
    /\ Answer(r, "error")
    /\ leaky' = leaky \cup {TaskOf[r]}
    /\ UNCHANGED <<slot, mark, job, queue, attempt, raised, crashes>>

(* The API process stops at any await of _enqueue.                         *)
RequestDies(r) ==
    /\ ~Ended(r)
    /\ Disrupt
    /\ Answer(r, "dead")
    /\ leaky' = leaky \cup {TaskOf[r]}
    /\ UNCHANGED <<slot, mark, job, queue, attempt, raised, errors>>

(* The user tries again after a 429 or a 409.                              *)
Resubmit(r) ==
    /\ rpc[r] \in {"limited", "busy"}
    /\ Answer(r, "new")
    /\ UNCHANGED <<slot, mark, job, queue, attempt, raised, leaky, crashes, errors>>

(* is_project_busy, the read the frontend polls, purges as well.           *)
BusyQuery(p) ==
    /\ mark' = Purge(mark, OfProject(p))
    /\ UNCHANGED <<rpc, slot, job, queue, attempt, raised, leaky, crashes, errors>>
-----------------------------------------------------------------------------
(* The worker side.                                                        *)

JobTo(t, phase) == job' = [job EXCEPT ![t] = phase]

(* What the queue does with a job that raised (or was cancelled by a       *)
(* shutdown of the worker): the code relies on another run with the same   *)
(* id, up to max_tries, for which nothing passes the gates again.          *)
AfterRaise(t) ==
    IF Retries /\ attempt[t] < MaxTries THEN JobTo(t, "queued")
                                        ELSE JobTo(t, "complete")

Finish(t) == IF raised[t] THEN AfterRaise(t) ELSE JobTo(t, "complete")

StartJob(t) ==
    /\ job[t] = "queued"
    /\ JobTo(t, "prelude")
    /\ attempt[t] < MaxTries
    /\ attempt' = [attempt EXCEPT ![t] = @ + 1]
    /\ raised' = [raised EXCEPT ![t] = FALSE]
    /\ UNCHANGED <<rpc, slot, mark, queue, leaky, crashes, errors>>

(* _tracked_ctx, before the try: the quota decision is read.               *)
EnterTry(t) ==
    /\ job[t] = "prelude"
    /\ JobTo(t, "body")
    /\ UNCHANGED <<rpc, slot, mark, queue, attempt, raised, leaky, crashes, errors>>

(* _tracked_ctx raises (the database is away): the finally clause that     *)
(* gives slot and marker back is not reached.                              *)
PreludeRaises(t) ==
    /\ job[t] = "prelude"
    /\ Fail
    /\ AfterRaise(t)
    /\ leaky' = leaky \cup {t}
    /\ UNCHANGED <<rpc, slot, mark, queue, attempt, raised, crashes>>

(* design_pipeline_job returns quota_exceeded before its try.              *)
DesignOverQuota(t) ==
    /\ job[t] = "prelude"
    /\ KindOf[t] = "design" /\ Quota
    /\ JobTo(t, "complete")
    /\ leaky' = leaky \cup {t}
    /\ UNCHANGED <<rpc, slot, mark, queue, attempt, raised, crashes, errors>>

(* The body of the try returns or raises.                                  *)
BodyEnds(t) ==
    /\ job[t] = "body"
    /\ JobTo(t, "relslot")
    /\ \E e \in BOOLEAN : raised' = [raised EXCEPT ![t] = e]
    /\ UNCHANGED <<rpc, slot, mark, queue, attempt, leaky, crashes, errors>>

(* Defect: no job passes its project_key to _release_concurrency_slot.     *)
ReleaseSlotOnly(t) ==
    /\ job[t] = "relslot"
    /\ slot' = [slot EXCEPT ![t] = Absent]
    /\ Finish(t)
    /\ UNCHANGED <<rpc, mark, queue, attempt, raised, leaky, crashes, errors>>

(* _release_concurrency_slot: release_slot, then release_project for the   *)
(* jobs that pass a project_key.                                           *)
ReleaseSlot(t) ==
    /\ job[t] = "relslot"
    /\ slot' = [slot EXCEPT ![t] = Absent]
    /\ IF IsMasterWrite(t) THEN JobTo(t, "relproj") ELSE Finish(t)
    /\ UNCHANGED <<rpc, mark, queue, attempt, raised, leaky, crashes, errors>>

ReleaseProject(t) ==
    /\ job[t] = "relproj"
    /\ mark' = [mark EXCEPT ![t] = Absent]
    /\ Finish(t)
    /\ UNCHANGED <<rpc, slot, queue, attempt, raised, leaky, crashes, errors>>

(* Both releases swallow a Redis error and go on.                          *)
ReleaseError(t) ==
    /\ job[t] \in {"relslot", "relproj"}
    /\ Fail
    /\ IF job[t] = "relslot" /\ IsMasterWrite(t)
       THEN JobTo(t, "relproj") ELSE Finish(t)
    /\ leaky' = leaky \cup {t}
    /\ UNCHANGED <<rpc, slot, mark, queue, attempt, raised, crashes>>

(* The worker dies; another one runs the job again, or its tries are over. *)
WorkerCrash(t) ==
    /\ job[t] \in {"prelude", "body", "relslot", "relproj"}
    /\ Disrupt
    /\ IF attempt[t] < MaxTries THEN JobTo(t, "queued") ELSE JobTo(t, "complete")
    /\ leaky' = leaky \cup {t}
    /\ UNCHANGED <<rpc, slot, mark, queue, attempt, raised, errors>>

(* flush_queues, the operator's reset: the queued jobs and their hashes    *)
(* disappear, running ones go on, the inflight sets are not touched.       *)
FlushQueues ==
    /\ Disrupt
    /\ \E t \in Tasks : job[t] = "queued"
    /\ job' = [t \in Tasks |-> IF job[t] = "queued" THEN "flushed" ELSE job[t]]
    /\ leaky' = leaky \cup {t \in Tasks : job[t] = "queued"}
    /\ UNCHANGED <<rpc, slot, mark, queue, attempt, raised, errors>>

Older(age) == IF age = Absent \/ age = StaleAge THEN age ELSE age + 1

Admitting(t, phases) == \E r \in Requests : TaskOf[r] = t /\ rpc[r] \in phases

(* Time passes.  A job is over within JobSpan of taking its slot, and a    *)
(* request is answered within a tick of it (a tick stands for minutes).    *)
Tick ==
    /\ \A t \in Tasks :
          /\ Active(t) => slot[t] < JobSpan /\ mark[t] < JobSpan
          /\ Admitting(t, {"proj", "projadd", "backout", "enq"})
                => slot[t] < 1 /\ mark[t] < 1
    /\ slot' = [t \in Tasks |-> Older(slot[t])]
    /\ mark' = [t \in Tasks |-> Older(mark[t])]
    /\ UNCHANGED <<rpc, job, queue, attempt, raised, leaky, crashes, errors>>

RequestStep(r) ==
    \/ Begin(r) \/ SlotCheck(r) \/ SlotAdd(r)
    \/ ProjectCheck(r) \/ ProjectAdd(r) \/ BackOut(r)
    \/ Enqueue(r) \/ Resubmit(r)

JobStep(t) ==
    \/ StartJob(t) \/ EnterTry(t) \/ DesignOverQuota(t) \/ BodyEnds(t)
    \/ ReleaseSlot(t) \/ ReleaseProject(t)

RequestFault(r) ==
    \/ SlotError(r) \/ ProjectError(r) \/ BackOutError(r) \/ EnqueueError(r)
    \/ RequestDies(r)

JobFault(t) == PreludeRaises(t) \/ ReleaseError(t) \/ WorkerCrash(t)

Next ==
    \/ Tick
    \/ FlushQueues
    \/ \E p \in Projects : BusyQuery(p)
    \/ \E r \in Requests : RequestStep(r) \/ RequestFault(r)
    \/ \E t \in Tasks : JobStep(t) \/ JobFault(t)

Spec == Init /\ [][Next]_vars

(* Redis answers, workers take queued jobs, jobs end (job_timeout), users  *)
(* press the button again, time passes.                                    *)
Fairness ==
    /\ WF_vars(Tick)
    /\ \A r \in Requests : WF_vars(RequestStep(r))
    /\ \A t \in Tasks : WF_vars(JobStep(t))

FairSpec == Spec /\ Fairness
-----------------------------------------------------------------------------
(* Every slot and every marker in Redis belongs to a request that is being *)
(* admitted or to a job that has not given it back: a 429, a 409, a retry  *)
(* and the end of a job leave nothing behind, except on the paths recorded *)
(* in leaky (faults, a quota_exceeded design, a duplicate of a job that is *)
(* over).                                                                  *)
NoOrphanSlot ==
    \A t \in Tasks \ leaky : slot[t] # Absent =>
        \/ Admitting(t, {"proj", "projadd", "backout", "enq"})
        \/ job[t] \in {"queued", "prelude", "body", "relslot"}

NoOrphanMark ==
    \A t \in Tasks \ leaky : mark[t] # Absent =>
        Admitting(t, {"enq"}) \/ Active(t)

Unreleased(t) == job[t] \in {"queued", "prelude", "body"}

(* An account never has more than Limit heavy jobs waiting or running.     *)
(* Holds if requests pass the gate one at a time, jobs are not retried,    *)
(* they end before their slot is stale, Redis answers and no task is       *)
(* submitted twice at once: the 409 of one request gives back the slot     *)
(* that the other one relies on.                                           *)
AccountLimit ==
    \A u \in Users :
        Cardinality({t \in OfUser(u) : IsHeavy(t) /\ Unreleased(t)}) <= Limit

(* A project never has two master-writing jobs waiting or running, under   *)
(* the same conditions.                                                    *)
ProjectExclusive ==
    \A t1, t2 \in Tasks :
        /\ ProjectOf[t1] = ProjectOf[t2]
        /\ IsMasterWrite(t1) /\ IsMasterWrite(t2)
        /\ Unreleased(t1) /\ Unreleased(t2)
        => t1 = t2

(* get_job_status: arq looks for the result, for the in-progress marker,   *)
(* then for the id in the queue it is given, which is always QUEUE_NAME.   *)
StatusOf(t) ==
    CASE job[t] = "complete" -> "complete"
      [] job[t] \in {"prelude", "body", "relslot", "relproj"} -> "in_progress"
      [] job[t] = "queued" /\ queue[t] = "default" -> "queued"
      [] OTHER -> "not_found"

(* No account or project is blocked for ever: a user who tries again is    *)
(* admitted in the end, whatever leaked before, because stale entries are  *)
(* purged; and who then polls get_job_status hears that the job is over,   *)
(* unless the operator flushed it.                                         *)
RequestsServed ==
    \A r \in Requests :
        <>(\/ rpc[r] \in {"error", "dead"}
           \/ /\ rpc[r] = "accepted"
              /\ StatusOf(TaskOf[r]) = "complete" \/ job[TaskOf[r]] = "flushed")
=============================================================================
