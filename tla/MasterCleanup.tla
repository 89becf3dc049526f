--------------------------- MODULE MasterCleanup ---------------------------
(***************************************************************************)
(* The jobs of app/queue/jobs.py that rewrite the documents of a project   *)
(* (its master CPS and PRD and its design graph), and the automatic        *)
(* clean-up of a master PRD that the merges have left cluttered.           *)
(*                                                                         *)
(* One project.  The lock is that of MasterLock, taken here as one atomic  *)
(* mutex that a Redis error lets a job pass.  The pipelines the jobs call  *)
(* (app.pipelines) are outside the repository: they read the documents,    *)
(* call an LLM and write them back.  Every PRD that is written is a new    *)
(* text, so texts are numbered, and a number is used again once nothing    *)
(* refers to it; a clean-up task has the number of the text that asked for *)
(* it (auto_cleanup_<project>_<digest of the text>).                       *)
(***************************************************************************)
EXTENDS Integers

CONSTANTS
    Jobs,            \* jobs that users submit
    Workloads,       \* which kinds the jobs may have together
    Viewer,          \* the web process that shows the PRD
    NoTask,
    Repeats,         \* what a merge may repeat: Epic ids, labels of the overview
    SizeThreshold,   \* _CLEANUP_SIZE_THRESHOLD
    MaxTexts,        \* bound: PRD texts that are referred to at a time
    MaxFaults        \* bound: failures and crashes in one behaviour

Texts    == 1 .. MaxTexts
Tasks    == Jobs \cup Texts
Triggers == Jobs \cup {Viewer}
Kinds    == {"post_meeting", "cps", "prd", "delete", "onboard", "design", "autofill"}

ASSUME ConstantsAssumption ==
    /\ Workloads \subseteq [Jobs -> Kinds]
    /\ Viewer \notin Tasks /\ NoTask \notin Tasks
    /\ Jobs \cap (0 .. MaxTexts) = {}
    /\ Repeats \subseteq {"epic", "label"}
    /\ {MaxTexts, MaxFaults} \subseteq Nat
    /\ SizeThreshold \in Nat \ {0, 1}   \* a clean text is below the threshold

VARIABLES
    kind,            \* the kinds of the jobs
    doc,             \* what is stored
    holder,          \* the project's lock
    pc, seen,        \* progress of a task, and the documents it read
    aim,             \* the clean-up somebody is about to enqueue
    faults,
    applied,         \* history: updates that were stored and not undone since
    loose,           \* history: tasks in their section without holding the lock
    raced,           \* history: such a task met another one in its section
    quiet            \* history: nobody has to notice the present text

history == <<applied, loose, raced, quiet>>
vars    == <<kind, doc, holder, pc, seen, aim, faults, history>>

NoPrd  == [text |-> 0, has |-> {}, size |-> 0, dups |-> {}]
NoDocs == [cps |-> {}, prd |-> NoPrd, design |-> {}]

Prds == [text : 0 .. MaxTexts, has : SUBSET Jobs, size : 0 .. SizeThreshold,
         dups : SUBSET Repeats]

TypeOK ==
    /\ kind \in [Jobs -> Kinds]
    /\ doc \in [cps : SUBSET Jobs, prd : Prds, design : SUBSET Jobs]
    /\ holder \in Tasks \cup {NoTask}
    /\ pc \in [Tasks -> {"new", "queued", "lock", "read", "write", "release",
                         "look", "enqueue", "over"}]
    /\ seen \in [Tasks -> [cps : SUBSET Jobs, prd : Prds, design : SUBSET Jobs]]
    /\ aim \in [Triggers -> {0} \cup Texts]
    /\ faults \in 0 .. MaxFaults
    /\ applied \subseteq {"cps", "prd", "design"} \X Jobs
    /\ loose \subseteq Tasks /\ {raced, quiet} \subseteq BOOLEAN

Init ==
    /\ kind \in Workloads
    /\ doc = NoDocs /\ holder = NoTask
    /\ pc = [t \in Tasks |-> IF t \in Jobs THEN "queued" ELSE "new"]
    /\ seen = [t \in Tasks |-> NoDocs]
    /\ aim = [x \in Triggers |-> 0]
    /\ faults = 0
    /\ applied = {} /\ loose = {} /\ raced = FALSE /\ quiet = FALSE

Goto(t, l) == pc' = [pc EXCEPT ![t] = l]
Fault      == faults < MaxFaults /\ faults' = faults + 1

KindOf(t) == IF t \in Jobs THEN kind[t] ELSE "cleanup"

-----------------------------------------------------------------------------
(* What makes a PRD a patchwork: it is too long, an Epic id occurs twice,  *)
(* or a label of its overview does.                                        *)
Cluttered(p) == p.size >= SizeThreshold \/ p.dups # {}

(* A mutant: repeated labels of the overview do not count.                 *)
TriggersWithoutLabels(p) == p.text # 0 /\ (p.size >= SizeThreshold \/ "epic" \in p.dups)

(* _should_trigger_cleanup: an empty PRD never triggers.                   *)
ShouldTriggerCleanup(p) == p.text # 0 /\ Cluttered(p)

(* A mutant: the task id names the project and not the text.               *)
ProjectCleanupTaskId(p) == 1

(* _deterministic_cleanup_task_id                                          *)
CleanupTaskId(p) == p.text

(* pool.enqueue_job ignores an id it knows: waiting, running or with a     *)
(* result that is still kept.                                              *)
Submit(id) == pc' = IF pc[id] = "new" THEN [pc EXCEPT ![id] = "queued"] ELSE pc

(* The viewer has fetched the PRD; maybe_lazy_trigger_cleanup decides.     *)
View ==
    /\ aim[Viewer] = 0
    /\ ShouldTriggerCleanup(doc.prd)
    /\ aim' = [aim EXCEPT ![Viewer] = CleanupTaskId(doc.prd)]
    /\ UNCHANGED <<kind, doc, holder, pc, seen, faults, history>>

(* ... and enqueues; an error is swallowed.                                *)
LazyTrigger ==
    /\ aim[Viewer] # 0
    /\ \/ Submit(aim[Viewer]) /\ UNCHANGED faults
       \/ Fault /\ UNCHANGED pc
    /\ aim' = [aim EXCEPT ![Viewer] = 0]
    /\ UNCHANGED <<kind, doc, holder, seen, history>>

(* _maybe_trigger_auto_cleanup, after the meeting job left the lock: it    *)
(* reads the master anew, which another job may have written meanwhile.    *)
Look(j) ==
    /\ pc[j] = "look"
    /\ \/ /\ ShouldTriggerCleanup(doc.prd)
          /\ aim' = [aim EXCEPT ![j] = CleanupTaskId(doc.prd)]
          /\ Goto(j, "enqueue")
       \/ ~ ShouldTriggerCleanup(doc.prd) /\ Goto(j, "over") /\ UNCHANGED aim
    /\ UNCHANGED <<kind, doc, holder, seen, faults, history>>

AutoTrigger(j) ==
    /\ pc[j] = "enqueue"
    /\ pc' = [t \in Tasks |-> IF t = j THEN "over"
                              ELSE IF t = aim[j] /\ pc[t] = "new" THEN "queued" ELSE pc[t]]
    /\ aim' = [aim EXCEPT ![j] = 0]
    /\ UNCHANGED <<kind, doc, holder, seen, faults, history>>

(* Both steps swallow every exception: the meeting's result stands.        *)
TriggerFails(j) ==
    /\ pc[j] \in {"look", "enqueue"} /\ Fault
    /\ Goto(j, "over")
    /\ aim' = [aim EXCEPT ![j] = 0]
    /\ quiet' = TRUE
    /\ UNCHANGED <<kind, doc, holder, seen, applied, loose, raced>>

-----------------------------------------------------------------------------
(* The jobs.                                                               *)

Onboarding == {j \in Jobs : kind[j] = "onboard"}

(* A mutant: the clean-up, too, runs without the project's lock.           *)
UnlessCleanup(t) == t \notin Onboarding \cup Texts

(* Every job takes the lock around its pipeline, except github_onboard_job.*)
TakesLock(t) == t \notin Onboarding

(* A worker takes the job; _tracked_ctx may raise before the try.          *)
StartJob(t) ==
    /\ pc[t] = "queued"
    /\ \/ /\ TakesLock(t) /\ Goto(t, "lock")
          /\ UNCHANGED <<loose, faults>>
       \/ /\ ~ TakesLock(t) /\ Goto(t, "read")
          /\ loose' = loose \cup ({t} \cap Onboarding) /\ UNCHANGED faults
       \/ Fault /\ Goto(t, "over") /\ UNCHANGED loose
    /\ UNCHANGED <<kind, doc, holder, seen, aim, applied, raced, quiet>>

(* master_write_lock: a job finds its own lock again after a crash.  A     *)
(* Redis error lets it pass; a wait that lasts too long raises.            *)
Acquire(t) ==
    /\ pc[t] = "lock"
    /\ \/ /\ holder \in {NoTask, t} /\ holder' = t
          /\ Goto(t, "read") /\ UNCHANGED <<faults, loose>>
       \/ /\ Fault /\ UNCHANGED holder
          /\ Goto(t, "read") /\ loose' = loose \cup {t}
       \/ /\ Fault /\ holder \notin {NoTask, t}
          /\ Goto(t, "over") /\ UNCHANGED <<holder, loose>>
    /\ UNCHANGED <<kind, doc, seen, aim, applied, raced, quiet>>

(* The pipeline reads the documents.  Tasks meet when both have read and   *)
(* not yet written.                                                        *)
Read(t) ==
    /\ pc[t] = "read"
    /\ seen' = [seen EXCEPT ![t] = doc]
    /\ raced' = (raced \/ \E u \in Tasks \ {t} :
                             pc[u] = "write" /\ (t \in loose \/ u \in loose))
    /\ Goto(t, "write")
    /\ UNCHANGED <<kind, doc, holder, aim, faults, applied, loose, quiet>>

(* Texts somebody is about to name; every other number, but that of the    *)
(* present text or of a task under way, is free.                           *)
Named      == {aim[x] : x \in Triggers}
Idle(n)    == pc[n] \in {"new", "over"} /\ n \notin Named
FreeTexts  == {n \in Texts : n # doc.prd.text /\ Idle(n)}
NewText    == CHOOSE n \in FreeTexts : TRUE

(* Sizes count up to the threshold.                                        *)
Grown(n) == IF n < SizeThreshold THEN n + 1 ELSE n

(* The LLM merges the delta of job j into a PRD: it grows, and a merge may *)
(* repeat an Epic or a label.                                              *)
MergedPrds(p, j) ==
    {[text |-> NewText, has |-> p.has \cup {j}, size |-> Grown(p.size),
      dups |-> p.dups \cup d] : d \in SUBSET Repeats}

(* Without one meeting: rebuilt from those that remain.                    *)
RebuiltPrds(p, j) ==
    {[text |-> NewText, has |-> p.has \ {j}, size |-> n, dups |-> d] :
        n \in {0, p.size}, d \in {{}, p.dups}}

(* The text with every part once.                                          *)
CleanedPrd(p) ==
    [text |-> NewText, has |-> p.has, size |-> 1, dups |-> {}]

(* What a task stores: the documents it writes, made from what it read.    *)
Stores(cps, prd, design) ==
    doc' = [cps |-> cps, prd |-> prd, design |-> design]

Apply(t, names, gone) ==
    applied' = {x \in applied : x \notin gone} \cup (names \X {t})

(* A new text, and whether its writer looks at it again.                   *)
Watched   == quiet' = FALSE
Unwatched == quiet' = TRUE

(* post_meeting_pipeline_job stores the CPS, and the PRD unless its merge  *)
(* fails for good, which is only reported.                                 *)
PostMeetingJob(t) ==
    /\ KindOf(t) = "post_meeting"
    /\ \/ \E p \in MergedPrds(seen[t].prd, t) :
             /\ Stores(seen[t].cps \cup {t}, p, doc.design)
             /\ Apply(t, {"cps", "prd"}, {}) /\ Watched
       \/ /\ Stores(seen[t].cps \cup {t}, doc.prd, doc.design)
          /\ Apply(t, {"cps"}, {}) /\ UNCHANGED quiet

CpsPipelineJob(t) ==
    /\ KindOf(t) = "cps"
    /\ Stores(seen[t].cps \cup {t}, doc.prd, doc.design)
    /\ Apply(t, {"cps"}, {}) /\ UNCHANGED quiet

PrdPipelineJob(t) ==
    /\ KindOf(t) = "prd"
    /\ \E p \in MergedPrds(seen[t].prd, t) :
          Stores(doc.cps, p, doc.design)
    /\ Apply(t, {"prd"}, {}) /\ Unwatched

(* delete_meeting_job takes one meeting out and rebuilds both masters.     *)
DeleteMeetingJob(t) ==
    /\ KindOf(t) = "delete"
    /\ \/ \E j \in seen[t].cps \cup seen[t].prd.has :
             /\ \E p \in RebuiltPrds(seen[t].prd, j) :
                   Stores(seen[t].cps \ {j}, p, doc.design)
             /\ Apply(t, {}, {<<"cps", j>>, <<"prd", j>>})
             /\ Unwatched
       \/ seen[t].cps \cup seen[t].prd.has = {} /\ UNCHANGED <<doc, applied, quiet>>

(* github_onboard_job writes a first CPS and PRD from a repository.        *)
GithubOnboardJob(t) ==
    /\ KindOf(t) = "onboard"
    /\ \E p \in MergedPrds(seen[t].prd, t) :
          Stores(seen[t].cps \cup {t}, p, doc.design)
    /\ Apply(t, {"cps", "prd"}, {}) /\ Unwatched

(* design_pipeline_job wipes the design graph and draws it again; autofill *)
(* completes the nodes that it read.                                       *)
DesignPipelineJob(t) ==
    /\ KindOf(t) = "design"
    /\ Stores(doc.cps, doc.prd, {t})
    /\ Apply(t, {"design"}, {"design"} \X Jobs) /\ UNCHANGED quiet

AutofillApiSpecsJob(t) ==
    /\ KindOf(t) = "autofill"
    /\ Stores(doc.cps, doc.prd, seen[t].design \cup {t})
    /\ Apply(t, {"design"}, {}) /\ UNCHANGED quiet

(* cleanup_master_prd_job cleans whatever it reads, which may be another   *)
(* text than the one it is named after.                                    *)
CleanupMasterPrdJob(t) ==
    /\ KindOf(t) = "cleanup"
    /\ Stores(doc.cps, CleanedPrd(seen[t].prd), doc.design)
    /\ Watched /\ UNCHANGED applied

Write(t) ==
    /\ pc[t] = "write" /\ FreeTexts # {}
    /\ \/ PostMeetingJob(t) \/ CpsPipelineJob(t) \/ PrdPipelineJob(t)
       \/ DeleteMeetingJob(t) \/ GithubOnboardJob(t)
       \/ DesignPipelineJob(t) \/ AutofillApiSpecsJob(t) \/ CleanupMasterPrdJob(t)
    /\ pc' = [u \in Tasks |-> IF u = t THEN "release"
                              ELSE IF u \in FreeTexts THEN "new" ELSE pc[u]]
    /\ UNCHANGED <<kind, holder, seen, aim, faults, loose, raced>>

(* What a task knew ends with its section.                                 *)
Forgets(t) == seen' = [seen EXCEPT ![t] = NoDocs] /\ loose' = loose \ {t}

Freed(t) == IF holder = t THEN NoTask ELSE holder

(* The end of the locked section.                                          *)
Release(t) ==
    /\ pc[t] = "release"
    /\ holder' = Freed(t)
    /\ Goto(t, IF KindOf(t) = "post_meeting" THEN "look" ELSE "over")
    /\ Forgets(t)
    /\ UNCHANGED <<kind, doc, aim, faults, applied, raced, quiet>>

(* The pipeline raises, before or after it stored something: the lock is   *)
(* released, and a meeting job never comes to look at its PRD.             *)
Raises(t) ==
    /\ pc[t] \in {"read", "write", "release"} /\ Fault
    /\ holder' = Freed(t)
    /\ Goto(t, "over")
    /\ Forgets(t)
    /\ quiet' = (quiet \/ (t \in Jobs /\ pc[t] = "release"))
    /\ UNCHANGED <<kind, doc, aim, applied, raced>>

(* The worker dies; the queue runs the job again under its old id.         *)
Crash(t) ==
    /\ pc[t] \in {"lock", "read", "write", "release", "look", "enqueue"} /\ Fault
    /\ Goto(t, "queued")
    /\ Forgets(t)
    /\ aim' = IF t \in Jobs THEN [aim EXCEPT ![t] = 0] ELSE aim
    /\ quiet' = (quiet \/ (t \in Jobs /\ pc[t] \in {"release", "look", "enqueue"}))
    /\ UNCHANGED <<kind, doc, holder, applied, raced>>

(* keep_result is over: the queue forgets the id of a clean-up.  It makes  *)
(* a difference only for an id that can still be asked for.                *)
Forget(id) ==
    /\ pc[id] = "over"
    /\ id \in Named \cup {doc.prd.text}
    /\ Goto(id, "new")
    /\ quiet' = (quiet \/ id = doc.prd.text)
    /\ UNCHANGED <<kind, doc, holder, seen, aim, faults, applied, loose, raced>>

JobStep(t) == StartJob(t) \/ Acquire(t) \/ Read(t) \/ Write(t) \/ Release(t)

Next ==
    \/ View \/ LazyTrigger
    \/ \E j \in Jobs : Look(j) \/ AutoTrigger(j) \/ TriggerFails(j)
    \/ \E t \in Tasks : JobStep(t) \/ Raises(t) \/ Crash(t)
    \/ \E id \in Texts : Forget(id)

Spec == Init /\ [][Next]_vars

(* Workers run what is queued, somebody looks at the PRD now and then, and *)
(* results expire.  Every failure is bounded, so none needs fairness.      *)
FairSpec ==
    /\ Spec
    /\ WF_vars(View) /\ WF_vars(LazyTrigger)
    /\ \A j \in Jobs : WF_vars(Look(j)) /\ WF_vars(AutoTrigger(j))
    /\ \A t \in Tasks : WF_vars(JobStep(t))
    /\ \A id \in Texts : WF_vars(Forget(id))

-----------------------------------------------------------------------------
Holds(name) == IF name = "prd" THEN doc.prd.has ELSE doc[name]

(* The documents hold exactly what was merged, patched or drawn and not    *)
(* deleted or redrawn since: a clean-up, a rebuild or a merge that read an *)
(* older state neither takes an update out nor writes a deleted meeting    *)
(* back, unless a task passed without the lock (onboarding always does)    *)
(* while another was between its read and write.                           *)
UpdatesKept ==
    ~ raced => \A name \in {"cps", "prd", "design"}, j \in Jobs :
                  <<name, j>> \in applied <=> j \in Holds(name)

(* A cluttered PRD that a meeting job wrote does not go unnoticed: the job *)
(* has still to look at it, or the queue knows a clean-up for this very    *)
(* text.  Not so for texts whose trigger failed, whose result was          *)
(* forgotten, or whose writer triggers nothing (prd_pipeline_job,          *)
(* delete_meeting_job, github_onboard_job).                                *)
ClutterNoticed ==
    LET p == doc.prd IN
    Cluttered(p) /\ ~ quiet =>
        \/ pc[p.text] # "new"
        \/ \E j \in Jobs : /\ KindOf(j) = "post_meeting"
                           /\ \/ pc[j] \in {"release", "look"}
                              \/ pc[j] = "enqueue" /\ aim[j] = p.text

(* When nobody submits jobs any more the PRD is clean in the end, whatever *)
(* failed before: a result that is kept blocks a new clean-up of the same  *)
(* text for an hour only, and the next look at the PRD triggers it.        *)
ClutterCleaned == <>[](~ Cluttered(doc.prd))
=============================================================================
