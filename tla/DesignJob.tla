------------------------------ MODULE DesignJob ------------------------------
(***************************************************************************)
(* The design job of app/queue/jobs.py: three LLM stages, the autofill     *)
(* task that runs beside them, and the metering of their tokens            *)
(* (_tracked_ctx, TrackedGemini, _persist_token_usage), over the call      *)
(* loops of app/clients/gemini_client.py.  Attempts of the same or of      *)
(* different design jobs of one account run concurrently; they meet in the *)
(* account's counters, whose updates are atomic (see UsageNode).           *)
(*                                                                         *)
(* run_design_pipeline and app.core.quota are outside the repository and   *)
(* modelled from how the job uses them.                                    *)
(***************************************************************************)
EXTENDS Integers, FiniteSets

CONSTANTS
    Jobs,          \* attempts of design jobs of one account
    Stored,        \* what the account may have used before
    MainLimit,     \* tokens of the main bucket (QuotaDecision.main_limit)
    LiteCap,       \* tokens of the lite bucket before the account is blocked
    Costs,         \* what one LLM call may cost
    MaxCost,       \* the most one call may cost
    Direct,        \* no LiteLLM proxy: _generate_direct
    MaxRetries,    \* GeminiClient._max_retries
    MaxFaults      \* bound: failing calls, interrupts, crashes

ASSUME ConstantsAssumption ==
    /\ Stored \subseteq Nat
    /\ MainLimit \in Nat \ {0} /\ LiteCap \in Nat
    /\ MaxCost \in Nat /\ Costs \subseteq 1 .. MaxCost
    /\ Direct \in BOOLEAN
    /\ MaxRetries \in Nat \ {0} /\ MaxFaults \in Nat

VARIABLES
    paid,          \* may the account overflow to the lite model
    main, lite,    \* the account's token counters
    cancel,        \* attempts whose job_cancel flag is set in Redis
    pc,            \* progress of the attempt
    side,          \* its autofill task
    att,           \* the attempt number of an LLM call in flight, or 0
    full,          \* was the call made with the model the caller asked for
    base,          \* decision.main_current
    mode,          \* decision.mode
    down,          \* TrackedGemini._downgraded
    total,         \* accumulator.total.total_tokens
    split,         \* accumulator.main_bucket_tokens, or NoSplit
    result, saved, filled,
    charged,       \* history: tokens added to the counters for the attempt
    costly,        \* history: tokens past the split that the full model used
    unmetered,     \* history: attempts whose metering failed or never ran
    faults

account == <<paid, main, lite>>
meter == <<base, mode, down, total, split>>
output == <<result, saved, filled>>
history == <<charged, costly, unmetered>>
vars == <<account, cancel, pc, side, att, full, meter, output, history, faults>>

NoSplit == -1
Threads == {"stage", "autofill"}
Stages  == {"spack", "ddd", "arch"}
Running == Stages \cup {"save", "finish"}       \* inside the try statement
Closing == {"drain", "persist", "persist_lite", "release"}
Phases  == {"new", "decide"} \cup Running \cup Closing \cup {"ended"}
Results == {"none", "ok", "error", "cancelled", "quota_exceeded",
            "precheck_failed", "raised"}

TypeOK ==
    /\ paid \in BOOLEAN
    /\ main \in Nat /\ lite \in Nat
    /\ cancel \subseteq Jobs
    /\ pc \in [Jobs -> Phases]
    /\ side \in [Jobs -> {"none", "check", "calling", "done", "skipped", "failed", "cancelled"}]
    /\ att \in [Jobs -> [Threads -> 0 .. MaxRetries]]
    /\ full \in [Jobs -> [Threads -> BOOLEAN]]
    /\ base \in [Jobs -> Nat]
    /\ mode \in [Jobs -> {"main", "overflow"}]
    /\ down \in [Jobs -> BOOLEAN]
    /\ total \in [Jobs -> Nat]
    /\ split \in [Jobs -> Nat \cup {NoSplit}]
    /\ result \in [Jobs -> Results]
    /\ saved \in [Jobs -> BOOLEAN] /\ filled \in [Jobs -> BOOLEAN]
    /\ charged \in [Jobs -> Nat] /\ costly \in [Jobs -> Nat]
    /\ unmetered \subseteq Jobs
    /\ faults \in 0 .. MaxFaults

Init ==
    /\ paid \in BOOLEAN
    /\ main \in Stored /\ lite = 0
    /\ cancel = {}
    /\ pc = [j \in Jobs |-> "new"]
    /\ side = [j \in Jobs |-> "none"]
    /\ att = [j \in Jobs |-> [t \in Threads |-> 0]]
    /\ full = [j \in Jobs |-> [t \in Threads |-> FALSE]]
    /\ base = [j \in Jobs |-> 0]
    /\ mode = [j \in Jobs |-> "main"]
    /\ down = [j \in Jobs |-> FALSE]
    /\ total = [j \in Jobs |-> 0]
    /\ split = [j \in Jobs |-> NoSplit]
    /\ result = [j \in Jobs |-> "none"]
    /\ saved = [j \in Jobs |-> FALSE]
    /\ filled = [j \in Jobs |-> FALSE]
    /\ charged = [j \in Jobs |-> 0]
    /\ costly = [j \in Jobs |-> 0]
    /\ unmetered = {}
    /\ faults = 0
-----------------------------------------------------------------------------
GoTo(j, phase) == pc' = [pc EXCEPT ![j] = phase]

Fault == faults < MaxFaults /\ faults' = faults + 1

(* quota.resolve_quota_decision (external).                                *)
Blocked == main >= MainLimit /\ ~(paid /\ lite < LiteCap)

(* The job leaves its try statement; the finally clause comes next.        *)
Leave(j, res) ==
    /\ result' = [result EXCEPT ![j] = res]
    /\ GoTo(j, "drain")

(* The job ends before its try statement: no finally clause.               *)
Return(j, res) ==
    /\ result' = [result EXCEPT ![j] = res]
    /\ GoTo(j, "ended")
    /\ UNCHANGED <<account, cancel, side, att, full, meter, saved, filled, history>>

(* _is_over_token_quota before anything else; an error counts as no.       *)
PrecheckBlocked(j) ==
    /\ pc[j] = "new" /\ Blocked
    /\ Return(j, "quota_exceeded")
    /\ UNCHANGED faults

PrecheckPassed(j) ==
    /\ pc[j] = "new"
    /\ \/ ~Blocked /\ UNCHANGED faults
       \/ Blocked /\ Fault
    /\ GoTo(j, "decide")
    /\ UNCHANGED <<account, cancel, side, att, full, meter, output, history>>

(* _tracked_ctx: one decision for the whole attempt.                       *)
Decide(j) ==
    /\ pc[j] = "decide"
    /\ base' = [base EXCEPT ![j] = main]
    /\ mode' = [mode EXCEPT ![j] = IF paid /\ main >= MainLimit THEN "overflow" ELSE "main"]
    /\ GoTo(j, "spack")
    /\ UNCHANGED <<account, cancel, side, att, full, down, total, split, output, history, faults>>

(* The quota lookup raises before the try statement.                       *)
DecideFails(j) == pc[j] = "decide" /\ Fault /\ Return(j, "raised")
-----------------------------------------------------------------------------
(* TrackedGemini over GeminiClient.                                        *)

Armed(j) == paid /\ mode[j] = "main"

UnforcedModel(j) == mode[j] = "overflow"

(* self._force_model: overflow, or set by the downgrade.                   *)
ForcedLite(j) == mode[j] = "overflow" \/ down[j]

(* generate: the model is fixed when the call is made.                     *)
StartCall(j, t) ==
    /\ att' = [att EXCEPT ![j][t] = 1]
    /\ full' = [full EXCEPT ![j][t] = ~ForcedLite(j)]

InFlight(j, t) == att[j][t] > 0

EndCall(j, t) ==
    /\ att' = [att EXCEPT ![j][t] = 0]
    /\ full' = [full EXCEPT ![j][t] = FALSE]

DowngradeAgain(j, n) ==
    IF Armed(j) /\ base[j] + n >= MainLimit
      THEN /\ split' = [split EXCEPT ![j] = n]
           /\ down' = [down EXCEPT ![j] = TRUE]
      ELSE UNCHANGED <<split, down>>

(* _maybe_downgrade after the accumulator reached n.                       *)
MaybeDowngrade(j, n) ==
    IF ~down[j] /\ Armed(j) /\ base[j] + n >= MainLimit
      THEN /\ split' = [split EXCEPT ![j] = n]
           /\ down' = [down EXCEPT ![j] = TRUE]
      ELSE UNCHANGED <<split, down>>

(* accumulator.add                                                         *)
Meter(j, t, cost) ==
    /\ total' = [total EXCEPT ![j] = @ + cost]
    /\ MaybeDowngrade(j, total[j] + cost)
    /\ costly' = [costly EXCEPT ![j] = IF down[j] /\ full[j][t] THEN @ + cost ELSE @]
    /\ UNCHANGED <<base, mode, charged, unmetered>>

(* Answers the client loop tries again: 5xx, network errors and, without   *)
(* the proxy, 429; after MaxRetries they are raised like any other error.  *)
Retryable == {"transient"} \cup (IF Direct THEN {"quota"} ELSE {})
Kinds == {"transient", "quota", "auth", "invalid_response", "unknown"}

RetryCall(j, t, kind) ==
    /\ InFlight(j, t) /\ att[j][t] < MaxRetries
    /\ kind \in Retryable
    /\ att' = [att EXCEPT ![j][t] = @ + 1]
    /\ UNCHANGED <<account, cancel, pc, side, full, meter, output, history, faults>>

(* A GeminiError of this kind is raised now.                               *)
Raises(j, t, kind) ==
    /\ InFlight(j, t)
    /\ kind \in Retryable => att[j][t] = MaxRetries
    /\ Fault
    /\ EndCall(j, t)
-----------------------------------------------------------------------------
(* run_design_pipeline (external), with the callbacks the job gives it.    *)

NextStage == [spack |-> "ddd", ddd |-> "arch", arch |-> "save"]

(* master_write_lock gives up before the first stage.                      *)
LockTimeout(j) ==
    /\ pc[j] = "spack" /\ ~InFlight(j, "stage") /\ Fault
    /\ Leave(j, "raised")
    /\ UNCHANGED <<account, cancel, side, att, full, meter, saved, filled, history>>

(* DesignPrecheckFailed: the PRD is too large.                             *)
PrecheckFailed(j) ==
    /\ pc[j] = "spack" /\ ~InFlight(j, "stage") /\ Fault
    /\ Leave(j, "precheck_failed")
    /\ UNCHANGED <<account, cancel, side, att, full, meter, saved, filled, history>>

(* check_cancel and check_over_quota between two stages.                   *)
StageStops(j) ==
    /\ pc[j] \in Stages \ {"spack"} /\ ~InFlight(j, "stage")
    /\ \/ j \in cancel /\ Leave(j, "cancelled")
       \/ Blocked /\ Leave(j, "quota_exceeded")
    /\ UNCHANGED <<account, cancel, side, att, full, meter, saved, filled, history, faults>>

(* The next LLM call; a check that fails does not stop the stage.          *)
StageCall(j) ==
    /\ pc[j] \in Stages /\ ~InFlight(j, "stage")
    /\ \/ pc[j] = "spack" /\ UNCHANGED faults
       \/ pc[j] # "spack" /\ j \notin cancel /\ ~Blocked /\ UNCHANGED faults
       \/ pc[j] # "spack" /\ (j \in cancel \/ Blocked) /\ Fault
    /\ StartCall(j, "stage")
    /\ UNCHANGED <<account, cancel, pc, side, meter, output, history>>

(* The stage's answer; after SPACK the hook starts the autofill task if it *)
(* is switched on and some API lacks its specification.                    *)
StageDone(j, cost) ==
    /\ InFlight(j, "stage")
    /\ Meter(j, "stage", cost)
    /\ EndCall(j, "stage")
    /\ GoTo(j, NextStage[pc[j]])
    /\ \/ pc[j] = "spack" /\ side' = [side EXCEPT ![j] = "check"]
       \/ UNCHANGED side
    /\ UNCHANGED <<account, cancel, output, faults>>

StageFails(j, kind) ==
    /\ Raises(j, "stage", kind)
    /\ Leave(j, "error")
    /\ UNCHANGED <<account, cancel, side, meter, saved, filled, history>>

(* The final transaction of the pipeline.                                  *)
SaveDesign(j) ==
    /\ pc[j] = "save"
    /\ \/ /\ saved' = [saved EXCEPT ![j] = TRUE]
          /\ GoTo(j, "finish")
          /\ UNCHANGED <<result, faults>>
       \/ Fault /\ Leave(j, "error") /\ UNCHANGED saved
    /\ UNCHANGED <<account, cancel, side, att, full, meter, filled, history>>
-----------------------------------------------------------------------------
(* The autofill task.                                                      *)

SideIs(j, s) == side' = [side EXCEPT ![j] = s]

(* _generate: the quota again, then one LLM call.                          *)
AutofillStart(j) ==
    /\ side[j] = "check"
    /\ \/ /\ Blocked
          /\ SideIs(j, "skipped")
          /\ UNCHANGED <<att, full, faults>>
       \/ /\ SideIs(j, "calling")
          /\ StartCall(j, "autofill")
          /\ IF Blocked THEN Fault ELSE UNCHANGED faults
    /\ UNCHANGED <<account, cancel, pc, meter, output, history>>

AutofillDone(j, cost) ==
    /\ InFlight(j, "autofill")
    /\ Meter(j, "autofill", cost)
    /\ EndCall(j, "autofill")
    /\ SideIs(j, "done")
    /\ UNCHANGED <<account, cancel, pc, output, faults>>

AutofillFails(j, kind) ==
    /\ Raises(j, "autofill", kind)
    /\ SideIs(j, "failed")
    /\ UNCHANGED <<account, cancel, pc, meter, output, history>>

SideRuns(j) == side[j] \in {"check", "calling"}

(* Cancelling the task drops its call: its tokens are never reported.      *)
StopSide(j) == SideIs(j, "cancelled") /\ EndCall(j, "autofill")

FinishRaises(j) ==
    /\ pc[j] = "finish"
    /\ \/ ~SideRuns(j) /\ UNCHANGED <<side, att, full>>
       \/ SideRuns(j) /\ StopSide(j)
    /\ \/ side[j] = "done" /\ filled' = [filled EXCEPT ![j] = TRUE]
       \/ UNCHANGED filled
    /\ Leave(j, IF side[j] = "failed" THEN "error" ELSE "ok")
    /\ UNCHANGED <<account, cancel, meter, saved, history, faults>>

FinishWaits(j) ==
    /\ pc[j] = "finish"
    /\ ~SideRuns(j)
    /\ \/ side[j] = "done" /\ filled' = [filled EXCEPT ![j] = TRUE]
       \/ UNCHANGED filled
    /\ Leave(j, "ok")
    /\ UNCHANGED <<account, cancel, side, att, full, meter, saved, history, faults>>

(* _finish_parallel_autofill: wait for the task up to the budget (wait_for *)
(* cancels it then), save its result; nothing here fails the design.       *)
Finish(j) ==
    /\ pc[j] = "finish"
    /\ \/ ~SideRuns(j) /\ UNCHANGED <<side, att, full>>
       \/ SideRuns(j) /\ StopSide(j)
    /\ \/ side[j] = "done" /\ filled' = [filled EXCEPT ![j] = TRUE]
       \/ UNCHANGED filled
    /\ Leave(j, "ok")
    /\ UNCHANGED <<account, cancel, meter, saved, history, faults>>
-----------------------------------------------------------------------------
(* The finally clause.                                                     *)

DrainForgets(j) ==
    /\ pc[j] = "drain"
    /\ UNCHANGED <<side, att, full>>
    /\ cancel' = cancel \ {j}
    /\ GoTo(j, "persist")
    /\ UNCHANGED <<account, meter, output, history, faults>>

(* Cancel the autofill task and wait for it; drop the cancel flag.         *)
Drain(j) ==
    /\ pc[j] = "drain"
    /\ \/ SideRuns(j) /\ StopSide(j)
       \/ ~SideRuns(j) /\ UNCHANGED <<side, att, full>>
    /\ cancel' = cancel \ {j}
    /\ GoTo(j, "persist")
    /\ UNCHANGED <<account, meter, output, history, faults>>

(* add_tokens: one UsageNode transaction.                                  *)
Add(j, n, bucket) ==
    /\ IF bucket = "lite" THEN lite' = lite + n /\ UNCHANGED main
                          ELSE main' = main + n /\ UNCHANGED lite
    /\ charged' = [charged EXCEPT ![j] = @ + n]
    /\ UNCHANGED <<paid, costly, unmetered, faults>>

IsSplit(j) == 0 <= split[j] /\ split[j] < total[j]

PersistTwice(j) ==
    /\ pc[j] = "persist"
    /\ \/ total[j] = 0 /\ GoTo(j, "release") /\ UNCHANGED <<account, history, faults>>
       \/ IsSplit(j) /\ Add(j, total[j], "main") /\ GoTo(j, "persist_lite")
       \/ /\ total[j] > 0 /\ ~IsSplit(j)
          /\ Add(j, total[j], IF mode[j] = "overflow" THEN "lite" ELSE "main")
          /\ GoTo(j, "release")
    /\ UNCHANGED <<cancel, side, att, full, meter, output>>

(* _persist_token_usage: everything in the decision's bucket, or the part  *)
(* before the downgrade in main and then the rest in lite.                 *)
Persist(j) ==
    /\ pc[j] = "persist"
    /\ \/ total[j] = 0 /\ GoTo(j, "release") /\ UNCHANGED <<account, history, faults>>
       \/ IsSplit(j) /\ Add(j, split[j], "main") /\ GoTo(j, "persist_lite")
       \/ /\ total[j] > 0 /\ ~IsSplit(j)
          /\ Add(j, total[j], IF mode[j] = "overflow" THEN "lite" ELSE "main")
          /\ GoTo(j, "release")
    /\ UNCHANGED <<cancel, side, att, full, meter, output>>

PersistLite(j) ==
    /\ pc[j] = "persist_lite"
    /\ Add(j, total[j] - split[j], "lite")
    /\ GoTo(j, "release")
    /\ UNCHANGED <<cancel, side, att, full, meter, output>>

(* add_tokens raises: logged and dropped, the lite part with it.           *)
PersistFails(j) ==
    /\ pc[j] \in {"persist", "persist_lite"} /\ total[j] > 0
    /\ Fault
    /\ unmetered' = unmetered \cup {j}
    /\ GoTo(j, "release")
    /\ UNCHANGED <<account, cancel, side, att, full, meter, output, charged, costly>>

(* _release_concurrency_slot, see JobGate.                                 *)
Release(j) ==
    /\ pc[j] = "release"
    /\ GoTo(j, "ended")
    /\ UNCHANGED <<account, cancel, side, att, full, meter, output, history, faults>>
-----------------------------------------------------------------------------
(* The user asks to stop a job: a flag in Redis, read only by a running    *)
(* job.                                                                    *)
RequestCancel(j) ==
    /\ pc[j] \in Running /\ j \notin cancel
    /\ cancel' = cancel \cup {j}
    /\ UNCHANGED <<account, pc, side, att, full, meter, output, history, faults>>

(* CancelledError from the job timeout or a shutdown, at any await of the  *)
(* try statement: no except clause catches it.                             *)
Interrupt(j) ==
    /\ pc[j] \in Running
    /\ Fault
    /\ EndCall(j, "stage")
    /\ Leave(j, "raised")
    /\ UNCHANGED <<account, cancel, side, meter, saved, filled, history>>

(* The worker process dies (external): nothing more of the attempt runs.   *)
Crash(j) ==
    /\ pc[j] \in Running \cup Closing
    /\ Fault
    /\ result' = [result EXCEPT ![j] = "raised"]
    /\ GoTo(j, "ended")
    /\ side' = [side EXCEPT ![j] = IF SideRuns(j) THEN "cancelled" ELSE @]
    /\ att' = [att EXCEPT ![j] = [t \in Threads |-> 0]]
    /\ full' = [full EXCEPT ![j] = [t \in Threads |-> FALSE]]
    /\ unmetered' = unmetered \cup {j}
    /\ UNCHANGED <<account, cancel, meter, saved, filled, charged, costly>>

(* What the attempt does by itself.                                        *)
Step(j) ==
    \/ PrecheckBlocked(j) \/ PrecheckPassed(j) \/ Decide(j)
    \/ StageStops(j) \/ StageCall(j) \/ SaveDesign(j)
    \/ \E cost \in Costs : StageDone(j, cost)
    \/ Finish(j) \/ Drain(j) \/ Persist(j) \/ PersistLite(j) \/ Release(j)

AutofillStep(j) == AutofillStart(j) \/ \E cost \in Costs : AutofillDone(j, cost)

Disturb(j) ==
    \/ DecideFails(j) \/ LockTimeout(j) \/ PrecheckFailed(j)
    \/ \E t \in Threads, kind \in Kinds : RetryCall(j, t, kind)
    \/ \E kind \in Kinds : StageFails(j, kind) \/ AutofillFails(j, kind)
    \/ PersistFails(j) \/ RequestCancel(j) \/ Interrupt(j) \/ Crash(j)

Next == \E j \in Jobs : Step(j) \/ AutofillStep(j) \/ Disturb(j)

Spec == Init /\ [][Next]_vars

(* The worker runs every attempt, and every LLM call ends by its answer or *)
(* its timeout.                                                            *)
FairSpec == Spec /\ \A j \in Jobs : WF_vars(Step(j))
-----------------------------------------------------------------------------
(* The mid-job downgrade: what a paid attempt books on the main bucket     *)
(* passes the limit by less than one call, counted from what it knew when  *)
(* it started.                                                             *)
OvershootBounded ==
    \A j \in Jobs : Armed(j) /\ total[j] > 0 =>
        base[j] + (IF split[j] = NoSplit THEN total[j] ELSE split[j]) < MainLimit + MaxCost

(* Once the limit is reached, at most the one call that was already in     *)
(* flight still uses the model the caller asked for.                       *)
CostlyTailBounded == \A j \in Jobs : costly[j] <= MaxCost

(* An attempt that ended without a failing add booked every token of its   *)
(* accumulator exactly once, whatever way it left its try statement.       *)
MeteredOnce ==
    \A j \in Jobs : pc[j] = "ended" /\ j \notin unmetered => charged[j] = total[j]

(* No LLM call of the attempt is in flight when its tokens are persisted:  *)
(* the autofill task never outlives the job.                               *)
NoLateTokens ==
    \A j \in Jobs : pc[j] \in {"persist", "persist_lite", "release", "ended"} =>
        ~SideRuns(j) /\ \A t \in Threads : ~InFlight(j, t)

(* The answer tells what is stored: a success has stored the design, and   *)
(* an error, a stop or a refusal has left the stored design as it was; the *)
(* autofill is only ever written over a stored design.                     *)
DesignResultHonest ==
    \A j \in Jobs :
        /\ result[j] = "ok" => saved[j]
        /\ result[j] \in Results \ {"none", "ok", "raised"} => ~saved[j]
        /\ filled[j] => saved[j]

(* Every attempt ends, whatever the LLM, the autofill task and the store   *)
(* do.                                                                     *)
AttemptsEnd == \A j \in Jobs : <>(pc[j] = "ended")
=============================================================================
