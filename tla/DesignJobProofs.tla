--------------------------- MODULE DesignJobProofs ---------------------------
(***************************************************************************)
(* For any number of attempts, any limits and any number of faults: no LLM *)
(* call outlives its attempt, the answer of an attempt says what is        *)
(* stored, its tokens are booked once, and the mid-job downgrade bounds    *)
(* what is booked on the main bucket and what the full model still uses.   *)
(***************************************************************************)
EXTENDS DesignJob, TLAPS

(* Which task may have a call in flight, and from when to when it runs.    *)
CallInv ==
    /\ \A j \in Jobs : InFlight(j, "stage") => pc[j] \in Stages
    /\ \A j \in Jobs : InFlight(j, "autofill") => side[j] = "calling"
    /\ \A j \in Jobs : SideRuns(j) => pc[j] \in (Running \ {"spack"}) \cup {"drain"}

(* What is stored at each point of the attempt.                            *)
HonestInv ==
    /\ \A j \in Jobs : pc[j] \in {"new", "decide"} \cup Running => result[j] = "none"
    /\ \A j \in Jobs : saved[j] => pc[j] = "finish" \/ result[j] \in {"ok", "raised"}
    /\ \A j \in Jobs : pc[j] = "finish" \/ result[j] = "ok" \/ filled[j] => saved[j]

(* What has been booked at each point of the finally clause.               *)
BookedInv ==
    /\ \A j \in Jobs : pc[j] \in {"new", "decide"} => total[j] = 0
    /\ \A j \in Jobs : pc[j] \in {"new", "decide", "drain", "persist"} \cup Running
                           => charged[j] = 0
    /\ \A j \in Jobs : pc[j] = "persist_lite" =>
          /\ charged[j] = split[j]
          /\ split[j] \in Nat /\ split[j] < total[j]
    /\ \A j \in Jobs : pc[j] \in {"release", "ended"} /\ j \notin unmetered
                           => charged[j] = total[j]

(* The limit is not reached before the downgrade, and the split is taken   *)
(* by the call that reaches it.                                            *)
SplitInv ==
    /\ \A j \in Jobs : pc[j] \in {"new", "decide"} => total[j] = 0 /\ ~down[j] /\ split[j] = NoSplit
    /\ \A j \in Jobs : Armed(j) /\ ~down[j] => split[j] = NoSplit /\ base[j] + total[j] < MainLimit
    /\ \A j \in Jobs : down[j] => split[j] \in Nat /\ base[j] + split[j] < MainLimit + MaxCost

(* After the downgrade at most one call in flight uses the full model, and *)
(* only until it has been counted.                                         *)
TailInv ==
    /\ \A j \in Jobs : costly[j] <= MaxCost
    /\ \A j \in Jobs : ~down[j] => costly[j] = 0
    /\ \A j \in Jobs : full[j]["stage"] \/ full[j]["autofill"] => costly[j] = 0
    /\ \A j \in Jobs : down[j] => ~(full[j]["stage"] /\ full[j]["autofill"])
-----------------------------------------------------------------------------
(* The starting values have their types.                                   *)
LEMMA InitType == Init => TypeOK
<1> SUFFICES ASSUME Init PROVE TypeOK
  OBVIOUS
<1>1. /\ full \in [Jobs -> [Threads -> BOOLEAN]] /\ down \in [Jobs -> BOOLEAN]
      /\ saved \in [Jobs -> BOOLEAN] /\ filled \in [Jobs -> BOOLEAN]
  BY DEF Init
<1> QED
  BY <1>1, ConstantsAssumption DEF Init, TypeOK, Phases, Results

(* A call that starts or ends keeps the types of what is in flight.        *)
LEMMA CallTypes ==
    ASSUME TypeOK, NEW j \in Jobs, NEW t \in Threads,
           StartCall(j, t) \/ EndCall(j, t) \/ UNCHANGED <<att, full>>
    PROVE  /\ att' \in [Jobs -> [Threads -> 0 .. MaxRetries]]
           /\ full' \in [Jobs -> [Threads -> BOOLEAN]]
<1>1. CASE StartCall(j, t)
  <2>1. att' \in [Jobs -> [Threads -> 0 .. MaxRetries]]
    BY <1>1, ConstantsAssumption DEF StartCall, TypeOK
  <2>2. full' \in [Jobs -> [Threads -> BOOLEAN]]
    BY <1>1 DEF StartCall, TypeOK
  <2> QED
    BY <2>1, <2>2
<1>2. CASE EndCall(j, t)
  <2>1. att' \in [Jobs -> [Threads -> 0 .. MaxRetries]]
    BY <1>2, ConstantsAssumption DEF EndCall, TypeOK
  <2>2. full' \in [Jobs -> [Threads -> BOOLEAN]]
    BY <1>2 DEF EndCall, TypeOK
  <2> QED
    BY <2>1, <2>2
<1>3. CASE UNCHANGED <<att, full>>
  BY <1>3 DEF TypeOK
<1> QED
  BY <1>1, <1>2, <1>3

(* A call that starts or ends leaves all other calls in flight alone.      *)
LEMMA CallEffect ==
    ASSUME TypeOK, NEW j \in Jobs, NEW t \in Threads,
           StartCall(j, t) \/ EndCall(j, t)
    PROVE  /\ \A k \in Jobs, u \in Threads : k # j \/ u # t =>
                att'[k][u] = att[k][u] /\ full'[k][u] = full[k][u]
           /\ StartCall(j, t) => att'[j][t] = 1
           /\ StartCall(j, t) /\ full'[j][t] => ~ForcedLite(j)
           /\ EndCall(j, t) => att'[j][t] = 0 /\ ~full'[j][t]
<1>1. CASE StartCall(j, t)
  <2>1. att'[j][t] = 1 /\ \A k \in Jobs, u \in Threads : k # j \/ u # t => att'[k][u] = att[k][u]
    BY <1>1 DEF StartCall, TypeOK
  <2>2. (full'[j][t] = ~ForcedLite(j)) /\ \A k \in Jobs, u \in Threads : k # j \/ u # t => full'[k][u] = full[k][u]
    BY <1>1 DEF StartCall, TypeOK
  <2>3. ~EndCall(j, t)
    BY <1>1, <2>1 DEF EndCall, TypeOK
  <2> QED
    BY <2>1, <2>2, <2>3
<1>2. CASE EndCall(j, t)
  <2>1. att'[j][t] = 0 /\ \A k \in Jobs, u \in Threads : k # j \/ u # t => att'[k][u] = att[k][u]
    BY <1>2 DEF EndCall, TypeOK
  <2>2. ~full'[j][t] /\ \A k \in Jobs, u \in Threads : k # j \/ u # t => full'[k][u] = full[k][u]
    BY <1>2 DEF EndCall, TypeOK
  <2>3. ~StartCall(j, t)
    BY <1>2, <2>1 DEF StartCall, TypeOK
  <2> QED
    BY <2>1, <2>2, <2>3
<1> QED
  BY <1>1, <1>2

(* The downgrade keeps the types of split and flag.                        *)
LEMMA DowngradeTypes ==
    ASSUME TypeOK, NEW j \in Jobs, NEW n \in Nat, MaybeDowngrade(j, n)
    PROVE  split' \in [Jobs -> Nat \cup {NoSplit}] /\ down' \in [Jobs -> BOOLEAN]
<1>1. down' \in [Jobs -> BOOLEAN]
  BY DEF MaybeDowngrade, TypeOK
<1>2. split' \in [Jobs -> Nat \cup {NoSplit}]
  BY DEF MaybeDowngrade, TypeOK
<1> QED
  BY <1>1, <1>2

(* Every step of an attempt, of its autofill task and every fault keeps    *)
(* the types.                                                              *)
LEMMA TypeStep == TypeOK /\ CallInv /\ BookedInv /\ [Next]_vars => TypeOK'
<1> SUFFICES ASSUME TypeOK, CallInv, BookedInv, [Next]_vars PROVE TypeOK'
  OBVIOUS
<1> USE ConstantsAssumption DEF TypeOK, GoTo, Phases, Running, Closing, Stages, Results,
      Threads, InFlight, NoSplit, account, meter, output, history
<1>1. ASSUME NEW j \in Jobs, PrecheckBlocked(j) PROVE TypeOK'
  BY <1>1 DEF PrecheckBlocked, Return
<1>2. ASSUME NEW j \in Jobs, PrecheckPassed(j) PROVE TypeOK'
  BY <1>2 DEF PrecheckPassed, Fault
<1>3. ASSUME NEW j \in Jobs, Decide(j) PROVE TypeOK'
  BY <1>3 DEF Decide
<1>4. ASSUME NEW j \in Jobs, DecideFails(j) PROVE TypeOK'
  BY <1>4 DEF DecideFails, Return, Fault
<1>5. ASSUME NEW j \in Jobs, StageStops(j) PROVE TypeOK'
  BY <1>5 DEF StageStops, Leave
<1>6. ASSUME NEW j \in Jobs, StageCall(j) PROVE TypeOK'
  BY <1>6 DEF StageCall, StartCall, Fault
<1>7. ASSUME NEW j \in Jobs, NEW cost \in Costs, StageDone(j, cost) PROVE TypeOK'
  <2>1. /\ down' \in [Jobs -> BOOLEAN] /\ saved' \in [Jobs -> BOOLEAN]
        /\ filled' \in [Jobs -> BOOLEAN]
    BY <1>7 DEF StageDone, Meter, MaybeDowngrade, NextStage
  <2>2. /\ paid' \in BOOLEAN /\ main' \in Nat /\ lite' \in Nat
        /\ cancel' \subseteq Jobs /\ unmetered' \subseteq Jobs /\ faults' \in 0 .. MaxFaults
        /\ base' \in [Jobs -> Nat] /\ mode' \in [Jobs -> {"main", "overflow"}]
    BY <1>7 DEF StageDone, Meter, MaybeDowngrade, NextStage, CallInv
  <2>3. pc' \in [Jobs -> Phases] /\ result' \in [Jobs -> Results]
    BY <1>7 DEF StageDone, Meter, MaybeDowngrade, NextStage, CallInv
  <2>4. side' \in [Jobs -> {"none", "check", "calling", "done", "skipped", "failed", "cancelled"}]
    BY <1>7 DEF StageDone, Meter, MaybeDowngrade, NextStage, CallInv
  <2>5. total' \in [Jobs -> Nat] /\ charged' \in [Jobs -> Nat] /\ costly' \in [Jobs -> Nat]
    BY <1>7 DEF StageDone, Meter, MaybeDowngrade, NextStage, CallInv
  <2>6. split' \in [Jobs -> Nat \cup {NoSplit}]
    <3>1. total[j] + cost \in Nat /\ MaybeDowngrade(j, total[j] + cost)
      BY <1>7 DEF StageDone, Meter
    <3> QED
      BY <3>1, DowngradeTypes
  <2>7. /\ att' \in [Jobs -> [Threads -> 0 .. MaxRetries]]
        /\ full' \in [Jobs -> [Threads -> BOOLEAN]]
    <3>1. StartCall(j, "stage") \/ EndCall(j, "stage") \/ UNCHANGED <<att, full>>
      BY <1>7 DEF StageDone, Meter, MaybeDowngrade, NextStage
    <3> QED
      BY <3>1, CallTypes
  <2> QED
    BY <2>1, <2>2, <2>3, <2>4, <2>5, <2>6, <2>7
<1>8. ASSUME NEW j \in Jobs, SaveDesign(j) PROVE TypeOK'
  <2>1. /\ down' \in [Jobs -> BOOLEAN] /\ saved' \in [Jobs -> BOOLEAN]
        /\ filled' \in [Jobs -> BOOLEAN]
    BY <1>8 DEF SaveDesign, Leave, Fault
  <2>2. /\ paid' \in BOOLEAN /\ main' \in Nat /\ lite' \in Nat
        /\ cancel' \subseteq Jobs /\ unmetered' \subseteq Jobs /\ faults' \in 0 .. MaxFaults
        /\ base' \in [Jobs -> Nat] /\ mode' \in [Jobs -> {"main", "overflow"}]
    BY <1>8 DEF SaveDesign, Leave, Fault
  <2>3. pc' \in [Jobs -> Phases] /\ result' \in [Jobs -> Results]
    BY <1>8 DEF SaveDesign, Leave, Fault
  <2>4. side' \in [Jobs -> {"none", "check", "calling", "done", "skipped", "failed", "cancelled"}]
    BY <1>8 DEF SaveDesign, Leave, Fault
  <2>5. total' \in [Jobs -> Nat] /\ charged' \in [Jobs -> Nat] /\ costly' \in [Jobs -> Nat]
    BY <1>8 DEF SaveDesign, Leave, Fault
  <2>6. split' \in [Jobs -> Nat \cup {NoSplit}]
    BY <1>8 DEF SaveDesign, Leave, Fault
  <2>7. /\ att' \in [Jobs -> [Threads -> 0 .. MaxRetries]]
        /\ full' \in [Jobs -> [Threads -> BOOLEAN]]
    <3>1. StartCall(j, "autofill") \/ EndCall(j, "autofill") \/ UNCHANGED <<att, full>>
      BY <1>8 DEF SaveDesign, Leave, Fault
    <3> QED
      BY <3>1, CallTypes
  <2> QED
    BY <2>1, <2>2, <2>3, <2>4, <2>5, <2>6, <2>7
<1>9. ASSUME NEW j \in Jobs, Finish(j) PROVE TypeOK'
  <2>1. /\ down' \in [Jobs -> BOOLEAN] /\ saved' \in [Jobs -> BOOLEAN]
        /\ filled' \in [Jobs -> BOOLEAN]
    BY <1>9 DEF Finish, StopSide, SideIs, Leave
  <2>2. /\ paid' \in BOOLEAN /\ main' \in Nat /\ lite' \in Nat
        /\ cancel' \subseteq Jobs /\ unmetered' \subseteq Jobs /\ faults' \in 0 .. MaxFaults
        /\ base' \in [Jobs -> Nat] /\ mode' \in [Jobs -> {"main", "overflow"}]
    BY <1>9 DEF Finish, StopSide, SideIs, Leave
  <2>3. pc' \in [Jobs -> Phases] /\ result' \in [Jobs -> Results]
    BY <1>9 DEF Finish, StopSide, SideIs, Leave
  <2>4. side' \in [Jobs -> {"none", "check", "calling", "done", "skipped", "failed", "cancelled"}]
    BY <1>9 DEF Finish, StopSide, SideIs, Leave
  <2>5. total' \in [Jobs -> Nat] /\ charged' \in [Jobs -> Nat] /\ costly' \in [Jobs -> Nat]
    BY <1>9 DEF Finish, StopSide, SideIs, Leave
  <2>6. split' \in [Jobs -> Nat \cup {NoSplit}]
    BY <1>9 DEF Finish, StopSide, SideIs, Leave
  <2>7. /\ att' \in [Jobs -> [Threads -> 0 .. MaxRetries]]
        /\ full' \in [Jobs -> [Threads -> BOOLEAN]]
    <3>1. StartCall(j, "autofill") \/ EndCall(j, "autofill") \/ UNCHANGED <<att, full>>
      BY <1>9 DEF Finish, StopSide, SideIs, Leave
    <3> QED
      BY <3>1, CallTypes
  <2> QED
    BY <2>1, <2>2, <2>3, <2>4, <2>5, <2>6, <2>7
<1>10. ASSUME NEW j \in Jobs, Drain(j) PROVE TypeOK'
  <2>1. /\ down' \in [Jobs -> BOOLEAN] /\ saved' \in [Jobs -> BOOLEAN]
        /\ filled' \in [Jobs -> BOOLEAN]
    BY <1>10 DEF Drain, StopSide, SideIs
  <2>2. /\ paid' \in BOOLEAN /\ main' \in Nat /\ lite' \in Nat
        /\ cancel' \subseteq Jobs /\ unmetered' \subseteq Jobs /\ faults' \in 0 .. MaxFaults
        /\ base' \in [Jobs -> Nat] /\ mode' \in [Jobs -> {"main", "overflow"}]
    BY <1>10 DEF Drain, StopSide, SideIs
  <2>3. pc' \in [Jobs -> Phases] /\ result' \in [Jobs -> Results]
    BY <1>10 DEF Drain, StopSide, SideIs
  <2>4. side' \in [Jobs -> {"none", "check", "calling", "done", "skipped", "failed", "cancelled"}]
    BY <1>10 DEF Drain, StopSide, SideIs
  <2>5. total' \in [Jobs -> Nat] /\ charged' \in [Jobs -> Nat] /\ costly' \in [Jobs -> Nat]
    BY <1>10 DEF Drain, StopSide, SideIs
  <2>6. split' \in [Jobs -> Nat \cup {NoSplit}]
    BY <1>10 DEF Drain, StopSide, SideIs
  <2>7. /\ att' \in [Jobs -> [Threads -> 0 .. MaxRetries]]
        /\ full' \in [Jobs -> [Threads -> BOOLEAN]]
    <3>1. StartCall(j, "autofill") \/ EndCall(j, "autofill") \/ UNCHANGED <<att, full>>
      BY <1>10 DEF Drain, StopSide, SideIs
    <3> QED
      BY <3>1, CallTypes
  <2> QED
    BY <2>1, <2>2, <2>3, <2>4, <2>5, <2>6, <2>7
<1>11. ASSUME NEW j \in Jobs, Persist(j) PROVE TypeOK'
  <2>1. /\ down' \in [Jobs -> BOOLEAN] /\ saved' \in [Jobs -> BOOLEAN]
        /\ filled' \in [Jobs -> BOOLEAN]
    BY <1>11 DEF Persist, Add, IsSplit
  <2>2. /\ paid' \in BOOLEAN /\ main' \in Nat /\ lite' \in Nat
        /\ cancel' \subseteq Jobs /\ unmetered' \subseteq Jobs /\ faults' \in 0 .. MaxFaults
        /\ base' \in [Jobs -> Nat] /\ mode' \in [Jobs -> {"main", "overflow"}]
    BY <1>11 DEF Persist, Add, IsSplit
  <2>3. pc' \in [Jobs -> Phases] /\ result' \in [Jobs -> Results]
    BY <1>11 DEF Persist, Add, IsSplit
  <2>4. side' \in [Jobs -> {"none", "check", "calling", "done", "skipped", "failed", "cancelled"}]
    BY <1>11 DEF Persist, Add, IsSplit
  <2>5. total' \in [Jobs -> Nat] /\ charged' \in [Jobs -> Nat] /\ costly' \in [Jobs -> Nat]
    BY <1>11, SMTT(40) DEF Persist, Add, IsSplit
  <2>6. split' \in [Jobs -> Nat \cup {NoSplit}]
    BY <1>11 DEF Persist, Add, IsSplit
  <2>7. /\ att' \in [Jobs -> [Threads -> 0 .. MaxRetries]]
        /\ full' \in [Jobs -> [Threads -> BOOLEAN]]
    <3>1. StartCall(j, "autofill") \/ EndCall(j, "autofill") \/ UNCHANGED <<att, full>>
      BY <1>11 DEF Persist, Add, IsSplit
    <3> QED
      BY <3>1, CallTypes
  <2> QED
    BY <2>1, <2>2, <2>3, <2>4, <2>5, <2>6, <2>7
<1>12. ASSUME NEW j \in Jobs, PersistLite(j) PROVE TypeOK'
  <2>1. /\ down' \in [Jobs -> BOOLEAN] /\ saved' \in [Jobs -> BOOLEAN]
        /\ filled' \in [Jobs -> BOOLEAN]
    BY <1>12 DEF PersistLite, Add
  <2>2. /\ paid' \in BOOLEAN /\ main' \in Nat /\ lite' \in Nat
        /\ cancel' \subseteq Jobs /\ unmetered' \subseteq Jobs /\ faults' \in 0 .. MaxFaults
        /\ base' \in [Jobs -> Nat] /\ mode' \in [Jobs -> {"main", "overflow"}]
    BY <1>12 DEF PersistLite, Add, BookedInv
  <2>3. pc' \in [Jobs -> Phases] /\ result' \in [Jobs -> Results]
    BY <1>12 DEF PersistLite, Add, BookedInv
  <2>4. side' \in [Jobs -> {"none", "check", "calling", "done", "skipped", "failed", "cancelled"}]
    BY <1>12 DEF PersistLite, Add, BookedInv
  <2>5. total' \in [Jobs -> Nat] /\ charged' \in [Jobs -> Nat] /\ costly' \in [Jobs -> Nat]
    BY <1>12 DEF PersistLite, Add, BookedInv
  <2>6. split' \in [Jobs -> Nat \cup {NoSplit}]
    BY <1>12 DEF PersistLite, Add
  <2>7. /\ att' \in [Jobs -> [Threads -> 0 .. MaxRetries]]
        /\ full' \in [Jobs -> [Threads -> BOOLEAN]]
    <3>1. StartCall(j, "autofill") \/ EndCall(j, "autofill") \/ UNCHANGED <<att, full>>
      BY <1>12 DEF PersistLite, Add
    <3> QED
      BY <3>1, CallTypes
  <2> QED
    BY <2>1, <2>2, <2>3, <2>4, <2>5, <2>6, <2>7
<1>13. ASSUME NEW j \in Jobs, Release(j) PROVE TypeOK'
  BY <1>13 DEF Release
<1>14. ASSUME NEW j \in Jobs, AutofillStart(j) PROVE TypeOK'
  <2>1. /\ down' \in [Jobs -> BOOLEAN] /\ saved' \in [Jobs -> BOOLEAN]
        /\ filled' \in [Jobs -> BOOLEAN]
    BY <1>14 DEF AutofillStart, SideIs, Fault
  <2>2. /\ paid' \in BOOLEAN /\ main' \in Nat /\ lite' \in Nat
        /\ cancel' \subseteq Jobs /\ unmetered' \subseteq Jobs /\ faults' \in 0 .. MaxFaults
        /\ base' \in [Jobs -> Nat] /\ mode' \in [Jobs -> {"main", "overflow"}]
    BY <1>14 DEF AutofillStart, SideIs, Fault
  <2>3. pc' \in [Jobs -> Phases] /\ result' \in [Jobs -> Results]
    BY <1>14 DEF AutofillStart, SideIs, Fault
  <2>4. side' \in [Jobs -> {"none", "check", "calling", "done", "skipped", "failed", "cancelled"}]
    BY <1>14 DEF AutofillStart, SideIs, Fault
  <2>5. total' \in [Jobs -> Nat] /\ charged' \in [Jobs -> Nat] /\ costly' \in [Jobs -> Nat]
    BY <1>14 DEF AutofillStart, SideIs, Fault
  <2>6. split' \in [Jobs -> Nat \cup {NoSplit}]
    BY <1>14 DEF AutofillStart, SideIs, Fault
  <2>7. /\ att' \in [Jobs -> [Threads -> 0 .. MaxRetries]]
        /\ full' \in [Jobs -> [Threads -> BOOLEAN]]
    <3>1. StartCall(j, "autofill") \/ EndCall(j, "autofill") \/ UNCHANGED <<att, full>>
      BY <1>14 DEF AutofillStart, SideIs, Fault
    <3> QED
      BY <3>1, CallTypes
  <2> QED
    BY <2>1, <2>2, <2>3, <2>4, <2>5, <2>6, <2>7
<1>15. ASSUME NEW j \in Jobs, NEW cost \in Costs, AutofillDone(j, cost) PROVE TypeOK'
  <2>1. /\ down' \in [Jobs -> BOOLEAN] /\ saved' \in [Jobs -> BOOLEAN]
        /\ filled' \in [Jobs -> BOOLEAN]
    BY <1>15 DEF AutofillDone, Meter, MaybeDowngrade, SideIs
  <2>2. /\ paid' \in BOOLEAN /\ main' \in Nat /\ lite' \in Nat
        /\ cancel' \subseteq Jobs /\ unmetered' \subseteq Jobs /\ faults' \in 0 .. MaxFaults
        /\ base' \in [Jobs -> Nat] /\ mode' \in [Jobs -> {"main", "overflow"}]
    BY <1>15 DEF AutofillDone, Meter, MaybeDowngrade, SideIs
  <2>3. pc' \in [Jobs -> Phases] /\ result' \in [Jobs -> Results]
    BY <1>15 DEF AutofillDone, Meter, MaybeDowngrade, SideIs
  <2>4. side' \in [Jobs -> {"none", "check", "calling", "done", "skipped", "failed", "cancelled"}]
    BY <1>15 DEF AutofillDone, Meter, MaybeDowngrade, SideIs
  <2>5. total' \in [Jobs -> Nat] /\ charged' \in [Jobs -> Nat] /\ costly' \in [Jobs -> Nat]
    BY <1>15 DEF AutofillDone, Meter, MaybeDowngrade, SideIs
  <2>6. split' \in [Jobs -> Nat \cup {NoSplit}]
    <3>1. total[j] + cost \in Nat /\ MaybeDowngrade(j, total[j] + cost)
      BY <1>15 DEF AutofillDone, Meter
    <3> QED
      BY <3>1, DowngradeTypes
  <2>7. /\ att' \in [Jobs -> [Threads -> 0 .. MaxRetries]]
        /\ full' \in [Jobs -> [Threads -> BOOLEAN]]
    <3>1. StartCall(j, "autofill") \/ EndCall(j, "autofill") \/ UNCHANGED <<att, full>>
      BY <1>15 DEF AutofillDone, Meter, MaybeDowngrade, SideIs
    <3> QED
      BY <3>1, CallTypes
  <2> QED
    BY <2>1, <2>2, <2>3, <2>4, <2>5, <2>6, <2>7
<1>16. ASSUME NEW j \in Jobs, LockTimeout(j) PROVE TypeOK'
  BY <1>16 DEF LockTimeout, Leave, Fault
<1>17. ASSUME NEW j \in Jobs, PrecheckFailed(j) PROVE TypeOK'
  BY <1>17 DEF PrecheckFailed, Leave, Fault
<1>18. ASSUME NEW j \in Jobs, NEW t \in Threads, NEW kind \in Kinds, RetryCall(j, t, kind) PROVE TypeOK'
  BY <1>18 DEF RetryCall
<1>19. ASSUME NEW j \in Jobs, NEW kind \in Kinds, StageFails(j, kind) PROVE TypeOK'
  BY <1>19 DEF StageFails, Raises, EndCall, Leave, Fault
<1>20. ASSUME NEW j \in Jobs, NEW kind \in Kinds, AutofillFails(j, kind) PROVE TypeOK'
  BY <1>20 DEF AutofillFails, Raises, EndCall, SideIs, Fault
<1>21. ASSUME NEW j \in Jobs, PersistFails(j) PROVE TypeOK'
  BY <1>21 DEF PersistFails, Fault
<1>22. ASSUME NEW j \in Jobs, RequestCancel(j) PROVE TypeOK'
  BY <1>22 DEF RequestCancel
<1>23. ASSUME NEW j \in Jobs, Interrupt(j) PROVE TypeOK'
  BY <1>23 DEF Interrupt, EndCall, Leave, Fault
<1>24. ASSUME NEW j \in Jobs, Crash(j) PROVE TypeOK'
  BY <1>24 DEF Crash, Fault
<1>25. CASE UNCHANGED vars
  BY <1>25 DEF vars
<1> HIDE DEF TypeOK, GoTo, Phases, Running, Closing, Stages, Results, Threads, InFlight,
      NoSplit, account, meter, output, history
<1> QED
  BY <1>1, <1>2, <1>3, <1>4, <1>5, <1>6, <1>7, <1>8, <1>9, <1>10, <1>11, <1>12, <1>13,
     <1>14, <1>15, <1>16, <1>17, <1>18, <1>19, <1>20, <1>21, <1>22, <1>23, <1>24, <1>25
     DEF Next, Step, AutofillStep, Disturb

(* Tasks and calls end in the order the finally clause imposes.            *)
LEMMA CallStep == TypeOK /\ CallInv /\ [Next]_vars => CallInv'
<1> SUFFICES ASSUME TypeOK, CallInv, [Next]_vars PROVE CallInv'
  OBVIOUS
<1> USE ConstantsAssumption DEF CallInv, TypeOK, GoTo, Running, Closing, Stages, Threads,
      InFlight, SideRuns, account, meter, output, history
<1>1. ASSUME NEW j \in Jobs, PrecheckBlocked(j) PROVE CallInv'
  BY <1>1 DEF PrecheckBlocked, Return
<1>2. ASSUME NEW j \in Jobs, PrecheckPassed(j) PROVE CallInv'
  BY <1>2 DEF PrecheckPassed, Fault
<1>3. ASSUME NEW j \in Jobs, Decide(j) PROVE CallInv'
  BY <1>3 DEF Decide
<1>4. ASSUME NEW j \in Jobs, DecideFails(j) PROVE CallInv'
  BY <1>4 DEF DecideFails, Return, Fault
<1>5. ASSUME NEW j \in Jobs, StageStops(j) PROVE CallInv'
  BY <1>5 DEF StageStops, Leave
<1>6. ASSUME NEW j \in Jobs, StageCall(j) PROVE CallInv'
  BY <1>6 DEF StageCall, StartCall, Fault
<1>7. ASSUME NEW j \in Jobs, NEW cost \in Costs, StageDone(j, cost) PROVE CallInv'
  <2>1. (\A k \in Jobs : InFlight(k, "stage") => pc[k] \in Stages)'
    BY <1>7, CallEffect DEF StageDone, NextStage
  <2>2. (\A k \in Jobs : InFlight(k, "autofill") => side[k] = "calling")'
    BY <1>7, CallEffect DEF StageDone, NextStage
  <2>3. (\A k \in Jobs : SideRuns(k) => pc[k] \in (Running \ {"spack"}) \cup {"drain"})'
    BY <1>7 DEF StageDone, NextStage
  <2> QED
    BY <2>1, <2>2, <2>3 DEF CallInv
<1>8. ASSUME NEW j \in Jobs, SaveDesign(j) PROVE CallInv'
  BY <1>8 DEF SaveDesign, Leave, Fault
<1>9. ASSUME NEW j \in Jobs, Finish(j) PROVE CallInv'
  <2>1. (\A k \in Jobs : InFlight(k, "stage") => pc[k] \in Stages)'
    BY <1>9, CallEffect DEF Finish, StopSide, SideIs, Leave
  <2>2. (\A k \in Jobs : InFlight(k, "autofill") => side[k] = "calling")'
    BY <1>9, CallEffect DEF Finish, StopSide, SideIs, Leave
  <2>3. (\A k \in Jobs : SideRuns(k) => pc[k] \in (Running \ {"spack"}) \cup {"drain"})'
    BY <1>9 DEF Finish, StopSide, SideIs, Leave
  <2> QED
    BY <2>1, <2>2, <2>3 DEF CallInv
<1>10. ASSUME NEW j \in Jobs, Drain(j) PROVE CallInv'
  <2>1. (\A k \in Jobs : InFlight(k, "stage") => pc[k] \in Stages)'
    BY <1>10, CallEffect DEF Drain, StopSide, SideIs
  <2>2. (\A k \in Jobs : InFlight(k, "autofill") => side[k] = "calling")'
    BY <1>10, CallEffect DEF Drain, StopSide, SideIs
  <2>3. (\A k \in Jobs : SideRuns(k) => pc[k] \in (Running \ {"spack"}) \cup {"drain"})'
    BY <1>10 DEF Drain, StopSide, SideIs
  <2> QED
    BY <2>1, <2>2, <2>3 DEF CallInv
<1>11. ASSUME NEW j \in Jobs, Persist(j) PROVE CallInv'
  BY <1>11 DEF Persist, Add, IsSplit
<1>12. ASSUME NEW j \in Jobs, PersistLite(j) PROVE CallInv'
  BY <1>12 DEF PersistLite, Add
<1>13. ASSUME NEW j \in Jobs, Release(j) PROVE CallInv'
  BY <1>13 DEF Release
<1>14. ASSUME NEW j \in Jobs, AutofillStart(j) PROVE CallInv'
  <2>1. (\A k \in Jobs : InFlight(k, "stage") => pc[k] \in Stages)'
    BY <1>14, CallEffect DEF AutofillStart, SideIs, Fault
  <2>2. (\A k \in Jobs : InFlight(k, "autofill") => side[k] = "calling")'
    <3>1. \A k \in Jobs : k # j => att'[k]["autofill"] = att[k]["autofill"] /\ side'[k] = side[k]
      BY <1>14, CallEffect DEF AutofillStart, SideIs, Fault
    <3>2. side'[j] = "calling" \/ att'[j]["autofill"] = att[j]["autofill"]
      BY <1>14 DEF AutofillStart, SideIs
    <3>3. ~ InFlight(j, "autofill")
      BY <1>14 DEF AutofillStart
    <3> QED
      BY <3>1, <3>2, <3>3
  <2>3. (\A k \in Jobs : SideRuns(k) => pc[k] \in (Running \ {"spack"}) \cup {"drain"})'
    BY <1>14 DEF AutofillStart, SideIs, Fault
  <2> QED
    BY <2>1, <2>2, <2>3 DEF CallInv
<1>15. ASSUME NEW j \in Jobs, NEW cost \in Costs, AutofillDone(j, cost) PROVE CallInv'
  <2>1. (\A k \in Jobs : InFlight(k, "stage") => pc[k] \in Stages)'
    BY <1>15, CallEffect DEF AutofillDone, SideIs
  <2>2. (\A k \in Jobs : InFlight(k, "autofill") => side[k] = "calling")'
    BY <1>15, CallEffect DEF AutofillDone, SideIs
  <2>3. (\A k \in Jobs : SideRuns(k) => pc[k] \in (Running \ {"spack"}) \cup {"drain"})'
    BY <1>15 DEF AutofillDone, SideIs
  <2> QED
    BY <2>1, <2>2, <2>3 DEF CallInv
<1>16. ASSUME NEW j \in Jobs, LockTimeout(j) PROVE CallInv'
  BY <1>16 DEF LockTimeout, Leave, Fault
<1>17. ASSUME NEW j \in Jobs, PrecheckFailed(j) PROVE CallInv'
  BY <1>17 DEF PrecheckFailed, Leave, Fault
<1>18. ASSUME NEW j \in Jobs, NEW t \in Threads, NEW kind \in Kinds, RetryCall(j, t, kind) PROVE CallInv'
  BY <1>18 DEF RetryCall
<1>19. ASSUME NEW j \in Jobs, NEW kind \in Kinds, StageFails(j, kind) PROVE CallInv'
  BY <1>19 DEF StageFails, Raises, EndCall, Leave, Fault
<1>20. ASSUME NEW j \in Jobs, NEW kind \in Kinds, AutofillFails(j, kind) PROVE CallInv'
  BY <1>20 DEF AutofillFails, Raises, EndCall, SideIs, Fault
<1>21. ASSUME NEW j \in Jobs, PersistFails(j) PROVE CallInv'
  BY <1>21 DEF PersistFails, Fault
<1>22. ASSUME NEW j \in Jobs, RequestCancel(j) PROVE CallInv'
  BY <1>22 DEF RequestCancel
<1>23. ASSUME NEW j \in Jobs, Interrupt(j) PROVE CallInv'
  BY <1>23 DEF Interrupt, EndCall, Leave, Fault
<1>24. ASSUME NEW j \in Jobs, Crash(j) PROVE CallInv'
  BY <1>24 DEF Crash, Fault
<1>25. CASE UNCHANGED vars
  BY <1>25 DEF vars
<1> HIDE DEF CallInv, TypeOK, GoTo, Running, Closing, Stages, Threads, InFlight, SideRuns,
      account, meter, output, history
<1> QED
  BY <1>1, <1>2, <1>3, <1>4, <1>5, <1>6, <1>7, <1>8, <1>9, <1>10, <1>11, <1>12, <1>13,
     <1>14, <1>15, <1>16, <1>17, <1>18, <1>19, <1>20, <1>21, <1>22, <1>23, <1>24, <1>25
     DEF Next, Step, AutofillStep, Disturb

(* The answer follows the store.                                           *)
LEMMA HonestStep == TypeOK /\ CallInv /\ HonestInv /\ [Next]_vars => HonestInv'
<1> SUFFICES ASSUME TypeOK, CallInv, HonestInv, [Next]_vars PROVE HonestInv'
  OBVIOUS
<1> USE ConstantsAssumption DEF HonestInv, CallInv, Results, TypeOK, GoTo, Running,
      Closing, Stages, Threads, InFlight, SideRuns, account, meter, output, history
<1>1. ASSUME NEW j \in Jobs, PrecheckBlocked(j) PROVE HonestInv'
  BY <1>1 DEF PrecheckBlocked, Return
<1>2. ASSUME NEW j \in Jobs, PrecheckPassed(j) PROVE HonestInv'
  BY <1>2 DEF PrecheckPassed, Fault
<1>3. ASSUME NEW j \in Jobs, Decide(j) PROVE HonestInv'
  BY <1>3 DEF Decide
<1>4. ASSUME NEW j \in Jobs, DecideFails(j) PROVE HonestInv'
  BY <1>4 DEF DecideFails, Return, Fault
<1>5. ASSUME NEW j \in Jobs, StageStops(j) PROVE HonestInv'
  <2>1. (\A k \in Jobs : pc[k] \in {"new", "decide"} \cup Running => result[k] = "none")'
    <3>1. pc' = [pc EXCEPT ![j] = "drain"]
      BY <1>5 DEF StageStops, Leave
    <3>2. \A k \in Jobs \ {j} : result'[k] = result[k]
      BY <1>5 DEF StageStops, Leave
    <3> QED
      BY <3>1, <3>2
  <2>2. (\A k \in Jobs : saved[k] => pc[k] = "finish" \/ result[k] \in {"ok", "raised"})'
    BY <1>5, SMTT(40) DEF StageStops, Leave
  <2>3. (\A k \in Jobs : pc[k] = "finish" \/ result[k] = "ok" \/ filled[k] => saved[k])'
    BY <1>5 DEF StageStops, Leave
  <2> QED
    BY <2>1, <2>2, <2>3 DEF HonestInv
<1>6. ASSUME NEW j \in Jobs, StageCall(j) PROVE HonestInv'
  BY <1>6 DEF StageCall, StartCall, Fault
<1>7. ASSUME NEW j \in Jobs, NEW cost \in Costs, StageDone(j, cost) PROVE HonestInv'
  BY <1>7 DEF StageDone, Meter, MaybeDowngrade, EndCall, NextStage
<1>8. ASSUME NEW j \in Jobs, SaveDesign(j) PROVE HonestInv'
  <2>1. (\A k \in Jobs : pc[k] \in {"new", "decide"} \cup Running => result[k] = "none")'
    BY <1>8 DEF SaveDesign, Leave, Fault
  <2>2. (\A k \in Jobs : saved[k] => pc[k] = "finish" \/ result[k] \in {"ok", "raised"})'
    BY <1>8 DEF SaveDesign, Leave, Fault
  <2>3. (\A k \in Jobs : pc[k] = "finish" \/ result[k] = "ok" \/ filled[k] => saved[k])'
    <3>1. CASE saved' = [saved EXCEPT ![j] = TRUE] /\ UNCHANGED result
      <4>1. saved'[j] /\ \A k \in Jobs \ {j} : saved'[k] = saved[k]
        BY <3>1
      <4>2. /\ \A k \in Jobs \ {j} : pc'[k] = pc[k]
            /\ UNCHANGED <<result, filled>>
        BY <1>8, <3>1 DEF SaveDesign, Leave
      <4> QED
        BY <4>1, <4>2
    <3>2. CASE Leave(j, "error") /\ UNCHANGED saved
      <4>1. ~saved[j] /\ ~filled[j]
        BY <1>8 DEF SaveDesign
      <4> QED
        BY <1>8, <3>2, <4>1 DEF SaveDesign, Leave
    <3> QED
      BY <1>8, <3>1, <3>2 DEF SaveDesign
  <2> QED
    BY <2>1, <2>2, <2>3 DEF HonestInv
<1>9. ASSUME NEW j \in Jobs, Finish(j) PROVE HonestInv'
  BY <1>9 DEF Finish, StopSide, SideIs, EndCall, Leave
<1>10. ASSUME NEW j \in Jobs, Drain(j) PROVE HonestInv'
  BY <1>10 DEF Drain, StopSide, SideIs, EndCall
<1>11. ASSUME NEW j \in Jobs, Persist(j) PROVE HonestInv'
  BY <1>11 DEF Persist, Add, IsSplit
<1>12. ASSUME NEW j \in Jobs, PersistLite(j) PROVE HonestInv'
  BY <1>12 DEF PersistLite, Add
<1>13. ASSUME NEW j \in Jobs, Release(j) PROVE HonestInv'
  BY <1>13 DEF Release
<1>14. ASSUME NEW j \in Jobs, AutofillStart(j) PROVE HonestInv'
  BY <1>14 DEF AutofillStart, SideIs, StartCall, Fault
<1>15. ASSUME NEW j \in Jobs, NEW cost \in Costs, AutofillDone(j, cost) PROVE HonestInv'
  BY <1>15 DEF AutofillDone, Meter, MaybeDowngrade, EndCall, SideIs
<1>16. ASSUME NEW j \in Jobs, LockTimeout(j) PROVE HonestInv'
  BY <1>16 DEF LockTimeout, Leave, Fault
<1>17. ASSUME NEW j \in Jobs, PrecheckFailed(j) PROVE HonestInv'
  BY <1>17 DEF PrecheckFailed, Leave, Fault
<1>18. ASSUME NEW j \in Jobs, NEW t \in Threads, NEW kind \in Kinds, RetryCall(j, t, kind) PROVE HonestInv'
  BY <1>18 DEF RetryCall
<1>19. ASSUME NEW j \in Jobs, NEW kind \in Kinds, StageFails(j, kind) PROVE HonestInv'
  BY <1>19, SMTT(40) DEF StageFails, Raises, EndCall, Leave, Fault
<1>20. ASSUME NEW j \in Jobs, NEW kind \in Kinds, AutofillFails(j, kind) PROVE HonestInv'
  BY <1>20 DEF AutofillFails, Raises, EndCall, SideIs, Fault
<1>21. ASSUME NEW j \in Jobs, PersistFails(j) PROVE HonestInv'
  BY <1>21 DEF PersistFails, Fault
<1>22. ASSUME NEW j \in Jobs, RequestCancel(j) PROVE HonestInv'
  BY <1>22 DEF RequestCancel
<1>23. ASSUME NEW j \in Jobs, Interrupt(j) PROVE HonestInv'
  BY <1>23 DEF Interrupt, EndCall, Leave, Fault
<1>24. ASSUME NEW j \in Jobs, Crash(j) PROVE HonestInv'
  BY <1>24 DEF Crash, Fault
<1>25. CASE UNCHANGED vars
  BY <1>25 DEF vars
<1> HIDE DEF HonestInv, CallInv, Results, TypeOK, GoTo, Running, Closing, Stages, Threads,
      InFlight, SideRuns, account, meter, output, history
<1> QED
  BY <1>1, <1>2, <1>3, <1>4, <1>5, <1>6, <1>7, <1>8, <1>9, <1>10, <1>11, <1>12, <1>13,
     <1>14, <1>15, <1>16, <1>17, <1>18, <1>19, <1>20, <1>21, <1>22, <1>23, <1>24, <1>25
     DEF Next, Step, AutofillStep, Disturb

(* The finally clause books what the accumulator holds.                    *)
LEMMA BookedStep == TypeOK /\ CallInv /\ BookedInv /\ [Next]_vars => BookedInv'
<1> SUFFICES ASSUME TypeOK, CallInv, BookedInv, [Next]_vars PROVE BookedInv'
  OBVIOUS
<1> USE ConstantsAssumption DEF BookedInv, CallInv, NoSplit, TypeOK, GoTo, Running,
      Closing, Stages, Threads, InFlight, SideRuns, account, meter, output, history
<1>1. ASSUME NEW j \in Jobs, PrecheckBlocked(j) PROVE BookedInv'
  BY <1>1 DEF PrecheckBlocked, Return
<1>2. ASSUME NEW j \in Jobs, PrecheckPassed(j) PROVE BookedInv'
  BY <1>2 DEF PrecheckPassed, Fault
<1>3. ASSUME NEW j \in Jobs, Decide(j) PROVE BookedInv'
  BY <1>3 DEF Decide
<1>4. ASSUME NEW j \in Jobs, DecideFails(j) PROVE BookedInv'
  BY <1>4 DEF DecideFails, Return, Fault
<1>5. ASSUME NEW j \in Jobs, StageStops(j) PROVE BookedInv'
  BY <1>5 DEF StageStops, Leave
<1>6. ASSUME NEW j \in Jobs, StageCall(j) PROVE BookedInv'
  BY <1>6 DEF StageCall, StartCall, Fault
<1>7. ASSUME NEW j \in Jobs, NEW cost \in Costs, StageDone(j, cost) PROVE BookedInv'
  <2>1. (\A k \in Jobs : pc[k] \in {"new", "decide"} => total[k] = 0)'
    BY <1>7 DEF StageDone, Meter, MaybeDowngrade, EndCall, NextStage
  <2>2. (\A k \in Jobs : pc[k] \in {"new", "decide", "drain", "persist"} \cup Running
                             => charged[k] = 0)'
    BY <1>7 DEF StageDone, Meter, MaybeDowngrade, EndCall, NextStage
  <2>3. (\A k \in Jobs : pc[k] = "persist_lite" =>
            /\ charged[k] = split[k]
            /\ split[k] \in Nat /\ split[k] < total[k])'
    BY <1>7 DEF StageDone, Meter, MaybeDowngrade, EndCall, NextStage
  <2>4. (\A k \in Jobs : pc[k] \in {"release", "ended"} /\ k \notin unmetered
                             => charged[k] = total[k])'
    BY <1>7 DEF StageDone, Meter, MaybeDowngrade, EndCall, NextStage
  <2> QED
    BY <2>1, <2>2, <2>3, <2>4 DEF BookedInv
<1>8. ASSUME NEW j \in Jobs, SaveDesign(j) PROVE BookedInv'
  BY <1>8 DEF SaveDesign, Leave, Fault
<1>9. ASSUME NEW j \in Jobs, Finish(j) PROVE BookedInv'
  BY <1>9 DEF Finish, StopSide, SideIs, EndCall, Leave
<1>10. ASSUME NEW j \in Jobs, Drain(j) PROVE BookedInv'
  BY <1>10 DEF Drain, StopSide, SideIs, EndCall
<1>11. ASSUME NEW j \in Jobs, Persist(j) PROVE BookedInv'
  <2>1. (\A k \in Jobs : pc[k] \in {"new", "decide"} => total[k] = 0)'
    BY <1>11 DEF Persist, Add, IsSplit
  <2>2. (\A k \in Jobs : pc[k] \in {"new", "decide", "drain", "persist"} \cup Running
                             => charged[k] = 0)'
    BY <1>11 DEF Persist, Add, IsSplit
  <2>3. (\A k \in Jobs : pc[k] = "persist_lite" =>
            /\ charged[k] = split[k]
            /\ split[k] \in Nat /\ split[k] < total[k])'
    BY <1>11 DEF Persist, Add, IsSplit
  <2>4. (\A k \in Jobs : pc[k] \in {"release", "ended"} /\ k \notin unmetered
                             => charged[k] = total[k])'
    BY <1>11 DEF Persist, Add, IsSplit
  <2> QED
    BY <2>1, <2>2, <2>3, <2>4 DEF BookedInv
<1>12. ASSUME NEW j \in Jobs, PersistLite(j) PROVE BookedInv'
  BY <1>12 DEF PersistLite, Add
<1>13. ASSUME NEW j \in Jobs, Release(j) PROVE BookedInv'
  BY <1>13 DEF Release
<1>14. ASSUME NEW j \in Jobs, AutofillStart(j) PROVE BookedInv'
  BY <1>14 DEF AutofillStart, SideIs, StartCall, Fault
<1>15. ASSUME NEW j \in Jobs, NEW cost \in Costs, AutofillDone(j, cost) PROVE BookedInv'
  <2>1. (\A k \in Jobs : pc[k] \in {"new", "decide"} => total[k] = 0)'
    BY <1>15 DEF AutofillDone, Meter, MaybeDowngrade, EndCall, SideIs
  <2>2. (\A k \in Jobs : pc[k] \in {"new", "decide", "drain", "persist"} \cup Running
                             => charged[k] = 0)'
    BY <1>15 DEF AutofillDone, Meter, MaybeDowngrade, EndCall, SideIs
  <2>3. (\A k \in Jobs : pc[k] = "persist_lite" =>
            /\ charged[k] = split[k]
            /\ split[k] \in Nat /\ split[k] < total[k])'
    BY <1>15 DEF AutofillDone, Meter, MaybeDowngrade, EndCall, SideIs
  <2>4. (\A k \in Jobs : pc[k] \in {"release", "ended"} /\ k \notin unmetered
                             => charged[k] = total[k])'
    BY <1>15 DEF AutofillDone, Meter, MaybeDowngrade, EndCall, SideIs
  <2> QED
    BY <2>1, <2>2, <2>3, <2>4 DEF BookedInv
<1>16. ASSUME NEW j \in Jobs, LockTimeout(j) PROVE BookedInv'
  BY <1>16 DEF LockTimeout, Leave, Fault
<1>17. ASSUME NEW j \in Jobs, PrecheckFailed(j) PROVE BookedInv'
  BY <1>17 DEF PrecheckFailed, Leave, Fault
<1>18. ASSUME NEW j \in Jobs, NEW t \in Threads, NEW kind \in Kinds, RetryCall(j, t, kind) PROVE BookedInv'
  BY <1>18 DEF RetryCall
<1>19. ASSUME NEW j \in Jobs, NEW kind \in Kinds, StageFails(j, kind) PROVE BookedInv'
  BY <1>19 DEF StageFails, Raises, EndCall, Leave, Fault
<1>20. ASSUME NEW j \in Jobs, NEW kind \in Kinds, AutofillFails(j, kind) PROVE BookedInv'
  BY <1>20 DEF AutofillFails, Raises, EndCall, SideIs, Fault
<1>21. ASSUME NEW j \in Jobs, PersistFails(j) PROVE BookedInv'
  BY <1>21 DEF PersistFails, Fault
<1>22. ASSUME NEW j \in Jobs, RequestCancel(j) PROVE BookedInv'
  BY <1>22 DEF RequestCancel
<1>23. ASSUME NEW j \in Jobs, Interrupt(j) PROVE BookedInv'
  BY <1>23 DEF Interrupt, EndCall, Leave, Fault
<1>24. ASSUME NEW j \in Jobs, Crash(j) PROVE BookedInv'
  BY <1>24 DEF Crash, Fault
<1>25. CASE UNCHANGED vars
  BY <1>25 DEF vars
<1> HIDE DEF BookedInv, CallInv, NoSplit, TypeOK, GoTo, Running, Closing, Stages, Threads,
      InFlight, SideRuns, account, meter, output, history
<1> QED
  BY <1>1, <1>2, <1>3, <1>4, <1>5, <1>6, <1>7, <1>8, <1>9, <1>10, <1>11, <1>12, <1>13,
     <1>14, <1>15, <1>16, <1>17, <1>18, <1>19, <1>20, <1>21, <1>22, <1>23, <1>24, <1>25
     DEF Next, Step, AutofillStep, Disturb

(* The downgrade happens with the call that reaches the limit.             *)
LEMMA SplitStep == TypeOK /\ CallInv /\ SplitInv /\ [Next]_vars => SplitInv'
<1> SUFFICES ASSUME TypeOK, CallInv, SplitInv, [Next]_vars PROVE SplitInv'
  OBVIOUS
<1> USE ConstantsAssumption DEF SplitInv, CallInv, Armed, NoSplit, TypeOK, GoTo, Running,
      Closing, Stages, Threads, InFlight, SideRuns, account, meter, output, history
<1>1. ASSUME NEW j \in Jobs, PrecheckBlocked(j) PROVE SplitInv'
  BY <1>1 DEF PrecheckBlocked, Return
<1>2. ASSUME NEW j \in Jobs, PrecheckPassed(j) PROVE SplitInv'
  BY <1>2 DEF PrecheckPassed, Fault
<1>3. ASSUME NEW j \in Jobs, Decide(j) PROVE SplitInv'
  <2>1. (\A k \in Jobs : pc[k] \in {"new", "decide"} => total[k] = 0 /\ ~down[k] /\ split[k] = NoSplit)'
    BY <1>3 DEF Decide
  <2>2. (\A k \in Jobs : Armed(k) /\ ~down[k] => split[k] = NoSplit /\ base[k] + total[k] < MainLimit)'
    <3>1. total[j] = 0 /\ ~down[j] /\ split[j] = NoSplit
      BY <1>3 DEF Decide
    <3>2. (mode'[j] = "main" /\ paid') => base'[j] < MainLimit
      BY <1>3 DEF Decide
    <3>3. \A k \in Jobs \ {j} : base'[k] = base[k] /\ mode'[k] = mode[k]
      BY <1>3 DEF Decide
    <3> QED
      BY <1>3, <3>1, <3>2, <3>3 DEF Decide
  <2>3. (\A k \in Jobs : down[k] => split[k] \in Nat /\ base[k] + split[k] < MainLimit + MaxCost)'
    BY <1>3 DEF Decide
  <2> QED
    BY <2>1, <2>2, <2>3 DEF SplitInv
<1>4. ASSUME NEW j \in Jobs, DecideFails(j) PROVE SplitInv'
  BY <1>4 DEF DecideFails, Return, Fault
<1>5. ASSUME NEW j \in Jobs, StageStops(j) PROVE SplitInv'
  BY <1>5 DEF StageStops, Leave
<1>6. ASSUME NEW j \in Jobs, StageCall(j) PROVE SplitInv'
  BY <1>6 DEF StageCall, StartCall, Fault
<1>7. ASSUME NEW j \in Jobs, NEW cost \in Costs, StageDone(j, cost) PROVE SplitInv'
  <2>1. (\A k \in Jobs : pc[k] \in {"new", "decide"} => total[k] = 0 /\ ~down[k] /\ split[k] = NoSplit)'
    BY <1>7 DEF StageDone, Meter, MaybeDowngrade, NextStage
  <2>2. (\A k \in Jobs : Armed(k) /\ ~down[k] => split[k] = NoSplit /\ base[k] + total[k] < MainLimit)'
    BY <1>7 DEF StageDone, Meter, MaybeDowngrade, NextStage
  <2>3. (\A k \in Jobs : down[k] => split[k] \in Nat /\ base[k] + split[k] < MainLimit + MaxCost)'
    BY <1>7 DEF StageDone, Meter, MaybeDowngrade, NextStage
  <2> QED
    BY <2>1, <2>2, <2>3 DEF SplitInv
<1>8. ASSUME NEW j \in Jobs, SaveDesign(j) PROVE SplitInv'
  BY <1>8 DEF SaveDesign, Leave, Fault
<1>9. ASSUME NEW j \in Jobs, Finish(j) PROVE SplitInv'
  BY <1>9 DEF Finish, StopSide, SideIs, EndCall, Leave
<1>10. ASSUME NEW j \in Jobs, Drain(j) PROVE SplitInv'
  BY <1>10 DEF Drain, StopSide, SideIs, EndCall
<1>11. ASSUME NEW j \in Jobs, Persist(j) PROVE SplitInv'
  BY <1>11 DEF Persist, Add, IsSplit
<1>12. ASSUME NEW j \in Jobs, PersistLite(j) PROVE SplitInv'
  BY <1>12 DEF PersistLite, Add
<1>13. ASSUME NEW j \in Jobs, Release(j) PROVE SplitInv'
  BY <1>13 DEF Release
<1>14. ASSUME NEW j \in Jobs, AutofillStart(j) PROVE SplitInv'
  BY <1>14 DEF AutofillStart, SideIs, StartCall, Fault
<1>15. ASSUME NEW j \in Jobs, NEW cost \in Costs, AutofillDone(j, cost) PROVE SplitInv'
  <2>1. (\A k \in Jobs : pc[k] \in {"new", "decide"} => total[k] = 0 /\ ~down[k] /\ split[k] = NoSplit)'
    BY <1>15 DEF AutofillDone, Meter, MaybeDowngrade
  <2>2. (\A k \in Jobs : Armed(k) /\ ~down[k] => split[k] = NoSplit /\ base[k] + total[k] < MainLimit)'
    BY <1>15 DEF AutofillDone, Meter, MaybeDowngrade
  <2>3. (\A k \in Jobs : down[k] => split[k] \in Nat /\ base[k] + split[k] < MainLimit + MaxCost)'
    BY <1>15, SMTT(40) DEF AutofillDone, Meter, MaybeDowngrade
  <2> QED
    BY <2>1, <2>2, <2>3 DEF SplitInv
<1>16. ASSUME NEW j \in Jobs, LockTimeout(j) PROVE SplitInv'
  BY <1>16 DEF LockTimeout, Leave, Fault
<1>17. ASSUME NEW j \in Jobs, PrecheckFailed(j) PROVE SplitInv'
  BY <1>17 DEF PrecheckFailed, Leave, Fault
<1>18. ASSUME NEW j \in Jobs, NEW t \in Threads, NEW kind \in Kinds, RetryCall(j, t, kind) PROVE SplitInv'
  BY <1>18 DEF RetryCall
<1>19. ASSUME NEW j \in Jobs, NEW kind \in Kinds, StageFails(j, kind) PROVE SplitInv'
  BY <1>19 DEF StageFails, Raises, EndCall, Leave, Fault
<1>20. ASSUME NEW j \in Jobs, NEW kind \in Kinds, AutofillFails(j, kind) PROVE SplitInv'
  BY <1>20 DEF AutofillFails, Raises, EndCall, SideIs, Fault
<1>21. ASSUME NEW j \in Jobs, PersistFails(j) PROVE SplitInv'
  BY <1>21 DEF PersistFails, Fault
<1>22. ASSUME NEW j \in Jobs, RequestCancel(j) PROVE SplitInv'
  BY <1>22 DEF RequestCancel
<1>23. ASSUME NEW j \in Jobs, Interrupt(j) PROVE SplitInv'
  BY <1>23 DEF Interrupt, EndCall, Leave, Fault
<1>24. ASSUME NEW j \in Jobs, Crash(j) PROVE SplitInv'
  BY <1>24 DEF Crash, Fault
<1>25. CASE UNCHANGED vars
  BY <1>25 DEF vars
<1> HIDE DEF SplitInv, CallInv, Armed, NoSplit, TypeOK, GoTo, Running, Closing, Stages,
      Threads, InFlight, SideRuns, account, meter, output, history
<1> QED
  BY <1>1, <1>2, <1>3, <1>4, <1>5, <1>6, <1>7, <1>8, <1>9, <1>10, <1>11, <1>12, <1>13,
     <1>14, <1>15, <1>16, <1>17, <1>18, <1>19, <1>20, <1>21, <1>22, <1>23, <1>24, <1>25
     DEF Next, Step, AutofillStep, Disturb

(* No call that starts after the downgrade uses the full model.            *)
LEMMA TailStep == TypeOK /\ TypeOK' /\ CallInv /\ SplitInv /\ TailInv /\ [Next]_vars => TailInv'
<1> SUFFICES ASSUME TypeOK, TypeOK', CallInv, SplitInv, TailInv, [Next]_vars PROVE TailInv'
  OBVIOUS
<1> USE ConstantsAssumption DEF TailInv, SplitInv, CallInv, Armed, ForcedLite, NoSplit,
      TypeOK, GoTo, Running, Closing, Stages, Threads, InFlight, SideRuns, account, meter,
      output, history
<1>1. ASSUME NEW j \in Jobs, PrecheckBlocked(j) PROVE TailInv'
  BY <1>1 DEF PrecheckBlocked, Return
<1>2. ASSUME NEW j \in Jobs, PrecheckPassed(j) PROVE TailInv'
  BY <1>2 DEF PrecheckPassed, Fault
<1>3. ASSUME NEW j \in Jobs, Decide(j) PROVE TailInv'
  BY <1>3 DEF Decide
<1>4. ASSUME NEW j \in Jobs, DecideFails(j) PROVE TailInv'
  BY <1>4 DEF DecideFails, Return, Fault
<1>5. ASSUME NEW j \in Jobs, StageStops(j) PROVE TailInv'
  BY <1>5 DEF StageStops, Leave
<1>6. ASSUME NEW j \in Jobs, StageCall(j) PROVE TailInv'
  <2>a. UNCHANGED <<down, costly>>
    BY <1>6 DEF StageCall, Fault
  <2>b. \A k \in Jobs, t \in Threads : full'[k][t] => full[k][t] \/ (k = j /\ ~down[j])
    BY <1>6, CallEffect DEF StageCall, Fault
  <2>1. (\A k \in Jobs : costly[k] <= MaxCost)'
    BY <2>a, <2>b
  <2>2. (\A k \in Jobs : ~down[k] => costly[k] = 0)'
    BY <2>a, <2>b
  <2>3. (\A k \in Jobs : full[k]["stage"] \/ full[k]["autofill"] => costly[k] = 0)'
    BY <2>a, <2>b
  <2>4. (\A k \in Jobs : down[k] => ~(full[k]["stage"] /\ full[k]["autofill"]))'
    BY <2>a, <2>b
  <2> QED
    BY <2>1, <2>2, <2>3, <2>4 DEF TailInv
<1>7. ASSUME NEW j \in Jobs, NEW cost \in Costs, StageDone(j, cost) PROVE TailInv'
  <2>a. ~full'[j]["stage"]
    BY <1>7, CallEffect DEF StageDone, Meter, MaybeDowngrade, NextStage
  <2>b. \A k \in Jobs \ {j}, t \in Threads : full'[k][t] = full[k][t] /\ down'[k] = down[k]
    BY <1>7, CallEffect DEF StageDone, Meter, MaybeDowngrade, NextStage
  <2>1. (\A k \in Jobs : costly[k] <= MaxCost)'
    BY <1>7, CallEffect DEF StageDone, Meter, MaybeDowngrade, NextStage
  <2>2. (\A k \in Jobs : ~down[k] => costly[k] = 0)'
    BY <1>7, CallEffect DEF StageDone, Meter, MaybeDowngrade, NextStage
  <2>3. (\A k \in Jobs : full[k]["stage"] \/ full[k]["autofill"] => costly[k] = 0)'
    BY <1>7, CallEffect DEF StageDone, Meter, MaybeDowngrade, NextStage
  <2>4. (\A k \in Jobs : down[k] => ~(full[k]["stage"] /\ full[k]["autofill"]))'
    BY <2>a, <2>b
  <2> QED
    BY <2>1, <2>2, <2>3, <2>4 DEF TailInv
<1>8. ASSUME NEW j \in Jobs, SaveDesign(j) PROVE TailInv'
  BY <1>8 DEF SaveDesign, Leave, Fault
<1>9. ASSUME NEW j \in Jobs, Finish(j) PROVE TailInv'
  <2>a. UNCHANGED <<down, costly>>
    BY <1>9 DEF Finish, StopSide, SideIs, Leave
  <2>b. \A k \in Jobs, t \in Threads : full'[k][t] => full[k][t]
    <3>1. EndCall(j, "autofill") \/ UNCHANGED full
      BY <1>9 DEF Finish, StopSide, SideIs, Leave
    <3>2. CASE EndCall(j, "autofill")
      <4>1. ~full'[j]["autofill"]
        BY <3>2, CallEffect
      <4>2. \A k \in Jobs, t \in Threads : k # j \/ t # "autofill" => full'[k][t] = full[k][t]
        BY <3>2, CallEffect
      <4> QED
        BY <4>1, <4>2
    <3>3. CASE UNCHANGED full
      BY <3>3
    <3> QED
      BY <3>1, <3>2, <3>3
  <2>1. (\A k \in Jobs : costly[k] <= MaxCost)'
    BY <2>a, <2>b
  <2>2. (\A k \in Jobs : ~down[k] => costly[k] = 0)'
    BY <2>a, <2>b
  <2>3. (\A k \in Jobs : full[k]["stage"] \/ full[k]["autofill"] => costly[k] = 0)'
    BY <2>a, <2>b
  <2>4. (\A k \in Jobs : down[k] => ~(full[k]["stage"] /\ full[k]["autofill"]))'
    BY <2>a, <2>b
  <2> QED
    BY <2>1, <2>2, <2>3, <2>4 DEF TailInv
<1>10. ASSUME NEW j \in Jobs, Drain(j) PROVE TailInv'
  <2>a. UNCHANGED <<down, costly>>
    BY <1>10 DEF Drain, StopSide, SideIs
  <2>b. \A k \in Jobs, t \in Threads : full'[k][t] => full[k][t]
    <3>1. EndCall(j, "autofill") \/ UNCHANGED full
      BY <1>10 DEF Drain, StopSide, SideIs
    <3>2. CASE EndCall(j, "autofill")
      <4>1. ~full'[j]["autofill"]
        BY <3>2, CallEffect
      <4>2. \A k \in Jobs, t \in Threads : k # j \/ t # "autofill" => full'[k][t] = full[k][t]
        BY <3>2, CallEffect
      <4> QED
        BY <4>1, <4>2
    <3>3. CASE UNCHANGED full
      BY <3>3
    <3> QED
      BY <3>1, <3>2, <3>3
  <2>1. (\A k \in Jobs : costly[k] <= MaxCost)'
    BY <2>a, <2>b
  <2>2. (\A k \in Jobs : ~down[k] => costly[k] = 0)'
    BY <2>a, <2>b
  <2>3. (\A k \in Jobs : full[k]["stage"] \/ full[k]["autofill"] => costly[k] = 0)'
    BY <2>a, <2>b
  <2>4. (\A k \in Jobs : down[k] => ~(full[k]["stage"] /\ full[k]["autofill"]))'
    BY <2>a, <2>b
  <2> QED
    BY <2>1, <2>2, <2>3, <2>4 DEF TailInv
<1>11. ASSUME NEW j \in Jobs, Persist(j) PROVE TailInv'
  BY <1>11 DEF Persist, Add, IsSplit
<1>12. ASSUME NEW j \in Jobs, PersistLite(j) PROVE TailInv'
  BY <1>12 DEF PersistLite, Add
<1>13. ASSUME NEW j \in Jobs, Release(j) PROVE TailInv'
  BY <1>13 DEF Release
<1>14. ASSUME NEW j \in Jobs, AutofillStart(j) PROVE TailInv'
  <2>a. UNCHANGED <<down, costly>>
    BY <1>14 DEF AutofillStart, SideIs, Fault
  <2>b. \A k \in Jobs, t \in Threads : full'[k][t] => full[k][t] \/ (k = j /\ ~down[j])
    BY <1>14, CallEffect DEF AutofillStart, SideIs, Fault
  <2>1. (\A k \in Jobs : costly[k] <= MaxCost)'
    BY <2>a, <2>b
  <2>2. (\A k \in Jobs : ~down[k] => costly[k] = 0)'
    BY <2>a, <2>b
  <2>3. (\A k \in Jobs : full[k]["stage"] \/ full[k]["autofill"] => costly[k] = 0)'
    BY <2>a, <2>b
  <2>4. (\A k \in Jobs : down[k] => ~(full[k]["stage"] /\ full[k]["autofill"]))'
    BY <2>a, <2>b
  <2> QED
    BY <2>1, <2>2, <2>3, <2>4 DEF TailInv
<1>15. ASSUME NEW j \in Jobs, NEW cost \in Costs, AutofillDone(j, cost) PROVE TailInv'
  <2>a. ~full'[j]["autofill"]
    BY <1>15, CallEffect DEF AutofillDone, Meter, MaybeDowngrade, SideIs
  <2>b. \A k \in Jobs \ {j}, t \in Threads : full'[k][t] = full[k][t] /\ down'[k] = down[k]
    BY <1>15, CallEffect DEF AutofillDone, Meter, MaybeDowngrade, SideIs
  <2>1. (\A k \in Jobs : costly[k] <= MaxCost)'
    BY <1>15, CallEffect DEF AutofillDone, Meter, MaybeDowngrade, SideIs
  <2>2. (\A k \in Jobs : ~down[k] => costly[k] = 0)'
    BY <1>15, CallEffect DEF AutofillDone, Meter, MaybeDowngrade, SideIs
  <2>3. (\A k \in Jobs : full[k]["stage"] \/ full[k]["autofill"] => costly[k] = 0)'
    BY <1>15, CallEffect DEF AutofillDone, Meter, MaybeDowngrade, SideIs
  <2>4. (\A k \in Jobs : down[k] => ~(full[k]["stage"] /\ full[k]["autofill"]))'
    BY <2>a, <2>b
  <2> QED
    BY <2>1, <2>2, <2>3, <2>4 DEF TailInv
<1>16. ASSUME NEW j \in Jobs, LockTimeout(j) PROVE TailInv'
  BY <1>16 DEF LockTimeout, Leave, Fault
<1>17. ASSUME NEW j \in Jobs, PrecheckFailed(j) PROVE TailInv'
  BY <1>17 DEF PrecheckFailed, Leave, Fault
<1>18. ASSUME NEW j \in Jobs, NEW t \in Threads, NEW kind \in Kinds, RetryCall(j, t, kind) PROVE TailInv'
  BY <1>18 DEF RetryCall
<1>19. ASSUME NEW j \in Jobs, NEW kind \in Kinds, StageFails(j, kind) PROVE TailInv'
  BY <1>19 DEF StageFails, Raises, EndCall, Leave, Fault
<1>20. ASSUME NEW j \in Jobs, NEW kind \in Kinds, AutofillFails(j, kind) PROVE TailInv'
  BY <1>20 DEF AutofillFails, Raises, EndCall, SideIs, Fault
<1>21. ASSUME NEW j \in Jobs, PersistFails(j) PROVE TailInv'
  BY <1>21 DEF PersistFails, Fault
<1>22. ASSUME NEW j \in Jobs, RequestCancel(j) PROVE TailInv'
  BY <1>22 DEF RequestCancel
<1>23. ASSUME NEW j \in Jobs, Interrupt(j) PROVE TailInv'
  BY <1>23 DEF Interrupt, EndCall, Leave, Fault
<1>24. ASSUME NEW j \in Jobs, Crash(j) PROVE TailInv'
  BY <1>24 DEF Crash, Fault
<1>25. CASE UNCHANGED vars
  BY <1>25 DEF vars
<1> HIDE DEF TailInv, SplitInv, CallInv, Armed, ForcedLite, NoSplit, TypeOK, GoTo,
      Running, Closing, Stages, Threads, InFlight, SideRuns, account, meter, output,
      history
<1> QED
  BY <1>1, <1>2, <1>3, <1>4, <1>5, <1>6, <1>7, <1>8, <1>9, <1>10, <1>11, <1>12, <1>13,
     <1>14, <1>15, <1>16, <1>17, <1>18, <1>19, <1>20, <1>21, <1>22, <1>23, <1>24, <1>25
     DEF Next, Step, AutofillStep, Disturb

-----------------------------------------------------------------------------
DesignInv == TypeOK /\ CallInv /\ HonestInv /\ BookedInv /\ SplitInv /\ TailInv

(* The parts are inductive together: the types need to know that a call is *)
(* made in a stage and that a split lies below the total, and booking and  *)
(* downgrade need to know when the last call has ended.                    *)
LEMMA AlwaysDesignInv == Spec => []DesignInv
<1>1. Init => DesignInv
  <2> SUFFICES ASSUME Init PROVE DesignInv
    OBVIOUS
  <2>1. CallInv
    BY DEF Init, CallInv, InFlight, SideRuns, Threads
  <2>2. HonestInv
    BY DEF Init, HonestInv, Running, Stages
  <2>3. BookedInv
    BY DEF Init, BookedInv
  <2>4. SplitInv
    BY ConstantsAssumption DEF Init, SplitInv, Armed
  <2>5. TailInv
    BY ConstantsAssumption DEF Init, TailInv, Threads
  <2> QED
    BY InitType, <2>1, <2>2, <2>3, <2>4, <2>5 DEF DesignInv
<1>2. DesignInv /\ [Next]_vars => DesignInv'
  BY TypeStep, CallStep, HonestStep, BookedStep, SplitStep, TailStep DEF DesignInv
<1> QED
  BY <1>1, <1>2, PTL DEF Spec

(* The variables of the design job keep their types for all limits, costs  *)
(* and numbers of attempts.                                                *)
THEOREM TypeCorrect == Spec => []TypeOK
<1>1. DesignInv => TypeOK
  BY DEF DesignInv
<1> QED
  BY <1>1, AlwaysDesignInv, PTL

(* When the tokens of an attempt are persisted, no call of the attempt and *)
(* no autofill task is left that could add to them (the cancel and await   *)
(* of the finally clause).                                                 *)
THEOREM CallsEndFirst == Spec => []NoLateTokens
<1>1. DesignInv => NoLateTokens
  BY DEF DesignInv, CallInv, NoLateTokens, SideRuns, Running, Stages, Threads
<1> QED
  BY <1>1, AlwaysDesignInv, PTL

(* On all ways out of the try statement the answer says what is stored.    *)
THEOREM AnswersAreHonest == Spec => []DesignResultHonest
<1>1. DesignInv => DesignResultHonest
  <2> SUFFICES ASSUME TypeOK, HonestInv, NEW j \in Jobs
               PROVE  /\ result[j] = "ok" => saved[j]
                      /\ result[j] \in Results \ {"none", "ok", "raised"} => ~saved[j]
                      /\ filled[j] => saved[j]
    BY DEF DesignInv, DesignResultHonest
  <2>1. pc[j] = "finish" => result[j] = "none"
    BY DEF HonestInv, Running
  <2> QED
    BY <2>1 DEF HonestInv
<1> QED
  BY <1>1, AlwaysDesignInv, PTL

(* _persist_token_usage books every token of the accumulator exactly once, *)
(* unless the worker died or an add failed.                                *)
THEOREM TokensAreBookedOnce == Spec => []MeteredOnce
<1>1. DesignInv => MeteredOnce
  BY DEF DesignInv, BookedInv, MeteredOnce
<1> QED
  BY <1>1, AlwaysDesignInv, PTL

(* _maybe_downgrade keeps what an attempt books as main below the limit    *)
(* plus one call, for all limits and costs and both tasks.                 *)
THEOREM OvershootIsBounded == Spec => []OvershootBounded
<1>1. DesignInv => OvershootBounded
  <2> SUFFICES ASSUME TypeOK, SplitInv, NEW j \in Jobs, Armed(j)
               PROVE  base[j] + (IF split[j] = NoSplit THEN total[j] ELSE split[j])
                          < MainLimit + MaxCost
    BY DEF DesignInv, OvershootBounded
  <2>1. CASE down[j]
    BY <2>1 DEF SplitInv, NoSplit
  <2>2. CASE ~down[j]
    BY <2>2, ConstantsAssumption DEF SplitInv, TypeOK
  <2> QED
    BY <2>1, <2>2
<1> QED
  BY <1>1, AlwaysDesignInv, PTL

(* After the downgrade the full model answers at most one more call.       *)
THEOREM CostlyTailIsBounded == Spec => []CostlyTailBounded
<1>1. DesignInv => CostlyTailBounded
  BY DEF DesignInv, TailInv, CostlyTailBounded
<1> QED
  BY <1>1, AlwaysDesignInv, PTL
=============================================================================
