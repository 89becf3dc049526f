--------------------------- MODULE UsageNodeProofs ---------------------------
(***************************************************************************)
(* Proofs about UsageNode for every set of clients and all bounds.  The    *)
(* argument is the one behind "touch first to lock": a writing statement   *)
(* owns the node's lock from its first write to its commit, so what it     *)
(* read is still stored when it writes.                                    *)
(***************************************************************************)
EXTENDS UsageNode, TLAPS

(* The phases of a statement that began with a write.                      *)
Inside == {"month", "month_set", "week", "week_set", "read", "body"}

LockFirst == \A c \in Clients :
    /\ op[c] # "get" /\ pc[c] \in Inside => lock = c
    /\ pc[c] \in {"plan", "plan_set"} => op[c] = "get"

FreshRead == \A c \in Clients :
    op[c] \notin {"get", "reset"} /\ pc[c] = "body" => cur[c] = count

(* A call that committed is sent again only by a counted repetition.       *)
OnceDone == \A c \in Clients : done[c] => pc[c] = "answer" \/ repeated > 0

(* A meeting counts once.                                                  *)
UnitMeetings == \A c \in Clients :
    pc[c] # "idle" /\ op[c] = "meeting" => amt[c] = 1

(* What a stale reset gives away.                                          *)
Bonus == /\ count["meetings"] <= Limit
         /\ since["meetings"] <= count["meetings"] + Limit * stale

-----------------------------------------------------------------------------
(* run_cypher's locals after it returned.                                   *)
LEMMA ReturnTypes ==
    ASSUME TypeOK, NEW c \in Clients, Return(c)
    PROVE  /\ pc' \in [Clients -> Phases] /\ op' \in [Clients -> Ops]
           /\ amt' \in [Clients -> Nat] /\ tries' \in [Clients -> 0 .. MaxAttempts]
           /\ cur' \in [Clients -> [Counters -> Nat]] /\ done' \in [Clients -> BOOLEAN]
<1>1. done' \in [Clients -> BOOLEAN]
  BY DEF TypeOK, Return
<1>2. /\ pc' \in [Clients -> Phases] /\ op' \in [Clients -> Ops]
      /\ amt' \in [Clients -> Nat] /\ tries' \in [Clients -> 0 .. MaxAttempts]
      /\ cur' \in [Clients -> [Counters -> Nat]]
  BY ConstantsAssumption DEF TypeOK, Return, GoTo, Phases, Ops
<1> QED
  BY <1>1, <1>2

(* The node's counters, the lock and every call keep their types.          *)
THEOREM TypeCorrect == Spec => []TypeOK
<1> USE ConstantsAssumption DEF TypeOK, Phases, Rules, Ops, Counters
<1>1. Init => TypeOK
  <2> SUFFICES ASSUME Init PROVE TypeOK
    OBVIOUS
  <2>1. done \in [Clients -> BOOLEAN] /\ due \in [Rules -> BOOLEAN]
    BY DEF Init
  <2>2. count \in [Counters -> Nat]
    BY DEF Init
  <2>3. /\ op \in [Clients -> Ops] /\ pc \in [Clients -> Phases]
        /\ amt \in [Clients -> Nat] /\ tries \in [Clients -> 0 .. MaxAttempts]
        /\ cur \in [Clients -> [Counters -> Nat]]
    BY DEF Init
  <2> QED
    BY <2>1, <2>2, <2>3 DEF Init
<1>2. TypeOK /\ [Next]_vars => TypeOK'
  <2> SUFFICES ASSUME TypeOK, [Next]_vars PROVE TypeOK'
    OBVIOUS
  <2> USE DEF GoTo, call
  <2>1. ASSUME NEW c \in Clients, NEW o \in Ops, NEW a \in Amounts, Call(c, o, a) PROVE TypeOK'
    BY <2>1 DEF Call
  <2>2. ASSUME NEW c \in Clients, Touch(c) PROVE TypeOK'
    BY <2>2 DEF Touch
  <2>3. ASSUME NEW c \in Clients, OpenGet(c) PROVE TypeOK'
    BY <2>3 DEF OpenGet
  <2>4. ASSUME NEW c \in Clients, Check(c) PROVE TypeOK'
    BY <2>4 DEF Check, After, SetPc
  <2>5. ASSUME NEW c \in Clients, Read(c) PROVE TypeOK'
    BY <2>5 DEF Read
  <2>6. ASSUME NEW c \in Clients, Commit(c) PROVE TypeOK'
    BY <2>6 DEF Commit, NewCount, NewSince, Exceeded, Adds
  <2>7. ASSUME NEW c \in Clients, Answer(c) PROVE TypeOK'
    BY <2>7 DEF Answer, Return
  <2>8. ASSUME NEW c \in Clients, NEW rule \in Rules, Apply(c, rule) PROVE TypeOK'
    <3>1. due' \in [Rules -> BOOLEAN]
      BY <2>8 DEF Apply
    <3>2. count' \in [Counters -> Nat] /\ since' \in [Counters -> Nat]
      BY <2>8 DEF Apply
    <3>3. pc' \in [Clients -> Phases]
      BY <2>8 DEF Apply, After
    <3>4. /\ lock' \in Clients \cup {NoClient} /\ plan' \in {"free", "pro"}
          /\ stale' \in Nat
      BY <2>8 DEF Apply
    <3> QED
      BY <2>8, <3>1, <3>2, <3>3, <3>4 DEF Apply
  <2>9. ASSUME NEW c \in Clients, Unavailable(c) PROVE TypeOK'
    <3>1. CASE tries[c] < MaxAttempts
      BY <2>9, <3>1 DEF Unavailable, Again
    <3>2. CASE ~(tries[c] < MaxAttempts)
      <4>1. Return(c)
        BY <2>9, <3>2 DEF Unavailable, Again
      <4>2. /\ pc' \in [Clients -> Phases] /\ op' \in [Clients -> Ops]
            /\ amt' \in [Clients -> Nat] /\ tries' \in [Clients -> 0 .. MaxAttempts]
            /\ cur' \in [Clients -> [Counters -> Nat]] /\ done' \in [Clients -> BOOLEAN]
        BY <4>1, ReturnTypes
      <4>3. faults' \in 0 .. MaxFaults /\ repeated' \in Nat
        BY <2>9, <3>2 DEF Unavailable, Again
      <4> QED
        BY <2>9, <3>2, <4>1, <4>2, <4>3 DEF Unavailable, Again
    <3> QED
      BY <3>1, <3>2
  <2>10. ASSUME NEW c \in Clients, LoseAnswer(c) PROVE TypeOK'
    <3>1. CASE tries[c] < MaxAttempts
      BY <2>10, <3>1 DEF LoseAnswer, Again
    <3>2. CASE ~(tries[c] < MaxAttempts)
      <4>1. Return(c)
        BY <2>10, <3>2 DEF LoseAnswer, Again
      <4>2. /\ pc' \in [Clients -> Phases] /\ op' \in [Clients -> Ops]
            /\ amt' \in [Clients -> Nat] /\ tries' \in [Clients -> 0 .. MaxAttempts]
            /\ cur' \in [Clients -> [Counters -> Nat]] /\ done' \in [Clients -> BOOLEAN]
        BY <4>1, ReturnTypes
      <4>3. faults' \in 0 .. MaxFaults /\ repeated' \in Nat
        BY <2>10, <3>2 DEF LoseAnswer, Again
      <4> QED
        BY <2>10, <3>2, <4>1, <4>2, <4>3 DEF LoseAnswer, Again
    <3> QED
      BY <3>1, <3>2
  <2>11. ASSUME NEW rule \in Rules, PeriodEnds(rule) PROVE TypeOK'
    BY <2>11 DEF PeriodEnds
  <2>12. CASE UNCHANGED vars
    BY <2>12 DEF vars
  <2> QED
    BY <2>1, <2>2, <2>3, <2>4, <2>5, <2>6, <2>7, <2>8, <2>9, <2>10, <2>11, <2>12 DEF Next, ServerStep
<1> QED
  BY <1>1, <1>2, PTL DEF Spec

(* The lock discipline: lock before read, and one commit per call.         *)
Discipline == LockFirst /\ FreshRead /\ OnceDone /\ UnitMeetings

LEMMA DisciplineStep == TypeOK /\ Discipline /\ [Next]_vars => Discipline'
<1> SUFFICES ASSUME TypeOK, Discipline, [Next]_vars PROVE Discipline'
  OBVIOUS
<1> USE ConstantsAssumption DEF TypeOK, Phases, Rules, Ops, Inside, GoTo, call
<1>1. ASSUME NEW c \in Clients, NEW o \in Ops, NEW a \in Amounts, Call(c, o, a) PROVE Discipline'
  <2>1. LockFirst'
    BY <1>1 DEF Discipline, LockFirst, Call
  <2>2. FreshRead'
    BY <1>1 DEF Discipline, LockFirst, FreshRead, Call
  <2>3. OnceDone'
    BY <1>1 DEF Discipline, OnceDone, Call
  <2>4. UnitMeetings'
    BY <1>1 DEF Discipline, UnitMeetings, Call
  <2> QED
    BY <2>1, <2>2, <2>3, <2>4 DEF Discipline
<1>2. ASSUME NEW c \in Clients, Touch(c) PROVE Discipline'
  <2>1. LockFirst'
    BY <1>2 DEF Discipline, LockFirst, Touch
  <2>2. FreshRead'
    BY <1>2 DEF Discipline, LockFirst, FreshRead, Touch
  <2>3. OnceDone'
    BY <1>2 DEF Discipline, OnceDone, Touch
  <2>4. UnitMeetings'
    BY <1>2 DEF Discipline, UnitMeetings, Touch
  <2> QED
    BY <2>1, <2>2, <2>3, <2>4 DEF Discipline
<1>3. ASSUME NEW c \in Clients, OpenGet(c) PROVE Discipline'
  <2>1. LockFirst'
    BY <1>3 DEF Discipline, LockFirst, OpenGet
  <2>2. FreshRead'
    BY <1>3 DEF Discipline, LockFirst, FreshRead, OpenGet
  <2>3. OnceDone'
    BY <1>3 DEF Discipline, OnceDone, OpenGet
  <2>4. UnitMeetings'
    BY <1>3 DEF Discipline, UnitMeetings, OpenGet
  <2> QED
    BY <2>1, <2>2, <2>3, <2>4 DEF Discipline
<1>4. ASSUME NEW c \in Clients, Check(c) PROVE Discipline'
  <2>1. LockFirst'
    BY <1>4 DEF Discipline, LockFirst, Check, After, SetPc
  <2>2. FreshRead'
    BY <1>4 DEF Discipline, LockFirst, FreshRead, Check, After, SetPc
  <2>3. OnceDone'
    BY <1>4 DEF Discipline, OnceDone, Check, After, SetPc
  <2>4. UnitMeetings'
    BY <1>4 DEF Discipline, UnitMeetings, Check
  <2> QED
    BY <2>1, <2>2, <2>3, <2>4 DEF Discipline
<1>5. ASSUME NEW c \in Clients, Read(c) PROVE Discipline'
  <2>1. LockFirst'
    BY <1>5 DEF Discipline, LockFirst, Read
  <2>2. FreshRead'
    BY <1>5 DEF Discipline, LockFirst, FreshRead, Read
  <2>3. OnceDone'
    BY <1>5 DEF Discipline, OnceDone, Read
  <2>4. UnitMeetings'
    BY <1>5 DEF Discipline, UnitMeetings, Read
  <2> QED
    BY <2>1, <2>2, <2>3, <2>4 DEF Discipline
<1>6. ASSUME NEW c \in Clients, Commit(c) PROVE Discipline'
  <2>1. LockFirst'
    BY <1>6 DEF Discipline, LockFirst, Commit, NewCount, Exceeded
  <2>2. FreshRead'
    BY <1>6 DEF Discipline, LockFirst, FreshRead, Commit, NewCount, Exceeded, Adds
  <2>3. OnceDone'
    BY <1>6 DEF Discipline, OnceDone, Commit, NewCount, Exceeded
  <2>4. UnitMeetings'
    BY <1>6 DEF Discipline, UnitMeetings, Commit
  <2> QED
    BY <2>1, <2>2, <2>3, <2>4 DEF Discipline
<1>7. ASSUME NEW c \in Clients, Answer(c) PROVE Discipline'
  <2>1. LockFirst'
    BY <1>7 DEF Discipline, LockFirst, Answer, Return
  <2>2. FreshRead'
    BY <1>7 DEF Discipline, LockFirst, FreshRead, Answer, Return
  <2>3. OnceDone'
    BY <1>7 DEF Discipline, OnceDone, Answer, Return
  <2>4. UnitMeetings'
    BY <1>7 DEF Discipline, UnitMeetings, Answer, Return
  <2> QED
    BY <2>1, <2>2, <2>3, <2>4 DEF Discipline
<1>8. ASSUME NEW c \in Clients, NEW rule \in Rules, Apply(c, rule) PROVE Discipline'
  <2>1. LockFirst'
    BY <1>8 DEF Discipline, LockFirst, Apply, After, SetPc
  <2>2. FreshRead'
    BY <1>8 DEF Discipline, LockFirst, FreshRead, Apply, After, SetPc
  <2>3. OnceDone'
    BY <1>8 DEF Discipline, OnceDone, Apply, After, SetPc
  <2>4. UnitMeetings'
    BY <1>8 DEF Discipline, UnitMeetings, Apply, SetPc
  <2> QED
    BY <2>1, <2>2, <2>3, <2>4 DEF Discipline
<1>9. ASSUME NEW c \in Clients, Unavailable(c) PROVE Discipline'
  <2>1. LockFirst'
    BY <1>9 DEF Discipline, LockFirst, Unavailable, Again, Return
  <2>2. FreshRead'
    BY <1>9 DEF Discipline, LockFirst, FreshRead, Unavailable, Again, Return
  <2>3. OnceDone'
    BY <1>9 DEF Discipline, OnceDone, Unavailable, Again, Return
  <2>4. UnitMeetings'
    BY <1>9 DEF Discipline, UnitMeetings, Unavailable, Again, Return
  <2> QED
    BY <2>1, <2>2, <2>3, <2>4 DEF Discipline
<1>10. ASSUME NEW c \in Clients, LoseAnswer(c) PROVE Discipline'
  <2>1. LockFirst'
    BY <1>10 DEF Discipline, LockFirst, LoseAnswer, Again, Return
  <2>2. FreshRead'
    BY <1>10 DEF Discipline, LockFirst, FreshRead, LoseAnswer, Again, Return
  <2>3. OnceDone'
    <3>1. OnceDone
      BY DEF Discipline
    <3>2. CASE tries[c] < MaxAttempts
      BY <1>10, <3>1, <3>2 DEF OnceDone, LoseAnswer, Again
    <3>3. CASE ~(tries[c] < MaxAttempts)
      BY <1>10, <3>1, <3>3 DEF OnceDone, LoseAnswer, Again, Return
    <3> QED
      BY <3>2, <3>3
  <2>4. UnitMeetings'
    BY <1>10 DEF Discipline, UnitMeetings, LoseAnswer, Again, Return
  <2> QED
    BY <2>1, <2>2, <2>3, <2>4 DEF Discipline
<1>11. ASSUME NEW rule \in Rules, PeriodEnds(rule) PROVE Discipline'
  <2>1. LockFirst'
    BY <1>11 DEF Discipline, LockFirst, PeriodEnds
  <2>2. FreshRead'
    BY <1>11 DEF Discipline, LockFirst, FreshRead, PeriodEnds
  <2>3. OnceDone'
    BY <1>11 DEF Discipline, OnceDone, PeriodEnds
  <2>4. UnitMeetings'
    BY <1>11 DEF Discipline, UnitMeetings, PeriodEnds
  <2> QED
    BY <2>1, <2>2, <2>3, <2>4 DEF Discipline
<1>12. CASE UNCHANGED vars
  BY <1>12 DEF vars, Discipline, LockFirst, FreshRead, OnceDone, UnitMeetings
<1> QED
  BY <1>1, <1>2, <1>3, <1>4, <1>5, <1>6, <1>7, <1>8, <1>9, <1>10, <1>11, <1>12 DEF Next, ServerStep

LEMMA AlwaysDisciplined == Spec => []Discipline
<1>1. Init => Discipline
  BY ConstantsAssumption DEF Init, Discipline, LockFirst, FreshRead, OnceDone,
     UnitMeetings, Inside
<1> QED
  BY <1>1, DisciplineStep, TypeCorrect, PTL DEF Spec

(* Concurrent statements never lose or invent usage: without a stale reset *)
(* and without a repeated statement each counter is exactly what was used. *)
THEOREM CountersAreExact == Spec => []CountersExact
<1>1. Init => CountersExact
  BY ConstantsAssumption DEF Init, CountersExact, Counters
<1>2. TypeOK /\ Discipline /\ CountersExact /\ [Next]_vars => CountersExact'
  <2> SUFFICES ASSUME TypeOK, Discipline, CountersExact, [Next]_vars PROVE CountersExact'
    OBVIOUS
  <2> USE ConstantsAssumption DEF TypeOK, Rules, Ops, Counters, call
  <2>1. ASSUME NEW c \in Clients, NEW o \in Ops, NEW a \in Amounts, Call(c, o, a) PROVE CountersExact'
    BY <2>1 DEF CountersExact, Call
  <2>2. ASSUME NEW c \in Clients, Touch(c) PROVE CountersExact'
    BY <2>2 DEF CountersExact, Touch
  <2>3. ASSUME NEW c \in Clients, OpenGet(c) PROVE CountersExact'
    BY <2>3 DEF CountersExact, OpenGet
  <2>4. ASSUME NEW c \in Clients, Check(c) PROVE CountersExact'
    BY <2>4 DEF CountersExact, Check
  <2>5. ASSUME NEW c \in Clients, Read(c) PROVE CountersExact'
    BY <2>5 DEF CountersExact, Read
  <2>6. ASSUME NEW c \in Clients, Commit(c) PROVE CountersExact'
    BY <2>6 DEF CountersExact, Commit, NewCount, NewSince, Exceeded, Adds, Discipline, LockFirst, FreshRead, OnceDone, Inside
  <2>7. ASSUME NEW c \in Clients, Answer(c) PROVE CountersExact'
    BY <2>7 DEF CountersExact, Answer
  <2>8. ASSUME NEW c \in Clients, NEW rule \in Rules, Apply(c, rule) PROVE CountersExact'
    BY <2>8 DEF CountersExact, Apply, Cleared, PeriodOf
  <2>9. ASSUME NEW c \in Clients, Unavailable(c) PROVE CountersExact'
    BY <2>9 DEF CountersExact, Unavailable, Again
  <2>10. ASSUME NEW c \in Clients, LoseAnswer(c) PROVE CountersExact'
    BY <2>10 DEF CountersExact, LoseAnswer, Again
  <2>11. ASSUME NEW rule \in Rules, PeriodEnds(rule) PROVE CountersExact'
    BY <2>11 DEF CountersExact, PeriodEnds
  <2>12. CASE UNCHANGED vars
    BY <2>12 DEF CountersExact, vars
  <2> QED
    BY <2>1, <2>2, <2>3, <2>4, <2>5, <2>6, <2>7, <2>8, <2>9, <2>10, <2>11, <2>12 DEF Next, ServerStep
<1> QED
  BY <1>1, <1>2, TypeCorrect, AlwaysDisciplined, PTL DEF Spec

(* However many resets are decided on outdated due dates, no counter shows *)
(* more than was used.                                                     *)
THEOREM StaleResetsFavourTheUser == Spec => []UnderCountOnly
<1>1. Init => UnderCountOnly
  BY ConstantsAssumption DEF Init, UnderCountOnly, Counters
<1>2. TypeOK /\ Discipline /\ UnderCountOnly /\ [Next]_vars => UnderCountOnly'
  <2> SUFFICES ASSUME TypeOK, Discipline, UnderCountOnly, [Next]_vars PROVE UnderCountOnly'
    OBVIOUS
  <2> USE ConstantsAssumption DEF TypeOK, Rules, Ops, Counters, call
  <2>1. ASSUME NEW c \in Clients, NEW o \in Ops, NEW a \in Amounts, Call(c, o, a) PROVE UnderCountOnly'
    BY <2>1 DEF UnderCountOnly, Call
  <2>2. ASSUME NEW c \in Clients, Touch(c) PROVE UnderCountOnly'
    BY <2>2 DEF UnderCountOnly, Touch
  <2>3. ASSUME NEW c \in Clients, OpenGet(c) PROVE UnderCountOnly'
    BY <2>3 DEF UnderCountOnly, OpenGet
  <2>4. ASSUME NEW c \in Clients, Check(c) PROVE UnderCountOnly'
    BY <2>4 DEF UnderCountOnly, Check
  <2>5. ASSUME NEW c \in Clients, Read(c) PROVE UnderCountOnly'
    BY <2>5 DEF UnderCountOnly, Read
  <2>6. ASSUME NEW c \in Clients, Commit(c) PROVE UnderCountOnly'
    BY <2>6 DEF UnderCountOnly, Commit, NewCount, NewSince, Exceeded, Adds, Discipline, LockFirst, FreshRead, OnceDone, Inside
  <2>7. ASSUME NEW c \in Clients, Answer(c) PROVE UnderCountOnly'
    BY <2>7 DEF UnderCountOnly, Answer
  <2>8. ASSUME NEW c \in Clients, NEW rule \in Rules, Apply(c, rule) PROVE UnderCountOnly'
    BY <2>8 DEF UnderCountOnly, Apply, Cleared, PeriodOf
  <2>9. ASSUME NEW c \in Clients, Unavailable(c) PROVE UnderCountOnly'
    BY <2>9 DEF UnderCountOnly, Unavailable, Again
  <2>10. ASSUME NEW c \in Clients, LoseAnswer(c) PROVE UnderCountOnly'
    BY <2>10 DEF UnderCountOnly, LoseAnswer, Again
  <2>11. ASSUME NEW rule \in Rules, PeriodEnds(rule) PROVE UnderCountOnly'
    BY <2>11 DEF UnderCountOnly, PeriodEnds
  <2>12. CASE UNCHANGED vars
    BY <2>12 DEF UnderCountOnly, vars
  <2> QED
    BY <2>1, <2>2, <2>3, <2>4, <2>5, <2>6, <2>7, <2>8, <2>9, <2>10, <2>11, <2>12 DEF Next, ServerStep
<1> QED
  BY <1>1, <1>2, TypeCorrect, AlwaysDisciplined, PTL DEF Spec

(* For every limit, the meetings admitted in a period exceed it by at most *)
(* one allowance per stale reset, even when statements are repeated.       *)
THEOREM BonusIsBounded == Spec => []BonusBounded
<1>1. Init => Bonus
  BY ConstantsAssumption DEF Init, Bonus, Counters
<1>2. TypeOK /\ Discipline /\ Bonus /\ [Next]_vars => Bonus'
  <2> SUFFICES ASSUME TypeOK, Discipline, Bonus, [Next]_vars PROVE Bonus'
    OBVIOUS
  <2> USE ConstantsAssumption DEF TypeOK, Rules, Ops, Counters, call
  <2>1. ASSUME NEW c \in Clients, NEW o \in Ops, NEW a \in Amounts, Call(c, o, a) PROVE Bonus'
    BY <2>1 DEF Bonus, Call
  <2>2. ASSUME NEW c \in Clients, Touch(c) PROVE Bonus'
    BY <2>2 DEF Bonus, Touch
  <2>3. ASSUME NEW c \in Clients, OpenGet(c) PROVE Bonus'
    BY <2>3 DEF Bonus, OpenGet
  <2>4. ASSUME NEW c \in Clients, Check(c) PROVE Bonus'
    BY <2>4 DEF Bonus, Check
  <2>5. ASSUME NEW c \in Clients, Read(c) PROVE Bonus'
    BY <2>5 DEF Bonus, Read
  <2>6. ASSUME NEW c \in Clients, Commit(c) PROVE Bonus'
    <3>0. Limit * stale \in Nat /\ stale' = stale
      BY <2>6 DEF Commit
    <3>1. CASE op[c] = "meeting" /\ ~Exceeded(c)
      <4>1. cur[c] = count
        BY <2>6, <3>1 DEF Commit, Discipline, FreshRead
      <4>2. amt[c] = 1 => count'["meetings"] = count["meetings"] + 1
        BY <2>6, <3>1, <4>1 DEF Commit, NewCount, Adds
      <4>3. amt[c] = 1 => since'["meetings"] <= since["meetings"] + 1
        BY <2>6, <3>1 DEF Commit, NewSince, Adds
      <4>4. count["meetings"] < Limit
        BY <3>1, <4>1 DEF Exceeded
      <4>5. amt[c] = 1
        BY <2>6, <3>1 DEF Commit, Discipline, UnitMeetings
      <4> QED
        <5>1. count'["meetings"] = count["meetings"] + 1
          BY <4>2, <4>5
        <5>2. since'["meetings"] <= since["meetings"] + 1
          BY <4>3, <4>5
        <5>3. count["meetings"] \in Nat /\ since["meetings"] \in Nat /\ since'["meetings"] \in Nat
          BY <2>6 DEF Commit, NewSince
        <5>4. Limit * stale' = Limit * stale
          BY <3>0
        <5>5. count'["meetings"] <= Limit
          BY <4>4, <5>1, <5>3
        <5>6. since'["meetings"] <= count'["meetings"] + Limit * stale
          BY <3>0, <5>1, <5>2, <5>3 DEF Bonus
        <5> QED
          BY <5>4, <5>5, <5>6 DEF Bonus
    <3>2. CASE op[c] = "reset"
      BY <2>6, <3>0, <3>2 DEF Bonus, Commit, NewCount, NewSince
    <3>3. CASE op[c] # "reset" /\ ~(op[c] = "meeting" /\ ~Exceeded(c))
      <4>1. count'["meetings"] = count["meetings"] /\ since'["meetings"] = since["meetings"]
        BY <2>6, <3>3 DEF Commit, NewCount, NewSince, Adds
      <4> QED
        BY <3>0, <4>1 DEF Bonus
    <3> QED
      BY <3>1, <3>2, <3>3
  <2>7. ASSUME NEW c \in Clients, Answer(c) PROVE Bonus'
    BY <2>7 DEF Bonus, Answer
  <2>8. ASSUME NEW c \in Clients, NEW rule \in Rules, Apply(c, rule) PROVE Bonus'
    <3>1. Limit * (stale + 1) = Limit * stale + Limit
      OBVIOUS
    <3>2. stale' \in {stale, stale + 1} /\ count'["meetings"] \in {0, count["meetings"]}
      BY <2>8 DEF Apply
    <3>3. CASE rule = "month" /\ due[rule]
      BY <2>8, <3>3 DEF Apply, Cleared, PeriodOf, Bonus
    <3>4. CASE rule = "month" /\ ~due[rule]
      <4>1. count'["meetings"] = 0 /\ since'["meetings"] = since["meetings"]
        BY <2>8, <3>4 DEF Apply, Cleared, PeriodOf
      <4>2. stale' = stale + 1
        BY <2>8, <3>4 DEF Apply
      <4> QED
        BY <3>1, <4>1, <4>2 DEF Bonus
    <3>5. CASE rule # "month"
      <4>1. count'["meetings"] = count["meetings"] /\ since'["meetings"] = since["meetings"]
        BY <2>8, <3>5 DEF Apply, Cleared, PeriodOf
      <4> QED
        <5>1. CASE stale' = stale
          BY <4>1, <5>1 DEF Bonus
        <5>2. CASE stale' = stale + 1
          BY <3>1, <4>1, <5>2 DEF Bonus
        <5> QED
          BY <3>2, <5>1, <5>2
    <3> QED
      BY <3>3, <3>4, <3>5
  <2>9. ASSUME NEW c \in Clients, Unavailable(c) PROVE Bonus'
    BY <2>9 DEF Bonus, Unavailable, Again
  <2>10. ASSUME NEW c \in Clients, LoseAnswer(c) PROVE Bonus'
    BY <2>10 DEF Bonus, LoseAnswer, Again
  <2>11. ASSUME NEW rule \in Rules, PeriodEnds(rule) PROVE Bonus'
    BY <2>11 DEF Bonus, PeriodEnds
  <2>12. CASE UNCHANGED vars
    BY <2>12 DEF Bonus, vars
  <2> QED
    BY <2>1, <2>2, <2>3, <2>4, <2>5, <2>6, <2>7, <2>8, <2>9, <2>10, <2>11, <2>12 DEF Next, ServerStep
<1>3. TypeOK /\ Bonus => BonusBounded
  <2> SUFFICES ASSUME TypeOK, Bonus PROVE BonusBounded
    OBVIOUS
  <2>1. Limit * (1 + stale) = Limit + Limit * stale
    BY ConstantsAssumption DEF TypeOK
  <2>2. /\ stale \in Nat /\ Limit * stale \in Int
        /\ count["meetings"] \in Nat /\ since["meetings"] \in Nat
    BY ConstantsAssumption DEF TypeOK, Counters
  <2> QED
    BY ConstantsAssumption, <2>1, <2>2 DEF Bonus, BonusBounded
<1> QED
  BY <1>1, <1>2, <1>3, TypeCorrect, AlwaysDisciplined, PTL DEF Spec

(* Whatever connections break, the node's lock belongs to a statement in   *)
(* execution.                                                              *)
THEOREM LockIsNeverAbandoned == Spec => []NoAbandonedLock
<1>1. Init => NoAbandonedLock
  BY DEF Init, NoAbandonedLock
<1>2. TypeOK /\ Discipline /\ NoAbandonedLock /\ [Next]_vars => NoAbandonedLock'
  <2> SUFFICES ASSUME TypeOK, Discipline, NoAbandonedLock, [Next]_vars PROVE NoAbandonedLock'
    OBVIOUS
  <2> USE ConstantsAssumption DEF TypeOK, Phases, Rules, Ops, GoTo, call
  <2>1. ASSUME NEW c \in Clients, NEW o \in Ops, NEW a \in Amounts, Call(c, o, a)
        PROVE NoAbandonedLock'
    BY <2>1 DEF NoAbandonedLock, Call
  <2>2. ASSUME NEW c \in Clients, Touch(c)
        PROVE NoAbandonedLock'
    BY <2>2 DEF NoAbandonedLock, Touch
  <2>3. ASSUME NEW c \in Clients, OpenGet(c)
        PROVE NoAbandonedLock'
    BY <2>3 DEF NoAbandonedLock, OpenGet
  <2>4. ASSUME NEW c \in Clients, Check(c)
        PROVE NoAbandonedLock'
    BY <2>4 DEF NoAbandonedLock, Check, After, SetPc
  <2>5. ASSUME NEW c \in Clients, Read(c)
        PROVE NoAbandonedLock'
    BY <2>5 DEF NoAbandonedLock, Read
  <2>6. ASSUME NEW c \in Clients, Commit(c)
        PROVE NoAbandonedLock'
    BY <2>6 DEF NoAbandonedLock, Commit
  <2>7. ASSUME NEW c \in Clients, Answer(c)
        PROVE NoAbandonedLock'
    BY <2>7 DEF NoAbandonedLock, Answer, Return
  <2>8. ASSUME NEW c \in Clients, NEW rule \in Rules, Apply(c, rule)
        PROVE NoAbandonedLock'
    BY <2>8 DEF NoAbandonedLock, Apply, After, SetPc
  <2>9. ASSUME NEW c \in Clients, Unavailable(c)
        PROVE NoAbandonedLock'
    BY <2>9 DEF NoAbandonedLock, Unavailable, Again, Return
  <2>10. ASSUME NEW c \in Clients, LoseAnswer(c)
        PROVE NoAbandonedLock'
    BY <2>10 DEF NoAbandonedLock, LoseAnswer, Again, Return
  <2>11. ASSUME NEW rule \in Rules, PeriodEnds(rule)
        PROVE NoAbandonedLock'
    BY <2>11 DEF NoAbandonedLock, PeriodEnds
  <2>12. CASE UNCHANGED vars
    BY <2>12 DEF NoAbandonedLock, vars
  <2> QED
    BY <2>1, <2>2, <2>3, <2>4, <2>5, <2>6, <2>7, <2>8, <2>9, <2>10, <2>11, <2>12 DEF Next, ServerStep
<1> QED
  BY <1>1, <1>2, TypeCorrect, AlwaysDisciplined, PTL DEF Spec

-----------------------------------------------------------------------------
(* Which rules a statement heals, and that a statement that wrote first    *)
(* looked at a due date nobody else can deal with before it does.          *)
HealInv == \A c \in Clients :
    /\ pc[c] \in {"week", "week_set"} => op[c] \in {"get", "lite"}
    /\ pc[c] \in {"month", "month_set"} => op[c] # "reset"
    /\ op[c] # "get" /\ pc[c] = "month_set" => due["month"]
    /\ op[c] # "get" /\ pc[c] = "week_set" => due["week"]

LEMMA HealStep == TypeOK /\ Discipline /\ HealInv /\ [Next]_vars => HealInv'
<1> SUFFICES ASSUME TypeOK, Discipline, HealInv, [Next]_vars PROVE HealInv'
  OBVIOUS
<1> USE DEF TypeOK, Phases, Rules, Ops, GoTo, call, HealInv
<1>1. ASSUME NEW c \in Clients, NEW o \in Ops, NEW a \in Amounts, Call(c, o, a) PROVE HealInv'
  BY <1>1 DEF Call
<1>2. ASSUME NEW c \in Clients, Touch(c) PROVE HealInv'
  BY <1>2 DEF Touch
<1>3. ASSUME NEW c \in Clients, OpenGet(c) PROVE HealInv'
  BY <1>3 DEF OpenGet
<1>4. ASSUME NEW c \in Clients, Check(c) PROVE HealInv'
  BY <1>4 DEF Check, After, SetPc, Discipline, LockFirst
<1>5. ASSUME NEW c \in Clients, Read(c) PROVE HealInv'
  BY <1>5 DEF Read
<1>6. ASSUME NEW c \in Clients, Commit(c) PROVE HealInv'
  BY <1>6 DEF Commit
<1>7. ASSUME NEW c \in Clients, Answer(c) PROVE HealInv'
  BY <1>7 DEF Answer, Return
<1>8. ASSUME NEW c \in Clients, NEW rule \in Rules, Apply(c, rule) PROVE HealInv'
  <2>1. ASSUME NEW d \in Clients \ {c}, op[d] # "get", pc[d] \in {"month_set", "week_set"} PROVE FALSE
    BY <1>8, <2>1, ConstantsAssumption DEF Apply, Discipline, LockFirst, Inside
  <2>2. \A d \in Clients \ {c} : pc'[d] = pc[d] /\ op'[d] = op[d]
    BY <1>8 DEF Apply
  <2>3. /\ pc'[c] = After(op[c], rule) /\ op'[c] = op[c] /\ pc[c] = SetPc(rule)
        /\ op[c] \in Ops
    BY <1>8 DEF Apply
  <2>4. pc'[c] \notin {"month_set", "week_set"}
    BY <2>3 DEF After
  <2>5. pc'[c] = "week" => op[c] \in {"get", "lite"}
    BY <2>3 DEF After
  <2>6. pc'[c] = "month" => op[c] = "get"
    BY <2>3 DEF After, SetPc, Discipline, LockFirst
  <2> QED
    BY <2>1, <2>2, <2>3, <2>4, <2>5, <2>6
<1>9. ASSUME NEW c \in Clients, Unavailable(c) PROVE HealInv'
  BY <1>9 DEF Unavailable, Again, Return
<1>10. ASSUME NEW c \in Clients, LoseAnswer(c) PROVE HealInv'
  BY <1>10 DEF LoseAnswer, Again, Return
<1>11. ASSUME NEW rule \in Rules, PeriodEnds(rule) PROVE HealInv'
  BY <1>11 DEF PeriodEnds
<1>12. CASE UNCHANGED vars
  BY <1>12 DEF vars
<1> QED
  BY <1>1, <1>2, <1>3, <1>4, <1>5, <1>6, <1>7, <1>8, <1>9, <1>10, <1>11, <1>12 DEF Next, ServerStep

(* What a client's call is to the ledger.                                  *)
LEMMA ProgressIs ==
  ASSUME NEW c \in Clients
  PROVE  /\ pc[c] = "idle" => Progress[c] = "idle"
         /\ pc[c] = "answer" => Progress[c] = "done"
         /\ pc[c] \notin {"idle", "answer"} => Progress[c] = "called"
BY DEF Progress

(* A step of a client within its call is not seen.                         *)
LEMMA SameProgress ==
  ASSUME NEW c \in Clients, NEW phase, pc \in [Clients -> Phases], GoTo(c, phase),
         pc[c] \notin {"idle", "answer"}, phase \notin {"idle", "answer"}
  PROVE  Progress' = Progress
<1>1. ASSUME NEW d \in Clients
      PROVE  (CASE pc'[d] = "idle" -> "idle" [] pc'[d] = "answer" -> "done" [] OTHER -> "called")
             = (CASE pc[d] = "idle" -> "idle" [] pc[d] = "answer" -> "done" [] OTHER -> "called")
  BY DEF GoTo
<1> QED
  BY <1>1 DEF Progress

LEMMA NewProgress ==
  ASSUME NEW c \in Clients, NEW phase, pc \in [Clients -> Phases], GoTo(c, phase)
  PROVE  Progress' = [Progress EXCEPT ![c] = CASE phase = "idle"   -> "idle"
                                               [] phase = "answer" -> "done"
                                               [] OTHER            -> "called"]
BY DEF GoTo, Progress

(* The commit of a statement is the act of its call.                       *)
LEMMA CommitActs ==
  ASSUME TypeOK, Discipline, NEW c \in Clients, Commit(c)
  PROVE  count' = Ledger!Effect(op[c], amt[c])
<1>1. /\ count \in [Counters -> Nat] /\ op[c] \in Ops /\ amt[c] \in Nat /\ pc[c] = "body"
      /\ count' = NewCount(c)
  BY DEF TypeOK, Commit
<1>2. op[c] \notin {"get", "reset"} => cur[c] = count
  BY <1>1 DEF Discipline, FreshRead
<1>3. op[c] = "meeting" => amt[c] = 1
  BY <1>1 DEF Discipline, UnitMeetings
<1>4. CASE op[c] = "get"
  BY <1>1, <1>4 DEF NewCount, Exceeded, Adds, Ledger!Effect, Counters
<1>5. CASE op[c] = "reset"
  BY <1>1, <1>5 DEF NewCount, Ledger!Effect, Ledger!Counters, Counters
<1>6. CASE op[c] = "meeting"
  BY <1>1, <1>2, <1>3, <1>6 DEF NewCount, Exceeded, Adds, Ledger!Effect, Counters
<1>7. CASE op[c] = "lite"
  BY <1>1, <1>2, <1>7 DEF NewCount, Exceeded, Adds, Ledger!Effect, Counters
<1>8. CASE op[c] = "main"
  BY <1>1, <1>2, <1>8 DEF NewCount, Exceeded, Adds, Ledger!Effect, Counters
<1>9. CASE op[c] = "chars"
  BY <1>1, <1>2, <1>9 DEF NewCount, Exceeded, Adds, Ledger!Effect, Counters
<1> QED
  BY <1>1, <1>4, <1>5, <1>6, <1>7, <1>8, <1>9 DEF Ops

LEMMA ApplyHeals ==
  ASSUME TypeOK, Discipline, HealInv, NEW c \in Clients, NEW rule \in Rules, Apply(c, rule)
  PROVE  Ledger!Heal(c, rule)
<1>1. /\ pc \in [Clients -> Phases] /\ count \in [Counters -> Nat] /\ op[c] \in Ops
      /\ pc[c] = SetPc(rule) /\ GoTo(c, After(op[c], rule))
  BY DEF TypeOK, Apply
<1>2. rule \in {"plan", "month", "week"}
  BY DEF Rules
<1>3. pc[c] \notin {"idle", "answer"} /\ After(op[c], rule) \notin {"idle", "answer"}
  BY <1>1, <1>2 DEF SetPc, After
<1>4. Progress' = Progress /\ Progress[c] = "called"
  BY <1>1, <1>3, SameProgress, ProgressIs
<1>5. rule \in Ledger!Heals(op[c]) /\ (due[rule] \/ op[c] = "get")
  <2>1. CASE rule = "plan"
    BY <1>1, <2>1 DEF SetPc, Discipline, LockFirst, Ledger!Heals, Ledger!Rules
  <2>2. CASE rule = "month"
    BY <1>1, <2>2 DEF SetPc, HealInv, Ledger!Heals, Ledger!Rules
  <2>3. CASE rule = "week"
    BY <1>1, <2>3 DEF SetPc, HealInv, Ledger!Heals, Ledger!Rules
  <2> QED
    BY <1>2, <2>1, <2>2, <2>3
<1>6. count' = CASE rule = "plan"  -> count
                 [] rule = "month" -> Ledger!Zero({"meetings", "main", "chars", "lite"})
                 [] rule = "week"  -> Ledger!Zero({"weekly"})
  <2>1. count' = [k \in Counters |-> IF k \in Cleared(rule) THEN 0 ELSE count[k]]
    BY DEF Apply
  <2>2. CASE rule = "plan"
    BY <1>1, <2>1, <2>2 DEF Cleared
  <2>3. CASE rule = "month"
    BY <2>1, <2>3 DEF Cleared, Ledger!Zero, Ledger!Counters, Counters
  <2>4. CASE rule = "week"
    BY <2>1, <2>4 DEF Cleared, Ledger!Zero, Ledger!Counters, Counters
  <2> QED
    BY <1>2, <2>2, <2>3, <2>4
<1>7. /\ due' = [due EXCEPT ![rule] = FALSE] /\ plan' = (IF rule = "plan" THEN "free" ELSE plan)
      /\ UNCHANGED <<op, amt>>
  BY DEF Apply, call
<1> QED
  BY <1>4, <1>5, <1>6, <1>7 DEF Ledger!Heal

LedgerVars == <<count, plan, due, Progress, op, amt>>

LEMMA ReturnEnds ==
  ASSUME TypeOK, NEW c \in Clients, pc[c] # "idle", Return(c), UNCHANGED <<count, plan, due>>
  PROVE  Ledger!End(c)
<1>1. Progress' = [Progress EXCEPT ![c] = "idle"]
  BY NewProgress DEF Return, TypeOK
<1>2. Progress[c] # "idle"
  BY ProgressIs
<1> QED
  BY <1>1, <1>2 DEF Ledger!End, Return

LEMMA LedgerStep ==
  ASSUME TypeOK, Discipline, HealInv, [Next]_vars
  PROVE  [Ledger!Next]_LedgerVars
<1>1. pc \in [Clients -> Phases]
  BY DEF TypeOK
<1>2. ASSUME NEW c \in Clients, NEW o \in Ops, NEW a \in Amounts, Call(c, o, a) PROVE Ledger!Begin(c)
  <2>1. Progress' = [Progress EXCEPT ![c] = "called"] /\ Progress[c] = "idle"
    BY <1>1, <1>2, NewProgress, ProgressIs DEF Call
  <2>2. \E b \in Amounts \cup {1} : op' = [op EXCEPT ![c] = o] /\ amt' = [amt EXCEPT ![c] = b]
    BY <1>2 DEF Call
  <2>3. UNCHANGED <<count, plan, due>>
    BY <1>2 DEF Call
  <2> QED
    BY <2>1, <2>2, <2>3 DEF Ledger!Begin, Ops
<1>3. ASSUME NEW c \in Clients, Touch(c) \/ OpenGet(c) \/ Check(c) \/ Read(c) PROVE UNCHANGED LedgerVars
  <2>1. UNCHANGED <<count, plan, due, op, amt>>
    BY <1>3 DEF Touch, OpenGet, Check, Read, call
  <2>2. \E phase \in Phases \ {"idle", "answer"} : GoTo(c, phase)
    <3>1. CASE Touch(c)
      BY <3>1 DEF Touch, Phases, Rules
    <3>2. CASE OpenGet(c)
      BY <3>2 DEF OpenGet, Phases, Rules
    <3>3. CASE Check(c)
      <4>1. SetPc(pc[c]) \in Phases \ {"idle", "answer"}
        BY DEF SetPc, Phases
      <4>2. After(op[c], pc[c]) \in Phases \ {"idle", "answer"}
        BY DEF After, Phases, Rules
      <4> QED
        BY <3>3, <4>1, <4>2 DEF Check
    <3>4. CASE Read(c)
      BY <3>4 DEF Read, Phases
    <3> QED
      BY <1>3, <3>1, <3>2, <3>3, <3>4
  <2>3. pc[c] \notin {"idle", "answer"}
    BY <1>3 DEF Touch, OpenGet, Check, Read, Rules
  <2>4. Progress' = Progress
    BY <1>1, <2>2, <2>3, SameProgress
  <2> QED
    BY <2>1, <2>4 DEF LedgerVars
<1>4. ASSUME NEW c \in Clients, Commit(c) PROVE Ledger!Act(c)
  <2>1. Progress' = [Progress EXCEPT ![c] = "done"] /\ Progress[c] = "called"
    BY <1>1, <1>4, NewProgress, ProgressIs DEF Commit
  <2>2. UNCHANGED <<plan, due, op, amt>>
    BY <1>4 DEF Commit
  <2> QED
    BY <1>4, <2>1, <2>2, CommitActs DEF Ledger!Act
<1>5. ASSUME NEW c \in Clients, Answer(c) PROVE Ledger!End(c)
  BY <1>5, ReturnEnds DEF Answer
<1>6. ASSUME NEW c \in Clients, Unavailable(c) PROVE Ledger!End(c) \/ UNCHANGED LedgerVars
  <2>1. pc[c] = "open" /\ UNCHANGED <<count, plan, due>>
    BY <1>6 DEF Unavailable, Again
  <2>2. CASE Return(c)
    BY <2>1, <2>2, ReturnEnds
  <2>3. CASE GoTo(c, "open") /\ UNCHANGED <<op, amt>>
    BY <1>1, <2>1, <2>3, SameProgress DEF LedgerVars
  <2> QED
    BY <1>6, <2>2, <2>3 DEF Unavailable, Again
<1>7. ASSUME NEW c \in Clients, LoseAnswer(c) PROVE Ledger!End(c) \/ Ledger!Repeat(c)
  <2>1. pc[c] = "answer" /\ UNCHANGED <<count, plan, due>>
    BY <1>7 DEF LoseAnswer, Again
  <2>2. CASE Return(c)
    BY <2>1, <2>2, ReturnEnds
  <2>3. CASE GoTo(c, "open") /\ UNCHANGED <<op, amt>>
    <3>1. Progress' = [Progress EXCEPT ![c] = "called"] /\ Progress[c] = "done"
      BY <1>1, <2>1, <2>3, NewProgress, ProgressIs
    <3> QED
      BY <2>1, <2>3, <3>1 DEF Ledger!Repeat
  <2> QED
    BY <1>7, <2>2, <2>3 DEF LoseAnswer, Again
<1>8. ASSUME NEW rule \in Rules, PeriodEnds(rule) PROVE Ledger!Elapse(rule)
  <2>1. UNCHANGED Progress
    BY <1>8 DEF PeriodEnds, Progress
  <2> QED
    BY <1>8, <2>1 DEF PeriodEnds, Ledger!Elapse, call
<1>9. ASSUME NEW c \in Clients, NEW rule \in Rules, Apply(c, rule) PROVE Ledger!Heal(c, rule)
  BY <1>9, ApplyHeals
<1>10. CASE UNCHANGED vars
  BY <1>10 DEF vars, LedgerVars, Progress
<1>11. Rules = Ledger!Rules
  BY DEF Rules, Ledger!Rules
<1> QED
  BY <1>2, <1>3, <1>4, <1>5, <1>6, <1>7, <1>8, <1>9, <1>10, <1>11 DEF Next, ServerStep, Ledger!Next

(* run_cypher and the statements of the usage repository, with their node  *)
(* lock, their resets and their attempts, are atomic calls on the          *)
(* counters, carried out once or, after a lost answer, again.              *)
THEOREM ImplementsLedger == Spec => NodeIsAtomic
<1>1. Init => Ledger!Init /\ HealInv
  <2> SUFFICES ASSUME Init PROVE Ledger!Init /\ HealInv
    OBVIOUS
  <2>1. count \in [Ledger!Counters -> Nat] /\ plan \in {"free", "pro"}
    BY ConstantsAssumption DEF Init, Ledger!Counters, Counters
  <2>2. due \in [Ledger!Rules -> BOOLEAN]
    BY DEF Init, Ledger!Rules, Rules
  <2>3. Progress = [c \in Clients |-> "idle"]
    BY DEF Init, Progress
  <2>4. op = [c \in Clients |-> "get"] /\ amt = [c \in Clients |-> 0]
    BY DEF Init
  <2>5. HealInv
    BY DEF Init, HealInv
  <2> QED
    BY <2>1, <2>2, <2>3, <2>4, <2>5 DEF Ledger!Init
<1>2. TypeOK /\ Discipline /\ HealInv /\ [Next]_vars => [Ledger!Next]_LedgerVars
  BY LedgerStep
<1> QED
  BY <1>1, <1>2, HealStep, TypeCorrect, AlwaysDisciplined, PTL
     DEF Spec, NodeIsAtomic, Ledger!Spec, LedgerVars
==============================================================================
