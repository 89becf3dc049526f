------------------------------ MODULE UsageNode ------------------------------
(***************************************************************************)
(* The usage counters of one account: the Cypher transactions of           *)
(* app/service/usage_repository.py on one User node, sent by run_cypher of *)
(* app/clients/neo4j_client.py.                                            *)
(*                                                                         *)
(* Neo4j is external: transactions are read-committed, the first write of  *)
(* a transaction takes the node's exclusive lock, the commit gives it      *)
(* back.  All statements but _GET_USAGE_CYPHER begin with a write, so they *)
(* read under the lock; _GET_USAGE_CYPHER reads each due date before it    *)
(* owns the lock.  A due date is kept as the flag "missing or passed".     *)
(***************************************************************************)
EXTENDS Integers, FiniteSets

CONSTANTS
    Clients,       \* requests and jobs that use the account, one call at a time
    NoClient,      \* the lock is free
    Limit,         \* the account's meeting_logs limit
    Amounts,       \* token and character deltas
    MaxAttempts,   \* _RUN_CYPHER_MAX_ATTEMPTS
    MaxOps,        \* bound: calls in all
    MaxPeriods,    \* bound: due dates that pass
    MaxFaults      \* bound: ServiceUnavailable errors

ASSUME ConstantsAssumption ==
    /\ NoClient \notin Clients
    /\ Limit \in Nat
    /\ Amounts \subseteq Nat \ {0}
    /\ MaxAttempts \in Nat \ {0}
    /\ MaxOps \in Nat /\ MaxPeriods \in Nat /\ MaxFaults \in Nat

VARIABLES
    count,         \* the counters stored on the User node
    plan,          \* u.subscription_type
    due,           \* has the due date of each self-healing rule passed
    lock,          \* the client whose transaction owns the node's lock
    pc,            \* progress of each client through its statement
    op, amt,       \* the statement and its $delta
    cur,           \* the counters as the statement read them
    tries,         \* attempts of run_cypher
    since,         \* history: what was used since each period began
    done,          \* history: has the current call committed once
    stale,         \* history: resets decided on an outdated due date
    repeated,      \* history: statements sent again after their commit
    ops, periods, faults

call == <<op, amt, cur, tries, done>>
vars == <<count, plan, due, lock, pc, op, amt, cur, tries, since, done, stale,
          repeated, ops, periods, faults>>

Counters == {"meetings", "main", "chars", "lite", "weekly"}

(* The counters that _ADD_*_CYPHER and _TRY_INCREMENT_* raise.             *)
Adds(o) ==
    CASE o = "meeting" -> {"meetings"}
      [] o = "main"    -> {"main"}
      [] o = "chars"   -> {"chars"}
      [] o = "lite"    -> {"lite", "weekly"}
      [] OTHER         -> {}

Ops == {"get", "meeting", "main", "chars", "lite", "reset"}

(* The self-healing rules: an expired plan, the monthly and weekly resets. *)
Rules == {"plan", "month", "week"}
SetPc(rule) ==
    CASE rule = "plan"  -> "plan_set"
      [] rule = "month" -> "month_set"
      [] OTHER          -> "week_set"

Phases == {"idle", "open", "read", "body", "answer"} \cup Rules
          \cup {"plan_set", "month_set", "week_set"}

(* The counters a rule sets to zero.                                       *)
ClearedWithoutLite(rule) ==
    IF rule = "month" THEN {"meetings", "main", "chars"}
    ELSE IF rule = "week" THEN {"weekly"} ELSE {}

Cleared(rule) ==
    IF rule = "month" THEN {"meetings", "main", "chars", "lite"}
    ELSE IF rule = "week" THEN {"weekly"} ELSE {}

(* The billing period each counter belongs to (history only).              *)
PeriodOf(k) == IF k = "weekly" THEN "week" ELSE "month"

TypeOK ==
    /\ count \in [Counters -> Nat]
    /\ plan \in {"free", "pro"}
    /\ due \in [Rules -> BOOLEAN]
    /\ lock \in Clients \cup {NoClient}
    /\ pc \in [Clients -> Phases]
    /\ op \in [Clients -> Ops]
    /\ amt \in [Clients -> Nat]
    /\ cur \in [Clients -> [Counters -> Nat]]
    /\ tries \in [Clients -> 0 .. MaxAttempts]
    /\ since \in [Counters -> Nat]
    /\ done \in [Clients -> BOOLEAN]
    /\ stale \in Nat /\ repeated \in Nat
    /\ ops \in 0 .. MaxOps /\ periods \in 0 .. MaxPeriods
    /\ faults \in 0 .. MaxFaults

(* A new account has its due date from the registration; one older than    *)
(* the monthly rule has counters and no due date at all.                   *)
Init ==
    /\ \/ /\ count = [k \in Counters |-> 0]
          /\ due = [r \in Rules |-> r = "week"]
       \/ /\ count = [k \in Counters |-> IF k = "meetings" THEN Limit ELSE 0]
          /\ due = [r \in Rules |-> r # "plan"]
    /\ plan \in {"free", "pro"}
    /\ lock = NoClient
    /\ pc = [c \in Clients |-> "idle"]
    /\ op = [c \in Clients |-> "get"]
    /\ amt = [c \in Clients |-> 0]
    /\ cur = [c \in Clients |-> [k \in Counters |-> 0]]
    /\ tries = [c \in Clients |-> 0]
    /\ since = count
    /\ done = [c \in Clients |-> FALSE]
    /\ stale = 0 /\ repeated = 0
    /\ ops = 0 /\ periods = 0 /\ faults = 0
-----------------------------------------------------------------------------
GoTo(c, phase) == pc' = [pc EXCEPT ![c] = phase]

(* run_cypher returns or raises: its locals are gone.                      *)
Return(c) ==
    /\ GoTo(c, "idle")
    /\ op' = [op EXCEPT ![c] = "get"]
    /\ amt' = [amt EXCEPT ![c] = 0]
    /\ cur' = [cur EXCEPT ![c] = [k \in Counters |-> 0]]
    /\ tries' = [tries EXCEPT ![c] = 0]
    /\ done' = [done EXCEPT ![c] = FALSE]

(* A call reaches run_cypher; a $delta of zero or less returned before.    *)
Call(c, o, a) ==
    /\ pc[c] = "idle" /\ ops < MaxOps
    /\ ops' = ops + 1
    /\ op' = [op EXCEPT ![c] = o]
    /\ amt' = [amt EXCEPT ![c] = IF o = "meeting" THEN 1 ELSE a]
    /\ tries' = [tries EXCEPT ![c] = 1]
    /\ GoTo(c, "open")
    /\ UNCHANGED <<cur, done, count, plan, due, lock, since, stale, repeated,
                   periods, faults>>

(* Where a statement goes after a rule.                                    *)
After(o, rule) ==
    CASE rule = "plan" -> "month"
      [] rule = "month" -> IF o \in {"get", "lite"} THEN "week" ELSE "read"
      [] OTHER -> IF o = "get" THEN "body" ELSE "read"

TouchNothing(c) ==
    /\ pc[c] = "open" /\ op[c] # "get"
    /\ GoTo(c, IF op[c] = "reset" THEN "body" ELSE "month")
    /\ UNCHANGED <<count, plan, due, lock, since, stale, repeated, ops, periods, faults, call>>

(* SET u.usage_updated_at = datetime(): the write that takes the lock.     *)
Touch(c) ==
    /\ pc[c] = "open" /\ op[c] # "get"
    /\ lock = NoClient
    /\ lock' = c
    /\ GoTo(c, IF op[c] = "reset" THEN "body" ELSE "month")
    /\ UNCHANGED <<count, plan, due, since, stale, repeated, ops, periods, faults, call>>

(* _GET_USAGE_CYPHER starts by reading.                                    *)
OpenGet(c) ==
    /\ pc[c] = "open" /\ op[c] = "get"
    /\ GoTo(c, "plan")
    /\ UNCHANGED <<count, plan, due, lock, since, stale, repeated, ops, periods, faults, call>>

(* WITH u, (... datetime() >= u....) AS need_...                           *)
Check(c) ==
    /\ pc[c] \in Rules
    /\ GoTo(c, IF due[pc[c]] THEN SetPc(pc[c]) ELSE After(op[c], pc[c]))
    /\ UNCHANGED <<count, plan, due, lock, since, stale, repeated, ops, periods, faults, call>>

(* FOREACH (_ IN CASE WHEN need_... | SET ...), which takes the lock if    *)
(* the transaction does not own it yet.  It is stale when somebody else    *)
(* applied the rule after the check.                                       *)
Apply(c, rule) ==
    /\ pc[c] = SetPc(rule)
    /\ lock \in {NoClient, c}
    /\ lock' = c
    /\ count' = [k \in Counters |-> IF k \in Cleared(rule) THEN 0 ELSE count[k]]
    /\ plan' = IF rule = "plan" THEN "free" ELSE plan
    /\ due' = [due EXCEPT ![rule] = FALSE]
    /\ since' = [k \in Counters |->
                    IF due[rule] /\ PeriodOf(k) = rule THEN 0 ELSE since[k]]
    /\ stale' = IF due[rule] THEN stale ELSE stale + 1
    /\ GoTo(c, After(op[c], rule))
    /\ UNCHANGED <<repeated, ops, periods, faults, call>>

(* The operands of the final SET, WITH ... AS current.                     *)
Read(c) ==
    /\ pc[c] = "read"
    /\ cur' = [cur EXCEPT ![c] = count]
    /\ GoTo(c, "body")
    /\ UNCHANGED <<count, plan, due, lock, op, amt, tries, done, since, stale,
                   repeated, ops, periods, faults>>

ExceededLate(c) == op[c] = "meeting" /\ cur[c]["meetings"] > Limit

(* (current >= limit) AS exceeded                                          *)
Exceeded(c) == op[c] = "meeting" /\ cur[c]["meetings"] >= Limit

(* What the statement leaves on the node, and what the account used.       *)
NewCount(c) ==
    IF op[c] = "reset" THEN [k \in Counters |-> 0]
    ELSE IF Exceeded(c) THEN count
    ELSE [k \in Counters |-> IF k \in Adds(op[c]) THEN cur[c][k] + amt[c] ELSE count[k]]

NewSince(c) ==
    IF op[c] = "reset" THEN [k \in Counters |-> 0]
    ELSE IF done[c] \/ Exceeded(c) THEN since
    ELSE [k \in Counters |-> IF k \in Adds(op[c]) THEN since[k] + amt[c] ELSE since[k]]

CommitHoldsLock(c) ==
    /\ pc[c] = "body"
    /\ op[c] = "get" \/ lock \in {NoClient, c}
    /\ count' = NewCount(c)
    /\ since' = NewSince(c)
    /\ done' = [done EXCEPT ![c] = @ \/ ~Exceeded(c)]
    /\ GoTo(c, "answer")
    /\ UNCHANGED <<plan, due, lock, op, amt, cur, tries, stale, repeated, ops,
                   periods, faults>>

(* The last SET, the commit and RETURN.                                    *)
Commit(c) ==
    /\ pc[c] = "body"
    /\ op[c] = "get" \/ lock \in {NoClient, c}
    /\ count' = NewCount(c)
    /\ since' = NewSince(c)
    /\ lock' = IF lock = c THEN NoClient ELSE lock
    /\ done' = [done EXCEPT ![c] = @ \/ ~Exceeded(c)]
    /\ GoTo(c, "answer")
    /\ UNCHANGED <<plan, due, op, amt, cur, tries, stale, repeated, ops,
                   periods, faults>>

(* The records are read and the session closes.                            *)
Answer(c) ==
    /\ pc[c] = "answer"
    /\ Return(c)
    /\ UNCHANGED <<count, plan, due, lock, since, stale, repeated, ops, periods, faults>>

(* ServiceUnavailable: run_cypher sends the statement again in a new       *)
(* session, and raises after MaxAttempts.                                  *)
Again(c) ==
    /\ faults < MaxFaults
    /\ faults' = faults + 1
    /\ IF tries[c] < MaxAttempts
         THEN /\ tries' = [tries EXCEPT ![c] = @ + 1]
              /\ GoTo(c, "open")
              /\ UNCHANGED <<op, amt, cur, done>>
         ELSE Return(c)
    /\ UNCHANGED <<count, plan, due, lock, since, stale, ops, periods>>

(* The statement did not reach the server, or was rolled back there.       *)
Unavailable(c) == pc[c] = "open" /\ Again(c) /\ UNCHANGED repeated

(* The connection breaks while the records are read: a defunct connection  *)
(* raises the same exception, after the commit.                            *)
LoseAnswer(c) ==
    /\ pc[c] = "answer"
    /\ Again(c)
    /\ repeated' = IF tries[c] < MaxAttempts THEN repeated + 1 ELSE repeated

(* Time passes a due date; only a plan granted for a time has one.         *)
PeriodEnds(rule) ==
    /\ ~due[rule] /\ periods < MaxPeriods
    /\ rule = "plan" => plan = "pro"
    /\ periods' = periods + 1
    /\ due' = [due EXCEPT ![rule] = TRUE]
    /\ UNCHANGED <<count, plan, lock, pc, since, stale, repeated, ops, faults, call>>

ServerStep(c) ==
    \/ Touch(c) \/ OpenGet(c) \/ Check(c) \/ Read(c) \/ Commit(c) \/ Answer(c)
    \/ \E rule \in Rules : Apply(c, rule)

Next ==
    \/ \E c \in Clients :
         \/ \E o \in Ops, a \in Amounts : Call(c, o, a)
         \/ ServerStep(c)
         \/ Unavailable(c)
         \/ LoseAnswer(c)
    \/ \E rule \in Rules : PeriodEnds(rule)

Spec == Init /\ [][Next]_vars
-----------------------------------------------------------------------------
(* "touch first to lock": while no reset was decided on an outdated due    *)
(* date and nothing was sent twice, every counter is exactly what was used *)
(* in its period, whatever the order of concurrent adds, resets and reads. *)
CountersExact == stale = 0 /\ repeated = 0 => count = since

(* The race that usage_repository.py accepts is in the user's favour: a    *)
(* stale reset never makes a counter show more than was used.              *)
UnderCountOnly == repeated = 0 => \A k \in Counters : count[k] <= since[k]

(* try_increment_meeting_count admits no meeting over the limit, except    *)
(* that each stale reset gives away at most one more allowance.            *)
BonusBounded == since["meetings"] <= Limit * (1 + stale)

(* The node's lock always belongs to a statement in execution, which can   *)
(* go on without waiting: no error path leaves the account blocked.        *)
NoAbandonedLock ==
    lock # NoClient =>
        pc[lock] \in {"month", "month_set", "week", "week_set", "read", "body"}

(* Every statement with its attempts is one atomic change of the node, and *)
(* resets on an outdated due date come from get_usage only: UsageNode      *)
(* implements UsageLedger.                                                 *)
Progress == [c \in Clients |-> CASE pc[c] = "idle"   -> "idle"
                                 [] pc[c] = "answer" -> "done"
                                 [] OTHER            -> "called"]

Ledger == INSTANCE UsageLedger WITH call <- Progress

NodeIsAtomic == Ledger!Spec
=============================================================================
