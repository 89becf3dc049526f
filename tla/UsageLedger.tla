----------------------------- MODULE UsageLedger -----------------------------
(***************************************************************************)
(* What the usage repository promises of one account: a call is one atomic *)
(* change of the counters as they are at that moment, made between its     *)
(* beginning and its end, and made again if its answer was lost.  A due    *)
(* date that has passed is acted upon once, by a call that is under way;   *)
(* only a get_usage may act upon one that another call has dealt with.     *)
(* Nothing here knows of transactions, locks or attempts.                  *)
(***************************************************************************)
EXTENDS Naturals

CONSTANTS
    Clients,       \* requests and jobs that use the account
    Amounts,       \* token and character deltas
    Limit          \* the account's meeting_logs limit

VARIABLES
    count, plan,   \* the counters and the plan of the account
    due,           \* the due dates that have passed
    call,          \* is the call of a client under way, or done
    op, amt        \* what it asks for

Counters == {"meetings", "main", "chars", "lite", "weekly"}
Rules    == {"plan", "month", "week"}

Init ==
    /\ count \in [Counters -> Nat] /\ plan \in {"free", "pro"} /\ due \in [Rules -> BOOLEAN]
    /\ call = [c \in Clients |-> "idle"]
    /\ op = [c \in Clients |-> "get"] /\ amt = [c \in Clients |-> 0]

(* A meeting is counted by one, below the limit only; tokens of the lite   *)
(* model count for the month and for the week.                             *)
Effect(o, a) ==
    CASE o = "get"     -> count
      [] o = "reset"   -> [k \in Counters |-> 0]
      [] o = "meeting" -> IF count["meetings"] >= Limit THEN count
                          ELSE [count EXCEPT !["meetings"] = @ + 1]
      [] o = "lite"    -> [count EXCEPT !["lite"] = @ + a, !["weekly"] = @ + a]
      [] OTHER         -> [count EXCEPT ![o] = @ + a]

(* The dates a call looks at.                                              *)
Heals(o) ==
    CASE o = "get"   -> Rules
      [] o = "lite"  -> {"month", "week"}
      [] o = "reset" -> {}
      [] OTHER       -> {"month"}

Begin(c) ==
    /\ call[c] = "idle"
    /\ call' = [call EXCEPT ![c] = "called"]
    /\ \E o \in {"get", "meeting", "main", "chars", "lite", "reset"}, a \in Amounts \cup {1} :
          op' = [op EXCEPT ![c] = o] /\ amt' = [amt EXCEPT ![c] = a]
    /\ UNCHANGED <<count, plan, due>>

Act(c) ==
    /\ call[c] = "called"
    /\ call' = [call EXCEPT ![c] = "done"]
    /\ count' = Effect(op[c], amt[c])
    /\ UNCHANGED <<plan, due, op, amt>>

Repeat(c) ==
    /\ call[c] = "done"
    /\ call' = [call EXCEPT ![c] = "called"]
    /\ UNCHANGED <<count, plan, due, op, amt>>

(* An answer, or an error; a call that failed may not have acted.          *)
End(c) ==
    /\ call[c] # "idle"
    /\ call' = [call EXCEPT ![c] = "idle"]
    /\ op' = [op EXCEPT ![c] = "get"] /\ amt' = [amt EXCEPT ![c] = 0]
    /\ UNCHANGED <<count, plan, due>>

Zero(K) == [k \in Counters |-> IF k \in K THEN 0 ELSE count[k]]

Heal(c, rule) ==
    /\ call[c] = "called" /\ rule \in Heals(op[c])
    /\ due[rule] \/ op[c] = "get"
    /\ due' = [due EXCEPT ![rule] = FALSE]
    /\ count' = CASE rule = "plan"  -> count
                  [] rule = "month" -> Zero({"meetings", "main", "chars", "lite"})
                  [] rule = "week"  -> Zero({"weekly"})
    /\ plan' = IF rule = "plan" THEN "free" ELSE plan
    /\ UNCHANGED <<call, op, amt>>

Elapse(rule) ==
    /\ ~ due[rule] /\ (rule = "plan" => plan = "pro")
    /\ due' = [due EXCEPT ![rule] = TRUE]
    /\ UNCHANGED <<count, plan, call, op, amt>>

Next ==
    \/ \E c \in Clients :
          Begin(c) \/ Act(c) \/ Repeat(c) \/ End(c) \/ \E rule \in Rules : Heal(c, rule)
    \/ \E rule \in Rules : Elapse(rule)

Spec == Init /\ [][Next]_<<count, plan, due, call, op, amt>>
=============================================================================
