------------------------------ MODULE MCJobGate ------------------------------
(* Small instances of JobGate: one account and one project, so that every  *)
(* task competes with every other one.                                     *)
EXTENDS JobGate

CONSTANTS r1, r2, r3, t1, t2, t3, alice, proj

(* Two heavy master writers and a second submission of the first one.      *)
DupTasks  == [r \in {r1, r2, r3} |-> IF r = r3 THEN t1 ELSE IF r = r1 THEN t1 ELSE t2]
(* One request for each task.                                              *)
OwnTasks  == [r \in {r1, r2, r3} |-> IF r = r1 THEN t1 ELSE IF r = r2 THEN t2 ELSE t3]

AllAlice  == [t \in Tasks |-> alice]
AllProj   == [t \in Tasks |-> proj]

MergeAndDesign == [t \in Tasks |-> IF t = t1 THEN "design" ELSE "merge"]
Mixed   == [t \in Tasks |-> IF t = t1 THEN "design" ELSE IF t = t2 THEN "lint" ELSE "delete"]
=============================================================================
