----------------------------- MODULE MCMySQLMock -----------------------------
(* Instances of MySQLMock for TLC.                                          *)
EXTENDS MySQLMock, TLC

CONSTANTS q1, q2, q3, c1, c2, p1, f1, bad, s1

\* q1 and q2 are sent on one connection, q3 on another.
MCConnOf == [q \in Requests |-> IF q = q3 THEN c2 ELSE c1]

OneSlot == <<s1>>
OneSlotKeys == [s \in {s1} |-> {p1}]
NoSlots == <<>>
NoSlotKeys == [s \in {} |-> {}]

SelectsThree == [op \in Statements |-> IF op = "select" THEN 3 ELSE 1]
SelectsTwo == [op \in Statements |-> IF op = "select" THEN 2 ELSE 1]

MCOps == Requests \cup Candidates
MCFits == [f \in Candidates |-> f # bad]
===============================================================================
