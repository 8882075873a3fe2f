----------------------------- MODULE MCMySQLState -----------------------------
(* Instances of MySQLState for TLC.                                         *)
EXTENDS MySQLState, TLC

\* Connections, ops and unique values are interchangeable.
StateSymmetry ==
    Permutations(Conns) \cup Permutations(Ops) \cup Permutations(UniqueVals)
===============================================================================
