------------------------------ MODULE MCMySQLWire ------------------------------
(* An instance of MySQLWire for TLC.                                        *)
EXTENDS MySQLWire, TLC

CONSTANTS c1, c2

\* The first client waits for its answers, the second one does not.
MCCommands == [c \in Conns |-> IF c = c1 THEN {"prepare", "execute", "close"}
                              ELSE {"use", "query", "quit", "bad"}]
MCMaxCommands == [c \in Conns |-> 3]
===============================================================================
