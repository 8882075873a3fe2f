---------------------------- MODULE MCEnvironment ----------------------------
(* Instances of Environment for TLC.                                        *)
EXTENDS Environment, TLC

CONSTANTS r1, r2, b1, b2, q1, q2, d1, d2

OneBinding == <<b1>>
TwoBindings == <<b1, b2>>
\* Every request arrives at the first binding.
MCBindingOf == [q \in Requests |-> b1]
===============================================================================
