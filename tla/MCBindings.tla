------------------------------- MODULE MCBindings -------------------------------
(* Instances of Bindings for TLC.                                           *)
EXTENDS Bindings

CONSTANTS L, R, wire, mock, mock2, e1, p1, raw, ready

\* Two packages of one version of the right plugin, which differ in what they take
\* for canonical.
MCRefOf == [a \in Archives |-> IF a = wire THEN L ELSE R]
MCCompile == [a \in Archives |-> [b \in Bodies |-> IF a = mock THEN ready ELSE b]]

NoVersions == <<>>
===============================================================================
