------------------------------- MODULE MCIpcPeer -------------------------------
(* Instances of IpcPeer for TLC.                                            *)
EXTENDS IpcPeer, TLC

CONSTANTS host, plugin, c1, c2, c3

\* The host calls the plugin (c1, c2); the left plugin calls back (c3).
MCCallerOf == [c \in Calls |-> IF c = c3 THEN plugin ELSE host]
===============================================================================
