----------------------------- MODULE WireConnection -----------------------------
(***************************************************************************)
(* What the core may rely on when a left plugin asks it about connections: *)
(* before a connection is opened it may at most be asked to select a       *)
(* database for it, once, for a client that is not yet known to be who it  *)
(* says; everything else is asked after the open has succeeded.  A         *)
(* connection has one request under way at a time, executes only statements*)
(* the core prepared for it, asks nothing once its client was found to be  *)
(* gone, and is closed exactly once, after everything else: also one that  *)
(* was never opened, whose database was selected or not.                   *)
(***************************************************************************)
EXTENDS Naturals

CONSTANTS Conns

Operations == {"use", "query", "prepare", "execute", "close"}

VARIABLES stage,    \* how far the core is with each connection
          asked,    \* the operation under way
          prepared  \* the statements the core holds for it

vars == <<stage, asked, prepared>>

Stages == {"new", "selecting", "selected", "opening", "open", "busy", "shut", "closing",
           "closed"}

Init ==
    /\ stage = [c \in Conns |-> "new"]
    /\ asked = [c \in Conns |-> "nothing"]
    /\ prepared = [c \in Conns |-> 0]

Moves(c, from, to) ==
    /\ stage[c] \in from
    /\ stage' = [stage EXCEPT ![c] = to]

\* The handshake names a database.
Select(c) ==
    /\ Moves(c, {"new"}, "selecting")
    /\ asked' = [asked EXCEPT ![c] = "use"]
    /\ UNCHANGED prepared

Open(c) == Moves(c, {"new", "selected"}, "opening") /\ UNCHANGED <<asked, prepared>>
Opened(c) == Moves(c, {"opening"}, "open") /\ UNCHANGED <<asked, prepared>>

\* Its client is gone, or it could not be opened.
HangUp(c) ==
    /\ Moves(c, {"new", "selected", "opening", "open"}, "shut")
    /\ UNCHANGED <<asked, prepared>>

Ask(c, op) ==
    /\ Moves(c, {"open"}, "busy")
    /\ op = "execute" => prepared[c] > 0
    /\ asked' = [asked EXCEPT ![c] = op]
    /\ UNCHANGED prepared

\* Any operation may fail, with or without its effect; the client may be gone by now.
Settle(c) ==
    /\ \/ Moves(c, {"selecting"}, "selected")
       \/ Moves(c, {"busy"}, "open")
       \/ Moves(c, {"selecting", "busy"}, "shut")
    /\ asked' = [asked EXCEPT ![c] = "nothing"]
    /\ \/ UNCHANGED prepared
       \/ asked[c] = "prepare" /\ prepared' = [prepared EXCEPT ![c] = @ + 1]
       \/ asked[c] = "close" /\ prepared' = [prepared EXCEPT ![c] = @ - 1]

Close(c) == Moves(c, {"open", "shut"}, "closing") /\ UNCHANGED <<asked, prepared>>
Closed(c) ==
    /\ Moves(c, {"closing"}, "closed")
    /\ prepared' = [prepared EXCEPT ![c] = 0]
    /\ UNCHANGED asked

Next ==
    \E c \in Conns :
        \/ Select(c) \/ Open(c) \/ Opened(c) \/ HangUp(c)
        \/ \E op \in Operations : Ask(c, op)
        \/ Settle(c) \/ Close(c) \/ Closed(c)

Spec == Init /\ [][Next]_vars
===============================================================================
