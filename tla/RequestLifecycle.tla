--------------------------- MODULE RequestLifecycle ---------------------------
(***************************************************************************)
(* What the generation queue promises, without leases, owners, clocks or   *)
(* the processes that drive it.  A request of the application opens, at    *)
(* most one answer is ever accepted for it, the application can consume    *)
(* nothing but that answer, and the request ends either confirmed, which   *)
(* takes an application that consumed the answer, or withdrawn.            *)
(***************************************************************************)
CONSTANTS Requests, \* the requests of the application under test
          Answers,  \* the answers an agent can give
          NoAnswer  \* no answer

VARIABLES stage,    \* where each request is in its life
          answer,   \* the answer accepted for it
          consumed  \* the answer the application was given

vars == <<stage, answer, consumed>>

Stages == {"absent", "open", "accepted", "confirmed", "withdrawn"}

Init ==
    /\ stage = [r \in Requests |-> "absent"]
    /\ answer = [r \in Requests |-> NoAnswer]
    /\ consumed = [r \in Requests |-> NoAnswer]

\* The application asks.
Open(r) ==
    /\ stage[r] = "absent"
    /\ stage' = [stage EXCEPT ![r] = "open"]
    /\ UNCHANGED <<answer, consumed>>

\* An answer is accepted: the only step that sets one.
Accept(r, c) ==
    /\ stage[r] = "open"
    /\ stage' = [stage EXCEPT ![r] = "accepted"]
    /\ answer' = [answer EXCEPT ![r] = c]
    /\ UNCHANGED consumed

\* The application takes the accepted answer, once.
Consume(r) ==
    /\ answer[r] # NoAnswer
    /\ consumed[r] = NoAnswer
    /\ consumed' = [consumed EXCEPT ![r] = answer[r]]
    /\ UNCHANGED <<stage, answer>>

\* The agent is told that its answer took effect.
Confirm(r) ==
    /\ stage[r] = "accepted"
    /\ consumed[r] = answer[r]
    /\ stage' = [stage EXCEPT ![r] = "confirmed"]
    /\ UNCHANGED <<answer, consumed>>

\* Some requests end without effect: cancelled, expired or refused, together
\* when a run is cancelled.
Withdraw(S) ==
    /\ \A r \in S : stage[r] \in {"open", "accepted"}
    /\ stage' = [r \in Requests |-> IF r \in S THEN "withdrawn" ELSE stage[r]]
    /\ UNCHANGED <<answer, consumed>>

Next ==
    \/ \E r \in Requests :
          \/ Open(r)
          \/ \E c \in Answers : Accept(r, c)
          \/ Consume(r)
          \/ Confirm(r)
    \/ \E S \in SUBSET Requests : Withdraw(S)

Spec == Init /\ [][Next]_vars
===============================================================================
