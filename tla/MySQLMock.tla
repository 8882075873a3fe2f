------------------------------- MODULE MySQLMock -------------------------------
(***************************************************************************)
(* plugins/right/mysql-mock/plugin.go over MySQLState: the handlers that   *)
(* run concurrently in the right plugin, one per request, while p.mu       *)
(* guards slots, continuations and closed connections and s.mu the rows.   *)
(*                                                                         *)
(* A SELECT on the reference table first walks the generation slots of the *)
(* table.  The first query that meets an unfilled slot asks for data and   *)
(* ends; the host later calls Complete with the agent's candidate.  Other  *)
(* queries wait for that slot.  A client sends one request at a time; when *)
(* it disconnects the left plugin cancels the request in flight and        *)
(* dispatches connection.close, and the two race in the right plugin.      *)
(***************************************************************************)
EXTENDS MySQLState, Sequences

CONSTANTS
    Requests, ConnOf,   \* each request belongs to a connection
    Operations,         \* what the clients of the instance may send
    SlotSeq, SlotKeys,  \* the slots in the order of the scenario; their keys
    Candidates, Fits,   \* fills, and whether they satisfy slot and constraints
    MaxPending,         \* 128 continuations
    MaxCalls,           \* the expected maximum of each statement
    NoRequest

Statements == {"select", "insert"}

ASSUME MockAssumption ==
    /\ ConnOf \in [Requests -> Conns]
    /\ Operations \subseteq Statements \cup {"begin", "commit"}
    /\ SlotSeq \in Seq(DOMAIN SlotKeys)
    /\ SlotKeys \in [DOMAIN SlotKeys -> SUBSET Parents]
    /\ Fits \in [Candidates -> BOOLEAN]
    /\ Ops = Requests \cup Candidates
    /\ Requests \cap Candidates = {}
    /\ IsFiniteSet(Requests) /\ NoRequest \notin Requests
    /\ MaxPending \in Nat /\ MaxCalls \in [Statements -> Nat]

VARIABLES
    req,      \* the handler of each request
    ctx,      \* requests whose context is done in the right plugin
    late,     \* requests whose deadline has passed
    need,     \* p.pending: the continuation of each request
    slotOf,   \* p.slots
    calls,    \* p.counts
    closed,   \* p.closed
    gone,     \* connections whose client has disconnected
    holder,   \* the Complete that has p.mu between its two uses of s.mu
    stopped   \* p.store is nil

mockVars == <<req, ctx, late, need, slotOf, calls, closed, gone, holder, stopped>>
allVars == <<dbVars, mockVars>>

-------------------------------------------------------------------------------
Slots == DOMAIN SlotKeys

\* "called" is before the first critical section, "admitted" after it.
Pcs == {"idle", "called", "admitted", "looping", "waiting", "executing", "needs",
        "filling", "done", "failed"}
Errors == {"none", "context", "closed", "stopped", "expired", "refused", "full",
           "count", "host"}
Handler == [pc : Pcs, op : Operations \cup {"none"}, tx : BOOLEAN,
            at : 1..(Len(SlotSeq) + 1), on : Requests \cup {NoRequest},
            err : Errors, saw : SUBSET Parents]
Need == [state : {"none", "open", "filled", "failed"}, slot : Slots \cup {"none"},
         err : Errors, fill : Candidates \cup {"none"}]

NoNeed == [state |-> "none", slot |-> "none", err |-> "none", fill |-> "none"]

MockInit ==
    /\ Init
    /\ req = [q \in Requests |-> [pc |-> "idle", op |-> "none", tx |-> FALSE,
                                  at |-> 1, on |-> NoRequest, err |-> "none",
                                  saw |-> {}]]
    /\ ctx = {} /\ late = {}
    /\ need = [q \in Requests |-> NoNeed]
    /\ slotOf = [s \in Slots |-> NoRequest]
    /\ calls = [s \in Statements |-> 0]
    /\ closed = {} /\ gone = {}
    /\ holder = NoRequest
    /\ stopped = FALSE

InFlight(q) == req[q].pc \notin {"idle", "done", "failed"}
Free == holder = NoRequest

\* What a handler does next; how it ends.
Goto(q, pc) == req' = [req EXCEPT ![q].pc = pc]
Fail(q, err) == req' = [req EXCEPT ![q].pc = "failed", ![q].err = err]
EndNeed(n, err) == [n EXCEPT !.state = "failed", !.err = err]

-------------------------------------------------------------------------------
(* The client and the host.                                                 *)

\* The client knows from the status flags whether it is in a transaction.
Send(q) ==
    /\ req[q].pc = "idle"
    /\ ConnOf[q] \notin gone
    /\ \A r \in Requests : ConnOf[r] = ConnOf[q] => ~InFlight(r)
    /\ \E op \in Operations :
          req' = [req EXCEPT ![q].pc = "called", ![q].op = op,
                             ![q].tx = Conn(ConnOf[q]).active]
    /\ UNCHANGED <<dbVars, ctx, late, need, slotOf, calls, closed, gone, holder,
                   stopped>>

Disconnect(c) ==
    /\ c \notin gone
    /\ gone' = gone \cup {c}
    /\ UNCHANGED <<dbVars, req, ctx, late, need, slotOf, calls, closed, holder,
                   stopped>>

\* The cancellation reaches the handler: the client is gone, the deadline has
\* passed, or the binding was sealed.
ContextEnds(q) ==
    /\ InFlight(q)
    /\ q \notin ctx
    /\ ctx' = ctx \cup {q}
    /\ UNCHANGED <<dbVars, req, late, need, slotOf, calls, closed, gone, holder,
                   stopped>>

\* The deadline matters while a continuation waits for its fill.
DeadlinePasses(q) ==
    /\ need[q].state = "open"
    /\ q \notin late
    /\ late' = late \cup {q}
    /\ UNCHANGED <<dbVars, req, ctx, need, slotOf, calls, closed, gone, holder,
                   stopped>>

\* The host has no candidate: cancelled, expired or QUEUE_FULL.
GiveUp(q) ==
    /\ req[q].pc = "needs"
    /\ Fail(q, "host")
    /\ UNCHANGED <<dbVars, ctx, late, need, slotOf, calls, closed, gone, holder,
                   stopped>>

-------------------------------------------------------------------------------
(* Execute.                                                                 *)

Admit(q) ==
    /\ req[q].pc = "called"
    /\ Free
    /\ \/ stopped /\ Fail(q, "stopped")
       \/ ~stopped /\ q \in ctx /\ Fail(q, "context")
       \/ /\ ~stopped /\ q \notin ctx
          /\ IF ConnOf[q] \in closed THEN Fail(q, "closed") ELSE Goto(q, "admitted")
    /\ UNCHANGED <<dbVars, ctx, late, need, slotOf, calls, closed, gone, holder,
                   stopped>>

\* control(), which looks at the context under s.mu.  A failed COMMIT is an
\* answer like any other.
TransactionControl(q) ==
    /\ req[q].pc = "admitted"
    /\ \/ /\ q \in ctx /\ req[q].op \in {"begin", "commit"}
          /\ Fail(q, "context")
          /\ UNCHANGED dbVars
       \/ /\ q \notin ctx
          /\ Goto(q, "done")
          /\ \/ req[q].op = "begin" /\ Begin(ConnOf[q])
             \/ /\ req[q].op = "begin" /\ Conn(ConnOf[q]).active
                /\ UNCHANGED dbVars
             \/ /\ req[q].op = "commit"
                /\ Commit(ConnOf[q], Conn(ConnOf[q]).autocommit)
    /\ UNCHANGED <<ctx, late, need, slotOf, calls, closed, gone, holder, stopped>>

\* The call is counted against the expected maximum.
Count(q) ==
    /\ req[q].pc = "admitted"
    /\ req[q].op \in Statements
    /\ Free
    /\ calls' = [calls EXCEPT ![req[q].op] = @ + 1]
    /\ IF calls[req[q].op] >= MaxCalls[req[q].op] THEN Fail(q, "count")
       ELSE Goto(q, IF req[q].op = "select" THEN "looping" ELSE "executing")
    /\ UNCHANGED <<dbVars, ctx, late, need, slotOf, closed, gone, holder, stopped>>

Pending == {q \in Requests : need[q].state # "none"}
Filled(s) == slotOf[s] # NoRequest /\ need[slotOf[s]].state = "filled"
Awaited(s) ==
    /\ slotOf[s] # NoRequest
    /\ need[slotOf[s]].state = "open"
    /\ slotOf[s] \notin late

\* The expired fill of the slot ends.
Expire(s) ==
    [r \in Requests |-> IF r = slotOf[s] /\ need[r].state = "open"
                        THEN EndNeed(need[r], "expired") ELSE need[r]]

Asked(s) == [NoNeed EXCEPT !.state = "open", !.slot = s]

\* Mutant: an expired fill loses its slot but does not end.
OpenSlot_KeepsExpired(q, s) ==
    IF Cardinality(Pending) >= MaxPending
    THEN /\ slotOf' = [slotOf EXCEPT ![s] = NoRequest]
         /\ Fail(q, "full")
         /\ UNCHANGED need
    ELSE /\ need' = [need EXCEPT ![q] = Asked(s)]
         /\ slotOf' = [slotOf EXCEPT ![s] = q]
         /\ Goto(q, "needs")

\* Mutant: one continuation too many.
OpenSlot_OffByOne(q, s) ==
    IF Cardinality(Pending) > MaxPending
    THEN /\ need' = Expire(s)
         /\ slotOf' = [slotOf EXCEPT ![s] = NoRequest]
         /\ Fail(q, "full")
    ELSE /\ need' = [Expire(s) EXCEPT ![q] = Asked(s)]
         /\ slotOf' = [slotOf EXCEPT ![s] = q]
         /\ Goto(q, "needs")

\* The slot is free, or its fill failed or expired: it is asked for (again).
\* Continuations are never removed, so the limit counts all there ever were.
OpenSlot(q, s) ==
    IF Cardinality(Pending) >= MaxPending
    THEN /\ need' = Expire(s)
         /\ slotOf' = [slotOf EXCEPT ![s] = NoRequest]
         /\ Fail(q, "full")
    ELSE /\ need' = [Expire(s) EXCEPT ![q] = Asked(s)]
         /\ slotOf' = [slotOf EXCEPT ![s] = q]
         /\ Goto(q, "needs")

\* One turn of the loop over the slots.
LoopSlot(q) ==
    /\ req[q].pc = "looping"
    /\ req[q].at <= Len(SlotSeq)
    /\ Free
    /\ LET s == SlotSeq[req[q].at]
       IN  \/ /\ Filled(s)
              /\ req' = [req EXCEPT ![q].at = @ + 1]
              /\ UNCHANGED <<need, slotOf>>
           \/ /\ Awaited(s)
              /\ req' = [req EXCEPT ![q].pc = "waiting", ![q].on = slotOf[s]]
              /\ UNCHANGED <<need, slotOf>>
           \/ /\ ~Filled(s) /\ ~Awaited(s)
              /\ OpenSlot(q, s)
    /\ UNCHANGED <<dbVars, ctx, late, calls, closed, gone, holder, stopped>>

\* Mutant: a waiting query goes on whatever became of the fill.
Wake_AnyOutcome(q) ==
    /\ req[q].pc = "waiting"
    /\ need[req[q].on].state # "open"
    /\ req' = [req EXCEPT ![q].pc = "looping", ![q].at = @ + 1]
    /\ UNCHANGED <<dbVars, ctx, late, need, slotOf, calls, closed, gone, holder,
                   stopped>>

\* The fill a query waits for has ended; the query shares its error.
Wake(q) ==
    /\ req[q].pc = "waiting"
    /\ \/ /\ need[req[q].on].state = "filled"
          /\ req' = [req EXCEPT ![q].pc = "looping", ![q].at = @ + 1]
       \/ /\ need[req[q].on].state = "failed"
          /\ Fail(q, need[req[q].on].err)
    /\ UNCHANGED <<dbVars, ctx, late, need, slotOf, calls, closed, gone, holder,
                   stopped>>

WaitCancelled(q) ==
    /\ req[q].pc = "waiting"
    /\ q \in ctx
    /\ Fail(q, "context")
    /\ UNCHANGED <<dbVars, ctx, late, need, slotOf, calls, closed, gone, holder,
                   stopped>>

LoopEnds(q) ==
    /\ req[q].pc = "looping"
    /\ req[q].at > Len(SlotSeq)
    /\ Goto(q, "executing")
    /\ UNCHANGED <<dbVars, ctx, late, need, slotOf, calls, closed, gone, holder,
                   stopped>>

\* The answer of a SELECT on the reference table.
Answer(q) ==
    req' = [req EXCEPT ![q].pc = "done",
                       ![q].saw = Present(View(Started(ConnOf[q]))) \cap Parents]

\* state.execute() for the statement of the request.
ExecuteStatement(q) ==
    /\ req[q].pc = "executing"
    /\ \/ /\ q \in ctx
          /\ Fail(q, "context")
          /\ UNCHANGED dbVars
       \/ /\ q \notin ctx /\ req[q].op = "select"
          /\ Answer(q)
          /\ Read(ConnOf[q])
       \/ /\ q \notin ctx /\ req[q].op = "insert"
          /\ Goto(q, "done")
          /\ \E p \in Parents, u \in UniqueVals : InsertAuto(ConnOf[q], p, u, q)
    /\ UNCHANGED <<ctx, late, need, slotOf, calls, closed, gone, holder, stopped>>

-------------------------------------------------------------------------------
(* Complete.  It holds p.mu throughout and s.mu twice: to install the rows   *)
(* of the fill, and to execute the statement that asked for them.  The host  *)
(* calls it once for a continuation.                                         *)

FillRows(s, f) == [k \in SlotKeys[s] |-> [born |-> f]]

\* Mutant: rows that exist are overwritten.
Refusal_Overwrites(q, f) ==
    IF ConnOf[q] \in closed THEN "closed"
    ELSE IF q \in ctx THEN "context"
    ELSE IF q \in late THEN "expired"
    ELSE IF stopped THEN "stopped"
    ELSE IF ~Fits[f] THEN "refused"
    ELSE "none"

\* Why a fill is not applied, in the order of the checks.
Refusal(q, f) ==
    IF ConnOf[q] \in closed THEN "closed"
    ELSE IF q \in ctx THEN "context"
    ELSE IF q \in late THEN "expired"
    ELSE IF stopped THEN "stopped"
    ELSE IF ~Fits[f] \/ \E k \in SlotKeys[need[q].slot] : committed[k].row # NoRow THEN "refused"
    ELSE "none"

Complete(q, f) ==
    /\ req[q].pc = "needs"
    /\ Free
    /\ \/ /\ need[q].state # "open"
          /\ Fail(q, need[q].err)
          /\ UNCHANGED <<dbVars, need, holder>>
       \/ /\ need[q].state = "open" /\ Refusal(q, f) # "none"
          /\ need' = [need EXCEPT ![q] = [EndNeed(@, Refusal(q, f)) EXCEPT !.fill = f]]
          /\ Fail(q, Refusal(q, f))
          /\ UNCHANGED <<dbVars, holder>>
       \/ /\ need[q].state = "open" /\ Refusal(q, f) = "none"
          /\ version < MaxVersion
          /\ Install(FillRows(need[q].slot, f))
          /\ need' = [need EXCEPT ![q].fill = f]
          /\ holder' = q
          /\ Goto(q, "filling")
          /\ UNCHANGED <<sessions, nextID, used>>
    /\ UNCHANGED <<ctx, late, slotOf, calls, closed, gone, stopped>>

CompleteExecutes(q) ==
    /\ req[q].pc = "filling"
    /\ \/ /\ q \in ctx
          /\ need' = [need EXCEPT ![q] = EndNeed(@, "context")]
          /\ Fail(q, "context")
          /\ UNCHANGED dbVars
       \/ /\ q \notin ctx
          /\ need' = [need EXCEPT ![q].state = "filled"]
          /\ Answer(q)
          /\ Read(ConnOf[q])
    /\ holder' = NoRequest
    /\ UNCHANGED <<ctx, late, slotOf, calls, closed, gone, stopped>>

-------------------------------------------------------------------------------
(* connection.close and Stop end the continuations that are still open.      *)

\* Mutant: a continuation that has ended is ended again.
EndNeeds_Again(S, err) ==
    need' = [r \in Requests |-> IF r \in S /\ need[r].state # "none"
                                THEN EndNeed(need[r], err) ELSE need[r]]

EndNeeds(S, err) ==
    need' = [r \in Requests |-> IF r \in S /\ need[r].state = "open"
                                THEN EndNeed(need[r], err) ELSE need[r]]

\* The left plugin dispatches connection.close once its client is gone.
CloseConnection(c) ==
    /\ c \in gone \ closed
    /\ Free /\ ~stopped
    /\ closed' = closed \cup {c}
    /\ EndNeeds({q \in Requests : ConnOf[q] = c}, "closed")
    /\ Close(c)
    /\ UNCHANGED <<req, ctx, late, slotOf, calls, gone, holder, stopped>>

Stop ==
    /\ ~stopped /\ Free
    /\ stopped' = TRUE
    /\ EndNeeds(Requests, "stopped")
    /\ UNCHANGED <<dbVars, req, ctx, late, slotOf, calls, closed, gone, holder>>

-------------------------------------------------------------------------------
Handle(q) ==
    \/ Admit(q) \/ TransactionControl(q) \/ Count(q)
    \/ LoopSlot(q) \/ Wake(q) \/ WaitCancelled(q) \/ LoopEnds(q)
    \/ ExecuteStatement(q) \/ CompleteExecutes(q)

Host(q) ==
    \/ Send(q) \/ ContextEnds(q) \/ DeadlinePasses(q) \/ GiveUp(q)
    \/ \E f \in Candidates : Complete(q, f)

MockNext ==
    \/ \E q \in Requests : Handle(q) \/ Host(q)
    \/ \E c \in Conns : Disconnect(c) \/ CloseConnection(c)
    \/ Stop

MockSpec == MockInit /\ [][MockNext]_allVars

-------------------------------------------------------------------------------
(* Properties.                                                              *)

\* Every variable has its type, and there are never too many continuations.
MockTypeOK ==
    /\ req \in [Requests -> Handler]
    /\ ctx \subseteq Requests /\ late \subseteq Requests
    /\ need \in [Requests -> Need] /\ Cardinality(Pending) <= MaxPending
    /\ slotOf \in [Slots -> Requests \cup {NoRequest}]
    /\ calls \in [Statements -> 0..Cardinality(Requests)]
    /\ closed \subseteq gone /\ gone \subseteq Conns
    /\ holder \in Requests \cup {NoRequest}
    /\ stopped \in BOOLEAN

\* A slot is asked for by one continuation at a time, the one queries wait for.
OneFillPerSlot ==
    \A q \in Requests : need[q].state = "open" => slotOf[need[q].slot] = q

\* A continuation ends once: its channel is never closed twice, which panics.
EndsOnce ==
    [][\A q \in Requests : need[q].state \in {"filled", "failed"} =>
          /\ need'[q].state = need[q].state
          /\ need'[q].err = need[q].err]_allVars

\* What a query was told stays true: it answers with every row of the slots of its
\* table, or not at all, and a row once filled is never replaced, whatever fills
\* expire, fail or arrive late.
AnswersStayTrue ==
    [][/\ \A q \in Requests :
             req[q].op = "select" /\ req[q].pc # "done" /\ req'[q].pc = "done" =>
                \A s \in Slots : SlotKeys[s] \subseteq req'[q].saw
       /\ \A k \in Parents : committed[k].row # NoRow => committed'[k] = committed[k]]_allVars

\* What an INSERT of a transaction wrote becomes visible by its COMMIT only:
\* a broken connection discards it.
AppliesAtCommit ==
    [][\A q \in Requests :
          /\ req[q].op = "insert" /\ req[q].tx
          /\ q \notin births /\ q \in births'
          => \E r \in Requests :
                /\ ConnOf[r] = ConnOf[q] /\ req[r].op = "commit"
                /\ req[r].pc = "admitted" /\ req'[r].pc = "done"]_allVars

\* "Later identical candidates are reused": a fill is refused only if it does not
\* fit or the rows that are there are not its own.
SameFillIsReused ==
    \A q \in Requests :
        /\ need[q].state = "failed" /\ need[q].err = "refused" /\ Fits[need[q].fill]
        => \E k \in SlotKeys[need[q].slot] : committed[k].row.born # need[q].fill
===============================================================================
