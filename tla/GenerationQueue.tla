---------------------------- MODULE GenerationQueue ----------------------------
(***************************************************************************)
(* internal/generation/queue.go: the bounded queue through which requests  *)
(* of the application that lack data reach the agent.                      *)
(*                                                                         *)
(* The actors are                                                          *)
(*   - one dispatch per request: it calls Enqueue, waits for a candidate,  *)
(*     hands it to the right plugin and reports the outcome                *)
(*     (binding/manager.go dispatch, app/service.go observe);              *)
(*   - agents, each in at most one Next or Resolve call at a time;         *)
(*   - the deadline timer and the context watcher of each request;         *)
(*   - the run: CancelRun and Forget.                                      *)
(* q.mu makes each critical section one action.  What happens between two  *)
(* critical sections of one call is an interleaving of this module: the    *)
(* schema check of Resolve, the wait of Next, the two halves of Forget.    *)
(***************************************************************************)
EXTENDS Naturals, FiniteSets

CONSTANTS
    Runs, Requests, Agents,
    RunOf,       \* the run that dispatches each request
    Candidates,  \* raw candidates an agent may send
    Digests,     \* digests of well-formed candidates
    Digest,      \* digest(): two raw candidates may have the same digest
    Fits,        \* whether the candidate satisfies the schema of the need
    NoCandidate, NoDigest,
    LeaseTTL,       \* 15 seconds
    RequestTimeout, \* the longest time a request may be given
    MaxBatch,       \* 8: the largest limit of Next
    MaxActive,      \* 512 unfinished requests in the queue
    MaxPerRun,      \* 128 unfinished requests of one run
    MaxTotal,       \* 4096 requests of one run
    MaxTime,        \* bound: the clock stops here
    MaxOwners,      \* bound: owner tokens issued per run
    MaxLeases       \* bound: lease tokens issued per request

ASSUME DataAssumption ==
    /\ RunOf \in [Requests -> Runs]
    /\ NoDigest \notin Digests
    /\ NoCandidate \notin Candidates
    /\ Digest \in [Candidates -> Digests \cup {NoDigest}]
    /\ Fits \in [Candidates -> BOOLEAN]

ASSUME BoundsAssumption ==
    /\ LeaseTTL \in Nat \ {0}
    /\ RequestTimeout \in Nat \ {0}
    /\ MaxBatch \in Nat \ {0}
    /\ MaxActive \in Nat /\ MaxPerRun \in Nat /\ MaxTotal \in Nat
    /\ MaxTime \in Nat /\ MaxOwners \in Nat /\ MaxLeases \in Nat

VARIABLES
    now,         \* the clock of the queue
    queue,       \* the keys of q.entries
    entry,       \* the entries, which outlive their key in the hands of a waiter
    leases,      \* how many lease tokens each request has had
    owners,      \* q.owners
    issued,      \* how many owner tokens each run has had
    agent,       \* the call each agent is in
    caller,      \* how far the dispatch of each request is
    ctx,         \* whether the context of the dispatch is done
    received,    \* the candidate Enqueue returned to the dispatch
    forgetting   \* runs between the two critical sections of Forget

vars == <<now, queue, entry, leases, owners, issued, agent, caller, ctx,
          received, forgetting>>

-------------------------------------------------------------------------------
(* Data.  Tokens are random in the code; here they are numbered in the      *)
(* order they are issued and 0 is the empty token.  The lease token n of    *)
(* request r stands for the pair <<r, n>>.                                  *)

States == {"none", "pending", "leased", "resolving",
           "resolved", "cancelled", "expired", "failed"}

\* Mutant: a resolved entry can be finished again.
terminal_NotResolved(state) == state \in {"cancelled", "expired", "failed"}

terminal(state) == state \in {"resolved", "cancelled", "expired", "failed"}

Owner == [token : 0..MaxOwners, epoch : 0..MaxOwners]
NoOwner == [token |-> 0, epoch |-> 0]

Entry == [state : States, deadline : 0..MaxTime, lease : 0..MaxLeases,
          epoch : 0..MaxOwners, leaseExpiry : 0..MaxTime,
          hash : Digests \cup {NoDigest},
          candidate : Candidates \cup {NoCandidate},
          delivery : Candidates \cup {NoCandidate}]

NoEntry == [state |-> "none", deadline |-> 0, lease |-> 0, epoch |-> 0,
            leaseExpiry |-> 0, hash |-> NoDigest,
            candidate |-> NoCandidate, delivery |-> NoCandidate]

\* A call in progress: a Next that waits (woken once q.changed was closed), or
\* a Resolve outside the lock, checking the schema or waiting for the outcome.
Idle == [pc |-> "idle"]
NextCall == [pc : {"polling", "woken"}, run : Runs, owner : Owner,
             limit : 1..MaxBatch]
ResolveCall == [pc : {"checking", "waiting"}, req : Requests, owner : Owner,
                lease : 0..MaxLeases, cand : Candidates]
Calls == {Idle} \cup NextCall \cup ResolveCall

CallerStates == {"idle", "entering", "waiting", "got", "completing", "filled",
                 "failed", "confirmed", "closed"}

Init ==
    /\ now = 0
    /\ queue = {}
    /\ entry = [r \in Requests |-> NoEntry]
    /\ leases = [r \in Requests |-> 0]
    /\ owners = [n \in Runs |-> NoOwner]
    /\ issued = [n \in Runs |-> 0]
    /\ agent = [a \in Agents |-> Idle]
    /\ caller = [r \in Requests |-> "idle"]
    /\ ctx = [r \in Requests |-> FALSE]
    /\ received = [r \in Requests |-> NoCandidate]
    /\ forgetting = {}

-------------------------------------------------------------------------------
(* Helpers of every critical section.                                       *)

Unfinished == {r \in queue : ~terminal(entry[r].state)}
OfRun(run) == {r \in queue : RunOf[r] = run}

\* signal() closes q.changed: every Next that waits on it wakes up.
Signal(calls) ==
    [a \in Agents |-> IF calls[a].pc = "polling"
                      THEN [calls[a] EXCEPT !.pc = "woken"]
                      ELSE calls[a]]

\* Mutant: an answer in flight shields the entry from every cancellation.
Finish_SkipsResolving(S, state) ==
    LET open == {r \in S : entry[r].state \in {"pending", "leased"}}
    IN  /\ entry' = [r \in Requests |-> IF r \in open
                                        THEN [entry[r] EXCEPT !.state = state]
                                        ELSE entry[r]]
        /\ agent' = IF open = {} THEN agent ELSE Signal(agent)

\* finish() on each request of S; it returns early on a terminal entry, so only
\* the others change state and only then is there a signal.
Finish(S, state) ==
    LET open == {r \in S : ~terminal(entry[r].state)}
    IN  /\ entry' = [r \in Requests |-> IF r \in open
                                        THEN [entry[r] EXCEPT !.state = state]
                                        ELSE entry[r]]
        /\ agent' = IF open = {} THEN agent ELSE Signal(agent)

\* CancelRequest looks the entry up by its ID.
CancelRequest(r, state) == Finish({r} \cap queue, state)

-------------------------------------------------------------------------------
(* The dispatch of a request.                                               *)

\* Enqueue is called with a deadline in the future; the check precedes the lock,
\* so time may pass before Insert.
Begin(r) ==
    /\ caller[r] = "idle"
    /\ \E d \in (now + 1)..(now + RequestTimeout) :
          /\ d <= MaxTime
          /\ entry' = [entry EXCEPT ![r].deadline = d]
    /\ caller' = [caller EXCEPT ![r] = "entering"]
    /\ UNCHANGED <<now, queue, leases, owners, issued, agent, ctx, received,
                   forgetting>>

Full(run) ==
    \/ Cardinality(Unfinished) >= MaxActive
    \/ Cardinality(Unfinished \cap OfRun(run)) >= MaxPerRun
    \/ Cardinality(OfRun(run)) >= MaxTotal

\* QUEUE_FULL.
Refuse(r) ==
    /\ caller[r] = "entering"
    /\ Full(RunOf[r])
    /\ caller' = [caller EXCEPT ![r] = "failed"]
    /\ UNCHANGED <<now, queue, entry, leases, owners, issued, agent, ctx,
                   received, forgetting>>

\* Mutant: the new entry does not signal.
Insert_Silent(r) ==
    /\ caller[r] = "entering"
    /\ ~Full(RunOf[r])
    /\ queue' = queue \cup {r}
    /\ entry' = [entry EXCEPT ![r].state = "pending"]
    /\ caller' = [caller EXCEPT ![r] = "waiting"]
    /\ UNCHANGED <<now, leases, owners, issued, agent, ctx, received, forgetting>>

Insert(r) ==
    /\ caller[r] = "entering"
    /\ ~Full(RunOf[r])
    /\ queue' = queue \cup {r}
    /\ entry' = [entry EXCEPT ![r].state = "pending"]
    /\ agent' = Signal(agent)
    /\ caller' = [caller EXCEPT ![r] = "waiting"]
    /\ UNCHANGED <<now, leases, owners, issued, ctx, received, forgetting>>

\* The select of Enqueue: any ready case may be taken.
TakeCandidate(r) ==
    /\ caller[r] = "waiting"
    /\ entry[r].delivery # NoCandidate
    /\ received' = [received EXCEPT ![r] = entry[r].delivery]
    /\ entry' = [entry EXCEPT ![r].delivery = NoCandidate]
    /\ caller' = [caller EXCEPT ![r] = "got"]
    /\ UNCHANGED <<now, queue, leases, owners, issued, agent, ctx, forgetting>>

SeeDone(r) ==
    /\ caller[r] = "waiting"
    /\ terminal(entry[r].state)
    /\ caller' = [caller EXCEPT ![r] = "failed"]
    /\ UNCHANGED <<now, queue, entry, leases, owners, issued, agent, ctx,
                   received, forgetting>>

SeeContext(r) ==
    /\ caller[r] = "waiting"
    /\ ctx[r]
    /\ CancelRequest(r, "cancelled")
    /\ caller' = [caller EXCEPT ![r] = "failed"]
    /\ UNCHANGED <<now, queue, leases, owners, issued, ctx, received,
                   forgetting>>

\* The dispatch checks its context and hands the candidate to Complete of the
\* right plugin, which applies it or refuses it.
GiveUp(r) ==
    /\ caller[r] = "got"
    /\ ctx[r]
    /\ caller' = [caller EXCEPT ![r] = "failed"]
    /\ UNCHANGED <<now, queue, entry, leases, owners, issued, agent, ctx,
                   received, forgetting>>

HandOver(r) ==
    /\ caller[r] = "got"
    /\ ~ctx[r]
    /\ caller' = [caller EXCEPT ![r] = "completing"]
    /\ UNCHANGED <<now, queue, entry, leases, owners, issued, agent, ctx,
                   received, forgetting>>

Complete(r) ==
    /\ caller[r] = "completing"
    /\ caller' \in {[caller EXCEPT ![r] = s] : s \in {"filled", "failed"}}
    /\ UNCHANGED <<now, queue, entry, leases, owners, issued, agent, ctx,
                   received, forgetting>>

\* The deferred calls of dispatch run in reverse order: cancelNeed() ends the
\* context first, the observer calls ReportOutcome after it.
Return(r) ==
    /\ caller[r] \in {"filled", "failed"}
    /\ ~ctx[r]
    /\ ctx' = [ctx EXCEPT ![r] = TRUE]
    /\ UNCHANGED <<now, queue, entry, leases, owners, issued, agent, caller,
                   received, forgetting>>

\* Mutant: the observer runs only after a success.
ReportOutcome_SuccessOnly(r) ==
    /\ ctx[r]
    /\ caller[r] = "filled"
    /\ Finish({q \in {r} \cap queue : entry[q].state = "resolving"}, "resolved")
    /\ caller' = [caller EXCEPT ![r] = "confirmed"]
    /\ UNCHANGED <<now, queue, leases, owners, issued, ctx, received, forgetting>>

\* ReportOutcome: an error ends the request whatever its state, a success only
\* confirms a resolving one.
ReportOutcome(r) ==
    /\ ctx[r]
    /\ \/ /\ caller[r] = "failed"
          /\ Finish({r} \cap queue, "failed")
          /\ caller' = [caller EXCEPT ![r] = "closed"]
       \/ /\ caller[r] = "filled"
          /\ Finish({q \in {r} \cap queue : entry[q].state = "resolving"}, "resolved")
          /\ caller' = [caller EXCEPT ![r] = "confirmed"]
    /\ UNCHANGED <<now, queue, leases, owners, issued, ctx, received, forgetting>>

\* The context of the dispatch ends while it is at work: at the deadline, or
\* earlier because the client went away, the binding was sealed or the
\* environment destroyed.
ContextDone(r) ==
    /\ ~ctx[r]
    /\ caller[r] \in {"entering", "waiting", "got", "completing"}
    /\ ctx' = [ctx EXCEPT ![r] = TRUE]
    /\ UNCHANGED <<now, queue, entry, leases, owners, issued, agent, caller,
                   received, forgetting>>

\* context.AfterFunc(ctx, ...), until the entry is done.
ContextWatcher(r) ==
    /\ ctx[r]
    /\ r \in Unfinished
    /\ CancelRequest(r, "cancelled")
    /\ UNCHANGED <<now, queue, leases, owners, issued, caller, ctx, received,
                   forgetting>>

\* The timer of Enqueue; finish() stops it.
DeadlineTimer(r) ==
    /\ r \in Unfinished
    /\ now >= entry[r].deadline
    /\ CancelRequest(r, "expired")
    /\ UNCHANGED <<now, queue, leases, owners, issued, caller, ctx, received,
                   forgetting>>

-------------------------------------------------------------------------------
(* Next: one pass over the requests of the run, under the lock.             *)

\* The entries as they are when the pass begins are "es": Takeover revokes
\* leases first, in the same critical section.
Overdue(run, es) ==
    {r \in OfRun(run) : ~terminal(es[r].state) /\ now >= es[r].deadline}

Free(run, es) ==
    {r \in OfRun(run) \ Overdue(run, es) :
        \/ es[r].state = "pending"
        \/ es[r].state = "leased" /\ now >= es[r].leaseExpiry}

\* IDs are random, so the first "limit" of them in order are any "limit".
Batches(run, es, limit) ==
    {b \in SUBSET Free(run, es) :
        IF Cardinality(Free(run, es)) <= limit THEN b = Free(run, es)
                                               ELSE Cardinality(b) = limit}

\* Mutant: the lease may outlive the deadline of the request.
Earlier_Uncapped(t, u) == t

Earlier(t, u) == IF t <= u THEN t ELSE u

Lease(e, n, epoch) ==
    [e EXCEPT !.state = "leased", !.lease = n, !.epoch = epoch,
              !.leaseExpiry = Earlier(now + LeaseTTL, e.deadline)]

Release(e) == [e EXCEPT !.state = "pending", !.lease = 0]

\* The pass of agent a for owner o.  With an empty batch and time left it waits.
Pass(a, run, o, limit, wait, es) ==
    \E batch \in Batches(run, es, limit) :
       /\ \A r \in batch : leases[r] < MaxLeases
       /\ leases' = [r \in Requests |-> leases[r] + (IF r \in batch THEN 1 ELSE 0)]
       /\ entry' = [r \in Requests |->
             CASE r \in Overdue(run, es) -> [es[r] EXCEPT !.state = "expired"]
               [] r \in batch -> Lease(es[r], leases[r] + 1, o.epoch)
               [] r \in Free(run, es) \ batch -> Release(es[r])
               [] OTHER -> es[r]]
       /\ agent' = [(IF Overdue(run, es) = {} THEN agent ELSE Signal(agent))
             EXCEPT ![a] = IF wait /\ batch = {}
                           THEN [pc |-> "polling", run |-> run, owner |-> o,
                                 limit |-> limit]
                           ELSE Idle]

\* The first Next of a run creates its owner.
FirstNext(a, run, limit, wait) ==
    /\ agent[a] = Idle
    /\ owners[run] = NoOwner
    /\ issued[run] < MaxOwners
    /\ issued' = [issued EXCEPT ![run] = @ + 1]
    /\ LET o == [token |-> issued[run] + 1, epoch |-> 1]
       IN  /\ owners' = [owners EXCEPT ![run] = o]
           /\ Pass(a, run, o, limit, wait, entry)
    /\ UNCHANGED <<now, queue, caller, ctx, received, forgetting>>

\* A Next that shows the token of the owner.
RepeatNext(a, run, limit, wait) ==
    /\ agent[a] = Idle
    /\ owners[run] # NoOwner
    /\ Pass(a, run, owners[run], limit, wait, entry)
    /\ UNCHANGED <<now, queue, owners, issued, caller, ctx, received, forgetting>>

\* Mutant: the leases of the replaced owner stay valid.
Takeover_KeepsLeases(a, run, limit, wait) ==
    /\ agent[a] = Idle
    /\ owners[run] # NoOwner
    /\ \A r \in OfRun(run) : entry[r].state # "resolving"
    /\ issued[run] < MaxOwners
    /\ issued' = [issued EXCEPT ![run] = @ + 1]
    /\ LET o == [token |-> issued[run] + 1, epoch |-> owners[run].epoch + 1]
       IN  /\ owners' = [owners EXCEPT ![run] = o]
           /\ Pass(a, run, o, limit, wait, entry)
    /\ UNCHANGED <<now, queue, caller, ctx, received, forgetting>>

\* A Next that takes the run over from an owner it names by its epoch.
Takeover(a, run, limit, wait) ==
    /\ agent[a] = Idle
    /\ owners[run] # NoOwner
    /\ \A r \in OfRun(run) : entry[r].state # "resolving"
    /\ issued[run] < MaxOwners
    /\ issued' = [issued EXCEPT ![run] = @ + 1]
    /\ LET o == [token |-> issued[run] + 1, epoch |-> owners[run].epoch + 1]
           revoked == [r \in Requests |->
              IF r \in OfRun(run) /\ entry[r].state = "leased"
              THEN Release(entry[r]) ELSE entry[r]]
       IN  /\ owners' = [owners EXCEPT ![run] = o]
           /\ Pass(a, run, o, limit, wait, revoked)
    /\ UNCHANGED <<now, queue, caller, ctx, received, forgetting>>

\* One more turn of the loop of a waiting Next: OWNER_CONFLICT or a pass.
Turn(a, wait) ==
    LET call == agent[a]
    IN  \/ /\ owners[call.run] # call.owner
           /\ agent' = [agent EXCEPT ![a] = Idle]
           /\ UNCHANGED <<entry, leases>>
        \/ /\ owners[call.run] = call.owner
           /\ Pass(a, call.run, call.owner, call.limit, wait, entry)

WakeUp(a) ==
    /\ agent[a].pc = "woken"
    /\ \E wait \in BOOLEAN : Turn(a, wait)
    /\ UNCHANGED <<now, queue, owners, issued, caller, ctx, received, forgetting>>

\* wait_ms elapsed: a last turn.
PollTimeout(a) ==
    /\ agent[a].pc = "polling"
    /\ Turn(a, FALSE)
    /\ UNCHANGED <<now, queue, owners, issued, caller, ctx, received, forgetting>>

-------------------------------------------------------------------------------
(* Resolve.                                                                 *)

\* The first critical section.  The agent names the owner by its token, which
\* therefore is the current one; it may show any lease token ever issued.
\* A candidate that repeats the accepted one goes straight to the wait.
Resolve(a, r, lease, c) ==
    LET o == owners[RunOf[r]]
        e == entry[r]
    IN  /\ agent[a] = Idle
        /\ r \in queue
        /\ o # NoOwner
        /\ Digest[c] # NoDigest
        /\ e.epoch = o.epoch
        /\ e.lease = lease
        /\ \E pc \in {"checking", "waiting"} :
              /\ \/ /\ pc = "waiting"
                    /\ e.hash = Digest[c]
                 \/ /\ pc = "checking"
                    /\ e.hash = NoDigest
                    /\ e.state = "leased"
                    /\ now < e.leaseExpiry
                    /\ now < e.deadline
              /\ agent' = [agent EXCEPT ![a] =
                    [pc |-> pc, req |-> r, owner |-> o, lease |-> lease,
                     cand |-> c]]
        /\ UNCHANGED <<now, queue, entry, leases, owners, issued, caller, ctx,
                       received, forgetting>>

\* INVALID_RESULT: the lease stays.
SchemaFails(a) ==
    /\ agent[a].pc = "checking"
    /\ ~Fits[agent[a].cand]
    /\ agent' = [agent EXCEPT ![a] = Idle]
    /\ UNCHANGED <<now, queue, entry, leases, owners, issued, caller, ctx,
                   received, forgetting>>

\* Mutant: only the state of the entry is looked at again.
LeaseHolds_StateOnly(call) ==
    LET e == entry[call.req]
    IN  e.state = "leased" /\ now < e.leaseExpiry /\ now < e.deadline

\* Mutant: the state of the entry is not looked at again.
LeaseHolds_NoState(call) ==
    LET e == entry[call.req]
    IN  /\ owners[RunOf[call.req]] = call.owner
        /\ e.lease = call.lease
        /\ now < e.leaseExpiry
        /\ now < e.deadline

\* What the second critical section looks at again.
LeaseHolds(call) ==
    LET e == entry[call.req]
    IN  /\ e.state = "leased"
        /\ owners[RunOf[call.req]] = call.owner
        /\ e.lease = call.lease
        /\ now < e.leaseExpiry
        /\ now < e.deadline

\* Mutant: the answer is acknowledged when it is received, not when it took effect.
Accept_AtOnce(a) ==
    LET call == agent[a]
    IN  /\ call.pc = "checking"
        /\ Fits[call.cand]
        /\ LeaseHolds(call)
        /\ entry' = [entry EXCEPT ![call.req].hash = Digest[call.cand],
                                  ![call.req].candidate = call.cand,
                                  ![call.req].state = "resolved",
                                  ![call.req].delivery = call.cand]
        /\ agent' = [Signal(agent) EXCEPT ![a].pc = "waiting"]
        /\ UNCHANGED <<now, queue, leases, owners, issued, caller, ctx,
                       received, forgetting>>

Accept(a) ==
    LET call == agent[a]
    IN  /\ call.pc = "checking"
        /\ Fits[call.cand]
        /\ LeaseHolds(call)
        /\ entry' = [entry EXCEPT ![call.req].hash = Digest[call.cand],
                                  ![call.req].candidate = call.cand,
                                  ![call.req].state = "resolving",
                                  ![call.req].delivery = call.cand]
        /\ agent' = [Signal(agent) EXCEPT ![a].pc = "waiting"]
        /\ UNCHANGED <<now, queue, leases, owners, issued, caller, ctx,
                       received, forgetting>>

\* STATE_CONFLICT: lease changed during validation.
Conflict(a) ==
    /\ agent[a].pc = "checking"
    /\ Fits[agent[a].cand]
    /\ ~LeaseHolds(agent[a])
    /\ agent' = [agent EXCEPT ![a] = Idle]
    /\ UNCHANGED <<now, queue, entry, leases, owners, issued, caller, ctx,
                   received, forgetting>>

\* wait(): the agent gets the state of the finished entry.
Acknowledge(a) ==
    /\ agent[a].pc = "waiting"
    /\ terminal(entry[agent[a].req].state)
    /\ agent' = [agent EXCEPT ![a] = Idle]
    /\ UNCHANGED <<now, queue, entry, leases, owners, issued, caller, ctx,
                   received, forgetting>>

\* The agent's own context ends while it waits in Next or in Resolve.
AgentGone(a) ==
    /\ agent[a].pc \in {"polling", "waiting"}
    /\ agent' = [agent EXCEPT ![a] = Idle]
    /\ UNCHANGED <<now, queue, entry, leases, owners, issued, caller, ctx,
                   received, forgetting>>

-------------------------------------------------------------------------------
(* The run.                                                                 *)

CancelRun(run) ==
    /\ Unfinished \cap OfRun(run) # {}
    /\ Finish(OfRun(run), "cancelled")
    /\ UNCHANGED <<now, queue, leases, owners, issued, caller, ctx, received,
                   forgetting>>

\* Forget is CancelRun, an unlocked gap, and the removal of what is there then.
ForgetCancels(run) ==
    /\ run \notin forgetting
    /\ Finish(OfRun(run), "cancelled")
    /\ forgetting' = forgetting \cup {run}
    /\ UNCHANGED <<now, queue, leases, owners, issued, caller, ctx, received>>

ForgetDeletes(run) ==
    /\ run \in forgetting
    /\ queue' = queue \ OfRun(run)
    /\ owners' = [owners EXCEPT ![run] = NoOwner]
    /\ forgetting' = forgetting \ {run}
    /\ UNCHANGED <<now, entry, leases, issued, agent, caller, ctx, received>>

Tick ==
    /\ now < MaxTime
    /\ now' = now + 1
    /\ UNCHANGED <<queue, entry, leases, owners, issued, agent, caller, ctx,
                   received, forgetting>>

-------------------------------------------------------------------------------
Dispatch(r) ==
    \/ Begin(r) \/ Refuse(r) \/ Insert(r)
    \/ TakeCandidate(r) \/ SeeDone(r) \/ SeeContext(r)
    \/ GiveUp(r) \/ HandOver(r) \/ Complete(r)
    \/ Return(r) \/ ReportOutcome(r)
    \/ ContextDone(r) \/ ContextWatcher(r) \/ DeadlineTimer(r)

AgentStep(a) ==
    \/ \E run \in Runs, limit \in 1..MaxBatch, wait \in BOOLEAN :
          \/ FirstNext(a, run, limit, wait)
          \/ RepeatNext(a, run, limit, wait)
          \/ Takeover(a, run, limit, wait)
    \/ WakeUp(a) \/ PollTimeout(a)
    \/ \E r \in Requests, lease \in 0..MaxLeases, c \in Candidates :
          Resolve(a, r, lease, c)
    \/ SchemaFails(a) \/ Accept(a) \/ Conflict(a)
    \/ Acknowledge(a) \/ AgentGone(a)

RunStep(run) == CancelRun(run) \/ ForgetCancels(run) \/ ForgetDeletes(run)

Next ==
    \/ \E r \in Requests : Dispatch(r)
    \/ \E a \in Agents : AgentStep(a)
    \/ \E run \in Runs : RunStep(run)
    \/ Tick

Spec == Init /\ [][Next]_vars

(* Fairness: goroutines that can run do, timers and contexts fire, the       *)
(* right plugin answers.  Nothing is assumed of the agents, except that a    *)
(* call they made runs to its end, nor of the application or of the run.  A  *)
(* dispatch and a call are one goroutine each: one step of it is enabled at  *)
(* a time, so that weak fairness of their disjunction is that of each.       *)
Goroutine(r) ==
    \/ Refuse(r) \/ Insert(r)
    \/ TakeCandidate(r) \/ SeeDone(r) \/ SeeContext(r)
    \/ GiveUp(r) \/ HandOver(r) \/ Complete(r) \/ Return(r) \/ ReportOutcome(r)

Call(a) ==
    \/ WakeUp(a) \/ PollTimeout(a)
    \/ SchemaFails(a) \/ Accept(a) \/ Conflict(a) \/ Acknowledge(a)

Fairness ==
    /\ WF_vars(Tick)
    /\ \A r \in Requests :
          /\ WF_vars(Goroutine(r))
          /\ WF_vars(DeadlineTimer(r))
          /\ WF_vars(now >= entry[r].deadline /\ ContextDone(r))
    /\ \A a \in Agents : WF_vars(Call(a))

\* Behaviours in which the application waits, the run goes on and no deadline
\* passes: a context ends only because its dispatch returned.
QuietNext ==
    \/ \E r \in Requests :
          \/ Begin(r) \/ Insert(r) \/ TakeCandidate(r) \/ SeeDone(r)
          \/ SeeContext(r) \/ GiveUp(r) \/ HandOver(r) \/ Complete(r)
          \/ Return(r) \/ ReportOutcome(r) \/ ContextWatcher(r)
    \/ \E a \in Agents : AgentStep(a)

QuietSpec == Init /\ [][QuietNext]_vars

FairSpec == Spec /\ Fairness

-------------------------------------------------------------------------------
(* Properties.                                                              *)

\* Every variable has its type.
TypeOK ==
    /\ now \in 0..MaxTime
    /\ queue \in SUBSET Requests
    /\ entry \in [Requests -> Entry]
    /\ leases \in [Requests -> 0..MaxLeases]
    /\ owners \in [Runs -> Owner]
    /\ issued \in [Runs -> 0..MaxOwners]
    /\ agent \in [Agents -> Calls]
    /\ caller \in [Requests -> CallerStates]
    /\ ctx \in [Requests -> BOOLEAN]
    /\ received \in [Requests -> Candidates \cup {NoCandidate}]
    /\ forgetting \in SUBSET Runs

\* A run has one generating agent: a lease that can still be used, and an answer
\* on its way to the right plugin, were obtained by the present owner.  Takeover
\* revokes the leases of the owner it replaces and is refused while an answer is
\* in flight, across Forget and a new owner too.
LeaseOfPresentOwner ==
    \A r \in queue : entry[r].state \in {"leased", "resolving"} =>
        /\ owners[RunOf[r]] # NoOwner
        /\ entry[r].epoch = owners[RunOf[r]].epoch

\* An agent that waits for an outcome waits for that of its own answer under its
\* own lease, though others may have answered between its two critical sections.
WaiterOwnsAnswer ==
    \A a \in Agents : agent[a].pc = "waiting" =>
        LET e == entry[agent[a].req]
        IN  /\ e.hash = Digest[agent[a].cand]
            /\ e.lease = agent[a].lease
            /\ e.epoch = agent[a].owner.epoch

\* The slot e.delivery is empty whenever a candidate may be accepted, so the send
\* under the lock cannot block the queue; and what the application is given is
\* the accepted candidate, which satisfies the schema.
DeliveryMatchesAcceptance ==
    \A r \in Requests :
        /\ entry[r].state \in {"none", "pending", "leased"} =>
              /\ entry[r].hash = NoDigest
              /\ entry[r].delivery = NoCandidate
              /\ received[r] = NoCandidate
        /\ \A c \in {entry[r].delivery, received[r]} \ {NoCandidate} :
              /\ c = entry[r].candidate
              /\ Digest[c] = entry[r].hash
              /\ Fits[c]

\* Resolve acknowledges only what took effect: an entry is resolved only after
\* the right plugin applied the candidate and the dispatch reported it.
ResolvedMeansFilled ==
    \A r \in Requests : entry[r].state = "resolved" =>
        /\ caller[r] = "confirmed"
        /\ received[r] # NoCandidate

\* No lost wake-up: while a request nobody has leased yet is pending, no Next of
\* the present owner sleeps.
NewRequestWakesOwner ==
    \A a \in Agents, r \in queue :
        /\ agent[a].pc = "polling"
        /\ agent[a].owner = owners[agent[a].run]
        /\ RunOf[r] = agent[a].run
        => ~(entry[r].state = "pending" /\ entry[r].epoch = 0)

\* The acknowledgement tells what happened: an answer the right plugin applied,
\* and whose outcome was reported, is acknowledged as resolved.  Only claimed of
\* QuietSpec, where nobody cancels and no deadline passes.
FilledIsResolved ==
    \A r \in Requests : caller[r] = "confirmed" => entry[r].state = "resolved"

\* The lifecycle the queue implements.
Stage(r) ==
    CASE entry[r].state = "none" -> "absent"
      [] entry[r].state \in {"pending", "leased"} -> "open"
      [] entry[r].state = "resolving" -> "accepted"
      [] entry[r].state = "resolved" -> "confirmed"
      [] OTHER -> "withdrawn"

Lifecycle == INSTANCE RequestLifecycle WITH
    Answers <- Candidates,
    NoAnswer <- NoCandidate,
    stage <- [r \in Requests |-> Stage(r)],
    answer <- [r \in Requests |-> entry[r].candidate],
    consumed <- received

\* Leases, owners, timers and Forget implement the lifecycle: one accepted answer
\* at most, never replaced; a finished request stays finished; a confirmation
\* only of the answer the application consumed.
ImplementsLifecycle == Lifecycle!Spec

\* An entry that Forget removed between its two critical sections while it was
\* unfinished: no timer, report or cancellation can find it any more.
Orphan(r) == r \notin queue /\ entry[r].state \notin {"none"} /\ ~terminal(entry[r].state)

\* Everything that was begun ends, unless Forget dropped it: a request in the queue
\* becomes terminal, the application is answered, by its deadline at the latest, and
\* so is every agent in Resolve.  No interleaving leaves Enqueue, the dispatch behind
\* it or a Resolve waiting.
EveryoneIsAnswered ==
    /\ \A r \in Requests :
          /\ []<>(r \in queue => terminal(entry[r].state))
          /\ []<>(caller[r] \in {"idle", "confirmed", "closed"})
    /\ \A a \in Agents :
          []<>(agent[a].pc \in {"checking", "waiting"} => Orphan(agent[a].req))
===============================================================================
