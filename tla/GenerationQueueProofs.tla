------------------------- MODULE GenerationQueueProofs -------------------------
(***************************************************************************)
(* Theorems about GenerationQueue, for every number of runs, requests,     *)
(* agents and candidates and for every value of the bounds.                *)
(***************************************************************************)
EXTENDS GenerationQueue, FiniteSetTheorems, TLAPS

-------------------------------------------------------------------------------
(* Types.  TypeOK alone is not inductive: a takeover adds one to the epoch   *)
(* of the owner it replaces, which stays in range because an epoch never     *)
(* exceeds the number of tokens the run was issued.                          *)

OwnersIssued == \A n \in Runs : owners[n].epoch <= issued[n]

TypeInv == TypeOK /\ OwnersIssued

\* NoOwner and NoEntry are what q.owners and q.entries hold for an absent key.
LEMMA AbsentTypes ==
    /\ NoOwner \in Owner
    /\ NoEntry \in Entry
    /\ Idle \in Calls
  BY BoundsAssumption DEF NoOwner, Owner, NoEntry, Entry, States, Idle, Calls

\* signal() turns a waiting Next into a woken one and touches no other call.
LEMMA SignalType ==
    ASSUME agent \in [Agents -> Calls]
    PROVE  Signal(agent) \in [Agents -> Calls]
<1>1. ASSUME NEW a \in Agents
      PROVE  (IF agent[a].pc = "polling" THEN [agent[a] EXCEPT !.pc = "woken"]
                                         ELSE agent[a]) \in Calls
  <2>1. CASE agent[a].pc = "polling"
    <3>1. agent[a] \in NextCall
      BY <2>1 DEF Calls, Idle, ResolveCall
    <3>2. [agent[a] EXCEPT !.pc = "woken"] \in NextCall
      BY <3>1 DEF NextCall
    <3>3. QED
      BY <2>1, <3>2 DEF Calls
  <2>2. CASE agent[a].pc # "polling"
    BY <2>2
  <2>3. QED
    BY <2>1, <2>2
<1>2. QED
  BY <1>1 DEF Signal

\* finish() changes states only.
LEMMA FinishType ==
    ASSUME TypeOK, NEW S, NEW state \in States, Finish(S, state)
    PROVE  /\ entry' \in [Requests -> Entry]
           /\ agent' \in [Agents -> Calls]
<1>1. entry' \in [Requests -> Entry]
  <2>1. ASSUME NEW r \in Requests
        PROVE  entry[r] \in Entry /\ [entry[r] EXCEPT !.state = state] \in Entry
    BY DEF TypeOK, Entry
  <2>2. QED
    BY <2>1 DEF Finish
<1>2. agent' \in [Agents -> Calls]
  BY SignalType DEF TypeOK, Finish
<1>3. QED
  BY <1>1, <1>2

\* A released lease and an overdue request.
LEMMA ReleaseType ==
    ASSUME NEW e \in Entry
    PROVE  Release(e) \in Entry /\ [e EXCEPT !.state = "expired"] \in Entry
<1>1. 0 \in 0..MaxLeases
  BY BoundsAssumption
<1>2. Release(e) \in Entry
  BY <1>1 DEF Release, Entry, States
<1>3. [e EXCEPT !.state = "expired"] \in Entry
  BY DEF Entry, States
<1>4. QED
  BY <1>2, <1>3

\* A pass issues at most one lease token per request and its leases end by the
\* deadline.
LEMMA PassType ==
    ASSUME TypeOK, NEW a \in Agents, NEW run \in Runs, NEW o \in Owner,
           NEW limit \in 1..MaxBatch, NEW wait \in BOOLEAN,
           NEW es \in [Requests -> Entry], Pass(a, run, o, limit, wait, es)
    PROVE  /\ entry' \in [Requests -> Entry]
           /\ leases' \in [Requests -> 0..MaxLeases]
           /\ agent' \in [Agents -> Calls]
<1>1. PICK batch \in Batches(run, es, limit) :
         /\ \A r \in batch : leases[r] < MaxLeases
         /\ leases' = [r \in Requests |-> leases[r] + (IF r \in batch THEN 1 ELSE 0)]
         /\ entry' = [r \in Requests |->
               CASE r \in Overdue(run, es) -> [es[r] EXCEPT !.state = "expired"]
                 [] r \in batch -> Lease(es[r], leases[r] + 1, o.epoch)
                 [] r \in Free(run, es) \ batch -> Release(es[r])
                 [] OTHER -> es[r]]
         /\ agent' = [(IF Overdue(run, es) = {} THEN agent ELSE Signal(agent))
               EXCEPT ![a] = IF wait /\ batch = {}
                             THEN [pc |-> "polling", run |-> run, owner |-> o,
                                   limit |-> limit]
                             ELSE Idle]
  BY DEF Pass
<1>2. leases' \in [Requests -> 0..MaxLeases]
  <2>1. ASSUME NEW r \in Requests
        PROVE  leases[r] + (IF r \in batch THEN 1 ELSE 0) \in 0..MaxLeases
    <3>1. leases[r] \in 0..MaxLeases
      BY DEF TypeOK
    <3>2. QED
      BY <1>1, <3>1, BoundsAssumption
  <2>2. QED
    BY <1>1, <2>1
<1>3. entry' \in [Requests -> Entry]
  <2>1. ASSUME NEW e \in Entry, NEW n \in 0..MaxLeases
        PROVE  Lease(e, n, o.epoch) \in Entry
    <3>1. o.epoch \in 0..MaxOwners
      BY DEF Owner
    <3>2. Earlier(now + LeaseTTL, e.deadline) \in 0..MaxTime
      <4>1. now \in Nat /\ LeaseTTL \in Nat /\ MaxTime \in Nat
        BY BoundsAssumption DEF TypeOK
      <4>2. e.deadline \in 0..MaxTime
        BY <2>1 DEF Entry
      <4>3. QED
        BY <4>1, <4>2 DEF Earlier
    <3>3. QED
      BY <2>1, <3>1, <3>2 DEF Lease, Entry, States
  <2>2. ASSUME NEW e \in Entry
        PROVE  Release(e) \in Entry /\ [e EXCEPT !.state = "expired"] \in Entry
    BY ReleaseType
  <2>3. ASSUME NEW r \in batch
        PROVE  r \in Requests /\ leases[r] + 1 \in 0..MaxLeases
    <3>1. r \in Requests
      BY DEF TypeOK, Batches, Free, OfRun
    <3>2. leases[r] \in 0..MaxLeases
      BY <3>1 DEF TypeOK
    <3>3. QED
      BY <1>1, <3>1, <3>2, BoundsAssumption
  <2>4. ASSUME NEW r \in Requests
        PROVE  entry'[r] \in Entry
    BY <1>1, <2>1, <2>2, <2>3
  <2>5. QED
    BY <1>1, <2>4
<1>4. agent' \in [Agents -> Calls]
  <2>1. [pc |-> "polling", run |-> run, owner |-> o, limit |-> limit] \in Calls
    BY DEF Calls, NextCall
  <2>2. agent \in [Agents -> Calls] /\ Signal(agent) \in [Agents -> Calls]
    BY SignalType DEF TypeOK
  <2>3. QED
    BY <1>1, <2>1, <2>2, AbsentTypes
<1>5. QED
  BY <1>2, <1>3, <1>4
\* A new owner token keeps every owner in range.
LEMMA NewOwnerType ==
    ASSUME TypeInv, NEW run \in Runs, NEW epoch \in Nat, issued[run] < MaxOwners,
           epoch <= issued[run] + 1,
           issued' = [issued EXCEPT ![run] = @ + 1],
           owners' = [owners EXCEPT ![run] =
                        [token |-> issued[run] + 1, epoch |-> epoch]]
    PROVE  /\ [token |-> issued[run] + 1, epoch |-> epoch] \in Owner
           /\ owners' \in [Runs -> Owner]
           /\ issued' \in [Runs -> 0..MaxOwners]
           /\ OwnersIssued'
<1>1. issued[run] + 1 \in 0..MaxOwners /\ epoch \in 0..MaxOwners
  <2>1. issued[run] \in 0..MaxOwners
    BY DEF TypeInv, TypeOK
  <2>2. QED
    BY <2>1, BoundsAssumption
<1>2. [token |-> issued[run] + 1, epoch |-> epoch] \in Owner
  BY <1>1 DEF Owner
<1>3. owners' \in [Runs -> Owner] /\ issued' \in [Runs -> 0..MaxOwners]
  BY <1>1, <1>2 DEF TypeInv, TypeOK
<1>4. ASSUME NEW n \in Runs
      PROVE  owners'[n].epoch <= issued'[n]
  <2>1. CASE n = run
    BY <2>1 DEF TypeInv, TypeOK
  <2>2. CASE n # run
    BY <2>2 DEF TypeInv, TypeOK, OwnersIssued
  <2>3. QED
    BY <2>1, <2>2
<1>5. QED
  BY <1>2, <1>3, <1>4 DEF OwnersIssued

LEMMA TypeInit == Init => TypeInv
<1>1. ASSUME Init
      PROVE  TypeOK /\ OwnersIssued
  <2>1. TypeOK
    BY <1>1, AbsentTypes, BoundsAssumption DEF Init, TypeOK, CallerStates
  <2>2. OwnersIssued
    BY <1>1 DEF Init, OwnersIssued, NoOwner
  <2>3. QED
    BY <2>1, <2>2
<1>2. QED
  BY <1>1 DEF TypeInv

\* Every step keeps the types, one step of the proof per action.
LEMMA TypeStep == TypeInv /\ [Next]_vars => TypeInv'
<1> SUFFICES ASSUME TypeInv, [Next]_vars
             PROVE  TypeInv'
  OBVIOUS
<1> USE DEF TypeInv
<1>1. ASSUME NEW r \in Requests, Dispatch(r)
      PROVE  TypeInv'
  <2>1. CASE Begin(r)
    <3>1. PICK d \in (now + 1)..(now + RequestTimeout) :
             d <= MaxTime /\ entry' = [entry EXCEPT ![r].deadline = d]
      BY <2>1 DEF Begin
    <3>2. d \in 0..MaxTime
      BY <3>1, BoundsAssumption DEF TypeOK
    <3>3. entry' \in [Requests -> Entry]
      <4>1. entry[r] \in Entry
        BY DEF TypeOK
      <4>2. [entry[r] EXCEPT !.deadline = d] \in Entry
        BY <3>2, <4>1 DEF Entry
      <4>3. QED
        BY <3>1, <4>2 DEF TypeOK
    <3>4. QED
      BY <2>1, <3>3 DEF Begin, TypeOK, OwnersIssued, CallerStates
  <2>2. CASE Refuse(r)
    BY <2>2 DEF Refuse, TypeOK, OwnersIssued, CallerStates
  <2>3. CASE Insert(r)
    <3>1. entry' \in [Requests -> Entry]
      <4>1. entry[r] \in Entry
        BY DEF TypeOK
      <4>2. [entry[r] EXCEPT !.state = "pending"] \in Entry
        BY <4>1 DEF Entry, States
      <4>3. QED
        BY <2>3, <4>2 DEF Insert, TypeOK
    <3>2. agent' \in [Agents -> Calls]
      BY <2>3, SignalType DEF Insert, TypeOK
    <3>3. QED
      BY <2>3, <3>1, <3>2 DEF Insert, TypeOK, OwnersIssued, CallerStates
  <2>4. CASE TakeCandidate(r)
    <3>1. entry[r] \in Entry
      BY DEF TypeOK
    <3>2. [entry[r] EXCEPT !.delivery = NoCandidate] \in Entry
      BY <3>1 DEF Entry
    <3>3. entry[r].delivery \in Candidates \cup {NoCandidate}
      BY <3>1 DEF Entry
    <3>4. QED
      BY <2>4, <3>2, <3>3 DEF TakeCandidate, TypeOK, OwnersIssued, CallerStates
  <2>5. CASE SeeDone(r)
    BY <2>5 DEF SeeDone, TypeOK, OwnersIssued, CallerStates
  <2>6. CASE SeeContext(r)
    <3>1. entry' \in [Requests -> Entry] /\ agent' \in [Agents -> Calls]
      BY <2>6, FinishType DEF SeeContext, CancelRequest, States
    <3>2. QED
      BY <2>6, <3>1 DEF SeeContext, TypeOK, OwnersIssued, CallerStates
  <2>7. CASE GiveUp(r)
    BY <2>7 DEF GiveUp, TypeOK, OwnersIssued, CallerStates
  <2>8. CASE HandOver(r)
    BY <2>8 DEF HandOver, TypeOK, OwnersIssued, CallerStates
  <2>9. CASE Complete(r)
    BY <2>9 DEF Complete, TypeOK, OwnersIssued, CallerStates
  <2>10. CASE Return(r)
    BY <2>10 DEF Return, TypeOK, OwnersIssued
  <2>11. CASE ReportOutcome(r)
    <3>1. entry' \in [Requests -> Entry] /\ agent' \in [Agents -> Calls]
      BY <2>11, FinishType DEF ReportOutcome, States
    <3>2. QED
      BY <2>11, <3>1 DEF ReportOutcome, TypeOK, OwnersIssued, CallerStates
  <2>12. CASE ContextDone(r)
    BY <2>12 DEF ContextDone, TypeOK, OwnersIssued
  <2>13. CASE ContextWatcher(r)
    <3>1. entry' \in [Requests -> Entry] /\ agent' \in [Agents -> Calls]
      BY <2>13, FinishType DEF ContextWatcher, CancelRequest, States
    <3>2. QED
      BY <2>13, <3>1 DEF ContextWatcher, TypeOK, OwnersIssued
  <2>14. CASE DeadlineTimer(r)
    <3>1. entry' \in [Requests -> Entry] /\ agent' \in [Agents -> Calls]
      BY <2>14, FinishType DEF DeadlineTimer, CancelRequest, States
    <3>2. QED
      BY <2>14, <3>1 DEF DeadlineTimer, TypeOK, OwnersIssued
  <2>15. QED
    BY <1>1, <2>1, <2>2, <2>3, <2>4, <2>5, <2>6, <2>7, <2>8, <2>9, <2>10,
       <2>11, <2>12, <2>13, <2>14 DEF Dispatch
<1>2. ASSUME NEW a \in Agents, AgentStep(a)
      PROVE  TypeInv'
  <2>1. ASSUME NEW run \in Runs, NEW limit \in 1..MaxBatch, NEW wait \in BOOLEAN,
               FirstNext(a, run, limit, wait)
        PROVE  TypeInv'
    <3> DEFINE o == [token |-> issued[run] + 1, epoch |-> 1]
    <3>1. 1 \in Nat /\ 1 <= issued[run] + 1 /\ issued[run] < MaxOwners
          /\ issued' = [issued EXCEPT ![run] = @ + 1]
          /\ owners' = [owners EXCEPT ![run] = o]
      BY <2>1 DEF FirstNext, TypeOK
    <3>2. o \in Owner /\ owners' \in [Runs -> Owner]
          /\ issued' \in [Runs -> 0..MaxOwners] /\ OwnersIssued'
      BY <3>1, NewOwnerType
    <3>3. Pass(a, run, o, limit, wait, entry)
      BY <2>1 DEF FirstNext
    <3>4. entry' \in [Requests -> Entry] /\ leases' \in [Requests -> 0..MaxLeases]
          /\ agent' \in [Agents -> Calls]
      BY <3>2, <3>3, PassType DEF TypeOK
    <3>5. QED
      BY <2>1, <3>2, <3>4 DEF FirstNext, TypeOK
  <2>2. ASSUME NEW run \in Runs, NEW limit \in 1..MaxBatch, NEW wait \in BOOLEAN,
               RepeatNext(a, run, limit, wait)
        PROVE  TypeInv'
    <3>1. owners[run] \in Owner /\ entry \in [Requests -> Entry]
          /\ Pass(a, run, owners[run], limit, wait, entry)
      BY <2>2 DEF RepeatNext, TypeOK
    <3>2. entry' \in [Requests -> Entry] /\ leases' \in [Requests -> 0..MaxLeases]
          /\ agent' \in [Agents -> Calls]
      BY <3>1, PassType
    <3>3. QED
      BY <2>2, <3>2 DEF RepeatNext, TypeOK, OwnersIssued
  <2>3. ASSUME NEW run \in Runs, NEW limit \in 1..MaxBatch, NEW wait \in BOOLEAN,
               Takeover(a, run, limit, wait)
        PROVE  TypeInv'
    <3> DEFINE o == [token |-> issued[run] + 1, epoch |-> owners[run].epoch + 1]
               revoked == [r \in Requests |->
                  IF r \in OfRun(run) /\ entry[r].state = "leased"
                  THEN Release(entry[r]) ELSE entry[r]]
    <3>1. owners[run].epoch + 1 \in Nat
          /\ owners[run].epoch + 1 <= issued[run] + 1
      BY DEF TypeOK, OwnersIssued, Owner
    <3>2. o \in Owner /\ owners' \in [Runs -> Owner]
          /\ issued' \in [Runs -> 0..MaxOwners] /\ OwnersIssued'
      BY <2>3, <3>1, NewOwnerType DEF Takeover
    <3>3. Pass(a, run, o, limit, wait, revoked)
      BY <2>3 DEF Takeover
    <3>4. revoked \in [Requests -> Entry]
      BY ReleaseType DEF TypeOK
    <3>5. entry' \in [Requests -> Entry] /\ leases' \in [Requests -> 0..MaxLeases]
          /\ agent' \in [Agents -> Calls]
      BY <3>2, <3>3, <3>4, PassType
    <3>6. QED
      BY <2>3, <3>2, <3>5 DEF Takeover, TypeOK
  <2>4. ASSUME NEW wait \in BOOLEAN, agent[a].pc \in {"polling", "woken"}, Turn(a, wait)
        PROVE  /\ entry' \in [Requests -> Entry]
               /\ leases' \in [Requests -> 0..MaxLeases]
               /\ agent' \in [Agents -> Calls]
    <3>1. agent[a] \in NextCall
      BY <2>4 DEF TypeOK, Calls, Idle, ResolveCall
    <3>2. CASE owners[agent[a].run] # agent[a].owner
      BY <2>4, <3>2, AbsentTypes DEF Turn, TypeOK
    <3>3. CASE owners[agent[a].run] = agent[a].owner
      <4>1. agent[a].run \in Runs /\ agent[a].owner \in Owner
            /\ agent[a].limit \in 1..MaxBatch
        BY <3>1 DEF NextCall
      <4>2. Pass(a, agent[a].run, agent[a].owner, agent[a].limit, wait, entry)
        BY <2>4, <3>3 DEF Turn
      <4>3. QED
        BY <4>1, <4>2, PassType DEF TypeOK
    <3>4. QED
      BY <3>2, <3>3
  <2>5. CASE WakeUp(a)
    BY <2>4, <2>5 DEF WakeUp, TypeOK, OwnersIssued
  <2>6. CASE PollTimeout(a)
    BY <2>4, <2>6 DEF PollTimeout, TypeOK, OwnersIssued
  <2>7. ASSUME NEW r \in Requests, NEW lease \in 0..MaxLeases, NEW c \in Candidates,
               Resolve(a, r, lease, c)
        PROVE  TypeInv'
    <3>1. PICK pc \in {"checking", "waiting"} :
             agent' = [agent EXCEPT ![a] =
                [pc |-> pc, req |-> r, owner |-> owners[RunOf[r]], lease |-> lease,
                 cand |-> c]]
      BY <2>7 DEF Resolve
    <3>2. [pc |-> pc, req |-> r, owner |-> owners[RunOf[r]], lease |-> lease,
           cand |-> c] \in Calls
      BY DataAssumption DEF TypeOK, Calls, ResolveCall
    <3>3. QED
      BY <2>7, <3>1, <3>2 DEF Resolve, TypeOK, OwnersIssued
  <2>8. CASE SchemaFails(a)
    BY <2>8, AbsentTypes DEF SchemaFails, TypeOK, OwnersIssued
  <2>9. CASE Accept(a)
    <3> DEFINE call == agent[a]
    <3>1. call \in ResolveCall
      BY <2>9 DEF Accept, TypeOK, Calls, Idle, NextCall
    <3>2. call.req \in Requests /\ call.cand \in Candidates
          /\ Digest[call.cand] \in Digests \cup {NoDigest}
      BY <3>1, DataAssumption DEF ResolveCall
    <3>3. entry' \in [Requests -> Entry]
      <4>1. entry[call.req] \in Entry
        BY <3>2 DEF TypeOK
      <4>2. [entry[call.req] EXCEPT !.hash = Digest[call.cand],
               !.candidate = call.cand, !.state = "resolving",
               !.delivery = call.cand] \in Entry
        BY <3>2, <4>1 DEF Entry, States
      <4>3. QED
        BY <2>9, <3>2, <4>2 DEF Accept, TypeOK
    <3>4. agent' \in [Agents -> Calls]
      <4>1. Signal(agent) \in [Agents -> Calls] /\ Signal(agent)[a] = call
        BY <2>9, SignalType DEF Accept, Signal, TypeOK
      <4>2. [call EXCEPT !.pc = "waiting"] \in Calls
        BY <3>1 DEF Calls, ResolveCall
      <4>3. QED
        BY <2>9, <4>1, <4>2 DEF Accept
    <3>5. QED
      BY <2>9, <3>3, <3>4 DEF Accept, TypeOK, OwnersIssued
  <2>10. CASE Conflict(a)
    BY <2>10, AbsentTypes DEF Conflict, TypeOK, OwnersIssued
  <2>11. CASE Acknowledge(a)
    BY <2>11, AbsentTypes DEF Acknowledge, TypeOK, OwnersIssued
  <2>12. CASE AgentGone(a)
    BY <2>12, AbsentTypes DEF AgentGone, TypeOK, OwnersIssued
  <2>13. QED
    BY <1>2, <2>1, <2>2, <2>3, <2>5, <2>6, <2>7, <2>8, <2>9, <2>10, <2>11,
       <2>12 DEF AgentStep
<1>3. ASSUME NEW run \in Runs, RunStep(run)
      PROVE  TypeInv'
  <2>1. CASE CancelRun(run)
    <3>1. entry' \in [Requests -> Entry] /\ agent' \in [Agents -> Calls]
      BY <2>1, FinishType DEF CancelRun, States
    <3>2. QED
      BY <2>1, <3>1 DEF CancelRun, TypeOK, OwnersIssued
  <2>2. CASE ForgetCancels(run)
    <3>1. entry' \in [Requests -> Entry] /\ agent' \in [Agents -> Calls]
      BY <2>2, FinishType DEF ForgetCancels, States
    <3>2. QED
      BY <2>2, <3>1 DEF ForgetCancels, TypeOK, OwnersIssued
  <2>3. CASE ForgetDeletes(run)
    BY <2>3, AbsentTypes DEF ForgetDeletes, TypeOK, OwnersIssued, NoOwner
  <2>4. QED
    BY <1>3, <2>1, <2>2, <2>3 DEF RunStep
<1>4. CASE Tick
  <2>1. now' \in 0..MaxTime
    BY <1>4, BoundsAssumption DEF Tick, TypeOK
  <2>2. QED
    BY <1>4, <2>1 DEF Tick, TypeOK, OwnersIssued
<1>5. CASE UNCHANGED vars
  BY <1>5 DEF vars, TypeOK, OwnersIssued
<1>6. QED
  BY <1>1, <1>2, <1>3, <1>4, <1>5 DEF Next

\* Type correctness of the queue: leases never outlive the deadline of their
\* request, owner epochs and lease tokens stay in range, and every call in
\* progress is one that Next or Resolve can be in.
THEOREM TypeCorrect == Spec => []TypeOK
<1>1. TypeInv => TypeOK
  BY DEF TypeInv
<1>2. QED
  BY TypeInit, TypeStep, <1>1, PTL DEF Spec

-------------------------------------------------------------------------------
(* What one step can do to the call of an agent.  A Next that waits has an   *)
(* owner token: it is never the absence of one that keeps it going.          *)

PollersOwn ==
    \A a \in Agents : agent[a].pc \in {"polling", "woken"} => agent[a].owner # NoOwner

Woken(a) ==
    agent[a].pc = "polling" /\ agent'[a] = [agent[a] EXCEPT !.pc = "woken"]

Polls(a) == agent'[a].pc = "polling" /\ agent'[a].owner # NoOwner

Asks(a) ==
    LET call == agent'[a]
        e == entry[call.req]
    IN  /\ Digest[call.cand] # NoDigest
        /\ e.lease = call.lease /\ e.epoch = call.owner.epoch
        /\ \/ call.pc = "waiting" /\ e.hash = Digest[call.cand]
           \/ call.pc = "checking" /\ e.state = "leased"
        /\ entry' = entry /\ leases' = leases

Answers(a) ==
    LET call == agent[a]
    IN  /\ call.pc = "checking" /\ LeaseHolds(call)
        /\ agent'[a] = [call EXCEPT !.pc = "waiting"]
        /\ entry'[call.req].hash = Digest[call.cand]
        /\ entry'[call.req].lease = entry[call.req].lease
        /\ entry'[call.req].epoch = entry[call.req].epoch

AgentChange(a) ==
    \/ agent'[a] = agent[a]
    \/ agent'[a] = Idle
    \/ Woken(a) \/ Polls(a) \/ Asks(a) \/ Answers(a)

LEMMA SignalChange ==
    ASSUME NEW a \in Agents, agent'[a] \in {agent[a], Signal(agent)[a]}
    PROVE  AgentChange(a)
  BY DEF Signal, AgentChange, Woken

LEMMA FinishChange ==
    ASSUME NEW a \in Agents, NEW S, NEW state, Finish(S, state)
    PROVE  AgentChange(a)
  BY SignalChange DEF Finish

LEMMA PassChange ==
    ASSUME TypeInv, NEW a \in Agents, NEW run, NEW o, o # NoOwner, NEW limit,
           NEW wait, NEW es, Pass(a, run, o, limit, wait, es), NEW b \in Agents
    PROVE  AgentChange(b)
<1>1. agent \in [Agents -> Calls] /\ Signal(agent) \in [Agents -> Calls]
  BY SignalType DEF TypeInv, TypeOK
<1>2. PICK batch :
        agent' = [(IF Overdue(run, es) = {} THEN agent ELSE Signal(agent))
              EXCEPT ![a] = IF wait /\ batch = {}
                            THEN [pc |-> "polling", run |-> run, owner |-> o,
                                  limit |-> limit]
                            ELSE Idle]
  BY DEF Pass
<1>3. CASE b = a
  <2>1. agent'[b] = Idle
        \/ agent'[b] = [pc |-> "polling", run |-> run, owner |-> o, limit |-> limit]
    BY <1>1, <1>2, <1>3
  <2>2. QED
    BY <2>1 DEF AgentChange, Polls
<1>4. CASE b # a
  <2>1. agent'[b] \in {agent[b], Signal(agent)[b]}
    BY <1>1, <1>2, <1>4
  <2>2. QED
    BY <2>1, SignalChange
<1>5. QED
  BY <1>3, <1>4

\* Every step of the queue, seen from one agent.
LEMMA AgentStepChange ==
    ASSUME TypeInv, PollersOwn, [Next]_vars, NEW b \in Agents
    PROVE  AgentChange(b)
<1>0. agent \in [Agents -> Calls] /\ Signal(agent) \in [Agents -> Calls]
  BY SignalType DEF TypeInv, TypeOK
<1>1. ASSUME agent' = agent
      PROVE  AgentChange(b)
  BY <1>1 DEF AgentChange
<1>2. ASSUME NEW r \in Requests, Dispatch(r)
      PROVE  AgentChange(b)
  <2>1. CASE agent' = agent
    BY <1>1, <2>1
  <2>2. CASE agent' = Signal(agent)
    BY <2>2, SignalChange
  <2>3. CASE SeeContext(r) \/ ReportOutcome(r) \/ ContextWatcher(r) \/ DeadlineTimer(r)
    BY <2>3, FinishChange
       DEF SeeContext, ReportOutcome, ContextWatcher, DeadlineTimer, CancelRequest
  <2>4. QED
    BY <1>2, <2>1, <2>2, <2>3 DEF Dispatch, Begin, Refuse, Insert, TakeCandidate,
       SeeDone, GiveUp, HandOver, Complete, Return, ContextDone
<1>3. ASSUME NEW a \in Agents, AgentStep(a)
      PROVE  AgentChange(b)
  <2>1. ASSUME NEW run \in Runs, NEW limit \in 1..MaxBatch, NEW wait \in BOOLEAN,
               FirstNext(a, run, limit, wait)
        PROVE  AgentChange(b)
    <3>1. [token |-> issued[run] + 1, epoch |-> 1] # NoOwner
      BY DEF NoOwner
    <3>2. QED
      BY <2>1, <3>1, PassChange DEF FirstNext
  <2>2. ASSUME NEW run \in Runs, NEW limit \in 1..MaxBatch, NEW wait \in BOOLEAN,
               RepeatNext(a, run, limit, wait)
        PROVE  AgentChange(b)
    BY <2>2, PassChange DEF RepeatNext
  <2>3. ASSUME NEW run \in Runs, NEW limit \in 1..MaxBatch, NEW wait \in BOOLEAN,
               Takeover(a, run, limit, wait)
        PROVE  AgentChange(b)
    <3>1. issued[run] \in Nat
      BY DEF TypeInv, TypeOK
    <3>2. [token |-> issued[run] + 1, epoch |-> owners[run].epoch + 1] # NoOwner
      BY <3>1 DEF NoOwner
    <3>3. QED
      BY <2>3, <3>2, PassChange DEF Takeover
  <2>4. ASSUME NEW wait \in BOOLEAN, agent[a].pc \in {"polling", "woken"}, Turn(a, wait)
        PROVE  AgentChange(b)
    <3>1. CASE agent' = [agent EXCEPT ![a] = Idle]
      BY <1>0, <3>1 DEF AgentChange
    <3>2. CASE Pass(a, agent[a].run, agent[a].owner, agent[a].limit, wait, entry)
      <4>1. agent[a].owner # NoOwner
        BY <2>4 DEF PollersOwn
      <4>2. QED
        BY <3>2, <4>1, PassChange
    <3>3. QED
      BY <2>4, <3>1, <3>2 DEF Turn
  <2>5. ASSUME WakeUp(a)
        PROVE  AgentChange(b)
    <3>1. PICK wait \in BOOLEAN : Turn(a, wait)
      BY <2>5 DEF WakeUp
    <3>2. QED
      BY <2>4, <2>5, <3>1 DEF WakeUp
  <2>6. ASSUME PollTimeout(a)
        PROVE  AgentChange(b)
    BY <2>4, <2>6 DEF PollTimeout
  <2>7. ASSUME NEW r \in Requests, NEW lease \in 0..MaxLeases, NEW c \in Candidates,
               Resolve(a, r, lease, c)
        PROVE  AgentChange(b)
    <3>1. PICK pc \in {"checking", "waiting"} :
            /\ \/ pc = "waiting" /\ entry[r].hash = Digest[c]
               \/ pc = "checking" /\ entry[r].state = "leased"
            /\ agent' = [agent EXCEPT ![a] =
                  [pc |-> pc, req |-> r, owner |-> owners[RunOf[r]],
                   lease |-> lease, cand |-> c]]
      BY <2>7 DEF Resolve
    <3>2. CASE b = a
      <4>1. agent'[b] = [pc |-> pc, req |-> r, owner |-> owners[RunOf[r]],
                         lease |-> lease, cand |-> c]
        BY <1>0, <3>1, <3>2
      <4>2. /\ Digest[c] # NoDigest /\ entry[r].epoch = owners[RunOf[r]].epoch
            /\ entry[r].lease = lease /\ entry' = entry /\ leases' = leases
        BY <2>7 DEF Resolve
      <4>3. Asks(b)
        BY <3>1, <4>1, <4>2 DEF Asks
      <4>4. QED
        BY <4>3 DEF AgentChange
    <3>3. CASE b # a
      BY <1>0, <3>1, <3>3 DEF AgentChange
    <3>4. QED
      BY <3>2, <3>3
  <2>8. ASSUME Accept(a)
        PROVE  AgentChange(b)
    <3>1. Signal(agent)[a] = agent[a]
      BY <2>8 DEF Accept, Signal
    <3>2. CASE b = a
      <4>1. agent'[b] = [agent[a] EXCEPT !.pc = "waiting"]
        BY <1>0, <2>8, <3>1, <3>2 DEF Accept
      <4>2. agent[a] \in ResolveCall
        BY <1>0, <2>8 DEF Accept, Calls, Idle, NextCall
      <4>3. agent[a].req \in Requests
        BY <4>2 DEF ResolveCall
      <4>4. entry \in [Requests -> Entry] /\ entry[agent[a].req] \in Entry
        BY <4>3 DEF TypeInv, TypeOK
      <4>5. /\ entry'[agent[a].req].hash = Digest[agent[a].cand]
            /\ entry'[agent[a].req].lease = entry[agent[a].req].lease
            /\ entry'[agent[a].req].epoch = entry[agent[a].req].epoch
        BY <2>8, <4>3, <4>4 DEF Accept, Entry
      <4>6. Answers(b)
        BY <2>8, <3>2, <4>1, <4>5 DEF Accept, Answers
      <4>7. QED
        BY <4>6 DEF AgentChange
    <3>3. CASE b # a
      <4>1. agent'[b] = Signal(agent)[b]
        BY <1>0, <2>8, <3>3 DEF Accept
      <4>2. QED
        BY <4>1, SignalChange
    <3>4. QED
      BY <3>2, <3>3
  <2>9. ASSUME SchemaFails(a) \/ Conflict(a) \/ Acknowledge(a) \/ AgentGone(a)
        PROVE  AgentChange(b)
    <3>1. agent' = [agent EXCEPT ![a] = Idle]
      BY <2>9 DEF SchemaFails, Conflict, Acknowledge, AgentGone
    <3>2. QED
      BY <1>0, <3>1 DEF AgentChange
  <2>10. QED
    BY <1>3, <2>1, <2>2, <2>3, <2>5, <2>6, <2>7, <2>8, <2>9 DEF AgentStep
<1>4. ASSUME NEW run \in Runs, RunStep(run)
      PROVE  AgentChange(b)
  BY <1>1, <1>4, FinishChange DEF RunStep, CancelRun, ForgetCancels, ForgetDeletes
<1>5. CASE Tick \/ UNCHANGED vars
  BY <1>1, <1>5 DEF Tick, vars
<1>6. QED
  BY <1>2, <1>3, <1>4, <1>5 DEF Next

LEMMA PollersOwnInit == Init => PollersOwn
  BY DEF Init, PollersOwn, Idle

LEMMA PollersOwnStep == TypeInv /\ PollersOwn /\ [Next]_vars => PollersOwn'
<1> SUFFICES ASSUME TypeInv, PollersOwn, [Next]_vars, NEW a \in Agents,
                    agent'[a].pc \in {"polling", "woken"}
             PROVE  agent'[a].owner # NoOwner
  BY DEF PollersOwn
<1>1. AgentChange(a)
  BY AgentStepChange
<1>2. CASE agent'[a] = agent[a]
  BY <1>2 DEF PollersOwn
<1>3. CASE agent'[a] = Idle
  BY <1>3 DEF Idle
<1>4. CASE Woken(a)
  <2>1. agent[a] \in NextCall
    BY <1>4 DEF Woken, TypeInv, TypeOK, Calls, Idle, ResolveCall
  <2>2. agent'[a].owner = agent[a].owner
    BY <1>4, <2>1 DEF Woken, NextCall
  <2>3. QED
    BY <1>4, <2>2 DEF Woken, PollersOwn
<1>5. CASE Polls(a)
  BY <1>5 DEF Polls
<1>6. CASE Asks(a)
  BY <1>6 DEF Asks
<1>7. CASE Answers(a)
  <2>1. agent[a] \in ResolveCall
    BY <1>7 DEF Answers, TypeInv, TypeOK, Calls, Idle, NextCall
  <2>2. agent'[a].pc = "waiting"
    BY <1>7, <2>1 DEF Answers, ResolveCall
  <2>3. QED
    BY <2>2
<1>8. QED
  BY <1>1, <1>2, <1>3, <1>4, <1>5, <1>6, <1>7 DEF AgentChange

-------------------------------------------------------------------------------
(* What one step can do to the entry of a request, and to its dispatch.      *)

SameAnswer(r) ==
    /\ entry'[r].hash = entry[r].hash
    /\ entry'[r].candidate = entry[r].candidate
    /\ entry'[r].delivery = entry[r].delivery

SameLease(r) ==
    /\ entry'[r].lease = entry[r].lease
    /\ entry'[r].epoch = entry[r].epoch

Untouched(r) ==
    entry'[r].state = entry[r].state /\ SameAnswer(r) /\ SameLease(r)

Inserted(r) ==
    /\ caller[r] = "entering" /\ caller'[r] = "waiting"
    /\ entry'[r].state = "pending"
    /\ SameAnswer(r) /\ SameLease(r)

\* By finish(), or by a pass that finds the request overdue; a takeover revokes
\* the lease first.
Ended(r) ==
    /\ r \in Unfinished
    /\ entry'[r].state \in {"cancelled", "expired", "failed"}
    /\ SameAnswer(r)
    /\ \/ SameLease(r)
       \/ /\ entry[r].state = "leased"
          /\ entry'[r].lease = 0 /\ entry'[r].epoch = entry[r].epoch

Confirmed(r) ==
    /\ r \in queue
    /\ caller[r] = "filled" /\ caller'[r] = "confirmed"
    /\ entry[r].state = "resolving" /\ entry'[r].state = "resolved"
    /\ SameAnswer(r) /\ SameLease(r)

Leased(r) ==
    /\ r \in queue
    /\ entry[r].state \in {"pending", "leased"} /\ entry'[r].state = "leased"
    /\ leases'[r] = leases[r] + 1 /\ entry'[r].lease = leases'[r]
    /\ entry'[r].epoch = owners'[RunOf[r]].epoch
    /\ owners'[RunOf[r]] # NoOwner
    /\ SameAnswer(r)

Released(r) ==
    /\ r \in queue
    /\ entry[r].state \in {"pending", "leased"} /\ entry'[r].state = "pending"
    /\ entry'[r].lease = 0 \/ SameLease(r)
    /\ entry'[r].epoch = entry[r].epoch
    /\ SameAnswer(r)

Accepted(r) ==
    \E a \in Agents :
        LET c == agent[a].cand
        IN  /\ agent[a].pc = "checking" /\ agent[a].req = r
            /\ Fits[c] /\ LeaseHolds(agent[a])
            /\ c \in Candidates
            /\ entry'[r].state = "resolving"
            /\ entry'[r].hash = Digest[c]
            /\ entry'[r].candidate = c /\ entry'[r].delivery = c
            /\ SameLease(r)

Taken(r) ==
    /\ caller[r] = "waiting" /\ caller'[r] = "got"
    /\ entry[r].delivery # NoCandidate
    /\ received'[r] = entry[r].delivery
    /\ entry'[r].delivery = NoCandidate
    /\ entry'[r].state = entry[r].state
    /\ entry'[r].hash = entry[r].hash /\ entry'[r].candidate = entry[r].candidate
    /\ SameLease(r)

EntryChange(r) ==
    \/ Untouched(r) \/ Inserted(r) \/ Ended(r) \/ Confirmed(r)
    \/ Leased(r) \/ Released(r) \/ Accepted(r) \/ Taken(r)

DispatchChange(r) ==
    \/ caller'[r] = caller[r] /\ received'[r] = received[r]
    \/ /\ received'[r] = received[r]
       /\ <<caller[r], caller'[r]>> \in
             {<<"idle", "entering">>, <<"entering", "waiting">>, <<"entering", "failed">>,
              <<"waiting", "failed">>, <<"got", "failed">>, <<"got", "completing">>,
              <<"completing", "filled">>, <<"completing", "failed">>,
              <<"filled", "confirmed">>, <<"failed", "closed">>}
    \/ Taken(r)

EntersOnlyByInsert(r) == r \in queue' => r \in queue \/ Inserted(r)

\* finish() on a set of entries the queue holds.
LEMMA FinishEntries ==
    ASSUME TypeInv, NEW S, S \subseteq queue,
           NEW state \in {"cancelled", "expired", "failed"}, Finish(S, state),
           NEW r \in Requests
    PROVE  Untouched(r) \/ Ended(r)
<1>1. entry[r] \in Entry
  BY DEF TypeInv, TypeOK
<1>2. CASE r \in S /\ ~terminal(entry[r].state)
  <2>1. entry'[r] = [entry[r] EXCEPT !.state = state]
    BY <1>2 DEF Finish
  <2>2. QED
    BY <1>1, <1>2, <2>1 DEF Ended, Unfinished, SameAnswer, SameLease, Entry
<1>3. CASE ~(r \in S /\ ~terminal(entry[r].state))
  <2>1. entry'[r] = entry[r]
    BY <1>3 DEF Finish
  <2>2. QED
    BY <2>1 DEF Untouched, SameAnswer, SameLease
<1>4. QED
  BY <1>2, <1>3

\* A pass over entries some of which a takeover has just released.
LEMMA PassEntries ==
    ASSUME TypeInv, NEW a \in Agents, NEW run \in Runs, NEW o,
           NEW limit \in 1..MaxBatch, NEW wait \in BOOLEAN, NEW es,
           Pass(a, run, o, limit, wait, es), NEW r \in Requests,
           \/ es[r] = entry[r]
           \/ r \in queue /\ entry[r].state = "leased" /\ es[r] = Release(entry[r]),
           owners'[run] = o, o # NoOwner
    PROVE  Untouched(r) \/ Ended(r) \/ Leased(r) \/ Released(r)
<1>1. PICK batch \in Batches(run, es, limit) :
         /\ leases' = [q \in Requests |-> leases[q] + (IF q \in batch THEN 1 ELSE 0)]
         /\ entry' = [q \in Requests |->
               CASE q \in Overdue(run, es) -> [es[q] EXCEPT !.state = "expired"]
                 [] q \in batch -> Lease(es[q], leases[q] + 1, o.epoch)
                 [] q \in Free(run, es) \ batch -> Release(es[q])
                 [] OTHER -> es[q]]
  BY DEF Pass
<1>2. entry[r] \in Entry /\ leases[r] \in Nat
  BY BoundsAssumption DEF TypeInv, TypeOK
<1>3. es[r] \in Entry
  BY <1>2, ReleaseType
<1>4. /\ es[r].hash = entry[r].hash /\ es[r].candidate = entry[r].candidate
      /\ es[r].delivery = entry[r].delivery /\ es[r].epoch = entry[r].epoch
      /\ \/ es[r].state = entry[r].state /\ es[r].lease = entry[r].lease
         \/ r \in queue /\ entry[r].state = "leased" /\ es[r].state = "pending"
            /\ es[r].lease = 0
  BY <1>2 DEF Release, Entry
<1>5. batch \subseteq Free(run, es)
  BY DEF Batches
<1>6. CASE r \in Overdue(run, es)
  <2>1. entry'[r] = [es[r] EXCEPT !.state = "expired"]
    <3>1. r \notin Free(run, es)
      BY <1>6 DEF Free
    <3>2. QED
      BY <1>1, <1>5, <1>6, <3>1
  <2>2. r \in queue /\ ~terminal(es[r].state)
    BY <1>6 DEF Overdue, OfRun
  <2>3. QED
    BY <1>3, <1>4, <2>1, <2>2 DEF Ended, Unfinished, terminal, SameAnswer, SameLease, Entry
<1>7. CASE r \in batch
  <2>1. r \in Free(run, es) /\ r \notin Overdue(run, es)
    BY <1>5, <1>7 DEF Free
  <2>2. entry'[r] = Lease(es[r], leases[r] + 1, o.epoch) /\ leases'[r] = leases[r] + 1
    BY <1>1, <1>7, <2>1
  <2>3. r \in queue /\ RunOf[r] = run /\ es[r].state \in {"pending", "leased"}
    BY <2>1 DEF Free, OfRun
  <2>4. QED
    BY <1>3, <1>4, <2>2, <2>3 DEF Leased, Lease, SameAnswer, Entry
<1>8. CASE r \in Free(run, es) \ batch
  <2>1. entry'[r] = Release(es[r])
    BY <1>1, <1>8 DEF Free
  <2>2. r \in queue /\ es[r].state \in {"pending", "leased"}
    BY <1>8 DEF Free, OfRun
  <2>3. QED
    BY <1>3, <1>4, <2>1, <2>2 DEF Released, Release, SameAnswer, Entry
<1>9. CASE r \notin Overdue(run, es) /\ r \notin Free(run, es)
  <2>1. entry'[r] = es[r]
    BY <1>1, <1>5, <1>9
  <2>2. QED
    BY <1>4, <2>1 DEF Untouched, Released, SameAnswer, SameLease
<1>10. QED
  BY <1>5, <1>6, <1>7, <1>8, <1>9

\* What a step leaves of a request it is not about, or about which the dispatch
\* learns nothing.
Calm(r) == Untouched(r) \/ Ended(r) \/ Leased(r) \/ Released(r)

SameReceived(r) == received'[r] = received[r]

\* The dispatch of q changes what only the dispatch of q may change.
DispatchEntry(q, r) ==
    \/ Calm(r) /\ SameReceived(r)
    \/ q = r /\ SameReceived(r) /\ (Inserted(r) \/ Confirmed(r))
    \/ q = r /\ Taken(r)

\* An agent accepts the candidate it shows and leaves every other answer alone.
AgentEntry(a, r) ==
    \/ Calm(r)
    \/ agent[a].req = r /\ Accept(a) /\ Accepted(r)

\* Every step of a dispatch, seen from one request.
LEMMA DispatchEntries ==
    ASSUME TypeInv, NEW q \in Requests, Dispatch(q), NEW r \in Requests
    PROVE  DispatchEntry(q, r) /\ DispatchChange(r) /\ EntersOnlyByInsert(r)
<1> USE DEF EntersOnlyByInsert
<1>a. entry[r] \in Entry /\ entry \in [Requests -> Entry] /\ queue \subseteq Requests
      /\ caller \in [Requests -> CallerStates]
  BY DEF TypeInv, TypeOK
<1>b. ASSUME entry' = entry
      PROVE  Untouched(r)
  BY <1>b DEF Untouched, SameAnswer, SameLease
<1>c. ASSUME caller' = caller, received' = received
      PROVE  DispatchChange(r)
  BY <1>c DEF DispatchChange
<1>1. CASE Begin(q)
  <2>1. Untouched(r)
    BY <1>a, <1>1 DEF Begin, Untouched, SameAnswer, SameLease, Entry
  <2>2. QED
    BY <1>a, <1>1, <2>1 DEF Begin, DispatchEntry, Calm, SameReceived, DispatchChange
<1>2. CASE Refuse(q)
  BY <1>a, <1>b, <1>2 DEF Refuse, DispatchEntry, Calm, SameReceived, DispatchChange
<1>3. CASE Insert(q)
  <2>1. CASE q = r
    <3>1. Inserted(r)
      BY <1>a, <1>3, <2>1 DEF Insert, Inserted, SameAnswer, SameLease, Entry
    <3>2. QED
      BY <1>a, <1>3, <2>1, <3>1 DEF Insert, DispatchEntry, Calm, SameReceived, DispatchChange
  <2>2. CASE q # r
    <3>1. Untouched(r)
      BY <1>a, <1>3, <2>2 DEF Insert, Untouched, SameAnswer, SameLease
    <3>2. QED
      BY <1>a, <1>3, <2>2, <3>1 DEF Insert, DispatchEntry, Calm, SameReceived, DispatchChange
  <2>3. QED
    BY <2>1, <2>2
<1>4. CASE TakeCandidate(q)
  <2>1. CASE q = r
    <3>1. Taken(r)
      BY <1>a, <1>4, <2>1 DEF TakeCandidate, Taken, SameLease, Entry, TypeInv, TypeOK
    <3>2. QED
      BY <1>4, <2>1, <3>1 DEF TakeCandidate, DispatchEntry, DispatchChange
  <2>2. CASE q # r
    <3>1. Untouched(r)
      BY <1>a, <1>4, <2>2 DEF TakeCandidate, Untouched, SameAnswer, SameLease
    <3>2. received'[r] = received[r] /\ caller'[r] = caller[r]
      BY <1>a, <1>4, <2>2 DEF TakeCandidate, TypeInv, TypeOK
    <3>3. QED
      BY <1>4, <3>1, <3>2 DEF TakeCandidate, DispatchEntry, Calm, SameReceived, DispatchChange
  <2>3. QED
    BY <2>1, <2>2
<1>5. CASE SeeDone(q)
  BY <1>a, <1>b, <1>5 DEF SeeDone, DispatchEntry, Calm, SameReceived, DispatchChange
<1>6. CASE SeeContext(q)
  <2>1. Untouched(r) \/ Ended(r)
    BY <1>6, FinishEntries DEF SeeContext, CancelRequest
  <2>2. QED
    BY <1>a, <1>6, <2>1 DEF SeeContext, DispatchEntry, Calm, SameReceived, DispatchChange
<1>7. CASE GiveUp(q)
  BY <1>a, <1>b, <1>7 DEF GiveUp, DispatchEntry, Calm, SameReceived, DispatchChange
<1>8. CASE HandOver(q)
  BY <1>a, <1>b, <1>8 DEF HandOver, DispatchEntry, Calm, SameReceived, DispatchChange
<1>9. CASE Complete(q)
  BY <1>a, <1>b, <1>9 DEF Complete, DispatchEntry, Calm, SameReceived, DispatchChange
<1>10. CASE Return(q)
  BY <1>b, <1>c, <1>10 DEF Return, DispatchEntry, Calm, SameReceived
<1>11. CASE ReportOutcome(q)
  <2>1. CASE caller[q] = "failed" /\ Finish({q} \cap queue, "failed")
             /\ caller' = [caller EXCEPT ![q] = "closed"]
    <3>1. Untouched(r) \/ Ended(r)
      BY <2>1, FinishEntries
    <3>2. QED
      BY <1>a, <1>11, <2>1, <3>1 DEF ReportOutcome, DispatchEntry, Calm, SameReceived, DispatchChange
  <2>2. CASE caller[q] = "filled"
             /\ Finish({p \in {q} \cap queue : entry[p].state = "resolving"}, "resolved")
             /\ caller' = [caller EXCEPT ![q] = "confirmed"]
    <3>1. Untouched(r) \/ (q = r /\ Confirmed(r))
      <4>1. CASE r = q /\ r \in queue /\ entry[r].state = "resolving"
        <5>1. entry'[r] = [entry[r] EXCEPT !.state = "resolved"]
          BY <2>2, <4>1 DEF Finish, terminal
        <5>2. QED
          BY <1>a, <2>2, <4>1, <5>1 DEF Confirmed, SameAnswer, SameLease, Entry
      <4>2. CASE ~(r = q /\ r \in queue /\ entry[r].state = "resolving")
        <5>1. entry'[r] = entry[r]
          BY <2>2, <4>2 DEF Finish
        <5>2. QED
          BY <5>1 DEF Untouched, SameAnswer, SameLease
      <4>3. QED
        BY <4>1, <4>2
    <3>2. QED
      BY <1>a, <1>11, <2>2, <3>1 DEF ReportOutcome, DispatchEntry, Calm, SameReceived, DispatchChange
  <2>3. QED
    BY <1>11, <2>1, <2>2 DEF ReportOutcome
<1>12. CASE ContextDone(q)
  BY <1>b, <1>c, <1>12 DEF ContextDone, DispatchEntry, Calm, SameReceived
<1>13. CASE ContextWatcher(q)
  <2>1. Untouched(r) \/ Ended(r)
    BY <1>13, FinishEntries DEF ContextWatcher, CancelRequest
  <2>2. QED
    BY <1>c, <1>13, <2>1 DEF ContextWatcher, DispatchEntry, Calm, SameReceived
<1>14. CASE DeadlineTimer(q)
  <2>1. Untouched(r) \/ Ended(r)
    BY <1>14, FinishEntries DEF DeadlineTimer, CancelRequest
  <2>2. QED
    BY <1>c, <1>14, <2>1 DEF DeadlineTimer, DispatchEntry, Calm, SameReceived
<1>15. QED
  BY <1>1, <1>2, <1>3, <1>4, <1>5, <1>6, <1>7, <1>8, <1>9, <1>10,
     <1>11, <1>12, <1>13, <1>14 DEF Dispatch

\* Every step of an agent, seen from one request.
LEMMA AgentEntries ==
    ASSUME TypeInv, PollersOwn, NEW a \in Agents, AgentStep(a), NEW r \in Requests
    PROVE  AgentEntry(a, r) /\ caller' = caller /\ received' = received /\ queue' = queue
<1>a. entry[r] \in Entry /\ entry \in [Requests -> Entry]
  BY DEF TypeInv, TypeOK
<1>b. ASSUME entry' = entry
      PROVE  Untouched(r)
  BY <1>b DEF Untouched, SameAnswer, SameLease
<1>1. caller' = caller /\ received' = received /\ queue' = queue
  BY DEF AgentStep, FirstNext, RepeatNext, Takeover, WakeUp, PollTimeout,
     Resolve, SchemaFails, Accept, Conflict, Acknowledge, AgentGone
<1>2. ASSUME NEW run \in Runs, NEW limit \in 1..MaxBatch, NEW wait \in BOOLEAN,
             FirstNext(a, run, limit, wait)
      PROVE  AgentEntry(a, r)
  <2> DEFINE o == [token |-> issued[run] + 1, epoch |-> 1]
  <2>1. Pass(a, run, o, limit, wait, entry) /\ owners'[run] = o /\ o # NoOwner
    BY <1>2 DEF FirstNext, TypeInv, TypeOK, NoOwner
  <2>2. entry[r] = entry[r]
    OBVIOUS
  <2> HIDE DEF o
  <2>3. Untouched(r) \/ Ended(r) \/ Leased(r) \/ Released(r)
    BY <2>1, <2>2, PassEntries
  <2>4. QED
    BY <2>3 DEF AgentEntry, Calm
<1>3. ASSUME NEW run \in Runs, NEW limit \in 1..MaxBatch, NEW wait \in BOOLEAN,
             RepeatNext(a, run, limit, wait)
      PROVE  AgentEntry(a, r)
  <2>1. Pass(a, run, owners[run], limit, wait, entry)
        /\ owners'[run] = owners[run] /\ owners[run] # NoOwner
    BY <1>3 DEF RepeatNext
  <2>2. QED
    BY <2>1, PassEntries DEF AgentEntry, Calm
<1>4. ASSUME NEW run \in Runs, NEW limit \in 1..MaxBatch, NEW wait \in BOOLEAN,
             Takeover(a, run, limit, wait)
      PROVE  AgentEntry(a, r)
  <2> DEFINE o == [token |-> issued[run] + 1, epoch |-> owners[run].epoch + 1]
             revoked == [q \in Requests |->
                IF q \in OfRun(run) /\ entry[q].state = "leased"
                THEN Release(entry[q]) ELSE entry[q]]
  <2>0. issued[run] \in Nat
    BY DEF TypeInv, TypeOK
  <2>1. Pass(a, run, o, limit, wait, revoked) /\ owners'[run] = o /\ o # NoOwner
    BY <1>4, <2>0 DEF Takeover, TypeInv, TypeOK, NoOwner
  <2>2. \/ revoked[r] = entry[r]
        \/ r \in queue /\ entry[r].state = "leased" /\ revoked[r] = Release(entry[r])
    BY DEF OfRun
  <2>3. QED
    BY <2>1, <2>2, PassEntries DEF AgentEntry, Calm
<1>5. ASSUME NEW wait \in BOOLEAN, agent[a].pc \in {"polling", "woken"},
             Turn(a, wait), owners' = owners
      PROVE  AgentEntry(a, r)
  <2>1. agent[a].run \in Runs /\ agent[a].limit \in 1..MaxBatch
    BY <1>5 DEF TypeInv, TypeOK, Calls, Idle, ResolveCall, NextCall
  <2>2. CASE entry' = entry
    BY <1>b, <2>2 DEF AgentEntry, Calm
  <2>3. CASE Pass(a, agent[a].run, agent[a].owner, agent[a].limit, wait, entry)
             /\ owners[agent[a].run] = agent[a].owner
    BY <1>5, <2>1, <2>3, PassEntries DEF AgentEntry, Calm, PollersOwn
  <2>4. QED
    BY <1>5, <2>2, <2>3 DEF Turn
<1>6. ASSUME WakeUp(a)
      PROVE  AgentEntry(a, r)
  <2>1. PICK wait \in BOOLEAN : Turn(a, wait)
    BY <1>6 DEF WakeUp
  <2>2. agent[a].pc \in {"polling", "woken"} /\ owners' = owners
    BY <1>6 DEF WakeUp
  <2>3. QED
    BY <1>5, <2>1, <2>2
<1>7. ASSUME PollTimeout(a)
      PROVE  AgentEntry(a, r)
  <2>1. agent[a].pc \in {"polling", "woken"} /\ owners' = owners /\ Turn(a, FALSE)
    BY <1>7 DEF PollTimeout
  <2>2. QED
    BY <1>5, <2>1
<1>8. ASSUME Accept(a)
      PROVE  AgentEntry(a, r)
  <2>0. agent[a] \in ResolveCall
    BY <1>8 DEF Accept, TypeInv, TypeOK, Calls, Idle, NextCall
  <2>1. agent[a].req \in Requests /\ agent[a].cand \in Candidates
    BY <2>0 DEF ResolveCall
  <2>2. CASE agent[a].req = r
    <3>1. Accepted(r)
      BY <1>a, <1>8, <2>1, <2>2 DEF Accept, Accepted, SameLease, Entry
    <3>2. QED
      BY <1>8, <2>2, <3>1 DEF AgentEntry
  <2>3. CASE agent[a].req # r
    <3>1. entry'[r] = entry[r]
      BY <1>a, <1>8, <2>1, <2>3 DEF Accept
    <3>2. QED
      BY <3>1 DEF AgentEntry, Calm, Untouched, SameAnswer, SameLease
  <2>4. QED
    BY <2>2, <2>3
<1>9. ASSUME \/ SchemaFails(a) \/ Conflict(a) \/ Acknowledge(a) \/ AgentGone(a)
             \/ \E q \in Requests, lease \in 0..MaxLeases, c \in Candidates :
                   Resolve(a, q, lease, c)
      PROVE  AgentEntry(a, r)
  <2>1. entry' = entry
    BY <1>9 DEF SchemaFails, Conflict, Acknowledge, AgentGone, Resolve
  <2>2. QED
    BY <1>b, <2>1 DEF AgentEntry, Calm
<1>10. AgentEntry(a, r)
  BY <1>2, <1>3, <1>4, <1>6, <1>7, <1>8, <1>9 DEF AgentStep
<1>11. QED
  BY <1>1, <1>10

\* Every step of a run, of the clock and no step at all, seen from one request.
LEMMA OtherEntries ==
    ASSUME TypeInv, (\E run \in Runs : RunStep(run)) \/ Tick \/ UNCHANGED vars,
           NEW r \in Requests
    PROVE  Calm(r) /\ caller' = caller /\ received' = received /\ queue' \subseteq queue
<1>1. ASSUME entry' = entry
      PROVE  Calm(r)
  BY <1>1 DEF Calm, Untouched, SameAnswer, SameLease
<1>2. ASSUME NEW run \in Runs, RunStep(run)
      PROVE  Calm(r) /\ caller' = caller /\ received' = received /\ queue' \subseteq queue
  <2>1. CASE CancelRun(run) \/ ForgetCancels(run)
    <3>1. Untouched(r) \/ Ended(r)
      BY <2>1, FinishEntries DEF CancelRun, ForgetCancels, OfRun
    <3>2. QED
      BY <2>1, <3>1 DEF CancelRun, ForgetCancels, Calm
  <2>2. CASE ForgetDeletes(run)
    BY <1>1, <2>2 DEF ForgetDeletes
  <2>3. QED
    BY <1>2, <2>1, <2>2 DEF RunStep
<1>3. CASE Tick \/ UNCHANGED vars
  BY <1>1, <1>3 DEF Tick, vars
<1>4. QED
  BY <1>2, <1>3

\* Every step of the queue, seen from one request.
LEMMA EntryStep ==
    ASSUME TypeInv, PollersOwn, [Next]_vars, NEW r \in Requests
    PROVE  EntryChange(r) /\ DispatchChange(r) /\ EntersOnlyByInsert(r)
<1>1. ASSUME NEW q \in Requests, Dispatch(q)
      PROVE  EntryChange(r) /\ DispatchChange(r) /\ EntersOnlyByInsert(r)
  <2>1. DispatchEntry(q, r) /\ DispatchChange(r) /\ EntersOnlyByInsert(r)
    BY <1>1, DispatchEntries
  <2>2. QED
    BY <2>1 DEF DispatchEntry, Calm, EntryChange
<1>2. ASSUME NEW a \in Agents, AgentStep(a)
      PROVE  EntryChange(r) /\ DispatchChange(r) /\ EntersOnlyByInsert(r)
  <2>1. AgentEntry(a, r) /\ caller' = caller /\ received' = received /\ queue' = queue
    BY <1>2, AgentEntries
  <2>2. QED
    BY <2>1 DEF AgentEntry, Calm, EntryChange, DispatchChange, EntersOnlyByInsert
<1>3. CASE (\E run \in Runs : RunStep(run)) \/ Tick \/ UNCHANGED vars
  <2>1. Calm(r) /\ caller' = caller /\ received' = received /\ queue' \subseteq queue
    BY <1>3, OtherEntries
  <2>2. QED
    BY <2>1 DEF Calm, EntryChange, DispatchChange, EntersOnlyByInsert
<1>4. QED
  BY <1>1, <1>2, <1>3 DEF Next

-------------------------------------------------------------------------------
(* Answers.  What the dispatch knows of its request strengthens the two      *)
(* invariants about answers to an inductive one: a request that has not been  *)
(* inserted has no entry, nothing is received before a candidate is taken,    *)
(* and a dispatch that completes has received one.                            *)

DispatchKnows(r) ==
    /\ caller[r] \in {"idle", "entering"} =>
          r \notin queue /\ entry[r].state = "none"
    /\ caller[r] \in {"idle", "entering", "waiting"} => received[r] = NoCandidate
    /\ caller[r] \in {"got", "completing", "filled", "confirmed"} =>
          received[r] # NoCandidate

\* One request's part of DeliveryMatchesAcceptance and ResolvedMeansFilled.
AnswerOf(r) ==
    /\ entry[r].state \in {"none", "pending", "leased"} =>
          /\ entry[r].hash = NoDigest
          /\ entry[r].delivery = NoCandidate
          /\ received[r] = NoCandidate
    /\ \A c \in {entry[r].delivery, received[r]} \ {NoCandidate} :
          c = entry[r].candidate /\ Digest[c] = entry[r].hash /\ Fits[c]
    /\ entry[r].state = "resolved" =>
          caller[r] = "confirmed" /\ received[r] # NoCandidate

AnswerInv == \A r \in Requests : DispatchKnows(r) /\ AnswerOf(r)

LEMMA AnswerInit == Init => AnswerInv
  BY DEF Init, AnswerInv, DispatchKnows, AnswerOf, NoEntry

LEMMA AnswerStep == TypeInv /\ PollersOwn /\ AnswerInv /\ [Next]_vars => AnswerInv'
<1> SUFFICES ASSUME TypeInv, PollersOwn, AnswerInv, [Next]_vars, NEW r \in Requests
             PROVE  DispatchKnows(r)' /\ AnswerOf(r)'
  BY DEF AnswerInv
<1>1. DispatchKnows(r) /\ AnswerOf(r)
  BY DEF AnswerInv
<1>2. EntryChange(r) /\ DispatchChange(r) /\ EntersOnlyByInsert(r)
  BY EntryStep
<1>3. caller[r] \in CallerStates /\ NoCandidate \notin Candidates
  BY DataAssumption DEF TypeInv, TypeOK
<1> USE DEF SameAnswer, SameLease, DispatchKnows, AnswerOf
<1>4. CASE Untouched(r) /\ ~Taken(r)
  <2>1. /\ entry'[r].state = entry[r].state /\ entry'[r].hash = entry[r].hash
        /\ entry'[r].candidate = entry[r].candidate
        /\ entry'[r].delivery = entry[r].delivery
    BY <1>4 DEF Untouched
  <2>2. received'[r] = received[r]
    BY <1>2, <1>4 DEF DispatchChange
  <2>3. ~Inserted(r) \/ entry[r].state = "pending"
    BY <2>1 DEF Inserted
  <2>4. AnswerOf(r)'
    <3>1. caller[r] = "confirmed" => caller'[r] = "confirmed"
      BY <1>2, <1>4 DEF DispatchChange
    <3>2. QED
      BY <1>1, <2>1, <2>2, <3>1
  <2>5. DispatchKnows(r)'
    BY <1>1, <1>2, <1>3, <1>4, <2>1, <2>2, <2>3
       DEF DispatchChange, EntersOnlyByInsert, Inserted, CallerStates
  <2>6. QED
    BY <2>4, <2>5
<1>5. CASE Inserted(r)
  <2>1. received'[r] = received[r]
    BY <1>2, <1>5 DEF Inserted, DispatchChange, Taken
  <2>2. QED
    BY <1>1, <1>5, <2>1 DEF Inserted
<1>6. CASE Ended(r)
  <2>1. ~Taken(r) /\ r \in queue /\ ~Inserted(r)
    BY <1>6 DEF Ended, Taken, Unfinished, terminal, Inserted
  <2>2. received'[r] = received[r]
        /\ (caller[r] \notin {"idle", "entering"} => caller'[r] \notin {"idle", "entering"})
        /\ (caller'[r] \in {"idle", "entering", "waiting"} =>
              caller[r] \in {"idle", "entering", "waiting"})
        /\ (caller'[r] \in {"got", "completing", "filled", "confirmed"} =>
              caller[r] \in {"got", "completing", "filled", "confirmed"})
    BY <1>2, <2>1 DEF DispatchChange
  <2>3. QED
    BY <1>1, <1>6, <2>1, <2>2 DEF Ended
<1>7. CASE Confirmed(r)
  <2>1. received'[r] = received[r]
    BY <1>2, <1>7 DEF Confirmed, DispatchChange, Taken
  <2>2. QED
    BY <1>1, <1>7, <2>1 DEF Confirmed
<1>8. CASE Leased(r) \/ Released(r)
  <2>1. r \in queue /\ entry[r].state \in {"pending", "leased"} /\ ~Taken(r)
    BY <1>1, <1>8 DEF Leased, Released, Taken
  <2>2. received'[r] = received[r]
        /\ (caller[r] \notin {"idle", "entering"} => caller'[r] \notin {"idle", "entering"})
        /\ (caller'[r] \in {"got", "completing", "filled", "confirmed"} =>
              caller[r] \in {"got", "completing", "filled", "confirmed"})
    BY <1>2, <2>1 DEF DispatchChange
  <2>3. QED
    BY <1>1, <1>8, <2>1, <2>2 DEF Leased, Released
<1>9. CASE Accepted(r)
  <2>1. PICK c \in Candidates :
          /\ Fits[c] /\ entry[r].state = "leased" /\ entry'[r].state = "resolving"
          /\ entry'[r].hash = Digest[c]
          /\ entry'[r].candidate = c /\ entry'[r].delivery = c
    BY <1>9 DEF Accepted, LeaseHolds
  <2>2. ~Taken(r) /\ ~Inserted(r)
    BY <1>1, <2>1 DEF Taken, Inserted
  <2>3. received'[r] = received[r] /\ received[r] = NoCandidate
        /\ (caller[r] \notin {"idle", "entering"} => caller'[r] \notin {"idle", "entering"})
        /\ (caller'[r] \in {"got", "completing", "filled", "confirmed"} =>
              caller[r] \in {"got", "completing", "filled", "confirmed"})
    BY <1>1, <1>2, <2>1, <2>2 DEF DispatchChange
  <2>4. caller[r] \notin {"idle", "entering"}
    BY <1>1, <2>1
  <2>5. QED
    BY <1>1, <2>1, <2>3, <2>4
<1>10. CASE Taken(r)
  BY <1>1, <1>10 DEF Taken
<1>11. QED
  BY <1>2, <1>4, <1>5, <1>6, <1>7, <1>8, <1>9, <1>10 DEF EntryChange

\* What the application is given is the candidate the queue accepted, it fits
\* the schema, and the one-place delivery slot is empty whenever a candidate may
\* be accepted, so that the send under the lock of Resolve never blocks.
THEOREM DeliveryCorrect == Spec => []DeliveryMatchesAcceptance
<1>1. AnswerInv => DeliveryMatchesAcceptance
  BY DEF AnswerInv, AnswerOf, DeliveryMatchesAcceptance
<1>2. QED
  BY TypeInit, TypeStep, PollersOwnInit, PollersOwnStep, AnswerInit, AnswerStep,
     <1>1, PTL DEF Spec

\* An agent is told "resolved" only of an answer the right plugin applied.
THEOREM ResolutionCorrect == Spec => []ResolvedMeansFilled
<1>1. AnswerInv => ResolvedMeansFilled
  BY DEF AnswerInv, AnswerOf, ResolvedMeansFilled
<1>2. QED
  BY TypeInit, TypeStep, PollersOwnInit, PollersOwnStep, AnswerInit, AnswerStep,
     <1>1, PTL DEF Spec

-------------------------------------------------------------------------------
(* Leases.  A lease token is new when it is issued, so the owner under which *)
(* a call checked it is still the one it was issued to when the call looks   *)
(* again; that makes WaiterOwnsAnswer inductive even for entries the queue    *)
(* has forgotten meanwhile.                                                   *)

LeaseIssued ==
    \A r \in Requests :
        /\ entry[r].lease <= leases[r]
        /\ entry[r].state = "leased" => entry[r].lease > 0

CheckerHolds(a) ==
    agent[a].pc = "checking" =>
        LET call == agent[a]
            e == entry[call.req]
        IN  /\ call.lease > 0 /\ call.lease <= leases[call.req]
            /\ e.lease = call.lease => e.epoch = call.owner.epoch

WaiterHolds(a) ==
    agent[a].pc = "waiting" =>
        LET call == agent[a]
            e == entry[call.req]
        IN  e.hash = Digest[call.cand] /\ e.lease = call.lease
            /\ e.epoch = call.owner.epoch

CallInv ==
    /\ LeaseIssued
    /\ \A a \in Agents :
          /\ agent[a].pc \in {"checking", "waiting"} => Digest[agent[a].cand] # NoDigest
          /\ CheckerHolds(a)
          /\ WaiterHolds(a)

LEMMA CallInit == Init => CallInv
  BY DEF Init, CallInv, LeaseIssued, CheckerHolds, WaiterHolds, NoEntry, Idle

LEMMA LeasesGrow ==
    ASSUME TypeInv, [Next]_vars, NEW r \in Requests
    PROVE  leases[r] <= leases'[r]
<1>0. leases[r] \in Nat
  BY DEF TypeInv, TypeOK
<1>1. ASSUME NEW a, NEW run, NEW o, NEW limit, NEW wait, NEW es,
             Pass(a, run, o, limit, wait, es)
      PROVE  leases[r] <= leases'[r]
  <2>1. PICK batch :
          leases' = [q \in Requests |-> leases[q] + (IF q \in batch THEN 1 ELSE 0)]
    BY <1>1 DEF Pass
  <2>2. leases'[r] \in {leases[r], leases[r] + 1}
    BY <1>0, <2>1
  <2>3. QED
    BY <1>0, <2>2
<1>2. ASSUME leases' = leases
      PROVE  leases[r] <= leases'[r]
  BY <1>0, <1>2
<1>3. CASE \E a \in Agents : AgentStep(a)
  <2>1. PICK a \in Agents : AgentStep(a)
    BY <1>3
  <2>2. ASSUME NEW run \in Runs, NEW limit \in 1..MaxBatch, NEW wait \in BOOLEAN,
               \/ FirstNext(a, run, limit, wait) \/ RepeatNext(a, run, limit, wait)
               \/ Takeover(a, run, limit, wait)
        PROVE  leases[r] <= leases'[r]
    BY <1>1, <2>2 DEF FirstNext, RepeatNext, Takeover
  <2>3. ASSUME NEW wait \in BOOLEAN, Turn(a, wait)
        PROVE  leases[r] <= leases'[r]
    BY <1>1, <1>2, <2>3 DEF Turn
  <2>4. CASE WakeUp(a) \/ PollTimeout(a)
    BY <2>3, <2>4 DEF WakeUp, PollTimeout
  <2>5. CASE \/ \E q \in Requests, lease \in 0..MaxLeases, c \in Candidates :
                  Resolve(a, q, lease, c)
             \/ SchemaFails(a) \/ Accept(a) \/ Conflict(a) \/ Acknowledge(a)
             \/ AgentGone(a)
    BY <1>2, <2>5 DEF Resolve, SchemaFails, Accept, Conflict, Acknowledge, AgentGone
  <2>6. QED
    BY <2>1, <2>2, <2>4, <2>5 DEF AgentStep
<1>4. CASE (\E q \in Requests : Dispatch(q)) \/ (\E run \in Runs : RunStep(run))
           \/ Tick \/ UNCHANGED vars
  BY <1>2, <1>4 DEF Dispatch, Begin, Refuse, Insert, TakeCandidate, SeeDone,
     SeeContext, GiveUp, HandOver, Complete, Return, ReportOutcome, ContextDone,
     ContextWatcher, DeadlineTimer, RunStep, CancelRun, ForgetCancels,
     ForgetDeletes, Tick, vars
<1>5. QED
  BY <1>3, <1>4 DEF Next

\* Lease numbers only grow, and each is given out once.
LEMMA LeaseIssuedStep ==
    ASSUME TypeInv, PollersOwn, LeaseIssued, [Next]_vars, NEW r \in Requests
    PROVE  /\ entry'[r].lease <= leases'[r] /\ leases[r] <= leases'[r]
           /\ entry'[r].state = "leased" => entry'[r].lease > 0
           /\ entry'[r].lease \in {0, entry[r].lease} \/ entry'[r].lease > leases[r]
           /\ entry'[r].lease = entry[r].lease => entry'[r].epoch = entry[r].epoch
<1>1. EntryChange(r) /\ leases[r] <= leases'[r]
  BY EntryStep, LeasesGrow
<1>2. /\ leases[r] \in Nat /\ leases'[r] \in Nat
      /\ entry[r].lease \in Nat /\ entry'[r].lease \in Nat
  <2>1. TypeOK /\ TypeOK'
    BY TypeStep DEF TypeInv
  <2>2. entry[r] \in Entry /\ entry'[r] \in Entry
    BY <2>1 DEF TypeOK
  <2>3. QED
    BY <2>1, <2>2 DEF TypeOK, Entry
<1>3. entry[r].lease <= leases[r] /\ (entry[r].state = "leased" => entry[r].lease > 0)
  BY DEF LeaseIssued
<1>4. QED
  BY <1>1, <1>2, <1>3 DEF EntryChange, Untouched, Inserted, Ended, Confirmed, Leased,
     Released, Accepted, Taken, SameLease

LEMMA CallStep == TypeInv /\ PollersOwn /\ AnswerInv /\ CallInv /\ [Next]_vars => CallInv'
<1> SUFFICES ASSUME TypeInv, PollersOwn, AnswerInv, CallInv, [Next]_vars
             PROVE  CallInv'
  OBVIOUS
<1>1. LeaseIssued'
  BY LeaseIssuedStep DEF CallInv, LeaseIssued
<1>2. ASSUME NEW a \in Agents
      PROVE  /\ agent'[a].pc \in {"checking", "waiting"} => Digest[agent'[a].cand] # NoDigest
             /\ CheckerHolds(a)' /\ WaiterHolds(a)'
  <2>1. AgentChange(a)
    BY AgentStepChange
  <2>2. agent[a] \in Calls /\ agent'[a] \in Calls
    BY TypeStep DEF TypeInv, TypeOK
  <2>3. /\ agent[a].pc \in {"checking", "waiting"} => agent[a].req \in Requests
        /\ agent'[a].pc \in {"checking", "waiting"} => agent'[a].req \in Requests
    BY <2>2 DEF Calls, Idle, NextCall, ResolveCall
  <2>4. CheckerHolds(a) /\ WaiterHolds(a)
        /\ (agent[a].pc \in {"checking", "waiting"} => Digest[agent[a].cand] # NoDigest)
    BY DEF CallInv
  <2>5. CASE agent'[a].pc \notin {"checking", "waiting"}
    BY <2>5 DEF CheckerHolds, WaiterHolds
  <2>6. CASE agent'[a] = agent[a] /\ agent[a].pc = "checking"
    <3> DEFINE r == agent[a].req
    <3>1. r \in Requests
      BY <2>3, <2>6
    <3>2. /\ leases[r] <= leases'[r]
          /\ entry'[r].lease \in {0, entry[r].lease} \/ entry'[r].lease > leases[r]
          /\ entry'[r].lease = entry[r].lease => entry'[r].epoch = entry[r].epoch
      BY <3>1, LeaseIssuedStep DEF CallInv
    <3>3. leases[r] \in Nat /\ leases'[r] \in Nat /\ agent[a].lease \in Nat
      <4>1. agent[a] \in ResolveCall
        BY <2>2, <2>6 DEF Calls, Idle, NextCall
      <4>2. QED
        BY <3>1, <4>1, TypeStep DEF TypeInv, TypeOK, ResolveCall
    <3>4. QED
      BY <2>4, <2>6, <3>2, <3>3 DEF CheckerHolds, WaiterHolds
  <2>7. CASE agent'[a] = agent[a] /\ agent[a].pc = "waiting"
    <3> DEFINE r == agent[a].req
    <3>1. r \in Requests
      BY <2>3, <2>7
    <3>2. entry[r].hash # NoDigest
      BY <2>4, <2>7 DEF WaiterHolds
    <3>3. entry[r].state \notin {"none", "pending", "leased"} /\ DispatchKnows(r)
      BY <3>1, <3>2 DEF AnswerInv, AnswerOf
    <3>4. EntryChange(r)
      BY <3>1, EntryStep
    <3>5. entry'[r].hash = entry[r].hash /\ SameLease(r)
      BY <3>3, <3>4 DEF EntryChange, Untouched, Inserted, Ended, Confirmed, Leased,
         Released, Accepted, Taken, SameAnswer, LeaseHolds, DispatchKnows
    <3>6. QED
      BY <2>4, <2>7, <3>5 DEF SameLease, CheckerHolds, WaiterHolds
  <2>8. CASE Asks(a) /\ agent'[a].pc \in {"checking", "waiting"}
    <3>1. LeaseIssued
      BY DEF CallInv
    <3>2. agent'[a].req \in Requests
      BY <2>3, <2>8
    <3>3. QED
      BY <2>8, <3>1, <3>2 DEF Asks, LeaseIssued, CheckerHolds, WaiterHolds
  <2>9. CASE Answers(a)
    <3>1. agent[a] \in ResolveCall
      BY <2>2, <2>9 DEF Answers, Calls, Idle, NextCall
    <3>2. /\ agent'[a].pc = "waiting" /\ agent'[a].req = agent[a].req
          /\ agent'[a].cand = agent[a].cand /\ agent'[a].lease = agent[a].lease
          /\ agent'[a].owner = agent[a].owner
      BY <2>9, <3>1 DEF Answers, ResolveCall
    <3>3. /\ entry[agent[a].req].lease = agent[a].lease
          /\ entry[agent[a].req].epoch = agent[a].owner.epoch
          /\ Digest[agent[a].cand] # NoDigest
      BY <2>4, <2>9 DEF Answers, LeaseHolds, CheckerHolds
    <3>4. QED
      BY <2>9, <3>2, <3>3 DEF Answers, CheckerHolds, WaiterHolds
  <2>10. CASE Woken(a)
    <3>1. agent[a] \in NextCall
      BY <2>2, <2>10 DEF Woken, Calls, Idle, ResolveCall
    <3>2. agent'[a].pc = "woken"
      BY <2>10, <3>1 DEF Woken, NextCall
    <3>3. QED
      BY <2>5, <3>2
  <2>11. QED
    BY <2>1, <2>5, <2>6, <2>7, <2>8, <2>9, <2>10 DEF AgentChange, Idle, Polls
<1>3. QED
  BY <1>1, <1>2 DEF CallInv

\* Two agents may answer the same request at once, and the run may be forgotten
\* meanwhile: an agent that waits for an outcome waits for the outcome of its own
\* answer, given under the lease and the ownership it checked.
THEOREM WaiterCorrect == Spec => []WaiterOwnsAnswer
<1>1. CallInv => WaiterOwnsAnswer
  BY DEF CallInv, WaiterHolds, WaiterOwnsAnswer
<1>2. QED
  BY TypeInit, TypeStep, PollersOwnInit, PollersOwnStep, AnswerInit, AnswerStep,
     CallInit, CallStep, <1>1, PTL DEF Spec

-------------------------------------------------------------------------------
(* Owners.  LeaseOfPresentOwner is inductive given TypeInv and PollersOwn;   *)
(* the steps that matter are the three that change the owner of a run.       *)

\* After a pass a usable lease is an old one or one of the owner of the pass.
LEMMA PassLeases ==
    ASSUME NEW a, NEW run \in Runs, NEW o \in Owner, NEW limit, NEW wait,
           NEW es \in [Requests -> Entry], Pass(a, run, o, limit, wait, es),
           NEW r \in Requests, entry'[r].state \in {"leased", "resolving"}
    PROVE  \/ entry'[r] = es[r]
           \/ RunOf[r] = run /\ entry'[r].epoch = o.epoch
<1>1. PICK batch \in Batches(run, es, limit) :
         entry' = [q \in Requests |->
               CASE q \in Overdue(run, es) -> [es[q] EXCEPT !.state = "expired"]
                 [] q \in batch -> Lease(es[q], leases[q] + 1, o.epoch)
                 [] q \in Free(run, es) \ batch -> Release(es[q])
                 [] OTHER -> es[q]]
  BY DEF Pass
<1>2. batch \subseteq Free(run, es) /\ es[r] \in Entry
  BY DEF Batches
<1>3. CASE r \in Overdue(run, es)
  <2>1. r \notin Free(run, es)
    BY <1>3 DEF Free
  <2>2. entry'[r] = [es[r] EXCEPT !.state = "expired"]
    BY <1>1, <1>2, <1>3, <2>1
  <2>3. QED
    BY <1>2, <2>2 DEF Entry
<1>4. CASE r \in batch
  <2>1. r \notin Overdue(run, es) /\ RunOf[r] = run
    BY <1>2, <1>4 DEF Free, OfRun
  <2>2. entry'[r] = Lease(es[r], leases[r] + 1, o.epoch)
    BY <1>1, <1>4, <2>1
  <2>3. QED
    BY <1>2, <2>1, <2>2 DEF Lease, Entry
<1>5. CASE r \in Free(run, es) \ batch
  <2>1. entry'[r] = Release(es[r])
    BY <1>1, <1>5 DEF Free
  <2>2. QED
    BY <1>2, <2>1 DEF Release, Entry
<1>6. CASE r \notin Overdue(run, es) /\ r \notin Free(run, es)
  BY <1>1, <1>2, <1>6
<1>7. QED
  BY <1>2, <1>3, <1>4, <1>5, <1>6

LEMMA LeaseOwnerInit == Init => LeaseOfPresentOwner
  BY DEF Init, LeaseOfPresentOwner

LEMMA LeaseOwnerStep ==
    TypeInv /\ PollersOwn /\ LeaseOfPresentOwner /\ [Next]_vars => LeaseOfPresentOwner'
<1> SUFFICES ASSUME TypeInv, PollersOwn, LeaseOfPresentOwner, [Next]_vars
             PROVE  LeaseOfPresentOwner'
  OBVIOUS
<1>k. queue' \subseteq Requests
  BY TypeStep DEF TypeInv, TypeOK
<1> SUFFICES ASSUME NEW r \in Requests, r \in queue',
                    entry'[r].state \in {"leased", "resolving"}
             PROVE  /\ owners'[RunOf[r]] # NoOwner
                    /\ entry'[r].epoch = owners'[RunOf[r]].epoch
  BY <1>k DEF LeaseOfPresentOwner
<1>0. /\ entry \in [Requests -> Entry] /\ owners \in [Runs -> Owner]
      /\ RunOf[r] \in Runs
  BY DataAssumption DEF TypeInv, TypeOK
<1>1. EntryChange(r) /\ EntersOnlyByInsert(r)
  BY EntryStep
<1>2. r \in queue /\ entry[r].state \in {"leased", "resolving"} =>
        owners[RunOf[r]] # NoOwner /\ entry[r].epoch = owners[RunOf[r]].epoch
  BY DEF LeaseOfPresentOwner
<1>3. CASE owners' = owners
  <2>1. r \in queue
    BY <1>1 DEF EntersOnlyByInsert, Inserted
  <2>2. QED
    BY <1>1, <1>2, <1>3, <2>1 DEF EntryChange, Untouched, Inserted, Ended, Confirmed,
       Leased, Released, Accepted, Taken, SameLease, LeaseHolds
<1>4. ASSUME NEW a \in Agents, NEW run \in Runs, NEW limit \in 1..MaxBatch,
             NEW wait \in BOOLEAN, FirstNext(a, run, limit, wait)
      PROVE  /\ owners'[RunOf[r]] # NoOwner
             /\ entry'[r].epoch = owners'[RunOf[r]].epoch
  <2> DEFINE o == [token |-> issued[run] + 1, epoch |-> 1]
  <2>1. /\ owners' = [owners EXCEPT ![run] = o] /\ Pass(a, run, o, limit, wait, entry)
        /\ queue' = queue /\ owners[run] = NoOwner
    BY <1>4 DEF FirstNext
  <2>2. issued[run] \in Nat /\ issued[run] < MaxOwners
    BY <1>4 DEF FirstNext, TypeInv, TypeOK
  <2>3. o \in Owner /\ o # NoOwner
    BY <2>2, BoundsAssumption DEF Owner, NoOwner
  <2>4. CASE entry'[r] = entry[r]
    BY <1>0, <1>2, <2>1, <2>4
  <2>5. CASE RunOf[r] = run /\ entry'[r].epoch = o.epoch
    BY <1>0, <2>1, <2>3, <2>5
  <2>6. QED
    BY <1>0, <2>1, <2>3, <2>4, <2>5, PassLeases
<1>5. ASSUME NEW a \in Agents, NEW run \in Runs, NEW limit \in 1..MaxBatch,
             NEW wait \in BOOLEAN, Takeover(a, run, limit, wait)
      PROVE  /\ owners'[RunOf[r]] # NoOwner
             /\ entry'[r].epoch = owners'[RunOf[r]].epoch
  <2> DEFINE o == [token |-> issued[run] + 1, epoch |-> owners[run].epoch + 1]
             revoked == [q \in Requests |->
                IF q \in OfRun(run) /\ entry[q].state = "leased"
                THEN Release(entry[q]) ELSE entry[q]]
  <2>1. /\ owners' = [owners EXCEPT ![run] = o] /\ Pass(a, run, o, limit, wait, revoked)
        /\ queue' = queue /\ (r \in OfRun(run) => entry[r].state # "resolving")
    BY <1>5 DEF Takeover, OfRun
  <2>2. /\ issued[run] \in Nat /\ issued[run] < MaxOwners
        /\ owners[run].epoch \in Nat /\ owners[run].epoch <= issued[run]
    <3>1. owners[run] \in Owner /\ owners[run].epoch <= issued[run]
      BY <1>0 DEF TypeInv, OwnersIssued
    <3>2. issued[run] \in 0..MaxOwners /\ issued[run] < MaxOwners
      BY <1>5 DEF Takeover, TypeInv, TypeOK
    <3>3. QED
      BY <3>1, <3>2, BoundsAssumption DEF Owner
  <2>3. o \in Owner /\ o # NoOwner
    BY <2>2, BoundsAssumption DEF Owner, NoOwner
  <2>4. revoked \in [Requests -> Entry]
    BY <1>0, ReleaseType
  <2>5. CASE entry'[r] = revoked[r]
    <3>1. r \notin OfRun(run) \/ entry[r].state # "leased"
      BY <1>0, <2>5 DEF Release, Entry
    <3>2. entry'[r] = entry[r] /\ RunOf[r] # run
      BY <2>1, <2>5, <3>1 DEF OfRun
    <3>3. QED
      BY <1>0, <1>2, <2>1, <3>2
  <2>6. CASE RunOf[r] = run /\ entry'[r].epoch = o.epoch
    BY <1>0, <2>1, <2>3, <2>6
  <2>7. QED
    BY <2>1, <2>3, <2>4, <2>5, <2>6, PassLeases
<1>6. ASSUME NEW run \in Runs, ForgetDeletes(run)
      PROVE  /\ owners'[RunOf[r]] # NoOwner
             /\ entry'[r].epoch = owners'[RunOf[r]].epoch
  <2>1. r \in queue /\ RunOf[r] # run /\ entry' = entry
    BY <1>6 DEF ForgetDeletes, OfRun
  <2>2. QED
    BY <1>0, <1>2, <1>6, <2>1 DEF ForgetDeletes
<1>7. ASSUME NEW a \in Agents, AgentStep(a)
      PROVE  \/ owners' = owners
             \/ \E run \in Runs, limit \in 1..MaxBatch, wait \in BOOLEAN :
                   FirstNext(a, run, limit, wait) \/ Takeover(a, run, limit, wait)
  BY <1>7 DEF AgentStep, RepeatNext, WakeUp, PollTimeout, Resolve, SchemaFails,
     Accept, Conflict, Acknowledge, AgentGone
<1>8. CASE (\E q \in Requests : Dispatch(q)) \/ Tick \/ UNCHANGED vars
  BY <1>3, <1>8 DEF Dispatch, Begin, Refuse, Insert, TakeCandidate, SeeDone,
     SeeContext, GiveUp, HandOver, Complete, Return, ReportOutcome, ContextDone,
     ContextWatcher, DeadlineTimer, Tick, vars
<1>9. CASE \E run \in Runs : RunStep(run)
  BY <1>3, <1>6, <1>9 DEF RunStep, CancelRun, ForgetCancels
<1>10. CASE \E a \in Agents : AgentStep(a)
  BY <1>3, <1>4, <1>5, <1>7, <1>10
<1>11. QED
  BY <1>8, <1>9, <1>10 DEF Next

\* A run has one generating agent: whatever takeovers, expiries and Forget do,
\* every usable lease and every answer in flight belongs to the present owner.
THEOREM LeaseCorrect == Spec => []LeaseOfPresentOwner
  BY TypeInit, TypeStep, PollersOwnInit, PollersOwnStep, LeaseOwnerInit,
     LeaseOwnerStep, PTL DEF Spec

-------------------------------------------------------------------------------
(* The lifecycle.  Seen from one request, a step of the queue leaves the     *)
(* stage, the answer and what was consumed, withdraws the request, or is its  *)
(* opening, acceptance, consumption or confirmation; the last four concern    *)
(* one request and leave the others alone.                                   *)

\* A request in the queue has an entry.
EntriesExist == \A r \in queue : entry[r].state # "none"

Still(r) ==
    /\ Stage(r)' = Stage(r)
    /\ entry'[r].candidate = entry[r].candidate
    /\ SameReceived(r)

Quits(r) ==
    /\ Stage(r) \in {"open", "accepted"} /\ Stage(r)' = "withdrawn"
    /\ entry'[r].candidate = entry[r].candidate
    /\ SameReceived(r)

LEMMA EntriesExistInit == Init => EntriesExist
  BY DEF Init, EntriesExist

LEMMA EntriesExistStep == TypeInv /\ PollersOwn /\ EntriesExist /\ [Next]_vars => EntriesExist'
<1> SUFFICES ASSUME TypeInv, PollersOwn, EntriesExist, [Next]_vars, NEW r \in queue'
             PROVE  entry'[r].state # "none"
  BY DEF EntriesExist
<1>1. r \in Requests
  BY TypeStep DEF TypeInv, TypeOK
<1>2. EntryChange(r) /\ EntersOnlyByInsert(r)
  BY <1>1, EntryStep
<1>3. CASE Inserted(r)
  BY <1>3 DEF Inserted
<1>4. CASE r \in queue /\ entry[r].state # "none"
  BY <1>2, <1>4 DEF EntryChange, Untouched, Inserted, Ended, Confirmed, Leased,
     Released, Accepted, Taken
<1>5. QED
  BY <1>2, <1>3, <1>4 DEF EntersOnlyByInsert, EntriesExist

\* Leases come and go inside the stage "open"; whatever ends a request withdraws it.
LEMMA CalmIsStill ==
    ASSUME TypeInv, EntriesExist, NEW r \in Requests, Calm(r), SameReceived(r)
    PROVE  Still(r) \/ Quits(r)
<1>1. entry[r].state \in States
  BY DEF TypeInv, TypeOK, Entry
<1>2. r \in queue => entry[r].state # "none"
  BY DEF EntriesExist
<1>3. CASE Untouched(r)
  BY <1>3 DEF Untouched, SameAnswer, Still, Stage
<1>4. CASE Ended(r)
  <2>1. entry[r].state \in {"pending", "leased", "resolving"}
    BY <1>1, <1>2, <1>4 DEF Ended, Unfinished, terminal, States
  <2>2. QED
    BY <1>4, <2>1 DEF Ended, SameAnswer, Quits, Stage
<1>5. CASE Leased(r) \/ Released(r)
  BY <1>5 DEF Leased, Released, SameAnswer, Still, Stage
<1>6. QED
  BY <1>3, <1>4, <1>5 DEF Calm

\* The five steps of the lifecycle, from what happens to one request and to the
\* others.
LEMMA Withdrawing ==
    ASSUME TypeInv, TypeInv', \A r \in Requests : Still(r) \/ Quits(r)
    PROVE  Lifecycle!Next
<1> DEFINE S == {r \in Requests : Quits(r)}
<1>2. Lifecycle!Withdraw(S)
  <2>1. ASSUME NEW r \in Requests
        PROVE  /\ Stage(r)' = IF r \in S THEN "withdrawn" ELSE Stage(r)
               /\ entry'[r].candidate = entry[r].candidate
               /\ received'[r] = received[r]
    BY DEF Still, Quits, SameReceived
  <2>2. \A r \in S : r \in Requests /\ Stage(r) \in {"open", "accepted"}
    BY DEF Quits
  <2>3. received' = received
    BY <2>1 DEF TypeInv, TypeOK
  <2> HIDE DEF S
  <2>4. QED
    BY <2>1, <2>2, <2>3 DEF Lifecycle!Withdraw
<1>3. S \in SUBSET Requests
  OBVIOUS
<1>4. QED
  BY <1>2, <1>3 DEF Lifecycle!Next

LEMMA Opening ==
    ASSUME TypeInv, TypeInv', NEW r \in Requests,
           \A q \in Requests : q # r => Still(q),
           Stage(r) = "absent", Stage(r)' = "open",
           entry'[r].candidate = entry[r].candidate, SameReceived(r)
    PROVE  Lifecycle!Next
<1>1. received' = received
  BY DEF Still, SameReceived, TypeInv, TypeOK
<1>2. Lifecycle!Open(r)
  BY <1>1 DEF Lifecycle!Open, Still
<1>3. QED
  BY <1>2 DEF Lifecycle!Next

LEMMA Accepting ==
    ASSUME TypeInv, TypeInv', NEW r \in Requests, NEW c \in Candidates,
           \A q \in Requests : q # r => Still(q),
           Stage(r) = "open", Stage(r)' = "accepted",
           entry'[r].candidate = c, SameReceived(r)
    PROVE  Lifecycle!Next
<1>1. received' = received
  BY DEF Still, SameReceived, TypeInv, TypeOK
<1>2. Lifecycle!Accept(r, c)
  BY <1>1 DEF Lifecycle!Accept, Still
<1>3. QED
  BY <1>2 DEF Lifecycle!Next

LEMMA Consuming ==
    ASSUME TypeInv, TypeInv', NEW r \in Requests,
           \A q \in Requests : q # r => Still(q),
           Stage(r)' = Stage(r), entry'[r].candidate = entry[r].candidate,
           entry[r].candidate # NoCandidate, received[r] = NoCandidate,
           received'[r] = entry[r].candidate
    PROVE  Lifecycle!Next
<1>1. received' = [received EXCEPT ![r] = entry[r].candidate]
  BY DEF Still, SameReceived, TypeInv, TypeOK
<1>2. Lifecycle!Consume(r)
  BY <1>1 DEF Lifecycle!Consume, Still
<1>3. QED
  BY <1>2 DEF Lifecycle!Next

LEMMA Confirming ==
    ASSUME TypeInv, TypeInv', NEW r \in Requests,
           \A q \in Requests : q # r => Still(q),
           Stage(r) = "accepted", Stage(r)' = "confirmed",
           entry'[r].candidate = entry[r].candidate, SameReceived(r),
           received[r] = entry[r].candidate
    PROVE  Lifecycle!Next
<1>1. received' = received
  BY DEF Still, SameReceived, TypeInv, TypeOK
<1>2. Lifecycle!Confirm(r)
  BY <1>1 DEF Lifecycle!Confirm, Still
<1>3. QED
  BY <1>2 DEF Lifecycle!Next

\* The steps that are about one request leave the entries of the others.
LEMMA OthersAlone ==
    ASSUME TypeInv, NEW q \in Requests, NEW r \in Requests, r # q,
           \/ Insert(q) \/ TakeCandidate(q) \/ ReportOutcome(q)
           \/ \E a \in Agents : Accept(a) /\ agent[a].req = q
    PROVE  Still(r)
<1>1. entry \in [Requests -> Entry] /\ received \in [Requests -> Candidates \cup {NoCandidate}]
  BY DEF TypeInv, TypeOK
<1>2. entry'[r] = entry[r]
  BY <1>1 DEF Insert, TakeCandidate, ReportOutcome, Finish, Accept
<1>3. received'[r] = received[r]
  BY <1>1 DEF Insert, TakeCandidate, ReportOutcome, Accept
<1>4. QED
  BY <1>2, <1>3 DEF Still, SameReceived, Stage

\* Every step of a dispatch is one of the lifecycle.
LEMMA DispatchLifecycle ==
    ASSUME TypeInv, TypeInv', AnswerInv, EntriesExist, NEW q \in Requests, Dispatch(q)
    PROVE  Lifecycle!Next
<1>1. \A r \in Requests : DispatchEntry(q, r)
  BY DispatchEntries
<1>2. DispatchKnows(q) /\ AnswerOf(q)
  BY DEF AnswerInv
<1>3. CASE Insert(q) \/ TakeCandidate(q) \/ ReportOutcome(q)
  <2>1. \A r \in Requests : r # q => Still(r)
    BY <1>3, OthersAlone
  <2>2. CASE Calm(q) /\ SameReceived(q)
    <3>1. Still(q) \/ Quits(q)
      BY <2>2, CalmIsStill
    <3>2. QED
      BY <2>1, <3>1, Withdrawing
  <2>3. CASE Inserted(q) /\ SameReceived(q)
    <3>1. Stage(q) = "absent" /\ Stage(q)' = "open"
          /\ entry'[q].candidate = entry[q].candidate
      BY <1>2, <2>3 DEF Inserted, DispatchKnows, SameAnswer, Stage
    <3>2. QED
      BY <2>1, <2>3, <3>1, Opening
  <2>4. CASE Confirmed(q) /\ SameReceived(q)
    <3>1. Stage(q) = "accepted" /\ Stage(q)' = "confirmed"
          /\ entry'[q].candidate = entry[q].candidate
      BY <2>4 DEF Confirmed, SameAnswer, Stage
    <3>2. received[q] = entry[q].candidate
      BY <1>2, <2>4 DEF Confirmed, DispatchKnows, AnswerOf
    <3>3. QED
      BY <2>1, <2>4, <3>1, <3>2, Confirming
  <2>5. CASE Taken(q)
    <3>1. Stage(q)' = Stage(q) /\ entry'[q].candidate = entry[q].candidate
      BY <2>5 DEF Taken, Stage
    <3>2. /\ entry[q].delivery # NoCandidate /\ entry[q].delivery = entry[q].candidate
          /\ received[q] = NoCandidate /\ received'[q] = entry[q].candidate
      BY <1>2, <2>5 DEF Taken, DispatchKnows, AnswerOf
    <3>3. QED
      BY <2>1, <3>1, <3>2, Consuming
  <2>6. QED
    BY <1>1, <2>2, <2>3, <2>4, <2>5 DEF DispatchEntry
<1>4. CASE ~(Insert(q) \/ TakeCandidate(q) \/ ReportOutcome(q))
  <2>1. \/ caller' = caller
        \/ caller \in [Requests -> CallerStates] /\ \E s \in CallerStates :
              /\ caller' = [caller EXCEPT ![q] = s]
              /\ <<caller[q], s>> \notin {<<"entering", "waiting">>, <<"waiting", "got">>,
                                          <<"filled", "confirmed">>}
    BY <1>4 DEF Dispatch, Begin, Refuse, SeeDone, SeeContext, GiveUp, HandOver, Complete,
       Return, ContextDone, ContextWatcher, DeadlineTimer, CallerStates, TypeInv, TypeOK
  <2>2. ~Inserted(q) /\ ~Confirmed(q) /\ ~Taken(q)
    BY <2>1 DEF Inserted, Confirmed, Taken
  <2>3. \A r \in Requests : Calm(r) /\ SameReceived(r)
    BY <1>1, <2>2 DEF DispatchEntry
  <2>4. QED
    BY <2>3, CalmIsStill, Withdrawing
<1>5. QED
  BY <1>3, <1>4

\* Every step of an agent is one of the lifecycle.
LEMMA AgentLifecycle ==
    ASSUME TypeInv, TypeInv', PollersOwn, EntriesExist, NEW a \in Agents, AgentStep(a)
    PROVE  Lifecycle!Next
<1>1. \A r \in Requests : AgentEntry(a, r) /\ received' = received
  BY AgentEntries
<1>2. \A r \in Requests : SameReceived(r)
  BY <1>1 DEF SameReceived
<1>3. CASE \A r \in Requests : Calm(r)
  BY <1>2, <1>3, CalmIsStill, Withdrawing
<1>4. CASE \E r \in Requests : agent[a].req = r /\ Accept(a) /\ Accepted(r)
  <2>1. PICK r \in Requests : agent[a].req = r /\ Accept(a) /\ Accepted(r)
    BY <1>4
  <2>2. \A q \in Requests : q # r => Still(q)
    BY <2>1, OthersAlone
  <2>3. PICK c \in Candidates :
          /\ entry[r].state = "leased" /\ entry'[r].state = "resolving"
          /\ entry'[r].candidate = c
    BY <2>1 DEF Accepted, LeaseHolds
  <2>4. Stage(r) = "open" /\ Stage(r)' = "accepted"
    BY <2>3 DEF Stage
  <2>5. QED
    BY <1>2, <2>2, <2>3, <2>4, Accepting
<1>5. QED
  BY <1>1, <1>3, <1>4 DEF AgentEntry

\* The queue implements the lifecycle of a request: whatever leases, takeovers,
\* expiries, cancellations and Forget do in between, at most one answer is ever
\* accepted for a request and never replaced, the application consumes only
\* that answer and only once, a request that ended stays as it ended, and it is
\* confirmed only after the application consumed the answer.
THEOREM LifecycleImplemented == Spec => ImplementsLifecycle
<1> DEFINE Inv == TypeInv /\ PollersOwn /\ AnswerInv /\ EntriesExist
<1>1. Init => Inv /\ Lifecycle!Init
  <2>1. Init => Inv
    BY TypeInit, PollersOwnInit, AnswerInit, EntriesExistInit
  <2>2. Init => Lifecycle!Init
    BY DEF Init, Lifecycle!Init, Stage, NoEntry
  <2>3. QED
    BY <2>1, <2>2
<1>2. Inv /\ [Next]_vars => Inv'
  BY TypeStep, PollersOwnStep, AnswerStep, EntriesExistStep
<1>3. ASSUME Inv, Inv', [Next]_vars
      PROVE  [Lifecycle!Next]_Lifecycle!vars
  <2>1. CASE \E q \in Requests : Dispatch(q)
    BY <1>3, <2>1, DispatchLifecycle
  <2>2. CASE \E a \in Agents : AgentStep(a)
    BY <1>3, <2>2, AgentLifecycle
  <2>3. CASE (\E run \in Runs : RunStep(run)) \/ Tick \/ UNCHANGED vars
    <3>1. \A r \in Requests : Calm(r) /\ SameReceived(r)
      BY <1>3, <2>3, OtherEntries DEF SameReceived
    <3>2. QED
      BY <1>3, <3>1, CalmIsStill, Withdrawing
  <2>4. QED
    BY <1>3, <2>1, <2>2, <2>3 DEF Next
<1> HIDE DEF Inv
<1>4. QED
  BY <1>1, <1>2, <1>3, PTL DEF Spec, ImplementsLifecycle, Lifecycle!Spec

-------------------------------------------------------------------------------
(* Wake-ups.  That no Next of the present owner sleeps through a new request   *)
(* is inductive once a sleeping call is known to hold a token the run was      *)
(* issued: a new owner then has a token nobody sleeps with.  A request that    *)
(* was leased once keeps the epoch of that lease and is not new any more.      *)

SleepersIssued ==
    \A a \in Agents : agent[a].pc \in {"polling", "woken"} =>
        agent[a].owner.token <= issued[agent[a].run]

\* An owner has an epoch, which marks what it leased.
OwnersStarted == \A n \in Runs : owners[n] = NoOwner \/ owners[n].epoch >= 1

New(r) == entry[r].state = "pending" /\ entry[r].epoch = 0

TokensIssued == \A n \in Runs : owners[n].token <= issued[n]

WakeInv == SleepersIssued /\ TokensIssued /\ OwnersStarted /\ NewRequestWakesOwner

LEMMA WakeInit == Init => WakeInv
  BY DEF Init, WakeInv, SleepersIssued, TokensIssued, OwnersStarted, NewRequestWakesOwner, Idle, NoOwner

\* A request is new only by Insert, which signals.
LEMMA NewIsInserted ==
    ASSUME TypeInv, PollersOwn, AnswerInv, OwnersStarted, LeaseOfPresentOwner,
           [Next]_vars, NEW r \in queue', New(r)'
    PROVE  Inserted(r) \/ (r \in queue /\ New(r))
<1>1. r \in Requests
  BY TypeStep DEF TypeInv, TypeOK
<1>2. EntryChange(r) /\ EntersOnlyByInsert(r)
  BY <1>1, EntryStep
<1>3. CASE r \in queue
  <2>1. entry[r].state = "leased" => entry[r].epoch # 0
    <3>1. RunOf[r] \in Runs
      BY <1>1, DataAssumption
    <3>2. QED
      BY <1>3, <3>1 DEF LeaseOfPresentOwner, OwnersStarted
  <2>2. QED
    BY <1>2, <1>3, <2>1 DEF New, EntryChange, Untouched, Ended, Confirmed, Leased,
       Released, Accepted, Taken, SameLease
<1>4. QED
  BY <1>2, <1>3 DEF EntersOnlyByInsert

\* A pass puts its agent to sleep only if it leaves no new request in the run.
LEMMA SleepsOnNothing ==
    ASSUME TypeInv, NEW a \in Agents, NEW run \in Runs, NEW o,
           NEW limit \in 1..MaxBatch, NEW wait \in BOOLEAN,
           NEW es \in [Requests -> Entry], Pass(a, run, o, limit, wait, es),
           agent'[a].pc = "polling", NEW r \in queue, RunOf[r] = run
    PROVE  entry'[r].state # "pending"
<1>0. agent \in [Agents -> Calls] /\ Signal(agent) \in [Agents -> Calls]
      /\ r \in Requests /\ es[r] \in Entry
  BY SignalType DEF TypeInv, TypeOK
<1>1. PICK batch \in Batches(run, es, limit) :
         /\ entry' = [q \in Requests |->
               CASE q \in Overdue(run, es) -> [es[q] EXCEPT !.state = "expired"]
                 [] q \in batch -> Lease(es[q], leases[q] + 1, o.epoch)
                 [] q \in Free(run, es) \ batch -> Release(es[q])
                 [] OTHER -> es[q]]
         /\ agent' = [(IF Overdue(run, es) = {} THEN agent ELSE Signal(agent))
               EXCEPT ![a] = IF wait /\ batch = {}
                             THEN [pc |-> "polling", run |-> run, owner |-> o,
                                   limit |-> limit]
                             ELSE Idle]
  BY DEF Pass
<1>2. batch = {}
  BY <1>0, <1>1 DEF Idle
<1>3. Free(run, es) = {}
  <2>1. Cardinality({}) = 0 /\ limit > 0
    BY FS_EmptySet
  <2>2. QED
    BY <1>1, <1>2, <2>1 DEF Batches
<1>4. CASE r \in Overdue(run, es)
  <2>1. entry'[r] = [es[r] EXCEPT !.state = "expired"]
    BY <1>0, <1>1, <1>2, <1>3, <1>4
  <2>2. QED
    BY <1>0, <2>1 DEF Entry
<1>5. CASE r \notin Overdue(run, es)
  <2>1. entry'[r] = es[r]
    BY <1>0, <1>1, <1>2, <1>3, <1>5
  <2>2. QED
    BY <1>3, <1>5, <2>1 DEF Free, OfRun
<1>6. QED
  BY <1>4, <1>5

\* What a step does to the sleep of an agent: it goes on, or it begins with a
\* pass of that agent for the present owner.
Sleeps(a) == agent[a].pc = "polling" /\ agent'[a] = agent[a]

FallsAsleep(a) ==
    /\ \A r \in queue' : RunOf[r] = agent'[a].run => entry'[r].state # "pending"
    /\ agent'[a].owner = owners'[agent'[a].run]

LEMMA WokenCall ==
    ASSUME agent \in [Agents -> Calls], NEW a \in Agents, Woken(a)
    PROVE  /\ agent'[a].pc = "woken" /\ agent'[a].run = agent[a].run
           /\ agent'[a].owner = agent[a].owner
<1>1. agent[a] \in NextCall
  BY DEF Woken, Calls, Idle, ResolveCall
<1>2. QED
  BY <1>1 DEF Woken, NextCall

LEMMA PassSleep ==
    ASSUME TypeInv, NEW a \in Agents, NEW run \in Runs, NEW o,
           NEW limit \in 1..MaxBatch, NEW wait \in BOOLEAN,
           NEW es \in [Requests -> Entry], Pass(a, run, o, limit, wait, es),
           queue' = queue, owners'[run] = o,
           NEW b \in Agents, agent'[b].pc \in {"polling", "woken"}
    PROVE  \/ b # a /\ (Sleeps(b) \/ agent'[b].pc = "woken")
           \/ b = a /\ FallsAsleep(a) /\ agent'[a].run = run
<1>0. agent \in [Agents -> Calls] /\ Signal(agent) \in [Agents -> Calls]
  BY SignalType DEF TypeInv, TypeOK
<1>1. PICK batch :
        agent' = [(IF Overdue(run, es) = {} THEN agent ELSE Signal(agent))
              EXCEPT ![a] = IF wait /\ batch = {}
                            THEN [pc |-> "polling", run |-> run, owner |-> o,
                                  limit |-> limit]
                            ELSE Idle]
  BY DEF Pass
<1>2. CASE b = a
  <2>1. agent'[a] = [pc |-> "polling", run |-> run, owner |-> o, limit |-> limit]
    BY <1>0, <1>1, <1>2 DEF Idle
  <2>2. agent'[a].pc = "polling" /\ agent'[a].run = run /\ agent'[a].owner = o
    BY <2>1
  <2>3. \A r \in queue' : RunOf[r] = run => entry'[r].state # "pending"
    BY <2>2, SleepsOnNothing
  <2>4. QED
    BY <1>2, <2>2, <2>3 DEF FallsAsleep
<1>3. CASE b # a
  <2>1. agent'[b] \in {agent[b], Signal(agent)[b]}
    BY <1>0, <1>1, <1>3
  <2>2. CASE agent'[b] = agent[b]
    BY <1>3, <2>2 DEF Sleeps
  <2>3. CASE Woken(b)
    BY <1>0, <1>3, <2>3, WokenCall
  <2>4. QED
    BY <2>1, <2>2, <2>3 DEF Signal, Woken
<1>4. QED
  BY <1>2, <1>3

\* The sleep of an agent in a step of an agent.
LEMMA AgentSleep ==
    ASSUME TypeInv, PollersOwn, NEW a \in Agents, AgentStep(a),
           NEW b \in Agents, agent'[b].pc \in {"polling", "woken"}
    PROVE  \/ agent'[b] = agent[b] \/ Woken(b)
           \/ FallsAsleep(b) /\ agent'[b].run \in Runs
<1>0. /\ agent \in [Agents -> Calls] /\ Signal(agent) \in [Agents -> Calls]
      /\ entry \in [Requests -> Entry] /\ owners \in [Runs -> Owner]
      /\ issued \in [Runs -> 0..MaxOwners]
  BY SignalType DEF TypeInv, TypeOK
<1> DEFINE Goal == \/ agent'[b] = agent[b] \/ Woken(b)
                   \/ FallsAsleep(b) /\ agent'[b].run \in Runs
<1>1. ASSUME NEW run \in Runs, NEW o, NEW limit \in 1..MaxBatch, NEW wait \in BOOLEAN,
             NEW es \in [Requests -> Entry], Pass(a, run, o, limit, wait, es),
             queue' = queue, owners'[run] = o
      PROVE  Goal
  <2>1. b = a => FallsAsleep(a) /\ agent'[a].run = run
    BY <1>1, PassSleep
  <2>2. CASE b # a
    <3>1. agent'[b] \in {agent[b], Signal(agent)[b]}
      BY <1>0, <1>1, <2>2 DEF Pass
    <3>2. QED
      BY <3>1 DEF Signal, Woken
  <2>3. QED
    BY <2>1, <2>2
<1>2. ASSUME NEW run \in Runs, NEW limit \in 1..MaxBatch, NEW wait \in BOOLEAN,
             FirstNext(a, run, limit, wait)
      PROVE  Goal
  <2> DEFINE o == [token |-> issued[run] + 1, epoch |-> 1]
  <2>1. Pass(a, run, o, limit, wait, entry) /\ owners'[run] = o /\ queue' = queue
    BY <1>0, <1>2 DEF FirstNext
  <2> HIDE DEF o, Goal
  <2>2. QED
    BY <1>0, <1>1, <2>1
<1>3. ASSUME NEW run \in Runs, NEW limit \in 1..MaxBatch, NEW wait \in BOOLEAN,
             RepeatNext(a, run, limit, wait)
      PROVE  Goal
  <2>1. Pass(a, run, owners[run], limit, wait, entry) /\ owners'[run] = owners[run]
        /\ queue' = queue
    BY <1>3 DEF RepeatNext
  <2> HIDE DEF Goal
  <2>2. QED
    BY <1>0, <1>1, <2>1
<1>4. ASSUME NEW run \in Runs, NEW limit \in 1..MaxBatch, NEW wait \in BOOLEAN,
             Takeover(a, run, limit, wait)
      PROVE  Goal
  <2> DEFINE o == [token |-> issued[run] + 1, epoch |-> owners[run].epoch + 1]
             revoked == [q \in Requests |->
                IF q \in OfRun(run) /\ entry[q].state = "leased"
                THEN Release(entry[q]) ELSE entry[q]]
  <2>1. Pass(a, run, o, limit, wait, revoked) /\ owners'[run] = o /\ queue' = queue
    BY <1>0, <1>4 DEF Takeover
  <2>2. revoked \in [Requests -> Entry]
    BY <1>0, ReleaseType
  <2> HIDE DEF o, revoked, Goal
  <2>3. QED
    BY <1>1, <2>1, <2>2
<1>5. ASSUME NEW wait \in BOOLEAN, agent[a].pc \in {"polling", "woken"},
             Turn(a, wait), owners' = owners, queue' = queue
      PROVE  Goal
  <2>1. agent[a].run \in Runs /\ agent[a].limit \in 1..MaxBatch
    BY <1>0, <1>5 DEF Calls, Idle, ResolveCall, NextCall
  <2>2. CASE agent' = [agent EXCEPT ![a] = Idle]
    BY <1>0, <2>2 DEF Idle
  <2>3. CASE Pass(a, agent[a].run, agent[a].owner, agent[a].limit, wait, entry)
             /\ owners[agent[a].run] = agent[a].owner
    <3> HIDE DEF Goal
    <3>1. QED
      BY <1>0, <1>1, <1>5, <2>1, <2>3
  <2>4. QED
    BY <1>5, <2>2, <2>3 DEF Turn
<1>6. ASSUME WakeUp(a) \/ PollTimeout(a)
      PROVE  Goal
  <2>1. PICK wait \in BOOLEAN : Turn(a, wait)
    BY <1>6 DEF WakeUp, PollTimeout
  <2>2. agent[a].pc \in {"polling", "woken"} /\ owners' = owners /\ queue' = queue
    BY <1>6 DEF WakeUp, PollTimeout
  <2> HIDE DEF Goal
  <2>3. QED
    BY <1>5, <2>1, <2>2
<1>7. ASSUME NEW r \in Requests, NEW lease \in 0..MaxLeases, NEW c \in Candidates,
             Resolve(a, r, lease, c)
      PROVE  Goal
  <2>1. PICK pc \in {"checking", "waiting"} :
          agent' = [agent EXCEPT ![a] =
                [pc |-> pc, req |-> r, owner |-> owners[RunOf[r]],
                 lease |-> lease, cand |-> c]]
    BY <1>7 DEF Resolve
  <2>2. QED
    BY <1>0, <2>1
<1>8. ASSUME Accept(a)
      PROVE  Goal
  <2>1. agent' = [Signal(agent) EXCEPT ![a].pc = "waiting"] /\ agent[a].pc = "checking"
    BY <1>8 DEF Accept
  <2>2. CASE b = a
    <3>1. agent[a] \in ResolveCall /\ Signal(agent)[a] = agent[a]
      BY <1>0, <2>1 DEF Calls, Idle, NextCall, Signal
    <3>2. agent'[a].pc = "waiting"
      BY <1>0, <2>1, <3>1 DEF ResolveCall
    <3>3. QED
      BY <2>2, <3>2
  <2>3. CASE b # a
    BY <1>0, <2>1, <2>3 DEF Signal, Woken
  <2>4. QED
    BY <2>2, <2>3
<1>9. ASSUME SchemaFails(a) \/ Conflict(a) \/ Acknowledge(a) \/ AgentGone(a)
      PROVE  Goal
  BY <1>0, <1>9 DEF SchemaFails, Conflict, Acknowledge, AgentGone, Idle
<1> HIDE DEF Goal
<1>10. Goal
  BY <1>2, <1>3, <1>4, <1>6, <1>7, <1>8, <1>9 DEF AgentStep
<1>11. QED
  BY <1>10 DEF Goal

\* The sleep of an agent in any step.
LEMMA SleepStep ==
    ASSUME TypeInv, PollersOwn, [Next]_vars,
           NEW b \in Agents, agent'[b].pc \in {"polling", "woken"}
    PROVE  \/ agent'[b] = agent[b] \/ Woken(b)
           \/ FallsAsleep(b) /\ agent'[b].run \in Runs
<1>1. CASE \E a \in Agents : AgentStep(a)
  BY <1>1, AgentSleep
<1>2. CASE (\E r \in Requests : Dispatch(r)) \/ (\E run \in Runs : RunStep(run))
           \/ Tick \/ UNCHANGED vars
  <2>1. agent' = agent \/ agent' = Signal(agent)
    BY <1>2 DEF Dispatch, Begin, Refuse, Insert, TakeCandidate, SeeDone, SeeContext,
       GiveUp, HandOver, Complete, Return, ReportOutcome, ContextDone, ContextWatcher,
       DeadlineTimer, CancelRequest, Finish, RunStep, CancelRun, ForgetCancels,
       ForgetDeletes, Tick, vars
  <2>2. QED
    BY <2>1 DEF Signal, Woken
<1>3. QED
  BY <1>1, <1>2 DEF Next

\* What a step does to the owner of a run: it stays, Forget drops it, or a new one
\* gets a token that was never issued.
LEMMA OwnerStep ==
    ASSUME TypeInv, [Next]_vars, NEW n \in Runs
    PROVE  \/ owners'[n] = owners[n] /\ issued'[n] = issued[n]
           \/ owners'[n] = NoOwner /\ issued'[n] = issued[n]
           \/ /\ issued'[n] = issued[n] + 1 /\ owners'[n].token = issued'[n]
              /\ owners'[n].epoch >= 1
<1>0. /\ owners \in [Runs -> Owner] /\ issued \in [Runs -> 0..MaxOwners]
      /\ owners[n].epoch \in Nat
  BY DEF TypeInv, TypeOK, Owner
<1>1. ASSUME NEW a \in Agents, AgentStep(a)
      PROVE  \/ owners'[n] = owners[n] /\ issued'[n] = issued[n]
             \/ /\ issued'[n] = issued[n] + 1 /\ owners'[n].token = issued'[n]
                /\ owners'[n].epoch >= 1
  <2>1. ASSUME NEW run \in Runs, NEW limit \in 1..MaxBatch, NEW wait \in BOOLEAN,
               FirstNext(a, run, limit, wait) \/ Takeover(a, run, limit, wait)
        PROVE  \/ owners'[n] = owners[n] /\ issued'[n] = issued[n]
               \/ /\ issued'[n] = issued[n] + 1 /\ owners'[n].token = issued'[n]
                  /\ owners'[n].epoch >= 1
    <3>1. issued' = [issued EXCEPT ![run] = @ + 1]
      BY <2>1 DEF FirstNext, Takeover
    <3>2. \/ owners' = [owners EXCEPT ![run] = [token |-> issued[run] + 1, epoch |-> 1]]
          \/ owners' = [owners EXCEPT ![run] =
                           [token |-> issued[run] + 1, epoch |-> owners[run].epoch + 1]]
      BY <2>1 DEF FirstNext, Takeover
    <3>3. CASE n = run
      <4>1. owners'[n].token = issued[n] + 1
            /\ owners'[n].epoch \in {1, owners[n].epoch + 1} /\ issued'[n] = issued[n] + 1
        BY <1>0, <3>1, <3>2, <3>3
      <4>2. QED
        BY <1>0, <4>1
    <3>4. CASE n # run
      BY <1>0, <3>1, <3>2, <3>4
    <3>5. QED
      BY <3>3, <3>4
  <2>2. CASE owners' = owners /\ issued' = issued
    BY <2>2
  <2>3. QED
    BY <1>1, <2>1, <2>2 DEF AgentStep, RepeatNext, WakeUp, PollTimeout, Resolve,
       SchemaFails, Accept, Conflict, Acknowledge, AgentGone
<1>2. CASE \E run \in Runs : RunStep(run)
  BY <1>0, <1>2 DEF RunStep, CancelRun, ForgetCancels, ForgetDeletes
<1>3. CASE (\E r \in Requests : Dispatch(r)) \/ Tick \/ UNCHANGED vars
  BY <1>3 DEF Dispatch, Begin, Refuse, Insert, TakeCandidate, SeeDone, SeeContext,
     GiveUp, HandOver, Complete, Return, ReportOutcome, ContextDone, ContextWatcher,
     DeadlineTimer, Tick, vars
<1>4. QED
  BY <1>1, <1>2, <1>3 DEF Next

\* Only Insert makes a dispatch wait, and Insert wakes whoever sleeps.
LEMMA InsertWakes ==
    ASSUME TypeInv, PollersOwn, [Next]_vars, NEW r \in Requests, Inserted(r), NEW a \in Agents
    PROVE  agent'[a].pc # "polling"
<1>1. caller[r] = "entering" /\ caller'[r] = "waiting" /\ caller \in [Requests -> CallerStates]
  BY DEF Inserted, TypeInv, TypeOK
<1>2. \A b \in Agents : AgentStep(b) => caller' = caller
  BY AgentEntries
<1>3. PICK q \in Requests : Dispatch(q)
  BY <1>1, <1>2 DEF Next, RunStep, CancelRun, ForgetCancels, ForgetDeletes, Tick, vars
<1>4. Insert(q)
  BY <1>1, <1>3 DEF Dispatch, Begin, Refuse, TakeCandidate, SeeDone, SeeContext, GiveUp,
     HandOver, Complete, Return, ReportOutcome, ContextDone, ContextWatcher, DeadlineTimer
<1>5. agent' = Signal(agent) /\ agent[a] \in Calls
  BY <1>4 DEF Insert, TypeInv, TypeOK
<1>6. CASE agent[a].pc = "polling"
  <2>1. agent[a] \in NextCall
    BY <1>5, <1>6 DEF Calls, Idle, ResolveCall
  <2>2. QED
    BY <1>5, <1>6, <2>1 DEF Signal, NextCall
<1>7. CASE agent[a].pc # "polling"
  BY <1>5, <1>7 DEF Signal
<1>8. QED
  BY <1>6, <1>7

LEMMA WakeStep ==
    ASSUME TypeInv, PollersOwn, AnswerInv, LeaseOfPresentOwner, WakeInv, [Next]_vars
    PROVE  WakeInv'
<1>0. /\ \A n \in Runs : issued[n] \in Nat /\ issued'[n] \in Nat /\ owners[n].token \in Nat
      /\ \A a \in Agents : agent[a].pc \in {"polling", "woken"} =>
            agent[a].run \in Runs /\ agent[a].owner.token \in Nat
  <2>1. /\ owners \in [Runs -> Owner] /\ issued \in [Runs -> 0..MaxOwners]
        /\ issued' \in [Runs -> 0..MaxOwners] /\ agent \in [Agents -> Calls]
    BY TypeStep DEF TypeInv, TypeOK
  <2>2. \A a \in Agents : agent[a].pc \in {"polling", "woken"} =>
            agent[a].run \in Runs /\ agent[a].owner \in Owner
    BY <2>1 DEF Calls, Idle, NextCall, ResolveCall
  <2>3. QED
    BY <2>1, <2>2 DEF Owner
<1>1. ASSUME NEW n \in Runs
      PROVE  /\ owners'[n].token <= issued'[n] /\ issued[n] <= issued'[n]
             /\ owners'[n] = NoOwner \/ owners'[n].epoch >= 1
             /\ \/ owners'[n] = owners[n] \/ owners'[n] = NoOwner
                \/ owners'[n].token > issued[n]
  <2>1. owners[n].token <= issued[n] /\ (owners[n] = NoOwner \/ owners[n].epoch >= 1)
    BY DEF WakeInv, TokensIssued, OwnersStarted
  <2>2. QED
    BY <1>0, <2>1, OwnerStep DEF NoOwner
<1>2. TokensIssued' /\ OwnersStarted'
  BY <1>1 DEF TokensIssued, OwnersStarted
<1>3. ASSUME NEW a \in Agents, agent'[a].pc \in {"polling", "woken"}
      PROVE  agent'[a].owner.token <= issued'[agent'[a].run]
  <2>1. CASE agent'[a] = agent[a] \/ Woken(a)
    <3>1. /\ agent[a].pc \in {"polling", "woken"} /\ agent'[a].run = agent[a].run
          /\ agent'[a].owner = agent[a].owner
      BY <1>3, <2>1, WokenCall DEF Woken, TypeInv, TypeOK
    <3>2. agent[a].owner.token <= issued[agent[a].run]
      BY <3>1 DEF WakeInv, SleepersIssued
    <3>3. QED
      BY <1>0, <1>1, <3>1, <3>2
  <2>2. CASE FallsAsleep(a) /\ agent'[a].run \in Runs
    BY <1>1, <2>2 DEF FallsAsleep
  <2>3. QED
    BY <1>3, <2>1, <2>2, SleepStep
<1>4. ASSUME NEW a \in Agents, NEW r \in queue', agent'[a].pc = "polling",
             agent'[a].owner = owners'[agent'[a].run], RunOf[r] = agent'[a].run
      PROVE  ~New(r)'
  <2>1. CASE agent'[a] = agent[a]
    <3> SUFFICES ASSUME New(r)'
                 PROVE  FALSE
      OBVIOUS
    <3>1. agent[a].owner = owners[agent[a].run]
      <4>1. /\ agent[a].owner # NoOwner /\ agent[a].run \in Runs
            /\ agent[a].owner.token <= issued[agent[a].run]
        BY <1>0, <1>4, <2>1 DEF PollersOwn, WakeInv, SleepersIssued
      <4>2. agent[a].owner.token \in Nat /\ issued[agent[a].run] \in Nat
        BY <1>0, <1>4, <2>1, <4>1
      <4>3. QED
        BY <1>1, <1>4, <2>1, <4>1, <4>2
    <3>2. r \in Requests
      BY TypeStep DEF TypeInv, TypeOK
    <3>3. ~Inserted(r)
      BY <1>4, <3>2, InsertWakes
    <3>4. r \in queue /\ New(r)
      BY <3>3, NewIsInserted DEF WakeInv
    <3>5. QED
      BY <1>4, <2>1, <3>1, <3>4 DEF WakeInv, NewRequestWakesOwner, New
  <2>2. CASE Woken(a)
    BY <1>4, <2>2, WokenCall DEF TypeInv, TypeOK
  <2>3. CASE FallsAsleep(a)
    BY <1>4, <2>3 DEF FallsAsleep, New
  <2>4. QED
    BY <1>4, <2>1, <2>2, <2>3, SleepStep
<1>5. SleepersIssued' /\ NewRequestWakesOwner'
  BY <1>3, <1>4 DEF SleepersIssued, NewRequestWakesOwner, New
<1>6. QED
  BY <1>2, <1>5 DEF WakeInv

\* No lost wake-up: however insertions, passes, takeovers and Forget interleave,
\* no Next of the present owner sleeps while a request nobody has leased waits.
THEOREM WakeUpCorrect == Spec => []NewRequestWakesOwner
<1> DEFINE Inv == TypeInv /\ PollersOwn /\ AnswerInv /\ LeaseOfPresentOwner /\ WakeInv
<1>1. Init => Inv
  BY TypeInit, PollersOwnInit, AnswerInit, LeaseOwnerInit, WakeInit
<1>2. Inv /\ [Next]_vars => Inv'
  BY TypeStep, PollersOwnStep, AnswerStep, LeaseOwnerStep, WakeStep
<1>3. Inv => NewRequestWakesOwner
  BY DEF WakeInv
<1> HIDE DEF Inv
<1>4. QED
  BY <1>1, <1>2, <1>3, PTL DEF Spec
===============================================================================
