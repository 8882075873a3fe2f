------------------------------ MODULE Environment ------------------------------
(***************************************************************************)
(* internal/app/service.go over RunManager: one environment, its bindings  *)
(* (internal/binding/manager.go), the one test run it supports, and the    *)
(* requests of the application, each of which is dispatched through a      *)
(* binding to its right plugin and may ask the generation queue for data.  *)
(*                                                                         *)
(* StartRun holds e.mu throughout.  The end of the run, the failure of a   *)
(* plugin, the observers of the requests and any number of calls of        *)
(* DestroyEnvironment run concurrently and take e.mu for a moment.         *)
(***************************************************************************)
EXTENDS RunManager, Naturals, Sequences, FiniteSets

CONSTANTS
    BindingSeq,              \* the bindings in the order of the environment
    Requests, BindingOf,     \* a request arrives at the left plugin of a binding
    TraceLimit,              \* events that fit into the trace of a run
    Destroyers,              \* bound: calls of DestroyEnvironment, or of Close, at a time
    MaxExits,                \* bound: plugins of a binding that exit by themselves
    NoRun

Bindings == {BindingSeq[i] : i \in DOMAIN BindingSeq}

ASSUME EnvironmentAssumption ==
    /\ BindingSeq \in Seq(Bindings)
    /\ BindingOf \in [Requests -> Bindings]
    /\ TraceLimit \in Nat /\ MaxExits \in Nat
    /\ NoRun \notin Runs

VARIABLES
    env,         \* runID, failure and destroyed; whether s.envs has it
    starting,    \* StartRun, which has e.mu: the run ID and the next binding
    finishing,   \* finishRun of the run
    destroying,  \* each call of DestroyEnvironment
    bind,        \* the entries of the binding manager
    gone,        \* the plugin processes of each binding that have exited
    watch,       \* the goroutine that watches the plugins of a binding
    disp,        \* dispatch and the observer of each request
    effects,     \* requests that took effect in the right plugin of a binding
    verified,    \* the effects that Verify saw
    trace,       \* the number of events in the trace of each run
    ids          \* the run IDs in use; their number bounds the calls of StartRun

vars == <<exec, env, starting, finishing, destroying, bind, gone, watch, disp,
          effects, verified, trace, ids>>

-------------------------------------------------------------------------------
MaybeRun == Runs \cup {NoRun}
Last == Len(BindingSeq)

NotStarting == [run |-> NoRun, at |-> 1]
Idle == [step |-> "none", pending |-> FALSE, ok |-> TRUE, at |-> 1]
NotDestroying == [step |-> "none", run |-> NoRun, at |-> 1]
Sides == {"left", "right"}

Init ==
    /\ RunInit
    /\ env = [run |-> NoRun, failure |-> FALSE, destroyed |-> FALSE, listed |-> TRUE]
    /\ starting = NotStarting
    /\ finishing = [r \in Runs |-> Idle]
    /\ destroying = [d \in Destroyers |-> NotDestroying]
    /\ bind = [b \in Bindings |-> [listed |-> TRUE, open |-> TRUE, run |-> NoRun]]
    /\ gone = [b \in Bindings |-> {}]
    /\ watch = [b \in Bindings |-> [step |-> "waiting", run |-> NoRun]]
    /\ disp = [q \in Requests |-> [at |-> "none", run |-> NoRun, owner |-> NoRun,
                                   err |-> FALSE, events |-> 0]]
    /\ effects = [b \in Bindings |-> {}]
    /\ verified = [b \in Bindings |-> {}]
    /\ trace = [r \in Runs |-> 0]
    /\ ids = {}

\* StartRun does not have e.mu.
Unlocked == starting.run = NoRun

\* A request is answered, which makes so many events.  The queue has it no longer.
Reply(q, err, events) ==
    [disp[q] EXCEPT !.at = "replied", !.owner = NoRun, !.err = err, !.events = events]

\* Queue.CancelRun: the requests of the run that wait for data get an error.
CancelRun(r) ==
    disp' = [q \in Requests |-> IF disp[q].at = "asking" /\ disp[q].owner = r
                                THEN Reply(q, TRUE, 1)
                                ELSE disp[q]]

\* Destroy of the binding manager deletes the entry under m.mu, if there is one, and
\* runs cleanup, which seals the binding and stops the left plugin and then the right one.
\* Whoever finds no entry returns at once.
Remove(b) == bind' = [bind EXCEPT ![b].listed = FALSE]
Seal(b) == bind' = [bind EXCEPT ![b].open = FALSE]
StopPlugins(b) == gone' = [gone EXCEPT ![b] = Sides]

-------------------------------------------------------------------------------
(* StartRun.                                                                *)

\* Mutant: the environment may be in destruction.
StartBegins_Destroyed(r) ==
    /\ r \notin ids /\ Unlocked
    /\ env.listed /\ env.run = NoRun
    /\ ids' = ids \cup {r}
    /\ starting' = [run |-> r, at |-> 1]
    /\ UNCHANGED <<exec, env, finishing, destroying, bind, gone, watch, disp, effects,
                   verified, trace>>

StartBegins(r) ==
    /\ r \notin ids /\ Unlocked
    /\ env.listed /\ ~env.destroyed /\ env.run = NoRun
    /\ ids' = ids \cup {r}
    /\ starting' = [run |-> r, at |-> 1]
    /\ UNCHANGED <<exec, env, finishing, destroying, bind, gone, watch, disp, effects,
                   verified, trace>>

\* A binding that is gone, or has a run, fails StartRun; those before it keep
\* the run ID.
AssignRun ==
    /\ ~Unlocked /\ starting.at <= Last
    /\ LET b == BindingSeq[starting.at]
       IN  IF bind[b].listed /\ bind[b].run = NoRun
           THEN /\ bind' = [bind EXCEPT ![b].run = starting.run]
                /\ starting' = [starting EXCEPT !.at = @ + 1]
           ELSE /\ starting' = NotStarting
                /\ UNCHANGED bind
    /\ UNCHANGED <<exec, env, finishing, destroying, gone, watch, disp, effects,
                   verified, trace, ids>>

\* The snapshot goes to the trace and the process starts.  Each may fail, and so
\* may the job's variables: the environment then has a run ID without a run.
StartCommits ==
    /\ ~Unlocked /\ starting.at > Last
    /\ env' = [env EXCEPT !.run = starting.run]
    /\ starting' = NotStarting
    /\ \/ /\ trace[starting.run] < TraceLimit
          /\ trace' = [trace EXCEPT ![starting.run] = @ + 1]
          /\ Start(starting.run) \/ UNCHANGED exec
       \/ UNCHANGED <<trace, exec>>
    /\ UNCHANGED <<finishing, destroying, bind, gone, watch, disp, effects, verified, ids>>

-------------------------------------------------------------------------------
(* Requests: dispatch of the binding manager, then observe().               *)

\* The left plugin calls dispatch, which checks that the binding is active.
Dispatch(q) ==
    LET b == BindingOf[q] IN
    /\ disp[q].at = "none"
    /\ bind[b].open /\ "left" \notin gone[b]
    /\ disp' = [disp EXCEPT ![q].at = "executing", ![q].run = bind[b].run]
    /\ UNCHANGED <<exec, env, starting, finishing, destroying, bind, gone, watch,
                   effects, verified, trace, ids>>

\* The right plugin executes a request unless it has exited.  The call may end first,
\* by the deadline, the client or the seal: the request may still take effect.
Execute(q) ==
    LET b == BindingOf[q] IN
    /\ disp[q].at = "executing"
    /\ \/ /\ "right" \notin gone[b]
          /\ effects' = [effects EXCEPT ![b] = @ \cup {q}]
          /\ \E err \in BOOLEAN : disp' = [disp EXCEPT ![q] = Reply(q, err, 1)]
       \/ /\ disp' = [disp EXCEPT ![q] = Reply(q, TRUE, 1)]
          /\ UNCHANGED effects
    /\ UNCHANGED <<exec, env, starting, finishing, destroying, bind, gone, watch,
                   verified, trace, ids>>

\* It lacks data: the strategy asks e.mu for the run and the queue for data.
Ask(q) ==
    /\ disp[q].at = "executing"
    /\ "right" \notin gone[BindingOf[q]]
    /\ Unlocked
    /\ disp' = [disp EXCEPT ![q] =
                  IF env.run = NoRun THEN Reply(q, TRUE, 1)
                  ELSE [@ EXCEPT !.at = "asking", !.owner = env.run]]
    /\ UNCHANGED <<exec, env, starting, finishing, destroying, bind, gone, watch,
                   effects, verified, trace, ids>>

\* An agent answers and Complete executes the request; or the context ends (the
\* deadline, the client, the seal), before Complete takes effect or after it.
Answered(q) ==
    LET b == BindingOf[q] IN
    /\ disp[q].at = "asking"
    /\ \/ /\ "right" \notin gone[b]
          /\ effects' = [effects EXCEPT ![b] = @ \cup {q}]
          /\ \E reply \in {Reply(q, FALSE, 1), Reply(q, FALSE, 2), Reply(q, TRUE, 1)} :
                disp' = [disp EXCEPT ![q] = reply]
       \/ /\ disp' = [disp EXCEPT ![q] = Reply(q, TRUE, 1)]
          /\ UNCHANGED effects
    /\ UNCHANGED <<exec, env, starting, finishing, destroying, bind, gone, watch,
                   verified, trace, ids>>

\* Mutant: only the trace learns of the failure.
Observe_Silent(q) ==
    /\ disp[q].at = "replied"
    /\ disp[q].run = NoRun \/ Unlocked
    /\ disp' = [disp EXCEPT ![q].at = IF disp[q].run = NoRun THEN "done" ELSE "tracing"]
    /\ UNCHANGED <<exec, env, starting, finishing, destroying, bind, gone, watch,
                   effects, verified, trace, ids>>

\* observe() up to the trace: the first failure of a request is the run's.
Observe(q) ==
    /\ disp[q].at = "replied"
    /\ \/ /\ disp[q].run = NoRun
          /\ disp' = [disp EXCEPT ![q].at = "done", ![q].events = 0]
          /\ UNCHANGED env
       \/ /\ disp[q].run # NoRun /\ Unlocked
          /\ env' = [env EXCEPT !.failure = @ \/ disp[q].err]
          /\ disp' = [disp EXCEPT ![q].at = "tracing"]
    /\ UNCHANGED <<exec, starting, finishing, destroying, bind, gone, watch, effects,
                   verified, trace, ids>>

\* Mutant: one event too many.
AppendTrace_OffByOne(q) ==
    LET r == disp[q].run IN
    /\ disp[q].at = "tracing"
    /\ \/ /\ disp[q].events = 0
          /\ disp' = [disp EXCEPT ![q].at = "done"]
          /\ UNCHANGED trace
       \/ /\ disp[q].events > 0 /\ trace[r] <= TraceLimit
          /\ disp' = [disp EXCEPT ![q].events = @ - 1]
          /\ trace' = [trace EXCEPT ![r] = @ + 1]
    /\ UNCHANGED <<exec, env, starting, finishing, destroying, bind, gone, watch,
                   effects, verified, ids>>

\* Mutant: an event that does not fit is tried again.
AppendTrace_Retries(q) ==
    LET r == disp[q].run IN
    /\ disp[q].at = "tracing"
    /\ \/ /\ disp[q].events = 0
          /\ disp' = [disp EXCEPT ![q].at = "done"]
          /\ UNCHANGED trace
       \/ /\ disp[q].events > 0 /\ trace[r] < TraceLimit
          /\ disp' = [disp EXCEPT ![q].events = @ - 1]
          /\ trace' = [trace EXCEPT ![r] = @ + 1]
    /\ UNCHANGED <<exec, env, starting, finishing, destroying, bind, gone, watch,
                   effects, verified, ids>>

\* The result goes to the trace and, if an agent gave the data, its capture.
AppendTrace(q) ==
    LET r == disp[q].run IN
    /\ disp[q].at = "tracing"
    /\ \/ /\ disp[q].events = 0
          /\ disp' = [disp EXCEPT ![q].at = "done"]
          /\ UNCHANGED trace
       \/ /\ disp[q].events > 0 /\ trace[r] < TraceLimit
          /\ disp' = [disp EXCEPT ![q].events = @ - 1]
          /\ trace' = [trace EXCEPT ![r] = @ + 1]
       \/ /\ disp[q].events > 0 /\ trace[r] >= TraceLimit
          /\ disp' = [disp EXCEPT ![q].events = @ - 1, ![q].at = "full"]
          /\ UNCHANGED trace
    /\ UNCHANGED <<exec, env, starting, finishing, destroying, bind, gone, watch,
                   effects, verified, ids>>

\* A full trace is a failure ...
TraceFails(q) ==
    /\ disp[q].at = "full" /\ Unlocked
    /\ env' = [env EXCEPT !.failure = TRUE]
    /\ disp' = [disp EXCEPT ![q].at = "aborting"]
    /\ UNCHANGED <<exec, starting, finishing, destroying, bind, gone, watch, effects,
                   verified, trace, ids>>

\* ... that cancels and aborts the run.
TraceAborts(q) ==
    /\ disp[q].at = "aborting"
    /\ disp' = [p \in Requests |->
                  IF p = q THEN [disp[p] EXCEPT !.at = "tracing"]
                  ELSE IF disp[p].at = "asking" /\ disp[p].owner = disp[q].run
                       THEN Reply(p, TRUE, 1)
                       ELSE disp[p]]
    /\ Abort(disp[q].run)
    /\ UNCHANGED <<env, starting, finishing, destroying, bind, gone, watch, effects,
                   verified, trace, ids>>

-------------------------------------------------------------------------------
(* The failure of a plugin.                                                 *)

PluginExits(b, side) ==
    /\ side \notin gone[b] /\ Cardinality(gone[b]) < MaxExits
    /\ gone' = [gone EXCEPT ![b] = @ \cup {side}]
    /\ UNCHANGED <<exec, env, starting, finishing, destroying, bind, watch, disp,
                   effects, verified, trace, ids>>

\* The watcher of a binding that was sealed or destroyed has nothing to do.
WatchEnds(b) ==
    /\ watch[b].step = "waiting"
    /\ \/ ~bind[b].open /\ watch' = [watch EXCEPT ![b].step = "ended"]
       \/ gone[b] # {} /\ bind[b].open /\ watch' = [watch EXCEPT ![b].step = "failed"]
    /\ UNCHANGED <<exec, env, starting, finishing, destroying, bind, gone, disp,
                   effects, verified, trace, ids>>

\* OnFailure under e.mu.
PluginFails(b) ==
    /\ watch[b].step = "failed" /\ Unlocked
    /\ env' = [env EXCEPT !.failure = TRUE]
    /\ watch' = [watch EXCEPT ![b] = [step |-> "aborting", run |-> env.run]]
    /\ UNCHANGED <<exec, starting, finishing, destroying, bind, gone, disp, effects,
                   verified, trace, ids>>

PluginAborts(b) ==
    /\ watch[b].step = "aborting"
    /\ watch' = [watch EXCEPT ![b] = [step |-> "destroying", run |-> NoRun]]
    /\ IF watch[b].run = NoRun THEN UNCHANGED <<disp, exec>>
       ELSE CancelRun(watch[b].run) /\ Abort(watch[b].run)
    /\ UNCHANGED <<env, starting, finishing, destroying, bind, gone, effects,
                   verified, trace, ids>>

\* Destroy, for the plugin that may be left.
PluginRemoved(b) ==
    /\ watch[b].step = "destroying"
    /\ IF bind[b].listed
       THEN Remove(b) /\ watch' = [watch EXCEPT ![b].step = "sealing"]
       ELSE watch' = [watch EXCEPT ![b].step = "ended"] /\ UNCHANGED bind
    /\ UNCHANGED <<exec, env, starting, finishing, destroying, gone, disp, effects,
                   verified, trace, ids>>

WatchSeals(b) ==
    /\ watch[b].step = "sealing"
    /\ watch' = [watch EXCEPT ![b].step = "stopping"]
    /\ Seal(b)
    /\ UNCHANGED <<exec, env, starting, finishing, destroying, gone, disp, effects,
                   verified, trace, ids>>

WatchStops(b) ==
    /\ watch[b].step = "stopping"
    /\ watch' = [watch EXCEPT ![b].step = "ended"]
    /\ StopPlugins(b)
    /\ UNCHANGED <<exec, env, starting, finishing, destroying, bind, disp, effects,
                   verified, trace, ids>>

-------------------------------------------------------------------------------
(* finishRun: count and cancel what is pending, read the failure, verify the *)
(* right plugins one by one, seal the bindings.                              *)

CountPending(r) ==
    /\ exec[r].place = "judged" /\ finishing[r].step = "none"
    /\ finishing' = [finishing EXCEPT ![r].step = "cancel",
                       ![r].pending = \E q \in Requests : disp[q].at = "asking"
                                                          /\ disp[q].owner = r]
    /\ UNCHANGED <<exec, env, starting, destroying, bind, gone, watch, disp, effects,
                   verified, trace, ids>>

CancelPending(r) ==
    /\ finishing[r].step = "cancel"
    /\ finishing' = [finishing EXCEPT ![r].step = "failure"]
    /\ CancelRun(r)
    /\ UNCHANGED <<exec, env, starting, destroying, bind, gone, watch, effects,
                   verified, trace, ids>>

ReadFailure(r) ==
    /\ finishing[r].step = "failure" /\ Unlocked
    /\ finishing' = [finishing EXCEPT ![r] = IF env.failure \/ @.pending
                       THEN [@ EXCEPT !.step = "seal", !.pending = FALSE, !.ok = FALSE]
                       ELSE [@ EXCEPT !.step = "verify"]]
    /\ UNCHANGED <<exec, env, starting, destroying, bind, gone, watch, disp, effects,
                   verified, trace, ids>>

\* A binding or a plugin that is gone, a full trace, a timeout or an expectation that
\* is not met fails the check.
Verify(r) ==
    LET b == BindingSeq[finishing[r].at] IN
    /\ finishing[r].step = "verify"
    /\ \/ /\ finishing[r].at > Last
          /\ finishing' = [finishing EXCEPT ![r].step = "seal"]
          /\ UNCHANGED <<verified, trace>>
       \/ /\ finishing[r].at <= Last
          /\ finishing' = [finishing EXCEPT ![r].step = "seal", ![r].ok = FALSE]
          /\ UNCHANGED <<verified, trace>>
       \/ /\ finishing[r].at <= Last
          /\ bind[b].listed /\ "right" \notin gone[b] /\ trace[r] < TraceLimit
          /\ verified' = [verified EXCEPT ![b] = effects[b]]
          /\ trace' = [trace EXCEPT ![r] = @ + 1]
          /\ finishing' = [finishing EXCEPT ![r].at = @ + 1]
    /\ UNCHANGED <<exec, env, starting, destroying, bind, gone, watch, disp, effects, ids>>

\* Seal, deferred until finishRun returns.
SealAndReturn(r) ==
    /\ finishing[r].step = "seal"
    /\ finishing' = [finishing EXCEPT ![r] = [Idle EXCEPT !.step = "returned"]]
    /\ bind' = [b \in Bindings |-> [bind[b] EXCEPT !.open = @ /\ ~bind[b].listed]]
    /\ Checked(r, finishing[r].ok)
    /\ UNCHANGED <<env, starting, destroying, gone, watch, disp, effects, verified,
                   trace, ids>>

-------------------------------------------------------------------------------
(* DestroyEnvironment.  Nothing keeps a second call, or Close, from doing the *)
(* same next to the first, nor the watcher of a binding from destroying it.   *)

\* getEnvironment has found the environment, which may be gone by now: the call may
\* have waited for e.mu since.
DestroyBegins(d) ==
    /\ destroying[d].step = "none" /\ Unlocked
    /\ env' = [env EXCEPT !.destroyed = TRUE]
    /\ destroying' = [destroying EXCEPT
                        ![d].step = IF env.run = NoRun THEN "bindings" ELSE "stop",
                        ![d].run = env.run]
    /\ UNCHANGED <<exec, starting, finishing, bind, gone, watch, disp, effects,
                   verified, trace, ids>>

DestroyStops(d) ==
    /\ destroying[d].step = "stop"
    /\ destroying' = [destroying EXCEPT ![d].step = "wait"]
    /\ CancelRun(destroying[d].run)
    /\ StopRun(destroying[d].run)
    /\ UNCHANGED <<env, starting, finishing, bind, gone, watch, effects, verified, trace, ids>>

\* Runs.Wait; a run that never started is not found, which is all right.  When
\* the caller's context ends first, the environment stays, to be destroyed again.
DestroyWaits(d) ==
    /\ destroying[d].step = "wait"
    /\ \/ /\ Ended(destroying[d].run)
          /\ destroying' = [destroying EXCEPT ![d].step = "bindings"]
       \/ /\ ~Ended(destroying[d].run)
          /\ destroying' = [destroying EXCEPT ![d] = NotDestroying]
    /\ UNCHANGED <<exec, env, starting, finishing, bind, gone, watch, disp, effects,
                   verified, trace, ids>>

\* Mutant: the entry goes, its plugins stay.
DestroyNextBinding_Deletes(d) ==
    /\ destroying[d].step = "bindings" /\ destroying[d].at <= Last
    /\ destroying' = [destroying EXCEPT ![d].at = @ + 1]
    /\ Remove(BindingSeq[destroying[d].at])
    /\ UNCHANGED <<exec, env, starting, finishing, gone, watch, disp, effects, verified,
                   trace, ids>>

\* A binding that somebody else has taken out is none of this call's business.
DestroyNextBinding(d) ==
    /\ destroying[d].step = "bindings" /\ destroying[d].at <= Last
    /\ LET b == BindingSeq[destroying[d].at]
       IN  IF bind[b].listed
           THEN Remove(b) /\ destroying' = [destroying EXCEPT ![d].step = "sealing"]
           ELSE destroying' = [destroying EXCEPT ![d].at = @ + 1] /\ UNCHANGED bind
    /\ UNCHANGED <<exec, env, starting, finishing, gone, watch, disp, effects, verified,
                   trace, ids>>

DestroySeals(d) ==
    /\ destroying[d].step = "sealing"
    /\ destroying' = [destroying EXCEPT ![d].step = "stopping"]
    /\ Seal(BindingSeq[destroying[d].at])
    /\ UNCHANGED <<exec, env, starting, finishing, gone, watch, disp, effects, verified,
                   trace, ids>>

DestroyStopsPlugins(d) ==
    /\ destroying[d].step = "stopping"
    /\ destroying' = [destroying EXCEPT ![d].step = "bindings", ![d].at = @ + 1]
    /\ StopPlugins(BindingSeq[destroying[d].at])
    /\ UNCHANGED <<exec, env, starting, finishing, bind, watch, disp, effects, verified,
                   trace, ids>>

\* Queue.Forget cancels what the queue still has of the run.
DestroyEnds(d) ==
    /\ destroying[d].step = "bindings" /\ destroying[d].at > Last
    /\ destroying' = [destroying EXCEPT ![d] = NotDestroying]
    /\ env' = [env EXCEPT !.listed = FALSE]
    /\ CancelRun(destroying[d].run)
    /\ UNCHANGED <<exec, starting, finishing, bind, gone, watch, effects, verified, trace, ids>>

-------------------------------------------------------------------------------
Job(r) ==
    /\ RunStep(r)
    /\ UNCHANGED <<env, starting, finishing, destroying, bind, gone, watch, disp,
                   effects, verified, trace, ids>>

Request(q) ==
    \/ Execute(q) \/ Ask(q) \/ Answered(q) \/ Observe(q)
    \/ AppendTrace(q) \/ TraceFails(q) \/ TraceAborts(q)
Watcher(b) ==
    \/ WatchEnds(b) \/ PluginFails(b) \/ PluginAborts(b)
    \/ PluginRemoved(b) \/ WatchSeals(b) \/ WatchStops(b)
FinishRun(r) ==
    \/ CountPending(r) \/ CancelPending(r) \/ ReadFailure(r) \/ Verify(r) \/ SealAndReturn(r)
StartRun == AssignRun \/ StartCommits
Destroy(d) ==
    \/ DestroyBegins(d) \/ DestroyStops(d) \/ DestroyWaits(d)
    \/ DestroyNextBinding(d) \/ DestroySeals(d) \/ DestroyStopsPlugins(d) \/ DestroyEnds(d)

Next ==
    \/ \E r \in Runs : StartBegins(r) \/ Job(r) \/ FinishRun(r)
    \/ StartRun
    \/ \E q \in Requests : Dispatch(q) \/ Request(q)
    \/ \E b \in Bindings : Watcher(b) \/ \E side \in Sides : PluginExits(b, side)
    \/ \E d \in Destroyers : Destroy(d)

Spec == Init /\ [][Next]_vars

\* What the goroutine of a run is waiting for happens: the signals end a process whose
\* context is done, and the checks end by their deadlines.
GoroutineOf(r) ==
    \/ /\ (exec[r].ctx # "live" /\ Exit(r)) \/ Judge(r) \/ Publish(r)
       /\ UNCHANGED <<env, starting, finishing, destroying, bind, gone, watch, disp,
                      effects, verified, trace, ids>>
    \/ FinishRun(r)

(* Fairness: goroutines that can run do, and calls end by their deadlines.     *)
(* The timeout of the job is not relied upon.                                  *)
Fairness ==
    /\ \A r \in Runs : WF_vars(GoroutineOf(r))
    /\ \A q \in Requests : WF_vars(Request(q))
    /\ WF_vars(StartRun)

FairSpec == Spec /\ Fairness

-------------------------------------------------------------------------------
(* Properties.                                                              *)

\* Every variable has its type, and no trace is longer than its limit.
TypeOK ==
    /\ exec \in [Runs -> Execution]
    /\ env \in [run : MaybeRun, failure : BOOLEAN, destroyed : BOOLEAN, listed : BOOLEAN]
    /\ starting \in [run : MaybeRun, at : 1..(Last + 1)]
    /\ finishing \in [Runs -> [step : {"none", "cancel", "failure", "verify", "seal",
                                       "returned"},
                               pending : BOOLEAN, ok : BOOLEAN, at : 1..(Last + 1)]]
    /\ destroying \in [Destroyers -> [step : {"none", "stop", "wait", "bindings",
                                              "sealing", "stopping"},
                                      run : MaybeRun, at : 1..(Last + 1)]]
    /\ bind \in [Bindings -> [listed : BOOLEAN, open : BOOLEAN, run : MaybeRun]]
    /\ gone \in [Bindings -> SUBSET Sides]
    /\ watch \in [Bindings -> [step : {"waiting", "failed", "aborting", "destroying",
                                       "sealing", "stopping", "ended"}, run : MaybeRun]]
    /\ disp \in [Requests -> [at : {"none", "executing", "asking", "replied", "tracing",
                                    "full", "aborting", "done"},
                              run : MaybeRun, owner : MaybeRun, err : BOOLEAN,
                              events : 0..2]]
    /\ effects \in [Bindings -> SUBSET Requests]
    /\ verified \in [Bindings -> SUBSET Requests]
    /\ trace \in [Runs -> 0..TraceLimit]
    /\ ids \subseteq Runs

\* A run whose application was given an error, of which a plugin failed, or that was
\* stopped or wrote too much, before its process ended never counts as succeeded.  One that the infrastructure
\* aborted is reported as failed, not as cancelled by its user or as timed out.
Spoiled(r) ==
    /\ exec[r].place = "running"
    /\ \/ exec[r].stopped \/ exec[r].exceeded
       \/ \E b \in Bindings : watch[b].step = "aborting" /\ watch[b].run \in {r, NoRun}
       \/ \E q \in Requests : disp[q].run = r /\ disp[q].at = "done" /\ disp[q].err

SpoiledRunFails ==
    \A r \in Runs :
        /\ [](Spoiled(r) => [](exec[r].status # "succeeded"))
        /\ [](exec[r].place = "running" /\ exec[r].aborted
              => [](exec[r].status \in {"running", "failed"}))

\* Somebody has taken the entry of a binding out and is going to stop its plugins.
CleanedUp(b) ==
    \/ watch[b].step \in {"sealing", "stopping"}
    \/ \E d \in Destroyers : /\ destroying[d].step \in {"sealing", "stopping"}
                            /\ BindingSeq[destroying[d].at] = b

\* When an environment is gone its run has ended for good, no binding of it is found any
\* more, and whatever plugin process still runs is being stopped, by the watcher of its
\* binding or by another call of DestroyEnvironment.  None is forgotten.
DestroyForgetsNothing ==
    ~env.listed => /\ \A r \in Runs : Ended(r)
                   /\ \A b \in Bindings :
                         ~bind[b].listed /\ (gone[b] = Sides \/ CleanedUp(b))

\* "Sealing prevents application traffic from mutating a completed run": what a
\* successful run left behind is what was verified.
VerifiedIsFinal ==
    \A r \in Runs : exec[r].status = "succeeded" =>
        \A b \in Bindings : \A q \in effects[b] :
            disp[q].run = r => q \in verified[b]

\* A run that was stopped or aborted ends.
AbortedRunsEnd ==
    \A r \in Runs : exec[r].stopped \/ exec[r].aborted ~> exec[r].place = "done"

\* Every request is answered and its outcome recorded, also when the run fails,
\* ends or never starts, or the environment is destroyed.
RequestsAreObserved ==
    \A q \in Requests : disp[q].at # "none" ~> disp[q].at = "done"
===============================================================================
