---------------------------- MODULE EnvironmentProofs ----------------------------
(* What Environment guarantees for any number of runs, bindings and requests. *)
EXTENDS Environment, TLAPS

-------------------------------------------------------------------------------
(* The inductive invariant.                                                 *)

\* There is one run at most, the environment's; its status is published at the end
\* and finishRun is called while the run waits for its judgement.
RunInv(r) ==
    /\ exec[r].place # "none" => env.run = r
    /\ exec[r].place = "none" => exec[r].status = "none"
    /\ exec[r].place \in {"running", "exited", "judged", "checked"} => exec[r].status = "running"
    /\ exec[r].place \in {"none", "running", "exited"} => finishing[r].step = "none"
    /\ finishing[r].step \in {"cancel", "failure", "verify", "seal"} => exec[r].place = "judged"

\* StartRun works for an environment that has no run and is not in destruction.
StartInv == ~Unlocked => env.run = NoRun /\ ~env.destroyed

\* A call of DestroyEnvironment waits for the run before it destroys the bindings in
\* their order: those behind it have been taken out, by this call or by somebody else.
CallInv(d) ==
    /\ destroying[d].step # "none" => env.destroyed
    /\ destroying[d].step \in {"stop", "wait"} =>
          destroying[d].run # NoRun /\ destroying[d].run = env.run
    /\ destroying[d].step \in {"bindings", "sealing", "stopping"} => \A r \in Runs : Ended(r)
    /\ \A i \in 1..Last : i < destroying[d].at => ~bind[BindingSeq[i]].listed
    /\ destroying[d].step \in {"sealing", "stopping"} =>
          destroying[d].at <= Last /\ ~bind[BindingSeq[destroying[d].at]].listed

\* The environment goes when one call is through, whatever the others do; a binding that
\* was taken out has no plugins, or somebody is going to stop them.
DestroyInv ==
    /\ \A d \in Destroyers : CallInv(d)
    /\ ~env.listed => /\ env.destroyed
                      /\ \A r \in Runs : Ended(r)
                      /\ \A b \in Bindings : ~bind[b].listed
    /\ \A b \in Bindings : ~bind[b].listed => gone[b] = Sides \/ CleanedUp(b)

\* What was seen to fail is a failure of the run: an error that was recorded, and a
\* plugin whose run is being aborted.
FailureInv ==
    /\ \A q \in Requests :
          /\ disp[q].at \in {"tracing", "full", "aborting"} => disp[q].run # NoRun
          /\ disp[q].at \in {"tracing", "full", "aborting", "done"} /\ disp[q].run # NoRun
             /\ disp[q].err => env.failure
    /\ \A b \in Bindings : watch[b].step = "aborting" => env.failure

Inv == TypeOK /\ (\A r \in Runs : RunInv(r)) /\ StartInv /\ DestroyInv /\ FailureInv

\* Once a run is spoiled it can only fail: a flag or the failure of the environment
\* decides it, or the verdict has already been given.
Doomed(r) ==
    \/ /\ exec[r].place \in {"running", "exited"}
       /\ exec[r].stopped \/ exec[r].exceeded \/ exec[r].aborted \/ env.failure
    \/ /\ exec[r].place = "judged"
       /\ \/ exec[r].local # "succeeded"
          \/ finishing[r].step \in {"none", "cancel", "failure"} /\ env.failure
          \/ finishing[r].step = "seal" /\ ~finishing[r].ok
    \/ exec[r].place = "checked" /\ exec[r].local # "succeeded"
    \/ exec[r].place = "done" /\ exec[r].status # "succeeded"

\* A run that was aborted in time is going to be reported as failed.
Failing(r) ==
    \/ exec[r].place \in {"running", "exited"} /\ exec[r].aborted
    \/ exec[r].place \in {"judged", "checked"} /\ exec[r].local = "failed"
    \/ exec[r].place = "done" /\ exec[r].status = "failed"

-------------------------------------------------------------------------------
(* Which steps change which variables.                                      *)

LEMMA ExecChanges ==
    ASSUME [Next]_vars
    PROVE  \/ UNCHANGED exec
           \/ StartCommits
           \/ \E r \in Runs : SealAndReturn(r) \/ Job(r)
           \/ \E q \in Requests : TraceAborts(q)
           \/ \E b \in Bindings : PluginAborts(b)
           \/ \E d \in Destroyers : DestroyStops(d)
BY Zenon DEF Next, StartRun, Request, Watcher, FinishRun, Destroy, vars,
       StartBegins, AssignRun, Dispatch, Execute, Ask, Answered, Observe,
       AppendTrace, TraceFails, PluginExits, WatchEnds, PluginFails, PluginRemoved,
       WatchSeals, WatchStops, CountPending, CancelPending, ReadFailure, Verify,
       DestroyBegins, DestroyWaits, DestroyNextBinding, DestroySeals,
       DestroyStopsPlugins, DestroyEnds

LEMMA EnvChanges ==
    ASSUME [Next]_vars
    PROVE  \/ UNCHANGED env
           \/ StartCommits
           \/ \E q \in Requests : Observe(q) \/ TraceFails(q)
           \/ \E b \in Bindings : PluginFails(b)
           \/ \E d \in Destroyers : DestroyBegins(d) \/ DestroyEnds(d)
BY Zenon DEF Next, StartRun, Request, Watcher, FinishRun, Destroy, vars,
       StartBegins, AssignRun, Dispatch, Execute, Ask, Answered, AppendTrace,
       TraceAborts, PluginExits, WatchEnds, PluginAborts, PluginRemoved, WatchSeals,
       WatchStops, CountPending, CancelPending, ReadFailure, Verify, SealAndReturn,
       DestroyStops, DestroyWaits, DestroyNextBinding, DestroySeals,
       DestroyStopsPlugins, Job

LEMMA StartingChanges ==
    ASSUME [Next]_vars
    PROVE  \/ UNCHANGED starting
           \/ AssignRun \/ StartCommits
           \/ \E r \in Runs : StartBegins(r)
BY Zenon DEF Next, StartRun, Request, Watcher, FinishRun, Destroy, vars, Dispatch,
       Execute, Ask, Answered, Observe, AppendTrace, TraceFails, TraceAborts,
       PluginExits, WatchEnds, PluginFails, PluginAborts, PluginRemoved, WatchSeals,
       WatchStops, CountPending, CancelPending, ReadFailure, Verify, SealAndReturn,
       DestroyBegins, DestroyStops, DestroyWaits, DestroyNextBinding, DestroySeals,
       DestroyStopsPlugins, DestroyEnds, Job

LEMMA FinishingChanges ==
    ASSUME [Next]_vars
    PROVE  \/ UNCHANGED finishing
           \/ \E r \in Runs : CountPending(r) \/ CancelPending(r) \/ ReadFailure(r)
                              \/ Verify(r) \/ SealAndReturn(r)
BY Zenon DEF Next, StartRun, Request, Watcher, FinishRun, Destroy, vars,
       StartBegins, AssignRun, StartCommits, Dispatch, Execute, Ask, Answered,
       Observe, AppendTrace, TraceFails, TraceAborts, PluginExits, WatchEnds,
       PluginFails, PluginAborts, PluginRemoved, WatchSeals, WatchStops,
       DestroyBegins, DestroyStops, DestroyWaits, DestroyNextBinding, DestroySeals,
       DestroyStopsPlugins, DestroyEnds, Job

LEMMA DestroyingChanges ==
    ASSUME [Next]_vars
    PROVE  \/ UNCHANGED destroying
           \/ \E d \in Destroyers : DestroyBegins(d) \/ DestroyStops(d) \/ DestroyWaits(d)
                                    \/ DestroyNextBinding(d) \/ DestroySeals(d)
                                    \/ DestroyStopsPlugins(d) \/ DestroyEnds(d)
BY Zenon DEF Next, StartRun, Request, Watcher, FinishRun, Destroy, vars,
       StartBegins, AssignRun, StartCommits, Dispatch, Execute, Ask, Answered,
       Observe, AppendTrace, TraceFails, TraceAborts, PluginExits, WatchEnds,
       PluginFails, PluginAborts, PluginRemoved, WatchSeals, WatchStops,
       CountPending, CancelPending, ReadFailure, Verify, SealAndReturn, Job

LEMMA BindChanges ==
    ASSUME [Next]_vars
    PROVE  \/ UNCHANGED bind
           \/ AssignRun
           \/ \E r \in Runs : SealAndReturn(r)
           \/ \E b \in Bindings : PluginRemoved(b) \/ WatchSeals(b)
           \/ \E d \in Destroyers : DestroyNextBinding(d) \/ DestroySeals(d)
BY Zenon DEF Next, StartRun, Request, Watcher, FinishRun, Destroy, vars,
       StartBegins, StartCommits, Dispatch, Execute, Ask, Answered, Observe,
       AppendTrace, TraceFails, TraceAborts, PluginExits, WatchEnds, PluginFails,
       PluginAborts, WatchStops, CountPending, CancelPending, ReadFailure, Verify,
       DestroyBegins, DestroyStops, DestroyWaits, DestroyStopsPlugins, DestroyEnds,
       Job

LEMMA GoneChanges ==
    ASSUME [Next]_vars
    PROVE  \/ UNCHANGED gone
           \/ \E b \in Bindings : WatchStops(b)
           \/ \E d \in Destroyers : DestroyStopsPlugins(d)
           \/ \E b \in Bindings, side \in Sides : PluginExits(b, side)
BY Zenon DEF Next, StartRun, Request, Watcher, FinishRun, Destroy, vars,
       StartBegins, AssignRun, StartCommits, Dispatch, Execute, Ask, Answered,
       Observe, AppendTrace, TraceFails, TraceAborts, WatchEnds, PluginFails,
       PluginAborts, PluginRemoved, WatchSeals, CountPending, CancelPending,
       ReadFailure, Verify, SealAndReturn, DestroyBegins, DestroyStops,
       DestroyWaits, DestroyNextBinding, DestroySeals, DestroyEnds, Job

LEMMA WatchChanges ==
    ASSUME [Next]_vars
    PROVE  \/ UNCHANGED watch
           \/ \E b \in Bindings : WatchEnds(b) \/ PluginFails(b) \/ PluginAborts(b)
                                  \/ PluginRemoved(b) \/ WatchSeals(b) \/ WatchStops(b)
BY Zenon DEF Next, StartRun, Request, Watcher, FinishRun, Destroy, vars,
       StartBegins, AssignRun, StartCommits, Dispatch, Execute, Ask, Answered,
       Observe, AppendTrace, TraceFails, TraceAborts, PluginExits, CountPending,
       CancelPending, ReadFailure, Verify, SealAndReturn, DestroyBegins,
       DestroyStops, DestroyWaits, DestroyNextBinding, DestroySeals,
       DestroyStopsPlugins, DestroyEnds, Job

LEMMA DispChanges ==
    ASSUME [Next]_vars
    PROVE  \/ UNCHANGED disp
           \/ \E r \in Runs : CancelPending(r)
           \/ \E q \in Requests : Dispatch(q) \/ Execute(q) \/ Ask(q) \/ Answered(q)
                                  \/ Observe(q) \/ AppendTrace(q) \/ TraceFails(q)
                                  \/ TraceAborts(q)
           \/ \E b \in Bindings : PluginAborts(b)
           \/ \E d \in Destroyers : DestroyStops(d) \/ DestroyEnds(d)
BY Zenon DEF Next, StartRun, Request, Watcher, FinishRun, Destroy, vars,
       StartBegins, AssignRun, StartCommits, PluginExits, WatchEnds, PluginFails,
       PluginRemoved, WatchSeals, WatchStops, CountPending, ReadFailure, Verify,
       SealAndReturn, DestroyBegins, DestroyWaits, DestroyNextBinding, DestroySeals,
       DestroyStopsPlugins, Job

LEMMA EffectsChanges ==
    ASSUME [Next]_vars
    PROVE  \/ UNCHANGED effects
           \/ \E q \in Requests : Execute(q) \/ Answered(q)
BY Zenon DEF Next, StartRun, Request, Watcher, FinishRun, Destroy, vars,
       StartBegins, AssignRun, StartCommits, Dispatch, Ask, Observe, AppendTrace,
       TraceFails, TraceAborts, PluginExits, WatchEnds, PluginFails, PluginAborts,
       PluginRemoved, WatchSeals, WatchStops, CountPending, CancelPending,
       ReadFailure, Verify, SealAndReturn, DestroyBegins, DestroyStops,
       DestroyWaits, DestroyNextBinding, DestroySeals, DestroyStopsPlugins,
       DestroyEnds, Job

LEMMA VerifiedChanges ==
    ASSUME [Next]_vars
    PROVE  \/ UNCHANGED verified
           \/ \E r \in Runs : Verify(r)
BY Zenon DEF Next, StartRun, Request, Watcher, FinishRun, Destroy, vars,
       StartBegins, AssignRun, StartCommits, Dispatch, Execute, Ask, Answered,
       Observe, AppendTrace, TraceFails, TraceAborts, PluginExits, WatchEnds,
       PluginFails, PluginAborts, PluginRemoved, WatchSeals, WatchStops,
       CountPending, CancelPending, ReadFailure, SealAndReturn, DestroyBegins,
       DestroyStops, DestroyWaits, DestroyNextBinding, DestroySeals,
       DestroyStopsPlugins, DestroyEnds, Job

LEMMA TraceChanges ==
    ASSUME [Next]_vars
    PROVE  \/ UNCHANGED trace
           \/ StartCommits
           \/ \E r \in Runs : Verify(r)
           \/ \E q \in Requests : AppendTrace(q)
BY Zenon DEF Next, StartRun, Request, Watcher, FinishRun, Destroy, vars,
       StartBegins, AssignRun, Dispatch, Execute, Ask, Answered, Observe,
       TraceFails, TraceAborts, PluginExits, WatchEnds, PluginFails, PluginAborts,
       PluginRemoved, WatchSeals, WatchStops, CountPending, CancelPending,
       ReadFailure, SealAndReturn, DestroyBegins, DestroyStops, DestroyWaits,
       DestroyNextBinding, DestroySeals, DestroyStopsPlugins, DestroyEnds, Job

LEMMA IdsChanges ==
    ASSUME [Next]_vars
    PROVE  \/ UNCHANGED ids
           \/ \E r \in Runs : StartBegins(r)
BY Zenon DEF Next, StartRun, Request, Watcher, FinishRun, Destroy, vars, AssignRun,
       StartCommits, Dispatch, Execute, Ask, Answered, Observe, AppendTrace,
       TraceFails, TraceAborts, PluginExits, WatchEnds, PluginFails, PluginAborts,
       PluginRemoved, WatchSeals, WatchStops, CountPending, CancelPending,
       ReadFailure, Verify, SealAndReturn, DestroyBegins, DestroyStops,
       DestroyWaits, DestroyNextBinding, DestroySeals, DestroyStopsPlugins,
       DestroyEnds, Job

-------------------------------------------------------------------------------
(* Types.                                                                   *)

LEMMA Numbers ==
    /\ Last \in Nat /\ TraceLimit \in Nat /\ NoRun \notin Runs
    /\ \A i \in 1..Last : BindingSeq[i] \in Bindings
    /\ \A b \in Bindings : \E i \in 1..Last : BindingSeq[i] = b
    /\ \A q \in Requests : BindingOf[q] \in Bindings
BY EnvironmentAssumption DEF Last, Bindings

LEMMA RunTypes ==
    ASSUME NEW r \in Runs, exec \in [Runs -> Execution],
           Start(r) \/ RunStep(r) \/ StopRun(r) \/ Abort(r)
           \/ \E ok \in BOOLEAN : Checked(r, ok)
    PROVE  exec' \in [Runs -> Execution]
<1>1. exec[r] \in Execution
  OBVIOUS
<1>2. PICK v \in RunStates : v = Verdict(exec[r])
  BY DEF Verdict, RunStates
<1>3. PICK c \in {"live", "cancelled", "expired"} : c = Cancelled(exec[r].ctx)
  BY <1>1 DEF Cancelled, Execution
<1>4. CASE Start(r)
  <2>1. [exec[r] EXCEPT !.place = "running", !.status = "running"] \in Execution
    BY <1>1 DEF Execution, Places, RunStates
  <2>2. exec' = [exec EXCEPT ![r] = [exec[r] EXCEPT !.place = "running", !.status = "running"]]
    BY <1>4 DEF Start
  <2> QED BY <2>1, <2>2
<1>5. CASE Exit(r)
  <2>1. PICK outcome \in {"ok", "bad"} :
           exec' = [exec EXCEPT ![r].place = "exited", ![r].exit = outcome]
    BY <1>5 DEF Exit
  <2>2. [exec[r] EXCEPT !.place = "exited", !.exit = outcome] \in Execution
    BY <1>1 DEF Execution, Places
  <2>3. exec' = [exec EXCEPT ![r] = [exec[r] EXCEPT !.place = "exited", !.exit = outcome]]
    BY <2>1
  <2> QED BY <2>2, <2>3
<1>6. CASE Judge(r)
  <2>1. [exec[r] EXCEPT !.place = "judged", !.exit = "none",
                            !.local = v] \in Execution
    BY <1>1 DEF Execution, Places
  <2>2. exec' = [exec EXCEPT ![r] = [exec[r] EXCEPT !.place = "judged", !.exit = "none",
                            !.local = v]]
    BY <1>2, <1>6 DEF Judge
  <2> QED BY <2>1, <2>2
<1>7. CASE Publish(r)
  <2>0. PICK l \in RunStates : l = exec[r].local
    BY <1>1 DEF Execution
  <2>1. [NoExecution EXCEPT !.place = "done", !.status = l] \in Execution
    BY <2>0 DEF NoExecution, Execution, Places, RunStates
  <2>2. exec' = [exec EXCEPT ![r] = [NoExecution EXCEPT !.place = "done", !.status = l]]
    BY <1>7, <2>0 DEF Publish
  <2> QED BY <2>1, <2>2
<1>8. CASE Timeout(r)
  <2>1. [exec[r] EXCEPT !.ctx = "expired"] \in Execution
    BY <1>1 DEF Execution
  <2>2. exec' = [exec EXCEPT ![r] = [exec[r] EXCEPT !.ctx = "expired"]]
    BY <1>8 DEF Timeout
  <2> QED BY <2>1, <2>2
<1>9. CASE Exceed(r)
  <2>1. [exec[r] EXCEPT !.exceeded = TRUE, !.ctx = c] \in Execution
    BY <1>1 DEF Execution
  <2>2. exec' = [exec EXCEPT ![r] = [exec[r] EXCEPT !.exceeded = TRUE,
                                                   !.ctx = c]]
    BY <1>3, <1>9 DEF Exceed
  <2> QED BY <2>1, <2>2
<1>10. CASE StopRun(r)
  <2>1. [exec[r] EXCEPT !.stopped = TRUE, !.ctx = c] \in Execution
    BY <1>1 DEF Execution
  <2>2. exec' = exec
        \/ exec' = [exec EXCEPT ![r] = [exec[r] EXCEPT !.stopped = TRUE,
                                                      !.ctx = c]]
    BY <1>3, <1>10 DEF StopRun
  <2> QED BY <2>1, <2>2
<1>11. CASE Abort(r)
  <2>1. [exec[r] EXCEPT !.aborted = TRUE, !.ctx = c] \in Execution
    BY <1>1 DEF Execution
  <2>2. exec' = exec
        \/ exec' = [exec EXCEPT ![r] = [exec[r] EXCEPT !.aborted = TRUE,
                                                      !.ctx = c]]
    BY <1>3, <1>11 DEF Abort
  <2> QED BY <2>1, <2>2
<1>12. ASSUME NEW ok \in BOOLEAN, Checked(r, ok)
       PROVE  exec' \in [Runs -> Execution]
  <2>1. (IF ~ok /\ exec[r].local = "succeeded" THEN "failed" ELSE exec[r].local) \in RunStates
    BY <1>1 DEF Execution, RunStates
  <2>2. PICK l : l = IF ~ok /\ exec[r].local = "succeeded" THEN "failed" ELSE exec[r].local
    OBVIOUS
  <2>3. [exec[r] EXCEPT !.place = "checked", !.local = l] \in Execution
    BY <1>1, <2>1, <2>2 DEF Execution, Places
  <2>4. exec' = [exec EXCEPT ![r] = [exec[r] EXCEPT !.place = "checked", !.local = l]]
    BY <1>12, <2>2 DEF Checked
  <2> QED BY <2>3, <2>4
<1> QED BY <1>4, <1>5, <1>6, <1>7, <1>8, <1>9, <1>10, <1>11, <1>12 DEF RunStep

LEMMA ExecType ==
    ASSUME Inv, [Next]_vars
    PROVE  exec' \in [Runs -> Execution]
<1>0. exec \in [Runs -> Execution]
  BY DEF Inv, TypeOK
<1>1. CASE StartCommits
  <2>1. starting.run \in Runs
    BY <1>1 DEF StartCommits, Unlocked, Inv, TypeOK, MaybeRun
  <2> QED BY <1>0, <1>1, <2>1, RunTypes DEF StartCommits
<1>2. ASSUME NEW d \in Destroyers, DestroyStops(d)
      PROVE  exec' \in [Runs -> Execution]
  <2>1. destroying[d].run \in Runs
    BY <1>2 DEF DestroyStops, Inv, TypeOK, MaybeRun, DestroyInv, CallInv
  <2> QED BY <1>0, <1>2, <2>1, RunTypes DEF DestroyStops
<1>3. ASSUME NEW r \in Runs, SealAndReturn(r) \/ Job(r)
      PROVE  exec' \in [Runs -> Execution]
  <2>1. finishing[r].ok \in BOOLEAN
    BY DEF Inv, TypeOK
  <2> QED BY <1>0, <1>3, <2>1, RunTypes DEF SealAndReturn, Job
<1>4. ASSUME NEW q \in Requests, TraceAborts(q)
      PROVE  exec' \in [Runs -> Execution]
  <2>1. disp[q].run \in Runs
    BY <1>4 DEF TraceAborts, Inv, TypeOK, MaybeRun, FailureInv
  <2> QED BY <1>0, <1>4, <2>1, RunTypes DEF TraceAborts
<1>5. ASSUME NEW b \in Bindings, PluginAborts(b)
      PROVE  exec' \in [Runs -> Execution]
  <2>1. watch[b].run \in Runs \/ watch[b].run = NoRun
    BY DEF Inv, TypeOK, MaybeRun
  <2> QED BY <1>0, <1>5, <2>1, RunTypes DEF PluginAborts
<1> QED BY <1>0, <1>1, <1>2, <1>3, <1>4, <1>5, ExecChanges

LEMMA EnvType ==
    ASSUME Inv, [Next]_vars
    PROVE  /\ env' \in [run : MaybeRun, failure : BOOLEAN, destroyed : BOOLEAN, listed : BOOLEAN]
           /\ env'.run = env.run \/ (StartCommits /\ env'.run = starting.run)
           /\ env.failure => env'.failure
           /\ env'.destroyed = env.destroyed \/ ((\E d \in Destroyers : DestroyBegins(d)) /\ env'.destroyed)
           /\ env'.listed = env.listed \/ ((\E d \in Destroyers : DestroyEnds(d)) /\ ~env'.listed)
<1>0. /\ env \in [run : MaybeRun, failure : BOOLEAN, destroyed : BOOLEAN, listed : BOOLEAN]
      /\ starting.run \in MaybeRun /\ \A q \in Requests : disp[q].err \in BOOLEAN
  BY DEF Inv, TypeOK
<1>1. CASE UNCHANGED env
  BY <1>0, <1>1
<1>2. CASE StartCommits
  BY <1>0, <1>2 DEF StartCommits
<1>3. ASSUME NEW q \in Requests, Observe(q)
      PROVE  \/ UNCHANGED env
             \/ \E f \in BOOLEAN : env' = [env EXCEPT !.failure = f] /\ (env.failure => f)
  BY <1>0, <1>3 DEF Observe
<1>4. CASE \E f \in BOOLEAN : env' = [env EXCEPT !.failure = f] /\ (env.failure => f)
  BY <1>0, <1>4
<1>5. ASSUME NEW q \in Requests, TraceFails(q)
      PROVE  \E f \in BOOLEAN : env' = [env EXCEPT !.failure = f] /\ (env.failure => f)
  BY <1>5 DEF TraceFails
<1>6. ASSUME NEW b \in Bindings, PluginFails(b)
      PROVE  \E f \in BOOLEAN : env' = [env EXCEPT !.failure = f] /\ (env.failure => f)
  BY <1>6 DEF PluginFails
<1>7. ASSUME NEW d \in Destroyers, DestroyBegins(d)
      PROVE  env' = [env EXCEPT !.destroyed = TRUE]
  BY <1>7 DEF DestroyBegins
<1>8. ASSUME NEW d \in Destroyers, DestroyEnds(d)
      PROVE  env' = [env EXCEPT !.listed = FALSE]
  BY <1>8 DEF DestroyEnds
<1> QED BY <1>0, <1>1, <1>2, <1>3, <1>4, <1>5, <1>6, <1>7, <1>8, EnvChanges

LEMMA StartingType ==
    ASSUME Inv, [Next]_vars
    PROVE  starting' \in [run : MaybeRun, at : 1..(Last + 1)]
<1>0. starting \in [run : MaybeRun, at : 1..(Last + 1)]
  BY DEF Inv, TypeOK
<1>1. NotStarting \in [run : MaybeRun, at : 1..(Last + 1)]
  BY Numbers DEF NotStarting, MaybeRun
<1>2. ASSUME NEW r \in Runs, StartBegins(r)
      PROVE  starting' \in [run : MaybeRun, at : 1..(Last + 1)]
  BY <1>2, Numbers DEF StartBegins, MaybeRun
<1>3. CASE AssignRun
  <2>1. starting.at <= Last => starting.at + 1 \in 1..(Last + 1)
    BY <1>0, Numbers
  <2> QED BY <1>0, <1>1, <1>3, <2>1 DEF AssignRun
<1>4. CASE StartCommits
  BY <1>1, <1>4 DEF StartCommits
<1> QED BY <1>0, <1>2, <1>3, <1>4, StartingChanges

LEMMA FinishingType ==
    ASSUME Inv, [Next]_vars
    PROVE  finishing' \in [Runs -> [step : {"none", "cancel", "failure", "verify", "seal",
                                            "returned"},
                                    pending : BOOLEAN, ok : BOOLEAN, at : 1..(Last + 1)]]
<1> DEFINE F == [step : {"none", "cancel", "failure", "verify", "seal", "returned"},
                 pending : BOOLEAN, ok : BOOLEAN, at : 1..(Last + 1)]
<1>0. finishing \in [Runs -> F]
  BY DEF Inv, TypeOK
<1>1. ASSUME NEW r \in Runs, NEW f \in F, finishing' = [finishing EXCEPT ![r] = f]
      PROVE  finishing' \in [Runs -> F]
  BY <1>0, <1>1
<1>2. ASSUME NEW r \in Runs, CountPending(r)
      PROVE  finishing' \in [Runs -> F]
  <2>1. (\E q \in Requests : disp[q].at = "asking" /\ disp[q].owner = r) \in BOOLEAN
    OBVIOUS
  <2>2. PICK pending : pending = \E q \in Requests : disp[q].at = "asking" /\ disp[q].owner = r
    OBVIOUS
  <2>3. finishing' = [finishing EXCEPT ![r].step = "cancel", ![r].pending = pending]
    BY <1>2, <2>2 DEF CountPending
  <2>4. pending \in BOOLEAN
    BY <2>1, <2>2
  <2>5. [finishing[r] EXCEPT !.step = "cancel", !.pending = pending] \in F
    BY <1>0, <2>4
  <2>6. finishing' = [finishing EXCEPT ![r] = [finishing[r] EXCEPT !.step = "cancel",
                                                                   !.pending = pending]]
    BY <2>3
  <2> QED BY <1>1, <2>5, <2>6
<1>3. ASSUME NEW r \in Runs, CancelPending(r)
      PROVE  finishing' \in [Runs -> F]
  BY <1>0, <1>3 DEF CancelPending
<1>4. ASSUME NEW r \in Runs, ReadFailure(r)
      PROVE  finishing' \in [Runs -> F]
  <2>1. PICK f : f = IF env.failure \/ finishing[r].pending
                    THEN [finishing[r] EXCEPT !.step = "seal", !.pending = FALSE, !.ok = FALSE]
                    ELSE [finishing[r] EXCEPT !.step = "verify"]
    OBVIOUS
  <2>2. [finishing[r] EXCEPT !.step = "seal", !.pending = FALSE, !.ok = FALSE] \in F
        /\ [finishing[r] EXCEPT !.step = "verify"] \in F
    BY <1>0
  <2>3. f \in F
    BY <2>1, <2>2
  <2>4. finishing' = [finishing EXCEPT ![r] = f]
    BY <1>4, <2>1 DEF ReadFailure
  <2> QED BY <1>1, <2>3, <2>4
<1>5. ASSUME NEW r \in Runs, Verify(r)
      PROVE  finishing' \in [Runs -> F]
  <2>1. finishing[r].at <= Last => finishing[r].at + 1 \in 1..(Last + 1)
    BY <1>0, Numbers
  <2> QED BY <1>0, <1>5, <2>1 DEF Verify
<1>6. ASSUME NEW r \in Runs, SealAndReturn(r)
      PROVE  finishing' \in [Runs -> F]
  <2>1. [Idle EXCEPT !.step = "returned"] \in F
    <3>1. Idle \in F
      BY Numbers DEF Idle
    <3>2. \A f \in F : [f EXCEPT !.step = "returned"] \in F
      OBVIOUS
    <3> QED BY <3>1, <3>2
  <2> QED BY <1>1, <1>6, <2>1 DEF SealAndReturn
<1> QED BY <1>0, <1>2, <1>3, <1>4, <1>5, <1>6, FinishingChanges

\* The record of one call of DestroyEnvironment.
Call == [step : {"none", "stop", "wait", "bindings", "sealing", "stopping"},
         run : MaybeRun, at : 1..(Last + 1)]

\* A step of another call leaves this one alone.
LEMMA CallChanges ==
    ASSUME Inv, [Next]_vars, NEW d \in Destroyers
    PROVE  \/ destroying'[d] = destroying[d]
           \/ Destroy(d)
<1>0. destroying \in [Destroyers -> Call]
  BY DEF Inv, TypeOK, Call
<1>1. ASSUME NEW e \in Destroyers, e # d, Destroy(e)
      PROVE  destroying'[d] = destroying[d]
  BY <1>0, <1>1 DEF Destroy, DestroyBegins, DestroyStops, DestroyWaits, DestroyNextBinding,
       DestroySeals, DestroyStopsPlugins, DestroyEnds
<1> QED BY <1>1, DestroyingChanges DEF Destroy

\* What a call does next, and what it is up to then.
LEMMA CallStep ==
    ASSUME Inv, NEW d \in Destroyers, Destroy(d)
    PROVE  /\ destroying' = [destroying EXCEPT ![d] = destroying'[d]]
           /\ destroying'[d] \in Call
           /\ \/ /\ DestroyBegins(d) /\ destroying'[d].at = destroying[d].at
                 /\ destroying'[d].run = env.run
                 /\ destroying'[d].step = IF env.run = NoRun THEN "bindings" ELSE "stop"
              \/ /\ DestroyStops(d) /\ destroying'[d].at = destroying[d].at
                 /\ destroying'[d].run = destroying[d].run /\ destroying'[d].step = "wait"
              \/ /\ DestroyWaits(d) /\ destroying'[d].at = destroying[d].at
                 /\ Ended(destroying[d].run) /\ destroying'[d].step = "bindings"
              \/ (DestroyWaits(d) \/ DestroyEnds(d)) /\ destroying'[d] = NotDestroying
              \/ /\ DestroyNextBinding(d) /\ destroying'[d].step = "sealing"
                 /\ destroying'[d].at = destroying[d].at
                 /\ Remove(BindingSeq[destroying[d].at])
              \/ /\ DestroyNextBinding(d) /\ destroying'[d].step = "bindings"
                 /\ ~bind[BindingSeq[destroying[d].at]].listed
                 /\ destroying'[d].at = destroying[d].at + 1
              \/ /\ DestroySeals(d) /\ destroying'[d].step = "stopping"
                 /\ destroying'[d].at = destroying[d].at
              \/ /\ DestroyStopsPlugins(d) /\ destroying'[d].step = "bindings"
                 /\ destroying'[d].at = destroying[d].at + 1
<1>0. destroying \in [Destroyers -> Call] /\ env.run \in MaybeRun
  BY DEF Inv, TypeOK, Call
<1>1. destroying[d] \in Call /\ NotDestroying \in Call
  BY <1>0, Numbers DEF NotDestroying, MaybeRun, Call
<1>2. destroying[d].at <= Last => destroying[d].at + 1 \in 1..(Last + 1)
  BY <1>1, Numbers DEF Call
<1>3. CASE DestroyBegins(d)
  BY <1>0, <1>1, <1>3 DEF DestroyBegins, Call
<1>4. CASE DestroyStops(d)
  BY <1>0, <1>1, <1>4 DEF DestroyStops, Call
<1>5. CASE DestroyWaits(d)
  BY <1>0, <1>1, <1>5 DEF DestroyWaits, Call
<1>6. CASE DestroyNextBinding(d)
  BY <1>0, <1>1, <1>2, <1>6 DEF DestroyNextBinding, Call
<1>7. CASE DestroySeals(d)
  BY <1>0, <1>1, <1>7 DEF DestroySeals, Call
<1>8. CASE DestroyStopsPlugins(d)
  <2>1. destroying[d].at <= Last
    BY <1>8 DEF DestroyStopsPlugins, Inv, DestroyInv, CallInv
  <2> QED BY <1>0, <1>1, <1>2, <1>8, <2>1 DEF DestroyStopsPlugins, Call
<1>9. CASE DestroyEnds(d)
  BY <1>0, <1>1, <1>9 DEF DestroyEnds
<1> QED BY <1>3, <1>4, <1>5, <1>6, <1>7, <1>8, <1>9 DEF Destroy

LEMMA DestroyingType ==
    ASSUME Inv, [Next]_vars
    PROVE  destroying' \in [Destroyers -> Call]
<1>0. destroying \in [Destroyers -> Call]
  BY DEF Inv, TypeOK, Call
<1>1. ASSUME NEW d \in Destroyers, Destroy(d)
      PROVE  destroying' \in [Destroyers -> Call]
  <2>1. PICK c \in Call : destroying' = [destroying EXCEPT ![d] = c]
    BY <1>1, CallStep
  <2> QED BY <1>0, <2>1
<1> QED BY <1>0, <1>1, DestroyingChanges DEF Destroy

\* A binding is never listed again.  Whoever takes it out goes on to clean up.
LEMMA BindType ==
    ASSUME Inv, [Next]_vars
    PROVE  /\ bind' \in [Bindings -> [listed : BOOLEAN, open : BOOLEAN, run : MaybeRun]]
           /\ \A b \in Bindings : ~bind[b].listed => ~bind'[b].listed
           /\ \A b \in Bindings : bind[b].listed /\ ~bind'[b].listed => CleanedUp(b)'
<1> DEFINE B == [listed : BOOLEAN, open : BOOLEAN, run : MaybeRun]
           Goal == /\ bind' \in [Bindings -> B]
                   /\ \A b \in Bindings : ~bind[b].listed => ~bind'[b].listed
                   /\ \A b \in Bindings : bind[b].listed /\ ~bind'[b].listed => CleanedUp(b)'
<1>0. bind \in [Bindings -> B] /\ starting.run \in MaybeRun
  BY DEF Inv, TypeOK
<1>1. ASSUME NEW b \in Bindings, Remove(b), CleanedUp(b)'
      PROVE  Goal
  BY <1>0, <1>1 DEF Remove
<1>2. ASSUME NEW b \in Bindings, Seal(b)
      PROVE  Goal
  BY <1>0, <1>2 DEF Seal
<1>3. ASSUME UNCHANGED bind
      PROVE  Goal
  BY <1>0, <1>3
<1>4. ASSUME AssignRun
      PROVE  Goal
  <2>1. UNCHANGED bind \/ \E b \in Bindings : bind' = [bind EXCEPT ![b].run = starting.run]
    BY <1>4, Numbers DEF AssignRun, Inv, TypeOK
  <2> QED BY <1>0, <2>1
<1>5. ASSUME NEW r \in Runs, SealAndReturn(r)
      PROVE  Goal
  BY <1>0, <1>5 DEF SealAndReturn
<1> HIDE DEF Goal
<1>6. ASSUME NEW b \in Bindings, PluginRemoved(b) \/ WatchSeals(b)
      PROVE  Goal
  <2>1. watch' = [watch EXCEPT ![b].step = "sealing"] => CleanedUp(b)'
    BY DEF CleanedUp, Inv, TypeOK
  <2> QED BY <1>1, <1>2, <1>3, <1>6, <2>1 DEF PluginRemoved, WatchSeals
<1>7. ASSUME NEW d \in Destroyers, DestroyNextBinding(d)
      PROVE  Goal
  <2>0. Destroy(d) /\ BindingSeq[destroying[d].at] \in Bindings
    BY <1>7, Numbers DEF Destroy, DestroyNextBinding, Inv, TypeOK
  <2>1. CASE bind[BindingSeq[destroying[d].at]].listed
    <3>1. destroying'[d].step = "sealing" /\ destroying'[d].at = destroying[d].at
      BY <1>7, <2>1 DEF DestroyNextBinding, Inv, TypeOK
    <3>2. PICK b \in Bindings : b = BindingSeq[destroying[d].at]
      BY <2>0
    <3>3. CleanedUp(b)'
      BY <3>1, <3>2 DEF CleanedUp
    <3>4. Remove(b)
      BY <1>7, <2>1, <3>2 DEF DestroyNextBinding
    <3> QED BY <1>1, <3>3, <3>4
  <2>2. CASE ~bind[BindingSeq[destroying[d].at]].listed
    BY <1>3, <1>7, <2>2 DEF DestroyNextBinding
  <2> QED BY <2>1, <2>2
<1>8. ASSUME NEW d \in Destroyers, DestroySeals(d)
      PROVE  Goal
  <2>0. destroying[d].at \in 1..(Last + 1) /\ destroying[d].at <= Last
    BY <1>8 DEF DestroySeals, Inv, TypeOK, DestroyInv, CallInv
  <2>1. BindingSeq[destroying[d].at] \in Bindings
    BY <2>0, Numbers
  <2> QED BY <1>2, <1>8, <2>1 DEF DestroySeals
<1>9. Goal
  BY <1>3, <1>4, <1>5, <1>6, <1>7, <1>8, BindChanges
<1> QED BY <1>9 DEF Goal

\* A plugin that has exited does not come back.
LEMMA GoneType ==
    ASSUME Inv, [Next]_vars
    PROVE  /\ gone' \in [Bindings -> SUBSET Sides]
           /\ \A b \in Bindings : gone[b] \subseteq gone'[b]
<1>0. gone \in [Bindings -> SUBSET Sides]
  BY DEF Inv, TypeOK
<1>1. ASSUME NEW b \in Bindings, NEW g \in SUBSET Sides, gone[b] \subseteq g,
             gone' = [gone EXCEPT ![b] = g]
      PROVE  /\ gone' \in [Bindings -> SUBSET Sides]
             /\ \A c \in Bindings : gone[c] \subseteq gone'[c]
  BY <1>0, <1>1
<1>2. ASSUME NEW b \in Bindings, NEW side \in Sides, PluginExits(b, side)
      PROVE  gone' = [gone EXCEPT ![b] = gone[b] \cup {side}]
  BY <1>2 DEF PluginExits
<1>3. ASSUME NEW b \in Bindings, WatchStops(b)
      PROVE  gone' = [gone EXCEPT ![b] = Sides]
  BY <1>3 DEF WatchStops, StopPlugins
<1>4. ASSUME NEW d \in Destroyers, DestroyStopsPlugins(d)
      PROVE  \E b \in Bindings : gone' = [gone EXCEPT ![b] = Sides]
  <2>1. destroying[d].at \in 1..(Last + 1) /\ destroying[d].at <= Last
    BY <1>4 DEF DestroyStopsPlugins, Inv, TypeOK, DestroyInv, CallInv
  <2>2. BindingSeq[destroying[d].at] \in Bindings
    BY <2>1, Numbers
  <2> QED BY <1>4, <2>2 DEF DestroyStopsPlugins, StopPlugins
<1> QED BY <1>0, <1>1, <1>2, <1>3, <1>4, GoneChanges

LEMMA WatchType ==
    ASSUME Inv, [Next]_vars
    PROVE  watch' \in [Bindings -> [step : {"waiting", "failed", "aborting", "destroying",
                                            "sealing", "stopping", "ended"}, run : MaybeRun]]
<1> DEFINE W == [step : {"waiting", "failed", "aborting", "destroying", "sealing",
                         "stopping", "ended"}, run : MaybeRun]
<1>0. watch \in [Bindings -> W] /\ env.run \in MaybeRun /\ NoRun \in MaybeRun
  BY DEF Inv, TypeOK, MaybeRun
<1>1. \A b \in Bindings : Watcher(b) => watch' \in [Bindings -> W]
  BY <1>0 DEF Watcher, WatchEnds, PluginFails, PluginAborts, PluginRemoved, WatchSeals, WatchStops
<1> QED BY <1>0, <1>1, WatchChanges DEF Watcher

\* What a request that waits for data is told when the run ends.
Disp == [at : {"none", "executing", "asking", "replied", "tracing", "full", "aborting", "done"},
         run : MaybeRun, owner : MaybeRun, err : BOOLEAN, events : 0..2]

\* What a step does to the record of a request, seen from its failure.
Told(q) ==
    \/ disp'[q] = disp[q]
    \/ disp'[q].at \in {"none", "executing", "asking", "replied"}
    \/ /\ disp[q].at = "replied" /\ disp'[q].err = disp[q].err /\ disp'[q].run = disp[q].run
       /\ \/ disp'[q].at = "done" /\ disp[q].run = NoRun
          \/ disp'[q].at = "tracing" /\ disp[q].run # NoRun /\ (disp[q].err => env'.failure)
    \/ /\ disp[q].at \in {"tracing", "full", "aborting"}
       /\ disp'[q].at \in {"tracing", "full", "aborting", "done"}
       /\ disp'[q].err = disp[q].err /\ disp'[q].run = disp[q].run

\* A step of one request.
LEMMA OneTold ==
    ASSUME disp \in [Requests -> Disp], NEW q \in Requests, NEW d \in Disp,
           disp' = [disp EXCEPT ![q] = d],
           \/ d.at \in {"none", "executing", "asking", "replied"}
           \/ /\ disp[q].at = "replied" /\ d.err = disp[q].err /\ d.run = disp[q].run
              /\ \/ d.at = "done" /\ disp[q].run = NoRun
                 \/ d.at = "tracing" /\ disp[q].run # NoRun /\ (disp[q].err => env'.failure)
           \/ /\ disp[q].at \in {"tracing", "full", "aborting"}
              /\ d.at \in {"tracing", "full", "aborting", "done"}
              /\ d.err = disp[q].err /\ d.run = disp[q].run
    PROVE  disp' \in [Requests -> Disp] /\ \A p \in Requests : Told(p)
<1>1. disp'[q] = d /\ \A p \in Requests : p # q => disp'[p] = disp[p]
  OBVIOUS
<1> QED BY <1>1 DEF Told

\* What the record of a request may become.
LEMMA Replied ==
    ASSUME disp \in [Requests -> Disp], NEW q \in Requests, NEW e \in BOOLEAN, NEW n \in 0..2
    PROVE  Reply(q, e, n) \in Disp /\ Reply(q, e, n).at = "replied"
BY DEF Reply, Disp, MaybeRun

LEMMA CancelTells ==
    ASSUME disp \in [Requests -> Disp], NEW r, CancelRun(r)
    PROVE  disp' \in [Requests -> Disp] /\ \A q \in Requests : Told(q)
<1>1. ASSUME NEW q \in Requests
      PROVE  disp'[q] = disp[q] \/ (disp'[q] \in Disp /\ disp'[q].at = "replied")
  <2>1. TRUE \in BOOLEAN /\ 1 \in 0..2
    OBVIOUS
  <2>2. Reply(q, TRUE, 1) \in Disp /\ Reply(q, TRUE, 1).at = "replied"
    BY <2>1, Replied
  <2> QED BY <2>2 DEF CancelRun
<1>2. disp' \in [Requests -> Disp]
  BY <1>1 DEF CancelRun
<1> QED BY <1>1, <1>2 DEF Told

LEMMA DispStep ==
    ASSUME Inv, [Next]_vars
    PROVE  disp' \in [Requests -> Disp] /\ \A q \in Requests : Told(q)
<1> DEFINE Goal == disp' \in [Requests -> Disp] /\ \A q \in Requests : Told(q)
<1>0. /\ disp \in [Requests -> Disp] /\ env.run \in MaybeRun
      /\ \A b \in Bindings : bind[b].run \in MaybeRun
      /\ 1 \in 0..2 /\ 2 \in 0..2
  BY DEF Inv, TypeOK, Disp
<1>1. ASSUME NEW q \in Requests, NEW d \in Disp, disp' = [disp EXCEPT ![q] = d],
             \/ d.at \in {"none", "executing", "asking", "replied"}
             \/ /\ disp[q].at = "replied" /\ d.err = disp[q].err /\ d.run = disp[q].run
                /\ \/ d.at = "done" /\ disp[q].run = NoRun
                   \/ d.at = "tracing" /\ disp[q].run # NoRun /\ (disp[q].err => env'.failure)
             \/ /\ disp[q].at \in {"tracing", "full", "aborting"}
                /\ d.at \in {"tracing", "full", "aborting", "done"}
                /\ d.err = disp[q].err /\ d.run = disp[q].run
      PROVE  Goal
  BY <1>0, <1>1, OneTold
<1>2. ASSUME NEW r, CancelRun(r)
      PROVE  Goal
  BY <1>0, <1>2, CancelTells
<1>3. ASSUME UNCHANGED disp
      PROVE  Goal
  BY <1>0, <1>3 DEF Told
<1> HIDE DEF Goal
<1>4. ASSUME NEW q \in Requests, Dispatch(q)
      PROVE  Goal
  <2>1. bind[BindingOf[q]].run \in MaybeRun
    BY <1>0, Numbers
  <2>2. PICK d : d = [disp[q] EXCEPT !.at = "executing", !.run = bind[BindingOf[q]].run]
    OBVIOUS
  <2>3. d \in Disp /\ d.at = "executing"
    BY <1>0, <2>1, <2>2 DEF Disp
  <2>4. disp' = [disp EXCEPT ![q] = d]
    BY <1>4, <2>2 DEF Dispatch
  <2> QED BY <1>1, <2>3, <2>4
<1>5. ASSUME NEW q \in Requests, Execute(q)
      PROVE  Goal
  <2>1. PICK err \in BOOLEAN : disp' = [disp EXCEPT ![q] = Reply(q, err, 1)]
    BY <1>5 DEF Execute
  <2> QED BY <1>0, <1>1, <2>1, Replied
<1>6. ASSUME NEW q \in Requests, Ask(q)
      PROVE  Goal
  <2>1. CASE env.run = NoRun
    <3>1. disp' = [disp EXCEPT ![q] = Reply(q, TRUE, 1)]
      BY <1>6, <2>1 DEF Ask
    <3> QED BY <1>0, <1>1, <3>1, Replied
  <2>2. CASE env.run # NoRun
    <3>1. PICK d : d = [disp[q] EXCEPT !.at = "asking", !.owner = env.run]
      OBVIOUS
    <3>2. d \in Disp /\ d.at = "asking"
      BY <1>0, <3>1 DEF Disp
    <3>3. disp' = [disp EXCEPT ![q] = d]
      BY <1>6, <2>2, <3>1 DEF Ask
    <3> QED BY <1>1, <3>2, <3>3
  <2> QED BY <2>1, <2>2
<1>7. ASSUME NEW q \in Requests, Answered(q)
      PROVE  Goal
  <2>1. \E e \in BOOLEAN, n \in 0..2 : disp' = [disp EXCEPT ![q] = Reply(q, e, n)]
    BY <1>0, <1>7 DEF Answered
  <2> QED BY <1>0, <1>1, <2>1, Replied
<1>8. ASSUME NEW q \in Requests, Observe(q)
      PROVE  Goal
  <2>0. disp[q].err \in BOOLEAN
    BY <1>0 DEF Disp
  <2>1. PICK at \in {"done", "tracing"}, events \in 0..2 :
           /\ disp' = [disp EXCEPT ![q] = [disp[q] EXCEPT !.at = at, !.events = events]]
           /\ disp[q].at = "replied"
           /\ \/ at = "done" /\ disp[q].run = NoRun
              \/ at = "tracing" /\ disp[q].run # NoRun
                 /\ env' = [env EXCEPT !.failure = @ \/ disp[q].err]
    <3>1. CASE disp[q].run = NoRun
      <4>1. disp' = [disp EXCEPT ![q] = [disp[q] EXCEPT !.at = "done", !.events = 0]]
        BY <1>8, <3>1 DEF Observe
      <4> QED BY <1>8, <3>1, <4>1 DEF Observe
    <3>2. CASE disp[q].run # NoRun
      <4>1. disp[q] \in Disp
        BY <1>0
      <4>2. [disp[q] EXCEPT !.at = "tracing"]
               = [disp[q] EXCEPT !.at = "tracing", !.events = disp[q].events]
        BY <4>1 DEF Disp
      <4>3. disp' = [disp EXCEPT ![q] = [disp[q] EXCEPT !.at = "tracing"]]
        BY <1>8, <3>2 DEF Observe
      <4>4. disp[q].events \in 0..2
        BY <4>1 DEF Disp
      <4> QED BY <1>8, <3>2, <4>2, <4>3, <4>4 DEF Observe
    <3> QED BY <3>1, <3>2
  <2>2. PICK d : d = [disp[q] EXCEPT !.at = at, !.events = events]
    OBVIOUS
  <2>3. d \in Disp /\ d.at = at /\ d.err = disp[q].err /\ d.run = disp[q].run
    BY <1>0, <2>2 DEF Disp
  <2>4. disp' = [disp EXCEPT ![q] = d]
    BY <2>1, <2>2
  <2>5. at = "tracing" => (disp[q].err => env'.failure)
    BY <2>0, <2>1 DEF Inv, TypeOK
  <2> QED BY <1>1, <2>1, <2>3, <2>4, <2>5
<1>9. ASSUME NEW q \in Requests, AppendTrace(q)
      PROVE  Goal
  <2>0. /\ disp[q] \in Disp /\ disp[q].events \in 0..2 /\ disp[q].at = "tracing"
        /\ disp[q].events > 0 => disp[q].events - 1 \in 0..2
    BY <1>0, <1>9 DEF Disp, AppendTrace
  <2>1. ASSUME NEW at \in {"done", "tracing", "full"}, NEW events \in 0..2,
               disp' = [disp EXCEPT ![q] = [disp[q] EXCEPT !.at = at, !.events = events]]
        PROVE  Goal
    <3>1. PICK d : d = [disp[q] EXCEPT !.at = at, !.events = events]
      OBVIOUS
    <3>2. d \in Disp /\ d.at = at /\ d.err = disp[q].err /\ d.run = disp[q].run
      BY <2>0, <3>1 DEF Disp
    <3> QED BY <1>1, <2>0, <2>1, <3>1, <3>2
  <2>2. CASE disp' = [disp EXCEPT ![q].at = "done"]
    <3>1. [disp[q] EXCEPT !.at = "done"]
             = [disp[q] EXCEPT !.at = "done", !.events = disp[q].events]
      BY <2>0 DEF Disp
    <3> QED BY <2>0, <2>1, <2>2, <3>1
  <2>3. CASE disp' = [disp EXCEPT ![q].events = @ - 1] /\ disp[q].events > 0
    <3>1. [disp[q] EXCEPT !.events = @ - 1]
             = [disp[q] EXCEPT !.at = "tracing", !.events = disp[q].events - 1]
      BY <2>0 DEF Disp
    <3> QED BY <2>0, <2>1, <2>3, <3>1
  <2>4. CASE disp' = [disp EXCEPT ![q].events = @ - 1, ![q].at = "full"] /\ disp[q].events > 0
    <3>1. [disp[q] EXCEPT !.events = @ - 1, !.at = "full"]
             = [disp[q] EXCEPT !.at = "full", !.events = disp[q].events - 1]
      BY <2>0 DEF Disp
    <3>2. disp' = [disp EXCEPT ![q] = [disp[q] EXCEPT !.events = @ - 1, !.at = "full"]]
      BY <2>4
    <3> QED BY <2>0, <2>1, <2>4, <3>1, <3>2
  <2> QED BY <1>9, <2>2, <2>3, <2>4 DEF AppendTrace
<1>10. ASSUME NEW q \in Requests, TraceFails(q)
       PROVE  Goal
  <2>1. PICK d : d = [disp[q] EXCEPT !.at = "aborting"]
    OBVIOUS
  <2>2. d \in Disp /\ d.at = "aborting" /\ d.err = disp[q].err /\ d.run = disp[q].run
    BY <1>0, <2>1 DEF Disp
  <2>3. disp' = [disp EXCEPT ![q] = d] /\ disp[q].at = "full"
    BY <1>10, <2>1 DEF TraceFails
  <2> QED BY <1>1, <2>2, <2>3
<1>11. ASSUME NEW q \in Requests, TraceAborts(q)
       PROVE  Goal
  <2>1. ASSUME NEW p \in Requests
        PROVE  /\ disp'[p] \in Disp
               /\ \/ disp'[p] = disp[p] \/ disp'[p].at = "replied"
                  \/ /\ disp[p].at = "aborting" /\ disp'[p].at = "tracing"
                     /\ disp'[p].err = disp[p].err /\ disp'[p].run = disp[p].run
    <3>1. Reply(p, TRUE, 1) \in Disp /\ Reply(p, TRUE, 1).at = "replied"
      BY <1>0, Replied
    <3> QED BY <1>0, <1>11, <3>1 DEF TraceAborts, Disp
  <2>2. disp' \in [Requests -> Disp]
    BY <1>11, <2>1 DEF TraceAborts
  <2>3. \A p \in Requests : Told(p)
    BY <2>1 DEF Told
  <2> QED BY <2>2, <2>3 DEF Goal
<1>12. ASSUME NEW b \in Bindings, PluginAborts(b)
       PROVE  Goal
  BY <1>2, <1>3, <1>12 DEF PluginAborts
<1>13. ASSUME \/ \E d \in Destroyers : DestroyStops(d) \/ DestroyEnds(d)
              \/ \E r \in Runs : CancelPending(r)
       PROVE  Goal
  BY <1>2, <1>13 DEF DestroyStops, DestroyEnds, CancelPending
<1>14. Goal
  BY <1>3, <1>4, <1>5, <1>6, <1>7, <1>8, <1>9, <1>10, <1>11, <1>12, <1>13, DispChanges
<1> QED BY <1>14 DEF Goal

LEMMA TraceType ==
    ASSUME Inv, [Next]_vars
    PROVE  trace' \in [Runs -> 0..TraceLimit]
<1>0. trace \in [Runs -> 0..TraceLimit]
  BY DEF Inv, TypeOK
<1>1. ASSUME NEW r \in Runs, trace[r] < TraceLimit, trace' = [trace EXCEPT ![r] = @ + 1]
      PROVE  trace' \in [Runs -> 0..TraceLimit]
  <2>1. trace[r] + 1 \in 0..TraceLimit
    BY <1>0, <1>1, Numbers
  <2> QED BY <1>0, <1>1, <2>1
<1>2. CASE StartCommits
  <2>1. starting.run \in Runs
    BY <1>2 DEF StartCommits, Unlocked, Inv, TypeOK, MaybeRun
  <2> QED BY <1>0, <1>1, <1>2, <2>1 DEF StartCommits
<1>3. ASSUME NEW q \in Requests, AppendTrace(q)
      PROVE  trace' \in [Runs -> 0..TraceLimit]
  <2>1. disp[q].run \in Runs
    BY <1>3 DEF AppendTrace, Inv, TypeOK, MaybeRun, FailureInv
  <2> QED BY <1>0, <1>1, <1>3, <2>1 DEF AppendTrace
<1>4. ASSUME NEW r \in Runs, Verify(r)
      PROVE  trace' \in [Runs -> 0..TraceLimit]
  BY <1>0, <1>1, <1>4 DEF Verify
<1> QED BY <1>0, <1>2, <1>3, <1>4, TraceChanges

LEMMA TypeStep ==
    ASSUME Inv, [Next]_vars
    PROVE  TypeOK'
<1>1. effects' \in [Bindings -> SUBSET Requests]
  <2>1. effects \in [Bindings -> SUBSET Requests]
    BY DEF Inv, TypeOK
  <2>2. ASSUME NEW q \in Requests, Execute(q) \/ Answered(q)
        PROVE  effects' = effects \/ effects' = [effects EXCEPT ![BindingOf[q]] = @ \cup {q}]
    BY <2>2 DEF Execute, Answered
  <2> QED BY <2>1, <2>2, EffectsChanges
<1>2. verified' \in [Bindings -> SUBSET Requests]
  <2>1. verified \in [Bindings -> SUBSET Requests] /\ effects \in [Bindings -> SUBSET Requests]
    BY DEF Inv, TypeOK
  <2>2. ASSUME NEW r \in Runs, Verify(r)
        PROVE  \/ verified' = verified
               \/ \E b \in Bindings : verified' = [verified EXCEPT ![b] = effects[b]]
    <3>1. finishing[r].at <= Last => BindingSeq[finishing[r].at] \in Bindings
      BY Numbers DEF Inv, TypeOK
    <3> QED BY <2>2, <3>1 DEF Verify
  <2> QED BY <2>1, <2>2, VerifiedChanges
<1>3. ids' \subseteq Runs
  <2>1. ids \subseteq Runs
    BY DEF Inv, TypeOK
  <2>2. \A r \in Runs : StartBegins(r) => ids' = ids \cup {r}
    BY DEF StartBegins
  <2> QED BY <2>1, <2>2, IdsChanges
<1>4. disp' \in [Requests -> Disp]
  BY DispStep
<1> QED BY <1>1, <1>2, <1>3, <1>4, ExecType, EnvType, StartingType, FinishingType, DestroyingType,
           BindType, GoneType, WatchType, TraceType DEF TypeOK, Disp, Call

-------------------------------------------------------------------------------
(* The life of a run.                                                       *)

\* What is asked of a run is noted; nothing else of it changes.
Marked(r) ==
    /\ exec'[r].place = exec[r].place /\ exec'[r].status = exec[r].status
    /\ exec'[r].local = exec[r].local /\ finishing'[r] = finishing[r]
    /\ exec[r].stopped => exec'[r].stopped
    /\ exec[r].exceeded => exec'[r].exceeded
    /\ exec[r].aborted => exec'[r].aborted
Begun(r) ==
    /\ StartCommits /\ starting.run = r /\ exec[r].place = "none"
    /\ exec'[r].place = "running" /\ exec'[r].status = "running"
    /\ finishing'[r] = finishing[r]
Exited(r) ==
    /\ exec[r].place = "running" /\ exec'[r].place = "exited"
    /\ exec'[r].status = exec[r].status /\ finishing'[r] = finishing[r]
    /\ exec'[r].stopped = exec[r].stopped /\ exec'[r].exceeded = exec[r].exceeded
    /\ exec'[r].aborted = exec[r].aborted
Judged(r) ==
    /\ exec[r].place = "exited" /\ exec'[r].place = "judged"
    /\ exec'[r].status = exec[r].status /\ finishing'[r] = finishing[r]
    /\ exec'[r].local = Verdict(exec[r])
Checking(r) ==
    /\ exec'[r] = exec[r] /\ exec[r].place = "judged"
    /\ \/ finishing[r].step = "none" /\ finishing'[r].step = "cancel"
       \/ finishing[r].step = "cancel" /\ finishing'[r].step = "failure"
       \/ /\ finishing[r].step = "failure" /\ finishing'[r].step \in {"seal", "verify"}
          /\ env.failure => finishing'[r].step = "seal" /\ ~finishing'[r].ok
       \/ finishing[r].step = "verify" /\ finishing'[r].step \in {"seal", "verify"}
Sealed(r) ==
    /\ exec[r].place = "judged" /\ exec'[r].place = "checked"
    /\ finishing[r].step = "seal" /\ finishing'[r].step = "returned"
    /\ exec'[r].status = exec[r].status
    /\ exec'[r].local = IF ~finishing[r].ok /\ exec[r].local = "succeeded" THEN "failed"
                        ELSE exec[r].local
Published(r) ==
    /\ exec[r].place = "checked" /\ exec'[r].place = "done"
    /\ finishing'[r] = finishing[r] /\ exec'[r].status = exec[r].local

Evolved(r) ==
    \/ Marked(r) \/ Begun(r) \/ Exited(r) \/ Judged(r) \/ Checking(r) \/ Sealed(r)
    \/ Published(r)

LEMMA MarkedByOthers ==
    ASSUME exec \in [Runs -> Execution], NEW r \in Runs, NEW p, UNCHANGED finishing,
           StopRun(p) \/ Abort(p) \/ Timeout(p) \/ Exceed(p)
    PROVE  Marked(r)
BY DEF StopRun, Abort, Timeout, Exceed, Marked, Execution

LEMMA MarkedWhenUnchanged ==
    ASSUME NEW r, exec'[r] = exec[r], finishing'[r] = finishing[r]
    PROVE  Marked(r)
BY DEF Marked

LEMMA RunEvolves ==
    ASSUME Inv, [Next]_vars, NEW r \in Runs
    PROVE  Evolved(r)
<1>0. /\ exec \in [Runs -> Execution] /\ \A p \in Runs : RunInv(p)
      /\ finishing \in [Runs -> [step : {"none", "cancel", "failure", "verify", "seal",
                                         "returned"},
                                 pending : BOOLEAN, ok : BOOLEAN, at : 1..(Last + 1)]]
  BY DEF Inv, TypeOK
<1>1. ASSUME exec'[r] = exec[r], finishing'[r] = finishing[r]
      PROVE  Evolved(r)
  BY <1>1, MarkedWhenUnchanged DEF Evolved
<1>2. ASSUME StartCommits
      PROVE  Evolved(r)
  <2>1. UNCHANGED finishing
    BY <1>2 DEF StartCommits
  <2>2. CASE UNCHANGED exec
    BY <1>1, <2>1, <2>2
  <2>3. CASE Start(starting.run) /\ starting.run # r
    BY <1>0, <1>1, <2>1, <2>3 DEF Start
  <2>4. CASE Start(starting.run) /\ starting.run = r
    BY <1>0, <1>2, <2>1, <2>4 DEF Start, Evolved, Begun, Execution
  <2> QED BY <1>2, <2>2, <2>3, <2>4 DEF StartCommits
<1>3. ASSUME NEW p, UNCHANGED finishing, StopRun(p) \/ Abort(p)
      PROVE  Evolved(r)
  BY <1>0, <1>3, MarkedByOthers DEF Evolved
<1>4. ASSUME NEW p \in Runs, Job(p)
      PROVE  Evolved(r)
  <2>1. UNCHANGED finishing /\ RunStep(p)
    BY <1>4 DEF Job
  <2>2. CASE Timeout(p) \/ Exceed(p)
    BY <1>0, <2>1, <2>2, MarkedByOthers DEF Evolved
  <2>3. CASE p # r /\ (Exit(p) \/ Judge(p) \/ Publish(p))
    BY <1>0, <1>1, <2>1, <2>3 DEF Exit, Judge, Publish
  <2>4. CASE p = r /\ Exit(p)
    <3>1. PICK outcome \in {"ok", "bad"} :
             exec' = [exec EXCEPT ![r].place = "exited", ![r].exit = outcome]
      BY <2>4 DEF Exit
    <3> QED BY <1>0, <2>1, <2>4, <3>1 DEF Exit, Evolved, Exited, Execution
  <2>5. CASE p = r /\ Judge(p)
    <3>1. PICK v : v = Verdict(exec[r])
      OBVIOUS
    <3>2. exec' = [exec EXCEPT ![r].place = "judged", ![r].exit = "none", ![r].local = v]
          /\ exec[r].place = "exited"
      BY <2>5, <3>1 DEF Judge
    <3> QED BY <1>0, <2>1, <3>1, <3>2 DEF Evolved, Judged, Execution
  <2>6. CASE p = r /\ Publish(p)
    <3>1. /\ exec' = [exec EXCEPT ![r] = [NoExecution EXCEPT !.place = "done",
                                                           !.status = exec[r].local]]
          /\ exec[r].place = "checked"
      BY <2>6 DEF Publish
    <3> QED BY <1>0, <2>1, <3>1 DEF Evolved, Published, NoExecution
  <2> QED BY <2>1, <2>2, <2>3, <2>4, <2>5, <2>6 DEF RunStep
<1>5. ASSUME NEW p \in Runs,
             CountPending(p) \/ CancelPending(p) \/ ReadFailure(p) \/ Verify(p)
      PROVE  Evolved(r)
  <2>1. UNCHANGED <<exec, env>>
    BY <1>5 DEF CountPending, CancelPending, ReadFailure, Verify
  <2>2. ASSUME p # r
        PROVE  finishing'[r] = finishing[r]
    BY <1>0, <1>5, <2>2 DEF CountPending, CancelPending, ReadFailure, Verify
  <2>3. ASSUME p = r
        PROVE  Checking(r)
    <3>1. exec[r].place = "judged"
      BY <1>0, <1>5, <2>3 DEF CountPending, CancelPending, ReadFailure, Verify, RunInv
    <3>2. CASE CountPending(p)
      BY <1>0, <2>1, <2>3, <3>1, <3>2 DEF CountPending, Checking
    <3>3. CASE CancelPending(p)
      BY <1>0, <2>1, <2>3, <3>1, <3>3 DEF CancelPending, Checking
    <3>4. CASE ReadFailure(p)
      BY <1>0, <2>1, <2>3, <3>1, <3>4 DEF ReadFailure, Checking
    <3>5. CASE Verify(p)
      BY <1>0, <2>1, <2>3, <3>1, <3>5 DEF Verify, Checking
    <3> QED BY <1>5, <3>2, <3>3, <3>4, <3>5
  <2> QED BY <1>1, <2>1, <2>2, <2>3 DEF Evolved
<1>6. ASSUME NEW p \in Runs, SealAndReturn(p)
      PROVE  Evolved(r)
  <2>1. CASE p # r
    BY <1>0, <1>1, <1>6, <2>1 DEF SealAndReturn, Checked
  <2>2. CASE p = r
    <3>1. finishing'[r].step = "returned" /\ finishing[r].step = "seal"
      BY <1>0, <1>6, <2>2 DEF SealAndReturn, Idle
    <3>2. PICK l : l = IF ~finishing[r].ok /\ exec[r].local = "succeeded" THEN "failed"
                       ELSE exec[r].local
      OBVIOUS
    <3>3. /\ exec' = [exec EXCEPT ![r].place = "checked", ![r].local = l]
          /\ exec[r].place = "judged"
      BY <1>6, <2>2, <3>2 DEF SealAndReturn, Checked
    <3> QED BY <1>0, <3>1, <3>2, <3>3 DEF Evolved, Sealed, Execution
  <2> QED BY <2>1, <2>2
<1>7. ASSUME UNCHANGED exec
      PROVE  Evolved(r)
  BY <1>1, <1>5, <1>6, <1>7, FinishingChanges
<1>8. ASSUME NEW d \in Destroyers, DestroyStops(d)
      PROVE  Evolved(r)
  BY <1>3, <1>8 DEF DestroyStops
<1>9. ASSUME NEW q \in Requests, TraceAborts(q)
      PROVE  Evolved(r)
  BY <1>3, <1>9 DEF TraceAborts
<1>10. ASSUME NEW b \in Bindings, PluginAborts(b)
       PROVE  Evolved(r)
  BY <1>3, <1>7, <1>10 DEF PluginAborts
<1> QED BY <1>2, <1>4, <1>6, <1>7, <1>8, <1>9, <1>10, ExecChanges

-------------------------------------------------------------------------------
(* The invariant is inductive.                                              *)

\* The environment gets a run only when it had none.
LEMMA RunIsKept ==
    ASSUME Inv, [Next]_vars
    PROVE  env.run # NoRun => env'.run = env.run
BY EnvType DEF StartCommits, Inv, StartInv

LEMMA RunInvStep ==
    ASSUME Inv, [Next]_vars, NEW r \in Runs
    PROVE  RunInv(r)'
<1>0. RunInv(r) /\ r # NoRun
  BY Numbers DEF Inv
<1>1. exec[r].place # "none" => env'.run = r
  BY <1>0, RunIsKept DEF RunInv
<1>2. CASE Begun(r)
  <2>1. env'.run = r
    BY <1>2 DEF Begun, StartCommits, Inv, TypeOK
  <2> QED BY <1>0, <1>2, <2>1 DEF Begun, RunInv
<1>3. CASE Marked(r)
  BY <1>0, <1>1, <1>3 DEF Marked, RunInv
<1>4. CASE Exited(r)
  BY <1>0, <1>1, <1>4 DEF Exited, RunInv
<1>5. CASE Judged(r)
  BY <1>0, <1>1, <1>5 DEF Judged, RunInv
<1>6. CASE Checking(r)
  BY <1>0, <1>1, <1>6 DEF Checking, RunInv
<1>7. CASE Sealed(r)
  BY <1>0, <1>1, <1>7 DEF Sealed, RunInv
<1>8. CASE Published(r)
  BY <1>0, <1>1, <1>8 DEF Published, RunInv
<1> QED BY <1>2, <1>3, <1>4, <1>5, <1>6, <1>7, <1>8, RunEvolves DEF Evolved

LEMMA StartStep ==
    ASSUME Inv, [Next]_vars
    PROVE  StartInv'
<1>0. StartInv /\ starting \in [run : MaybeRun, at : 1..(Last + 1)]
  BY DEF Inv, TypeOK
<1>1. CASE UNCHANGED starting
  <2>1. ~StartCommits
    BY <1>0, <1>1 DEF StartCommits, Unlocked, NotStarting
  <2>2. ~Unlocked => \A d \in Destroyers : ~DestroyBegins(d)
    BY DEF DestroyBegins
  <2> QED BY <1>0, <1>1, <2>1, <2>2, EnvType DEF StartInv, Unlocked
<1>2. CASE AssignRun
  BY <1>0, <1>2 DEF AssignRun, StartInv, Unlocked, NotStarting
<1>3. CASE StartCommits
  BY <1>3 DEF StartCommits, StartInv, Unlocked, NotStarting
<1>4. ASSUME NEW r \in Runs, StartBegins(r)
      PROVE  StartInv'
  BY <1>4 DEF StartBegins, StartInv
<1> QED BY <1>1, <1>2, <1>3, <1>4, StartingChanges

\* A run that has ended, or never started, stays so once the destruction has begun.
LEMMA EndedStays ==
    ASSUME Inv, [Next]_vars, env.destroyed, NEW r \in Runs, Ended(r)
    PROVE  Ended(r)'
<1>1. ~Begun(r)
  BY DEF Begun, StartCommits, Inv, StartInv
<1> QED BY <1>1, RunEvolves DEF Evolved, Marked, Exited, Judged, Checking, Sealed, Published, Ended

LEMMA CallInvStep ==
    ASSUME Inv, [Next]_vars, NEW d \in Destroyers
    PROVE  CallInv(d)'
<1>0. /\ CallInv(d) /\ destroying[d] \in Call /\ Last \in Nat
      /\ \A r \in Runs : RunInv(r)
  BY Numbers DEF Inv, DestroyInv, TypeOK, Call
<1>1. /\ env.destroyed => env'.destroyed
      /\ env.run # NoRun => env'.run = env.run
      /\ env.destroyed => \A r \in Runs : Ended(r) => Ended(r)'
      /\ \A i \in 1..Last : ~bind[BindingSeq[i]].listed => ~bind'[BindingSeq[i]].listed
  BY EnvType, RunIsKept, EndedStays, BindType, Numbers
<1>2. CASE destroying'[d] = destroying[d]
  BY <1>0, <1>1, <1>2 DEF CallInv, Call
<1>3. CASE DestroyBegins(d)
  <2>0. /\ destroying'[d].at = destroying[d].at /\ destroying'[d].run = env.run
        /\ destroying'[d].step = IF env.run = NoRun THEN "bindings" ELSE "stop"
    BY <1>3, CallStep DEF Destroy, DestroyBegins, DestroyStops, DestroyWaits, DestroyEnds,
         DestroyNextBinding, DestroySeals, DestroyStopsPlugins
  <2>1. env'.destroyed /\ UNCHANGED <<exec, bind>>
    BY <1>3 DEF DestroyBegins, Inv, TypeOK
  <2>2. env'.run = env.run
    BY <1>3 DEF DestroyBegins, Inv, TypeOK
  <2>3. env.run = NoRun => \A r \in Runs : Ended(r)'
    BY <1>0, <2>1, Numbers DEF RunInv, Ended
  <2> QED BY <1>0, <2>0, <2>1, <2>2, <2>3 DEF CallInv
<1>4. CASE DestroyStops(d)
  <2>1. /\ destroying'[d].at = destroying[d].at /\ destroying'[d].run = destroying[d].run
        /\ destroying'[d].step = "wait" /\ destroying[d].step = "stop"
    BY <1>4 DEF DestroyStops, Inv, TypeOK
  <2> QED BY <1>0, <1>1, <2>1 DEF CallInv
<1>5. CASE DestroyWaits(d) /\ destroying'[d] # NotDestroying
  <2>1. /\ destroying'[d].at = destroying[d].at /\ Ended(destroying[d].run)
        /\ destroying'[d].step = "bindings" /\ destroying[d].step = "wait"
        /\ UNCHANGED exec
    BY <1>5 DEF DestroyWaits, Inv, TypeOK
  <2>2. \A r \in Runs : Ended(r)'
    BY <1>0, <2>1 DEF CallInv, RunInv, Ended
  <2> QED BY <1>0, <1>1, <2>1, <2>2 DEF CallInv
<1>6. CASE destroying'[d] = NotDestroying
  BY <1>6 DEF CallInv, NotDestroying
<1>7. CASE DestroyNextBinding(d)
  <2>0. destroying[d].step = "bindings" /\ destroying[d].at \in 1..Last
    BY <1>0, <1>7 DEF DestroyNextBinding, Call
  <2>1. CASE /\ destroying'[d].step = "sealing" /\ destroying'[d].at = destroying[d].at
             /\ Remove(BindingSeq[destroying[d].at])
    <3>1. ~bind'[BindingSeq[destroying[d].at]].listed
      BY <2>0, <2>1, Numbers DEF Remove, Inv, TypeOK
    <3> QED BY <1>0, <1>1, <2>0, <2>1, <3>1 DEF CallInv
  <2>2. CASE /\ destroying'[d].step = "bindings" /\ ~bind[BindingSeq[destroying[d].at]].listed
             /\ destroying'[d].at = destroying[d].at + 1
    BY <1>0, <1>1, <2>0, <2>2 DEF CallInv
  <2> QED BY <1>7, <2>1, <2>2 DEF DestroyNextBinding, Inv, TypeOK
<1>8. CASE DestroySeals(d)
  <2>1. /\ destroying'[d].at = destroying[d].at /\ destroying'[d].step = "stopping"
        /\ destroying[d].step = "sealing"
    BY <1>8 DEF DestroySeals, Inv, TypeOK
  <2> QED BY <1>0, <1>1, <2>1 DEF CallInv, Call
<1>9. CASE DestroyStopsPlugins(d)
  <2>1. /\ destroying'[d].at = destroying[d].at + 1 /\ destroying'[d].step = "bindings"
        /\ destroying[d].step = "stopping"
    BY <1>9 DEF DestroyStopsPlugins, Inv, TypeOK
  <2> QED BY <1>0, <1>1, <2>1 DEF CallInv, Call
<1>10. CASE DestroyEnds(d)
  BY <1>6, <1>10 DEF DestroyEnds, Inv, TypeOK
<1> QED BY <1>2, <1>3, <1>4, <1>5, <1>6, <1>7, <1>8, <1>9, <1>10, CallChanges DEF Destroy

\* Nobody gives the cleanup of a binding up before its plugins have exited.
LEMMA CleanupStep ==
    ASSUME Inv, [Next]_vars, NEW b \in Bindings, CleanedUp(b)
    PROVE  CleanedUp(b)' \/ gone'[b] = Sides
<1>0. /\ watch \in [Bindings -> [step : {"waiting", "failed", "aborting", "destroying",
                                         "sealing", "stopping", "ended"}, run : MaybeRun]]
      /\ gone \in [Bindings -> SUBSET Sides]
  BY DEF Inv, TypeOK
<1>1. CASE watch[b].step \in {"sealing", "stopping"}
  <2>1. CASE UNCHANGED watch
    BY <1>1, <2>1 DEF CleanedUp
  <2>2. ASSUME NEW c \in Bindings, Watcher(c)
        PROVE  watch'[b].step \in {"sealing", "stopping"} \/ gone'[b] = Sides
    BY <1>0, <1>1, <2>2 DEF Watcher, WatchEnds, PluginFails, PluginAborts, PluginRemoved,
         WatchSeals, WatchStops, StopPlugins
  <2> QED BY <2>1, <2>2, WatchChanges DEF Watcher, CleanedUp
<1>2. ASSUME NEW d \in Destroyers, destroying[d].step \in {"sealing", "stopping"},
             BindingSeq[destroying[d].at] = b
      PROVE  CleanedUp(b)' \/ gone'[b] = Sides
  <2>1. CASE destroying'[d] = destroying[d]
    BY <1>2, <2>1 DEF CleanedUp
  <2>2. CASE DestroySeals(d)
    <3>1. destroying'[d].at = destroying[d].at /\ destroying'[d].step = "stopping"
      BY <2>2 DEF DestroySeals, Inv, TypeOK
    <3> QED BY <1>2, <3>1 DEF CleanedUp
  <2>3. CASE DestroyStopsPlugins(d)
    BY <1>0, <1>2, <2>3 DEF DestroyStopsPlugins, StopPlugins
  <2>4. Destroy(d) => DestroySeals(d) \/ DestroyStopsPlugins(d)
    BY <1>2 DEF Destroy, DestroyBegins, DestroyStops, DestroyWaits, DestroyNextBinding, DestroyEnds
  <2> QED BY <2>1, <2>2, <2>3, <2>4, CallChanges
<1> QED BY <1>1, <1>2 DEF CleanedUp

LEMMA DestroyStep ==
    ASSUME Inv, [Next]_vars
    PROVE  DestroyInv'
<1>0. DestroyInv /\ TypeOK
  BY DEF Inv
<1>1. \A d \in Destroyers : CallInv(d)'
  BY CallInvStep
<1>2. ASSUME ~env'.listed
      PROVE  env'.destroyed /\ (\A r \in Runs : Ended(r)') /\ \A b \in Bindings : ~bind'[b].listed
  <2>1. CASE ~env.listed
    BY <1>0, <2>1, EnvType, EndedStays, BindType DEF DestroyInv
  <2>2. ASSUME NEW d \in Destroyers, DestroyEnds(d)
        PROVE  /\ env.destroyed /\ \A r \in Runs : Ended(r)
               /\ \A b \in Bindings : ~bind[b].listed
    <3>1. /\ CallInv(d) /\ destroying[d].step = "bindings" /\ destroying[d].at > Last
          /\ destroying[d].at \in 1..(Last + 1)
      BY <1>0, <2>2 DEF DestroyEnds, DestroyInv, TypeOK
    <3>2. ASSUME NEW b \in Bindings
          PROVE  ~bind[b].listed
      <4>1. PICK i \in 1..Last : BindingSeq[i] = b
        BY Numbers
      <4> QED BY <3>1, <4>1, Numbers DEF CallInv
    <3> QED BY <3>1, <3>2 DEF CallInv
  <2> QED BY <1>2, <2>1, <2>2, EnvType, EndedStays, BindType
<1>3. ASSUME NEW b \in Bindings, ~bind'[b].listed
      PROVE  gone'[b] = Sides \/ CleanedUp(b)'
  <2>1. CASE bind[b].listed
    BY <1>3, <2>1, BindType
  <2>2. CASE gone[b] = Sides
    BY <2>2, GoneType
  <2>3. CASE CleanedUp(b)
    BY <2>3, CleanupStep
  <2> QED BY <1>0, <2>1, <2>2, <2>3 DEF DestroyInv
<1> QED BY <1>1, <1>2, <1>3 DEF DestroyInv

LEMMA FailureStep ==
    ASSUME Inv, [Next]_vars
    PROVE  FailureInv'
<1>0. FailureInv /\ (env.failure => env'.failure)
  BY EnvType DEF Inv
<1>1. ASSUME NEW q \in Requests
      PROVE  /\ disp'[q].at \in {"tracing", "full", "aborting"} => disp'[q].run # NoRun
             /\ disp'[q].at \in {"tracing", "full", "aborting", "done"}
                /\ disp'[q].run # NoRun /\ disp'[q].err => env'.failure
  <2>1. Told(q)
    BY DispStep
  <2> QED BY <1>0, <2>1 DEF Told, FailureInv
<1>2. ASSUME NEW b \in Bindings, watch'[b].step = "aborting"
      PROVE  env'.failure
  <2>0. /\ watch \in [Bindings -> [step : {"waiting", "failed", "aborting", "destroying",
                                           "sealing", "stopping", "ended"}, run : MaybeRun]]
        /\ env \in [run : MaybeRun, failure : BOOLEAN, destroyed : BOOLEAN, listed : BOOLEAN]
    BY DEF Inv, TypeOK
  <2>1. ASSUME NEW c \in Bindings, PluginFails(c)
        PROVE  env'.failure
    BY <2>0, <2>1 DEF PluginFails
  <2>2. ASSUME NEW c \in Bindings, \/ WatchEnds(c) \/ PluginAborts(c) \/ PluginRemoved(c)
                                    \/ WatchSeals(c) \/ WatchStops(c)
        PROVE  watch[b].step = "aborting"
    BY <1>2, <2>0, <2>2 DEF WatchEnds, PluginAborts, PluginRemoved, WatchSeals, WatchStops
  <2> QED BY <1>0, <1>2, <2>1, <2>2, WatchChanges DEF FailureInv
<1> QED BY <1>1, <1>2 DEF FailureInv

LEMMA InitInv == Init => Inv
<1> SUFFICES ASSUME Init PROVE Inv
  OBVIOUS
<1>0. 1 \in 1..(Last + 1) /\ 0 \in 0..TraceLimit /\ 0 \in 0..2 /\ NoRun \in MaybeRun
  BY Numbers DEF MaybeRun
<1>1. TypeOK
  <2>1. exec \in [Runs -> Execution]
    BY DEF Init, RunInit, NoExecution, Execution, Places, RunStates
  <2>2. disp \in [Requests -> Disp]
    BY <1>0 DEF Init, Disp
  <2> QED BY <1>0, <2>1, <2>2 DEF Init, TypeOK, Disp, NotStarting, Idle, NotDestroying
<1>2. ASSUME NEW r \in Runs
      PROVE  RunInv(r)
  BY DEF Init, RunInit, NoExecution, RunInv, Idle
<1>3. StartInv
  BY DEF Init, StartInv, Unlocked, NotStarting
<1>4. DestroyInv
  BY Numbers DEF Init, DestroyInv, CallInv, NotDestroying
<1>5. FailureInv
  BY DEF Init, FailureInv
<1> QED BY <1>1, <1>2, <1>3, <1>4, <1>5 DEF Inv

LEMMA InvStep == Inv /\ [Next]_vars => Inv'
BY TypeStep, RunInvStep, StartStep, DestroyStep, FailureStep DEF Inv

-------------------------------------------------------------------------------
(* The theorems.                                                            *)

THEOREM Invariance == Spec => []Inv
BY InitInv, InvStep, PTL DEF Spec

\* Every variable keeps its type, and no trace exceeds its limit.
THEOREM TypeCorrect == Spec => []TypeOK
<1>1. Inv => TypeOK
  BY DEF Inv
<1> QED BY <1>1, Invariance, PTL

\* Whatever calls of DestroyEnvironment and watchers overlap: when one of them has removed
\* the environment, no run is left or can start, every binding has been taken out, and the
\* plugins of each are gone or somebody is going to stop them.
THEOREM DestroyCorrect == Spec => []DestroyForgetsNothing
<1>1. Inv => DestroyForgetsNothing
  BY DEF Inv, DestroyInv, DestroyForgetsNothing
<1> QED BY <1>1, Invariance, PTL

LEMMA DoomedStays ==
    ASSUME NEW r \in Runs
    PROVE  Inv /\ Doomed(r) /\ [Next]_vars => Doomed(r)'
<1> SUFFICES ASSUME Inv, Doomed(r), [Next]_vars PROVE Doomed(r)'
  OBVIOUS
<1>0. RunInv(r) /\ (env.failure => env'.failure)
  BY EnvType DEF Inv
<1>1. CASE Marked(r)
  BY <1>0, <1>1 DEF Marked, Doomed
<1>2. CASE Begun(r)
  BY <1>2 DEF Begun, Doomed
<1>3. CASE Exited(r)
  BY <1>0, <1>3 DEF Exited, Doomed
<1>4. CASE Judged(r)
  BY <1>0, <1>4 DEF Judged, Doomed, RunInv, Verdict
<1>5. CASE Checking(r)
  BY <1>0, <1>5 DEF Checking, Doomed
<1>6. CASE Sealed(r)
  BY <1>0, <1>6 DEF Sealed, Doomed
<1>7. CASE Published(r)
  BY <1>7 DEF Published, Doomed
<1> QED BY <1>1, <1>2, <1>3, <1>4, <1>5, <1>6, <1>7, RunEvolves DEF Evolved

LEMMA FailingStays ==
    ASSUME NEW r \in Runs
    PROVE  Inv /\ Failing(r) /\ [Next]_vars => Failing(r)'
<1> SUFFICES ASSUME Inv, Failing(r), [Next]_vars PROVE Failing(r)'
  OBVIOUS
<1>1. CASE Marked(r)
  BY <1>1 DEF Marked, Failing
<1>2. CASE Begun(r)
  BY <1>2 DEF Begun, Failing
<1>3. CASE Exited(r)
  BY <1>3 DEF Exited, Failing
<1>4. CASE Judged(r)
  <2>1. Verdict(exec[r]) = "failed"
    BY <1>4 DEF Judged, Failing, Verdict
  <2> QED BY <1>4, <2>1 DEF Judged, Failing
<1>5. CASE Checking(r)
  BY <1>5 DEF Checking, Failing
<1>6. CASE Sealed(r)
  BY <1>6 DEF Sealed, Failing
<1>7. CASE Published(r)
  BY <1>7 DEF Published, Failing
<1> QED BY <1>1, <1>2, <1>3, <1>4, <1>5, <1>6, <1>7, RunEvolves DEF Evolved

\* A run of which an error, a dead plugin, a stop or too much output was known while
\* its process ran is never reported as succeeded, and one that was aborted is
\* reported as failed: at any later time, whatever else happens to the run, its
\* requests, its plugins and its environment.
THEOREM SpoiledFail == Spec => SpoiledRunFails
<1>1. ASSUME NEW r \in Runs
      PROVE  Spec => [](Spoiled(r) => [](exec[r].status # "succeeded"))
  <2>1. Inv /\ Spoiled(r) => Doomed(r)
    BY <1>1, Numbers DEF Inv, FailureInv, Spoiled, Doomed
  <2>2. Inv /\ Doomed(r) => exec[r].status # "succeeded"
    BY <1>1 DEF Inv, RunInv, Doomed
  <2>3. Inv /\ Doomed(r) /\ [Next]_vars => Doomed(r)'
    BY <1>1, DoomedStays
  <2> QED BY <2>1, <2>2, <2>3, Invariance, PTL DEF Spec
<1>2. ASSUME NEW r \in Runs
      PROVE  Spec => [](exec[r].place = "running" /\ exec[r].aborted
                        => [](exec[r].status \in {"running", "failed"}))
  <2>1. exec[r].place = "running" /\ exec[r].aborted => Failing(r)
    BY <1>2 DEF Failing
  <2>2. Inv /\ Failing(r) => exec[r].status \in {"running", "failed"}
    BY <1>2 DEF Inv, RunInv, Failing
  <2>3. Inv /\ Failing(r) /\ [Next]_vars => Failing(r)'
    BY <1>2, FailingStays
  <2> QED BY <2>1, <2>2, <2>3, Invariance, PTL DEF Spec
<1> QED BY <1>1, <1>2 DEF SpoiledRunFails
==================================================================================
