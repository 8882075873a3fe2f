------------------------------ MODULE RunManager ------------------------------
(***************************************************************************)
(* internal/run/manager.go: the executions of test jobs.                   *)
(*                                                                         *)
(* A goroutine waits for the process of each run, derives a status from    *)
(* how it ended and from what was asked of the run (Stop, Abort, too much  *)
(* output, the timeout), has the caller's finish callback check it, and    *)
(* publishes the result.  Every flag is set under m.mu at any time before  *)
(* that, also while the status is being derived and checked.               *)
(***************************************************************************)
CONSTANT Runs

\* m.runs: the execution of each run ID, with the local variables of its
\* goroutine (local, exit) while they matter.
VARIABLE exec

\* Where the goroutine of a run is: in cmd.Wait(), past it, past the derivation
\* of the status, past finish(), and past the publication.
Places == {"none", "running", "exited", "judged", "checked", "done"}
RunStates == {"none", "running", "succeeded", "failed", "cancelled", "timed_out"}

Execution ==
    [place : Places, status : RunStates, local : RunStates,
     exit : {"none", "ok", "bad"}, ctx : {"live", "cancelled", "expired"},
     stopped : BOOLEAN, exceeded : BOOLEAN, aborted : BOOLEAN]

NoExecution ==
    [place |-> "none", status |-> "none", local |-> "none", exit |-> "none",
     ctx |-> "live", stopped |-> FALSE, exceeded |-> FALSE, aborted |-> FALSE]

RunInit == exec = [r \in Runs |-> NoExecution]

Cancelled(ctx) == IF ctx = "live" THEN "cancelled" ELSE ctx
Ended(r) == exec[r].place \in {"none", "done"}

Start(r) ==
    /\ exec[r].place = "none"
    /\ exec' = [exec EXCEPT ![r].place = "running", ![r].status = "running"]

Timeout(r) ==
    /\ ~Ended(r)
    /\ exec[r].ctx = "live"
    /\ exec' = [exec EXCEPT ![r].ctx = "expired"]

\* The writer of the job's output; Wait() returns after its last write.
Exceed(r) ==
    /\ exec[r].place = "running"
    /\ ~exec[r].exceeded
    /\ exec' = [exec EXCEPT ![r].exceeded = TRUE, ![r].ctx = Cancelled(@)]

\* Stop and Abort of a run that is done, or that does not exist, change nothing.
StopRun(r) ==
    exec' = IF Ended(r) THEN exec
            ELSE [exec EXCEPT ![r].stopped = TRUE, ![r].ctx = Cancelled(@)]

\* Mutant: an abort is noted, the process goes on.
Abort_FlagOnly(r) ==
    exec' = IF Ended(r) THEN exec ELSE [exec EXCEPT ![r].aborted = TRUE]

Abort(r) ==
    exec' = IF Ended(r) THEN exec
            ELSE [exec EXCEPT ![r].aborted = TRUE, ![r].ctx = Cancelled(@)]

\* cmd.Wait() returns.  It may return no error although the context is done, if
\* the process ended just before it was to be killed.
Exit(r) ==
    /\ exec[r].place = "running"
    /\ \E outcome \in {"ok", "bad"} :
          exec' = [exec EXCEPT ![r].place = "exited", ![r].exit = outcome]

\* The later checks of the code override the earlier ones.
Verdict(e) ==
    IF e.aborted \/ e.exceeded THEN "failed"
    ELSE IF e.stopped THEN "cancelled"
    ELSE IF e.ctx = "expired" THEN "timed_out"
    ELSE IF e.exit = "bad" THEN "failed"
    ELSE "succeeded"

Judge(r) ==
    /\ exec[r].place = "exited"
    /\ exec' = [exec EXCEPT ![r].place = "judged", ![r].exit = "none",
                            ![r].local = Verdict(exec[r])]

\* finish() has returned; its error fails a run that would have succeeded.
Checked(r, ok) ==
    /\ exec[r].place = "judged"
    /\ exec' = [exec EXCEPT ![r].place = "checked",
                            ![r].local = IF ~ok /\ @ = "succeeded" THEN "failed" ELSE @]

\* Nobody asks for the flags of a run that is done.
Publish(r) ==
    /\ exec[r].place = "checked"
    /\ exec' = [exec EXCEPT ![r] = [NoExecution EXCEPT !.place = "done",
                                                     !.status = exec[r].local]]

\* What the goroutine, the process and the timer of a run do.
RunStep(r) == Exit(r) \/ Judge(r) \/ Publish(r) \/ Timeout(r) \/ Exceed(r)
===============================================================================
