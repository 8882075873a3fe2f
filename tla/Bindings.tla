-------------------------------- MODULE Bindings --------------------------------
(***************************************************************************)
(* Plugin processes and who starts them: internal/plugin/runtime/process.go*)
(* (open, launch, Close, Prepare), Create, cleanup, Destroy and the watcher*)
(* of internal/binding/manager.go, and their callers in internal/app:      *)
(* CreateEnvironment, ValidateDocument, DestroyEnvironment, Close, and the *)
(* start and the end of a daemon (serve of cmd/x-mock/commands.go).        *)
(*                                                                         *)
(* A job is a call of the service: the creation and destruction of an      *)
(* environment with one binding, or the Put of a scenario.  It runs up to  *)
(* three plugin processes: one that validates the scenario, then the right *)
(* and the left one of the binding.  Each holds a reference to its version *)
(* from before it starts until its exit was waited for.                    *)
(***************************************************************************)
EXTENDS Catalog, ScenarioStore

CONSTANTS
    Environments, Puts,
    LeftRef, RightRef,
    Compile,      \* what an archive makes of a body: canonical, or NoBody
    NoBody,
    Preparers,    \* the archives whose manifest has the feature scenario.prepare
    MaxLost,      \* bound: releases that could not be written
    MaxCrashes    \* bound: daemons that stop or die

Jobs == Environments \cup Puts
Slots == {"prep", "right", "left"}
Ref(s) == IF s = "left" THEN LeftRef ELSE RightRef

ASSUME BindingsAssumption ==
    /\ Environments \cap Puts = {}
    /\ IsFiniteSet(Environments) /\ IsFiniteSet(Puts)
    /\ LeftRef \in Refs /\ RightRef \in Refs /\ LeftRef # RightRef
    /\ NoBody \notin Bodies /\ Preparers \subseteq Archives
    /\ Compile \in [Archives -> [Bodies -> Bodies \cup {NoBody}]]
    /\ MaxLost \in Nat /\ MaxCrashes \in Nat

VARIABLES
    job,        \* how far a job is, and what it has read
    proc,       \* the processes of a job
    entries,    \* m.entries: the bindings that were published
    envs,       \* s.envs
    watch,      \* the goroutine that watches a published binding
    cleaning,   \* how far cleanup() of a binding is
    daemon,     \* how far the daemon is: up, stopping, down
    closing,    \* environments Close has still to destroy
    crashes,
    lost,       \* references whose release was not written
    torn        \* versions whose package moved without the index

jobVars == <<job, entries, envs, watch, cleaning>>
hostVars == <<daemon, closing, crashes, torn>>
vars == <<catalogVars, versions, jobVars, proc, hostVars, lost>>

\* A process: its reference is held from "held" to "dead"; piped says that the
\* daemon has not closed its pipes, serving that its instance was started.
Process == [life : {"none", "held", "alive", "dead", "gone"}, piped : BOOLEAN,
            serving : BOOLEAN, archive : Archives \cup {NoArchive}]
NoProcess == [life |-> "none", piped |-> FALSE, serving |-> FALSE, archive |-> NoArchive]

Job == [pc : {"idle", "freeze", "validate", "prepare", "preparing", "prepared",
              "frozen", "right", "newleft", "left", "configure", "startleft",
              "publish", "register", "live", "rollback", "destroying", "closing", "append",
              "stored", "failed", "ended"},
        number : Nat, body : Bodies \cup {NoBody}, compiled : Bodies \cup {NoBody}]

Init ==
    /\ CatalogInit /\ StoreInit
    /\ job = [j \in Jobs |-> [pc |-> "idle", number |-> 0, body |-> NoBody,
                              compiled |-> NoBody]]
    /\ proc = [j \in Jobs |-> [s \in Slots |-> NoProcess]]
    /\ entries = {} /\ envs = {}
    /\ watch = [e \in Environments |-> "off"]
    /\ cleaning = [e \in Environments |-> "none"]
    /\ daemon = "up" /\ closing = {} /\ crashes = 0
    /\ lost = [ref \in Refs |-> 0]
    /\ torn = {}

\* No call is under way.
Returned == {"idle", "live", "stored", "failed", "ended"}

Holds(j, s) == proc[j][s].life \in {"held", "alive", "dead"}
Answers(j, s) == proc[j][s].life = "alive" /\ proc[j][s].piped
Over(j, s) == proc[j][s].life \in {"none", "gone"}
Done(j, s) == proc[j][s].life \in {"dead", "gone"}

Goto(j, pc) == job' = [job EXCEPT ![j].pc = pc]
SetProc(j, s, p) == proc' = [proc EXCEPT ![j][s] = p]

-------------------------------------------------------------------------------
(* A process: Factory.open and launch.                                      *)

\* Acquire, for the next process of a job.
Open(j, s, pc) ==
    /\ Acquire(Ref(s))
    /\ SetProc(j, s, [NoProcess EXCEPT !.life = "held"])
    /\ Goto(j, pc)

\* Package and the digests of its files, then cmd.Start.
Launch(j, s) ==
    /\ proc[j][s].life = "held"
    /\ Unlocked
    /\ Installed(Ref(s)) /\ package[Ref(s)] = record[Ref(s)].archive
    /\ SetProc(j, s, [life |-> "alive", piped |-> TRUE, serving |-> FALSE,
                      archive |-> package[Ref(s)]])
    /\ UNCHANGED <<catalogVars, versions, jobVars, hostVars, lost>>

\* The release of a reference; its error is ignored.
Drop(ref) ==
    \/ Release(ref) /\ UNCHANGED lost
    \/ /\ lost[ref] < MaxLost
       /\ lost' = [lost EXCEPT ![ref] = @ + 1]
       /\ UNCHANGED catalogVars

\* Mutant: a failed launch keeps its reference.
LaunchFails_Keeps(j, s) ==
    /\ proc[j][s].life = "held"
    /\ SetProc(j, s, [NoProcess EXCEPT !.life = "gone"])
    /\ UNCHANGED <<catalogVars, versions, jobVars, hostVars, lost>>

\* A file is missing or was changed, or the process does not start.
LaunchFails(j, s) ==
    /\ proc[j][s].life = "held"
    /\ Drop(Ref(s))
    /\ SetProc(j, s, [NoProcess EXCEPT !.life = "gone"])
    /\ UNCHANGED <<versions, jobVars, hostVars>>

\* The process ends, by itself or because its pipes were closed.
Exit(j, s) ==
    /\ proc[j][s].life = "alive"
    /\ SetProc(j, s, [proc[j][s] EXCEPT !.life = "dead", !.serving = FALSE])
    /\ UNCHANGED <<catalogVars, versions, jobVars, hostVars, lost>>

\* The goroutine in cmd.Wait: it closes the peer, releases and closes p.done.
Reap(j, s) ==
    /\ proc[j][s].life = "dead"
    /\ Drop(Ref(s))
    /\ SetProc(j, s, [proc[j][s] EXCEPT !.life = "gone", !.piped = FALSE])
    /\ UNCHANGED <<versions, jobVars, hostVars>>

-------------------------------------------------------------------------------
(* Validation of a scenario by a process of its right plugin.               *)

\* Put: the document and the version it is based on come from the caller.
PutBegins(p) ==
    /\ job[p].pc = "idle"
    /\ \E b \in Bodies, n \in 0..Len(versions) :
          job' = [job EXCEPT ![p].pc = "validate", ![p].body = b, ![p].number = n]
    /\ UNCHANGED <<catalogVars, versions, proc, entries, envs, watch, cleaning,
                   hostVars, lost>>

\* CreateEnvironment: both versions are installed and enabled.
CheckEnabled(e) ==
    /\ job[e].pc = "idle"
    /\ Unlocked
    /\ \A s \in {"left", "right"} : Installed(Ref(s)) /\ record[Ref(s)].enabled
    /\ Goto(e, "freeze")
    /\ UNCHANGED <<catalogVars, versions, proc, entries, envs, watch, cleaning,
                   hostVars, lost>>

\* Get, called by Freeze.
ReadVersion(e) ==
    /\ job[e].pc = "freeze"
    /\ \E n \in 1..Len(versions) :
          job' = [job EXCEPT ![e].pc = "validate", ![e].body = versions[n],
                             ![e].number = n]
    /\ UNCHANGED <<catalogVars, versions, proc, entries, envs, watch, cleaning,
                   hostVars, lost>>

\* ValidateDocument reads the manifest: without the feature, the schema of the
\* plugin decides alone.
ReadManifest(j) ==
    /\ job[j].pc = "validate"
    /\ Unlocked /\ Installed(RightRef)
    /\ IF record[RightRef].archive \in Preparers THEN Goto(j, "prepare")
       ELSE job' = [job EXCEPT ![j].pc = "prepared", ![j].compiled = job[j].body]
    /\ UNCHANGED <<catalogVars, versions, proc, entries, envs, watch, cleaning,
                   hostVars, lost>>

OpenPreparer(j) ==
    /\ job[j].pc = "prepare"
    /\ Open(j, "prep", "preparing")
    /\ UNCHANGED <<versions, entries, envs, watch, cleaning, hostVars, lost>>

\* Factory.Prepare: the report, and the deferred Close.  There is none, NoBody, if
\* the process ended, lacks the feature, or finds the document not ready.
Prepared(j) ==
    /\ job[j].pc = "preparing"
    /\ proc[j]["prep"].life # "held"
    /\ LET a == proc[j]["prep"].archive
           reports == IF Answers(j, "prep") /\ a \in Preparers
                      THEN {Compile[a][job[j].body]} ELSE {}
       IN  \E b \in reports \cup {NoBody} :
              job' = [job EXCEPT ![j].pc = "prepared", ![j].compiled = b]
    /\ SetProc(j, "prep", [proc[j]["prep"] EXCEPT !.piped = FALSE])
    /\ UNCHANGED <<catalogVars, versions, entries, envs, watch, cleaning, hostVars, lost>>

\* Mutant: Freeze takes what the plugin accepts.
Validated_Any(j) ==
    /\ job[j].pc = "prepared"
    /\ Over(j, "prep")
    /\ Goto(j, IF job[j].compiled = NoBody THEN "failed"
               ELSE IF j \in Puts THEN "append" ELSE "frozen")
    /\ UNCHANGED <<catalogVars, versions, proc, entries, envs, watch, cleaning,
                   hostVars, lost>>

\* Close returns when the process was waited for.  Freeze compares what was
\* stored with what the plugin makes of it.
Validated(j) ==
    /\ job[j].pc = "prepared"
    /\ Over(j, "prep")
    /\ LET ok == /\ job[j].compiled # NoBody
                 /\ j \in Environments => job[j].compiled = job[j].body
       IN  Goto(j, IF ~ok THEN "failed" ELSE IF j \in Puts THEN "append" ELSE "frozen")
    /\ UNCHANGED <<catalogVars, versions, proc, entries, envs, watch, cleaning,
                   hostVars, lost>>

\* The rest of Put.
Store(p) ==
    /\ job[p].pc = "append"
    /\ AppendVersion(job[p].compiled, job[p].number)
    /\ Goto(p, "stored")
    /\ UNCHANGED <<catalogVars, proc, entries, envs, watch, cleaning, hostVars, lost>>

\* Nothing was started yet: not enabled, no such version, a conflict, an error.
GivesUp(j) ==
    /\ job[j].pc \in {"freeze", "validate", "prepare", "append"}
    /\ Goto(j, "failed")
    /\ UNCHANGED <<catalogVars, versions, proc, entries, envs, watch, cleaning,
                   hostVars, lost>>

-------------------------------------------------------------------------------
(* Create.  Every step may fail: the plugin refuses or has exited, or the    *)
(* context of the call ends.                                                *)

NewRight(e) ==
    /\ job[e].pc = "frozen"
    /\ Open(e, "right", "right")
    /\ UNCHANGED <<versions, entries, envs, watch, cleaning, hostVars, lost>>

\* launch asks a new process to describe itself.
Describes(e) ==
    /\ \/ job[e].pc = "right" /\ Answers(e, "right") /\ Goto(e, "newleft")
       \/ job[e].pc = "left" /\ Answers(e, "left") /\ Goto(e, "configure")
    /\ UNCHANGED <<catalogVars, versions, proc, entries, envs, watch, cleaning,
                   hostVars, lost>>

NewLeft(e) ==
    /\ job[e].pc = "newleft"
    /\ Open(e, "left", "left")
    /\ UNCHANGED <<versions, entries, envs, watch, cleaning, hostVars, lost>>

\* The contract is negotiated, both sides accept their configuration and the
\* right side is READY.
StartRight(e) ==
    /\ job[e].pc = "configure"
    /\ Answers(e, "left") /\ Answers(e, "right")
    /\ SetProc(e, "right", [proc[e]["right"] EXCEPT !.serving = TRUE])
    /\ Goto(e, "startleft")
    /\ UNCHANGED <<catalogVars, versions, entries, envs, watch, cleaning, hostVars, lost>>

\* The left side listens for the application.
StartLeft(e) ==
    /\ job[e].pc = "startleft"
    /\ Answers(e, "left")
    /\ SetProc(e, "left", [proc[e]["left"] EXCEPT !.serving = TRUE])
    /\ Goto(e, "publish")
    /\ UNCHANGED <<catalogVars, versions, entries, envs, watch, cleaning, hostVars, lost>>

\* The call fails after the instance was started: the caller does not know.
StartFails(e) ==
    /\ \E s \in {"left", "right"} :
          /\ job[e].pc = IF s = "right" THEN "configure" ELSE "startleft"
          /\ Answers(e, s)
          /\ SetProc(e, s, [proc[e][s] EXCEPT !.serving = TRUE])
    /\ Goto(e, "rollback")
    /\ cleaning' = [cleaning EXCEPT ![e] = "left"]
    /\ UNCHANGED <<catalogVars, versions, entries, envs, watch, hostVars, lost>>

CreateFails(e) ==
    /\ job[e].pc \in {"frozen", "right", "newleft", "left", "configure", "startleft",
                      "publish"}
    /\ \A s \in Slots : proc[e][s].life # "held"
    /\ Goto(e, "rollback")
    /\ cleaning' = [cleaning EXCEPT ![e] = "left"]
    /\ UNCHANGED <<catalogVars, versions, proc, entries, envs, watch, hostVars, lost>>

Publish(e) ==
    /\ job[e].pc = "publish"
    /\ entries' = entries \cup {e}
    /\ watch' = [watch EXCEPT ![e] = "on"]
    /\ Goto(e, "register")
    /\ UNCHANGED <<catalogVars, versions, proc, envs, cleaning, hostVars, lost>>

Register(e) ==
    /\ job[e].pc = "register"
    /\ envs' = envs \cup {e}
    /\ Goto(e, "live")
    /\ UNCHANGED <<catalogVars, versions, proc, entries, watch, cleaning, hostVars, lost>>

-------------------------------------------------------------------------------
(* cleanup, Destroy and the watcher.                                        *)

\* Destroy: whoever takes the entry out of the table cleans up.
Destroy(e) ==
    /\ entries' = entries \ {e}
    /\ cleaning' = IF e \in entries THEN [cleaning EXCEPT ![e] = "left"] ELSE cleaning

\* Another binding of the environment fails, or there are 16 environments.
RegisterFails(e) ==
    /\ job[e].pc = "register"
    /\ Destroy(e)
    /\ Goto(e, IF e \in entries THEN "rollback" ELSE "failed")
    /\ UNCHANGED <<catalogVars, versions, proc, envs, watch, hostVars, lost>>

DestroyEnvironment(e) ==
    /\ job[e].pc = "live"
    /\ Destroy(e)
    /\ IF e \in entries THEN Goto(e, "destroying") /\ UNCHANGED envs
       ELSE Goto(e, "ended") /\ envs' = envs \ {e}
    /\ UNCHANGED <<catalogVars, versions, proc, watch, hostVars, lost>>

\* Stop and Close of one side.
CloseSide(e, s) ==
    SetProc(e, s, [proc[e][s] EXCEPT !.piped = FALSE])

\* Mutant: the right side is closed first.
CleanUp_RightFirst(e) ==
    /\ \/ /\ cleaning[e] = "left"
          /\ CloseSide(e, "right")
          /\ cleaning' = [cleaning EXCEPT ![e] = "leftwait"]
       \/ /\ cleaning[e] = "leftwait" /\ Over(e, "right")
          /\ CloseSide(e, "left")
          /\ cleaning' = [cleaning EXCEPT ![e] = "rightwait"]
       \/ /\ cleaning[e] = "rightwait" /\ Over(e, "left")
          /\ UNCHANGED proc
          /\ cleaning' = [cleaning EXCEPT ![e] = "done"]
    /\ UNCHANGED <<catalogVars, versions, job, entries, envs, watch, hostVars, lost>>

\* cleanup: the context of the binding is cancelled, then the left side closed, each
\* side awaited.
CleanUp(e) ==
    /\ \/ /\ cleaning[e] = "left"
          /\ CloseSide(e, "left")
          /\ cleaning' = [cleaning EXCEPT ![e] = "leftwait"]
       \/ /\ cleaning[e] = "leftwait" /\ Over(e, "left")
          /\ CloseSide(e, "right")
          /\ cleaning' = [cleaning EXCEPT ![e] = "rightwait"]
       \/ /\ cleaning[e] = "rightwait" /\ Over(e, "right")
          /\ UNCHANGED proc
          /\ cleaning' = [cleaning EXCEPT ![e] = "done"]
    /\ UNCHANGED <<catalogVars, versions, job, entries, envs, watch, hostVars, lost>>

\* Mutant: a destroyed environment stays in the table.
CleanedUp_KeepsEnvironment(e) ==
    /\ cleaning[e] = "done"
    /\ \/ job[e].pc = "rollback" /\ Goto(e, "failed")
       \/ job[e].pc \in {"destroying", "closing"} /\ Goto(e, "ended")
    /\ UNCHANGED <<catalogVars, versions, proc, entries, envs, watch, cleaning,
                   hostVars, lost>>

\* The caller that cleaned up returns.
CleanedUp(e) ==
    /\ cleaning[e] = "done"
    /\ \/ job[e].pc = "rollback" /\ Goto(e, "failed") /\ UNCHANGED <<envs, closing>>
       \/ /\ job[e].pc \in {"destroying", "closing"}
          /\ Goto(e, "ended")
          /\ envs' = envs \ {e}
          /\ closing' = IF job[e].pc = "closing" THEN closing \ {e} ELSE closing
    /\ UNCHANGED <<catalogVars, versions, proc, entries, watch, cleaning, daemon, crashes,
                   torn, lost>>

\* Mutant: only the left side is watched.
WatchEnds_LeftOnly(e) ==
    /\ watch[e] = "on"
    /\ \/ /\ cleaning[e] # "none"
          /\ watch' = [watch EXCEPT ![e] = "off"]
       \/ /\ cleaning[e] \in {"none", "left"} /\ Done(e, "left")
          /\ watch' = [watch EXCEPT ![e] = "failing"]
    /\ UNCHANGED <<catalogVars, versions, proc, job, entries, envs, cleaning,
                   hostVars, lost>>

\* One side is gone: the failure is noted and OnFailure called.
WatchEnds(e) ==
    /\ watch[e] = "on"
    /\ \/ /\ cleaning[e] # "none"
          /\ watch' = [watch EXCEPT ![e] = "off"]
       \/ /\ cleaning[e] \in {"none", "left"}
          /\ Done(e, "left") \/ Done(e, "right")
          /\ watch' = [watch EXCEPT ![e] = "failing"]
    /\ UNCHANGED <<catalogVars, versions, proc, job, entries, envs, cleaning,
                   hostVars, lost>>

WatchDestroys(e) ==
    /\ watch[e] = "failing"
    /\ Destroy(e)
    /\ watch' = [watch EXCEPT ![e] = "off"]
    /\ UNCHANGED <<catalogVars, versions, proc, job, envs, hostVars, lost>>

\* The run of the environment is over: the context of the binding ends, and with it
\* the watch, while the processes stay for an export.
Seal(e) ==
    /\ job[e].pc = "live" /\ e \in entries
    /\ watch[e] = "on"
    /\ watch' = [watch EXCEPT ![e] = "off"]
    /\ UNCHANGED <<catalogVars, versions, proc, job, entries, envs, cleaning,
                   hostVars, lost>>

Sealed(e) == e \in entries /\ watch[e] = "off"

-------------------------------------------------------------------------------
(* The daemon.                                                              *)

Administer ==
    /\ \/ \E a \in Archives : Install(a)
       \/ \E ref \in Refs : Uninstall(ref) \/ Enable(ref) \/ Disable(ref)
    /\ UNCHANGED <<versions, jobVars, proc, hostVars, lost>>

IndexIsWritten ==
    /\ Persist \/ PersistFails
    /\ UNCHANGED <<versions, jobVars, proc, hostVars, lost>>

\* What is left of a daemon that is gone: the processes of plugins end on the EOF of
\* their pipes; they are nobody's.
Gone ==
    /\ daemon' = "down" /\ closing' = {}
    /\ torn' = IF Unlocked THEN torn ELSE torn \cup {RefOf[moving.archive]}
    /\ CatalogCrash
    /\ job' = [j \in Jobs |-> IF job[j].pc \in Returned \ {"live"} THEN job[j]
                              ELSE [job[j] EXCEPT !.pc = "failed"]]
    /\ proc' = [j \in Jobs |-> [s \in Slots |-> NoProcess]]
    /\ entries' = {} /\ envs' = {}
    /\ watch' = [e \in Environments |-> "off"]
    /\ cleaning' = [e \in Environments |-> "none"]
    /\ UNCHANGED <<versions, lost>>

Crash ==
    /\ crashes < MaxCrashes
    /\ crashes' = crashes + 1
    /\ Gone

\* The context of serve ends: Close, while requests are still served.
StopBegins ==
    /\ daemon = "up" /\ crashes < MaxCrashes
    /\ crashes' = crashes + 1
    /\ daemon' = "closing" /\ closing' = envs
    /\ UNCHANGED <<catalogVars, versions, jobVars, proc, torn, lost>>

\* Close destroys one environment after the other.  Of one that somebody else is
\* destroying only the entry in the table is left; one that is not there any more ends
\* the Close, whatever is left to destroy.
CloseNext(e) ==
    /\ e \in closing /\ \A d \in Environments : job[d].pc # "closing"
    /\ \/ /\ e \in envs /\ job[e].pc = "live" /\ e \in entries
          /\ Destroy(e)
          /\ Goto(e, "closing")
          /\ UNCHANGED <<envs, closing>>
       \/ /\ e \in envs /\ e \notin entries
          /\ envs' = envs \ {e} /\ closing' = closing \ {e}
          /\ IF job[e].pc = "live" THEN Goto(e, "ended") ELSE UNCHANGED job
          /\ UNCHANGED <<entries, cleaning>>
       \/ /\ e \notin envs
          /\ closing' = {}
          /\ UNCHANGED <<job, entries, cleaning, envs>>
    /\ UNCHANGED <<catalogVars, versions, proc, watch, daemon, crashes, torn, lost>>

\* Mutant: Close is not repeated.
Drained_Closes(late) ==
    /\ daemon = "draining"
    /\ late = ~(Unlocked /\ \A j \in Jobs : job[j].pc \in Returned)
    /\ daemon' = IF late THEN "closingLate" ELSE "closed"
    /\ UNCHANGED <<catalogVars, versions, jobVars, proc, closing, crashes, torn, lost>>

\* server.Shutdown waits for the requests that are under way, or its time is over with
\* some of them left; the deferred Close follows.
Drained(late) ==
    /\ daemon = "draining"
    /\ late = ~(Unlocked /\ \A j \in Jobs : job[j].pc \in Returned)
    /\ daemon' = IF late THEN "closingLate" ELSE "closingAgain"
    /\ closing' = envs
    /\ UNCHANGED <<catalogVars, versions, jobVars, proc, crashes, torn, lost>>

CloseReturns ==
    /\ daemon \in {"closing", "closingAgain"}
    /\ closing = {}
    /\ daemon' = IF daemon = "closing" THEN "draining" ELSE "closed"
    /\ UNCHANGED <<catalogVars, versions, jobVars, proc, closing, crashes, torn, lost>>

\* serve returns.
Exits ==
    /\ daemon = "closed" \/ (daemon = "closingLate" /\ closing = {})
    /\ UNCHANGED crashes
    /\ Gone

\* serve: the lock on daemon.lock is free, references are recovered before
\* anything is served.
Restart ==
    /\ daemon = "down"
    /\ daemon' = "up"
    /\ RecoverReferences
    /\ lost' = [ref \in Refs |-> 0]
    /\ UNCHANGED <<versions, jobVars, proc, closing, crashes, torn>>

Create(e) ==
    \/ NewRight(e) \/ Describes(e) \/ NewLeft(e) \/ StartRight(e) \/ StartLeft(e)
    \/ StartFails(e) \/ CreateFails(e) \/ Publish(e) \/ Register(e) \/ RegisterFails(e)

Validate(j) ==
    \/ ReadManifest(j) \/ OpenPreparer(j) \/ Prepared(j) \/ Validated(j)
    \/ GivesUp(j)

\* Calls, as long as the daemon listens.
Called ==
    \/ Administer
    \/ \E p \in Puts : PutBegins(p)
    \/ \E e \in Environments : CheckEnabled(e) \/ DestroyEnvironment(e)

\* What is under way.
Serve ==
    \/ IndexIsWritten
    \/ \E j \in Jobs, s \in Slots :
          Launch(j, s) \/ LaunchFails(j, s) \/ Exit(j, s) \/ Reap(j, s)
    \/ \E j \in Jobs : Validate(j)
    \/ \E p \in Puts : Store(p)
    \/ \E e \in Environments :
          \/ ReadVersion(e) \/ Create(e) \/ CleanUp(e) \/ CleanedUp(e)
          \/ WatchEnds(e) \/ WatchDestroys(e) \/ Seal(e) \/ CloseNext(e)
    \/ CloseReturns \/ Crash \/ \E late \in BOOLEAN : Drained(late)

Next ==
    \/ daemon \in {"up", "closing"} /\ Called
    \/ daemon # "down" /\ Serve
    \/ StopBegins \/ Exits \/ Restart

Spec == Init /\ [][Next]_vars

(* Fairness: the operation that holds the lock ends; whoever waits for the   *)
(* lock gets it; a process that was started is waited for and, without       *)
(* pipes, ends; the goroutines of calls and watchers go on.  A job takes      *)
(* finitely many steps, so that fairness of all together is enough.  Nobody   *)
(* has to call the service.                                                  *)
Goroutines ==
    /\ daemon # "down"
    /\ \/ \E j \in Jobs, s \in Slots :
             \/ Launch(j, s) \/ LaunchFails(j, s) \/ Reap(j, s)
             \/ ~proc[j][s].piped /\ Exit(j, s)
       \/ \E e \in Environments :
             \/ Validate(e) \/ Create(e) \/ CleanUp(e) \/ CleanedUp(e)
             \/ WatchEnds(e) \/ WatchDestroys(e)

Fairness == SF_vars(Goroutines) /\ WF_vars(daemon # "down" /\ IndexIsWritten)

FairSpec == Spec /\ Fairness

-------------------------------------------------------------------------------
(* Properties.                                                              *)

References(ref) ==
    {h \in Jobs \X Slots : Ref(h[2]) = ref /\ Holds(h[1], h[2])}

\* Every variable has its type, a version that is not installed is not enabled, and
\* the table holds the environments that are there.
TypeOK ==
    /\ record \in [Refs -> [archive : Archives \cup {NoArchive}, enabled : BOOLEAN,
                            active : 0..(Cardinality(Jobs \X Slots) + MaxLost)]]
    /\ \A ref \in Refs : ~Installed(ref) => record[ref] = Missing
    /\ package \in [Refs -> Archives \cup {NoArchive}]
    /\ moving \in Moves /\ installs \in 0..MaxInstalls
    /\ versions \in Seq(Bodies)
    /\ Len(versions) <= Len(InitialVersions) + Cardinality(Puts)
    /\ job \in [Jobs -> Job] /\ proc \in [Jobs -> [Slots -> Process]]
    /\ entries \subseteq Environments /\ envs \subseteq Environments
    /\ \A e \in Environments :
          /\ e \in envs => job[e].pc \in {"live", "destroying", "closing"}
          /\ job[e].pc \in {"live", "closing"} => e \in envs
    /\ watch \in [Environments -> {"off", "on", "failing"}]
    /\ cleaning \in [Environments -> {"none", "left", "leftwait", "rightwait", "done"}]
    /\ daemon \in {"up", "closing", "draining", "closingAgain", "closingLate", "closed",
                   "down"}
    /\ closing \subseteq Environments /\ crashes \in 0..MaxCrashes
    /\ lost \in [Refs -> 0..MaxLost] /\ torn \subseteq Refs

\* A plugin is not replaced, disabled or removed under a process that runs it,
\* whatever installs, launches and exits overlap.
RunningIsInstalled ==
    \A j \in Jobs, s \in Slots :
        Holds(j, s) =>
            /\ record[Ref(s)].enabled
            /\ proc[j][s].life = "alive" =>
                  /\ record[Ref(s)].archive = proc[j][s].archive
                  /\ package[Ref(s)] = proc[j][s].archive

\* References are counted exactly: no path of a launch, an exit or a rollback
\* forgets to release one or releases it twice, except where the index could not
\* be written; a new daemon begins with none.
ReferencesAreCounted ==
    daemon # "down" =>
        \A ref \in Refs : record[ref].active = Cardinality(References(ref)) + lost[ref]

\* The index and the package directories agree unless a crash came between them,
\* or an operation is between them.
PackagesMatchRecords ==
    \A ref \in Refs \ torn :
        (Unlocked \/ RefOf[moving.archive] # ref) => package[ref] = record[ref].archive

\* As long as the left side accepts the application, the right side is there to
\* answer, unless it exited by itself: neither Create nor cleanup, by whomever,
\* stops it first.
RightOutlivesLeft ==
    \A e \in Environments :
        proc[e]["left"].serving =>
            Done(e, "right") \/ (Answers(e, "right") /\ proc[e]["right"].serving)

\* A daemon that stopped in time leaves no plugin in use, also those of environments
\* that were being created while it closed; except a binding that its own watcher is
\* just destroying, for which nobody waits.
StopLeavesNothing ==
    daemon = "closed" =>
        /\ envs = {} /\ entries = {}
        /\ \A j \in Jobs, s \in Slots :
              Over(j, s) \/ (j \in Environments /\ cleaning[j] \notin {"none", "done"})

\* An environment serves a stored version as the plugin understands it: one that an
\* earlier package of the version accepted and this one reads differently is refused.
FrozenIsCanonical ==
    \A e \in Environments :
        job[e].pc \notin {"idle", "freeze", "validate", "prepare", "preparing", "prepared",
                         "failed"} =>
            Stored(job[e].number) /\ versions[job[e].number] = job[e].compiled

\* A binding of which one side has gone gives up the other one too, and an
\* environment that ended or was never created keeps no plugin in use: in a creation
\* that fails, in a binding that was published, while it is destroyed; only a sealed
\* binding waits for somebody to destroy it.
BindingsLetGo ==
    \A e \in Environments :
        Done(e, "left") \/ Done(e, "right") \/ job[e].pc \in {"failed", "ended"}
          ~> Sealed(e) \/ \A s \in Slots : Over(e, s)
===============================================================================
