----------------------------- MODULE BindingsProofs -----------------------------
(* What Bindings guarantees for any number of versions, archives, environments *)
(* and stored scenarios.                                                       *)
EXTENDS Bindings, FiniteSetTheorems, TLAPS

-------------------------------------------------------------------------------
(* The inductive invariant.                                                 *)

\* An operation that has moved a package has the lock: nobody has a reference to its
\* version, and the index still says what it said before.
MovingInv ==
    ~Unlocked =>
        /\ moving.kind \in {"install", "uninstall"} /\ moving.archive \in Archives
        /\ LET ref == RefOf[moving.archive] IN
              /\ ~record[ref].enabled /\ record[ref].active = 0
              /\ moving.kind = "install" =>
                    ~Installed(ref) /\ package[ref] = moving.archive
              /\ moving.kind = "uninstall" =>
                    package[ref] = NoArchive
                    /\ (ref \in torn \/ record[ref].archive = moving.archive)

\* A package lies in the directory of its own version.
PackageInv == \A ref \in Refs : package[ref] # NoArchive => RefOf[package[ref]] = ref

CatalogInv ==
    /\ MovingInv /\ PackageInv
    /\ PackagesMatchRecords /\ RunningIsInstalled /\ ReferencesAreCounted

\* Each version of the scenario was stored by a Put of its own.
StoreInv ==
    Len(versions) = Len(InitialVersions) + Cardinality({p \in Puts : job[p].pc = "stored"})

Early == {"idle", "freeze", "validate", "prepare"}
Preparing == {"preparing", "prepared"}
PutPlaces == {"idle", "validate", "prepare", "preparing", "prepared", "append", "stored",
              "failed"}
Leaving == {"rollback", "destroying", "closing"}
Unopened(j, s) == proc[j][s].life = "none"

\* A job opens its processes one after the other: the next one is new.
ProcInv(j) ==
    /\ job[j].pc \in Early => \A s \in Slots : Unopened(j, s)
    /\ job[j].pc \in Preparing \cup {"frozen"} \/ j \in Puts =>
          Unopened(j, "right") /\ Unopened(j, "left")
    /\ job[j].pc \in {"right", "newleft"} => Unopened(j, "left")
    /\ job[j].pc \notin Preparing => Over(j, "prep")
    /\ \A s \in Slots : proc[j][s].life = "held" =>
          job[j].pc = CASE s = "prep" -> "preparing" [] s = "right" -> "right"
                        [] s = "left" -> "left"
    /\ \A s \in Slots : proc[j][s].serving => proc[j][s].life = "alive"

\* Whoever took the entry of a binding out of the table cleans up, once; when that is
\* done no process is left, and none is started any more.
CleaningInv(e) ==
    /\ e \in entries => job[e].pc \in {"register", "live"} /\ cleaning[e] = "none"
    /\ job[e].pc \in {"register", "live"} => e \in entries \/ cleaning[e] # "none"
    /\ cleaning[e] # "none" =>
          job[e].pc \in Leaving \cup {"register", "live", "failed", "ended"}
    /\ job[e].pc \in Leaving => cleaning[e] # "none"
    /\ cleaning[e] \in {"rightwait", "done"} => Over(e, "left")
    /\ cleaning[e] = "done" => Over(e, "right")
    /\ job[e].pc \in {"failed", "ended"} /\ cleaning[e] = "none" =>
          \A s \in Slots : Over(e, s)

\* The right side is ready before the left side starts, and until it has stopped.
ReadyInv(e) ==
    proc[e]["left"].serving \/ job[e].pc = "startleft" =>
        Done(e, "right") \/ (Answers(e, "right") /\ proc[e]["right"].serving)

\* What Freeze read, and what it accepted.
FrozenInv(e) ==
    job[e].pc \notin {"idle", "freeze", "failed"} =>
        /\ Stored(job[e].number) /\ versions[job[e].number] = job[e].body
        /\ job[e].pc \notin Early \cup Preparing => job[e].compiled = job[e].body

JobInv(j) ==
    /\ ProcInv(j)
    /\ j \in Puts =>
          /\ job[j].pc \in PutPlaces
          /\ job[j].pc \notin {"idle", "failed"} => job[j].body \in Bodies
          /\ job[j].pc = "append" => job[j].compiled # NoBody
    /\ j \in Environments =>
          /\ job[j].pc \notin {"append", "stored"}
          /\ CleaningInv(j) /\ ReadyInv(j) /\ FrozenInv(j)

\* The second Close finds only environments that are live, and destroys them all; a
\* daemon that is gone leaves nothing.
DaemonInv ==
    /\ daemon \in {"closingAgain", "closed"} =>
          closing = envs /\ \A j \in Jobs : job[j].pc \in Returned \cup {"closing"}
    /\ daemon = "closed" => closing = {}
    /\ daemon = "down" => Unlocked /\ \A j \in Jobs, s \in Slots : Unopened(j, s)

Inv == TypeOK /\ CatalogInv /\ StoreInv /\ (\A j \in Jobs : JobInv(j)) /\ DaemonInv

-------------------------------------------------------------------------------
(* Which steps change which variables.                                      *)

LEMMA CatalogChanges ==
    ASSUME [Next]_vars
    PROVE  \/ UNCHANGED catalogVars
           \/ Administer \/ IndexIsWritten \/ Crash \/ Exits \/ Restart
           \/ \E j \in Jobs, s \in Slots : LaunchFails(j, s) \/ Reap(j, s)
           \/ \E j \in Jobs : OpenPreparer(j)
           \/ \E e \in Environments : NewRight(e) \/ NewLeft(e)
BY ZenonT(40) DEF Next, vars, jobVars, hostVars, Called, Serve, Create,
       Validate, Launch, Exit, PutBegins, CheckEnabled, ReadVersion,
       ReadManifest, Prepared, Validated, Store, GivesUp, Describes,
       StartRight, StartLeft, StartFails, CreateFails, Publish, Register,
       RegisterFails, DestroyEnvironment, CleanUp, CleanedUp, WatchEnds,
       WatchDestroys, Seal, StopBegins, CloseNext, Drained, CloseReturns

LEMMA VersionsChanges ==
    ASSUME [Next]_vars
    PROVE  \/ UNCHANGED versions
           \/ \E p \in Puts : Store(p)
BY ZenonT(40) DEF Gone, Next, vars, catalogVars, jobVars, hostVars, Called, Serve, Create,
       Validate, Launch, LaunchFails, Exit, Reap, PutBegins, CheckEnabled,
       ReadVersion, ReadManifest, OpenPreparer, Prepared, Validated, GivesUp,
       NewRight, Describes, NewLeft, StartRight, StartLeft, StartFails,
       CreateFails, Publish, Register, RegisterFails, DestroyEnvironment,
       CleanUp, CleanedUp, WatchEnds, WatchDestroys, Seal, Administer,
       IndexIsWritten, Crash, Exits, StopBegins, CloseNext, Drained,
       CloseReturns, Restart

LEMMA JobChanges ==
    ASSUME [Next]_vars
    PROVE  \/ UNCHANGED job
           \/ Crash \/ Exits
           \/ \E j \in Jobs : ReadManifest(j) \/ OpenPreparer(j) \/ Prepared(j)
                              \/ Validated(j) \/ GivesUp(j)
           \/ \E p \in Puts : PutBegins(p) \/ Store(p)
           \/ \E e \in Environments : CheckEnabled(e) \/ ReadVersion(e) \/ NewRight(e)
                                      \/ Describes(e) \/ NewLeft(e) \/ StartRight(e)
                                      \/ StartLeft(e) \/ StartFails(e)
                                      \/ CreateFails(e) \/ Publish(e) \/ Register(e)
                                      \/ RegisterFails(e) \/ DestroyEnvironment(e)
                                      \/ CleanedUp(e) \/ CloseNext(e)
BY ZenonT(40) DEF Next, vars, catalogVars, jobVars, hostVars, Called, Serve, Create,
       Validate, Launch, LaunchFails, Exit, Reap, CleanUp, WatchEnds,
       WatchDestroys, Seal, Administer, IndexIsWritten, StopBegins, Drained,
       CloseReturns, Restart

LEMMA ProcChanges ==
    ASSUME [Next]_vars
    PROVE  \/ UNCHANGED proc
           \/ Crash \/ Exits
           \/ \E j \in Jobs, s \in Slots : Launch(j, s) \/ LaunchFails(j, s)
                                           \/ Exit(j, s) \/ Reap(j, s)
           \/ \E j \in Jobs : OpenPreparer(j) \/ Prepared(j)
           \/ \E e \in Environments : NewRight(e) \/ NewLeft(e) \/ StartRight(e)
                                      \/ StartLeft(e) \/ StartFails(e) \/ CleanUp(e)
BY ZenonT(40) DEF Next, vars, catalogVars, jobVars, hostVars, Called, Serve, Create,
       Validate, PutBegins, CheckEnabled, ReadVersion, ReadManifest, Validated,
       Store, GivesUp, Describes, CreateFails, Publish, Register,
       RegisterFails, DestroyEnvironment, CleanedUp, WatchEnds, WatchDestroys,
       Seal, Administer, IndexIsWritten, StopBegins, CloseNext, Drained,
       CloseReturns, Restart

LEMMA EntriesChanges ==
    ASSUME [Next]_vars
    PROVE  \/ UNCHANGED entries
           \/ Crash \/ Exits
           \/ \E e \in Environments : Publish(e) \/ RegisterFails(e)
                                      \/ DestroyEnvironment(e) \/ WatchDestroys(e)
                                      \/ CloseNext(e)
BY ZenonT(40) DEF Next, vars, catalogVars, jobVars, hostVars, Called, Serve, Create,
       Validate, Launch, LaunchFails, Exit, Reap, PutBegins, CheckEnabled,
       ReadVersion, ReadManifest, OpenPreparer, Prepared, Validated, Store,
       GivesUp, NewRight, Describes, NewLeft, StartRight, StartLeft,
       StartFails, CreateFails, Register, CleanUp, CleanedUp, WatchEnds, Seal,
       Administer, IndexIsWritten, StopBegins, Drained, CloseReturns, Restart

LEMMA EnvsChanges ==
    ASSUME [Next]_vars
    PROVE  \/ UNCHANGED envs
           \/ Crash \/ Exits
           \/ \E e \in Environments : Register(e) \/ DestroyEnvironment(e)
                                      \/ CleanedUp(e) \/ CloseNext(e)
BY ZenonT(40) DEF Next, vars, catalogVars, jobVars, hostVars, Called, Serve, Create,
       Validate, Launch, LaunchFails, Exit, Reap, PutBegins, CheckEnabled,
       ReadVersion, ReadManifest, OpenPreparer, Prepared, Validated, Store,
       GivesUp, NewRight, Describes, NewLeft, StartRight, StartLeft,
       StartFails, CreateFails, Publish, RegisterFails, CleanUp, WatchEnds,
       WatchDestroys, Seal, Administer, IndexIsWritten, StopBegins, Drained,
       CloseReturns, Restart

LEMMA WatchChanges ==
    ASSUME [Next]_vars
    PROVE  \/ UNCHANGED watch
           \/ Crash \/ Exits
           \/ \E e \in Environments : Publish(e) \/ WatchEnds(e) \/ WatchDestroys(e)
                                      \/ Seal(e)
BY ZenonT(40) DEF Next, vars, catalogVars, jobVars, hostVars, Called, Serve, Create,
       Validate, Launch, LaunchFails, Exit, Reap, PutBegins, CheckEnabled,
       ReadVersion, ReadManifest, OpenPreparer, Prepared, Validated, Store,
       GivesUp, NewRight, Describes, NewLeft, StartRight, StartLeft,
       StartFails, CreateFails, Register, RegisterFails, DestroyEnvironment,
       CleanUp, CleanedUp, Administer, IndexIsWritten, StopBegins, CloseNext,
       Drained, CloseReturns, Restart

LEMMA CleaningChanges ==
    ASSUME [Next]_vars
    PROVE  \/ UNCHANGED cleaning
           \/ Crash \/ Exits
           \/ \E e \in Environments : StartFails(e) \/ CreateFails(e)
                                      \/ RegisterFails(e) \/ DestroyEnvironment(e)
                                      \/ CleanUp(e) \/ WatchDestroys(e)
                                      \/ CloseNext(e)
BY ZenonT(40) DEF Next, vars, catalogVars, jobVars, hostVars, Called, Serve, Create,
       Validate, Launch, LaunchFails, Exit, Reap, PutBegins, CheckEnabled,
       ReadVersion, ReadManifest, OpenPreparer, Prepared, Validated, Store,
       GivesUp, NewRight, Describes, NewLeft, StartRight, StartLeft, Publish,
       Register, CleanedUp, WatchEnds, Seal, Administer, IndexIsWritten,
       StopBegins, Drained, CloseReturns, Restart

LEMMA DaemonChanges ==
    ASSUME [Next]_vars
    PROVE  \/ UNCHANGED daemon
           \/ Crash \/ Exits \/ StopBegins \/ CloseReturns \/ Restart
           \/ \E late \in BOOLEAN : Drained(late)
BY ZenonT(40) DEF Next, vars, catalogVars, jobVars, hostVars, Called, Serve, Create,
       Validate, Launch, LaunchFails, Exit, Reap, PutBegins, CheckEnabled,
       ReadVersion, ReadManifest, OpenPreparer, Prepared, Validated, Store,
       GivesUp, NewRight, Describes, NewLeft, StartRight, StartLeft,
       StartFails, CreateFails, Publish, Register, RegisterFails,
       DestroyEnvironment, CleanUp, CleanedUp, WatchEnds, WatchDestroys, Seal,
       Administer, IndexIsWritten, CloseNext

LEMMA ClosingChanges ==
    ASSUME [Next]_vars
    PROVE  \/ UNCHANGED closing
           \/ Crash \/ Exits \/ StopBegins
           \/ \E e \in Environments : CleanedUp(e) \/ CloseNext(e)
           \/ \E late \in BOOLEAN : Drained(late)
BY ZenonT(40) DEF Next, vars, catalogVars, jobVars, hostVars, Called, Serve, Create,
       Validate, Launch, LaunchFails, Exit, Reap, PutBegins, CheckEnabled,
       ReadVersion, ReadManifest, OpenPreparer, Prepared, Validated, Store,
       GivesUp, NewRight, Describes, NewLeft, StartRight, StartLeft,
       StartFails, CreateFails, Publish, Register, RegisterFails,
       DestroyEnvironment, CleanUp, WatchEnds, WatchDestroys, Seal, Administer,
       IndexIsWritten, CloseReturns, Restart

LEMMA CrashesChanges ==
    ASSUME [Next]_vars
    PROVE  \/ UNCHANGED crashes
           \/ Crash \/ StopBegins
BY ZenonT(40) DEF Next, vars, catalogVars, jobVars, hostVars, Called, Serve, Create,
       Validate, Launch, LaunchFails, Exit, Reap, PutBegins, CheckEnabled,
       ReadVersion, ReadManifest, OpenPreparer, Prepared, Validated, Store,
       GivesUp, NewRight, Describes, NewLeft, StartRight, StartLeft,
       StartFails, CreateFails, Publish, Register, RegisterFails,
       DestroyEnvironment, CleanUp, CleanedUp, WatchEnds, WatchDestroys, Seal,
       Administer, IndexIsWritten, Exits, CloseNext, Drained, CloseReturns,
       Restart

LEMMA LostChanges ==
    ASSUME [Next]_vars
    PROVE  \/ UNCHANGED lost
           \/ Restart
           \/ \E j \in Jobs, s \in Slots : LaunchFails(j, s) \/ Reap(j, s)
BY ZenonT(40) DEF Gone, Next, vars, catalogVars, jobVars, hostVars, Called, Serve, Create,
       Validate, Launch, Exit, PutBegins, CheckEnabled, ReadVersion,
       ReadManifest, OpenPreparer, Prepared, Validated, Store, GivesUp,
       NewRight, Describes, NewLeft, StartRight, StartLeft, StartFails,
       CreateFails, Publish, Register, RegisterFails, DestroyEnvironment,
       CleanUp, CleanedUp, WatchEnds, WatchDestroys, Seal, Administer,
       IndexIsWritten, Crash, Exits, StopBegins, CloseNext, Drained,
       CloseReturns

LEMMA TornChanges ==
    ASSUME [Next]_vars
    PROVE  \/ UNCHANGED torn
           \/ Crash \/ Exits
BY ZenonT(40) DEF Next, vars, catalogVars, jobVars, hostVars, Called, Serve, Create,
       Validate, Launch, LaunchFails, Exit, Reap, PutBegins, CheckEnabled,
       ReadVersion, ReadManifest, OpenPreparer, Prepared, Validated, Store,
       GivesUp, NewRight, Describes, NewLeft, StartRight, StartLeft,
       StartFails, CreateFails, Publish, Register, RegisterFails,
       DestroyEnvironment, CleanUp, CleanedUp, WatchEnds, WatchDestroys, Seal,
       Administer, IndexIsWritten, StopBegins, CloseNext, Drained,
       CloseReturns, Restart

-------------------------------------------------------------------------------
(* Jobs and their processes.                                                *)

Pcs == {"idle", "freeze", "validate", "prepare", "preparing", "prepared", "frozen",
        "right", "newleft", "left", "configure", "startleft", "publish", "register",
        "live", "rollback", "destroying", "closing", "append", "stored", "failed", "ended"}
Lives == {"none", "held", "alive", "dead", "gone"}
Cleanings == {"none", "left", "leftwait", "rightwait", "done"}

JobTypes ==
    /\ job \in [Jobs -> Job] /\ proc \in [Jobs -> [Slots -> Process]]
    /\ cleaning \in [Environments -> Cleanings] /\ entries \subseteq Environments

\* Nothing happens to a job.
Frame(j) ==
    /\ job'[j] = job[j] /\ proc'[j] = proc[j]
    /\ j \in Environments => cleaning'[j] = cleaning[j] /\ (j \in entries' <=> j \in entries)

\* What a step of job j has to establish.
Stepped(j) ==
    /\ JobTypes'
    /\ \A k \in Jobs : k # j => Frame(k)
    /\ JobInv(j)'

LEMMA Facts ==
    ASSUME Inv
    PROVE  /\ JobTypes /\ versions \in Seq(Bodies) /\ Len(versions) \in Nat
           /\ \A j \in Jobs : JobInv(j) /\ job[j].pc \in Pcs
           /\ \A j \in Jobs, s \in Slots : proc[j][s] \in Process
           /\ NoBody \notin Bodies /\ Jobs = Environments \cup Puts
           /\ Environments \cap Puts = {}
           /\ "prep" \in Slots /\ "right" \in Slots /\ "left" \in Slots
BY BindingsAssumption DEF Inv, JobTypes, TypeOK, Job, Pcs, Cleanings, Jobs, Slots

LEMMA JobSet ==
    ASSUME job \in [Jobs -> Job], NEW j \in Jobs, NEW d \in Job, job' = [job EXCEPT ![j] = d]
    PROVE  job' \in [Jobs -> Job] /\ job'[j] = d /\ \A k \in Jobs : k # j => job'[k] = job[k]
OBVIOUS

LEMMA Goes ==
    ASSUME job \in [Jobs -> Job], NEW j \in Jobs, NEW pc \in Pcs, Goto(j, pc)
    PROVE  /\ job' \in [Jobs -> Job] /\ \A k \in Jobs : k # j => job'[k] = job[k]
           /\ job'[j].pc = pc /\ job'[j].number = job[j].number
           /\ job'[j].body = job[j].body /\ job'[j].compiled = job[j].compiled
<1>1. PICK d : d = [job[j] EXCEPT !.pc = pc]
  OBVIOUS
<1>2. d \in Job /\ d.pc = pc /\ d.number = job[j].number /\ d.body = job[j].body
      /\ d.compiled = job[j].compiled
  BY <1>1 DEF Job, Pcs
<1>3. job' = [job EXCEPT ![j] = d]
  BY <1>1 DEF Goto
<1> QED BY <1>2, <1>3, JobSet

LEMMA ProcSet ==
    ASSUME proc \in [Jobs -> [Slots -> Process]], NEW j \in Jobs, NEW s \in Slots,
           NEW p \in Process, SetProc(j, s, p)
    PROVE  /\ proc' \in [Jobs -> [Slots -> Process]]
           /\ proc'[j][s] = p /\ \A t \in Slots : t # s => proc'[j][t] = proc[j][t]
           /\ \A k \in Jobs : k # j => proc'[k] = proc[k]
<1>1. PICK f \in [Slots -> Process] : f = [proc[j] EXCEPT ![s] = p]
  OBVIOUS
<1>2. proc' = [proc EXCEPT ![j] = f]
  BY <1>1 DEF SetProc
<1> QED BY <1>1, <1>2

LEMMA JobFields ==
    /\ Job = [pc : Pcs, number : Nat, body : Bodies \cup {NoBody},
              compiled : Bodies \cup {NoBody}]
    /\ "validate" \in Pcs /\ "prepared" \in Pcs
BY DEF Job, Pcs

LEMMA LaunchStep ==
    ASSUME Inv, NEW j \in Jobs, NEW s \in Slots,
           Launch(j, s) \/ LaunchFails(j, s) \/ Exit(j, s) \/ Reap(j, s)
    PROVE  Stepped(j)
<1>0. UNCHANGED <<versions, job, entries, cleaning>>
  BY DEF Launch, LaunchFails, Exit, Reap, jobVars
<1>1. \E p \in Process :
        /\ SetProc(j, s, p)
        /\ \/ proc[j][s].life = "held" /\ p.life \in {"alive", "gone"} /\ ~p.serving
           \/ proc[j][s].life = "alive" /\ p.life = "dead" /\ ~p.serving
           \/ /\ proc[j][s].life = "dead" /\ p.life = "gone"
              /\ p.serving = proc[j][s].serving
  <2>1. proc[j][s] \in Process
    BY Facts
  <2>2. CASE Launch(j, s)
    <3>1. package[Ref(s)] \in Archives \cup {NoArchive}
      BY <2>2, BindingsAssumption DEF Inv, TypeOK, Launch, Ref, Slots
    <3>2. PICK p : p = [life |-> "alive", piped |-> TRUE, serving |-> FALSE,
                        archive |-> package[Ref(s)]]
      OBVIOUS
    <3>3. p \in Process /\ p.life = "alive" /\ ~p.serving
      BY <3>1, <3>2 DEF Process
    <3> QED BY <2>2, <3>2, <3>3 DEF Launch
  <2>3. CASE LaunchFails(j, s)
    <3>1. PICK p : p = [NoProcess EXCEPT !.life = "gone"]
      OBVIOUS
    <3>2. p \in Process /\ p.life = "gone" /\ ~p.serving
      BY <3>1 DEF Process, NoProcess
    <3> QED BY <2>3, <3>1, <3>2 DEF LaunchFails
  <2>4. CASE Exit(j, s)
    <3>1. PICK p : p = [proc[j][s] EXCEPT !.life = "dead", !.serving = FALSE]
      OBVIOUS
    <3>2. p \in Process /\ p.life = "dead" /\ ~p.serving
      BY <2>1, <3>1 DEF Process
    <3> QED BY <2>4, <3>1, <3>2 DEF Exit
  <2>5. CASE Reap(j, s)
    <3>1. PICK p : p = [proc[j][s] EXCEPT !.life = "gone", !.piped = FALSE]
      OBVIOUS
    <3>2. p \in Process /\ p.life = "gone" /\ p.serving = proc[j][s].serving
      BY <2>1, <3>1 DEF Process
    <3> QED BY <2>5, <3>1, <3>2 DEF Reap
  <2> QED BY <2>2, <2>3, <2>4, <2>5
<1>2. PICK p \in Process :
        /\ SetProc(j, s, p)
        /\ \/ proc[j][s].life = "held" /\ p.life \in {"alive", "gone"} /\ ~p.serving
           \/ proc[j][s].life = "alive" /\ p.life = "dead" /\ ~p.serving
           \/ /\ proc[j][s].life = "dead" /\ p.life = "gone"
              /\ p.serving = proc[j][s].serving
  BY <1>1
<1>3. /\ proc' \in [Jobs -> [Slots -> Process]]
      /\ proc'[j][s] = p /\ \A t \in Slots : t # s => proc'[j][t] = proc[j][t]
      /\ \A k \in Jobs : k # j => proc'[k] = proc[k]
  BY <1>2, Facts, ProcSet DEF JobTypes
<1>4. JobTypes' /\ \A k \in Jobs : k # j => Frame(k)
  BY <1>0, <1>3, Facts DEF JobTypes, Frame
<1>5. JobInv(j)'
  <2>1. ProcInv(j)'
    BY <1>0, <1>2, <1>3, Facts DEF JobInv, ProcInv, Unopened, Over, Slots, Early, Preparing
  <2>2. j \in Environments => CleaningInv(j)'
    BY <1>0, <1>2, <1>3, Facts DEF JobInv, ProcInv, CleaningInv, Over, Slots, Leaving, Preparing
  <2>3. j \in Environments => ReadyInv(j)'
    BY <1>0, <1>2, <1>3, Facts DEF JobInv, ProcInv, ReadyInv, Done, Answers, Slots
  <2>4. j \in Environments => FrozenInv(j)'
    BY <1>0, Facts DEF JobInv, FrozenInv, Stored
  <2> QED BY <1>0, <2>1, <2>2, <2>3, <2>4, Facts DEF JobInv
<1> QED BY <1>4, <1>5 DEF Stepped

\* The moves of a job that touch nothing but the job.
Transits(j) ==
    LET at == job[j].pc
        pc == job'[j].pc
    IN  \/ j \in Environments /\ at = "idle" /\ pc = "freeze"
        \/ j \in Puts /\ at = "idle" /\ pc = "validate" /\ job'[j].body \in Bodies
        \/ /\ j \in Environments /\ at = "freeze" /\ pc = "validate"
           /\ Stored(job'[j].number) /\ versions[job'[j].number] = job'[j].body
        \/ at \in {"freeze", "validate", "prepare", "append"} /\ pc = "failed"
        \/ /\ job'[j].number = job[j].number /\ job'[j].body = job[j].body
           /\ \/ at = "validate" /\ pc \in {"prepare", "prepared"}
              \/ /\ at = "prepared" /\ Over(j, "prep") /\ job'[j].compiled = job[j].compiled
                 /\ \/ pc = "failed"
                    \/ j \in Puts /\ pc = "append" /\ job[j].compiled # NoBody
                    \/ j \in Environments /\ pc = "frozen" /\ job[j].compiled = job[j].body
              \/ /\ j \in Environments /\ job'[j].compiled = job[j].compiled
                 /\ \/ at = "right" /\ pc = "newleft" /\ Answers(j, "right")
                    \/ at = "left" /\ pc = "configure" /\ Answers(j, "left")
                    \/ at = "register" /\ pc = "live"
                    \/ at = "rollback" /\ pc = "failed" /\ cleaning[j] = "done"
                    \/ at \in {"destroying", "closing"} /\ pc = "ended" /\ cleaning[j] = "done"
                    \/ at = "live" /\ pc = "ended" /\ j \notin entries

LEMMA MoveStep ==
    ASSUME Inv, NEW j \in Jobs, UNCHANGED <<proc, entries, cleaning, versions>>,
           job' \in [Jobs -> Job], \A k \in Jobs : k # j => job'[k] = job[k], Transits(j)
    PROVE  Stepped(j)
<1>1. JobTypes' /\ \A k \in Jobs : k # j => Frame(k)
  BY Facts DEF JobTypes, Frame
<1>2. ProcInv(j)'
  BY Facts DEF JobInv, ProcInv, Unopened, Over, Slots, Early, Preparing, Transits, Answers, PutPlaces
<1>3. j \in Environments => CleaningInv(j)'
  BY Facts DEF JobInv, ProcInv, CleaningInv, Over, Unopened, Slots, Leaving, Early, Preparing,
       Transits, Answers
<1>4. j \in Environments => ReadyInv(j)'
  BY Facts DEF JobInv, ReadyInv, Done, Answers, Transits
<1>5. j \in Environments => FrozenInv(j)'
  BY Facts DEF JobInv, FrozenInv, Stored, Transits, Early, Preparing
<1>6. j \in Puts => /\ job'[j].pc \in PutPlaces
                    /\ job'[j].pc \notin {"idle", "failed"} => job'[j].body \in Bodies
                    /\ job'[j].pc = "append" => job'[j].compiled # NoBody
  BY Facts DEF JobInv, Transits, PutPlaces
<1>7. j \in Environments => job'[j].pc \notin {"append", "stored"}
  BY Facts DEF JobInv, Transits
<1> QED BY <1>1, <1>2, <1>3, <1>4, <1>5, <1>6, <1>7 DEF Stepped, JobInv

\* A job reads a document and its number.
LEMMA Reads ==
    ASSUME job \in [Jobs -> Job], NEW j \in Jobs, NEW d \in Job, NEW b, NEW n,
           d.pc = "validate", d.number = n, d.body = b, job' = [job EXCEPT ![j] = d]
    PROVE  /\ job' \in [Jobs -> Job] /\ \A k \in Jobs : k # j => job'[k] = job[k]
           /\ job'[j].pc = "validate" /\ job'[j].number = n /\ job'[j].body = b
OBVIOUS

LEMMA CallStep ==
    ASSUME Inv, NEW j \in Jobs,
           \/ j \in Puts /\ PutBegins(j)
           \/ j \in Environments /\ (CheckEnabled(j) \/ ReadVersion(j))
    PROVE  Stepped(j)
<1>1. CASE j \in Puts /\ PutBegins(j)
  <2>1. PICK b \in Bodies, n \in 0..Len(versions) :
           job' = [job EXCEPT ![j].pc = "validate", ![j].body = b, ![j].number = n]
    BY <1>1 DEF PutBegins
  <2>2. PICK d : d = [job[j] EXCEPT !.pc = "validate", !.body = b, !.number = n]
    OBVIOUS
  <2>3. d \in Job /\ d.pc = "validate" /\ d.number = n /\ d.body = b
    <3>1. job[j] \in Job /\ n \in Nat
      BY Facts DEF JobTypes
    <3> QED BY <2>2, <3>1, JobFields
  <2>4. job' = [job EXCEPT ![j] = d]
    BY <2>1, <2>2
  <2>5. UNCHANGED <<proc, entries, cleaning, versions>> /\ job[j].pc = "idle"
    BY <1>1 DEF PutBegins
  <2>6. /\ job' \in [Jobs -> Job] /\ \A k \in Jobs : k # j => job'[k] = job[k]
        /\ job'[j].pc = "validate" /\ job'[j].body = b
    BY <2>3, <2>4, Facts, Reads DEF JobTypes
  <2>7. Transits(j)
    BY <1>1, <2>5, <2>6 DEF Transits
  <2> QED BY <2>5, <2>6, <2>7, MoveStep
<1>2. CASE j \in Environments /\ CheckEnabled(j)
  <2>1. UNCHANGED <<proc, entries, cleaning, versions>> /\ Goto(j, "freeze")
    BY <1>2 DEF CheckEnabled
  <2>2. "freeze" \in Pcs
    BY DEF Pcs
  <2>3. Transits(j)
    BY <1>2, <2>1, <2>2, Facts, Goes DEF JobTypes, CheckEnabled, Transits
  <2> QED BY <2>1, <2>2, <2>3, Facts, Goes, MoveStep DEF JobTypes
<1>3. CASE j \in Environments /\ ReadVersion(j)
  <2>1. PICK n \in 1..Len(versions) :
           job' = [job EXCEPT ![j].pc = "validate", ![j].body = versions[n], ![j].number = n]
    BY <1>3 DEF ReadVersion
  <2>2. PICK b \in Bodies : b = versions[n]
    BY Facts
  <2>3. PICK d : d = [job[j] EXCEPT !.pc = "validate", !.body = b, !.number = n]
    OBVIOUS
  <2>4. d \in Job /\ d.pc = "validate" /\ d.number = n /\ d.body = b
    <3>1. job[j] \in Job /\ n \in Nat
      BY Facts DEF JobTypes
    <3> QED BY <2>3, <3>1, JobFields
  <2>5. job' = [job EXCEPT ![j] = d]
    BY <2>1, <2>2, <2>3
  <2>6. UNCHANGED <<proc, entries, cleaning, versions>> /\ job[j].pc = "freeze"
    BY <1>3 DEF ReadVersion
  <2>7. /\ job' \in [Jobs -> Job] /\ \A k \in Jobs : k # j => job'[k] = job[k]
        /\ job'[j].pc = "validate" /\ job'[j].number = n /\ job'[j].body = b
    BY <2>4, <2>5, Facts, Reads DEF JobTypes
  <2>8. Transits(j)
    BY <1>3, <2>2, <2>6, <2>7 DEF Transits, Stored
  <2> QED BY <2>6, <2>7, <2>8, MoveStep
<1> QED BY <1>1, <1>2, <1>3

\* The moves of a validation and of a creation that only change where the job is.
LEMMA GotoStep ==
    ASSUME Inv, NEW j \in Jobs, NEW pc \in Pcs, Goto(j, pc),
           UNCHANGED <<proc, entries, cleaning, versions>>,
           \/ job[j].pc \in {"freeze", "validate", "prepare", "append"} /\ pc = "failed"
           \/ job[j].pc = "validate" /\ pc = "prepare"
           \/ /\ job[j].pc = "prepared" /\ Over(j, "prep")
              /\ \/ pc = "failed"
                 \/ j \in Puts /\ pc = "append" /\ job[j].compiled # NoBody
                 \/ j \in Environments /\ pc = "frozen" /\ job[j].compiled = job[j].body
           \/ /\ j \in Environments
              /\ \/ job[j].pc = "right" /\ pc = "newleft" /\ Answers(j, "right")
                 \/ job[j].pc = "left" /\ pc = "configure" /\ Answers(j, "left")
                 \/ job[j].pc = "register" /\ pc = "live"
                 \/ job[j].pc = "rollback" /\ pc = "failed" /\ cleaning[j] = "done"
                 \/ job[j].pc \in {"destroying", "closing"} /\ pc = "ended"
                    /\ cleaning[j] = "done"
                 \/ job[j].pc = "live" /\ pc = "ended" /\ j \notin entries
    PROVE  Stepped(j)
<1>1. Transits(j)
  BY Facts, Goes DEF JobTypes, Transits
<1> QED BY <1>1, Facts, Goes, MoveStep DEF JobTypes

LEMMA ValidateStep ==
    ASSUME Inv, NEW j \in Jobs, ReadManifest(j) \/ Validated(j) \/ GivesUp(j)
    PROVE  Stepped(j)
<1>0. /\ UNCHANGED <<proc, entries, cleaning, versions>>
      /\ "prepare" \in Pcs /\ "failed" \in Pcs /\ "append" \in Pcs /\ "frozen" \in Pcs
  BY DEF ReadManifest, Validated, GivesUp, Pcs
<1>1. CASE ReadManifest(j)
  <2>1. CASE Goto(j, "prepare")
    BY <1>0, <1>1, <2>1, GotoStep DEF ReadManifest
  <2>2. CASE job' = [job EXCEPT ![j].pc = "prepared", ![j].compiled = job[j].body]
    <3>0. PICK b \in Bodies \cup {NoBody} : b = job[j].body
      BY Facts DEF JobTypes, Job
    <3>1. PICK d : d = [job[j] EXCEPT !.pc = "prepared", !.compiled = b]
      OBVIOUS
    <3>2. d \in Job /\ d.pc = "prepared" /\ d.number = job[j].number /\ d.body = job[j].body
      <4>1. job[j] \in Job
        BY Facts DEF JobTypes
      <4> QED BY <3>1, <4>1, JobFields
    <3>3. job' = [job EXCEPT ![j] = d] /\ job[j].pc = "validate"
      BY <1>1, <2>2, <3>0, <3>1 DEF ReadManifest
    <3>4. Transits(j)
      BY <3>2, <3>3, Facts, JobSet DEF JobTypes, Transits
    <3> QED BY <1>0, <3>2, <3>3, <3>4, Facts, JobSet, MoveStep DEF JobTypes
  <2> QED BY <1>1, <2>1, <2>2 DEF ReadManifest
<1>2. CASE Validated(j)
  <2>1. PICK pc \in {"failed", "append", "frozen"} :
           /\ Goto(j, pc)
           /\ pc = "append" => j \in Puts /\ job[j].compiled # NoBody
           /\ pc = "frozen" => j \in Environments /\ job[j].compiled = job[j].body
    BY <1>2, Facts DEF Validated
  <2> QED BY <1>0, <1>2, <2>1, GotoStep DEF Validated
<1>3. CASE GivesUp(j)
  BY <1>0, <1>3, GotoStep DEF GivesUp
<1> QED BY <1>1, <1>2, <1>3

LEMMA StoreStep ==
    ASSUME Inv, NEW p \in Puts, Store(p)
    PROVE  /\ Stepped(p)
           /\ job[p].pc = "append" /\ job'[p].pc = "stored"
           /\ versions' = Append(versions, job[p].compiled) /\ job[p].compiled \in Bodies
<1>1. /\ p \in Jobs /\ job[p].pc = "append" /\ UNCHANGED <<proc, entries, cleaning>>
      /\ versions' = Append(versions, job[p].compiled) /\ Goto(p, "stored")
  BY DEF Store, AppendVersion, Jobs
<1>2. job[p].compiled \in Bodies
  BY <1>1, Facts DEF JobInv, JobTypes, Job
<1>3. /\ job' \in [Jobs -> Job] /\ \A k \in Jobs : k # p => job'[k] = job[k]
      /\ job'[p].pc = "stored" /\ job'[p].body = job[p].body
  <2>1. "stored" \in Pcs
    BY DEF Pcs
  <2> QED BY <1>1, <2>1, Facts, Goes DEF JobTypes
<1>4. JobTypes' /\ \A k \in Jobs : k # p => Frame(k)
  BY <1>1, <1>3, Facts DEF JobTypes, Frame
<1>5. JobInv(p)'
  <2>1. ProcInv(p)'
    BY <1>1, <1>3, Facts DEF JobInv, ProcInv, Unopened, Over, Slots, Early, Preparing
  <2> QED BY <1>1, <1>3, <2>1, Facts DEF JobInv, PutPlaces
<1> QED BY <1>1, <1>2, <1>3, <1>4, <1>5 DEF Stepped

LEMMA OpenStep ==
    ASSUME Inv, NEW j \in Jobs,
           OpenPreparer(j) \/ (j \in Environments /\ (NewRight(j) \/ NewLeft(j)))
    PROVE  Stepped(j)
<1>1. PICK s \in Slots, pc \in Pcs :
        /\ Open(j, s, pc)
        /\ \/ s = "prep" /\ job[j].pc = "prepare" /\ pc = "preparing"
           \/ s = "right" /\ job[j].pc = "frozen" /\ pc = "right" /\ j \in Environments
           \/ s = "left" /\ job[j].pc = "newleft" /\ pc = "left" /\ j \in Environments
  BY DEF OpenPreparer, NewRight, NewLeft, Slots, Pcs
<1>2. UNCHANGED <<versions, entries, cleaning>>
  BY DEF OpenPreparer, NewRight, NewLeft
<1>3. PICK p : p = [NoProcess EXCEPT !.life = "held"]
  OBVIOUS
<1>4. p \in Process /\ p.life = "held" /\ ~p.serving
  BY <1>3 DEF Process, NoProcess
<1>5. /\ proc' \in [Jobs -> [Slots -> Process]]
      /\ proc'[j][s] = p /\ \A t \in Slots : t # s => proc'[j][t] = proc[j][t]
      /\ \A k \in Jobs : k # j => proc'[k] = proc[k]
  <2>1. SetProc(j, s, p)
    BY <1>1, <1>3 DEF Open
  <2> QED BY <1>4, <2>1, Facts, ProcSet DEF JobTypes
<1>6. /\ job' \in [Jobs -> Job] /\ \A k \in Jobs : k # j => job'[k] = job[k]
      /\ job'[j].pc = pc /\ job'[j].number = job[j].number
      /\ job'[j].body = job[j].body /\ job'[j].compiled = job[j].compiled
  <2>1. Goto(j, pc)
    BY <1>1 DEF Open
  <2> QED BY <2>1, Facts, Goes DEF JobTypes
<1>7. JobTypes' /\ \A k \in Jobs : k # j => Frame(k)
  BY <1>2, <1>5, <1>6, Facts DEF JobTypes, Frame
<1>8. ProcInv(j)'
  BY <1>1, <1>4, <1>5, <1>6, Facts DEF JobInv, ProcInv, Unopened, Over, Slots, Early, Preparing
<1>9. j \in Environments => CleaningInv(j)'
  BY <1>1, <1>2, <1>4, <1>5, <1>6, Facts DEF JobInv, CleaningInv, Over, Slots, Leaving
<1>10. j \in Environments => ReadyInv(j)'
  BY <1>1, <1>4, <1>5, <1>6, Facts
  DEF JobInv, ProcInv, ReadyInv, Unopened, Slots, Early, Preparing
<1>11. j \in Environments => FrozenInv(j)'
  BY <1>1, <1>2, <1>6, Facts DEF JobInv, FrozenInv, Stored, Early, Preparing
<1>12. /\ j \in Puts => job'[j].pc \in PutPlaces /\ job'[j].pc # "append"
                        /\ job'[j].body \in Bodies
       /\ j \in Environments => job'[j].pc \notin {"append", "stored"}
  BY <1>1, <1>6, Facts DEF JobInv, PutPlaces
<1> QED BY <1>7, <1>8, <1>9, <1>10, <1>11, <1>12 DEF Stepped, JobInv

LEMMA PreparedStep ==
    ASSUME Inv, NEW j \in Jobs, Prepared(j)
    PROVE  Stepped(j)
<1>1. /\ job[j].pc = "preparing" /\ proc[j]["prep"].life # "held"
      /\ UNCHANGED <<versions, entries, cleaning>>
  BY DEF Prepared
<1>2. PICK b \in Bodies \cup {NoBody} :
         job' = [job EXCEPT ![j].pc = "prepared", ![j].compiled = b]
  <2>1. job[j].body \in Bodies
    <3>1. CASE j \in Puts
      BY <1>1, <3>1, Facts DEF JobInv
    <3>2. CASE j \in Environments
      BY <1>1, <3>2, Facts DEF JobInv, FrozenInv, Stored
    <3> QED BY <3>1, <3>2, Facts
  <2>2. \A a \in Preparers : Compile[a][job[j].body] \in Bodies \cup {NoBody}
    BY <2>1, BindingsAssumption
  <2>3. PICK a, b : /\ (a \in Preparers /\ b = Compile[a][job[j].body]) \/ b = NoBody
                    /\ job' = [job EXCEPT ![j].pc = "prepared", ![j].compiled = b]
    BY DEF Prepared
  <2> QED BY <2>2, <2>3
<1>3. PICK d : d = [job[j] EXCEPT !.pc = "prepared", !.compiled = b]
  OBVIOUS
<1>4. /\ d \in Job /\ d.pc = "prepared" /\ d.number = job[j].number /\ d.body = job[j].body
  <2>1. job[j] \in Job
    BY Facts DEF JobTypes
  <2> QED BY <1>3, <2>1, JobFields
<1>5. job' = [job EXCEPT ![j] = d]
  BY <1>2, <1>3
<1>6. PICK p : p = [proc[j]["prep"] EXCEPT !.piped = FALSE]
  OBVIOUS
<1>7. p \in Process /\ p.life = proc[j]["prep"].life /\ p.serving = proc[j]["prep"].serving
  <2>1. proc[j]["prep"] \in Process
    BY Facts
  <2> QED BY <1>6, <2>1 DEF Process
<1>8. /\ proc' \in [Jobs -> [Slots -> Process]]
      /\ proc'[j]["prep"] = p /\ \A t \in Slots : t # "prep" => proc'[j][t] = proc[j][t]
      /\ \A k \in Jobs : k # j => proc'[k] = proc[k]
  BY <1>6, <1>7, Facts, ProcSet DEF JobTypes, Prepared
<1>9. /\ job' \in [Jobs -> Job] /\ \A k \in Jobs : k # j => job'[k] = job[k]
      /\ job'[j].pc = "prepared" /\ job'[j].number = job[j].number
      /\ job'[j].body = job[j].body
  BY <1>4, <1>5, Facts, JobSet DEF JobTypes
<1>10. JobTypes' /\ \A k \in Jobs : k # j => Frame(k)
  BY <1>1, <1>8, <1>9, Facts DEF JobTypes, Frame
<1>11. ProcInv(j)'
  BY <1>1, <1>7, <1>8, <1>9, Facts DEF JobInv, ProcInv, Unopened, Over, Slots, Early, Preparing
<1>12. j \in Environments => CleaningInv(j)'
  BY <1>1, <1>7, <1>8, <1>9, Facts DEF JobInv, CleaningInv, Over, Slots, Leaving
<1>13. j \in Environments => ReadyInv(j)'
  BY <1>1, <1>8, <1>9, Facts DEF JobInv, ReadyInv, Done, Answers, Slots
<1>14. j \in Environments => FrozenInv(j)'
  BY <1>1, <1>9, Facts DEF JobInv, FrozenInv, Stored, Early, Preparing
<1>15. /\ j \in Puts => job'[j].pc \in PutPlaces /\ job'[j].body \in Bodies
  BY <1>1, <1>9, Facts DEF JobInv, PutPlaces
<1> QED BY <1>9, <1>10, <1>11, <1>12, <1>13, <1>14, <1>15 DEF Stepped, JobInv

\* The instance of one side is started, whether the caller learns of it or not.
LEMMA ServeStep ==
    ASSUME Inv, NEW e \in Environments, StartRight(e) \/ StartLeft(e) \/ StartFails(e)
    PROVE  Stepped(e)
<1>0. e \in Jobs /\ e \notin Puts
  BY BindingsAssumption DEF Jobs
<1>1. PICK s \in {"left", "right"}, pc \in Pcs :
        /\ Goto(e, pc) /\ Answers(e, s)
        /\ SetProc(e, s, [proc[e][s] EXCEPT !.serving = TRUE])
        /\ job[e].pc = IF s = "right" THEN "configure" ELSE "startleft"
        /\ \/ s = "right" /\ pc = "startleft" /\ UNCHANGED cleaning /\ Answers(e, "left")
           \/ s = "left" /\ pc = "publish" /\ UNCHANGED cleaning
           \/ pc = "rollback" /\ cleaning' = [cleaning EXCEPT ![e] = "left"]
  <2>1. "startleft" \in Pcs /\ "publish" \in Pcs /\ "rollback" \in Pcs
    BY DEF Pcs
  <2>2. CASE StartRight(e)
    BY <2>1, <2>2 DEF StartRight
  <2>3. CASE StartLeft(e)
    BY <2>1, <2>3 DEF StartLeft
  <2>4. CASE StartFails(e)
    BY <2>1, <2>4 DEF StartFails
  <2> QED BY <2>2, <2>3, <2>4
<1>2. UNCHANGED <<versions, entries>>
  BY DEF StartRight, StartLeft, StartFails
<1>3. PICK p : p = [proc[e][s] EXCEPT !.serving = TRUE]
  OBVIOUS
<1>4. /\ p \in Process /\ p.life = "alive" /\ p.piped /\ p.serving /\ s \in Slots
      /\ proc[e][s].life = "alive"
  BY <1>0, <1>1, <1>3, Facts DEF Process, Answers, Slots
<1>5. /\ proc' \in [Jobs -> [Slots -> Process]]
      /\ proc'[e][s] = p /\ \A t \in Slots : t # s => proc'[e][t] = proc[e][t]
      /\ \A k \in Jobs : k # e => proc'[k] = proc[k]
  <2>1. SetProc(e, s, p)
    BY <1>1, <1>3
  <2> QED BY <1>0, <1>4, <2>1, Facts, ProcSet DEF JobTypes
<1>6. /\ job' \in [Jobs -> Job] /\ \A k \in Jobs : k # e => job'[k] = job[k]
      /\ job'[e].pc = pc /\ job'[e].number = job[e].number
      /\ job'[e].body = job[e].body /\ job'[e].compiled = job[e].compiled
  BY <1>0, <1>1, Facts, Goes DEF JobTypes
<1>7. /\ cleaning' \in [Environments -> Cleanings]
      /\ cleaning'[e] = IF pc = "rollback" THEN "left" ELSE cleaning[e]
      /\ \A k \in Environments : k # e => cleaning'[k] = cleaning[k]
  BY <1>1, Facts DEF JobTypes, Cleanings
<1>8. JobTypes' /\ \A k \in Jobs : k # e => Frame(k)
  BY <1>2, <1>5, <1>6, <1>7, Facts DEF JobTypes, Frame
<1>9. ProcInv(e)'
  BY <1>0, <1>1, <1>4, <1>5, <1>6, Facts
  DEF JobInv, ProcInv, Unopened, Over, Slots, Early, Preparing
<1>10. CleaningInv(e)'
  BY <1>0, <1>1, <1>2, <1>4, <1>5, <1>6, <1>7, Facts
  DEF JobInv, CleaningInv, Over, Slots, Leaving
<1>11. ReadyInv(e)'
  BY <1>0, <1>1, <1>4, <1>5, <1>6, Facts
  DEF JobInv, ProcInv, ReadyInv, Slots, Done, Answers
<1>12. FrozenInv(e)'
  BY <1>0, <1>1, <1>2, <1>6, Facts DEF JobInv, FrozenInv, Stored, Early, Preparing
<1> QED BY <1>0, <1>1, <1>6, <1>8, <1>9, <1>10, <1>11, <1>12 DEF Stepped, JobInv

\* The cleaning of a binding begins, or its creation or destruction goes on.
LEMMA CleaningStep ==
    ASSUME Inv, NEW e \in Environments, UNCHANGED <<proc, versions>>,
           job' \in [Jobs -> Job], \A k \in Jobs : k # e => job'[k] = job[k],
           job'[e].number = job[e].number, job'[e].body = job[e].body,
           job'[e].compiled = job[e].compiled,
           \/ /\ cleaning' = [cleaning EXCEPT ![e] = "left"]
              /\ \/ /\ entries' = entries
                    /\ job[e].pc \in {"frozen", "right", "newleft", "left", "configure",
                                      "startleft", "publish"}
                    /\ \A s \in Slots : proc[e][s].life # "held"
                    /\ job'[e].pc = "rollback"
                 \/ /\ e \in entries /\ entries' = entries \ {e}
                    /\ job'[e].pc = job[e].pc \/ job'[e].pc \in Leaving
           \/ /\ cleaning' = cleaning
              /\ \/ job[e].pc = "publish" /\ job'[e].pc = "register"
                    /\ entries' = entries \cup {e}
                 \/ /\ e \notin entries /\ entries' = entries \ {e}
                    /\ \/ job[e].pc = "register" /\ job'[e].pc = "failed"
                       \/ job'[e].pc = job[e].pc
    PROVE  Stepped(e)
<1>0. e \in Jobs /\ e \notin Puts
  BY BindingsAssumption DEF Jobs
<1>1. /\ cleaning' \in [Environments -> Cleanings]
      /\ \A k \in Environments : k # e => cleaning'[k] = cleaning[k]
      /\ cleaning'[e] \in {"left", cleaning[e]}
  BY Facts DEF JobTypes, Cleanings
<1>2. JobTypes' /\ \A k \in Jobs : k # e => Frame(k)
  BY <1>1, Facts DEF JobTypes, Frame
<1>3. ProcInv(e)'
  BY <1>0, Facts DEF JobInv, ProcInv, CleaningInv, Unopened, Over, Slots, Early, Preparing, Leaving
<1>4. CleaningInv(e)'
  BY <1>0, <1>1, Facts DEF JobInv, JobTypes, CleaningInv, Over, Slots, Leaving
<1>5. ReadyInv(e)'
  BY <1>0, Facts DEF JobInv, ReadyInv, CleaningInv, Done, Answers, Leaving
<1>6. FrozenInv(e)'
  BY <1>0, Facts DEF JobInv, FrozenInv, CleaningInv, Stored, Early, Preparing, Leaving
<1>7. job'[e].pc \notin {"append", "stored"}
  BY <1>0, Facts DEF JobInv, Leaving
<1> QED BY <1>0, <1>2, <1>3, <1>4, <1>5, <1>6, <1>7 DEF Stepped, JobInv

LEMMA CreateStep ==
    ASSUME Inv, NEW e \in Environments, Create(e)
    PROVE  Stepped(e)
<1>0. /\ e \in Jobs /\ "newleft" \in Pcs /\ "configure" \in Pcs /\ "rollback" \in Pcs
      /\ "register" \in Pcs /\ "live" \in Pcs /\ "failed" \in Pcs
  BY DEF Jobs, Pcs
<1>1. CASE NewRight(e) \/ NewLeft(e)
  BY <1>0, <1>1, OpenStep
<1>2. CASE StartRight(e) \/ StartLeft(e) \/ StartFails(e)
  BY <1>2, ServeStep
<1>3. CASE Describes(e)
  <2>1. UNCHANGED <<proc, entries, cleaning, versions>>
    BY <1>3 DEF Describes
  <2> QED BY <1>0, <1>3, <2>1, GotoStep DEF Describes
<1>4. CASE Register(e)
  <2>1. UNCHANGED <<proc, entries, cleaning, versions>>
    BY <1>4 DEF Register
  <2> QED BY <1>0, <1>4, <2>1, GotoStep DEF Register
<1>5. CASE CreateFails(e)
  <2>1. UNCHANGED <<proc, entries, versions>> /\ Goto(e, "rollback")
    BY <1>5 DEF CreateFails
  <2>2. /\ job' \in [Jobs -> Job] /\ \A k \in Jobs : k # e => job'[k] = job[k]
        /\ job'[e].pc = "rollback" /\ job'[e].number = job[e].number
        /\ job'[e].body = job[e].body /\ job'[e].compiled = job[e].compiled
    BY <1>0, <2>1, Facts, Goes DEF JobTypes
  <2> QED BY <1>5, <2>1, <2>2, CleaningStep DEF CreateFails
<1>6. CASE Publish(e)
  <2>1. UNCHANGED <<proc, cleaning, versions>> /\ Goto(e, "register")
    BY <1>6 DEF Publish
  <2>2. /\ job' \in [Jobs -> Job] /\ \A k \in Jobs : k # e => job'[k] = job[k]
        /\ job'[e].pc = "register" /\ job'[e].number = job[e].number
        /\ job'[e].body = job[e].body /\ job'[e].compiled = job[e].compiled
    BY <1>0, <2>1, Facts, Goes DEF JobTypes
  <2> QED BY <1>6, <2>1, <2>2, CleaningStep DEF Publish
<1>7. CASE RegisterFails(e)
  <2>1. PICK pc \in Pcs : Goto(e, pc) /\ pc = IF e \in entries THEN "rollback" ELSE "failed"
    BY <1>0, <1>7 DEF RegisterFails
  <2>2. UNCHANGED <<proc, versions>> /\ Destroy(e) /\ job[e].pc = "register"
    BY <1>7 DEF RegisterFails
  <2>3. /\ job' \in [Jobs -> Job] /\ \A k \in Jobs : k # e => job'[k] = job[k]
        /\ job'[e].pc = pc /\ job'[e].number = job[e].number
        /\ job'[e].body = job[e].body /\ job'[e].compiled = job[e].compiled
    BY <1>0, <2>1, Facts, Goes DEF JobTypes
  <2> QED BY <2>1, <2>2, <2>3, CleaningStep DEF Destroy, Leaving
<1> QED BY <1>1, <1>2, <1>3, <1>4, <1>5, <1>6, <1>7 DEF Create

\* Versions are only ever added.
Grows ==
    /\ Len(versions') \in Nat /\ Len(versions) <= Len(versions')
    /\ \A n \in 1..Len(versions) : versions'[n] = versions[n]

\* A job to which nothing happens keeps its invariant.
LEMMA FrameKeeps ==
    ASSUME Inv, NEW k \in Jobs, Frame(k), Grows
    PROVE  JobInv(k)'
<1>1. /\ job'[k].pc = job[k].pc /\ job'[k].number = job[k].number
      /\ job'[k].body = job[k].body /\ job'[k].compiled = job[k].compiled
      /\ \A s \in Slots : proc'[k][s] = proc[k][s]
  BY DEF Frame
<1>2. ProcInv(k)'
  BY <1>1, Facts DEF JobInv, ProcInv, Unopened, Over, Slots
<1>3. k \in Environments => CleaningInv(k)'
  BY <1>1, Facts DEF Frame, JobInv, CleaningInv, Over, Slots
<1>4. k \in Environments => ReadyInv(k)'
  BY <1>1, Facts DEF JobInv, ReadyInv, Done, Answers
<1>5. k \in Environments => FrozenInv(k)'
  BY <1>1, Facts DEF JobInv, FrozenInv, Stored, Grows
<1> QED BY <1>1, <1>2, <1>3, <1>4, <1>5, Facts DEF JobInv

LEMMA LeaveStep ==
    ASSUME Inv, NEW e \in Environments,
           DestroyEnvironment(e) \/ CleanedUp(e) \/ WatchDestroys(e) \/ CloseNext(e)
    PROVE  Stepped(e)
<1>0. /\ e \in Jobs /\ "failed" \in Pcs /\ "ended" \in Pcs /\ "destroying" \in Pcs
      /\ "closing" \in Pcs
  BY DEF Jobs, Pcs
<1>1. UNCHANGED <<proc, versions>>
  BY DEF DestroyEnvironment, CleanedUp, WatchDestroys, CloseNext
\* The entry is taken out of the table.
<1>2. ASSUME NEW pc \in Pcs, Goto(e, pc), pc \in Leaving, e \in entries, Destroy(e)
      PROVE  Stepped(e)
  <2>1. /\ job' \in [Jobs -> Job] /\ \A k \in Jobs : k # e => job'[k] = job[k]
        /\ job'[e].pc = pc /\ job'[e].number = job[e].number
        /\ job'[e].body = job[e].body /\ job'[e].compiled = job[e].compiled
    BY <1>0, <1>2, Facts, Goes DEF JobTypes
  <2> QED BY <1>1, <1>2, <2>1, CleaningStep DEF Destroy
\* Somebody else took it: nothing, or only the environment, is left.
<1>3. ASSUME job' = job, Destroy(e)
      PROVE  Stepped(e)
  <2>1. job' \in [Jobs -> Job]
    BY <1>3, Facts DEF JobTypes
  <2>2. CASE e \in entries
    BY <1>1, <1>3, <2>1, <2>2, CleaningStep DEF Destroy
  <2>3. CASE e \notin entries
    BY <1>1, <1>3, <2>1, <2>3, CleaningStep DEF Destroy
  <2> QED BY <2>2, <2>3
<1>4. ASSUME UNCHANGED <<job, entries, cleaning>>
      PROVE  Stepped(e)
  <2>1. JobTypes' /\ \A k \in Jobs : k # e => Frame(k)
    BY <1>1, <1>4, Facts DEF JobTypes, Frame
  <2>2. Frame(e) /\ Grows
    BY <1>0, <1>1, <1>4, Facts DEF Frame, Grows
  <2> QED BY <1>0, <2>1, <2>2, FrameKeeps DEF Stepped
<1>5. ASSUME e \notin entries, job[e].pc = "live", Goto(e, "ended"),
             UNCHANGED <<entries, cleaning>>
      PROVE  Stepped(e)
  BY <1>0, <1>1, <1>5, GotoStep
<1>6. CASE DestroyEnvironment(e)
  <2>1. CASE e \in entries
    BY <1>0, <1>2, <1>6, <2>1 DEF DestroyEnvironment, Leaving
  <2>2. CASE e \notin entries
    BY <1>5, <1>6, <2>2 DEF DestroyEnvironment, Destroy
  <2> QED BY <2>1, <2>2
<1>7. CASE CleanedUp(e)
  <2>1. UNCHANGED <<entries, cleaning>> /\ cleaning[e] = "done"
    BY <1>7 DEF CleanedUp
  <2>2. CASE job[e].pc = "rollback" /\ Goto(e, "failed")
    BY <1>0, <1>1, <2>1, <2>2, GotoStep
  <2>3. CASE job[e].pc \in {"destroying", "closing"} /\ Goto(e, "ended")
    BY <1>0, <1>1, <2>1, <2>3, GotoStep
  <2> QED BY <1>7, <2>2, <2>3 DEF CleanedUp
<1>8. CASE WatchDestroys(e)
  BY <1>3, <1>8 DEF WatchDestroys
<1>9. CASE CloseNext(e)
  <2>1. CASE Destroy(e) /\ Goto(e, "closing") /\ e \in entries
    BY <1>0, <1>2, <2>1 DEF Leaving
  <2>2. CASE /\ e \notin entries /\ UNCHANGED <<entries, cleaning>>
             /\ IF job[e].pc = "live" THEN Goto(e, "ended") ELSE UNCHANGED job
    BY <1>4, <1>5, <2>2
  <2>3. CASE UNCHANGED <<job, entries, cleaning>>
    BY <1>4, <2>3
  <2> QED BY <1>9, <2>1, <2>2, <2>3 DEF CloseNext
<1> QED BY <1>6, <1>7, <1>8, <1>9

\* cleanup closes the left side, waits for it, then the right one.
LEMMA CleanUpStep ==
    ASSUME Inv, NEW e \in Environments, CleanUp(e)
    PROVE  Stepped(e)
<1>0. e \in Jobs /\ e \notin Puts
  BY BindingsAssumption DEF Jobs
<1>1. UNCHANGED <<versions, entries, job>>
  BY DEF CleanUp
<1>2. PICK c \in Cleanings :
        /\ cleaning' = [cleaning EXCEPT ![e] = c]
        /\ \/ cleaning[e] = "left" /\ c = "leftwait" /\ CloseSide(e, "left")
           \/ cleaning[e] = "leftwait" /\ c = "rightwait" /\ Over(e, "left")
              /\ CloseSide(e, "right")
           \/ cleaning[e] = "rightwait" /\ c = "done" /\ Over(e, "right") /\ proc' = proc
  BY DEF CleanUp, Cleanings
<1>3. /\ cleaning' \in [Environments -> Cleanings] /\ cleaning'[e] = c
      /\ \A k \in Environments : k # e => cleaning'[k] = cleaning[k]
  BY <1>2, Facts DEF JobTypes
<1>4. ASSUME NEW s \in {"left", "right"}, CloseSide(e, s)
      PROVE  /\ proc' \in [Jobs -> [Slots -> Process]]
             /\ proc'[e][s].life = proc[e][s].life /\ proc'[e][s].serving = proc[e][s].serving
             /\ \A t \in Slots : t # s => proc'[e][t] = proc[e][t]
             /\ \A k \in Jobs : k # e => proc'[k] = proc[k]
  <2>1. PICK p : p = [proc[e][s] EXCEPT !.piped = FALSE]
    OBVIOUS
  <2>2. s \in Slots /\ proc[e][s] \in Process
    BY <1>0, Facts DEF Slots
  <2>3. p \in Process /\ p.life = proc[e][s].life /\ p.serving = proc[e][s].serving
    BY <2>1, <2>2 DEF Process
  <2>4. SetProc(e, s, p)
    BY <1>4, <2>1 DEF CloseSide
  <2> QED BY <1>0, <2>2, <2>3, <2>4, Facts, ProcSet DEF JobTypes
<1>5. /\ proc' \in [Jobs -> [Slots -> Process]]
      /\ \A s \in Slots : /\ proc'[e][s].life = proc[e][s].life
                          /\ proc'[e][s].serving = proc[e][s].serving
      /\ cleaning[e] = "left" => proc'[e]["right"] = proc[e]["right"]
      /\ \A k \in Jobs : k # e => proc'[k] = proc[k]
  BY <1>2, <1>4, Facts DEF JobTypes, Slots
<1>6. JobTypes' /\ \A k \in Jobs : k # e => Frame(k)
  BY <1>1, <1>3, <1>5, Facts DEF JobTypes, Frame
<1>7. ProcInv(e)'
  BY <1>0, <1>1, <1>5, Facts DEF JobInv, ProcInv, Unopened, Over, Slots
<1>8. CleaningInv(e)'
  BY <1>0, <1>1, <1>2, <1>3, <1>5, Facts DEF JobInv, CleaningInv, Over, Slots, Leaving
<1>9. ReadyInv(e)'
  <2>1. CASE cleaning[e] = "left"
    BY <1>0, <1>1, <1>5, <2>1, Facts DEF JobInv, ReadyInv, Done, Answers
  <2>2. CASE cleaning[e] = "rightwait"
    BY <1>0, <1>1, <1>2, <2>2, Facts DEF JobInv, ReadyInv, Done, Answers
  <2>3. CASE cleaning[e] = "leftwait"
    BY <1>0, <1>1, <1>2, <1>5, <2>3, Facts
    DEF JobInv, ProcInv, CleaningInv, ReadyInv, Over, Leaving
  <2> QED BY <1>2, <2>1, <2>2, <2>3
<1>10. FrozenInv(e)'
  BY <1>0, <1>1, Facts DEF JobInv, FrozenInv, Stored
<1> QED BY <1>0, <1>1, <1>6, <1>7, <1>8, <1>9, <1>10, Facts DEF Stepped, JobInv
\* A daemon that is gone: calls that were under way have failed, processes are nobody's.
LEMMA GoneStep ==
    ASSUME Inv, Gone
    PROVE  JobTypes' /\ \A j \in Jobs : JobInv(j)'
<1>1. /\ \A j \in Jobs : proc'[j] = [s \in Slots |-> NoProcess]
      /\ entries' = {} /\ \A e \in Environments : cleaning'[e] = "none"
      /\ versions' = versions /\ cleaning' \in [Environments -> Cleanings]
  BY DEF Gone, Cleanings
<1>2. NoProcess \in Process /\ NoProcess.life = "none" /\ ~NoProcess.serving
  BY DEF NoProcess, Process
<1>3. proc' \in [Jobs -> [Slots -> Process]]
  BY <1>2 DEF Gone
<1>4. \A j \in Jobs, s \in Slots : proc'[j][s].life = "none" /\ ~proc'[j][s].serving
  BY <1>1, <1>2
<1>5. ASSUME NEW j \in Jobs
      PROVE  /\ job'[j] \in Job /\ job'[j].number = job[j].number
             /\ job'[j].body = job[j].body /\ job'[j].compiled = job[j].compiled
             /\ job'[j].pc = IF job[j].pc \in Returned \ {"live"} THEN job[j].pc ELSE "failed"
  <2>0. job[j] \in Job /\ job[j].pc \in Pcs
    BY Facts DEF JobTypes
  <2>1. PICK d : d = [job[j] EXCEPT !.pc = "failed"]
    OBVIOUS
  <2>2. /\ d \in Job /\ d.pc = "failed" /\ d.number = job[j].number /\ d.body = job[j].body
        /\ d.compiled = job[j].compiled
    BY <2>0, <2>1 DEF Job
  <2>3. job'[j] = IF job[j].pc \in Returned \ {"live"} THEN job[j] ELSE d
    BY <2>1 DEF Gone
  <2> QED BY <2>0, <2>2, <2>3
<1>6. job' \in [Jobs -> Job]
  <2>1. job' = [j \in Jobs |-> job'[j]]
    BY DEF Gone
  <2> QED BY <1>5, <2>1
<1>7. ASSUME NEW j \in Jobs
      PROVE  JobInv(j)'
  <2>1. ProcInv(j)'
    BY <1>4, <1>5, Facts DEF ProcInv, Unopened, Over
  <2>2. j \in Environments => CleaningInv(j)'
    BY <1>1, <1>4, <1>5, Facts DEF JobInv, CleaningInv, Over, Leaving, Returned
  <2>3. j \in Environments => ReadyInv(j)'
    BY <1>4, <1>5, Facts DEF ReadyInv, Returned
  <2>4. j \in Environments => FrozenInv(j)'
    BY <1>1, <1>5, Facts DEF JobInv, FrozenInv, Stored, Early, Preparing, Returned
  <2> QED BY <1>5, <2>1, <2>2, <2>3, <2>4, Facts DEF JobInv, PutPlaces, Returned
<1> QED BY <1>1, <1>3, <1>6, <1>7 DEF JobTypes

\* Every other step is the step of one job, or of none.
LEMMA OneSteps ==
    ASSUME Inv, [Next]_vars
    PROVE  \/ Gone
           \/ UNCHANGED <<job, proc, entries, cleaning>>
           \/ \E j \in Jobs : Stepped(j)
<1>0. Environments \subseteq Jobs /\ Puts \subseteq Jobs
  BY DEF Jobs
<1>1. \A j \in Jobs, s \in Slots :
         Launch(j, s) \/ LaunchFails(j, s) \/ Exit(j, s) \/ Reap(j, s) => Stepped(j)
  BY LaunchStep
<1>2. \A j \in Jobs : ReadManifest(j) \/ Validated(j) \/ GivesUp(j) => Stepped(j)
  BY ValidateStep
<1>3. \A j \in Jobs : Prepared(j) => Stepped(j)
  BY PreparedStep
<1>4. \A j \in Jobs : OpenPreparer(j) => Stepped(j)
  BY OpenStep
<1>5. \A p \in Puts : PutBegins(p) => Stepped(p)
  BY <1>0, CallStep
<1>6. \A p \in Puts : Store(p) => Stepped(p)
  BY StoreStep
<1>7. \A e \in Environments : CheckEnabled(e) \/ ReadVersion(e) => Stepped(e)
  BY <1>0, CallStep
<1>8. \A e \in Environments : Create(e) => Stepped(e)
  BY CreateStep
<1>9. \A e \in Environments :
         DestroyEnvironment(e) \/ CleanedUp(e) \/ WatchDestroys(e) \/ CloseNext(e)
           => Stepped(e)
  BY LeaveStep
<1>10. \A e \in Environments : CleanUp(e) => Stepped(e)
  BY CleanUpStep
<1>11. CASE ~(Crash \/ Exits) /\ ~\E j \in Jobs : Stepped(j)
  <2>1. UNCHANGED job
    BY <1>0, <1>2, <1>3, <1>4, <1>5, <1>6, <1>7, <1>8, <1>9, <1>11, JobChanges, Zenon DEF Create
  <2>2. UNCHANGED proc
    BY <1>0, <1>1, <1>3, <1>4, <1>8, <1>10, <1>11, ProcChanges, Zenon DEF Create
  <2>3. UNCHANGED entries
    BY <1>0, <1>8, <1>9, <1>11, EntriesChanges, Zenon DEF Create
  <2>4. UNCHANGED cleaning
    BY <1>0, <1>8, <1>9, <1>10, <1>11, CleaningChanges, Zenon DEF Create
  <2> QED BY <2>1, <2>2, <2>3, <2>4
<1> QED BY <1>11 DEF Crash, Exits

LEMMA VersionsGrow ==
    ASSUME Inv, [Next]_vars
    PROVE  versions' \in Seq(Bodies) /\ Grows
<1>1. CASE UNCHANGED versions
  BY <1>1, Facts DEF Grows
<1>2. ASSUME NEW p \in Puts, Store(p)
      PROVE  versions' \in Seq(Bodies) /\ Grows
  BY <1>2, StoreStep, Facts DEF Grows
<1> QED BY <1>1, <1>2, VersionsChanges

LEMMA JobsStep ==
    ASSUME Inv, [Next]_vars
    PROVE  JobTypes' /\ \A j \in Jobs : JobInv(j)'
<1>1. CASE Gone
  BY <1>1, GoneStep
<1>2. CASE UNCHANGED <<job, proc, entries, cleaning>>
  <2>1. \A j \in Jobs : Frame(j)
    BY <1>2 DEF Frame
  <2> QED BY <1>2, <2>1, Facts, VersionsGrow, FrameKeeps DEF JobTypes
<1>3. ASSUME NEW j \in Jobs, Stepped(j)
      PROVE  JobTypes' /\ \A k \in Jobs : JobInv(k)'
  <2>1. \A k \in Jobs : k # j => JobInv(k)'
    BY <1>3, VersionsGrow, FrameKeeps DEF Stepped
  <2> QED BY <1>3, <2>1 DEF Stepped
<1> QED BY <1>1, <1>2, <1>3, OneSteps
-------------------------------------------------------------------------------
(* The catalog: references, records and packages.                           *)

Record == [archive : Archives \cup {NoArchive}, enabled : BOOLEAN, active : Nat]

CatalogTypes ==
    /\ record \in [Refs -> Record]
    /\ \A ref \in Refs : ~Installed(ref) => record[ref] = Missing
    /\ package \in [Refs -> Archives \cup {NoArchive}]
    /\ moving \in Moves /\ lost \in [Refs -> Nat] /\ torn \subseteq Refs

\* What a step of the catalog has to establish.
Catalogued == CatalogTypes' /\ CatalogInv'

LEMMA CatalogFacts ==
    ASSUME Inv
    PROVE  /\ CatalogTypes /\ CatalogInv
           /\ \A ref \in Refs : record[ref] \in Record /\ RefOf \in [Archives -> Refs]
           /\ NoArchive \notin Archives
           /\ \A s \in Slots : Ref(s) \in Refs
           /\ \A j \in Jobs, s \in Slots : Holds(j, s) => record[Ref(s)].enabled
           /\ \A j \in Jobs, s \in Slots : Holds(j, s) => Installed(Ref(s))
<1>1. CatalogTypes
  <2>1. Cardinality(Jobs \X Slots) + MaxLost \in Nat
    <3>1. IsFiniteSet(Jobs)
      BY BindingsAssumption, FS_Union DEF Jobs
    <3>2. IsFiniteSet(Slots)
      <4>1. Slots = ({"prep"} \cup {"right"}) \cup {"left"}
        BY DEF Slots
      <4> QED BY <4>1, FS_Singleton, FS_AddElement
    <3>3. IsFiniteSet(Jobs \X Slots)
      BY <3>1, <3>2, FS_Product
    <3> QED BY <3>3, FS_CardinalityType, BindingsAssumption
  <2>2. record \in [Refs -> Record]
    BY <2>1 DEF Inv, TypeOK, Record
  <2>3. lost \in [Refs -> Nat]
    BY BindingsAssumption DEF Inv, TypeOK
  <2> QED BY <2>2, <2>3 DEF Inv, TypeOK, CatalogTypes
<1>2. \A s \in Slots : Ref(s) \in Refs
  BY BindingsAssumption DEF Ref, Slots
<1>3. \A j \in Jobs, s \in Slots : Holds(j, s) => record[Ref(s)].enabled
  BY DEF Inv, CatalogInv, RunningIsInstalled
<1>4. \A ref \in Refs : record[ref].enabled => Installed(ref)
  BY <1>1 DEF CatalogTypes, Missing
<1> QED BY <1>1, <1>2, <1>3, <1>4, CatalogAssumption DEF Inv, CatalogTypes

\* The references to a version are finitely many.
LEMMA FiniteReferences ==
    ASSUME NEW ref \in Refs
    PROVE  /\ IsFiniteSet(References(ref)) /\ Cardinality(References(ref)) \in Nat
           /\ Cardinality(References(ref)) <= Cardinality(Jobs \X Slots)
<1>1. IsFiniteSet(Jobs)
  BY BindingsAssumption, FS_Union DEF Jobs
<1>2. IsFiniteSet(Slots)
  <2>1. Slots = ({"prep"} \cup {"right"}) \cup {"left"}
    BY DEF Slots
  <2> QED BY <2>1, FS_Singleton, FS_AddElement
<1>3. IsFiniteSet(Jobs \X Slots)
  BY <1>1, <1>2, FS_Product
<1>4. References(ref) \in SUBSET (Jobs \X Slots)
  BY DEF References
<1> QED BY <1>3, <1>4, FS_Subset, FS_CardinalityType

\* Whoever is counted nowhere is nowhere.
LEMMA Unreferenced ==
    ASSUME Inv, daemon # "down", NEW ref \in Refs, record[ref].active = 0
    PROVE  \A j \in Jobs, s \in Slots : Ref(s) = ref => ~Holds(j, s)
<1>1. Cardinality(References(ref)) + lost[ref] = 0
  BY DEF Inv, CatalogInv, ReferencesAreCounted
<1>2. Cardinality(References(ref)) = 0
  BY <1>1, FiniteReferences, CatalogFacts DEF CatalogTypes
<1>3. References(ref) = {}
  BY <1>2, FiniteReferences, FS_EmptySet
<1>4. ASSUME NEW j \in Jobs, NEW s \in Slots, Ref(s) = ref, Holds(j, s)
      PROVE  <<j, s>> \in References(ref)
  BY <1>4 DEF References
<1> QED BY <1>3, <1>4
\* A step after which the same processes hold references, and a running process runs
\* what it ran before or what was launched.
Calm ==
    \A j \in Jobs, s \in Slots :
        /\ Holds(j, s)' <=> Holds(j, s)
        /\ proc'[j][s].life = "alive" =>
              \/ /\ proc[j][s].life = "alive"
                 /\ proc'[j][s].archive = proc[j][s].archive
              \/ /\ package[Ref(s)] = record[Ref(s)].archive
                 /\ proc'[j][s].archive = record[Ref(s)].archive

LEMMA CalmReferences ==
    ASSUME Calm, NEW ref \in Refs
    PROVE  References(ref)' = References(ref)
<1>1. \A h \in Jobs \X Slots : Holds(h[1], h[2])' <=> Holds(h[1], h[2])
  BY DEF Calm
<1> QED BY <1>1 DEF References

\* The catalog is not touched.
LEMMA CalmStep ==
    ASSUME Inv, Calm, UNCHANGED <<catalogVars, lost, torn>>,
           daemon' # "down" => daemon # "down"
    PROVE  Catalogued
<1>1. UNCHANGED <<record, package, moving, installs, lost, torn>>
  BY DEF catalogVars
<1>2. CatalogTypes'
  BY <1>1, CatalogFacts DEF CatalogTypes, Installed
<1>3. MovingInv' /\ PackageInv' /\ PackagesMatchRecords'
  BY <1>1, CatalogFacts DEF CatalogInv, MovingInv, PackageInv, PackagesMatchRecords, Unlocked,
       Installed
<1>4. RunningIsInstalled'
  BY <1>1, CatalogFacts DEF CatalogInv, RunningIsInstalled, Calm, Holds
<1>5. ReferencesAreCounted'
  BY <1>1, CatalogFacts, CalmReferences DEF CatalogInv, ReferencesAreCounted
<1> QED BY <1>2, <1>3, <1>4, <1>5 DEF Catalogued, CatalogInv

\* A record of the index is written.
LEMMA RecordSet ==
    ASSUME record \in [Refs -> Record], NEW ref \in Refs, NEW d \in Record,
           record' = [record EXCEPT ![ref] = d]
    PROVE  /\ record' \in [Refs -> Record] /\ record'[ref] = d
           /\ \A r \in Refs : r # ref => record'[r] = record[r]
OBVIOUS

LEMMA PackageSet ==
    ASSUME package \in [Refs -> Archives \cup {NoArchive}], NEW ref \in Refs,
           NEW a \in Archives \cup {NoArchive}, package' = [package EXCEPT ![ref] = a]
    PROVE  /\ package' \in [Refs -> Archives \cup {NoArchive}] /\ package'[ref] = a
           /\ \A r \in Refs : r # ref => package'[r] = package[r]
OBVIOUS

\* Install, Uninstall, Enable, Disable.  A version in use is none of theirs.
LEMMA AdministerStep ==
    ASSUME Inv, daemon # "down", Administer
    PROVE  Catalogued
<1>0. UNCHANGED <<proc, lost, torn, daemon>>
  BY DEF Administer, hostVars
<1>1. \A ref \in Refs : References(ref)' = References(ref)
  BY <1>0 DEF References, Holds
<1>2. ASSUME NEW a \in Archives, Install(a)
      PROVE  Catalogued
  <2>1. PICK ref \in Refs : ref = RefOf[a]
    BY CatalogAssumption
  <2>2. /\ package' \in [Refs -> Archives \cup {NoArchive}] /\ package'[ref] = a
        /\ \A r \in Refs : r # ref => package'[r] = package[r]
    BY <1>2, <2>1, CatalogFacts, PackageSet DEF CatalogTypes, Install
  <2>3. /\ record' = record /\ ~Installed(ref) /\ Unlocked /\ package[ref] = NoArchive
        /\ record[ref] = Missing
    BY <1>2, <2>1, CatalogFacts DEF CatalogTypes, Install
  <2>4. PICK m \in Moves : m = [kind |-> "install", archive |-> a]
    BY DEF Moves
  <2>5. moving' = m /\ m.kind = "install" /\ m.archive = a
    BY <1>2, <2>4 DEF Install
  <2>6. CatalogTypes'
    BY <1>0, <2>2, <2>3, <2>5, CatalogFacts DEF CatalogTypes, Installed
  <2>7. MovingInv' /\ PackageInv'
    BY <2>1, <2>2, <2>3, <2>5, CatalogFacts
    DEF CatalogInv, MovingInv, PackageInv, Installed, Missing
  <2>8. PackagesMatchRecords'
    BY <1>0, <2>1, <2>2, <2>3, <2>5, CatalogFacts
    DEF CatalogInv, PackagesMatchRecords, Unlocked, NotMoving
  <2>9. RunningIsInstalled'
    BY <1>0, <2>2, <2>3, CatalogFacts DEF CatalogInv, RunningIsInstalled, Holds
  <2>10. ReferencesAreCounted'
    BY <1>0, <1>1, <2>3 DEF Inv, CatalogInv, ReferencesAreCounted
  <2> QED BY <2>6, <2>7, <2>8, <2>9, <2>10 DEF Catalogued, CatalogInv
<1>3. ASSUME NEW ref \in Refs, Uninstall(ref)
      PROVE  Catalogued
  <2>1. PICK a \in Archives : a = package[ref] /\ RefOf[a] = ref
    BY <1>3, CatalogFacts DEF CatalogTypes, CatalogInv, PackageInv, Uninstall
  <2>2. /\ package' \in [Refs -> Archives \cup {NoArchive}] /\ package'[ref] = NoArchive
        /\ \A r \in Refs : r # ref => package'[r] = package[r]
    BY <1>3, CatalogFacts, PackageSet DEF CatalogTypes, Uninstall
  <2>3. /\ record' = record /\ Installed(ref) /\ Unlocked
        /\ record[ref].active = 0 /\ ~record[ref].enabled
    BY <1>3 DEF Uninstall
  <2>4. PICK m \in Moves : m = [kind |-> "uninstall", archive |-> a]
    BY DEF Moves
  <2>5. moving' = m /\ m.kind = "uninstall" /\ m.archive = a
    BY <1>3, <2>1, <2>4 DEF Uninstall
  <2>6. CatalogTypes'
    BY <1>0, <2>2, <2>3, <2>5, CatalogFacts DEF CatalogTypes, Installed
  <2>7. MovingInv' /\ PackageInv'
    BY <1>0, <2>1, <2>2, <2>3, <2>5, CatalogFacts
    DEF CatalogInv, MovingInv, PackageInv, PackagesMatchRecords
  <2>8. PackagesMatchRecords'
    BY <1>0, <2>1, <2>2, <2>3, <2>5, CatalogFacts
    DEF CatalogInv, PackagesMatchRecords, Unlocked, NotMoving
  <2>9. RunningIsInstalled'
    BY <1>0, <2>2, <2>3, CatalogFacts DEF CatalogInv, RunningIsInstalled, Holds
  <2>10. ReferencesAreCounted'
    BY <1>0, <1>1, <2>3 DEF Inv, CatalogInv, ReferencesAreCounted
  <2> QED BY <2>6, <2>7, <2>8, <2>9, <2>10 DEF Catalogued, CatalogInv
<1>4. ASSUME NEW ref \in Refs, NEW b \in BOOLEAN, Unlocked, Installed(ref),
             b = FALSE => record[ref].active = 0,
             record' = [record EXCEPT ![ref].enabled = b],
             UNCHANGED <<package, moving>>
      PROVE  Catalogued
  <2>1. PICK d : d = [record[ref] EXCEPT !.enabled = b]
    OBVIOUS
  <2>2. /\ d \in Record /\ d.archive = record[ref].archive /\ d.active = record[ref].active
        /\ d.enabled = b
    BY <2>1, CatalogFacts DEF Record
  <2>3. record' = [record EXCEPT ![ref] = d]
    BY <1>4, <2>1
  <2>4. /\ record' \in [Refs -> Record] /\ record'[ref] = d
        /\ \A r \in Refs : r # ref => record'[r] = record[r]
    BY <2>2, <2>3, CatalogFacts, RecordSet DEF CatalogTypes
  <2>5. CatalogTypes'
    BY <1>0, <1>4, <2>2, <2>4, CatalogFacts DEF CatalogTypes, Installed
  <2>6. MovingInv' /\ PackageInv' /\ PackagesMatchRecords'
    BY <1>0, <1>4, <2>2, <2>4, CatalogFacts
    DEF CatalogInv, MovingInv, PackageInv, PackagesMatchRecords, Unlocked
  <2>7. RunningIsInstalled'
    BY <1>0, <1>4, <2>2, <2>4, CatalogFacts, Unreferenced
    DEF CatalogInv, RunningIsInstalled, Holds
  <2>8. ReferencesAreCounted'
    BY <1>0, <1>1, <2>2, <2>4 DEF Inv, CatalogInv, ReferencesAreCounted
  <2> QED BY <2>5, <2>6, <2>7, <2>8 DEF Catalogued, CatalogInv
<1>5. ASSUME NEW ref \in Refs, Enable(ref) \/ Disable(ref)
      PROVE  Catalogued
  <2>1. CASE Enable(ref)
    BY <1>4, <2>1 DEF Enable
  <2>2. CASE Disable(ref)
    BY <1>4, <2>2 DEF Disable
  <2> QED BY <1>5, <2>1, <2>2
<1> QED BY <1>2, <1>3, <1>5 DEF Administer
\* The second half of Install and Uninstall, or their rollback.
LEMMA IndexStep ==
    ASSUME Inv, IndexIsWritten
    PROVE  Catalogued
<1>0. UNCHANGED <<proc, lost, torn, daemon>> /\ ~Unlocked
  BY DEF IndexIsWritten, hostVars, Persist, PersistFails
<1>1. \A ref \in Refs : References(ref)' = References(ref)
  BY <1>0 DEF References, Holds
<1>2. PICK a \in Archives, ref \in Refs :
        /\ a = moving.archive /\ ref = RefOf[a]
        /\ moving.kind \in {"install", "uninstall"}
        /\ ~record[ref].enabled /\ record[ref].active = 0
        /\ moving.kind = "install" => ~Installed(ref) /\ package[ref] = a
        /\ moving.kind = "uninstall" =>
              package[ref] = NoArchive /\ (ref \in torn \/ record[ref].archive = a)
  <2>1. moving.archive \in Archives /\ RefOf[moving.archive] \in Refs
    BY <1>0, CatalogAssumption, CatalogFacts DEF CatalogInv, MovingInv
  <2> QED BY <1>0, <2>1, CatalogFacts DEF CatalogInv, MovingInv
<1>3. /\ moving' = NotMoving /\ NotMoving \in Moves /\ Unlocked'
      /\ \A r \in Refs : r # ref /\ r \notin torn => package[r] = record[r].archive
  BY <1>0, <1>2, CatalogFacts
  DEF IndexIsWritten, Persist, PersistFails, Moves, NotMoving, Unlocked, CatalogInv,
      PackagesMatchRecords
<1>4. \A j \in Jobs, s \in Slots : Holds(j, s) => Ref(s) # ref
  BY <1>2, CatalogFacts
<1>5. CASE Persist
  <2>1. PICK d : d = IF moving.kind = "install" THEN [Missing EXCEPT !.archive = a]
                     ELSE Missing
    OBVIOUS
  <2>2. /\ d \in Record /\ d.active = 0 /\ ~d.enabled
        /\ moving.kind = "install" => d.archive = a
        /\ moving.kind = "uninstall" => d.archive = NoArchive
        /\ d.archive = NoArchive => d = Missing
    BY <1>2, <2>1, CatalogAssumption DEF Missing, Record
  <2>3. record' = [record EXCEPT ![ref] = d] /\ package' = package
    BY <1>2, <1>5, <2>1 DEF Persist
  <2>4. /\ record' \in [Refs -> Record] /\ record'[ref] = d
        /\ \A r \in Refs : r # ref => record'[r] = record[r]
    BY <2>2, <2>3, CatalogFacts, RecordSet DEF CatalogTypes
  <2>5. CatalogTypes'
    BY <1>0, <1>3, <2>2, <2>3, <2>4, CatalogFacts DEF CatalogTypes, Installed
  <2>6. MovingInv' /\ PackageInv'
    BY <1>3, <2>3, CatalogFacts DEF CatalogInv, MovingInv, PackageInv
  <2>7. PackagesMatchRecords'
    BY <1>0, <1>2, <1>3, <2>2, <2>3, <2>4 DEF PackagesMatchRecords
  <2>8. RunningIsInstalled'
    BY <1>0, <1>4, <2>3, <2>4, CatalogFacts DEF CatalogInv, RunningIsInstalled, Holds
  <2>9. ReferencesAreCounted'
    BY <1>0, <1>1, <1>2, <2>2, <2>4 DEF Inv, CatalogInv, ReferencesAreCounted
  <2> QED BY <2>5, <2>6, <2>7, <2>8, <2>9 DEF Catalogued, CatalogInv
<1>6. CASE PersistFails
  <2>1. PICK p \in Archives \cup {NoArchive} :
           p = IF moving.kind = "install" THEN NoArchive ELSE a
    OBVIOUS
  <2>2. package' = [package EXCEPT ![ref] = p] /\ record' = record
    BY <1>2, <1>6, <2>1 DEF PersistFails
  <2>3. /\ package' \in [Refs -> Archives \cup {NoArchive}] /\ package'[ref] = p
        /\ \A r \in Refs : r # ref => package'[r] = package[r]
    BY <2>2, CatalogFacts, PackageSet DEF CatalogTypes
  <2>4. CatalogTypes'
    BY <1>0, <1>3, <2>2, <2>3, CatalogFacts DEF CatalogTypes, Installed
  <2>5. MovingInv' /\ PackageInv'
    BY <1>2, <1>3, <2>1, <2>3, CatalogFacts DEF CatalogInv, MovingInv, PackageInv
  <2>6. PackagesMatchRecords'
    BY <1>0, <1>2, <1>3, <2>1, <2>2, <2>3 DEF PackagesMatchRecords, Installed
  <2>7. RunningIsInstalled'
    BY <1>0, <1>4, <2>2, <2>3, CatalogFacts DEF CatalogInv, RunningIsInstalled, Holds
  <2>8. ReferencesAreCounted'
    BY <1>0, <1>1, <2>2 DEF Inv, CatalogInv, ReferencesAreCounted
  <2> QED BY <2>4, <2>5, <2>6, <2>7, <2>8 DEF Catalogued, CatalogInv
<1> QED BY <1>5, <1>6 DEF IndexIsWritten

\* A reference more, or less, to the version of one slot.
LEMMA References1 ==
    ASSUME NEW j \in Jobs, NEW s \in Slots,
           \A k \in Jobs, t \in Slots :
              <<k, t>> # <<j, s>> => (Holds(k, t)' <=> Holds(k, t))
    PROVE  /\ \A ref \in Refs : ref # Ref(s) => References(ref)' = References(ref)
           /\ Holds(j, s)' => References(Ref(s))' = References(Ref(s)) \cup {<<j, s>>}
           /\ ~Holds(j, s)' => References(Ref(s))' = References(Ref(s)) \ {<<j, s>>}
           /\ Holds(j, s) <=> <<j, s>> \in References(Ref(s))
<1>1. \A h \in Jobs \X Slots :
        h[1] \in Jobs /\ h[2] \in Slots /\ h = <<h[1], h[2]>>
  OBVIOUS
<1>2. \A h \in Jobs \X Slots : h # <<j, s>> => (Holds(h[1], h[2])' <=> Holds(h[1], h[2]))
  BY <1>1
<1>3. <<j, s>> \in Jobs \X Slots
  OBVIOUS
<1>4. ASSUME NEW ref \in Refs, ref # Ref(s)
      PROVE  References(ref)' = References(ref)
  BY <1>2, <1>4 DEF References
<1>5. ASSUME Holds(j, s)'
      PROVE  References(Ref(s))' = References(Ref(s)) \cup {<<j, s>>}
  BY <1>2, <1>3, <1>5 DEF References
<1>6. ASSUME ~Holds(j, s)'
      PROVE  References(Ref(s))' = References(Ref(s)) \ {<<j, s>>}
  BY <1>2, <1>3, <1>6 DEF References
<1>7. Holds(j, s) <=> <<j, s>> \in References(Ref(s))
  BY <1>3 DEF References
<1> QED BY <1>4, <1>5, <1>6, <1>7
\* The count of references of one version is set.
LEMMA ActiveSet ==
    ASSUME Inv, NEW ref \in Refs, NEW n \in Nat, Installed(ref),
           record' = [record EXCEPT ![ref].active = n], UNCHANGED <<package, moving>>,
           Unlocked, torn' = torn, lost' \in [Refs -> Nat]
    PROVE  /\ CatalogTypes' /\ MovingInv' /\ PackageInv' /\ PackagesMatchRecords'
           /\ record'[ref].active = n
           /\ \A r \in Refs : r # ref => record'[r].active = record[r].active
           /\ \A r \in Refs : /\ record'[r].archive = record[r].archive
                             /\ record'[r].enabled = record[r].enabled
<1>1. PICK d : d = [record[ref] EXCEPT !.active = n]
  OBVIOUS
<1>2. /\ d \in Record /\ d.archive = record[ref].archive
      /\ d.enabled = record[ref].enabled /\ d.active = n
  BY <1>1, CatalogFacts DEF Record
<1>3. record' = [record EXCEPT ![ref] = d]
  BY <1>1
<1>4. /\ record' \in [Refs -> Record] /\ record'[ref] = d
      /\ \A r \in Refs : r # ref => record'[r] = record[r]
  BY <1>2, <1>3, CatalogFacts, RecordSet DEF CatalogTypes
<1>5. CatalogTypes'
  BY <1>2, <1>4, CatalogFacts DEF CatalogTypes, Installed
<1>6. MovingInv' /\ PackageInv' /\ PackagesMatchRecords'
  BY <1>2, <1>4, CatalogFacts
  DEF CatalogInv, MovingInv, PackageInv, PackagesMatchRecords, Unlocked
<1> QED BY <1>2, <1>4, <1>5, <1>6

LEMMA AcquireStep ==
    ASSUME Inv, NEW j \in Jobs,
           OpenPreparer(j) \/ (j \in Environments /\ (NewRight(j) \/ NewLeft(j)))
    PROVE  Catalogued
<1>1. PICK s \in Slots : (\E pc : Open(j, s, pc)) /\ Unopened(j, s)
  BY Facts DEF OpenPreparer, NewRight, NewLeft, JobInv, ProcInv, Unopened, Over, Early,
     Preparing, Slots
<1>2. UNCHANGED <<lost, torn, daemon>>
  BY DEF OpenPreparer, NewRight, NewLeft, hostVars
<1>3. PICK ref \in Refs : ref = Ref(s)
  BY CatalogFacts
<1>4. /\ Unlocked /\ Installed(ref) /\ record[ref].enabled /\ UNCHANGED <<package, moving>>
      /\ record[ref].active \in Nat
      /\ record' = [record EXCEPT ![ref].active = record[ref].active + 1]
  BY <1>1, <1>3, CatalogFacts DEF Open, Acquire, Record
<1>5. PICK n \in Nat : n = record[ref].active + 1
  BY <1>4
<1>6. /\ CatalogTypes' /\ MovingInv' /\ PackageInv' /\ PackagesMatchRecords'
      /\ record'[ref].active = n
      /\ \A r \in Refs : r # ref => record'[r].active = record[r].active
      /\ \A r \in Refs : /\ record'[r].archive = record[r].archive
                        /\ record'[r].enabled = record[r].enabled
  BY <1>2, <1>4, <1>5, CatalogFacts, ActiveSet DEF CatalogTypes
<1>7. PICK p : p = [NoProcess EXCEPT !.life = "held"]
  OBVIOUS
<1>8. p \in Process /\ p.life = "held"
  BY <1>7 DEF Process, NoProcess
<1>9. /\ proc'[j][s] = p /\ \A t \in Slots : t # s => proc'[j][t] = proc[j][t]
      /\ \A k \in Jobs : k # j => proc'[k] = proc[k]
  <2>1. SetProc(j, s, p)
    BY <1>1, <1>7 DEF Open
  <2> QED BY <1>8, <2>1, Facts, ProcSet DEF JobTypes
<1>10. \A k \in Jobs, t \in Slots : <<k, t>> # <<j, s>> => proc'[k][t] = proc[k][t]
  BY <1>9
<1>11. RunningIsInstalled'
  <2>1. ASSUME NEW k \in Jobs, NEW t \in Slots, Holds(k, t)'
        PROVE  /\ record'[Ref(t)].enabled
               /\ proc'[k][t].life = "alive" =>
                     /\ record'[Ref(t)].archive = proc'[k][t].archive
                     /\ package'[Ref(t)] = proc'[k][t].archive
    <3>1. CASE k = j /\ t = s
      BY <1>3, <1>4, <1>6, <1>8, <1>9, <3>1
    <3>2. CASE <<k, t>> # <<j, s>>
      BY <1>4, <1>6, <1>10, <2>1, <3>2, CatalogFacts
      DEF CatalogInv, RunningIsInstalled, Holds
    <3> QED BY <3>1, <3>2
  <2> QED BY <2>1 DEF RunningIsInstalled
<1>12. ReferencesAreCounted'
  <2>1. /\ Holds(j, s)' /\ ~Holds(j, s)
        /\ \A k \in Jobs, t \in Slots :
              <<k, t>> # <<j, s>> => (Holds(k, t)' <=> Holds(k, t))
    BY <1>1, <1>8, <1>9, <1>10 DEF Holds, Unopened
  <2>2. /\ \A r \in Refs : r # ref => References(r)' = References(r)
        /\ References(ref)' = References(ref) \cup {<<j, s>>}
        /\ <<j, s>> \notin References(ref)
    BY <1>3, <2>1, References1
  <2>3. Cardinality(References(ref) \cup {<<j, s>>}) = Cardinality(References(ref)) + 1
    BY <2>2, FiniteReferences, FS_AddElement
  <2>4. CASE daemon # "down"
    <3>1. \A r \in Refs : record[r].active = Cardinality(References(r)) + lost[r]
      BY <2>4, CatalogFacts DEF CatalogInv, ReferencesAreCounted
    <3>2. Cardinality(References(ref)) \in Nat /\ lost[ref] \in Nat
      BY FiniteReferences, CatalogFacts DEF CatalogTypes
    <3>3. n = Cardinality(References(ref)) + 1 + lost[ref]
      BY <1>5, <3>1, <3>2
    <3>4. record'[ref].active = Cardinality(References(ref)') + lost'[ref]
      BY <1>2, <1>6, <2>2, <2>3, <3>2, <3>3
    <3>5. \A r \in Refs : r # ref =>
             record'[r].active = Cardinality(References(r)') + lost'[r]
      BY <1>2, <1>6, <2>2, <3>1
    <3> QED BY <3>4, <3>5 DEF ReferencesAreCounted
  <2>5. CASE daemon = "down"
    BY <1>2, <2>5 DEF ReferencesAreCounted
  <2> QED BY <2>4, <2>5
<1> QED BY <1>6, <1>11, <1>12 DEF Catalogued, CatalogInv

\* A release that is written, or is not.
LEMMA ReleaseStep ==
    ASSUME Inv, daemon # "down", NEW j \in Jobs, NEW s \in Slots,
           LaunchFails(j, s) \/ Reap(j, s)
    PROVE  Catalogued
<1>1. /\ Drop(Ref(s)) /\ Holds(j, s) /\ UNCHANGED <<torn, daemon>>
  BY DEF LaunchFails, Reap, hostVars, Holds
<1>2. PICK ref \in Refs : ref = Ref(s)
  BY CatalogFacts
<1>3. PICK p : SetProc(j, s, p) /\ p.life = "gone" /\ p \in Process
  <2>1. proc[j][s] \in Process
    BY Facts
  <2>2. CASE LaunchFails(j, s)
    <3>1. PICK p : p = [NoProcess EXCEPT !.life = "gone"]
      OBVIOUS
    <3>2. p \in Process /\ p.life = "gone"
      BY <3>1 DEF Process, NoProcess
    <3> QED BY <2>2, <3>1, <3>2 DEF LaunchFails
  <2>3. CASE Reap(j, s)
    <3>1. PICK p : p = [proc[j][s] EXCEPT !.life = "gone", !.piped = FALSE]
      OBVIOUS
    <3>2. p \in Process /\ p.life = "gone"
      BY <2>1, <3>1 DEF Process
    <3> QED BY <2>3, <3>1, <3>2 DEF Reap
  <2> QED BY <2>2, <2>3
<1>4. /\ proc'[j][s] = p /\ \A t \in Slots : t # s => proc'[j][t] = proc[j][t]
      /\ \A k \in Jobs : k # j => proc'[k] = proc[k]
  BY <1>3, Facts, ProcSet DEF JobTypes
<1>5. \A k \in Jobs, t \in Slots : <<k, t>> # <<j, s>> => proc'[k][t] = proc[k][t]
  BY <1>4
<1>6. /\ ~Holds(j, s)'
      /\ \A k \in Jobs, t \in Slots :
            <<k, t>> # <<j, s>> => (Holds(k, t)' <=> Holds(k, t))
  BY <1>3, <1>4, <1>5 DEF Holds
<1>7. /\ \A r \in Refs : r # ref => References(r)' = References(r)
      /\ References(ref)' = References(ref) \ {<<j, s>>}
      /\ <<j, s>> \in References(ref)
  BY <1>1, <1>2, <1>6, References1
<1>8. Cardinality(References(ref)') = Cardinality(References(ref)) - 1
  BY <1>7, FiniteReferences, FS_RemoveElement
<1>9. /\ Cardinality(References(ref)) \in Nat /\ lost[ref] \in Nat
      /\ Cardinality(References(ref)) # 0 /\ lost \in [Refs -> Nat]
  BY <1>7, FiniteReferences, FS_EmptySet, CatalogFacts DEF CatalogTypes
<1>10. \A r \in Refs : record[r].active = Cardinality(References(r)) + lost[r]
  BY CatalogFacts DEF CatalogInv, ReferencesAreCounted
<1>11. Installed(ref) /\ record[ref].enabled
  BY <1>1, <1>2, CatalogFacts
\* Nobody else runs under other conditions than before.
<1>12. ASSUME UNCHANGED package, \A r \in Refs : /\ record'[r].archive = record[r].archive
                                                /\ record'[r].enabled = record[r].enabled
       PROVE  RunningIsInstalled'
  <2>1. ASSUME NEW k \in Jobs, NEW t \in Slots, Holds(k, t)'
        PROVE  /\ record'[Ref(t)].enabled
               /\ proc'[k][t].life = "alive" =>
                     /\ record'[Ref(t)].archive = proc'[k][t].archive
                     /\ package'[Ref(t)] = proc'[k][t].archive
    <3>1. <<k, t>> # <<j, s>>
      BY <1>6, <2>1
    <3> QED BY <1>5, <1>6, <1>12, <2>1, <3>1, CatalogFacts
            DEF CatalogInv, RunningIsInstalled
  <2> QED BY <2>1 DEF RunningIsInstalled
<1>13. CASE Release(ref) /\ UNCHANGED lost
  <2>1. PICK n \in Nat : n = record[ref].active - 1
    BY <1>9, <1>10
  <2>2. /\ Unlocked /\ UNCHANGED <<package, moving>>
        /\ record' = [record EXCEPT ![ref].active = n]
    BY <1>9, <1>10, <1>11, <1>13, <2>1 DEF Release
  <2>3. /\ CatalogTypes' /\ MovingInv' /\ PackageInv' /\ PackagesMatchRecords'
        /\ record'[ref].active = n
        /\ \A r \in Refs : r # ref => record'[r].active = record[r].active
        /\ \A r \in Refs : /\ record'[r].archive = record[r].archive
                          /\ record'[r].enabled = record[r].enabled
    BY <1>1, <1>9, <1>11, <1>13, <2>2, ActiveSet
  <2>4. record'[ref].active = Cardinality(References(ref)') + lost'[ref]
    BY <1>8, <1>9, <1>10, <1>13, <2>1, <2>3
  <2>5. \A r \in Refs : r # ref => record'[r].active = Cardinality(References(r)') + lost'[r]
    BY <1>7, <1>10, <1>13, <2>3
  <2> QED BY <1>12, <2>2, <2>3, <2>4, <2>5
          DEF Catalogued, CatalogInv, ReferencesAreCounted
<1>14. CASE lost' = [lost EXCEPT ![ref] = @ + 1] /\ UNCHANGED catalogVars
  <2>1. UNCHANGED <<record, package, moving>>
    BY <1>14 DEF catalogVars
  <2>2. /\ lost' \in [Refs -> Nat] /\ lost'[ref] = lost[ref] + 1
        /\ \A r \in Refs : r # ref => lost'[r] = lost[r]
    BY <1>9, <1>14
  <2>3. CatalogTypes'
    BY <1>1, <2>1, <2>2, CatalogFacts DEF CatalogTypes, Installed
  <2>4. MovingInv' /\ PackageInv' /\ PackagesMatchRecords'
    BY <1>1, <2>1, CatalogFacts
    DEF CatalogInv, MovingInv, PackageInv, PackagesMatchRecords, Unlocked, Installed
  <2>5. record'[ref].active = Cardinality(References(ref)') + lost'[ref]
    BY <1>8, <1>9, <1>10, <2>1, <2>2
  <2>6. \A r \in Refs : r # ref => record'[r].active = Cardinality(References(r)') + lost'[r]
    BY <1>7, <1>10, <2>1, <2>2
  <2> QED BY <1>12, <2>1, <2>3, <2>4, <2>5, <2>6
          DEF Catalogued, CatalogInv, ReferencesAreCounted
<1> QED BY <1>1, <1>2, <1>13, <1>14 DEF Drop
\* The daemon is gone: what it was moving is torn, and nobody is counted.
LEMMA GoneCatalog ==
    ASSUME Inv, Gone
    PROVE  Catalogued
<1>1. /\ UNCHANGED <<record, package, lost>> /\ moving' = NotMoving /\ daemon' = "down"
      /\ torn' = IF Unlocked THEN torn ELSE torn \cup {RefOf[moving.archive]}
  BY DEF Gone, CatalogCrash
<1>2. \A j \in Jobs, s \in Slots : ~Holds(j, s)'
  <2>1. NoProcess.life = "none"
    BY DEF NoProcess
  <2>2. proc' = [j \in Jobs |-> [s \in Slots |-> NoProcess]]
    BY DEF Gone
  <2> QED BY <2>1, <2>2 DEF Holds
<1>3. torn' \subseteq Refs /\ NotMoving \in Moves
  BY <1>1, CatalogFacts, CatalogAssumption
  DEF CatalogTypes, CatalogInv, MovingInv, Moves, NotMoving
<1>4. CatalogTypes'
  BY <1>1, <1>3, CatalogFacts DEF CatalogTypes, Installed
<1>5. MovingInv' /\ PackageInv'
  BY <1>1, CatalogFacts DEF CatalogInv, MovingInv, PackageInv, Unlocked
<1>6. PackagesMatchRecords'
  BY <1>1, CatalogFacts DEF CatalogInv, PackagesMatchRecords, Unlocked
<1> QED BY <1>1, <1>2, <1>4, <1>5, <1>6
        DEF Catalogued, CatalogInv, RunningIsInstalled, ReferencesAreCounted

\* A new daemon counts from zero, and nobody holds a reference.
LEMMA RestartStep ==
    ASSUME Inv, Restart
    PROVE  Catalogued
<1>1. /\ daemon = "down" /\ UNCHANGED <<proc, torn, package, moving>> /\ Unlocked
      /\ record' = [ref \in Refs |-> [record[ref] EXCEPT !.active = 0]]
      /\ lost' = [ref \in Refs |-> 0]
  BY DEF Restart, RecoverReferences
<1>2. \A j \in Jobs, s \in Slots : ~Holds(j, s)'
  BY <1>1 DEF Inv, DaemonInv, Unopened, Holds
<1>3. \A ref \in Refs :
        /\ record'[ref] \in Record /\ record'[ref].archive = record[ref].archive
        /\ record'[ref].active = 0
        /\ record[ref] = Missing => record'[ref] = Missing
        /\ record'[ref].enabled = record[ref].enabled
  <2>1. ASSUME NEW ref \in Refs
        PROVE  /\ record'[ref] \in Record /\ record'[ref].archive = record[ref].archive
               /\ record'[ref].active = 0
               /\ record[ref] = Missing => record'[ref] = Missing
               /\ record'[ref].enabled = record[ref].enabled
    <3>1. PICK d : d = [record[ref] EXCEPT !.active = 0]
      OBVIOUS
    <3>2. record[ref] \in Record
      BY CatalogFacts
    <3>3. /\ d \in Record /\ d.archive = record[ref].archive /\ d.active = 0
          /\ d.enabled = record[ref].enabled
      BY <3>1, <3>2 DEF Record
    <3>4. record[ref] = Missing => d = Missing
      <4>1. \A c, f \in Record : c.archive = f.archive /\ c.enabled = f.enabled
                                /\ c.active = f.active => c = f
        BY DEF Record
      <4>2. Missing \in Record /\ Missing.active = 0
        BY DEF Missing, Record
      <4> QED BY <3>2, <3>3, <4>1, <4>2
    <3>5. record'[ref] = d
      BY <1>1, <3>1
    <3> QED BY <3>3, <3>4, <3>5
  <2> QED BY <2>1
<1>4. record' \in [Refs -> Record]
  <2>1. record' = [ref \in Refs |-> record'[ref]]
    BY <1>1
  <2> QED BY <1>3, <2>1
<1>5. CatalogTypes'
  BY <1>1, <1>3, <1>4, CatalogFacts DEF CatalogTypes, Installed
<1>6. MovingInv' /\ PackageInv' /\ PackagesMatchRecords'
  <2>1. MovingInv'
    BY <1>1 DEF MovingInv, Unlocked
  <2>2. PackageInv'
    BY <1>1, CatalogFacts DEF CatalogInv, PackageInv
  <2>3. PackagesMatchRecords'
    BY <1>1, <1>3, CatalogFacts DEF CatalogInv, PackagesMatchRecords, Unlocked
  <2> QED BY <2>1, <2>2, <2>3
<1>7. RunningIsInstalled'
  BY <1>2 DEF RunningIsInstalled
<1>8. ReferencesAreCounted'
  <2>1. ASSUME NEW ref \in Refs
        PROVE  References(ref)' = {}
    BY <1>2 DEF References
  <2>2. Cardinality({}) = 0
    BY FS_EmptySet
  <2>3. \A ref \in Refs : lost'[ref] = 0
    BY <1>1
  <2>4. \A ref \in Refs : record'[ref].active = Cardinality(References(ref)') + lost'[ref]
    BY <1>3, <2>1, <2>2, <2>3
  <2> QED BY <2>4 DEF ReferencesAreCounted
<1> QED BY <1>5, <1>6, <1>7, <1>8 DEF Catalogued, CatalogInv

\* A process that keeps its reference, and what it runs, disturbs nobody.
LEMMA CalmProc ==
    ASSUME Inv, NEW j \in Jobs, NEW s \in Slots, NEW p \in Process, SetProc(j, s, p),
           Holds(j, s) <=> p.life \in {"held", "alive", "dead"},
           p.life = "alive" =>
              \/ proc[j][s].life = "alive" /\ p.archive = proc[j][s].archive
              \/ /\ package[Ref(s)] = record[Ref(s)].archive
                 /\ p.archive = record[Ref(s)].archive
    PROVE  Calm
<1>1. /\ proc'[j][s] = p /\ \A t \in Slots : t # s => proc'[j][t] = proc[j][t]
      /\ \A k \in Jobs : k # j => proc'[k] = proc[k]
  BY Facts, ProcSet DEF JobTypes
<1>2. \A k \in Jobs, t \in Slots : k # j \/ t # s => proc'[k][t] = proc[k][t]
  BY <1>1
<1> QED BY <1>1, <1>2 DEF Calm, Holds

LEMMA CalmSteps ==
    ASSUME Inv, [Next]_vars
    PROVE  \/ Calm \/ Gone
           \/ \E j \in Jobs, s \in Slots : LaunchFails(j, s) \/ Reap(j, s)
           \/ \E j \in Jobs : OpenPreparer(j)
           \/ \E e \in Environments : NewRight(e) \/ NewLeft(e)
<1>0. Environments \subseteq Jobs /\ "left" \in Slots /\ "right" \in Slots /\ "prep" \in Slots
  BY DEF Jobs, Slots
<1>1. ASSUME UNCHANGED proc
      PROVE  Calm
  BY <1>1 DEF Calm, Holds
<1>2. ASSUME NEW j \in Jobs, NEW s \in Slots, Launch(j, s)
      PROVE  Calm
  <2>0. PICK a \in Archives \cup {NoArchive} : a = package[Ref(s)]
    BY CatalogFacts DEF CatalogTypes
  <2>1. PICK p : p = [life |-> "alive", piped |-> TRUE, serving |-> FALSE, archive |-> a]
    OBVIOUS
  <2>2. p \in Process /\ p.life = "alive" /\ p.archive = a
    BY <2>1 DEF Process
  <2>3. /\ SetProc(j, s, p) /\ Holds(j, s) /\ package[Ref(s)] = record[Ref(s)].archive
    BY <1>2, <2>0, <2>1 DEF Launch, Holds
  <2> QED BY <2>0, <2>2, <2>3, CalmProc
<1>3. ASSUME NEW j \in Jobs, NEW s \in Slots, Exit(j, s)
      PROVE  Calm
  <2>1. PICK p : p = [proc[j][s] EXCEPT !.life = "dead", !.serving = FALSE]
    OBVIOUS
  <2>2. proc[j][s] \in Process
    BY Facts
  <2>3. p \in Process /\ p.life = "dead"
    BY <2>1, <2>2 DEF Process
  <2>4. SetProc(j, s, p) /\ Holds(j, s)
    BY <1>3, <2>1 DEF Exit, Holds
  <2> QED BY <2>3, <2>4, CalmProc
<1>4. ASSUME NEW j \in Jobs, NEW s \in Slots, NEW b \in BOOLEAN,
             \/ SetProc(j, s, [proc[j][s] EXCEPT !.piped = b])
             \/ SetProc(j, s, [proc[j][s] EXCEPT !.serving = b])
      PROVE  Calm
  <2>1. PICK p : /\ SetProc(j, s, p)
                 /\ \/ p = [proc[j][s] EXCEPT !.piped = b]
                    \/ p = [proc[j][s] EXCEPT !.serving = b]
    BY <1>4
  <2>2. proc[j][s] \in Process
    BY Facts
  <2>3. p \in Process /\ p.life = proc[j][s].life /\ p.archive = proc[j][s].archive
    BY <2>1, <2>2 DEF Process
  <2> QED BY <2>1, <2>3, CalmProc DEF Holds
<1>5. ASSUME NEW j \in Jobs, Prepared(j)
      PROVE  Calm
  BY <1>0, <1>4, <1>5 DEF Prepared
<1>6. ASSUME NEW e \in Environments, StartRight(e) \/ StartLeft(e) \/ StartFails(e)
      PROVE  Calm
  BY <1>0, <1>4, <1>6 DEF StartRight, StartLeft, StartFails
<1>7. ASSUME NEW e \in Environments, CleanUp(e)
      PROVE  Calm
  <2>1. UNCHANGED proc \/ CloseSide(e, "left") \/ CloseSide(e, "right")
    BY <1>7 DEF CleanUp
  <2>2. e \in Jobs /\ FALSE \in BOOLEAN
    BY <1>0
  <2>3. CASE CloseSide(e, "left")
    BY <1>0, <1>4, <2>2, <2>3 DEF CloseSide
  <2>4. CASE CloseSide(e, "right")
    BY <1>0, <1>4, <2>2, <2>4 DEF CloseSide
  <2> QED BY <1>1, <2>1, <2>3, <2>4
<1> QED BY <1>1, <1>2, <1>3, <1>5, <1>6, <1>7, ProcChanges, Zenon DEF Crash, Exits

\* While no daemon runs nothing happens but the start of one.
LEMMA DownStep ==
    ASSUME [Next]_vars, daemon = "down"
    PROVE  Restart \/ UNCHANGED vars
BY DEF Next, StopBegins, Exits

LEMMA CatalogStep ==
    ASSUME Inv, [Next]_vars
    PROVE  Catalogued
<1>0. Environments \subseteq Jobs
  BY DEF Jobs
<1>1. CASE UNCHANGED vars
  <2>1. UNCHANGED <<catalogVars, lost, torn, daemon, proc>>
    BY <1>1 DEF vars, hostVars
  <2>2. Calm
    BY <2>1 DEF Calm, Holds
  <2> QED BY <2>1, <2>2, CalmStep
<1>2. CASE Restart
  BY <1>2, RestartStep
<1>3. CASE Gone
  BY <1>3, GoneCatalog
<1>4. CASE daemon # "down" /\ Administer
  BY <1>4, AdministerStep
<1>5. CASE IndexIsWritten
  BY <1>5, IndexStep
<1>6. ASSUME daemon # "down", NEW j \in Jobs, NEW s \in Slots, LaunchFails(j, s) \/ Reap(j, s)
      PROVE  Catalogued
  BY <1>6, ReleaseStep
<1>7. ASSUME NEW j \in Jobs, OpenPreparer(j)
      PROVE  Catalogued
  BY <1>7, AcquireStep
<1>8. ASSUME NEW e \in Environments, NewRight(e) \/ NewLeft(e)
      PROVE  Catalogued
  BY <1>0, <1>8, AcquireStep
<1>9. CASE /\ daemon # "down" /\ ~Gone /\ ~Restart /\ ~Administer /\ ~IndexIsWritten
           /\ ~\E j \in Jobs, s \in Slots : LaunchFails(j, s) \/ Reap(j, s)
           /\ ~\E j \in Jobs : OpenPreparer(j)
           /\ ~\E e \in Environments : NewRight(e) \/ NewLeft(e)
  <2>1. Calm
    BY <1>9, CalmSteps
  <2>2. UNCHANGED catalogVars
    BY <1>9, CatalogChanges, Zenon DEF Crash, Exits
  <2>3. UNCHANGED lost
    BY <1>9, LostChanges, Zenon
  <2>4. UNCHANGED torn
    BY <1>9, TornChanges, Zenon DEF Crash, Exits
  <2> QED BY <1>9, <2>1, <2>2, <2>3, <2>4, CalmStep
<1>10. CASE daemon = "down"
  BY <1>1, <1>2, <1>10, DownStep
<1> QED BY <1>1, <1>2, <1>3, <1>4, <1>5, <1>6, <1>7, <1>8, <1>9, <1>10
-------------------------------------------------------------------------------
(* Where the jobs are, and which environments are in the table.             *)

\* What a step does to the place of job j and to the table.
Moved(j) ==
    LET at == job[j].pc
        pc == job'[j].pc
    IN  /\ \A k \in Jobs : k # j => job'[k] = job[k]
        /\ \/ /\ at \notin {"live", "destroying", "closing", "stored"}
              /\ pc \notin {"live", "destroying", "closing", "stored"} /\ envs' = envs
           \/ /\ j \in Puts /\ at = "append" /\ pc = "stored" /\ envs' = envs
              /\ Len(versions') = Len(versions) + 1
           \/ /\ j \in Environments
              /\ \/ at = "register" /\ pc = "live" /\ envs' = envs \cup {j}
                 \/ at = "live" /\ pc \in {"destroying", "closing"} /\ envs' = envs
                 \/ /\ at \in {"live", "destroying", "closing"} /\ pc = "ended"
                    /\ envs' = envs \ {j}

\* Close drops the environment that somebody else is destroying.
Dropped(e) ==
    /\ UNCHANGED job /\ envs' = envs \ {e} /\ job[e].pc \notin {"live", "closing"}

Quiet == Pcs \ {"live", "destroying", "closing", "stored"}

LEMMA QuietMove ==
    ASSUME Inv, NEW j \in Jobs, NEW pc \in Quiet, Goto(j, pc), job[j].pc \in Quiet,
           UNCHANGED envs
    PROVE  Moved(j)
BY Facts, Goes DEF Quiet, JobTypes, Moved

LEMMA ValidationMoves ==
    ASSUME Inv, NEW j \in Jobs,
           \/ ReadManifest(j) \/ OpenPreparer(j) \/ Prepared(j) \/ Validated(j) \/ GivesUp(j)
           \/ j \in Puts /\ PutBegins(j)
           \/ j \in Environments /\ (CheckEnabled(j) \/ ReadVersion(j))
    PROVE  Moved(j)
<1>0. /\ job \in [Jobs -> Job] /\ job[j] \in Job /\ UNCHANGED envs
      /\ {"idle", "freeze", "validate", "prepare", "preparing", "prepared", "failed", "append",
          "frozen"} \subseteq Quiet
  BY Facts DEF JobTypes, Quiet, Pcs, ReadManifest, OpenPreparer, Prepared, Validated, GivesUp,
     PutBegins, CheckEnabled, ReadVersion
<1>1. CASE \E pc \in Quiet : Goto(j, pc) /\ job[j].pc \in Quiet
  BY <1>0, <1>1, QuietMove
<1>2. CASE \E d \in Job : /\ d.pc \in {"validate", "prepared"} /\ job[j].pc \in Quiet
                          /\ job' = [job EXCEPT ![j] = d]
  BY <1>0, <1>2, JobSet DEF Moved, Quiet
<1>3. CASE ReadManifest(j)
  <2>1. CASE job' = [job EXCEPT ![j].pc = "prepared", ![j].compiled = job[j].body]
    <3>1. PICK b \in Bodies \cup {NoBody} : b = job[j].body
      BY <1>0 DEF Job
    <3>2. PICK d : d = [job[j] EXCEPT !.pc = "prepared", !.compiled = b]
      OBVIOUS
    <3>3. d \in Job /\ d.pc = "prepared"
      BY <1>0, <3>2, JobFields
    <3>4. job' = [job EXCEPT ![j] = d] /\ job[j].pc = "validate"
      BY <1>3, <2>1, <3>1, <3>2 DEF ReadManifest
    <3> QED BY <1>0, <1>2, <3>3, <3>4
  <2> QED BY <1>0, <1>1, <1>3, <2>1 DEF ReadManifest
<1>4. CASE OpenPreparer(j)
  BY <1>0, <1>1, <1>4 DEF OpenPreparer, Open
<1>5. CASE Prepared(j)
  <2>1. PICK b : job' = [job EXCEPT ![j].pc = "prepared", ![j].compiled = b]
    BY <1>5 DEF Prepared
  <2>2. PICK d : d = [job[j] EXCEPT !.pc = "prepared", !.compiled = b]
    OBVIOUS
  <2>3. d.pc = "prepared" /\ job' = [job EXCEPT ![j] = d] /\ job[j].pc = "preparing"
    BY <1>0, <1>5, <2>1, <2>2 DEF Job, Prepared
  <2> QED BY <1>0, <2>3 DEF Moved
<1>6. CASE Validated(j)
  BY <1>0, <1>1, <1>6 DEF Validated
<1>7. CASE GivesUp(j)
  BY <1>0, <1>1, <1>7 DEF GivesUp
<1>8. CASE j \in Puts /\ PutBegins(j)
  <2>1. PICK b \in Bodies, n \in 0..Len(versions) :
           job' = [job EXCEPT ![j].pc = "validate", ![j].body = b, ![j].number = n]
    BY <1>8 DEF PutBegins
  <2>2. PICK d : d = [job[j] EXCEPT !.pc = "validate", !.body = b, !.number = n]
    OBVIOUS
  <2>3. d \in Job /\ d.pc = "validate" /\ job[j].pc = "idle"
    <3>1. n \in Nat
      BY Facts
    <3>2. d \in Job /\ d.pc = "validate"
      BY <1>0, <2>2, <3>1, JobFields
    <3> QED BY <1>8, <3>2 DEF PutBegins
  <2>4. job' = [job EXCEPT ![j] = d]
    BY <2>1, <2>2
  <2> QED BY <1>0, <1>2, <2>3, <2>4
<1>9. CASE j \in Environments /\ CheckEnabled(j)
  BY <1>0, <1>1, <1>9 DEF CheckEnabled
<1>10. CASE j \in Environments /\ ReadVersion(j)
  <2>1. PICK n \in 1..Len(versions) :
           job' = [job EXCEPT ![j].pc = "validate", ![j].body = versions[n], ![j].number = n]
    BY <1>10 DEF ReadVersion
  <2>2. PICK b \in Bodies : b = versions[n]
    BY Facts
  <2>3. PICK d : d = [job[j] EXCEPT !.pc = "validate", !.body = b, !.number = n]
    OBVIOUS
  <2>4. d \in Job /\ d.pc = "validate" /\ job[j].pc = "freeze"
    <3>1. n \in Nat
      BY Facts
    <3>2. d \in Job /\ d.pc = "validate"
      BY <1>0, <2>3, <3>1, JobFields
    <3> QED BY <1>10, <3>2 DEF ReadVersion
  <2>5. job' = [job EXCEPT ![j] = d]
    BY <2>1, <2>2, <2>3
  <2> QED BY <1>0, <1>2, <2>4, <2>5
<1> QED BY <1>3, <1>4, <1>5, <1>6, <1>7, <1>8, <1>9, <1>10

LEMMA CreationMoves ==
    ASSUME Inv, NEW e \in Environments, Create(e)
    PROVE  Moved(e)
<1>0. /\ e \in Jobs /\ "live" \in Pcs
      /\ {"right", "newleft", "left", "configure", "startleft", "publish", "register",
          "rollback", "failed", "frozen"} \subseteq Quiet
  BY DEF Jobs, Pcs, Quiet
<1>1. CASE Register(e)
  BY <1>0, <1>1, Facts, Goes DEF Register, JobTypes, Moved
<1>2. CASE ~Register(e)
  <2>1. job[e].pc \in Quiet /\ UNCHANGED envs
    BY <1>0, <1>2 DEF Create, NewRight, Describes, NewLeft, StartRight, StartLeft, StartFails,
       CreateFails, Publish, RegisterFails
  <2>2. \E pc \in Quiet : Goto(e, pc)
    BY <1>0, <1>2 DEF Create, NewRight, Describes, NewLeft, StartRight, StartLeft, StartFails,
       CreateFails, Publish, RegisterFails, Open
  <2> QED BY <1>0, <2>1, <2>2, QuietMove
<1> QED BY <1>1, <1>2

LEMMA LeaveMoves ==
    ASSUME Inv, NEW e \in Environments, DestroyEnvironment(e) \/ CleanedUp(e) \/ CloseNext(e)
    PROVE  Moved(e) \/ Dropped(e) \/ UNCHANGED <<job, envs>>
<1>0. /\ e \in Jobs /\ job \in [Jobs -> Job] /\ "destroying" \in Pcs /\ "closing" \in Pcs
      /\ "ended" \in Pcs /\ "failed" \in Quiet /\ "rollback" \in Quiet
  BY Facts DEF Jobs, JobTypes, Pcs, Quiet
<1>1. CASE DestroyEnvironment(e)
  BY <1>0, <1>1, Goes DEF DestroyEnvironment, Moved
<1>2. CASE CleanedUp(e)
  <2>1. CASE job[e].pc = "rollback" /\ Goto(e, "failed") /\ UNCHANGED envs
    BY <1>0, <2>1, QuietMove
  <2>2. CASE /\ job[e].pc \in {"destroying", "closing"} /\ Goto(e, "ended")
             /\ envs' = envs \ {e}
    BY <1>0, <2>2, Goes DEF Moved
  <2> QED BY <1>2, <2>1, <2>2 DEF CleanedUp
<1>3. CASE CloseNext(e)
  <2>1. CASE job[e].pc = "live" /\ Goto(e, "closing") /\ UNCHANGED envs
    BY <1>0, <2>1, Goes DEF Moved
  <2>2. CASE job[e].pc = "live" /\ Goto(e, "ended") /\ envs' = envs \ {e}
    BY <1>0, <2>2, Goes DEF Moved
  <2>3. CASE job[e].pc # "live" /\ UNCHANGED job /\ envs' = envs \ {e}
    BY <1>3, <2>3 DEF CloseNext, Dropped
  <2>4. CASE UNCHANGED <<job, envs>>
    BY <2>4
  <2> QED BY <1>3, <2>1, <2>2, <2>3, <2>4 DEF CloseNext
<1> QED BY <1>1, <1>2, <1>3

LEMMA Moves1 ==
    ASSUME Inv, [Next]_vars
    PROVE  \/ Gone \/ UNCHANGED <<job, envs>>
           \/ \E j \in Jobs : Moved(j)
           \/ \E e \in Environments : Dropped(e)
<1>0. Environments \subseteq Jobs /\ Puts \subseteq Jobs
  BY DEF Jobs
<1>1. \A j \in Jobs : ReadManifest(j) \/ OpenPreparer(j) \/ Prepared(j) \/ Validated(j)
                         \/ GivesUp(j) => Moved(j)
  BY ValidationMoves
<1>2. /\ \A p \in Puts : PutBegins(p) => Moved(p)
      /\ \A e \in Environments : CheckEnabled(e) \/ ReadVersion(e) => Moved(e)
  BY <1>0, ValidationMoves
<1>3. \A p \in Puts : Store(p) => Moved(p)
  <2>1. ASSUME NEW p \in Puts, Store(p)
        PROVE  Moved(p)
    <3>1. /\ job[p].pc = "append" /\ job'[p].pc = "stored" /\ Stepped(p)
          /\ versions' = Append(versions, job[p].compiled) /\ UNCHANGED envs
      BY <2>1, StoreStep DEF Store
    <3>2. Len(versions') = Len(versions) + 1
      BY <3>1, Facts
    <3> QED BY <3>1, <3>2 DEF Stepped, Frame, Moved
  <2> QED BY <2>1
<1>4. \A e \in Environments : Create(e) => Moved(e)
  BY CreationMoves
<1>5. \A e \in Environments : DestroyEnvironment(e) \/ CleanedUp(e) \/ CloseNext(e)
          => Moved(e) \/ Dropped(e) \/ UNCHANGED <<job, envs>>
  BY LeaveMoves
<1>6. CASE /\ ~(Crash \/ Exits) /\ ~\E j \in Jobs : Moved(j)
           /\ ~\E e \in Environments : Dropped(e)
  <2>1. UNCHANGED job
    BY <1>0, <1>1, <1>2, <1>3, <1>4, <1>5, <1>6, JobChanges, Zenon DEF Create
  <2>2. UNCHANGED envs
    BY <1>0, <1>4, <1>5, <1>6, EnvsChanges, Zenon DEF Create
  <2> QED BY <2>1, <2>2
<1> QED BY <1>6 DEF Crash, Exits
\* The environments in the table.
EnvsInv ==
    /\ envs \subseteq Environments
    /\ \A e \in Environments :
          /\ e \in envs => job[e].pc \in {"live", "destroying", "closing"}
          /\ job[e].pc \in {"live", "closing"} => e \in envs

LEMMA GonePcs ==
    ASSUME Inv, Gone
    PROVE  /\ envs' = {} /\ versions' = versions
           /\ \A j \in Jobs :
                 /\ job'[j].pc \notin {"live", "destroying", "closing"}
                 /\ (job'[j].pc = "stored") <=> (job[j].pc = "stored")
<1>1. ASSUME NEW j \in Jobs
      PROVE  job'[j].pc = IF job[j].pc \in Returned \ {"live"} THEN job[j].pc ELSE "failed"
  <2>1. PICK d : d = [job[j] EXCEPT !.pc = "failed"]
    OBVIOUS
  <2>2. d.pc = "failed"
    <3>1. job[j] \in Job
      BY Facts DEF JobTypes
    <3> QED BY <2>1, <3>1 DEF Job
  <2>3. job'[j] = IF job[j].pc \in Returned \ {"live"} THEN job[j] ELSE d
    BY <2>1 DEF Gone
  <2> QED BY <2>2, <2>3
<1> QED BY <1>1 DEF Gone, Returned

LEMMA EnvsStep ==
    ASSUME Inv, [Next]_vars
    PROVE  EnvsInv'
<1>0. EnvsInv /\ Environments \subseteq Jobs
  BY DEF Inv, TypeOK, EnvsInv, Jobs
<1>1. CASE Gone
  BY <1>0, <1>1, GonePcs DEF EnvsInv
<1>2. CASE UNCHANGED <<job, envs>>
  BY <1>0, <1>2 DEF EnvsInv
<1>3. ASSUME NEW j \in Jobs, Moved(j)
      PROVE  EnvsInv'
  BY <1>0, <1>3 DEF EnvsInv, Moved
<1>4. ASSUME NEW e \in Environments, Dropped(e)
      PROVE  EnvsInv'
  BY <1>0, <1>4 DEF EnvsInv, Dropped
<1> QED BY <1>1, <1>2, <1>3, <1>4, Moves1

StoredPuts == {p \in Puts : job[p].pc = "stored"}

LEMMA StoreInvStep ==
    ASSUME Inv, [Next]_vars
    PROVE  StoreInv'
<1>0. /\ Puts \subseteq Jobs /\ Environments \cap Puts = {}
      /\ \A p \in Puts : job[p].pc \in PutPlaces
      /\ Len(versions) = Len(InitialVersions) + Cardinality(StoredPuts)
      /\ IsFiniteSet(StoredPuts)
  <2>1. StoredPuts \in SUBSET Puts
    BY DEF StoredPuts
  <2>2. IsFiniteSet(StoredPuts)
    BY <2>1, BindingsAssumption, FS_Subset
  <2> QED BY <2>2, Facts, BindingsAssumption DEF Jobs, Inv, JobInv, StoreInv, StoredPuts
<1>1. CASE StoredPuts' = StoredPuts /\ Len(versions') = Len(versions)
  BY <1>0, <1>1 DEF StoreInv, StoredPuts
<1>2. ASSUME NEW p \in Puts, p \notin StoredPuts, StoredPuts' = StoredPuts \cup {p},
             Len(versions') = Len(versions) + 1
      PROVE  StoreInv'
  <2>1. Cardinality(StoredPuts') = Cardinality(StoredPuts) + 1
    BY <1>0, <1>2, FS_AddElement
  <2>2. Cardinality(StoredPuts) \in Nat /\ Len(InitialVersions) \in Nat
    BY <1>0, FS_CardinalityType, StoreAssumption
  <2>3. Len(versions') = Len(InitialVersions) + Cardinality(StoredPuts')
    BY <1>0, <1>2, <2>1, <2>2
  <2> QED BY <2>3 DEF StoreInv, StoredPuts
<1>3. ASSUME NEW p \in Puts, Store(p)
      PROVE  StoreInv'
  <2>1. /\ job[p].pc = "append" /\ job'[p].pc = "stored" /\ Stepped(p)
        /\ versions' = Append(versions, job[p].compiled)
    BY <1>3, StoreStep
  <2>2. Len(versions') = Len(versions) + 1
    BY <2>1, Facts
  <2>3. \A q \in Puts : q # p => job'[q] = job[q]
    BY <1>0, <2>1 DEF Stepped, Frame
  <2> QED BY <1>2, <2>1, <2>2, <2>3 DEF StoredPuts
<1>4. ASSUME UNCHANGED versions, ~\E p \in Puts : Store(p)
      PROVE  StoreInv'
  <2>0. Len(versions') = Len(versions)
    BY <1>4
  <2>1. \A p \in Puts : (job'[p].pc = "stored") <=> (job[p].pc = "stored")
    <3>1. CASE Gone
      BY <1>0, <3>1, GonePcs
    <3>2. CASE UNCHANGED job
      BY <3>2
    <3>3. ASSUME NEW j \in Jobs, Moved(j)
          PROVE  \A p \in Puts : (job'[p].pc = "stored") <=> (job[p].pc = "stored")
      <4>1. Len(versions) \in Nat /\ Len(versions') # Len(versions) + 1
        BY <2>0, Facts
      <4> QED BY <1>0, <3>3, <4>1 DEF Moved, PutPlaces
    <3> QED BY <3>1, <3>2, <3>3, Moves1 DEF Dropped
  <2> QED BY <1>1, <2>0, <2>1 DEF StoredPuts
<1> QED BY <1>3, <1>4, VersionsChanges
\* The steps of a daemon whose second Close is under way, or over.
LEMMA StoppingStep ==
    ASSUME Inv, [Next]_vars, daemon \in {"closingAgain", "closed"}, ~Gone
    PROVE  DaemonInv'
<1>0. /\ closing = envs /\ \A j \in Jobs : job[j].pc \in Returned \cup {"closing"}
      /\ daemon = "closed" => closing = {}
      /\ Environments \subseteq Jobs /\ Puts \subseteq Jobs /\ "ended" \in Pcs /\ "closing" \in Pcs
      /\ job \in [Jobs -> Job]
  BY Facts DEF Inv, DaemonInv, Jobs, Pcs, JobTypes
<1>1. CASE UNCHANGED <<job, envs, closing, daemon>>
  BY <1>0, <1>1 DEF DaemonInv
<1>2. ASSUME NEW e \in Environments, CleanedUp(e)
      PROVE  DaemonInv'
  <2>1. /\ Goto(e, "ended") /\ envs' = envs \ {e} /\ closing' = closing \ {e}
        /\ daemon' = daemon
    BY <1>0, <1>2 DEF CleanedUp, Returned
  <2>2. job'[e].pc = "ended" /\ \A k \in Jobs : k # e => job'[k] = job[k]
    BY <1>0, <2>1, Goes
  <2> QED BY <1>0, <2>1, <2>2 DEF DaemonInv, Returned
<1>3. ASSUME NEW e \in Environments, CloseNext(e)
      PROVE  DaemonInv'
  <2>1. CASE Goto(e, "closing") /\ UNCHANGED <<envs, closing>>
    <3>1. job'[e].pc = "closing" /\ \A k \in Jobs : k # e => job'[k] = job[k]
      BY <1>0, <2>1, Goes
    <3> QED BY <1>0, <1>3, <2>1, <3>1 DEF CloseNext, DaemonInv, Returned
  <2>2. CASE /\ envs' = envs \ {e} /\ closing' = closing \ {e}
             /\ IF job[e].pc = "live" THEN Goto(e, "ended") ELSE UNCHANGED job
    <3>1. /\ job'[e].pc \in {"ended", job[e].pc}
          /\ \A k \in Jobs : k # e => job'[k] = job[k]
      BY <1>0, <2>2, Goes
    <3> QED BY <1>0, <1>3, <2>2, <3>1 DEF CloseNext, DaemonInv, Returned
  <2> QED BY <1>0, <1>3, <2>1, <2>2 DEF CloseNext
<1>4. CASE CloseReturns
  <2>1. UNCHANGED <<job, envs, closing>> /\ daemon' = "closed" /\ closing = {}
    BY <1>4 DEF CloseReturns, jobVars
  <2> QED BY <1>0, <2>1 DEF DaemonInv
<1>5. UNCHANGED vars \/ Serve
  BY Zenon DEF Next, Exits, StopBegins, Restart
<1>6. CASE UNCHANGED vars
  BY <1>1, <1>6 DEF vars, jobVars, hostVars
<1>7. CASE Serve
  <2>1. CASE IndexIsWritten
    BY <1>1, <2>1 DEF IndexIsWritten, jobVars, hostVars
  <2>2. ASSUME NEW j \in Jobs, NEW s \in Slots,
               Launch(j, s) \/ LaunchFails(j, s) \/ Exit(j, s) \/ Reap(j, s)
        PROVE  DaemonInv'
    BY <1>1, <2>2 DEF Launch, LaunchFails, Exit, Reap, jobVars, hostVars
  <2>3. \A j \in Jobs : ~Validate(j)
    BY <1>0 DEF Validate, ReadManifest, OpenPreparer, Prepared, Validated, GivesUp, Returned
  <2>4. \A p \in Puts : ~Store(p)
    BY <1>0 DEF Store, Returned
  <2>5. \A e \in Environments : ~ReadVersion(e) /\ ~Create(e)
    BY <1>0 DEF ReadVersion, Create, NewRight, Describes, NewLeft, StartRight, StartLeft,
         StartFails, CreateFails, Publish, Register, RegisterFails, Returned
  <2>6. ASSUME NEW e \in Environments,
               CleanUp(e) \/ WatchEnds(e) \/ WatchDestroys(e) \/ Seal(e)
        PROVE  DaemonInv'
    BY <1>1, <2>6 DEF CleanUp, WatchEnds, WatchDestroys, Seal, hostVars
  <2>7. ~\E late \in BOOLEAN : Drained(late)
    BY DEF Drained
  <2>8. ~Crash
    BY DEF Crash
  <2> QED BY <1>2, <1>3, <1>4, <1>7, <2>1, <2>2, <2>3, <2>4, <2>5, <2>6, <2>7, <2>8, Zenon
          DEF Serve
<1> QED BY <1>5, <1>6, <1>7

LEMMA DaemonStep ==
    ASSUME Inv, [Next]_vars
    PROVE  DaemonInv' /\ (daemon' = "down" => record' = record)
<1>1. CASE UNCHANGED vars
  <2>1. UNCHANGED <<job, proc, envs, closing, daemon, moving, record>>
    BY <1>1 DEF vars, jobVars, hostVars, catalogVars
  <2> QED BY <2>1 DEF Inv, DaemonInv, Unopened, Unlocked
<1>2. CASE Gone
  <2>1. /\ daemon' = "down" /\ Unlocked' /\ record' = record
        /\ \A j \in Jobs, s \in Slots : proc'[j][s] = NoProcess
    BY <1>2 DEF Gone, CatalogCrash, Unlocked
  <2>2. NoProcess.life = "none"
    BY DEF NoProcess
  <2> QED BY <2>1, <2>2 DEF DaemonInv, Unopened
<1>3. CASE daemon = "down" /\ Restart
  BY <1>3 DEF Restart, DaemonInv
<1>4. CASE daemon \in {"closingAgain", "closed"} /\ ~Gone
  <2>1. daemon' # "down"
    BY <1>4, DaemonChanges DEF Crash, Exits, StopBegins, CloseReturns, Restart, Drained
  <2> QED BY <1>4, <2>1, StoppingStep
<1>5. CASE daemon \notin {"closingAgain", "closed", "down"} /\ ~Gone
  <2>1. CASE UNCHANGED daemon
    BY <1>5, <2>1 DEF DaemonInv
  <2>2. CASE StopBegins
    BY <2>2 DEF StopBegins, DaemonInv
  <2>3. CASE CloseReturns
    BY <1>5, <2>3 DEF CloseReturns, DaemonInv
  <2>4. ASSUME NEW late \in BOOLEAN, Drained(late)
        PROVE  DaemonInv' /\ (daemon' = "down" => record' = record)
    <3>1. /\ closing' = envs' /\ job' = job /\ daemon' \in {"closingAgain", "closingLate"}
          /\ daemon' = "closingAgain" => \A j \in Jobs : job[j].pc \in Returned
      BY <2>4 DEF Drained, jobVars
    <3> QED BY <3>1 DEF DaemonInv
  <2>5. ~Restart
    BY <1>5 DEF Restart
  <2> QED BY <1>5, <2>1, <2>2, <2>3, <2>4, <2>5, DaemonChanges DEF Crash, Exits
<1> QED BY <1>1, <1>2, <1>3, <1>4, <1>5, DownStep
-------------------------------------------------------------------------------
(* The types.                                                               *)

LEMMA LostStep ==
    ASSUME Inv, [Next]_vars
    PROVE  lost' \in [Refs -> 0..MaxLost]
<1>0. lost \in [Refs -> 0..MaxLost] /\ MaxLost \in Nat
  BY BindingsAssumption DEF Inv, TypeOK
<1>1. CASE UNCHANGED lost
  BY <1>0, <1>1
<1>2. CASE Restart
  BY <1>0, <1>2 DEF Restart
<1>3. ASSUME NEW j \in Jobs, NEW s \in Slots, LaunchFails(j, s) \/ Reap(j, s)
      PROVE  lost' \in [Refs -> 0..MaxLost]
  <2>1. PICK ref \in Refs : ref = Ref(s)
    BY CatalogFacts
  <2>2. CASE UNCHANGED lost
    BY <1>0, <2>2
  <2>3. CASE lost[ref] < MaxLost /\ lost' = [lost EXCEPT ![ref] = @ + 1]
    BY <1>0, <2>3
  <2> QED BY <1>3, <2>1, <2>2, <2>3 DEF LaunchFails, Reap, Drop
<1> QED BY <1>1, <1>2, <1>3, LostChanges

LEMMA InstallsStep ==
    ASSUME Inv, [Next]_vars
    PROVE  installs' \in 0..MaxInstalls
<1>0. installs \in 0..MaxInstalls /\ MaxInstalls \in Nat
  BY CatalogAssumption DEF Inv, TypeOK
<1>1. CASE UNCHANGED catalogVars
  BY <1>0, <1>1 DEF catalogVars
<1>2. CASE Administer
  BY <1>0, <1>2 DEF Administer, Install, Uninstall, Enable, Disable
<1>3. CASE IndexIsWritten \/ Crash \/ Exits \/ Restart
  BY <1>0, <1>3
  DEF IndexIsWritten, Persist, PersistFails, Crash, Exits, Gone, CatalogCrash, Restart,
      RecoverReferences
<1>4. ASSUME NEW j \in Jobs, NEW s \in Slots, LaunchFails(j, s) \/ Reap(j, s)
      PROVE  installs' \in 0..MaxInstalls
  BY <1>0, <1>4 DEF LaunchFails, Reap, Drop, Release, catalogVars
<1>5. ASSUME NEW j \in Jobs, OpenPreparer(j)
      PROVE  installs' \in 0..MaxInstalls
  BY <1>0, <1>5 DEF OpenPreparer, Open, Acquire
<1>6. ASSUME NEW e \in Environments, NewRight(e) \/ NewLeft(e)
      PROVE  installs' \in 0..MaxInstalls
  BY <1>0, <1>6 DEF NewRight, NewLeft, Open, Acquire
<1> QED BY <1>1, <1>2, <1>3, <1>4, <1>5, <1>6, CatalogChanges

\* The count of a version is bounded by the processes there are and the releases lost.
LEMMA RecordStep ==
    ASSUME Inv, [Next]_vars
    PROVE  record' \in [Refs -> [archive : Archives \cup {NoArchive}, enabled : BOOLEAN,
                                active : 0..(Cardinality(Jobs \X Slots) + MaxLost)]]
<1>1. CASE daemon' = "down"
  BY <1>1, DaemonStep DEF Inv, TypeOK
<1>2. CASE daemon' # "down"
  <2>1. /\ record' \in [Refs -> Record]
        /\ \A ref \in Refs : record'[ref].active = Cardinality(References(ref)') + lost'[ref]
    BY <1>2, CatalogStep DEF Catalogued, CatalogTypes, CatalogInv, ReferencesAreCounted
  <2>2. IsFiniteSet(Jobs \X Slots)
    <3>1. IsFiniteSet(Jobs)
      BY BindingsAssumption, FS_Union DEF Jobs
    <3>2. IsFiniteSet(Slots)
      <4>1. Slots = ({"prep"} \cup {"right"}) \cup {"left"}
        BY DEF Slots
      <4> QED BY <4>1, FS_Singleton, FS_AddElement
    <3> QED BY <3>1, <3>2, FS_Product
  <2>3. ASSUME NEW ref \in Refs
        PROVE  /\ Cardinality(References(ref)') \in Nat
               /\ Cardinality(References(ref)') <= Cardinality(Jobs \X Slots)
    <3>1. References(ref)' \in SUBSET (Jobs \X Slots)
      BY DEF References
    <3> QED BY <2>2, <3>1, FS_Subset, FS_CardinalityType
  <2>4. Cardinality(Jobs \X Slots) \in Nat /\ MaxLost \in Nat
    BY <2>2, FS_CardinalityType, BindingsAssumption
  <2>5. \A ref \in Refs : /\ record'[ref] \in Record /\ lost'[ref] \in 0..MaxLost
    BY <2>1, LostStep
  <2>6. ASSUME NEW ref \in Refs
        PROVE  record'[ref].active \in 0..(Cardinality(Jobs \X Slots) + MaxLost)
    <3>1. PICK n \in Nat : n = Cardinality(References(ref)')
      BY <2>3
    <3>2. record'[ref].active = n + lost'[ref] /\ n <= Cardinality(Jobs \X Slots)
      BY <2>1, <2>3, <3>1
    <3> QED BY <2>4, <2>5, <3>2
  <2> QED BY <2>1, <2>5, <2>6 DEF Record
<1> QED BY <1>1, <1>2

LEMMA WatchStep ==
    ASSUME Inv, [Next]_vars
    PROVE  watch' \in [Environments -> {"off", "on", "failing"}]
<1>0. watch \in [Environments -> {"off", "on", "failing"}]
  BY DEF Inv, TypeOK
<1>1. CASE Crash \/ Exits
  BY <1>1 DEF Crash, Exits, Gone
<1>2. ASSUME NEW e \in Environments, Publish(e) \/ WatchEnds(e) \/ WatchDestroys(e) \/ Seal(e)
      PROVE  watch' \in [Environments -> {"off", "on", "failing"}]
  <2>1. PICK w \in {"off", "on", "failing"} : watch' = [watch EXCEPT ![e] = w]
    BY <1>2 DEF Publish, WatchEnds, WatchDestroys, Seal
  <2> QED BY <1>0, <2>1
<1> QED BY <1>0, <1>1, <1>2, WatchChanges

LEMMA HostStep ==
    ASSUME Inv, [Next]_vars
    PROVE  /\ daemon' \in {"up", "closing", "draining", "closingAgain", "closingLate",
                           "closed", "down"}
           /\ closing' \subseteq Environments /\ crashes' \in 0..MaxCrashes
<1>0. /\ daemon \in {"up", "closing", "draining", "closingAgain", "closingLate", "closed",
                     "down"}
      /\ closing \subseteq Environments /\ envs \subseteq Environments
      /\ crashes \in 0..MaxCrashes /\ MaxCrashes \in Nat
  BY BindingsAssumption DEF Inv, TypeOK
<1>1. daemon' \in {"up", "closing", "draining", "closingAgain", "closingLate", "closed",
                   "down"}
  BY <1>0, DaemonChanges
  DEF Crash, Exits, Gone, StopBegins, CloseReturns, Restart, Drained
<1>2. closing' \subseteq Environments
  BY <1>0, ClosingChanges DEF Crash, Exits, Gone, StopBegins, CleanedUp, CloseNext, Drained
<1>3. crashes' \in 0..MaxCrashes
  BY <1>0, CrashesChanges DEF Crash, StopBegins
<1> QED BY <1>1, <1>2, <1>3

LEMMA TypeStep ==
    ASSUME Inv, [Next]_vars
    PROVE  TypeOK'
<1>1. \A ref \in Refs : ~Installed(ref)' => record'[ref] = Missing
  BY CatalogStep DEF Catalogued, CatalogTypes
<1>2. /\ package' \in [Refs -> Archives \cup {NoArchive}] /\ moving' \in Moves
      /\ torn' \subseteq Refs
  BY CatalogStep DEF Catalogued, CatalogTypes
<1>3. Len(versions') <= Len(InitialVersions) + Cardinality(Puts)
  <2>1. Len(versions') = Len(InitialVersions) + Cardinality(StoredPuts')
    BY StoreInvStep DEF StoreInv, StoredPuts
  <2>2. StoredPuts' \in SUBSET Puts
    BY DEF StoredPuts
  <2>3. /\ Cardinality(StoredPuts') <= Cardinality(Puts) /\ Cardinality(StoredPuts') \in Nat
        /\ Cardinality(Puts) \in Nat /\ Len(InitialVersions) \in Nat
    BY <2>2, BindingsAssumption, StoreAssumption, FS_Subset, FS_CardinalityType
  <2> QED BY <2>1, <2>3
<1>4. /\ job' \in [Jobs -> Job] /\ proc' \in [Jobs -> [Slots -> Process]]
      /\ entries' \subseteq Environments
      /\ cleaning' \in [Environments -> {"none", "left", "leftwait", "rightwait", "done"}]
  BY JobsStep DEF JobTypes, Cleanings
<1> QED BY <1>1, <1>2, <1>3, <1>4, RecordStep, InstallsStep, VersionsGrow, EnvsStep, WatchStep,
       HostStep, LostStep
    DEF TypeOK, EnvsInv

-------------------------------------------------------------------------------
(* The theorems.                                                            *)

LEMMA InitInv == Init => Inv
<1> SUFFICES ASSUME Init PROVE Inv
  OBVIOUS
<1>1. /\ record = [ref \in Refs |-> Missing] /\ package = [ref \in Refs |-> NoArchive]
      /\ moving = NotMoving /\ installs = 0 /\ versions = InitialVersions
      /\ entries = {} /\ envs = {} /\ daemon = "up" /\ closing = {} /\ crashes = 0 /\ torn = {}
      /\ lost = [ref \in Refs |-> 0] /\ watch = [e \in Environments |-> "off"]
      /\ cleaning = [e \in Environments |-> "none"]
  BY DEF Init, CatalogInit, StoreInit
<1>2. /\ \A j \in Jobs : /\ job[j] \in Job /\ job[j].pc = "idle"
      /\ job \in [Jobs -> Job]
  <2>1. [pc |-> "idle", number |-> 0, body |-> NoBody, compiled |-> NoBody] \in Job
    BY DEF Job
  <2>2. job = [j \in Jobs |-> [pc |-> "idle", number |-> 0, body |-> NoBody,
                               compiled |-> NoBody]]
    BY DEF Init
  <2> QED BY <2>1, <2>2
<1>3. /\ NoProcess \in Process /\ NoProcess.life = "none" /\ ~NoProcess.serving
      /\ proc = [j \in Jobs |-> [s \in Slots |-> NoProcess]]
  BY DEF Init, NoProcess, Process
<1>4. \A j \in Jobs, s \in Slots : proc[j][s].life = "none" /\ ~proc[j][s].serving
  BY <1>3
<1>5. Cardinality(Jobs \X Slots) \in Nat /\ Cardinality(Puts) \in Nat
  <2>1. IsFiniteSet(Jobs)
    BY BindingsAssumption, FS_Union DEF Jobs
  <2>2. IsFiniteSet(Slots)
    <3>1. Slots = ({"prep"} \cup {"right"}) \cup {"left"}
      BY DEF Slots
    <3> QED BY <3>1, FS_Singleton, FS_AddElement
  <2> QED BY <2>1, <2>2, FS_Product, FS_CardinalityType, BindingsAssumption
<1>6. TypeOK
  <2>1. Missing \in [archive : Archives \cup {NoArchive}, enabled : BOOLEAN,
                     active : 0..(Cardinality(Jobs \X Slots) + MaxLost)]
    BY <1>5, BindingsAssumption DEF Missing
  <2>2. NotMoving \in Moves
    BY DEF NotMoving, Moves
  <2>3. Len(versions) <= Len(InitialVersions) + Cardinality(Puts) /\ versions \in Seq(Bodies)
    BY <1>1, <1>5, StoreAssumption
  <2>4. lost \in [Refs -> 0..MaxLost] /\ crashes \in 0..MaxCrashes /\ installs \in 0..MaxInstalls
    BY <1>1, BindingsAssumption, CatalogAssumption
  <2>5. proc \in [Jobs -> [Slots -> Process]]
    BY <1>3
  <2>6. /\ record \in [Refs -> [archive : Archives \cup {NoArchive}, enabled : BOOLEAN,
                                active : 0..(Cardinality(Jobs \X Slots) + MaxLost)]]
        /\ package \in [Refs -> Archives \cup {NoArchive}]
        /\ \A ref \in Refs : record[ref] = Missing
    BY <1>1, <2>1
  <2>7. Environments \subseteq Jobs
    BY DEF Jobs
  <2> QED BY <1>1, <1>2, <2>2, <2>3, <2>4, <2>5, <2>6, <2>7 DEF TypeOK
<1>7. CatalogInv
  <2>1. \A ref \in Refs : References(ref) = {}
    BY <1>4 DEF References, Holds
  <2>2. Cardinality({}) = 0
    BY FS_EmptySet
  <2>3. \A s \in Slots : Ref(s) \in Refs
    BY BindingsAssumption DEF Ref, Slots
  <2>4. ReferencesAreCounted
    <3>1. \A ref \in Refs : record[ref].active = 0 /\ lost[ref] = 0
      BY <1>1 DEF Missing
    <3>2. \A ref \in Refs : Cardinality(References(ref)) = 0
      BY <2>1, <2>2
    <3> QED BY <3>1, <3>2 DEF ReferencesAreCounted
  <2>5. MovingInv /\ PackageInv
    BY <1>1 DEF MovingInv, PackageInv, Unlocked
  <2>6. PackagesMatchRecords
    BY <1>1 DEF PackagesMatchRecords, Missing
  <2>7. RunningIsInstalled
    BY <1>4 DEF RunningIsInstalled, Holds
  <2> QED BY <2>4, <2>5, <2>6, <2>7 DEF CatalogInv
<1>8. StoreInv
  <2>1. StoredPuts = {}
    BY <1>2 DEF Jobs, StoredPuts
  <2>2. Cardinality(StoredPuts) = 0
    BY <2>1, FS_EmptySet
  <2>3. Len(versions) = Len(InitialVersions) + Cardinality(StoredPuts)
    BY <1>1, <2>2, StoreAssumption
  <2> QED BY <2>3 DEF StoreInv, StoredPuts
<1>9. \A j \in Jobs : JobInv(j)
  BY <1>1, <1>2, <1>4
  DEF JobInv, ProcInv, CleaningInv, ReadyInv, FrozenInv, Unopened, Over, Early, Preparing,
      Leaving, PutPlaces, Slots
<1>10. DaemonInv
  BY <1>1 DEF DaemonInv
<1> QED BY <1>6, <1>7, <1>8, <1>9, <1>10 DEF Inv

LEMMA NextInv == Inv /\ [Next]_vars => Inv'
BY TypeStep, CatalogStep, StoreInvStep, JobsStep, DaemonStep DEF Catalogued, Inv

\* Inv holds in every state the daemons of a project reach.
THEOREM Invariance == Spec => []Inv
BY InitInv, NextInv, PTL DEF Spec
\* Every variable keeps its type: the counts of references and of versions stay within
\* what the processes, the lost releases and the calls of Put account for, and the table
\* of environments holds exactly those that are live or in destruction.
THEOREM TypeCorrect == Spec => []TypeOK
BY Invariance, PTL DEF Inv

\* No plugin is replaced, disabled or removed under a process that runs it, however
\* installs, launches, exits, failed index writes and restarts overlap.
THEOREM RunningCorrect == Spec => []RunningIsInstalled
BY Invariance, PTL DEF Inv, CatalogInv

\* The count of a version is the number of processes that hold a reference plus the
\* releases that could not be written: no launch, exit or rollback forgets or repeats
\* one.
THEOREM ReferencesCorrect == Spec => []ReferencesAreCounted
BY Invariance, PTL DEF Inv, CatalogInv

\* Index and package directories agree on every version but those a crash tore, outside
\* of the operation that is moving one.
THEOREM PackagesCorrect == Spec => []PackagesMatchRecords
BY Invariance, PTL DEF Inv, CatalogInv

\* While a left side serves the application its right side serves too, or has ended by
\* itself: neither a creation that fails nor a cleanup, by whomever, stops it first.
THEOREM RightCorrect == Spec => []RightOutlivesLeft
<1>1. Inv => RightOutlivesLeft
  BY Facts DEF JobInv, ReadyInv, RightOutlivesLeft
<1> QED BY <1>1, Invariance, PTL

\* What an environment serves is what was stored, as the plugin that runs understood it.
THEOREM FrozenCorrect == Spec => []FrozenIsCanonical
<1>1. Inv => FrozenIsCanonical
  BY Facts DEF JobInv, FrozenInv, FrozenIsCanonical, Early, Preparing
<1> QED BY <1>1, Invariance, PTL

\* A daemon that stopped in time leaves no environment, no binding and no process that
\* is not being waited for.
THEOREM StopCorrect == Spec => []StopLeavesNothing
<1>1. Inv => StopLeavesNothing
  <2> SUFFICES ASSUME Inv, daemon = "closed"
               PROVE  /\ envs = {} /\ entries = {}
                      /\ \A j \in Jobs, s \in Slots :
                            \/ Over(j, s)
                            \/ j \in Environments /\ cleaning[j] \notin {"none", "done"}
    BY DEF StopLeavesNothing
  <2>1. envs = {} /\ \A j \in Jobs : job[j].pc \in Returned \cup {"closing"}
    BY DEF Inv, DaemonInv
  <2>2. ASSUME NEW e \in Environments
        PROVE  e \in Jobs /\ job[e].pc \in {"idle", "failed", "ended"}
    <3>1. e \in Jobs /\ job[e].pc \notin {"live", "closing"}
      BY <2>1 DEF Inv, TypeOK, Jobs
    <3>2. job[e].pc # "stored"
      BY <3>1, Facts DEF JobInv
    <3> QED BY <2>1, <3>1, <3>2 DEF Returned
  <2>3. entries = {}
    <3>1. ASSUME NEW e \in Environments, e \in entries
          PROVE  FALSE
      BY <2>2, <3>1, Facts DEF JobInv, CleaningInv
    <3> QED BY <3>1, Facts DEF JobTypes
  <2>4. ASSUME NEW e \in Environments, NEW s \in Slots, cleaning[e] \in {"none", "done"}
        PROVE  Over(e, s)
    <3>1. JobInv(e) /\ CleaningInv(e) /\ ProcInv(e)
      BY <2>2, Facts DEF JobInv
    <3>2. CASE job[e].pc = "idle"
      BY <3>1, <3>2 DEF ProcInv, Early, Unopened, Over
    <3>3. CASE job[e].pc # "idle" /\ cleaning[e] = "none"
      BY <2>2, <3>1, <3>3 DEF CleaningInv
    <3>4. CASE cleaning[e] = "done"
      BY <2>2, <3>1, <3>4 DEF CleaningInv, ProcInv, Preparing, Slots
    <3> QED BY <2>2, <2>4, <3>2, <3>3, <3>4
  <2>5. ASSUME NEW p \in Puts, NEW s \in Slots
        PROVE  Over(p, s)
    <3>1. p \in Jobs /\ ProcInv(p) /\ job[p].pc \notin Preparing
      BY <2>1, Facts DEF JobInv, Jobs, Returned, Preparing
    <3> QED BY <3>1 DEF ProcInv, Unopened, Over, Slots
  <2> QED BY <2>1, <2>3, <2>4, <2>5, Facts
<1> QED BY <1>1, Invariance, PTL
=================================================================================
