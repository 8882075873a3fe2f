# Verification of x-mock-mcp

x-mock-mcp runs a test job of an application against mocked dependencies. The
application talks to a *left* plugin (a real MySQL wire server); each request is
dispatched to a *right* plugin (the MySQL mock), which answers from its own
transactional state or asks for data it lacks; the missing data is generated by
a coding agent that polls a bounded queue over MCP. This directory holds TLA+
modules of the parts of that system whose correctness depends on the order of
events, the TLC runs that check them on small instances, and theorems about them
proved with TLAPS.

## 1. Inventory

| Component | Source | State | Operations |
|---|---|---|---|
| Generation queue | `internal/generation` | entries, leases, owners, one wake-up channel | Enqueue, Next, Resolve, ReportOutcome, CancelRequest, CancelRun, Forget |
| MySQL state | `plugins/right/mysql-mock/state.go`, `transaction.go` | committed rows with versions, sessions with working sets, key counters | execute, control (BEGIN, COMMIT, ROLLBACK, SET autocommit), closeConnection |
| MySQL mock | `plugins/right/mysql-mock/plugin.go`, `verification.go`, `export.go`, `system.go` | pending continuations, slots, closed connections, call counts, violations | Start, Stop, Execute, Complete, Verify, Export |
| MySQL preparation | `prepare.go`, `compile.go`, `ddl.go`, `source_*.go`, `plus_*.go` | none | compile SQL, DDL, MyBatis and Java sources into a scenario |
| MySQL wire | `plugins/left/mysql-wire`, `pluginapi/host/serve.go` | listener, table of connections, wait group; per connection a queue of frames, prepared statements, a context | Start, the accept loop, the pump and serve of each connection, Stop, the end of an orphaned process |
| Binding manager | `internal/binding` | entries with a context, an active flag and a run | Create, Destroy, Seal, AssignRun, dispatch, failure watcher |
| Run manager | `internal/run` | executions: stopped, aborted, outputExceeded, status | Start, Stop, Abort, Wait, Close, the waiter of the process |
| Service | `internal/app` | environments: run, failure, destroyed | CreateEnvironment, StartRun, observe, finishRun, Export, DestroyEnvironment, Close |
| IPC peer | `internal/plugin/ipc` | pending calls, running handlers, write queue | Call, cancel, respond, shutdown |
| Plugin processes | `internal/plugin/runtime`, `pluginapi/host` | the process, its pipes, the release of its reference | New, Prepare, launch, Close, the goroutine in cmd.Wait |
| Catalog | `internal/plugin/catalog` | catalog.json, package directories, reference counts | Install, Enable, Disable, Uninstall, Acquire, RecoverReferences |
| Scenario store | `internal/scenario` | versions of documents | Put, Get, Freeze |
| Trace store | `internal/trace` | bounded append-only log per run | Append, Read |
| MCP transport, CLI | `internal/transport/mcp`, `cmd/x-mock` | the lock of the daemon | decode arguments, call the service; start and stop of the daemon |

How they interact. The left plugin calls *dispatch* of the binding manager over
IPC. Dispatch calls *Execute* of the right plugin over IPC. If the answer is
"needs data" it calls the data strategy, which is *Enqueue* of the queue, and
hands the candidate to *Complete* of the right plugin. When dispatch returns, a
deferred observer (the service) reports the outcome to the queue and to the
trace. Agents call *Next* and *Resolve* of the queue through MCP. The run manager
calls back *finishRun* of the service when the test process ends, which cancels
what is pending and seals the bindings.

What is hard, and what makes each part correct:

- **Queue**: two-phase operations around an unlocked schema check, leases that
  expire, owners that are replaced, four sources of cancellation. One accepted
  answer per request, from the present owner; no acknowledgement of what did
  not take effect; everybody who waits is answered.
- **MySQL state**: optimistic transactions that check constraints against their
  own view. The shared rows are always valid, no committed update is lost, no
  deleted row returns, generated keys are fresh.
- **MySQL mock**: statements, disconnects and fills interleave between two
  locks. A slot is filled once; nothing of a broken connection is committed.
- **Run manager, service**: the end of the process races stop, abort and
  failure. A run that met a failure never ends as succeeded.
- **IPC**: cancellations and answers cross. A call has one result; a full queue
  never blocks the reader.
- **MySQL wire**: the client, its socket, a deadline, Stop and the end of the daemon
  race with a command that waits for an agent. The core is asked in the right order
  and told of the end of each connection once; no connection stays when its client
  has gone; a client that waits for its answers is not cut off.
- **Catalog, store**: several processes and crashes. A version in use is never
  removed; versions of a document are never lost or overwritten.

## 2. Plan

Modules, in the order in which they are written:

1. `GenerationQueue` implementing `RequestLifecycle` (done, proved about)
2. `MySQLState` (done, proved about)
3. `MySQLMock` over `MySQLState`: disconnects, slots, Complete, call counts
   (done, proved about)
4. `RunManager`; `Environment`, which composes it with bindings, dispatch and
   the interface of the queue (done, proved about)
5. `IpcPeer`: calls, cancellations and answers that cross, bounded queues,
   shutdown (done, proved about)
6. `Catalog` and `ScenarioStore`, with failed writes and crashes (done, proved about in
   `BindingsProofs`)
7. `Bindings`, which composes them with the processes of plugins: the creation of
   an environment and its rollback, cleanup, the watcher, Put, the stop of the
   daemon (done, proved about)
8. `MySQLWire` implementing `WireConnection`: the observed connection and its
   commands; with it the lifecycle of the host in a plugin
   (`pluginapi/host/serve.go`) (done, proved about)
9. Verify and Export of the mock over open transactions; the digests that a
   snapshot pins, in `Bindings`

Abstract specifications: `RequestLifecycle` for the queue and `WireConnection` for
the connections of a left plugin, both proved to be implemented; next, a call with
one result for `IpcPeer`.

Theorems: those of section 5, which state every safety property and every action
property of the passing runs; next, for `MySQLMock` that no commit loses what others
committed (`CommitsKeepOthers` with fills next to transactions) and that keys stay
fresh, and the refinement of a call by `IpcPeer`.

## 3. Modules

### GenerationQueue and RequestLifecycle

`RequestLifecycle` says what the queue promises: a request opens, at most one
answer is ever accepted for it, the application consumes nothing but that
answer, and the request ends confirmed (which takes an application that consumed
the answer) or withdrawn.

`GenerationQueue` has one action per critical section of `queue.go`:

| Action | Code |
|---|---|
| `Begin`, `Refuse`, `Insert` | Enqueue: the deadline check before the lock, QUEUE_FULL, the insertion |
| `TakeCandidate`, `SeeDone`, `SeeContext` | the three cases of the select in Enqueue; any ready one may be taken |
| `GiveUp`, `HandOver`, `Complete` | the rest of the needs_data branch of dispatch (`binding/manager.go`) |
| `Return`, `ReportOutcome` | its deferred calls in the order in which they run: cancelNeed first, then the observer |
| `ContextDone`, `ContextWatcher`, `DeadlineTimer` | the context of the request, `context.AfterFunc`, the timer |
| `FirstNext`, `RepeatNext`, `Takeover`, `WakeUp`, `PollTimeout` | Next: how the owner is found, and one pass under the lock (`Pass`) each time it has the lock |
| `Resolve`; `SchemaFails`, `Accept`, `Conflict`; `Acknowledge` | Resolve: first critical section, second critical section, wait() |
| `CancelRun`, `ForgetCancels`, `ForgetDeletes` | CancelRun; Forget is two critical sections |

A `finish` and the signal that wakes waiting Next calls happen inside the action
that calls them. The operators `Finish`, `Signal`, `Lease` and `Release` are
named after the code. Abstractions: tokens are numbered in order of issue, since
all that matters is that they differ; a candidate is a model value with a digest
and a flag that says whether it fits the schema; time is a counter. Since request
IDs are random, the first `limit` requests in order are any `limit` requests. An
entry is kept in `entry` when it leaves the map, because waiters hold pointers.

### MySQLState

One table of parents and one of items, with an auto-increment key, a foreign
key, a unique column and a quantity to which statements add. Each INSERT and each
UPDATE is an *op*: a row remembers the INSERT that made it, and a quantity is the
set of additions applied to it. That makes "no update is lost" and "no row comes
back" statements about sets. One action per statement kind (`execute`) and per
control command (`control`); `Apply` is the tail of execute (validation of the
whole view, then the working set or a new version), `Commit` the version check,
the constraint check and the installation. `Read` also stands for every statement
that fails before it changes anything. Not modelled: row order, projection,
`found_rows`, last insert ids, prepared statements, NULLs in a unique key, the
bound of 1000 rows.

### MySQLMock

`MySQLMock` extends `MySQLState` with the handlers of `plugin.go`, which run
concurrently in the right plugin. `req[q].pc` is the place of the handler of
request `q` between two critical sections; `Free` says that `p.mu` is not held by
the `Complete` that is between its two uses of `s.mu`.

| Action | Code |
|---|---|
| `Send`, `Disconnect`, `ContextEnds`, `DeadlinePasses`, `GiveUp` | the client (one command at a time), the end of its connection, the cancellation, the clock, the host without a candidate |
| `Admit` | Execute up to line 172: stopped, context, closed connection |
| `TransactionControl` | `control()`: BEGIN and COMMIT (the other commands are in `MySQLState`) |
| `Count` | the call count and its maximum |
| `LoopSlot` (with `OpenSlot`), `Wake`, `WaitCancelled`, `LoopEnds` | the loop over the slots of a SELECT |
| `ExecuteStatement` | `execute()` |
| `Complete`, `CompleteExecutes` | Complete until the rows are installed; the query it then executes |
| `CloseConnection`, `Stop` | connection.close; Stop |

A continuation is "open" while its channel is open, then "filled" or "failed" with
an error. A fill is a model value: `Fits` says whether it satisfies the slot, its
fixed values and the constraints (the row checks of Complete), whether its rows
are already there is computed. A row remembers the fill it came from. Reference
tables are not written by statements (`prepare.go:225`), so the SELECTs are on
the parents of `MySQLState` and the INSERTs on its items.

### RunManager and Environment

`RunManager` is the execution of a test job: the goroutine that waits for the
process (`Exit`), derives a status (`Judge`, `Verdict`), has it checked (`Checked`)
and publishes it (`Publish`), and what other goroutines set meanwhile: `StopRun`,
`Abort`, `Exceed`, `Timeout`. `Environment` composes it with `service.go`:

| Action | Code |
|---|---|
| `StartBegins`, `AssignRun`, `StartCommits` | StartRun, which holds e.mu (`Unlocked` is false meanwhile): the checks, one binding at a time, the trace and the process |
| `Dispatch`, `Execute`, `Ask`, `Answered` | dispatch of the binding manager: admission, the call of the right plugin, the wait for data, Complete |
| `Observe`, `AppendTrace`, `TraceFails`, `TraceAborts` | observe(): the failure under e.mu, the events, a full trace |
| `PluginExits`, `WatchEnds`, `PluginFails`, `PluginAborts` | the exit of a plugin, the goroutine that watches it, OnFailure |
| `PluginRemoved`, `WatchSeals`, `WatchStops` | its Destroy: the entry under m.mu (`Remove`), then cleanup, which seals the binding and stops both plugins (`Seal`, `StopPlugins`) |
| `CountPending`, `CancelPending`, `ReadFailure`, `Verify`, `SealAndReturn` | finishRun, called between `Judge` and `Publish` |
| `DestroyBegins`, `DestroyStops`, `DestroyWaits`, `DestroyEnds` | DestroyEnvironment, any number of calls at a time |
| `DestroyNextBinding`, `DestroySeals`, `DestroyStopsPlugins` | its Destroy of one binding, in the same steps as the watcher's |

The state of a right plugin is the set of requests that took effect (`effects`);
the queue is what `GenerationQueue` promises: a request waits until it is answered
or cancelled. A cancelled call may have taken effect. Destroy finds an entry and
deletes it in one critical section and stops the plugins later, which takes up to five
seconds: whoever comes second, the watcher, a DestroyEnvironment or Close, finds no
entry and goes on at once. DestroyEnvironment does not test `destroyed` either, so calls
overlap in every step, and one may come to e.mu when the environment has gone already.
Steps are merged where no other goroutine can tell: CancelRun and Abort one after the
other, the stops of the left and the right plugin, the seals of the bindings, StartRun
after the bindings are assigned.

### IpcPeer

Both peers run the same code; a call belongs to the peer that makes it and its
handler runs in the other one.

| Action | Code |
|---|---|
| `Begin`, `Send`, `AwaitWrite`, `AwaitAnswer`, `Return` | Call between two points where it can wait: the registration under p.mu, the two selects of send(), the last select, the deferred removal; any ready case of a select may be taken |
| `Cancel` with `Enqueue` | cancelRequest() and enqueue(), which never waits |
| `TakeJob`, `WriteFrame` | writeLoop: the job it holds is in neither queue nor pipe |
| `ReadRequest`, `ReadCancel`, `ReadAnswer`, `Deliver`, `ReadEOF` | readLoop with startHandler; the answer enters the channel (`Deliver`) after p.mu was released |
| `Respond`, `Cleanup` | the goroutine of a handler: the answer, then its slot |
| `Close`, `ClosePipes` | Close; shutdown closes the pipes after its critical section, `Shutdown` |

A frame is its kind and its call; since IDs are never reused, the ID is the call.
Frames that are read after the shutdown change nothing and are not read. A write
loop that ends leaves its queue: those frames go nowhere.

### MySQLWire and WireConnection

`WireConnection` says what the core relies on when a left plugin asks it about
connections. Before a connection is opened it may at most be asked, once, to select a
database; everything else comes after the open. A connection has one request
under way at a time, executes only statements that the core prepared for it, asks
for nothing once its client was found to be gone, and is closed once, after
everything else, even if it was never opened.

The exception for the database is what clients do that name one when they connect (a
JDBC URL that ends in `/app`): the protocol library calls `handler.UseDB` for it
while it reads the handshake, and UseDB dispatches database.use. That is before the
credentials are compared and before `OnAuthSuccess` dispatches connection.open; the
test of `h.conn` in `setStatus` (`handler.go:54`) exists for it. The core therefore
gets its first request for a connection from a client it does not know yet, and the
mock makes the session of the connection there, autocommit and without
`found_rows` (`mysql-mock/plugin.go:205`, `state.go:99`); connection.open completes it.
If the database is refused, or the login fails after it, there is no connection.open,
and connection.close is what ends that session. The library is not part of the
repository; its order is modelled from those callbacks and the integration tests.

`MySQLWire` is the process that keeps this promise. A connection has two goroutines,
the pump and serve, and `pc` is the place of serve.

| Action | Code |
|---|---|
| `Connect`, `SendAuth`, `SendCommand`, `Disconnect` | the application: any command at any time, or, if it is `Patient`, one that waits for answers |
| `Start`, `Accept`, `Admit`, `AcceptFails` | Start; the accept loop, which finds the listener closed or the table full after it has a socket |
| `PumpFrame`, `PumpEnds`, `DeadlinePasses` | the pump: a frame for the queue, a frame that does not fit, one that is no command; EOF; the deadline of the handshake |
| `Begin`, `Handshake`, `Selected`, `Authenticate`, `Opened`, `HandshakeFails`, `ClearDeadline` | serve up to the first command: the response of the client, database.use if it names a database, then the credentials, and connection.open if they are right; a refusal of the core, or the end of the context or the daemon, during either dispatch |
| `Loop`, `Read` with `Command` | the test of the context and HandleCommand: the next frame, even if the wire has ended since; dispatch, answer without the core, or quit |
| `Answer` with `Applied`, `GiveUp` | the dispatch returns, with the core's answer or because the context or the daemon ended |
| `Leave`, `CloseReturns`, `End` | the deferred calls: close the socket, dispatch connection.close for at most a second, leave the table |
| `Stop`, `StopReturns`, `DaemonGone` | Stop under the lifecycle lock, by the daemon or by serve() of `serve.go` when its peer ended; the end of the process |

A frame is the kind of its command: `bad` stands for every frame the pump rejects,
`ping` for the commands the protocol library answers by itself. A statement is a
count, at the handler and at the core. `use` is COM_INIT_DB, which calls UseDB as the
handshake does; which database is selected is not modelled. The error, the result and
its encoding are one answer; whether the core accepted is a choice. `end` of the
observed connection runs once, inside the action that calls it.

### Catalog, ScenarioStore and Bindings

`Catalog` is `catalog.go`: `record` is catalog.json, `package` what the directory
of each version holds. Every operation runs under `c.mu` and the file lock and
ends in a rename of the index, so Enable, Disable, Acquire, the release and
RecoverReferences are one step each. `Install` and `Uninstall` move a directory
first: they are followed by `Persist`, by `PersistFails` (the rollback) or by a
crash, and nobody else enters meanwhile (`Unlocked`). `ScenarioStore` has the
locked part of Put and what Get finds.

`Bindings` has those who use them. A *job* is an environment, from
CreateEnvironment to its end, or a Put; it runs up to three processes.

| Action | Code |
|---|---|
| `Open`, `Launch`, `LaunchFails` | Factory.open: Acquire; then the digests of the package and cmd.Start, or the release |
| `Exit`, `Reap` | the process ends; the goroutine in cmd.Wait releases and closes `done` |
| `CheckEnabled`, `ReadVersion` | CreateEnvironment up to Freeze, and the Get in Freeze |
| `ReadManifest`, `OpenPreparer`, `Prepared` | ValidateDocument and Prepare by a process of the right plugin |
| `Validated`, `GivesUp` | Freeze compares the document with what the plugin makes of it; a refusal |
| `PutBegins`, `Store` | Put before and under the lock |
| `NewRight`, `NewLeft`, `Describes` | Create starts both processes |
| `StartRight`, `StartLeft`, `StartFails` | negotiation, configure, start; a start that took effect although the call failed |
| `CreateFails`, `CleanUp`, `CleanedUp` | the deferred rollback, cleanup (left side first), the return of the caller |
| `Publish`, `Register`, `RegisterFails` | the entry and its watcher; the environment, or its removal |
| `WatchEnds`, `WatchDestroys`, `Seal`, `DestroyEnvironment` | the watcher, what ends it, and Destroy by the watcher or the service |
| `Administer`, `IndexIsWritten` | the catalog operations of MCP, and the end of one that is under way |
| `Crash`, `Restart` | a daemon that dies and the next one |
| `StopBegins`, `CloseNext`, `CloseReturns` | serve is told to stop: Close of the service, one environment after the other |
| `Drained`, `Exits` | Shutdown of the HTTP server, which waits for requests under way or gives up; the deferred Close, a second one; the end of serve |

A document is a model value, and `Compile` says what a package makes of it: the
plugin accepts it if it is already canonical. `serving` says that an instance was
started in a process, `piped` that the daemon has not closed its pipes (Stop and
Close are one step: the instance ends with its process; a peer that breaks down by
itself is an `Exit`).

## 4. Runs

| Run | Checks | What it shows |
|---|---|---|
| `queue_one_request` | `TypeOK`, `LeaseOfPresentOwner`, `WaiterOwnsAnswer`, `DeliveryMatchesAcceptance`, `ResolvedMeansFilled`, `NewRequestWakesOwner`, `ImplementsLifecycle` | two agents, two answers with one digest, two owners and two leases, a lease (2) shorter than the deadline (3) |
| `queue_liveness` | `EveryoneIsAnswered` | under fairness: two requests with room for one at a time, an agent, a good and a bad answer |
| `queue_filled_answer` | `FilledIsResolved`, violated | finding 1 |
| `mysql_state` | `TypeOK`, `CommittedIsValid`, `CounterAboveKeys`, `CommitsKeepOthers` | two connections, three ops on items of one parent with one unique value (insert, concurrent additions, delete and reinsert), a counter that runs out at 3 |
| `mock_slots` | `MockTypeOK`, `OneFillPerSlot`, `EndsOnce`, `AnswersStayTrue` | three requests, two of one connection: queries of one slot, inserts (at most one is expected) and transactions; a good and a bad fill, a limit of two continuations |
| `mock_disconnect` | `AppliesAtCommit`, violated | finding 2 |
| `mock_refill` | `SameFillIsReused`, violated | finding 3 |
| `environment` | `TypeOK`, `DestroyForgetsNothing`, `SpoiledRunFails`, `AbortedRunsEnd`, `RequestsAreObserved` | a run, a request, a binding one of whose plugins may fail and whose watcher destroys it next to DestroyEnvironment, a trace of three events; the last two under fairness |
| `environment_sealed` | `VerifiedIsFinal`, violated | finding 4 |
| `bindings` | `TypeOK`, `RunningIsInstalled`, `ReferencesAreCounted`, `PackagesMatchRecords`, `RightOutlivesLeft`, `StopLeavesNothing`, `FrozenIsCanonical`, `BindingsLetGo` | an environment and a Put while packages are installed, replaced and removed, index writes fail, processes exit and the daemon crashes or stops; the last one under fairness |
| `ipc_peer` | `TypeOK`, `ChannelHasRoom`, `ShutdownIsComplete`, `OutcomeMatchesHandler`, `CancelledHandlersEnd`, `SettledCallsReturn` | two calls of one peer, one place in each table, queue and pipe; the last two under fairness |
| `mysql_wire` | `TypeOK`, `StopLeavesNothing`, `PatientClientsStay`, `ImplementsConnection`, `ConnectionsEnd` | a client that waits for its answers and one that sends what it likes compete for the one place in the table, while Stop, the deadline and the end of the daemon may come at any time; the last one under fairness |

Bounds. Two agents suffice for every race of this queue, since a request has at
most one lease and a takeover involves two owners. Two owners and two leases per
request allow an expiry and a takeover in one behaviour. `MaxTime` covers a lease
that expires before its deadline. The bounds on owners, leases, time, ops and
versions are guards of the actions that would exceed them. Agents, connections
and ops are interchangeable, hence the symmetry sets; the liveness run uses none.
In the liveness run one unit of time is both the lease and the deadline, so that a
second request is refused, waits its turn or is admitted after the end of the first;
a lease that is given again before the deadline is in `queue_one_request`. Runs of
the queue share nothing but its lock and the counters of its limits.
In `MySQLMock` each request is one statement and there are finitely many: three
are enough for a holder, a waiter and the connection they share or do not share,
and for a slot that is asked for again. The clients then have nothing left to do,
so these runs do not check deadlock. An
environment has one run and, in the end, nothing left to do either. One request
and one binding reach each pair of StartRun, observe, finishRun, the failure of a
plugin and the destruction; three events are the snapshot, the request and the
verification, so that a fourth does not fit. One plugin of the binding exits by itself
(`MaxExits`); which one makes a difference, a second exit none. One caller destroys the
environment, again and again, and the watcher its binding; with `Destroyers = {d1, d2}`
the run is too long for its liveness properties, while its invariants and
`SpoiledRunFails` hold there too (1.1 million states), and the theorems are about any
number. In `IpcPeer` every bound is one, so
that each limit is met: the second call begins when the answer to the first was
read or its caller gave up, finds its handler still running, and finds queues and
pipe full of the frames of the first. `Bindings` has one environment and one Put,
which compete for the version of the right plugin; two packages of that version
and three installs let the Put store what one package accepts and the environment
be created with the other. One stop or crash, with a restart, and one reference whose
release could not be written are the cases that differ. What further bindings of
an environment, or the limit of 16 environments, can do to this one is
`RegisterFails`. A job ends, so the run does not check deadlock. In `MySQLWire` two
connections and a table of one reach a full table and a place that is taken again; a
queue of two frames and three commands reach a full queue; one statement is the limit
and the refusal above it. In the end every client has left, or the process has gone.

Fairness (`FairSpec`). Goroutines that can run do, timers fire, the right plugin
answers, a context ends at its deadline, and a call that an agent made runs to
its end. Nothing is assumed of agents making calls, of the application or of the
run. The queue's clock advances. Each goroutine, and each call of an agent, has one
condition of weak fairness (`Goroutine`, `Call`): it is in one place at a time.

`FairSpec` of `Environment`: goroutines that can run do, the process of a job whose
context is done is killed, calls end by their deadlines. Nothing is assumed of the
timeout of the job, of plugins failing or of anybody calling the service.

`FairSpec` of `IpcPeer`: the loops, the goroutines of calls and `ClosePipes` run.
A handler ends once it is cancelled, not otherwise; calls need not begin,
contexts need not end, peers need not be closed.

`FairSpec` of `Bindings`: whoever has the lock of the catalog writes its index or
fails, whoever waits for the lock gets it (hence strong fairness: administrators
may come again and again), a process that was started is waited for, one whose
pipes were closed ends (Close kills it half a second later), and the goroutines of
calls and watchers go on. A job takes finitely many steps, so fairness of their
disjunction (`Goroutines`) is enough. Nobody has to call the service or to stop the daemon, and
a process need not exit by itself.

`FairSpec` of `MySQLWire`: the goroutines of connections and the accept loop run, the
handshake's deadline passes, the dispatch of connection.close ends within its second,
and so does the Stop of a process whose daemon has gone. Nothing is assumed of the
application, of the core (an answer need never come) or of the daemon.

Findings:

1. *An answer that took effect may be acknowledged as cancelled.* `dispatch`
   ends the context of the need before the observer reports the outcome
   (`binding/manager.go:346` and `320`); the context's watcher and the report then
   race for the entry.
2. *A broken transaction may commit a write.* Execute reads `p.closed` and
   releases the lock (`plugin.go:163`). If connection.close is handled before the
   statement runs, `conn()` makes a fresh session in autocommit mode for it.
3. *A slot may become impossible to fill.* Complete commits the rows and then
   executes the query (`plugin.go:439`). If that fails because the context ended,
   the continuation fails, and each later fill of the slot, the identical one
   included, is refused because its rows exist.
4. *A sealed run may still change.* dispatch checks that the binding is active
   once (`binding/manager.go:297`), and Seal does not wait for requests in flight:
   one of them may take effect after Verify, in a run published as succeeded.

A limit of the queue: a Resolve that repeats the accepted answer gets its
acknowledgement, but one that is between its two critical sections when the first
is accepted gets STATE_CONFLICT (`queue.go:290`, action `Conflict`).

Two limits of the mock are visible in the same models. A query that asked for one
slot of a table is answered when that slot is filled, even if another slot of the
table is not: `AnswersStayTrue` is checked with one slot, which is what the P0 scenario
has. A query that waits for a fill shares its error, so the disconnect of the
client that asked for the fill fails the queries of others. And in `Environment`
an abort that comes after `ReadFailure`, such as that of a full trace, does not
change the status any more; hence "before its process ended" in `SpoiledRunFails`.

Three limits are visible in `Bindings`. A crash between the rename of a directory
and the index leaves the two in disagreement for good (`torn`): the version can
then be neither installed nor, after an Uninstall, removed. CreateEnvironment reads
the digests of the snapshot (`service.go:156`) before it validates the scenario and
starts processes, each of which acquires its version on its own: in between the
version may be replaced, so that a snapshot names another package than the one that
runs; `FrozenIsCanonical` holds since it speaks of the scenario as validated, but
nothing here says that the digest is right. And a DestroyEnvironment that finds a
binding already taken by its watcher returns before the processes have gone
(`BindingsLetGo`: they go in the end), and removes the environment meanwhile: hence
`DestroyForgetsNothing` of `Environment` says that the plugins of an environment that is
gone have exited or are being stopped by whoever took their binding out. The context of a sealed binding has ended
and with it its watch: if its plugin exits, the other one stays until the
environment is destroyed.

`StopLeavesNothing` of `Bindings` excepts a binding that its watcher is cleaning up:
Close finds it taken and does not wait, so that the daemon may exit meanwhile (the
next one recovers its references). It speaks of a Shutdown that was in time; after a
late one calls are still under way when the daemon ends. The first Close returns at
the first environment that somebody else has removed meanwhile; the deferred one
destroys the rest.

Three limits are visible in `MySQLWire`. A statement over the limit of 256 is refused
by the handler but prepared at the core, where it stays until the connection ends
(`handler.go:150`). A prepared statement's close has no answer, so that a client may
send several of them at once: more than the queue of frames holds cut it off although
it keeps to the protocol (`PatientClientsStay` is about a client that sends at most as
many). And a command that was queued before the wire ended is still taken, but its
dispatch fails at once.

`EveryoneIsAnswered` excepts an *orphan* for the request and its agent: a request that
is inserted between the two critical sections of Forget is removed unfinished. The
application is answered all the same (its part of the property has no exception), but
an agent that answers it waits until its own context ends.

## 5. Proofs

Each module has its theorems in a module of its own: `GenerationQueueProofs`,
`MySQLStateProofs`, `MySQLMockProofs` (which uses lemmas of `MySQLStateProofs`),
`EnvironmentProofs`, `IpcPeerProofs`, `BindingsProofs` (with `Catalog` and
`ScenarioStore`) and `MySQLWireProofs`. All of them hold for every value of the
constants that satisfies the named assumptions of the modules: there the runs' bounds
on time, versions, crashes and so on are arbitrary. Three assumptions say that a set
is finite: the calls of two peers (`IpcAssumption`), the environments and Puts of a
daemon (`BindingsAssumption`) and the requests of a mock (`MockAssumption`). The
sets are arbitrarily large, and each state is reached by finitely many of them; they
are needed where a property counts.

The proofs have one form. An inductive invariant strengthens the properties; lemmas
say which actions change which variable, or what a step can do to one request,
connection, job or peer; a step lemma per action, or per group of actions with the
same effect, proves the invariant for what the action touches, and framing lemmas
carry it over for the rest. The parts of each invariant were checked by TLC on the
instances of section 4 before they were proved.

### The generation queue

`GenerationQueueProofs` proves, for every number of runs, requests and agents, for
every digest and schema function and all bounds (`DataAssumption`,
`BoundsAssumption`), seven results about `Spec`:

- `TypeCorrect`: `TypeOK`. Inductive with `OwnersIssued` (an owner token was issued
  and its epoch does not exceed it).
- `DeliveryCorrect`: `DeliveryMatchesAcceptance`, and `ResolutionCorrect`:
  `ResolvedMeansFilled`. Neither is inductive: `AnswerInv` relates the place of the
  dispatch to the state of the entry, the candidate in its channel and the
  candidate received.
- `WaiterCorrect`: `WaiterOwnsAnswer`, by `CallInv`: a call holds a lease that was
  issued, and an entry's lease number never exceeds the number issued, so a lease
  issued later differs from every lease in a call.
- `LeaseCorrect`: `LeaseOfPresentOwner`, which is inductive given `TypeInv`.
- `WakeUpCorrect`: `NewRequestWakesOwner`, by `WakeInv`: a sleeping call holds a token
  that its run was issued, and a new owner gets a token nobody sleeps with.
- `LifecycleImplemented`: `Spec` implements `RequestLifecycle`. Initial states map to
  initial states; `EntryStep` gives the step of the life cycle, or the stutter, that
  each step of the queue is.

Lemma `EntryStep` is the heart: every step of the specification, seen from one
request, is one of eight changes of its entry. Lemma `AgentStepChange` does the
same for an agent's call. The invariance proofs then split on these changes
instead of on the forty actions.

### The transactional state and the mock

`MySQLStateProofs` (any connections, keys, ops, counters and versions) proves
`TypeCorrect`, `ValidityCorrect` (`CommittedIsValid`), `CounterCorrect`
(`CounterAboveKeys`) and `CommitsCorrect` (`CommitsKeepOthers`). The last needs what a
working set is good for: `WorkInv` says that, as long as nobody committed a row since
the transaction touched it first, what the transaction made of it `Follows` the
committed one: it has all its additions, or is the row of an INSERT that was never
committed; `Unshared` says that such a row is in one working set only. A commit then
replaces rows by rows that follow them (`InstallStep`).

`MySQLMockProofs` (any requests, connections, slots, fills and limits) proves of
`MockSpec`:

- `MockTypeCorrect`: `MockTypeOK`, with the limit on continuations and on the calls
  that were counted. `LimitInv` counts the requests past `Count`.
- `OneFillCorrect`: `OneFillPerSlot`, and `EndsOnceCorrect`: `EndsOnce`. `NeedInv` ties
  a continuation to the place of its handler: a query in its loop has none, so that it
  overwrites none when it asks; while Complete executes the query (`filling`) the
  continuation is open and p.mu is held, so that no other query, `CloseConnection` or
  `Stop` ends it under its hands.
- `AnswersCover`: with any number of slots an answer has all the rows of the slots the
  query passed and of the one it asked for, and a row of a slot is never replaced. It
  needs `LoopInv` (the rows of every slot before the present one are there; a query
  waits for a continuation of the slot it has come to) and `RowsInv` (no working set
  has a parent, so nothing hides one and no commit replaces one). `AnswersCorrect` is
  `AnswersStayTrue` under the hypothesis `OneSlotOnly`: with two slots of one table it
  does not hold, as section 4 says.
- `MockValidityCorrect`: the rows that transactions and fills commit side by side
  satisfy the foreign keys and the unique keys.

### The environment and its run

`EnvironmentProofs` (any runs, bindings, requests and bounds) proves
`TypeCorrect`, `DestroyCorrect` (`DestroyForgetsNothing`) and `SpoiledFail`
(`SpoiledRunFails`), for any number of overlapping calls of DestroyEnvironment. `CallInv`
follows one of them: it waits for the run of the environment (there is at most one,
`RunInv`, and none is being started, `StartInv`), and the bindings before the one it has
come to have been taken out, by it or by somebody else. `DestroyInv` adds that whoever
took a binding out does not give it up before its plugins have exited
(`CleanupStep`). A spoiled run
is not reported at once, so `SpoiledFail` follows the two predicates `Doomed` and
`Failing` from the end of the process to the status: a flag of the run or the failure
of the environment is still going to be read, or the verdict was already given.
`FailureInv` says that an error somebody saw is recorded.

### The IPC peer

`IpcPeerProofs` proves, for any number of calls, any two peers and all bounds
(`IpcAssumption`), four properties of `Spec`:

- `ChannelsNeverBlock`: `ChannelHasRoom`. It follows from `ChannelInv`: a call that
  has not begun has an empty channel; a call that is pending, or whose answer is
  about to be delivered, was begun by that peer, is not in both places, and has an
  empty channel. Lemmas `ShutdownKeeps` and `EnqueueKeeps` say this once for the two
  operators that most steps end in; `KeptInv` lifts it to the next state.
- `ShutdownCompletes`: `ShutdownIsComplete`. A handler is only started by a read
  loop that has not been shut down, but the invariant also needs that the handler
  is one of the reading peer's: `OwnRequests` says that the requests in the queue,
  the write loop and the pipe of a peer are calls of that peer.
- `OutcomeCorrect`: `OutcomeMatchesHandler`. There is at most one request frame of a
  call, in one place of its caller, and while there is one its handler has not been
  started (`Requests`); hence no handler is started twice, and what a frame, a
  channel or a result says of a handler stays true (`TrueFrames`, `TrueOutcomes`).
- `TypeCorrect`: `TypeOK` with the four bounds of a peer.

### Bindings, catalog, store and daemon

`BindingsProofs` proves, for any environments, Puts, references, archives, documents
and bounds, `TypeCorrect`, `RunningCorrect` (`RunningIsInstalled`), `ReferencesCorrect`
(`ReferencesAreCounted`), `PackagesCorrect` (`PackagesMatchRecords`), `RightCorrect`
(`RightOutlivesLeft`), `FrozenCorrect` (`FrozenIsCanonical`) and `StopCorrect`
(`StopLeavesNothing`), by one invariant, `Inv`:

- `CatalogInv`: an operation between the rename of a directory and the index has a
  version nobody refers to; index and directories agree otherwise; a reference is a
  process or a release that could not be written.
- `StoreInv`: the versions are the initial ones and one for each Put that stored.
- `JobInv`, for each job: the processes are opened in order (`ProcInv`), an entry is
  taken out once and cleaned up by whoever took it (`CleaningInv`), what a process
  serves is what was compiled and found canonical (`ReadyInv`, `FrozenInv`).
- `DaemonInv`: during the second Close the environments still to be closed are those
  in the table and every job has returned or is being closed; a daemon that is down
  has no process and no lock.

A step of a job (`Stepped`) proves the job's own invariant and frames the others; what
it does to the catalog is one of seven kinds (`Calm`, `Administer`,
`IndexIsWritten`, `Acquire`, `Release`, `Gone`, `Restart`), each with its lemma about
the number of references.

### The MySQL wire

`MySQLWireProofs` (any connections, commands and limits, `WireAssumption`) proves:

- `TypeCorrect`: `TypeOK`, and `StopCorrect`: `StopLeavesNothing`. `TableInv` says that
  the table is the set of connections between admission and end and that the wait
  group counts them and the accept loop; Stop returns when it is zero.
- `PatientStay`: `PatientClientsStay`. `Unanswered` counts for a client that waits: what
  is in its socket and its queue is no more than what it has sent and not been
  answered, and all but the last are closes of statements; so the queue has room.
- `ConnectionImplemented`: every connection implements `WireConnection`, clients that
  name a database in the handshake included. It needs `Held` (the core holds at least
  the statements of the handler) and `Phases` (where serve is in relation to the
  context and to the open: it asks the core for nothing once the context is done, and a
  connection whose open has not succeeded is in no command).

### What is only model-checked

Liveness under fairness, which the prover cannot do: `EveryoneIsAnswered`,
`AbortedRunsEnd`, `RequestsAreObserved`, `CancelledHandlersEnd`, `SettledCallsReturn`,
`BindingsLetGo` and `ConnectionsEnd`. The violations behind the findings are
counterexamples of TLC (`FilledIsResolved`, `AppliesAtCommit`, `SameFillIsReused`,
`VerifiedIsFinal`). Every other property of section 4 has a theorem.

## 6. Not modelled

Parsing and compilation of SQL, DDL, MyBatis XML and Java sources; the extraction
and validation of plugin archives (`archive.go`); JSON schemas and the encoding of MySQL packets; the MCP
transport and its authentication; the command line; the example applications; the
encoding of result sets and parameters (`resultset.go`); the verdict of Verify, the
captures of Export and the answers to driver queries (`system.go`).
They are sequential functions of their input. Of `MySQLWire` an error of the random
numbers of the handshake, a switch of the authentication method (one more frame of the
client before its credentials are compared) and the status flags, which an error reply
does not refresh, are left out; of the trace a file that was torn by a crash. Evidence files of a
scenario are read in Put and CreateEnvironment only, and their digests are not
modelled. Nor are a rollback of the catalog that
fails as well, and the processes a dead daemon leaves behind: they end on the EOF of
their pipes, and nothing refers to them. The parts of the plan that have no
module yet are listed in `PROJECT.json` with the hazards they are meant for.
