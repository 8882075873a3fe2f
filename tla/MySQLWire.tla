------------------------------- MODULE MySQLWire -------------------------------
(***************************************************************************)
(* The process of the left plugin: plugins/left/mysql-wire (plugin.go,     *)
(* connection.go, handler.go) under pluginapi/host/serve.go.               *)
(*                                                                         *)
(* An accept loop admits connections of the application.  Each has two     *)
(* goroutines: the pump, the only reader of the socket, which queues whole *)
(* frames, and serve, which lets the protocol library take frame after     *)
(* frame from the queue and waits in a dispatch to the core for each       *)
(* command.  The pump goes on reading during that wait, and so learns that *)
(* the client is gone while an agent is still asked for data.  The core    *)
(* and the protocol library are external: what the library calls, and when,*)
(* is taken from the callbacks handler.go and plugin.go give it.           *)
(***************************************************************************)
EXTENDS Integers, FiniteSets, Sequences

CONSTANTS
    Conns,         \* connections of the application
    Patient,       \* those whose client waits for answers, and asks what is supported
    Commands,      \* what each client may send
    MaxCommands,   \* bound: commands of each client
    MaxConns,      \* 32 connections
    QueueSize,     \* 4 frames
    MaxStatements  \* 256 prepared statements

\* The requests of the handler; "use" is database.use.
Dispatched == {"use", "query", "prepare", "execute", "close"}

ASSUME WireAssumption ==
    /\ Patient \subseteq Conns
    /\ Commands \in [Conns -> SUBSET (Dispatched \cup {"ping", "quit", "bad"})]
    /\ \A c \in Patient : "bad" \notin Commands[c]
    /\ MaxCommands \in [Conns -> Nat] /\ MaxStatements \in Nat
    /\ MaxConns \in Nat \ {0} /\ QueueSize \in Nat \ {0}

VARIABLES
    client,    \* the application's end of each connection
    conn,      \* the plugin's end: its goroutine, its wire and its handler
    known,     \* statements the core holds for the connection
    listener,  \* p.listener: none yet, open, closed by Stop
    loop,      \* the goroutine that accepts
    conns,     \* p.conns
    wg,        \* p.wg
    stopper,   \* who is in Stop, under the lifecycle lock
    halted,    \* a Stop has returned without an error
    process    \* serving, orphaned by its daemon, exited

connVars == <<client, conn, known>>
pluginVars == <<listener, loop, conns, wg>>
processVars == <<stopper, halted, process>>
vars == <<connVars, pluginVars, processVars>>

-------------------------------------------------------------------------------
\* Where serve is: in the handshake, waiting for the database.use of the handshake,
\* past it, waiting for connection.open, between two commands (before and after the
\* test of its context), waiting for a command's dispatch, in its deferred calls.
Pcs == {"none", "refused", "accepted", "starting", "handshake", "selecting", "selected",
        "opening", "greeted", "ready", "reading", "handling", "leaving", "closing",
        "ending", "over"}

Ends == {"eof", "timeout", "bad", "full", "closed"}

\* owed counts the commands since the last answer; asking says that one is due.
Client == [state : {"new", "connected", "authenticating", "greeted", "left"},
           sent : Nat, owed : Nat, asking : BOOLEAN]

Frames == Dispatched \cup {"auth", "ping", "quit", "bad"}

\* net is what was sent and not yet read, frames what the pump has queued.
Connection == [pc : Pcs, wire : {"none", "open"} \cup Ends, deadline : BOOLEAN,
               commandPhase : BOOLEAN, cancelled : BOOLEAN, cut : BOOLEAN,
               net : Seq(Frames), frames : Seq(Frames),
               cmd : Dispatched \cup {"none", "quit"}, statements : 0..MaxStatements]

Nobody == [state |-> "new", sent |-> 0, owed |-> 0, asking |-> FALSE]
NoConnection == [pc |-> "none", wire |-> "none", deadline |-> FALSE, commandPhase |-> FALSE,
                 cancelled |-> FALSE, cut |-> FALSE, net |-> <<>>, frames |-> <<>>,
                 cmd |-> "none", statements |-> 0]

Init ==
    /\ client = [c \in Conns |-> Nobody]
    /\ conn = [c \in Conns |-> NoConnection]
    /\ known = [c \in Conns |-> 0]
    /\ listener = "none" /\ loop = "off" /\ conns = {} /\ wg = 0
    /\ stopper = "none" /\ halted = FALSE /\ process = "serving"

At(c, pc) == conn[c].pc = pc
Open(c) == conn[c].wire = "open"
Ended(c) == conn[c].wire \in Ends

\* The new value of a connection.
Becomes(c, k) == conn' = [conn EXCEPT ![c] = k]
Goto(c, pc) == Becomes(c, [conn[c] EXCEPT !.pc = pc])

\* Where serve is after a write; it fails if the client has gone.
Written(c, pc) == IF client[c].state = "left" THEN {pc, "leaving"} ELSE {pc}

\* Mutant: end() does not cancel the context.
EndWire_KeepsContext(k, why) ==
    IF k.wire = "open" THEN [k EXCEPT !.wire = why, !.net = <<>>] ELSE k

\* end(), once: the reason, the closed socket, the cancelled context.
EndWire(k, why) ==
    IF k.wire = "open" THEN [k EXCEPT !.wire = why, !.net = <<>>, !.cancelled = TRUE]
    ELSE k

-------------------------------------------------------------------------------
(* The application.                                                         *)

Connect(c) ==
    /\ client[c].state = "new" /\ listener = "open"
    /\ client' = [client EXCEPT ![c].state = "connected"]
    /\ UNCHANGED <<conn, known, pluginVars, processVars>>

Sends(c, frame) == Becomes(c, [conn[c] EXCEPT !.net = Append(@, frame)])

SendAuth(c) ==
    /\ client[c].state = "connected" /\ At(c, "handshake") /\ Open(c)
    /\ client' = [client EXCEPT ![c].state = "authenticating"]
    /\ Sends(c, "auth")
    /\ UNCHANGED <<known, pluginVars, processVars>>

\* A close has no answer: a patient client sends some without waiting, as many as the
\* plugin queues with the command that comes after them.
SendCommand(c, cmd) ==
    /\ client[c].state = "greeted" /\ Open(c)
    /\ client[c].sent < MaxCommands[c]
    /\ c \in Patient => ~client[c].asking /\ client[c].owed < QueueSize
    /\ client' = [client EXCEPT ![c].sent = @ + 1, ![c].owed = @ + 1,
                                ![c].asking = cmd # "close"]
    /\ Sends(c, cmd)
    /\ UNCHANGED <<known, pluginVars, processVars>>

\* Before the pump's first read and after the end of the wire nobody notices.
Disconnect(c) ==
    /\ client[c].state # "left" /\ Open(c)
    /\ client' = [client EXCEPT ![c].state = "left"]
    /\ UNCHANGED <<conn, known, pluginVars, processVars>>

\* The client gets the answer to a command.
Answered(c, cmd) ==
    client' = IF cmd = "close" THEN client
              ELSE [client EXCEPT ![c].asking = FALSE, ![c].owed = 0]

-------------------------------------------------------------------------------
(* Start and the accept loop.                                               *)

Start ==
    /\ process = "serving" /\ stopper = "none"
    /\ listener = "none"
    /\ listener' = "open" /\ loop' = "waiting" /\ wg' = 1
    /\ UNCHANGED <<connVars, conns, processVars>>

Accept(c) ==
    /\ loop = "waiting" /\ listener = "open"
    /\ client[c].state = "connected" /\ At(c, "none")
    /\ Goto(c, "accepted")
    /\ loop' = "admitting"
    /\ UNCHANGED <<client, known, listener, conns, wg, processVars>>

\* Mutant: serve is not counted.
Admit_Uncounted(c) ==
    /\ At(c, "accepted")
    /\ loop' = "waiting"
    /\ IF listener # "open" \/ Cardinality(conns) >= MaxConns
       THEN Goto(c, "refused") /\ UNCHANGED <<conns, wg>>
       ELSE Goto(c, "starting") /\ conns' = conns \cup {c} /\ UNCHANGED wg
    /\ UNCHANGED <<client, known, listener, processVars>>

\* Mutant: one connection too many.
Admit_OffByOne(c) ==
    /\ At(c, "accepted")
    /\ loop' = "waiting"
    /\ IF listener # "open" \/ Cardinality(conns) > MaxConns
       THEN Goto(c, "refused") /\ UNCHANGED <<conns, wg>>
       ELSE Goto(c, "starting") /\ conns' = conns \cup {c} /\ wg' = wg + 1
    /\ UNCHANGED <<client, known, listener, processVars>>

\* Stop may have come between Accept and the lock.
Admit(c) ==
    /\ At(c, "accepted")
    /\ loop' = "waiting"
    /\ IF listener # "open" \/ Cardinality(conns) >= MaxConns
       THEN Goto(c, "refused") /\ UNCHANGED <<conns, wg>>
       ELSE Goto(c, "starting") /\ conns' = conns \cup {c} /\ wg' = wg + 1
    /\ UNCHANGED <<client, known, listener, processVars>>

AcceptFails ==
    /\ loop = "waiting" /\ listener = "closed"
    /\ loop' = "ended" /\ wg' = wg - 1
    /\ UNCHANGED <<connVars, listener, conns, processVars>>

-------------------------------------------------------------------------------
(* The pump.                                                                *)

\* The client or Stop has closed the socket.  What was sent before may be lost.
PumpEnds(c) ==
    /\ Open(c)
    /\ client[c].state = "left" \/ conn[c].cut
    /\ Becomes(c, EndWire(conn[c], "eof"))
    /\ UNCHANGED <<client, known, pluginVars, processVars>>

PumpFrame(c) ==
    /\ Open(c) /\ ~conn[c].cut
    /\ conn[c].net # <<>>
    /\ LET frame == Head(conn[c].net)
           full == Len(conn[c].frames) >= QueueSize
           k == [conn[c] EXCEPT !.net = Tail(@)]
       IN  \/ conn[c].commandPhase /\ frame = "bad" /\ Becomes(c, EndWire(k, "bad"))
           \/ /\ ~(conn[c].commandPhase /\ frame = "bad")
              /\ \/ full /\ Becomes(c, EndWire(k, "full"))
                 \/ ~full /\ Becomes(c, [k EXCEPT !.frames = Append(@, frame)])
    /\ UNCHANGED <<client, known, pluginVars, processVars>>

\* Five seconds after the start.
DeadlinePasses(c) ==
    /\ Open(c) /\ conn[c].deadline
    /\ Becomes(c, EndWire(conn[c], "timeout"))
    /\ UNCHANGED <<client, known, pluginVars, processVars>>

-------------------------------------------------------------------------------
(* serve: the handshake.                                                    *)

Begin(c) ==
    /\ At(c, "starting")
    /\ Becomes(c, [conn[c] EXCEPT !.pc = "handshake", !.wire = "open", !.deadline = TRUE])
    /\ UNCHANGED <<client, known, pluginVars, processVars>>

\* The credentials are right, and OnAuthSuccess dispatches connection.open; or they
\* are wrong, or the context is done and nothing is dispatched.
Authenticated(c) == {"leaving"} \cup IF conn[c].cancelled THEN {} ELSE {"opening"}

\* The response of the client.  A database it names is selected first, by UseDB, before
\* its credentials are compared.  Or there is nothing to read any more.
Handshake(c) ==
    /\ At(c, "handshake")
    /\ \/ /\ conn[c].frames # <<>>
          /\ LET k == [conn[c] EXCEPT !.frames = Tail(@)]
             IN  \/ \E pc \in Authenticated(c) : Becomes(c, [k EXCEPT !.pc = pc])
                \/ /\ ~conn[c].cancelled
                   /\ Becomes(c, [k EXCEPT !.pc = "selecting", !.cmd = "use"])
       \/ Ended(c) /\ Goto(c, "leaving")
    /\ UNCHANGED <<client, known, pluginVars, processVars>>

\* The core knows the database.
Selected(c) ==
    /\ At(c, "selecting") /\ process = "serving"
    /\ Becomes(c, [conn[c] EXCEPT !.pc = "selected", !.cmd = "none"])
    /\ UNCHANGED <<client, known, pluginVars, processVars>>

Authenticate(c) ==
    /\ At(c, "selected")
    /\ \E pc \in Authenticated(c) : Goto(c, pc)
    /\ UNCHANGED <<client, known, pluginVars, processVars>>

\* The core has opened the connection: from here on the pump filters commands.  Then
\* the client is told.
Opened(c) ==
    /\ At(c, "opening") /\ process = "serving"
    /\ \E pc \in IF Open(c) THEN Written(c, "greeted") ELSE {"leaving"} :
          Becomes(c, [conn[c] EXCEPT !.commandPhase = TRUE, !.pc = pc])
    /\ client' = IF Open(c) /\ client[c].state = "authenticating"
                 THEN [client EXCEPT ![c].state = "greeted"] ELSE client
    /\ UNCHANGED <<known, pluginVars, processVars>>

\* The core refuses the database or the connection, or the context is done, or the
\* daemon is gone.
HandshakeFails(c) ==
    /\ At(c, "selecting") \/ At(c, "opening")
    /\ Becomes(c, [conn[c] EXCEPT !.pc = "leaving", !.cmd = "none"])
    /\ UNCHANGED <<client, known, pluginVars, processVars>>

\* Mutant: the deadline of the handshake stays.
ClearDeadline_Forgets(c) ==
    /\ At(c, "greeted")
    /\ Goto(c, "ready")
    /\ UNCHANGED <<client, known, pluginVars, processVars>>

\* A closed socket takes no deadline.
ClearDeadline(c) ==
    /\ At(c, "greeted")
    /\ Becomes(c, [conn[c] EXCEPT !.pc = "ready", !.deadline = @ /\ Ended(c)])
    /\ UNCHANGED <<client, known, pluginVars, processVars>>

-------------------------------------------------------------------------------
(* serve: commands.                                                         *)

Loop(c) ==
    /\ At(c, "ready")
    /\ Goto(c, IF conn[c].cancelled THEN "leaving" ELSE "reading")
    /\ UNCHANGED <<client, known, pluginVars, processVars>>

\* A ping, a reset, a statement the handler does not have: the library answers.
NeedsCore(c, cmd) ==
    \/ cmd \in {"use", "query", "prepare"}
    \/ cmd \in {"execute", "close"} /\ conn[c].statements > 0

\* A dispatch with a context that is done is not sent.
Command(c, k, cmd) ==
    \/ /\ NeedsCore(c, cmd)
       /\ Becomes(c, IF k.cancelled THEN [k EXCEPT !.pc = "ready"]
                     ELSE [k EXCEPT !.pc = "handling", !.cmd = cmd])
       /\ UNCHANGED client
    \/ /\ ~NeedsCore(c, cmd) /\ cmd # "quit"
       /\ \E pc \in Written(c, "ready") : Becomes(c, [k EXCEPT !.pc = pc])
       /\ Answered(c, cmd)
    \/ /\ cmd = "quit"
       /\ Becomes(c, [EndWire(k, "closed") EXCEPT !.pc = "ready", !.cmd = "quit"])
       /\ UNCHANGED client

\* HandleCommand: the next frame, whether or not the wire has ended meanwhile; or the
\* end of the wire.  A statement is forgotten before the core is told to close it.
Read(c) ==
    /\ At(c, "reading")
    /\ \/ /\ conn[c].frames # <<>>
          /\ LET cmd == Head(conn[c].frames)
                 forgets == cmd = "close" /\ NeedsCore(c, cmd)
             IN  Command(c, [conn[c] EXCEPT !.frames = Tail(@),
                                            !.statements = IF forgets THEN @ - 1 ELSE @],
                         cmd)
       \/ Ended(c) /\ Goto(c, "leaving") /\ UNCHANGED client
    /\ UNCHANGED <<known, pluginVars, processVars>>

\* What the core holds after a command it may have refused.
Applied(c, ok) ==
    known' = CASE conn[c].cmd = "prepare" /\ ok -> [known EXCEPT ![c] = @ + 1]
               [] conn[c].cmd = "close" /\ ok -> [known EXCEPT ![c] = @ - 1]
               [] OTHER -> known

\* The core answers.  A statement over the limit is refused here and stays there.
Answer(c) ==
    /\ At(c, "handling") /\ process = "serving"
    /\ \E ok \in BOOLEAN, pc \in Written(c, "ready") :
          /\ Applied(c, ok)
          /\ Becomes(c, [conn[c] EXCEPT
                !.pc = pc, !.cmd = "none",
                !.statements = IF conn[c].cmd = "prepare" /\ ok /\ @ < MaxStatements
                               THEN @ + 1 ELSE @])
    /\ Answered(c, conn[c].cmd)
    /\ UNCHANGED <<pluginVars, processVars>>

\* Nobody waits for the answer any more: the call ends with the context or the daemon.
GiveUp(c) ==
    /\ At(c, "handling")
    /\ conn[c].cancelled \/ process = "orphaned"
    /\ Becomes(c, [conn[c] EXCEPT !.pc = "ready", !.cmd = "none"])
    /\ Answered(c, conn[c].cmd)
    /\ UNCHANGED <<known, pluginVars, processVars>>

-------------------------------------------------------------------------------
(* serve: its deferred calls.                                               *)

\* Mutant: a connection that was not opened is not closed.
Leave_OnlyOpened(c) ==
    /\ At(c, "leaving")
    /\ Becomes(c, [EndWire(conn[c], "closed") EXCEPT
                      !.pc = IF conn[c].commandPhase THEN "closing" ELSE "ending"])
    /\ UNCHANGED <<client, known, pluginVars, processVars>>

\* The connection is closed and connection.close dispatched, for at most a second.
Leave(c) ==
    /\ At(c, "leaving")
    /\ Becomes(c, [EndWire(conn[c], "closed") EXCEPT !.pc = "closing"])
    /\ UNCHANGED <<client, known, pluginVars, processVars>>

\* What the core still holds if it did not answer in time, nobody can ask for.
CloseReturns(c) ==
    /\ At(c, "closing")
    /\ Goto(c, "ending")
    /\ known' = [known EXCEPT ![c] = 0]
    /\ UNCHANGED <<client, pluginVars, processVars>>

\* Nothing of the connection is left in the plugin.
End(c) ==
    /\ At(c, "ending")
    /\ Becomes(c, [NoConnection EXCEPT !.pc = "over", !.wire = "closed"])
    /\ client' = [client EXCEPT ![c] = [Nobody EXCEPT !.state = "left"]]
    /\ conns' = conns \ {c} /\ wg' = wg - 1
    /\ UNCHANGED <<known, listener, loop, processVars>>

-------------------------------------------------------------------------------
(* Stop, and the end of the process.                                        *)

\* The daemon stops the plugin, or serve() does when the daemon is gone.
Stop ==
    /\ stopper = "none"
    /\ \/ process = "serving" /\ listener = "open" /\ stopper' = "daemon"
       \/ process = "orphaned" /\ stopper' = "serve"
    /\ listener' = "closed"
    /\ conn' = [c \in Conns |-> IF c \in conns THEN [conn[c] EXCEPT !.cut = TRUE]
                                ELSE conn[c]]
    /\ UNCHANGED <<client, known, loop, conns, wg, halted, process>>

\* Nobody is left, or the time is over.
StopReturns ==
    /\ stopper # "none"
    /\ halted' = (halted \/ wg = 0)
    /\ process' = IF stopper = "serve" THEN "exited" ELSE process
    /\ stopper' = "none"
    /\ UNCHANGED <<connVars, pluginVars>>

DaemonGone ==
    /\ process = "serving"
    /\ process' = "orphaned"
    /\ UNCHANGED <<connVars, pluginVars, stopper, halted>>

-------------------------------------------------------------------------------
Serve(c) ==
    \/ Begin(c) \/ Handshake(c) \/ Authenticate(c) \/ ClearDeadline(c)
    \/ (conn[c].cancelled \/ process = "orphaned") /\ HandshakeFails(c)
    \/ Loop(c) \/ Read(c) \/ GiveUp(c)
    \/ Leave(c) \/ CloseReturns(c) \/ End(c)

Pump(c) == PumpEnds(c) \/ PumpFrame(c) \/ DeadlinePasses(c)

Core(c) == Selected(c) \/ Opened(c) \/ HandshakeFails(c) \/ Answer(c)

Application(c) ==
    \/ Connect(c) \/ SendAuth(c) \/ Disconnect(c)
    \/ \E cmd \in Commands[c] : SendCommand(c, cmd)

Next ==
    /\ process # "exited"
    /\ \/ \E c \in Conns :
             Application(c) \/ Accept(c) \/ Admit(c) \/ Pump(c) \/ Serve(c) \/ Core(c)
       \/ Start \/ AcceptFails \/ Stop \/ StopReturns \/ DaemonGone

Spec == Init /\ [][Next]_vars

(* Fairness: the goroutines of a connection run, the deadline of a handshake *)
(* passes, the dispatch of connection.close ends within its second, and so    *)
(* does the Stop of a process without daemon.  A connection takes finitely    *)
(* many steps, so that fairness of all of them together is enough.  Neither   *)
(* the application nor the core has to do anything.                           *)
Fairness ==
    /\ \A c \in Conns : WF_vars(process # "exited" /\ (Admit(c) \/ Serve(c) \/ Pump(c)))
    /\ WF_vars(process # "exited" /\ AcceptFails)
    /\ WF_vars(process = "orphaned" /\ (Stop \/ StopReturns))

FairSpec == Spec /\ Fairness

-------------------------------------------------------------------------------
(* Properties.                                                              *)

\* Every variable has its type, and the table, the wait group and the goroutines
\* agree: as many are counted as run, and never more than the limits allow.
TypeOK ==
    /\ \A c \in Conns :
          /\ client[c] \in Client /\ client[c].sent <= MaxCommands[c]
          /\ conn[c] \in Connection /\ Len(conn[c].frames) <= QueueSize
    /\ known \in [Conns -> Nat]
    /\ listener \in {"none", "open", "closed"}
    /\ loop \in {"off", "waiting", "admitting", "ended"}
    /\ conns = {c \in Conns : conn[c].pc \notin {"none", "refused", "accepted", "over"}}
    /\ Cardinality(conns) <= MaxConns
    /\ wg = Cardinality(conns) + (IF loop \in {"waiting", "admitting"} THEN 1 ELSE 0)
    /\ stopper \in {"none", "daemon", "serve"} /\ halted \in BOOLEAN
    /\ process \in {"serving", "orphaned", "exited"}

\* After a Stop that succeeded, nothing of the plugin is left and nothing starts: no
\* connection that was just accepted, no request on its way, no accept loop.
StopLeavesNothing ==
    halted => /\ loop \in {"off", "ended"} /\ conns = {}
              /\ \A c \in Conns : conn[c].pc \in {"none", "refused", "over"}

\* A client that waits for its answers is not cut off, however slow the core and the
\* agent are, except by Stop, a handshake that takes too long, or its own quit.
PatientClientsStay ==
    [][\A c \in Patient :
          Open(c) /\ conn'[c].wire # "open" /\ client[c].state # "left" =>
             \/ conn'[c].wire = "eof" /\ listener = "closed"
             \/ conn'[c].wire = "timeout" /\ (~conn[c].commandPhase \/ At(c, "greeted"))
             \/ conn'[c].wire = "closed" /\ (~conn[c].commandPhase \/ conn'[c].cmd = "quit")]_vars

\* Its client has not logged in or has gone, the plugin stops, or the wire has ended.
MustEnd(c) ==
    \/ conn[c].pc \in {"handshake", "selecting", "selected", "opening"}
    \/ Open(c) /\ (client[c].state = "left" \/ listener = "closed")
    \/ Ended(c) /\ ~At(c, "over")

\* A connection ends when its client has gone or the plugin stops, even if its query
\* waits for an agent that never answers; and a client that does not log in does not
\* keep its place.
ConnectionsEnd == \A c \in Conns : []<>(process = "exited" \/ ~MustEnd(c))

(* The refinement: what the core sees of a connection.                      *)
StageOf ==
    [none |-> "new", refused |-> "new", accepted |-> "new", starting |-> "new",
     handshake |-> "new", selecting |-> "selecting", selected |-> "selected",
     opening |-> "opening", greeted |-> "open", ready |-> "open", reading |-> "open",
     handling |-> "busy", leaving |-> "open", closing |-> "closing",
     ending |-> "closed", over |-> "closed"]

\* Nothing will be asked for the connection any more.
HungUp(c) ==
    \/ At(c, "leaving") /\ ~conn[c].commandPhase
    \/ Ended(c) /\ conn[c].pc \in {"handshake", "selected", "greeted", "ready",
                                  "reading", "leaving"}

Promise == INSTANCE WireConnection WITH
    stage <- [c \in Conns |-> IF HungUp(c) THEN "shut" ELSE StageOf[conn[c].pc]],
    asked <- [c \in Conns |-> IF conn[c].pc \in {"selecting", "handling"}
                             THEN conn[c].cmd ELSE "nothing"],
    prepared <- known

\* The plugin keeps the order of requests the core relies on, while frames, the end of
\* the client, the end of the daemon and Stop arrive in any order.
ImplementsConnection == Promise!Spec
===============================================================================
