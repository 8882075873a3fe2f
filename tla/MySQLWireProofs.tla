---------------------------- MODULE MySQLWireProofs ----------------------------
(***************************************************************************)
(* Theorems about MySQLWire, for every number of connections and commands  *)
(* and all limits: the table and the wait group, Stop, who may be cut off, *)
(* and the order in which the core is asked (WireConnection).              *)
(***************************************************************************)
EXTENDS MySQLWire, FiniteSetTheorems, TLAPS

-------------------------------------------------------------------------------
(* The inductive invariant, first what is said of one connection.           *)

Types ==
    /\ client \in [Conns -> Client] /\ conn \in [Conns -> Connection]
    /\ known \in [Conns -> Nat]
    /\ listener \in {"none", "open", "closed"}
    /\ loop \in {"off", "waiting", "admitting", "ended"}
    /\ stopper \in {"none", "daemon", "serve"} /\ halted \in BOOLEAN
    /\ process \in {"serving", "orphaned", "exited"}

Bounded(c) ==
    /\ client[c].sent <= MaxCommands[c] /\ Len(conn[c].frames) <= QueueSize
    /\ c \in Patient => client[c].owed <= QueueSize

Outside == {"none", "refused", "accepted", "starting"}
Session == {"greeted", "ready", "reading", "handling"}
After == {"closing", "ending", "over"}

\* Where serve is, and what that says of its wire, its context and its phase.
Phases(c) ==
    LET k == conn[c]
    IN  /\ k.wire = "none" <=> k.pc \in Outside
        /\ k.pc # "over" => (k.cancelled <=> Ended(c))
        /\ k.pc \in After => Ended(c)
        /\ k.pc \in Session => k.commandPhase
        /\ k.commandPhase => k.pc \in Session \cup {"leaving"} \cup After
        /\ k.pc \in Outside =>
              /\ k.net = <<>> /\ k.frames = <<>>
              /\ client[c].state \in {"new", "connected"}
              /\ k.pc # "none" => client[c].state = "connected"

\* The core holds the handler's statements, and the one that is about to be closed.
Held(c) ==
    conn[c].pc \notin {"ending", "over"} =>
        conn[c].statements + (IF At(c, "handling") /\ conn[c].cmd = "close" THEN 1 ELSE 0)
            <= known[c]

\* Only Stop closes a socket from outside of its goroutines.
CutByStop(c) == conn[c].cut => listener = "closed"

\* A command of a patient client with another one behind it is a close, and they are no
\* more than the client thinks are unanswered.
Unanswered(c) ==
    LET k == conn[c]
    IN  /\ Len(k.net) + Len(k.frames) <= client[c].owed /\ client[c].owed <= QueueSize
        /\ \A i \in 1..Len(k.net) :
              i < Len(k.net) \/ ~client[c].asking => k.net[i] = "close"
        /\ \A i \in 1..Len(k.frames) :
              i < Len(k.frames) \/ k.net # <<>> \/ ~client[c].asking => k.frames[i] = "close"
        /\ k.pc = "handling" /\ (k.frames # <<>> \/ k.net # <<>> \/ ~client[c].asking) =>
              k.cmd = "close"

\* A patient client that is still there.
Waits(c) == c \in Patient /\ Open(c) /\ client[c].state # "left"

Patience(c) ==
    Waits(c) =>
        LET k == conn[c]
        IN  /\ client[c].state # "new"
            /\ client[c].state = "connected" => k.net = <<>> /\ k.frames = <<>>
            /\ client[c].state = "authenticating" =>
                  Len(k.net) + Len(k.frames) <= IF k.pc = "handshake" THEN 1 ELSE 0
            /\ client[c].state = "greeted" => k.commandPhase /\ Unanswered(c)
            /\ \A i \in 1..Len(k.net) : k.net[i] # "bad"
            /\ k.pc = "leaving" => ~k.commandPhase
            /\ k.deadline /\ k.commandPhase => k.pc = "greeted"

ConnInv(c) == Bounded(c) /\ Phases(c) /\ Held(c) /\ CutByStop(c) /\ Patience(c)

\* The table, the wait group, the accept loop and Stop.
Counted == {c \in Conns : conn[c].pc \notin {"none", "refused", "accepted", "over"}}

TableInv ==
    /\ conns = Counted /\ IsFiniteSet(conns)
    /\ Cardinality(conns) <= MaxConns
    /\ wg = Cardinality(conns) + (IF loop \in {"waiting", "admitting"} THEN 1 ELSE 0)
    /\ listener = "none" => loop = "off"
    /\ loop = "off" => conns = {}
    /\ \A c \in Conns : At(c, "accepted") => loop = "admitting"
    /\ \A c, d \in Conns : At(c, "accepted") /\ At(d, "accepted") => c = d

StopInv ==
    /\ stopper # "none" \/ halted => listener = "closed"
    /\ halted => loop \in {"off", "ended"} /\ conns = {}

Inv == Types /\ (\A c \in Conns : ConnInv(c)) /\ TableInv /\ StopInv

LEMMA NothingYet == Nobody \in Client /\ NoConnection \in Connection
BY WireAssumption DEF Nobody, Client, NoConnection, Connection, Pcs, Ends, Dispatched, Frames

LEMMA InitInv == Init => Inv
<1> SUFFICES ASSUME Init PROVE Inv
  OBVIOUS
<1>1. Nobody \in Client /\ NoConnection \in Connection
  BY NothingYet
<1>2. Types
  BY <1>1 DEF Init, Types
<1>3. \A c \in Conns : ConnInv(c)
  BY WireAssumption DEF Init, ConnInv, Bounded, Phases, Held, CutByStop, Patience, Waits,
     Nobody, NoConnection, Outside, Session, After, At, Open, Ended, Ends
<1>4. TableInv
  <2>1. Counted = {}
    BY DEF Init, Counted, NoConnection
  <2> QED BY <2>1, FS_EmptySet, WireAssumption DEF Init, TableInv, NoConnection, At
<1>5. StopInv
  BY DEF Init, StopInv
<1> QED BY <1>2, <1>3, <1>4, <1>5 DEF Inv

-------------------------------------------------------------------------------
(* How a step of one connection is lifted to all of them.                   *)

\* Only connection c is touched.
Only(c) ==
    \A d \in Conns \ {c} :
        client'[d] = client[d] /\ conn'[d] = conn[d] /\ known'[d] = known[d]

LEMMA BecomesOnly ==
    ASSUME Types, NEW c \in Conns, NEW k, Becomes(c, k)
    PROVE  conn'[c] = k /\ \A d \in Conns \ {c} : conn'[d] = conn[d]
BY DEF Types, Becomes

LEMMA OthersKeep ==
    ASSUME Types, NEW c \in Conns, \A d \in Conns : ConnInv(d), ConnInv(c)', Only(c),
           listener = "closed" => listener' = "closed"
    PROVE  \A d \in Conns : ConnInv(d)'
<1> SUFFICES ASSUME NEW d \in Conns \ {c} PROVE ConnInv(d)'
  OBVIOUS
<1>1. client'[d] = client[d] /\ conn'[d] = conn[d] /\ known'[d] = known[d] /\ ConnInv(d)
  BY DEF Only
<1>2. Bounded(d)' /\ Phases(d)' /\ Held(d)' /\ CutByStop(d)'
  BY <1>1 DEF ConnInv, Bounded, Phases, Held, CutByStop, At, Ended
<1>3. Unanswered(d) => Unanswered(d)'
  BY <1>1 DEF Unanswered
<1>4. Patience(d)'
  BY <1>1, <1>3 DEF ConnInv, Patience, Waits, Open
<1> QED BY <1>2, <1>4 DEF ConnInv

\* The pcs of connections that are in the table.
Inner == Pcs \ {"none", "refused", "accepted", "over"}

LEMMA TableKept ==
    ASSUME Types, TableInv, UNCHANGED pluginVars, conn' \in [Conns -> Connection],
           \A d \in Conns : \/ conn'[d].pc = conn[d].pc
                            \/ conn[d].pc \in Inner /\ conn'[d].pc \in Inner
    PROVE  TableInv'
<1>1. Counted' = Counted
  BY DEF Counted, Inner, pluginVars
<1>2. \A d \in Conns : At(d, "accepted")' <=> At(d, "accepted")
  BY DEF At, Inner
<1> QED BY <1>1, <1>2 DEF TableInv, pluginVars

\* A step of connection c that leaves the plugin's variables alone.
Stays(c) == conn'[c].pc = conn[c].pc \/ (conn[c].pc \in Inner /\ conn'[c].pc \in Inner)

LEMMA LocalStep ==
    ASSUME Inv, NEW c \in Conns, Only(c), UNCHANGED <<pluginVars, processVars>>,
           client' \in [Conns -> Client], conn' \in [Conns -> Connection],
           known' \in [Conns -> Nat], Stays(c), ConnInv(c)'
    PROVE  Inv'
<1>1. Types'
  BY DEF Inv, Types, pluginVars, processVars
<1>2. \A d \in Conns : ConnInv(d)'
  BY OthersKeep DEF Inv, pluginVars
<1>3. TableInv'
  BY TableKept DEF Inv, Stays, Only, pluginVars
<1>4. StopInv'
  BY DEF Inv, StopInv, pluginVars, processVars
<1> QED BY <1>1, <1>2, <1>3, <1>4 DEF Inv

-------------------------------------------------------------------------------
(* Queues: what Append and Tail do to positions.                            *)

LEMMA AppendAt ==
    ASSUME NEW S, NEW s \in Seq(S), NEW e \in S, NEW t, t = Append(s, e)
    PROVE  /\ t \in Seq(S) /\ t # <<>> /\ Len(t) \in Nat /\ Len(s) \in Nat
           /\ Len(t) = Len(s) + 1
           /\ \A i \in 1..Len(t) :
                 \/ i \in 1..Len(s) /\ i < Len(t) /\ t[i] = s[i]
                 \/ i = Len(t) /\ t[i] = e
<1>1. /\ t \in Seq(S) /\ Len(t) \in Nat /\ Len(s) \in Nat /\ Len(t) = Len(s) + 1
      /\ t[Len(s) + 1] = e /\ \A i \in 1..Len(s) : t[i] = s[i]
  OBVIOUS
<1>2. t # <<>>
  BY <1>1
<1>3. ASSUME NEW i \in 1..Len(t)
      PROVE  (i \in 1..Len(s) /\ i < Len(t) /\ t[i] = s[i]) \/ (i = Len(t) /\ t[i] = e)
  BY <1>1
<1> QED BY <1>1, <1>2, <1>3

LEMMA TailAt ==
    ASSUME NEW S, NEW s \in Seq(S), s # <<>>, NEW t, t = Tail(s)
    PROVE  /\ t \in Seq(S) /\ Head(s) \in S /\ Len(t) \in Nat /\ Len(s) \in Nat
           /\ Len(t) + 1 = Len(s) /\ Head(s) = s[1] /\ 1 \in 1..Len(s)
           /\ \A i \in 1..Len(t) : i + 1 \in 1..Len(s) /\ t[i] = s[i + 1]
OBVIOUS

-------------------------------------------------------------------------------
(* The application.                                                         *)

LEMMA FrameTypes ==
    ASSUME NEW c \in Conns
    PROVE  Commands[c] \subseteq Frames /\ "auth" \in Frames
           /\ MaxCommands[c] \in Nat /\ (c \in Patient => "bad" \notin Commands[c])
BY WireAssumption DEF Frames

\* A client sends one more command.
LEMMA ClientUpdate ==
    ASSUME NEW cl \in Client, NEW b \in BOOLEAN
    PROVE  LET new == [cl EXCEPT !.sent = @ + 1, !.owed = @ + 1, !.asking = b]
           IN  /\ new \in Client /\ new.state = cl.state
               /\ new.sent = cl.sent + 1 /\ new.owed = cl.owed + 1 /\ new.asking = b
<1>1. ASSUME NEW s \in Nat, NEW o \in Nat
      PROVE  LET new == [cl EXCEPT !.sent = s, !.owed = o, !.asking = b]
             IN  /\ new \in Client /\ new.state = cl.state
                 /\ new.sent = s /\ new.owed = o /\ new.asking = b
  BY DEF Client
<1>2. cl.sent + 1 \in Nat /\ cl.owed + 1 \in Nat
  BY DEF Client
<1> QED BY <1>1, <1>2, Zenon

LEMMA OneMore ==
    ASSUME NEW a \in Nat, NEW b \in Nat, NEW o \in Nat, a + b <= o,
           NEW a1, NEW b1, NEW o1, a1 = a + 1, b1 = b, o1 = o + 1
    PROVE  a1 + b1 <= o1
OBVIOUS

LEMMA ApplicationStep ==
    ASSUME Inv, NEW c \in Conns, Application(c)
    PROVE  Inv'
<1>0. client[c] \in Client /\ conn[c] \in Connection /\ known[c] \in Nat /\ ConnInv(c)
  BY DEF Inv, Types
<1>1. CASE Connect(c)
  <2>1. client' = [client EXCEPT ![c].state = "connected"] /\ client[c].state = "new"
        /\ UNCHANGED <<conn, known, pluginVars, processVars>>
    BY <1>1 DEF Connect
  <2>2. client' \in [Conns -> Client] /\ client'[c] = [client[c] EXCEPT !.state = "connected"]
        /\ Only(c)
    BY <1>0, <2>1 DEF Inv, Types, Only, Client
  <2>3. ConnInv(c)'
    <3>1. conn[c].wire = "none" \/ ~Waits(c)
      BY <1>0, <2>1 DEF ConnInv, Patience
    <3> QED BY <1>0, <2>1, <2>2, <3>1 DEF ConnInv, Bounded, Phases, Held, CutByStop, Patience, Waits,
           Client, Open, At, Ended, pluginVars
  <2> QED BY <2>1, <2>2, <2>3, LocalStep DEF Stays, Inv, Types
<1>2. CASE SendAuth(c)
  <2> DEFINE k == [conn[c] EXCEPT !.net = Append(@, "auth")]
  <2>1. /\ client' = [client EXCEPT ![c].state = "authenticating"]
        /\ client[c].state = "connected" /\ At(c, "handshake") /\ Open(c)
        /\ conn' = [conn EXCEPT ![c] = k]
        /\ UNCHANGED <<known, pluginVars, processVars>>
    BY <1>2 DEF SendAuth, Sends, Becomes
  <2>2. k \in Connection
    <3>1. Append(conn[c].net, "auth") \in Seq(Frames)
      BY <1>0, FrameTypes DEF Connection
    <3> QED BY <1>0, <3>1 DEF Connection
  <2>3. client' \in [Conns -> Client] /\ conn' \in [Conns -> Connection] /\ Only(c)
        /\ client'[c] = [client[c] EXCEPT !.state = "authenticating"] /\ conn'[c] = k
    BY <1>0, <2>1, <2>2 DEF Inv, Types, Only, Client
  <2>4. Bounded(c)' /\ Phases(c)' /\ Held(c)' /\ CutByStop(c)'
    BY <1>0, <2>1, <2>3 DEF ConnInv, Bounded, Phases, Held, CutByStop, Client, Connection,
       At, Ended, Outside, pluginVars
  <2>5. Patience(c)'
    BY <1>0, <2>1, <2>3 DEF ConnInv, Patience, Waits, Client, Connection, At, Open
  <2>6. ConnInv(c)' /\ Stays(c)
    BY <2>3, <2>4, <2>5 DEF ConnInv, Stays
  <2> QED BY <2>1, <2>3, <2>6, LocalStep DEF Inv, Types
<1>3. ASSUME NEW cmd \in Commands[c], SendCommand(c, cmd)
      PROVE  Inv'
  <2> DEFINE k == [conn[c] EXCEPT !.net = Append(@, cmd)]
             cl == [client[c] EXCEPT !.sent = @ + 1, !.owed = @ + 1, !.asking = cmd # "close"]
  <2>1. /\ client' = [client EXCEPT ![c] = cl]
        /\ client[c].state = "greeted" /\ Open(c) /\ client[c].sent < MaxCommands[c]
        /\ c \in Patient => ~client[c].asking /\ client[c].owed < QueueSize
        /\ conn' = [conn EXCEPT ![c] = k]
        /\ UNCHANGED <<known, pluginVars, processVars>>
    BY <1>3 DEF SendCommand, Sends, Becomes
  <2>2. /\ k \in Connection /\ k.net = Append(conn[c].net, cmd)
        /\ k.frames = conn[c].frames /\ k.pc = conn[c].pc /\ k.wire = conn[c].wire
        /\ k.cmd = conn[c].cmd /\ k.commandPhase = conn[c].commandPhase
        /\ k.cancelled = conn[c].cancelled /\ k.cut = conn[c].cut
        /\ k.deadline = conn[c].deadline /\ k.statements = conn[c].statements
    <3>1. Append(conn[c].net, cmd) \in Seq(Frames)
      BY <1>0, FrameTypes DEF Connection
    <3> QED BY <1>0, <3>1 DEF Connection
  <2>3. /\ cl \in Client /\ cl.state = client[c].state /\ cl.sent = client[c].sent + 1
        /\ cl.owed = client[c].owed + 1 /\ cl.asking = (cmd # "close")
    BY <1>0, ClientUpdate
  <2> HIDE DEF k, cl
  <2>4. client' \in [Conns -> Client] /\ conn' \in [Conns -> Connection] /\ Only(c)
        /\ client'[c] = cl /\ conn'[c] = k
    BY <1>0, <2>1, <2>2, <2>3 DEF Inv, Types, Only
  <2>5. Bounded(c)' /\ Phases(c)' /\ Held(c)' /\ CutByStop(c)'
    <3>1. cl.sent <= MaxCommands[c]
      <4>1. client[c].sent \in Nat /\ MaxCommands[c] \in Nat
        BY <1>0, FrameTypes DEF Client
      <4> QED BY <2>1, <2>3, <4>1
    <3>2. c \in Patient => cl.owed <= QueueSize
      <4>1. client[c].owed \in Nat /\ QueueSize \in Nat
        BY <1>0, WireAssumption DEF Client
      <4> QED BY <2>1, <2>3, <4>1
    <3>3. Bounded(c)'
      BY <1>0, <2>2, <2>4, <3>1, <3>2 DEF ConnInv, Bounded
    <3>4. Phases(c)' /\ Held(c)' /\ CutByStop(c)'
      BY <1>0, <2>1, <2>2, <2>3, <2>4 DEF ConnInv, Phases, Held, CutByStop,
         At, Ended, Open, Outside, pluginVars
    <3> QED BY <3>3, <3>4
  <2>6. ASSUME Waits(c)'
        PROVE  Patience(c)'
    <3>1. Waits(c) /\ Unanswered(c) /\ ~client[c].asking /\ client[c].owed < QueueSize
      BY <1>0, <2>1, <2>6 DEF ConnInv, Patience, Waits
    <3>2. /\ conn[c].net \in Seq(Frames) /\ conn[c].frames \in Seq(Frames)
          /\ client[c].owed \in Nat /\ QueueSize \in Nat
      BY <1>0, WireAssumption DEF Client, Connection
    <3>3. /\ Len(k.net) = Len(conn[c].net) + 1 /\ k.net # <<>> /\ Len(k.net) \in Nat
          /\ \A i \in 1..Len(k.net) :
                \/ i \in 1..Len(conn[c].net) /\ i < Len(k.net) /\ k.net[i] = conn[c].net[i]
                \/ i = Len(k.net) /\ k.net[i] = cmd
      <4>1. cmd \in Frames
        BY FrameTypes
      <4> QED BY <2>2, <3>2, <4>1, AppendAt
    <3>4. \A i \in 1..Len(k.net) : i < Len(k.net) \/ ~cl.asking => k.net[i] = "close"
      <4>1. cl.asking \/ cmd = "close"
        BY <2>3
      <4> QED BY <3>1, <3>3, <4>1 DEF Unanswered
    <3>5. Unanswered(c)'
      <4>1. Len(k.net) + Len(k.frames) <= cl.owed /\ cl.owed <= QueueSize
        <5>1. /\ Len(conn[c].net) \in Nat /\ Len(conn[c].frames) \in Nat
              /\ client[c].owed \in Nat /\ QueueSize \in Nat
          BY <3>2
        <5>2. Len(conn[c].net) + Len(conn[c].frames) <= client[c].owed
          BY <3>1 DEF Unanswered
        <5>3. cl.owed = client[c].owed + 1 /\ Len(k.frames) = Len(conn[c].frames)
          BY <2>2, <2>3
        <5>4. Len(k.net) = Len(conn[c].net) + 1 /\ client[c].owed < QueueSize
          BY <3>1, <3>3
        <5>5. cl.owed <= QueueSize
          BY <5>1, <5>3, <5>4
        <5>6. Len(k.net) + Len(k.frames) <= cl.owed
          BY <5>1, <5>2, <5>3, <5>4, OneMore
        <5> QED BY <5>5, <5>6
      <4>2. \A i \in 1..Len(k.frames) : k.frames[i] = "close"
        BY <2>2, <3>1 DEF Unanswered
      <4>3. k.pc = "handling" => k.cmd = "close"
        BY <2>2, <3>1 DEF Unanswered
      <4> QED BY <2>4, <3>4, <4>1, <4>2, <4>3 DEF Unanswered
    <3>6. \A i \in 1..Len(k.net) : k.net[i] # "bad"
      BY <1>0, <3>1, <3>2, <3>3, FrameTypes DEF ConnInv, Patience, Waits
    <3> QED BY <1>0, <2>1, <2>2, <2>3, <2>4, <3>1, <3>5, <3>6 DEF ConnInv, Patience, Waits
  <2>7. ConnInv(c)' /\ Stays(c)
    BY <2>2, <2>4, <2>5, <2>6 DEF ConnInv, Stays, Patience
  <2> QED BY <2>1, <2>4, <2>7, LocalStep DEF Inv, Types
<1>4. CASE Disconnect(c)
  <2>1. client' = [client EXCEPT ![c].state = "left"] /\ Open(c)
        /\ UNCHANGED <<conn, known, pluginVars, processVars>>
    BY <1>4 DEF Disconnect
  <2>2. client' \in [Conns -> Client] /\ client'[c] = [client[c] EXCEPT !.state = "left"]
        /\ Only(c)
    BY <1>0, <2>1 DEF Inv, Types, Only, Client
  <2>3. ConnInv(c)'
    BY <1>0, <2>1, <2>2 DEF ConnInv, Bounded, Phases, Held, CutByStop, Patience, Waits,
       Client, Open, At, Ended, pluginVars
  <2> QED BY <2>1, <2>2, <2>3, LocalStep DEF Stays, Inv, Types
<1> QED BY <1>1, <1>2, <1>3, <1>4 DEF Application

-------------------------------------------------------------------------------
(* The pump.                                                                *)

LEMMA EndWireIs ==
    ASSUME NEW k \in Connection, NEW why \in Ends
    PROVE  LET e == EndWire(k, why)
           IN  /\ e \in Connection
               /\ e.pc = k.pc /\ e.deadline = k.deadline /\ e.commandPhase = k.commandPhase
               /\ e.cut = k.cut /\ e.frames = k.frames /\ e.cmd = k.cmd
               /\ e.statements = k.statements
               /\ k.wire = "open" => e.wire = why /\ e.cancelled /\ e.net = <<>>
               /\ k.wire # "open" => e = k
<1>1. CASE k.wire = "open"
  <2> DEFINE e == [k EXCEPT !.wire = why, !.net = <<>>, !.cancelled = TRUE]
  <2>1. /\ e \in Connection
        /\ e.pc = k.pc /\ e.deadline = k.deadline /\ e.commandPhase = k.commandPhase
        /\ e.cut = k.cut /\ e.frames = k.frames /\ e.cmd = k.cmd
        /\ e.statements = k.statements /\ e.wire = why /\ e.cancelled /\ e.net = <<>>
    <3>1. <<>> \in Seq(Frames)
      OBVIOUS
    <3> QED BY <3>1 DEF Connection
  <2> HIDE DEF e
  <2>2. EndWire(k, why) = e
    BY <1>1 DEF EndWire, e
  <2> QED BY <1>1, <2>1, <2>2
<1>2. CASE k.wire # "open"
  BY <1>2 DEF EndWire
<1> QED BY <1>1, <1>2

\* What an action may use of the state it starts in.
LEMMA Here ==
    ASSUME Inv, NEW c \in Conns
    PROVE  /\ client[c] \in Client /\ conn[c] \in Connection /\ known[c] \in Nat
           /\ ConnInv(c) /\ Types
BY DEF Inv, Types

\* Connection c gets a new record, and nothing else changes.
LEMMA RecordStep ==
    ASSUME Inv, NEW c \in Conns, NEW k \in Connection, Becomes(c, k),
           UNCHANGED <<client, known, pluginVars, processVars>>,
           k.pc = conn[c].pc \/ (conn[c].pc \in Inner /\ k.pc \in Inner),
           ConnInv(c)'
    PROVE  Inv'
<1>1. conn'[c] = k /\ \A d \in Conns \ {c} : conn'[d] = conn[d]
  BY Here, BecomesOnly
<1>2. conn' \in [Conns -> Connection]
  BY DEF Inv, Types, Becomes
<1>3. Only(c) /\ Stays(c)
  BY <1>1 DEF Only, Stays
<1> QED BY <1>2, <1>3, LocalStep DEF Inv, Types

LEMMA PumpEndsStep ==
    ASSUME Inv, NEW c \in Conns, NEW why \in Ends, Open(c), NEW k \in Connection,
           \/ k = conn[c]
           \/ k = [conn[c] EXCEPT !.net = Tail(@)],
           Becomes(c, EndWire(k, why)), UNCHANGED <<client, known, pluginVars, processVars>>
    PROVE  Inv'
<1>1. client[c] \in Client /\ conn[c] \in Connection /\ known[c] \in Nat /\ ConnInv(c)
  BY Here
<1>2. /\ k.pc = conn[c].pc /\ k.deadline = conn[c].deadline /\ k.cut = conn[c].cut
      /\ k.commandPhase = conn[c].commandPhase /\ k.frames = conn[c].frames
      /\ k.cmd = conn[c].cmd /\ k.statements = conn[c].statements /\ k.wire = "open"
  BY <1>1 DEF Open, Connection
<1> DEFINE e == EndWire(k, why)
<1>3. /\ e \in Connection
      /\ e.pc = conn[c].pc /\ e.commandPhase = conn[c].commandPhase
      /\ e.cut = conn[c].cut /\ e.frames = conn[c].frames /\ e.cmd = conn[c].cmd
      /\ e.statements = conn[c].statements /\ e.wire = why /\ e.cancelled
  BY <1>2, EndWireIs
<1>4. conn'[c] = e
  BY Here, BecomesOnly
<1> HIDE DEF e
<1>5. Bounded(c)' /\ Held(c)' /\ CutByStop(c)'
  BY <1>1, <1>3, <1>4 DEF ConnInv, Bounded, Held, CutByStop, At, pluginVars
<1>6. Phases(c)'
  BY <1>1, <1>3, <1>4 DEF ConnInv, Phases, Ended, Open, Ends, Outside
<1>7. Patience(c)'
  BY <1>3, <1>4 DEF Patience, Waits, Open, Ends
<1>8. ConnInv(c)'
  BY <1>5, <1>6, <1>7 DEF ConnInv
<1> QED BY <1>3, <1>8, RecordStep DEF e

LEMMA SameSum ==
    ASSUME NEW a \in Nat, NEW b \in Nat, NEW a1 \in Nat, NEW b1 \in Nat,
           a1 + 1 = a, b1 = b + 1
    PROVE  a1 + b1 = a + b
OBVIOUS

LEMMA PumpQueues ==
    ASSUME Inv, NEW c \in Conns, Open(c), conn[c].net # <<>>,
           Len(conn[c].frames) < QueueSize,
           conn[c].commandPhase => Head(conn[c].net) # "bad",
           Becomes(c, [conn[c] EXCEPT !.net = Tail(@),
                                      !.frames = Append(@, Head(conn[c].net))]),
           UNCHANGED <<client, known, pluginVars, processVars>>
    PROVE  Inv'
<1> DEFINE net == conn[c].net
           frames == conn[c].frames
           rest == Tail(net)
           more == Append(frames, Head(net))
           k == [conn[c] EXCEPT !.net = rest, !.frames = more]
<1>1. client[c] \in Client /\ conn[c] \in Connection /\ known[c] \in Nat /\ ConnInv(c)
  BY Here
<1>2. net \in Seq(Frames) /\ frames \in Seq(Frames) /\ client[c].owed \in Nat
      /\ QueueSize \in Nat
  BY <1>1, WireAssumption DEF Connection, Client
<1>3. /\ rest \in Seq(Frames) /\ Head(net) \in Frames /\ Len(rest) \in Nat /\ Len(net) \in Nat
      /\ Len(rest) + 1 = Len(net) /\ Head(net) = net[1] /\ 1 \in 1..Len(net)
      /\ \A i \in 1..Len(rest) : i + 1 \in 1..Len(net) /\ rest[i] = net[i + 1]
  BY <1>2, TailAt
<1>4. /\ more \in Seq(Frames) /\ Len(more) \in Nat /\ Len(frames) \in Nat
      /\ Len(more) = Len(frames) + 1
      /\ \A i \in 1..Len(more) :
            \/ i \in 1..Len(frames) /\ i < Len(more) /\ more[i] = frames[i]
            \/ i = Len(more) /\ more[i] = Head(net)
  BY <1>2, <1>3, AppendAt
<1> HIDE DEF rest, more
<1>5. /\ k \in Connection /\ k.net = rest /\ k.frames = more /\ k.pc = conn[c].pc
      /\ k.wire = "open" /\ k.cmd = conn[c].cmd /\ k.commandPhase = conn[c].commandPhase
      /\ k.cancelled = conn[c].cancelled /\ k.cut = conn[c].cut
      /\ k.deadline = conn[c].deadline /\ k.statements = conn[c].statements
  BY <1>1, <1>3, <1>4 DEF Connection, Open
<1>6. conn'[c] = k
  BY Here, BecomesOnly DEF rest, more
<1> HIDE DEF k
<1>7. Bounded(c)' /\ Held(c)' /\ CutByStop(c)'
  BY <1>1, <1>2, <1>4, <1>5, <1>6 DEF ConnInv, Bounded, Held, CutByStop, At, pluginVars
<1>8. Phases(c)'
  BY <1>1, <1>5, <1>6 DEF ConnInv, Phases, Ended, Open, Ends, Outside
<1>9. ASSUME Waits(c)'
      PROVE  Patience(c)'
  <2>1. Waits(c)
    BY <1>5, <1>6, <1>9 DEF Waits, Open
  <2>2. Len(rest) + Len(more) = Len(net) + Len(frames)
    <3>1. /\ Len(net) \in Nat /\ Len(frames) \in Nat /\ Len(rest) \in Nat /\ Len(more) \in Nat
          /\ Len(rest) + 1 = Len(net) /\ Len(more) = Len(frames) + 1
      BY <1>3, <1>4
    <3> HIDE DEF net, frames
    <3> QED BY <3>1, SameSum
  <2>3. client[c].state # "connected"
    BY <1>1, <2>1 DEF ConnInv, Patience
  <2>4. ASSUME Unanswered(c)
        PROVE  Unanswered(c)'
    <3>1. Len(rest) + Len(more) <= client[c].owed /\ client[c].owed <= QueueSize
      BY <2>2, <2>4 DEF Unanswered
    <3>2. ASSUME NEW i \in 1..Len(rest), i < Len(rest) \/ ~client[c].asking
          PROVE  rest[i] = "close"
      BY <1>3, <2>4, <3>2 DEF Unanswered
    <3>3. ASSUME NEW i \in 1..Len(more), i < Len(more) \/ rest # <<>> \/ ~client[c].asking
          PROVE  more[i] = "close"
      <4>1. CASE i \in 1..Len(frames) /\ more[i] = frames[i]
        BY <2>4, <4>1 DEF Unanswered
      <4>2. CASE i = Len(more) /\ more[i] = Head(net)
        <5>1. rest # <<>> => 1 < Len(net)
          <6>1. rest # <<>> => Len(rest) # 0
            BY <1>3
          <6> QED BY <1>3, <6>1
        <5> QED BY <1>3, <2>4, <3>3, <4>2, <5>1 DEF Unanswered
      <4> QED BY <1>4, <4>1, <4>2
    <3>4. k.pc = "handling" => k.cmd = "close" 
      BY <1>5, <2>4 DEF Unanswered
    <3> QED BY <1>5, <1>6, <3>1, <3>2, <3>3, <3>4 DEF Unanswered
  <2>5. \A i \in 1..Len(rest) : rest[i] # "bad"
    BY <1>1, <1>3, <2>1 DEF ConnInv, Patience
  <2> QED BY <1>1, <1>5, <1>6, <2>1, <2>2, <2>3, <2>4, <2>5 DEF ConnInv, Patience, Waits
<1>10. ConnInv(c)'
  BY <1>7, <1>8, <1>9 DEF ConnInv, Patience
<1> QED BY <1>5, <1>10, RecordStep DEF k, rest, more

LEMMA PumpStep ==
    ASSUME Inv, NEW c \in Conns, Pump(c)
    PROVE  Inv'
<1>0. conn[c] \in Connection
  BY Here
<1>1. CASE PumpEnds(c)
  BY <1>0, <1>1, PumpEndsStep DEF PumpEnds, Ends
<1>2. CASE DeadlinePasses(c)
  BY <1>0, <1>2, PumpEndsStep DEF DeadlinePasses, Ends
<1>3. CASE PumpFrame(c)
  <2> DEFINE k == [conn[c] EXCEPT !.net = Tail(@)]
  <2>1. k \in Connection
    <3>1. Tail(conn[c].net) \in Seq(Frames)
      BY <1>0, <1>3, TailAt DEF PumpFrame, Connection
    <3> QED BY <1>0, <3>1 DEF Connection
  <2>2. Len(conn[c].frames) \in Nat /\ QueueSize \in Nat
    BY <1>0, WireAssumption DEF Connection
  <2>3. CASE Becomes(c, EndWire(k, "bad"))
    BY <1>3, <2>1, <2>3, PumpEndsStep DEF PumpFrame, Ends
  <2>4. CASE Becomes(c, EndWire(k, "full"))
    BY <1>3, <2>1, <2>4, PumpEndsStep DEF PumpFrame, Ends
  <2>5. CASE /\ conn[c].commandPhase => Head(conn[c].net) # "bad"
             /\ Len(conn[c].frames) < QueueSize
             /\ Becomes(c, [k EXCEPT !.frames = Append(@, Head(conn[c].net))])
    <3>1. [k EXCEPT !.frames = Append(@, Head(conn[c].net))]
            = [conn[c] EXCEPT !.net = Tail(@), !.frames = Append(@, Head(conn[c].net))]
      BY <1>0 DEF Connection
    <3>2. Becomes(c, [conn[c] EXCEPT !.net = Tail(@),
                                     !.frames = Append(@, Head(conn[c].net))])
      BY <2>5, <3>1
    <3> QED BY <1>3, <2>5, <3>2, PumpQueues DEF PumpFrame
  <2> QED BY <1>3, <2>2, <2>3, <2>4, <2>5 DEF PumpFrame
<1> QED BY <1>1, <1>2, <1>3 DEF Pump

-------------------------------------------------------------------------------
(* serve: the handshake, and the steps that only move on.                   *)

LEMMA MovesOn ==
    ASSUME NEW k \in Connection, NEW pc \in Pcs
    PROVE  LET g == [k EXCEPT !.pc = pc]
           IN  /\ g \in Connection /\ g.pc = pc /\ g.wire = k.wire /\ g.deadline = k.deadline
               /\ g.commandPhase = k.commandPhase /\ g.cancelled = k.cancelled
               /\ g.cut = k.cut /\ g.net = k.net /\ g.frames = k.frames /\ g.cmd = k.cmd
               /\ g.statements = k.statements
BY DEF Connection

LEMMA GotoStep ==
    ASSUME Inv, NEW c \in Conns, NEW pc \in Pcs, Goto(c, pc),
           UNCHANGED <<client, known, pluginVars, processVars>>,
           \/ At(c, "handshake") /\ Ended(c) /\ pc = "leaving"
           \/ At(c, "ready") /\ pc = IF conn[c].cancelled THEN "leaving" ELSE "reading"
           \/ At(c, "reading") /\ Ended(c) /\ pc = "leaving"
    PROVE  Inv'
<1> DEFINE k == [conn[c] EXCEPT !.pc = pc]
<1>1. client[c] \in Client /\ conn[c] \in Connection /\ known[c] \in Nat /\ ConnInv(c)
  BY Here
<1>2. /\ k \in Connection /\ k.pc = pc /\ k.wire = conn[c].wire
      /\ k.deadline = conn[c].deadline
      /\ k.commandPhase = conn[c].commandPhase /\ k.cancelled = conn[c].cancelled
      /\ k.cut = conn[c].cut /\ k.net = conn[c].net /\ k.frames = conn[c].frames
      /\ k.cmd = conn[c].cmd /\ k.statements = conn[c].statements
  BY <1>1, MovesOn
<1>3. Becomes(c, k)
  BY DEF Goto
<1> HIDE DEF k
<1>4. conn'[c] = k
  BY <1>3, Here, BecomesOnly
<1>5. Bounded(c)' /\ CutByStop(c)'
  BY <1>1, <1>2, <1>4 DEF ConnInv, Bounded, CutByStop, pluginVars
<1>6. Held(c)'
  BY <1>1, <1>2, <1>4 DEF ConnInv, Held, At
<1>7. Phases(c)'
  BY <1>1, <1>2, <1>4 DEF ConnInv, Phases, Ended, At, Ends, Outside, Session, After
<1>8. ASSUME Waits(c)'
      PROVE  Patience(c)'
  <2>1. Waits(c) /\ ~Ended(c)
    BY <1>2, <1>4, <1>8 DEF Waits, Open, Ended, Ends
  <2>2. At(c, "ready") /\ pc = "reading"
    <3>1. At(c, "ready") => ~conn[c].cancelled
      BY <1>1, <2>1 DEF ConnInv, Phases, At
    <3> QED BY <2>1, <3>1
  <2>3. Unanswered(c) => Unanswered(c)'
    BY <1>2, <1>4, <2>2 DEF Unanswered
  <2> QED BY <1>1, <1>2, <1>4, <2>1, <2>2, <2>3
          DEF ConnInv, Patience, Waits, Phases, Session, After, At
<1>9. ConnInv(c)'
  BY <1>5, <1>6, <1>7, <1>8 DEF ConnInv, Patience
<1>10. conn[c].pc \in Inner /\ k.pc \in Inner
  BY <1>2 DEF At, Inner, Pcs
<1> QED BY <1>2, <1>3, <1>9, <1>10, RecordStep

LEMMA BeginStep ==
    ASSUME Inv, NEW c \in Conns, Begin(c)
    PROVE  Inv'
<1> DEFINE k == [conn[c] EXCEPT !.pc = "handshake", !.wire = "open", !.deadline = TRUE]
<1>1. client[c] \in Client /\ conn[c] \in Connection /\ known[c] \in Nat /\ ConnInv(c)
  BY Here
<1>2. /\ k \in Connection /\ k.pc = "handshake" /\ k.wire = "open"
      /\ k.commandPhase = conn[c].commandPhase /\ k.cancelled = conn[c].cancelled
      /\ k.cut = conn[c].cut /\ k.net = conn[c].net /\ k.frames = conn[c].frames
      /\ k.cmd = conn[c].cmd /\ k.statements = conn[c].statements
  BY <1>1 DEF Connection, Pcs
<1>3. Becomes(c, k) /\ At(c, "starting") /\ UNCHANGED <<client, known, pluginVars, processVars>>
  BY DEF Begin
<1> HIDE DEF k
<1>4. conn'[c] = k
  BY <1>3, Here, BecomesOnly
<1>5. Bounded(c)' /\ CutByStop(c)' /\ Held(c)'
  BY <1>1, <1>2, <1>3, <1>4 DEF ConnInv, Bounded, CutByStop, Held, At, pluginVars
<1>6. /\ k.net = <<>> /\ k.frames = <<>> /\ ~k.cancelled /\ ~k.commandPhase
      /\ client[c].state = "connected"
  BY <1>1, <1>2, <1>3 DEF ConnInv, Phases, At, Outside, Session, After, Ended, Ends
<1>7. Phases(c)'
  BY <1>1, <1>2, <1>3, <1>4, <1>6 DEF ConnInv, Phases, Ended, At, Ends, Outside, Session, After
<1>8. Patience(c)'
  BY <1>2, <1>3, <1>4, <1>6 DEF Patience
<1>9. ConnInv(c)'
  BY <1>5, <1>7, <1>8 DEF ConnInv
<1>10. conn[c].pc \in Inner /\ k.pc \in Inner
  BY <1>2, <1>3 DEF At, Inner, Pcs
<1> QED BY <1>2, <1>3, <1>9, <1>10, RecordStep

LEMMA OneLess ==
    ASSUME NEW a \in Nat, NEW b \in Nat, NEW b1 \in Nat, b1 + 1 = b
    PROVE  /\ a + b <= 1 => a + b1 <= 0
           /\ \A o \in Nat : a + b <= o => a + b1 <= o
OBVIOUS

LEMMA NoneLeft ==
    ASSUME NEW a \in Nat, NEW b \in Nat, a + b <= 0
    PROVE  a = 0 /\ b = 0
OBVIOUS

\* What the steps of the handshake leave alone: all but pc, cmd, frames and the deadline.
SameOtherwise(k, l) ==
    /\ k.wire = l.wire /\ k.statements = l.statements /\ k.commandPhase = l.commandPhase
    /\ k.cancelled = l.cancelled /\ k.cut = l.cut /\ k.net = l.net

LEMMA HandshakeStep ==
    ASSUME Inv, NEW c \in Conns, Handshake(c)
    PROVE  Inv'
<1>1. client[c] \in Client /\ conn[c] \in Connection /\ known[c] \in Nat /\ ConnInv(c)
  BY Here
<1>2. CASE Ended(c) /\ Goto(c, "leaving")
  BY <1>2, GotoStep DEF Handshake, Pcs
<1>3. ASSUME NEW k \in Connection, conn[c].frames # <<>>, Becomes(c, k),
             k.pc \in {"leaving", "selecting", "opening"},
             k.frames = Tail(conn[c].frames), SameOtherwise(k, conn[c])
      PROVE  Inv'
  <2> DEFINE rest == Tail(conn[c].frames)
  <2>1. conn[c].frames \in Seq(Frames) /\ conn[c].net \in Seq(Frames)
    BY <1>1 DEF Connection
  <2>2. /\ rest \in Seq(Frames) /\ Len(rest) \in Nat /\ Len(conn[c].frames) \in Nat
        /\ Len(rest) + 1 = Len(conn[c].frames)
    BY <1>3, <2>1, TailAt
  <2>3. k.frames = rest
    BY <1>3
  <2> HIDE DEF rest
  <2>4. /\ k.wire = conn[c].wire /\ k.statements = conn[c].statements
        /\ k.commandPhase = conn[c].commandPhase /\ k.cancelled = conn[c].cancelled
        /\ k.cut = conn[c].cut /\ k.net = conn[c].net
    BY <1>3 DEF SameOtherwise
  <2>5. conn'[c] = k /\ At(c, "handshake") /\ UNCHANGED <<client, known, pluginVars, processVars>>
    BY <1>3, Here, BecomesOnly DEF Handshake
  <2>6. Bounded(c)' /\ CutByStop(c)' /\ Held(c)'
    BY <1>1, <1>3, <2>2, <2>3, <2>4, <2>5, WireAssumption
       DEF ConnInv, Bounded, CutByStop, Held, At, pluginVars
  <2>7. Phases(c)'
    BY <1>1, <1>3, <2>4, <2>5 DEF ConnInv, Phases, Ended, At, Ends, Outside, Session, After
  <2>8. ASSUME Waits(c)'
        PROVE  Patience(c)'
    <3>1. Waits(c) /\ ~conn[c].commandPhase
      BY <1>1, <2>4, <2>5, <2>8 DEF ConnInv, Phases, At, Session, After, Waits, Open
    <3>2. client[c].state = "authenticating"
      BY <1>1, <1>3, <3>1 DEF ConnInv, Patience, Client, Waits
    <3>3. Len(conn[c].net) + Len(conn[c].frames) <= 1
      <4>1. Patience(c) /\ conn[c].pc = "handshake"
        BY <1>1, <2>5 DEF ConnInv, At
      <4> QED BY <3>1, <3>2, <4>1 DEF Patience
    <3>4. Len(conn[c].net) + Len(rest) <= 0
      <4>1. Len(conn[c].net) \in Nat
        BY <2>1
      <4> QED BY <2>2, <3>3, <4>1, OneLess
    <3> QED BY <1>1, <1>3, <2>3, <2>4, <2>5, <3>1, <3>2, <3>4 DEF ConnInv, Patience
  <2>9. ConnInv(c)'
    BY <2>6, <2>7, <2>8 DEF ConnInv, Patience
  <2>10. conn[c].pc \in Inner /\ k.pc \in Inner
    BY <1>3, <2>5 DEF At, Inner, Pcs
  <2> QED BY <1>3, <2>5, <2>9, <2>10, RecordStep
<1>4. ASSUME NEW pc \in {"leaving", "selecting", "opening"}, NEW k, conn[c].frames # <<>>,
             \/ k = [[conn[c] EXCEPT !.frames = Tail(@)] EXCEPT !.pc = pc]
             \/ k = [[conn[c] EXCEPT !.frames = Tail(@)] EXCEPT !.pc = pc, !.cmd = "use"],
             Becomes(c, k)
      PROVE  Inv'
  <2>1. Tail(conn[c].frames) \in Seq(Frames)
    BY <1>1, <1>4, TailAt DEF Connection
  <2>2. /\ k \in Connection /\ k.pc = pc /\ k.frames = Tail(conn[c].frames)
        /\ SameOtherwise(k, conn[c])
    BY <1>1, <1>4, <2>1 DEF Connection, Pcs, Dispatched, SameOtherwise
  <2> QED BY <1>3, <1>4, <2>2
<1> QED BY <1>2, <1>4 DEF Handshake, Authenticated

\* The steps between the response of the client and its greeting that do not greet it.
LEMMA BetweenStep ==
    ASSUME Inv, NEW c \in Conns, Selected(c) \/ Authenticate(c) \/ HandshakeFails(c)
    PROVE  Inv'
<1>1. client[c] \in Client /\ conn[c] \in Connection /\ known[c] \in Nat /\ ConnInv(c)
  BY Here
<1>2. PICK k \in Connection : /\ Becomes(c, k) /\ k.frames = conn[c].frames
                              /\ k.pc \in {"leaving", "selected", "opening"}
                              /\ SameOtherwise(k, conn[c])
  <2>1. ASSUME NEW pc \in {"leaving", "selected", "opening"}, NEW k,
               k = [conn[c] EXCEPT !.pc = pc] \/ k = [conn[c] EXCEPT !.pc = pc, !.cmd = "none"]
        PROVE  /\ k \in Connection /\ k.frames = conn[c].frames /\ k.pc = pc
               /\ SameOtherwise(k, conn[c])
    BY <1>1, <2>1 DEF Connection, Pcs, SameOtherwise
  <2>2. PICK pc \in {"leaving", "selected", "opening"} :
            \/ Becomes(c, [conn[c] EXCEPT !.pc = pc])
            \/ Becomes(c, [conn[c] EXCEPT !.pc = pc, !.cmd = "none"])
    BY DEF Selected, Authenticate, HandshakeFails, Authenticated, Goto
  <2> QED BY <2>1, <2>2
<1>3. /\ conn[c].pc \in {"selecting", "selected", "opening"}
      /\ UNCHANGED <<client, known, pluginVars, processVars>>
  BY DEF Selected, Authenticate, HandshakeFails, At
<1>4. /\ k.wire = conn[c].wire /\ k.statements = conn[c].statements
      /\ k.commandPhase = conn[c].commandPhase /\ k.cancelled = conn[c].cancelled
      /\ k.cut = conn[c].cut /\ k.net = conn[c].net
  BY <1>2 DEF SameOtherwise
<1>5. conn'[c] = k
  BY <1>2, Here, BecomesOnly
<1>6. Bounded(c)' /\ CutByStop(c)' /\ Held(c)'
  BY <1>1, <1>2, <1>3, <1>4, <1>5 DEF ConnInv, Bounded, CutByStop, Held, At, pluginVars
<1>7. Phases(c)'
  BY <1>1, <1>2, <1>3, <1>4, <1>5 DEF ConnInv, Phases, Ended, Ends, Outside, Session, After
<1>8. ASSUME Waits(c)'
      PROVE  Patience(c)'
  <2>1. Waits(c) /\ ~conn[c].commandPhase
    BY <1>1, <1>3, <1>4, <1>5, <1>8 DEF ConnInv, Phases, Session, After, Waits, Open
  <2> QED BY <1>1, <1>2, <1>3, <1>4, <1>5, <2>1 DEF ConnInv, Patience
<1>9. ConnInv(c)'
  BY <1>6, <1>7, <1>8 DEF ConnInv, Patience
<1>10. conn[c].pc \in Inner /\ k.pc \in Inner
  BY <1>2, <1>3 DEF Inner, Pcs
<1> QED BY <1>2, <1>3, <1>9, <1>10, RecordStep

LEMMA OpenedStep ==
    ASSUME Inv, NEW c \in Conns, Opened(c)
    PROVE  Inv'
<1>1. client[c] \in Client /\ conn[c] \in Connection /\ known[c] \in Nat /\ ConnInv(c)
  BY Here
<1>2. PICK pc \in {"greeted", "leaving"} :
          /\ Becomes(c, [conn[c] EXCEPT !.commandPhase = TRUE, !.pc = pc])
          /\ pc = "leaving" => ~Open(c) \/ client[c].state = "left"
          /\ pc = "greeted" => Open(c)
  BY DEF Opened, Written
<1>3. /\ At(c, "opening") /\ UNCHANGED <<known, pluginVars, processVars>>
      /\ client' = IF Open(c) /\ client[c].state = "authenticating"
                   THEN [client EXCEPT ![c].state = "greeted"] ELSE client
  BY DEF Opened
<1> DEFINE k == [conn[c] EXCEPT !.commandPhase = TRUE, !.pc = pc]
<1>4. /\ k \in Connection /\ k.pc = pc /\ k.wire = conn[c].wire /\ k.frames = conn[c].frames
      /\ k.commandPhase /\ k.cancelled = conn[c].cancelled
      /\ k.cut = conn[c].cut /\ k.net = conn[c].net
      /\ k.cmd = conn[c].cmd /\ k.statements = conn[c].statements
  BY <1>1 DEF Connection, Pcs
<1>5. Becomes(c, k)
  BY <1>2
<1> HIDE DEF k
<1>6. /\ conn'[c] = k /\ \A d \in Conns \ {c} : conn'[d] = conn[d]
      /\ conn' \in [Conns -> Connection]
  BY <1>4, <1>5, Here, BecomesOnly DEF Becomes, Types
<1>7. /\ client' \in [Conns -> Client] /\ \A d \in Conns \ {c} : client'[d] = client[d]
      /\ client'[c].sent = client[c].sent /\ client'[c].owed = client[c].owed
      /\ client'[c].asking = client[c].asking
      /\ IF Open(c) /\ client[c].state = "authenticating"
         THEN client'[c].state = "greeted" ELSE client'[c].state = client[c].state
  BY <1>1, <1>3, Here DEF Types, Client
<1>8. Bounded(c)' /\ CutByStop(c)' /\ Held(c)'
  BY <1>1, <1>3, <1>4, <1>6, <1>7 DEF ConnInv, Bounded, CutByStop, Held, At, pluginVars
<1>9. Phases(c)'
  BY <1>1, <1>3, <1>4, <1>6 DEF ConnInv, Phases, Ended, At, Ends, Outside, Session, After
<1>10. ASSUME Waits(c)'
       PROVE  Patience(c)'
  <2>1. Waits(c) /\ ~conn[c].commandPhase /\ Open(c)
    BY <1>1, <1>3, <1>4, <1>6, <1>7, <1>10
       DEF ConnInv, Phases, At, Session, After, Waits, Open
  <2>2. pc = "greeted"
    BY <1>2, <2>1 DEF Waits
  <2>3. client[c].state \in {"connected", "authenticating"}
    BY <1>1, <2>1 DEF ConnInv, Patience, Client, Waits
  <2>4. /\ conn[c].net = <<>> /\ conn[c].frames = <<>>
    <3>1. CASE client[c].state = "connected"
      BY <1>1, <2>1, <3>1 DEF ConnInv, Patience
    <3>2. CASE client[c].state = "authenticating"
      <4>1. Len(conn[c].net) + Len(conn[c].frames) <= 0
        BY <1>1, <1>3, <2>1, <3>2 DEF ConnInv, Patience, At
      <4>2. conn[c].net \in Seq(Frames) /\ conn[c].frames \in Seq(Frames)
        BY <1>1 DEF Connection
      <4>3. Len(conn[c].net) \in Nat /\ Len(conn[c].frames) \in Nat
        BY <4>2
      <4>4. Len(conn[c].net) = 0 /\ Len(conn[c].frames) = 0
        BY <4>1, <4>3, NoneLeft
      <4> QED BY <4>2, <4>4
    <3> QED BY <2>3, <3>1, <3>2
  <2>5. Unanswered(c)'
    <3>1. k.net = <<>> /\ k.frames = <<>> /\ k.pc # "handling"
      BY <1>4, <2>2, <2>4
    <3>2. 0 <= client[c].owed /\ client[c].owed <= QueueSize
      BY <1>1, <2>1 DEF ConnInv, Bounded, Waits, Client
    <3> QED BY <1>6, <1>7, <3>1, <3>2 DEF Unanswered
  <2>6. k.net = <<>> /\ k.frames = <<>> /\ k.commandPhase /\ k.pc = "greeted"
    BY <1>4, <2>2, <2>4
  <2>7. client'[c].state \in {"connected", "greeted"}
    BY <1>7, <2>1, <2>3
  <2> QED BY <1>6, <2>5, <2>6, <2>7 DEF Patience
<1>11. ConnInv(c)'
  BY <1>8, <1>9, <1>10 DEF ConnInv, Patience
<1>12. Only(c) /\ Stays(c)
  BY <1>3, <1>4, <1>6, <1>7 DEF Only, Stays, At, Inner, Pcs
<1> QED BY <1>3, <1>6, <1>7, <1>11, <1>12, LocalStep DEF Inv, Types

LEMMA ClearDeadlineStep ==
    ASSUME Inv, NEW c \in Conns, ClearDeadline(c)
    PROVE  Inv'
<1> DEFINE k == [conn[c] EXCEPT !.pc = "ready", !.deadline = @ /\ Ended(c)]
<1>1. client[c] \in Client /\ conn[c] \in Connection /\ known[c] \in Nat /\ ConnInv(c)
  BY Here
<1>2. /\ k \in Connection /\ k.pc = "ready" /\ k.wire = conn[c].wire /\ k.frames = conn[c].frames
      /\ k.commandPhase = conn[c].commandPhase /\ k.cancelled = conn[c].cancelled
      /\ k.cut = conn[c].cut /\ k.net = conn[c].net
      /\ k.cmd = conn[c].cmd /\ k.statements = conn[c].statements
      /\ k.deadline => Ended(c)
  BY <1>1 DEF Connection, Pcs
<1>3. At(c, "greeted") /\ Becomes(c, k) /\ UNCHANGED <<client, known, pluginVars, processVars>>
  BY DEF ClearDeadline
<1> HIDE DEF k
<1>4. conn'[c] = k
  BY <1>3, Here, BecomesOnly
<1>5. Bounded(c)' /\ CutByStop(c)' /\ Held(c)'
  BY <1>1, <1>2, <1>3, <1>4 DEF ConnInv, Bounded, CutByStop, Held, At, pluginVars
<1>6. Phases(c)'
  BY <1>1, <1>2, <1>3, <1>4 DEF ConnInv, Phases, Ended, At, Ends, Outside, Session, After
<1>7. ASSUME Waits(c)'
      PROVE  Patience(c)'
  <2>1. Waits(c) /\ ~Ended(c)
    BY <1>2, <1>3, <1>4, <1>7 DEF Waits, Open, Ended, Ends
  <2>2. Unanswered(c) => Unanswered(c)'
    BY <1>2, <1>3, <1>4 DEF Unanswered
  <2> QED BY <1>1, <1>2, <1>3, <1>4, <2>1, <2>2 DEF ConnInv, Patience, Waits, At
<1>8. ConnInv(c)'
  BY <1>5, <1>6, <1>7 DEF ConnInv, Patience
<1>9. conn[c].pc \in Inner /\ k.pc \in Inner
  BY <1>2, <1>3 DEF At, Inner, Pcs
<1> QED BY <1>2, <1>3, <1>8, <1>9, RecordStep

-------------------------------------------------------------------------------
(* serve: commands.                                                         *)

LEMMA LastOne ==
    ASSUME NEW a \in Nat, NEW b \in Nat, b + 1 = a, ~(1 < a)
    PROVE  b = 0
OBVIOUS

\* What is still queued after the next frame is taken.
LEMMA AfterNext ==
    ASSUME NEW c \in Conns, client[c] \in Client, conn[c] \in Connection,
           conn[c].frames # <<>>, Unanswered(c), NEW rest, rest = Tail(conn[c].frames)
    PROVE  /\ Len(conn[c].net) + Len(rest) <= client[c].owed /\ client[c].owed <= QueueSize
           /\ \A i \in 1..Len(rest) :
                 (i < Len(rest) \/ conn[c].net # <<>> \/ ~client[c].asking) => rest[i] = "close"
           /\ Head(conn[c].frames) # "close" =>
                 rest = <<>> /\ conn[c].net = <<>> /\ client[c].asking
<1> DEFINE frames == conn[c].frames
<1>1. frames \in Seq(Frames) /\ conn[c].net \in Seq(Frames) /\ client[c].owed \in Nat
  BY DEF Connection, Client
<1>2. /\ rest \in Seq(Frames) /\ Len(rest) \in Nat /\ Len(frames) \in Nat
      /\ Len(rest) + 1 = Len(frames) /\ Head(frames) = frames[1] /\ 1 \in 1..Len(frames)
      /\ \A i \in 1..Len(rest) : i + 1 \in 1..Len(frames) /\ rest[i] = frames[i + 1]
  BY <1>1, TailAt
<1>3. Len(conn[c].net) + Len(rest) <= client[c].owed /\ client[c].owed <= QueueSize
  <2>1. Len(conn[c].net) + Len(frames) <= client[c].owed /\ client[c].owed <= QueueSize
    BY DEF Unanswered
  <2>2. Len(conn[c].net) \in Nat
    BY <1>1
  <2> QED BY <1>1, <1>2, <2>1, <2>2, OneLess
<1>4. ASSUME NEW i \in 1..Len(rest), i < Len(rest) \/ conn[c].net # <<>> \/ ~client[c].asking
      PROVE  rest[i] = "close"
  BY <1>2, <1>4 DEF Unanswered
<1>5. ASSUME Head(frames) # "close"
      PROVE  rest = <<>> /\ conn[c].net = <<>> /\ client[c].asking
  <2>1. ~(1 < Len(frames) \/ conn[c].net # <<>> \/ ~client[c].asking)
    BY <1>2, <1>5 DEF Unanswered
  <2>2. Len(rest) = 0
    <3>1. ~(1 < Len(frames)) /\ Len(frames) \in Nat /\ Len(rest) \in Nat
          /\ Len(rest) + 1 = Len(frames)
      BY <1>2, <2>1
    <3> QED BY <3>1, LastOne
  <2> QED BY <1>2, <2>1, <2>2
<1> QED BY <1>3, <1>4, <1>5

\* A command of a client that waits for its answer is answered.
LEMMA AnsweredIs ==
    ASSUME Inv, NEW c \in Conns, NEW cmd, Answered(c, cmd)
    PROVE  /\ client' \in [Conns -> Client] /\ \A d \in Conns \ {c} : client'[d] = client[d]
           /\ client'[c].state = client[c].state /\ client'[c].sent = client[c].sent
           /\ cmd = "close" => client'[c] = client[c]
           /\ cmd # "close" => ~client'[c].asking /\ client'[c].owed = 0
<1>1. client[c] \in Client
  BY Here
<1>2. CASE cmd = "close"
  BY <1>2 DEF Answered, Inv, Types
<1>3. CASE cmd # "close"
  <2> DEFINE cl == [client[c] EXCEPT !.asking = FALSE, !.owed = 0]
  <2>1. /\ cl \in Client /\ cl.state = client[c].state /\ cl.sent = client[c].sent
        /\ ~cl.asking /\ cl.owed = 0
    BY <1>1 DEF Client
  <2>2. client' = [client EXCEPT ![c] = cl]
    BY <1>3 DEF Answered
  <2> HIDE DEF cl
  <2>3. client' \in [Conns -> Client] /\ client'[c] = cl
        /\ \A d \in Conns \ {c} : client'[d] = client[d]
    BY <2>1, <2>2 DEF Inv, Types
  <2> QED BY <1>3, <2>1, <2>3
<1> QED BY <1>2, <1>3

LEMMA ReadStep ==
    ASSUME Inv, NEW c \in Conns, Read(c)
    PROVE  Inv'
<1>1. client[c] \in Client /\ conn[c] \in Connection /\ known[c] \in Nat /\ ConnInv(c)
  BY Here
<1>2. CASE Ended(c) /\ Goto(c, "leaving") /\ UNCHANGED client
  BY <1>2, GotoStep DEF Read, Pcs
<1> DEFINE cmd == Head(conn[c].frames)
           rest == Tail(conn[c].frames)
           forgets == cmd = "close" /\ NeedsCore(c, cmd)
           n == IF forgets THEN conn[c].statements - 1 ELSE conn[c].statements
           k == [conn[c] EXCEPT !.frames = rest, !.statements = n]
<1>3. CASE conn[c].frames # <<>> /\ Command(c, k, cmd)
  <2>1. forgets \in BOOLEAN /\ (forgets => conn[c].statements > 0)
    BY DEF NeedsCore
  <2>2. forgets => cmd = "close"
    OBVIOUS
  <2>3. cmd = "close" => forgets \/ ~NeedsCore(c, cmd)
    OBVIOUS
  <2> HIDE DEF forgets
  <2>4. /\ k \in Connection /\ k.pc = conn[c].pc /\ k.wire = conn[c].wire
        /\ k.deadline = conn[c].deadline /\ k.commandPhase = conn[c].commandPhase
        /\ k.cancelled = conn[c].cancelled /\ k.cut = conn[c].cut
        /\ k.net = conn[c].net /\ k.frames = rest /\ k.cmd = conn[c].cmd
        /\ k.statements = IF forgets THEN conn[c].statements - 1 ELSE conn[c].statements
    <3>1. n = conn[c].statements \/ (conn[c].statements > 0 /\ n = conn[c].statements - 1)
      BY <2>1
    <3>2. n = IF forgets THEN conn[c].statements - 1 ELSE conn[c].statements
      OBVIOUS
    <3>3. n \in 0..MaxStatements
      BY <1>1, <3>1, WireAssumption DEF Connection
    <3>4. rest \in Seq(Frames)
      BY <1>1, <1>3, TailAt DEF Connection
    <3> HIDE DEF n, cmd, rest
    <3>5. /\ k \in Connection /\ k.pc = conn[c].pc /\ k.wire = conn[c].wire
          /\ k.deadline = conn[c].deadline /\ k.commandPhase = conn[c].commandPhase
          /\ k.cancelled = conn[c].cancelled /\ k.cut = conn[c].cut
          /\ k.net = conn[c].net /\ k.frames = rest /\ k.cmd = conn[c].cmd
          /\ k.statements = n
      BY <1>1, <3>3, <3>4 DEF Connection
    <3> QED BY <3>2, <3>5
  <2>5. /\ cmd \in Frames /\ rest \in Seq(Frames) /\ Len(rest) <= QueueSize
        /\ conn[c].statements \in Nat
    <3>1. conn[c].frames \in Seq(Frames) /\ QueueSize \in Nat /\ conn[c].statements \in Nat
      BY <1>1, WireAssumption DEF Connection
    <3>2. cmd \in Frames /\ rest \in Seq(Frames) /\ Len(rest) + 1 = Len(conn[c].frames)
          /\ Len(rest) \in Nat
      BY <1>3, <3>1, TailAt
    <3>3. Len(conn[c].frames) <= QueueSize
      BY <1>1 DEF ConnInv, Bounded
    <3> QED BY <3>1, <3>2, <3>3
  <2>6. At(c, "reading") /\ UNCHANGED <<known, pluginVars, processVars>>
    BY DEF Read
  <2>7. /\ conn[c].commandPhase /\ (conn[c].cancelled <=> Ended(c))
        /\ conn[c].wire \in {"open"} \cup Ends
        /\ conn[c].statements <= known[c]
    BY <1>1, <2>6, <2>5 DEF ConnInv, Phases, Held, At, Session, Connection, Outside
  <2>8. ASSUME Waits(c), Patience(c)
        PROVE  /\ client[c].state \notin {"new", "connected", "authenticating"} /\ Unanswered(c)
               /\ \A i \in 1..Len(conn[c].net) : conn[c].net[i] # "bad"
               /\ ~conn[c].deadline
    <3>1. client[c].state # "connected"
      BY <1>3, <2>8 DEF Patience
    <3>2. client[c].state # "authenticating"
      <4>1. ASSUME client[c].state = "authenticating" PROVE FALSE
        <5>1. Len(conn[c].net) + Len(conn[c].frames) <= 0
          BY <2>6, <2>8, <4>1 DEF Patience, At
        <5>2. conn[c].net \in Seq(Frames) /\ conn[c].frames \in Seq(Frames)
          BY <1>1 DEF Connection
        <5>3. Len(conn[c].net) \in Nat /\ Len(conn[c].frames) \in Nat
          BY <5>2
        <5>4. Len(conn[c].frames) = 0
          BY <5>1, <5>3, NoneLeft
        <5> QED BY <1>3, <5>2, <5>4
      <4> QED BY <4>1
    <3>3. client[c].state = "greeted"
      BY <1>1, <2>8, <3>1, <3>2 DEF Client, Waits, Patience
    <3> QED BY <2>6, <2>7, <2>8, <3>3 DEF Patience, At
  <2> HIDE DEF k, cmd, rest
  \* The dispatch is not sent: the wire has ended.
  <2>9. CASE k.cancelled /\ Becomes(c, [k EXCEPT !.pc = "ready"]) /\ UNCHANGED client
    <3> DEFINE r == [k EXCEPT !.pc = "ready"]
    <3>1. /\ r \in Connection /\ r.pc = "ready" /\ r.wire = k.wire /\ r.frames = k.frames
          /\ r.commandPhase = k.commandPhase /\ r.cancelled = k.cancelled /\ r.cut = k.cut
          /\ r.statements = k.statements
      <4>1. "ready" \in Pcs /\ k \in Connection
        BY <2>4 DEF Pcs
      <4> QED BY <4>1, MovesOn
    <3> HIDE DEF r
    <3>2. conn'[c] = r
      BY <2>9, Here, BecomesOnly DEF r
    <3>3. Bounded(c)' /\ CutByStop(c)'
      BY <1>1, <2>4, <2>5, <2>6, <2>9, <3>1, <3>2 DEF ConnInv, Bounded, CutByStop, pluginVars
    <3>4. Held(c)'
      BY <1>1, <2>4, <2>5, <2>6, <2>7, <3>1, <3>2 DEF Held, At
    <3>5. Phases(c)' /\ Patience(c)'
      BY <2>4, <2>7, <2>9, <3>1, <3>2
         DEF Phases, Ended, Ends, Outside, Session, After, Patience, Waits, Open
    <3>6. ConnInv(c)' /\ conn[c].pc \in Inner /\ r.pc \in Inner
      BY <2>6, <3>1, <3>3, <3>4, <3>5 DEF ConnInv, At, Inner, Pcs
    <3> QED BY <2>6, <2>9, <3>1, <3>6, RecordStep DEF r
  <2>10. CASE /\ NeedsCore(c, cmd) /\ ~k.cancelled /\ UNCHANGED client
              /\ Becomes(c, [k EXCEPT !.pc = "handling", !.cmd = cmd])
    <3> DEFINE r == [k EXCEPT !.pc = "handling", !.cmd = cmd]
    <3>1. /\ r \in Connection /\ r.pc = "handling" /\ r.wire = k.wire /\ r.frames = k.frames
          /\ r.commandPhase = k.commandPhase /\ r.cancelled = k.cancelled /\ r.cut = k.cut
          /\ r.statements = k.statements /\ r.cmd = cmd /\ r.deadline = k.deadline
          /\ r.net = k.net
      BY <2>4, <2>10 DEF Pcs, Connection, NeedsCore, Dispatched
    <3> HIDE DEF r
    <3>2. conn'[c] = r
      BY <2>10, Here, BecomesOnly DEF r
    <3>3. Bounded(c)' /\ CutByStop(c)'
      BY <1>1, <2>4, <2>5, <2>6, <2>10, <3>1, <3>2 DEF ConnInv, Bounded, CutByStop, pluginVars
    <3>4. Held(c)'
      BY <1>1, <2>2, <2>3, <2>4, <2>5, <2>6, <2>7, <2>10, <3>1, <3>2 DEF Held, At
    <3>5. Phases(c)'
      BY <2>4, <2>7, <2>10, <3>1, <3>2
         DEF Phases, Ended, Ends, Outside, Session, After
    <3>6. ASSUME Waits(c)'
          PROVE  Patience(c)'
      <4>1. Waits(c) /\ Patience(c)
        BY <1>1, <2>4, <2>10, <3>1, <3>2, <3>6 DEF ConnInv, Waits, Open
      <4>2. Unanswered(c)'
        <5>1. /\ Len(conn[c].net) + Len(rest) <= client[c].owed /\ client[c].owed <= QueueSize
              /\ \A i \in 1..Len(rest) :
                    (i < Len(rest) \/ conn[c].net # <<>> \/ ~client[c].asking)
                       => rest[i] = "close"
              /\ cmd # "close" => rest = <<>> /\ conn[c].net = <<>> /\ client[c].asking
          BY <1>1, <1>3, <2>8, <4>1, AfterNext DEF rest, cmd
        <5>2. \A i \in 1..Len(conn[c].net) :
                 i < Len(conn[c].net) \/ ~client[c].asking => conn[c].net[i] = "close"
          BY <2>8, <4>1 DEF Unanswered
        <5>3. r.net = conn[c].net /\ r.frames = rest /\ r.cmd = cmd /\ client' = client
          BY <2>4, <2>10, <3>1
        <5> QED BY <3>2, <5>1, <5>2, <5>3 DEF Unanswered
      <4> QED BY <2>4, <2>7, <2>8, <2>10, <3>1, <3>2, <4>1, <4>2 DEF Patience
    <3>7. ConnInv(c)' /\ conn[c].pc \in Inner /\ r.pc \in Inner
      BY <2>6, <3>1, <3>3, <3>4, <3>5, <3>6 DEF ConnInv, Patience, At, Inner, Pcs
    <3> QED BY <2>6, <2>10, <3>1, <3>7, RecordStep DEF r
  \* The library answers by itself.
  <2>11. ASSUME ~NeedsCore(c, cmd), NEW pc \in Written(c, "ready"),
                Becomes(c, [k EXCEPT !.pc = pc]), Answered(c, cmd)
         PROVE  Inv'
    <3> DEFINE r == [k EXCEPT !.pc = pc]
    <3>1. pc \in {"ready", "leaving"} /\ (pc = "leaving" => client[c].state = "left")
      BY DEF Written
    <3>2. /\ r \in Connection /\ r.pc = pc /\ r.wire = k.wire /\ r.frames = k.frames
          /\ r.commandPhase = k.commandPhase /\ r.cancelled = k.cancelled /\ r.cut = k.cut
          /\ r.statements = k.statements /\ r.deadline = k.deadline /\ r.net = k.net
      <4>1. pc \in Pcs /\ k \in Connection
        BY <2>4, <3>1 DEF Pcs
      <4> QED BY <4>1, MovesOn
    <3>3. Becomes(c, r)
      BY <2>11
    <3> HIDE DEF r
    <3>4. /\ conn'[c] = r /\ \A d \in Conns \ {c} : conn'[d] = conn[d]
          /\ conn' \in [Conns -> Connection]
      BY <3>2, <3>3, Here, BecomesOnly DEF Becomes, Types
    <3>5. /\ client' \in [Conns -> Client] /\ \A d \in Conns \ {c} : client'[d] = client[d]
          /\ client'[c].state = client[c].state /\ client'[c].sent = client[c].sent
          /\ cmd = "close" => client'[c] = client[c]
          /\ cmd # "close" => ~client'[c].asking /\ client'[c].owed = 0
      BY <2>11, AnsweredIs
    <3>6. Bounded(c)' /\ CutByStop(c)'
      BY <1>1, <2>4, <2>5, <2>6, <3>2, <3>4, <3>5, WireAssumption
         DEF ConnInv, Bounded, CutByStop, pluginVars
    <3>7. Held(c)'
      BY <1>1, <2>4, <2>5, <2>6, <2>7, <3>1, <3>2, <3>4 DEF Held, At
    <3>8. Phases(c)'
      BY <2>4, <2>7, <3>1, <3>2, <3>4
         DEF Phases, Ended, Ends, Outside, Session, After
    <3>9. ASSUME Waits(c)'
          PROVE  Patience(c)'
      <4>1. Waits(c) /\ Patience(c) /\ pc = "ready"
        BY <1>1, <2>4, <3>1, <3>2, <3>4, <3>5, <3>9 DEF ConnInv, Waits, Open
      <4>2. Unanswered(c)'
        <5>1. /\ Len(conn[c].net) + Len(rest) <= client[c].owed /\ client[c].owed <= QueueSize
              /\ \A i \in 1..Len(rest) :
                    (i < Len(rest) \/ conn[c].net # <<>> \/ ~client[c].asking)
                       => rest[i] = "close"
              /\ cmd # "close" => rest = <<>> /\ conn[c].net = <<>>
          BY <1>1, <1>3, <2>8, <4>1, AfterNext DEF rest, cmd
        <5>2. CASE cmd = "close"
          <6>1. \A i \in 1..Len(conn[c].net) :
                   i < Len(conn[c].net) \/ ~client[c].asking => conn[c].net[i] = "close"
            BY <2>8, <4>1 DEF Unanswered
          <6>2. r.net = conn[c].net /\ r.frames = rest /\ r.pc = "ready"
                /\ client'[c] = client[c]
            BY <2>4, <3>2, <3>5, <4>1, <5>2
          <6> QED BY <3>4, <5>1, <6>1, <6>2 DEF Unanswered
        <5>3. CASE cmd # "close"
          <6>1. r.net = <<>> /\ r.frames = <<>> /\ r.pc = "ready" /\ client'[c].owed = 0
                /\ 0 <= QueueSize
            BY <2>4, <3>2, <3>5, <4>1, <5>1, <5>3, WireAssumption
          <6>2. Len(<<>>) + Len(<<>>) <= 0 /\ 1..Len(<<>>) = {}
            OBVIOUS
          <6> QED BY <3>4, <6>1, <6>2 DEF Unanswered
        <5> QED BY <5>2, <5>3
      <4>3. /\ r.net = conn[c].net /\ r.pc = "ready" /\ r.commandPhase /\ ~r.deadline
            /\ client'[c].state \notin {"new", "connected", "authenticating"}
            /\ \A i \in 1..Len(conn[c].net) : conn[c].net[i] # "bad"
        BY <2>4, <2>7, <2>8, <3>2, <3>5, <4>1
      <4> QED BY <3>4, <4>2, <4>3 DEF Patience
    <3>10. ConnInv(c)'
      BY <3>6, <3>7, <3>8, <3>9 DEF ConnInv, Patience
    <3>11. Only(c) /\ Stays(c)
      BY <2>6, <3>1, <3>2, <3>4, <3>5 DEF Only, Stays, At, Inner, Pcs
    <3> QED BY <2>6, <3>4, <3>5, <3>10, <3>11, LocalStep DEF Inv, Types
  <2>12. CASE /\ cmd = "quit" /\ UNCHANGED client
              /\ Becomes(c, [EndWire(k, "closed") EXCEPT !.pc = "ready", !.cmd = "quit"])
    <3> DEFINE e == EndWire(k, "closed")
               r == [e EXCEPT !.pc = "ready", !.cmd = "quit"]
    <3>1. /\ e \in Connection /\ e.commandPhase = k.commandPhase /\ e.cut = k.cut
          /\ e.frames = k.frames /\ e.statements = k.statements
          /\ k.wire = "open" => e.wire = "closed" /\ e.cancelled
          /\ k.wire # "open" => e = k
      <4>1. "closed" \in Ends /\ k \in Connection
        BY <2>4 DEF Ends
      <4> QED BY <4>1, EndWireIs
    <3>9. e.cancelled /\ e.wire \in Ends
      BY <2>4, <2>7, <3>1 DEF Ends, Ended
    <3>2. Becomes(c, r)
      BY <2>12
    <3> HIDE DEF e
    <3>3. /\ r \in Connection /\ r.pc = "ready" /\ r.wire = e.wire /\ r.frames = e.frames
          /\ r.commandPhase = e.commandPhase /\ r.cancelled = e.cancelled /\ r.cut = e.cut
          /\ r.statements = e.statements
      BY <3>1 DEF Connection, Pcs
    <3> HIDE DEF r
    <3>4. conn'[c] = r
      BY <3>2, Here, BecomesOnly
    <3>5. Bounded(c)' /\ CutByStop(c)'
      BY <1>1, <2>4, <2>5, <2>6, <2>12, <3>1, <3>3, <3>4
         DEF ConnInv, Bounded, CutByStop, pluginVars
    <3>6. Held(c)'
      BY <1>1, <2>4, <2>5, <2>6, <2>7, <3>1, <3>3, <3>4 DEF Held, At
    <3>7. Phases(c)' /\ Patience(c)'
      BY <2>4, <2>7, <3>1, <3>3, <3>4, <3>9
         DEF Phases, Ended, Ends, Outside, Session, After, Patience, Waits, Open
    <3>8. ConnInv(c)' /\ conn[c].pc \in Inner /\ r.pc \in Inner
      BY <2>6, <3>3, <3>5, <3>6, <3>7 DEF ConnInv, At, Inner, Pcs
    <3> QED BY <2>6, <2>12, <3>2, <3>3, <3>8, RecordStep
  <2> QED BY <1>3, <2>9, <2>10, <2>11, <2>12 DEF Command
<1> QED BY <1>2, <1>3 DEF Read

\* A command is over: the core has answered it, or nobody waits for it any more.
LEMMA CommandOver ==
    ASSUME Inv, NEW c \in Conns, At(c, "handling"),
           NEW pc \in {"ready", "leaving"}, pc = "leaving" => client[c].state = "left",
           NEW n \in 0..MaxStatements,
           Becomes(c, [conn[c] EXCEPT !.pc = pc, !.cmd = "none", !.statements = n]),
           Answered(c, conn[c].cmd),
           known' \in [Conns -> Nat], \A d \in Conns \ {c} : known'[d] = known[d],
           n <= known'[c], UNCHANGED <<pluginVars, processVars>>
    PROVE  Inv'
<1>1. client[c] \in Client /\ conn[c] \in Connection /\ known[c] \in Nat /\ ConnInv(c)
  BY Here
<1> DEFINE r == [conn[c] EXCEPT !.pc = pc, !.cmd = "none", !.statements = n]
<1>2. /\ r \in Connection /\ r.pc = pc /\ r.wire = conn[c].wire /\ r.frames = conn[c].frames
      /\ r.commandPhase = conn[c].commandPhase /\ r.cancelled = conn[c].cancelled
      /\ r.cut = conn[c].cut /\ r.deadline = conn[c].deadline /\ r.net = conn[c].net
      /\ r.statements = n /\ r.cmd = "none"
  BY <1>1 DEF Connection, Pcs
<1>3. Becomes(c, r)
  OBVIOUS
<1> HIDE DEF r
<1>4. /\ conn'[c] = r /\ \A d \in Conns \ {c} : conn'[d] = conn[d]
      /\ conn' \in [Conns -> Connection]
  <2>1. r \in Connection /\ Types
    BY <1>2, Here
  <2>2. conn' \in [Conns -> Connection]
    BY <1>3, <2>1 DEF Becomes, Types
  <2> QED BY <1>3, <2>1, <2>2, BecomesOnly
<1>5. /\ client' \in [Conns -> Client] /\ \A d \in Conns \ {c} : client'[d] = client[d]
      /\ client'[c].state = client[c].state /\ client'[c].sent = client[c].sent
      /\ conn[c].cmd = "close" => client'[c] = client[c]
      /\ conn[c].cmd # "close" => ~client'[c].asking /\ client'[c].owed = 0
  BY AnsweredIs
<1>6. Bounded(c)' /\ CutByStop(c)'
  BY <1>1, <1>2, <1>4, <1>5, WireAssumption DEF ConnInv, Bounded, CutByStop, pluginVars
<1>7. Held(c)'
  BY <1>2, <1>4 DEF Held, At
<1>8. Phases(c)'
  BY <1>1, <1>2, <1>4 DEF ConnInv, Phases, Ended, Ends, At, Outside, Session, After
<1>9. ASSUME Waits(c)'
      PROVE  Patience(c)'
  <2>1. Waits(c) /\ Patience(c) /\ pc = "ready" /\ conn[c].commandPhase
    BY <1>1, <1>2, <1>4, <1>5, <1>9 DEF ConnInv, Waits, Open, Phases, At, Session
  <2>2. ASSUME Unanswered(c)
        PROVE  Unanswered(c)'
    <3>1. CASE conn[c].cmd = "close"
      <4>1. /\ r.net = conn[c].net /\ r.frames = conn[c].frames /\ r.pc = "ready"
            /\ client'[c] = client[c]
        BY <1>2, <1>5, <2>1, <3>1
      <4> QED BY <1>4, <2>2, <4>1 DEF Unanswered
    <3>2. CASE conn[c].cmd # "close"
      <4>1. conn[c].frames = <<>> /\ conn[c].net = <<>>
        BY <2>2, <3>2 DEF Unanswered, At
      <4>2. r.net = <<>> /\ r.frames = <<>> /\ r.pc = "ready" /\ client'[c].owed = 0
            /\ 0 <= QueueSize
        BY <1>2, <1>5, <2>1, <3>2, <4>1, WireAssumption
      <4>3. Len(<<>>) + Len(<<>>) <= 0 /\ 1..Len(<<>>) = {}
        OBVIOUS
      <4> QED BY <1>4, <4>2, <4>3 DEF Unanswered
    <3> QED BY <3>1, <3>2
  <2>3. client[c].state = "authenticating" => Len(conn[c].net) + Len(conn[c].frames) <= 0
    BY <2>1 DEF Patience, At
  <2> QED BY <1>2, <1>4, <1>5, <2>1, <2>2, <2>3 DEF Patience, At
<1>10. ConnInv(c)'
  BY <1>6, <1>7, <1>8, <1>9 DEF ConnInv, Patience
<1>11. Only(c) /\ Stays(c)
  BY <1>2, <1>4, <1>5 DEF Only, Stays, At, Inner, Pcs
<1> QED BY <1>4, <1>5, <1>10, <1>11, LocalStep DEF Inv, Types

LEMMA GiveUpStep ==
    ASSUME Inv, NEW c \in Conns, GiveUp(c)
    PROVE  Inv'
<1>1. conn[c] \in Connection /\ known[c] \in Nat /\ ConnInv(c) /\ Types
  BY Here
<1> DEFINE n == conn[c].statements
<1>2. n \in 0..MaxStatements /\ n <= known[c]
  BY <1>1, WireAssumption DEF ConnInv, Held, At, GiveUp, Connection
<1>3. Becomes(c, [conn[c] EXCEPT !.pc = "ready", !.cmd = "none", !.statements = n])
  <2>1. [conn[c] EXCEPT !.pc = "ready", !.cmd = "none", !.statements = n]
          = [conn[c] EXCEPT !.pc = "ready", !.cmd = "none"]
    BY <1>1 DEF Connection
  <2> QED BY <2>1 DEF GiveUp
<1> HIDE DEF n
<1> QED BY <1>1, <1>2, <1>3, CommandOver DEF GiveUp, Types

LEMMA AnswerStep ==
    ASSUME Inv, NEW c \in Conns, Answer(c)
    PROVE  Inv'
<1>1. conn[c] \in Connection /\ known[c] \in Nat /\ ConnInv(c) /\ Types
  BY Here
<1>2. PICK ok \in BOOLEAN, pc \in Written(c, "ready") :
        /\ Applied(c, ok)
        /\ Becomes(c, [conn[c] EXCEPT
              !.pc = pc, !.cmd = "none",
              !.statements = IF conn[c].cmd = "prepare" /\ ok /\ @ < MaxStatements
                             THEN @ + 1 ELSE @])
  BY DEF Answer
<1>3. At(c, "handling") /\ Answered(c, conn[c].cmd) /\ UNCHANGED <<pluginVars, processVars>>
  BY DEF Answer
<1> DEFINE n == IF conn[c].cmd = "prepare" /\ ok /\ conn[c].statements < MaxStatements
                THEN conn[c].statements + 1 ELSE conn[c].statements
<1>4. /\ conn[c].statements \in 0..MaxStatements /\ MaxStatements \in Nat
      /\ conn[c].statements + (IF conn[c].cmd = "close" THEN 1 ELSE 0) <= known[c]
  BY <1>1, <1>3, WireAssumption DEF ConnInv, Held, At, Connection
<1>5. n \in 0..MaxStatements
  BY <1>4
<1>6. /\ known' \in [Conns -> Nat] /\ \A d \in Conns \ {c} : known'[d] = known[d]
      /\ n <= known'[c]
  <2>1. CASE conn[c].cmd = "prepare" /\ ok
    <3>1. known' = [known EXCEPT ![c] = known[c] + 1]
      BY <1>2, <2>1 DEF Applied
    <3>2. known[c] + 1 \in Nat /\ n <= known[c] + 1
      BY <1>1, <1>4, <2>1
    <3> HIDE DEF n
    <3> QED BY <1>1, <3>1, <3>2 DEF Types
  <2>2. CASE conn[c].cmd = "close" /\ ok
    <3>1. known' = [known EXCEPT ![c] = known[c] - 1]
      BY <1>2, <2>2 DEF Applied
    <3>2. known[c] - 1 \in Nat /\ n <= known[c] - 1
      BY <1>1, <1>4, <2>2
    <3> HIDE DEF n
    <3> QED BY <1>1, <3>1, <3>2 DEF Types
  <2>3. CASE ~(conn[c].cmd = "prepare" /\ ok) /\ ~(conn[c].cmd = "close" /\ ok)
    <3>1. known' = known
      BY <1>2, <2>3 DEF Applied
    <3>2. n <= known[c]
      BY <1>1, <1>4, <2>3
    <3> HIDE DEF n
    <3> QED BY <1>1, <3>1, <3>2 DEF Types
  <2> QED BY <2>1, <2>2, <2>3
<1>7. pc \in {"ready", "leaving"} /\ (pc = "leaving" => client[c].state = "left")
  BY DEF Written
<1>8. Becomes(c, [conn[c] EXCEPT !.pc = pc, !.cmd = "none", !.statements = n])
  BY <1>2
<1> HIDE DEF n
<1> QED BY <1>3, <1>5, <1>6, <1>7, <1>8, CommandOver

-------------------------------------------------------------------------------
(* serve: its deferred calls.                                               *)

LEMMA LeaveStep ==
    ASSUME Inv, NEW c \in Conns, Leave(c)
    PROVE  Inv'
<1>1. client[c] \in Client /\ conn[c] \in Connection /\ known[c] \in Nat /\ ConnInv(c)
  BY Here
<1> DEFINE e == EndWire(conn[c], "closed")
           r == [e EXCEPT !.pc = "closing"]
<1>2. At(c, "leaving") /\ Becomes(c, r) /\ UNCHANGED <<client, known, pluginVars, processVars>>
  BY DEF Leave
<1>3. /\ e \in Connection /\ e.commandPhase = conn[c].commandPhase /\ e.cut = conn[c].cut
      /\ e.frames = conn[c].frames /\ e.statements = conn[c].statements
      /\ conn[c].wire = "open" => e.wire = "closed" /\ e.cancelled
      /\ conn[c].wire # "open" => e = conn[c]
  <2>1. "closed" \in Ends
    BY DEF Ends
  <2> QED BY <1>1, <2>1, EndWireIs
<1>4. e.cancelled /\ e.wire \in Ends
  <2>1. conn[c].wire \in {"open"} \cup Ends /\ (conn[c].cancelled <=> conn[c].wire \in Ends)
    BY <1>1, <1>2 DEF ConnInv, Phases, At, Ended, Connection, Outside
  <2> QED BY <1>3, <2>1 DEF Ends
<1> HIDE DEF e
<1>5. /\ r \in Connection /\ r.pc = "closing" /\ r.wire = e.wire /\ r.frames = e.frames
      /\ r.commandPhase = e.commandPhase /\ r.cancelled = e.cancelled /\ r.cut = e.cut
      /\ r.statements = e.statements
  <2>1. "closing" \in Pcs
    BY DEF Pcs
  <2> QED BY <1>3, <2>1, MovesOn
<1> HIDE DEF r
<1>6. conn'[c] = r
  BY <1>2, Here, BecomesOnly
<1>7. Bounded(c)' /\ CutByStop(c)'
  BY <1>1, <1>2, <1>3, <1>5, <1>6 DEF ConnInv, Bounded, CutByStop, pluginVars
<1>8. Held(c)'
  BY <1>1, <1>2, <1>3, <1>5, <1>6 DEF ConnInv, Held, At
<1>9. Phases(c)' /\ Patience(c)'
  BY <1>4, <1>5, <1>6 DEF Phases, Ended, Ends, Outside, Session, After, Patience, Waits, Open
<1>10. ConnInv(c)' /\ conn[c].pc \in Inner /\ r.pc \in Inner
  BY <1>2, <1>5, <1>7, <1>8, <1>9 DEF ConnInv, At, Inner, Pcs
<1> QED BY <1>2, <1>5, <1>10, RecordStep

LEMMA CloseReturnsStep ==
    ASSUME Inv, NEW c \in Conns, CloseReturns(c)
    PROVE  Inv'
<1>1. client[c] \in Client /\ conn[c] \in Connection /\ known[c] \in Nat /\ ConnInv(c)
      /\ Types
  BY Here
<1> DEFINE r == [conn[c] EXCEPT !.pc = "ending"]
<1>2. /\ At(c, "closing") /\ Becomes(c, r) /\ known' = [known EXCEPT ![c] = 0]
      /\ UNCHANGED <<client, pluginVars, processVars>>
  BY DEF CloseReturns, Goto
<1>3. /\ r \in Connection /\ r.pc = "ending" /\ r.wire = conn[c].wire
      /\ r.frames = conn[c].frames /\ r.commandPhase = conn[c].commandPhase
      /\ r.cancelled = conn[c].cancelled /\ r.cut = conn[c].cut
  <2>1. "ending" \in Pcs
    BY DEF Pcs
  <2> QED BY <1>1, <2>1, MovesOn
<1> HIDE DEF r
<1>4. /\ conn'[c] = r /\ \A d \in Conns \ {c} : conn'[d] = conn[d]
      /\ conn' \in [Conns -> Connection]
  <2>1. conn' \in [Conns -> Connection]
    BY <1>1, <1>2, <1>3 DEF Becomes, Types
  <2> QED BY <1>1, <1>2, <2>1, BecomesOnly
<1>5. known' \in [Conns -> Nat] /\ \A d \in Conns \ {c} : known'[d] = known[d]
  BY <1>1, <1>2 DEF Types
<1>6. Bounded(c)' /\ CutByStop(c)' /\ Held(c)'
  BY <1>1, <1>2, <1>3, <1>4 DEF ConnInv, Bounded, CutByStop, Held, pluginVars
<1>7. Phases(c)' /\ Patience(c)'
  BY <1>1, <1>2, <1>3, <1>4
     DEF ConnInv, Phases, At, Ended, Ends, Outside, Session, After, Patience, Waits, Open
<1>8. ConnInv(c)' /\ Only(c) /\ Stays(c)
  BY <1>2, <1>3, <1>4, <1>5, <1>6, <1>7 DEF ConnInv, Only, Stays, At, Inner, Pcs
<1> QED BY <1>1, <1>2, <1>4, <1>5, <1>8, LocalStep DEF Types

-------------------------------------------------------------------------------
(* Steps that change the table, the wait group or the accept loop.          *)

LEMMA EndStep ==
    ASSUME Inv, NEW c \in Conns, End(c)
    PROVE  Inv'
<1>1. Types /\ TableInv /\ StopInv
  BY DEF Inv
<1> DEFINE r == [NoConnection EXCEPT !.pc = "over", !.wire = "closed"]
           cl == [Nobody EXCEPT !.state = "left"]
<1>2. /\ At(c, "ending") /\ Becomes(c, r) /\ client' = [client EXCEPT ![c] = cl]
      /\ conns' = conns \ {c} /\ wg' = wg - 1
      /\ UNCHANGED <<known, listener, loop, processVars>>
  BY DEF End
<1>3. /\ r \in Connection /\ r.pc = "over" /\ r.wire = "closed" /\ r.frames = <<>>
      /\ ~r.commandPhase /\ ~r.cut
  <2>1. NoConnection \in Connection /\ NoConnection.frames = <<>>
        /\ ~NoConnection.commandPhase /\ ~NoConnection.cut
    BY NothingYet DEF NoConnection
  <2> QED BY <2>1 DEF Connection, Pcs, Ends
<1>4. cl \in Client /\ cl.sent = 0 /\ cl.owed = 0
  BY DEF Nobody, Client
<1> HIDE DEF r, cl
<1>5. /\ conn'[c] = r /\ \A d \in Conns \ {c} : conn'[d] = conn[d]
      /\ conn' \in [Conns -> Connection]
  BY <1>1, <1>2, <1>3 DEF Becomes, Types
<1>6. /\ client'[c] = cl /\ \A d \in Conns \ {c} : client'[d] = client[d]
      /\ client' \in [Conns -> Client]
  BY <1>1, <1>2, <1>4 DEF Types
<1>7. Types'
  BY <1>1, <1>2, <1>5, <1>6 DEF Types, processVars
<1>8. \A d \in Conns : ConnInv(d)'
  <2>1. Only(c) /\ listener' = listener
    BY <1>2, <1>5, <1>6 DEF Only
  <2>2. Bounded(c)' /\ CutByStop(c)' /\ Held(c)'
    <3>1. 0 <= MaxCommands[c] /\ 0 <= QueueSize /\ Len(<<>>) = 0
      BY WireAssumption
    <3> QED BY <1>3, <1>4, <1>5, <1>6, <3>1 DEF Bounded, CutByStop, Held
  <2>3. Phases(c)' /\ Patience(c)'
    BY <1>3, <1>5 DEF Phases, Ended, Ends, Outside, Session, After, Patience, Waits, Open
  <2>4. ConnInv(c)'
    BY <2>2, <2>3 DEF ConnInv
  <2> QED BY <1>1, <2>1, <2>4, OthersKeep DEF Inv
<1>9. c \in conns
  BY <1>1, <1>2 DEF TableInv, Counted, At
<1>10. TableInv'
  <2>1. conns' = Counted'
    BY <1>1, <1>2, <1>3, <1>5 DEF TableInv, Counted
  <2>2. IsFiniteSet(conns') /\ Cardinality(conns') = Cardinality(conns) - 1
        /\ Cardinality(conns) \in Nat
    BY <1>1, <1>2, <1>9, FS_RemoveElement, FS_CardinalityType DEF TableInv
  <2>3. Cardinality(conns') <= MaxConns
    BY <1>1, <2>2, WireAssumption DEF TableInv
  <2>4. wg' = Cardinality(conns') + (IF loop' \in {"waiting", "admitting"} THEN 1 ELSE 0)
    BY <1>1, <1>2, <2>2 DEF TableInv
  <2>5. \A d \in Conns : At(d, "accepted")' => At(d, "accepted")
    BY <1>3, <1>5 DEF At
  <2> QED BY <1>1, <1>2, <2>1, <2>2, <2>3, <2>4, <2>5 DEF TableInv
<1>11. StopInv'
  BY <1>1, <1>2, <1>9 DEF StopInv, processVars
<1> QED BY <1>7, <1>8, <1>10, <1>11 DEF Inv

LEMMA AcceptStep ==
    ASSUME Inv, NEW c \in Conns, Accept(c)
    PROVE  Inv'
<1>1. /\ Types /\ TableInv /\ StopInv /\ client[c] \in Client /\ conn[c] \in Connection
      /\ ConnInv(c)
  BY Here DEF Inv
<1> DEFINE r == [conn[c] EXCEPT !.pc = "accepted"]
<1>2. /\ loop = "waiting" /\ listener = "open" /\ client[c].state = "connected"
      /\ At(c, "none") /\ Becomes(c, r) /\ loop' = "admitting"
      /\ UNCHANGED <<client, known, listener, conns, wg, processVars>>
  BY DEF Accept, Goto
<1>3. /\ r \in Connection /\ r.pc = "accepted" /\ r.wire = conn[c].wire
      /\ r.commandPhase = conn[c].commandPhase /\ r.cancelled = conn[c].cancelled
      /\ r.cut = conn[c].cut /\ r.net = conn[c].net /\ r.frames = conn[c].frames
      /\ r.cmd = conn[c].cmd /\ r.statements = conn[c].statements
  <2>1. "accepted" \in Pcs
    BY DEF Pcs
  <2> QED BY <1>1, <2>1, MovesOn
<1> HIDE DEF r
<1>4. /\ conn'[c] = r /\ \A d \in Conns \ {c} : conn'[d] = conn[d]
      /\ conn' \in [Conns -> Connection]
  <2>1. conn' \in [Conns -> Connection]
    BY <1>1, <1>2, <1>3 DEF Becomes, Types
  <2> QED BY <1>1, <1>2, <2>1, BecomesOnly
<1>5. Types'
  BY <1>1, <1>2, <1>4 DEF Types, processVars
<1>6. \A d \in Conns : ConnInv(d)'
  <2>1. Only(c)
    BY <1>2, <1>4 DEF Only
  <2>2. Bounded(c)' /\ CutByStop(c)' /\ Held(c)'
    BY <1>1, <1>2, <1>3, <1>4 DEF ConnInv, Bounded, CutByStop, Held, At
  <2>3. Phases(c)' /\ Patience(c)'
    BY <1>1, <1>2, <1>3, <1>4
       DEF ConnInv, Phases, At, Ended, Ends, Outside, Session, After, Patience, Waits, Open
  <2>4. ConnInv(c)'
    BY <2>2, <2>3 DEF ConnInv
  <2> QED BY <1>1, <1>2, <2>1, <2>4, OthersKeep DEF Inv
<1>7. TableInv'
  <2>1. Counted' = Counted
    BY <1>2, <1>3, <1>4 DEF Counted, At
  <2>2. \A d \in Conns : At(d, "accepted")' => d = c
    <3>1. \A d \in Conns : ~At(d, "accepted")
      BY <1>1, <1>2 DEF TableInv
    <3> QED BY <1>4, <3>1 DEF At
  <2> QED BY <1>1, <1>2, <2>1, <2>2 DEF TableInv
<1>8. StopInv'
  BY <1>1, <1>2 DEF StopInv, processVars
<1> QED BY <1>5, <1>6, <1>7, <1>8 DEF Inv

LEMMA AdmitStep ==
    ASSUME Inv, NEW c \in Conns, Admit(c)
    PROVE  Inv'
<1>1. /\ Types /\ TableInv /\ StopInv /\ client[c] \in Client /\ conn[c] \in Connection
      /\ ConnInv(c)
  BY Here DEF Inv
<1>2. At(c, "accepted") /\ loop = "admitting" /\ loop' = "waiting"
      /\ UNCHANGED <<client, known, listener, processVars>>
  BY <1>1 DEF Admit, TableInv
<1>3. PICK pc \in {"refused", "starting"} :
        /\ Goto(c, pc)
        /\ pc = "refused" => UNCHANGED <<conns, wg>>
        /\ pc = "starting" => /\ ~(Cardinality(conns) >= MaxConns)
                              /\ conns' = conns \cup {c} /\ wg' = wg + 1
  BY DEF Admit
<1> DEFINE r == [conn[c] EXCEPT !.pc = pc]
<1>4. /\ r \in Connection /\ r.pc = pc /\ r.wire = conn[c].wire
      /\ r.commandPhase = conn[c].commandPhase /\ r.cancelled = conn[c].cancelled
      /\ r.cut = conn[c].cut /\ r.net = conn[c].net /\ r.frames = conn[c].frames
      /\ r.cmd = conn[c].cmd /\ r.statements = conn[c].statements
  <2>1. pc \in Pcs
    BY DEF Pcs
  <2> QED BY <1>1, <2>1, MovesOn
<1>5. Becomes(c, r)
  BY <1>3 DEF Goto
<1> HIDE DEF r
<1>6. /\ conn'[c] = r /\ \A d \in Conns \ {c} : conn'[d] = conn[d]
      /\ conn' \in [Conns -> Connection]
  <2>1. conn' \in [Conns -> Connection]
    BY <1>1, <1>4, <1>5 DEF Becomes, Types
  <2> QED BY <1>1, <1>5, <2>1, BecomesOnly
<1>7. Types'
  BY <1>1, <1>2, <1>6 DEF Types, processVars
<1>8. \A d \in Conns : ConnInv(d)'
  <2>1. Only(c)
    BY <1>2, <1>6 DEF Only
  <2>2. Bounded(c)' /\ CutByStop(c)' /\ Held(c)'
    BY <1>1, <1>2, <1>4, <1>6 DEF ConnInv, Bounded, CutByStop, Held, At
  <2>3. Phases(c)' /\ Patience(c)'
    BY <1>1, <1>2, <1>4, <1>6
       DEF ConnInv, Phases, At, Ended, Ends, Outside, Session, After, Patience, Waits, Open
  <2>4. ConnInv(c)'
    BY <2>2, <2>3 DEF ConnInv
  <2> QED BY <1>1, <1>2, <2>1, <2>4, OthersKeep DEF Inv
<1>9. TableInv'
  <2>1. \A d \in Conns : ~At(d, "accepted")'
    BY <1>1, <1>2, <1>4, <1>6 DEF TableInv, At
  <2>2. IsFiniteSet(conns) /\ Cardinality(conns) \in Nat /\ MaxConns \in Nat /\ c \notin conns
        /\ conns = Counted /\ wg = Cardinality(conns) + 1
    BY <1>1, <1>2, FS_CardinalityType, WireAssumption DEF TableInv, Counted, At
  <2>3. CASE pc = "refused"
    <3>1. Counted' = Counted
      BY <1>2, <1>4, <1>6, <2>3 DEF Counted, At
    <3> QED BY <1>1, <1>2, <1>3, <2>1, <2>2, <2>3, <3>1 DEF TableInv
  <2>4. CASE pc = "starting"
    <3>1. Counted' = Counted \cup {c}
      BY <1>2, <1>4, <1>6, <2>4 DEF Counted, At
    <3>2. IsFiniteSet(conns') /\ Cardinality(conns') = Cardinality(conns) + 1
      BY <1>3, <2>2, <2>4, FS_AddElement
    <3>3. Cardinality(conns') <= MaxConns /\ wg' = Cardinality(conns') + 1
      BY <1>3, <2>2, <2>4, <3>2
    <3> QED BY <1>1, <1>2, <1>3, <2>1, <2>2, <2>4, <3>1, <3>2, <3>3 DEF TableInv
  <2> QED BY <2>3, <2>4
<1>10. StopInv'
  BY <1>1, <1>2 DEF StopInv, processVars
<1> QED BY <1>7, <1>8, <1>9, <1>10 DEF Inv

\* No step of these touches a connection.
LEMMA ConnectionsKeep ==
    ASSUME \A d \in Conns : ConnInv(d), UNCHANGED connVars,
           listener = "closed" => listener' = "closed"
    PROVE  \A d \in Conns : ConnInv(d)'
<1> SUFFICES ASSUME NEW d \in Conns PROVE ConnInv(d)'
  OBVIOUS
<1>1. client' = client /\ conn' = conn /\ known' = known /\ ConnInv(d)
  BY DEF connVars
<1>2. Bounded(d)' /\ Phases(d)' /\ Held(d)' /\ CutByStop(d)'
  BY <1>1 DEF ConnInv, Bounded, Phases, Held, CutByStop, At, Ended
<1>3. Unanswered(d)' <=> Unanswered(d)
  BY <1>1 DEF Unanswered
<1>4. Patience(d)'
  BY <1>1, <1>3 DEF ConnInv, Patience, Waits, Open
<1> QED BY <1>2, <1>4 DEF ConnInv

LEMMA PluginStep ==
    ASSUME Inv, Start \/ AcceptFails \/ StopReturns \/ DaemonGone
    PROVE  Inv'
<1>1. Types /\ TableInv /\ StopInv
  BY DEF Inv
<1>2. UNCHANGED connVars /\ UNCHANGED conns /\ (listener = "closed" => listener' = "closed")
  BY DEF Start, AcceptFails, StopReturns, DaemonGone, pluginVars
<1>3. \A d \in Conns : ConnInv(d)'
  BY <1>2, ConnectionsKeep DEF Inv
<1>4. Types'
  BY <1>1 DEF Types, Start, AcceptFails, StopReturns, DaemonGone, connVars, pluginVars, processVars
<1>5. Counted' = Counted /\ \A d \in Conns : At(d, "accepted")' <=> At(d, "accepted")
  BY <1>2 DEF Counted, At, connVars
<1>6. Cardinality(conns) \in Nat
  BY <1>1, FS_CardinalityType DEF TableInv
<1>7. TableInv' /\ StopInv'
  <2>1. CASE Start
    <3>1. conns = {} /\ Cardinality(conns) = 0
      BY <1>1, <2>1, FS_EmptySet DEF TableInv, Start
    <3> QED BY <1>1, <1>2, <1>5, <2>1, <3>1 DEF TableInv, StopInv, Start, processVars
  <2>2. CASE AcceptFails
    BY <1>1, <1>2, <1>5, <1>6, <2>2 DEF TableInv, StopInv, AcceptFails, processVars
  <2>3. CASE StopReturns
    <3>1. wg = 0 => loop \in {"off", "ended"} /\ conns = {}
      BY <1>1, <1>6, FS_EmptySet DEF TableInv, Types
    <3> QED BY <1>1, <1>2, <1>5, <2>3, <3>1 DEF TableInv, StopInv, StopReturns, pluginVars
  <2>4. CASE DaemonGone
    BY <1>1, <1>2, <1>5, <2>4 DEF TableInv, StopInv, DaemonGone, pluginVars
  <2> QED BY <2>1, <2>2, <2>3, <2>4
<1> QED BY <1>3, <1>4, <1>7 DEF Inv

LEMMA StopStep ==
    ASSUME Inv, Stop
    PROVE  Inv'
<1>1. Types /\ TableInv /\ StopInv
  BY DEF Inv
<1>2. /\ listener' = "closed" /\ stopper' \in {"daemon", "serve"}
      /\ conn' = [c \in Conns |-> IF c \in conns THEN [conn[c] EXCEPT !.cut = TRUE] ELSE conn[c]]
      /\ UNCHANGED <<client, known, loop, conns, wg, halted, process>>
  BY DEF Stop
<1>3. ASSUME NEW d \in Conns
      PROVE  /\ conn'[d] \in Connection /\ conn'[d].pc = conn[d].pc
             /\ conn'[d].wire = conn[d].wire /\ conn'[d].deadline = conn[d].deadline
             /\ conn'[d].commandPhase = conn[d].commandPhase
             /\ conn'[d].cancelled = conn[d].cancelled /\ conn'[d].net = conn[d].net
             /\ conn'[d].frames = conn[d].frames /\ conn'[d].cmd = conn[d].cmd
             /\ conn'[d].statements = conn[d].statements
  <2>1. conn[d] \in Connection
    BY <1>1 DEF Types
  <2> QED BY <1>2, <2>1 DEF Connection
<1>4. Types'
  BY <1>1, <1>2, <1>3 DEF Types
<1>5. ASSUME NEW d \in Conns PROVE ConnInv(d)'
  <2>1. ConnInv(d)
    BY DEF Inv
  <2>2. Bounded(d)' /\ Phases(d)' /\ Held(d)' /\ CutByStop(d)'
    BY <1>2, <1>3, <2>1 DEF ConnInv, Bounded, Phases, Held, CutByStop, At, Ended
  <2>3. Unanswered(d) => Unanswered(d)'
    BY <1>2, <1>3 DEF Unanswered
  <2>4. ASSUME Waits(d)'
        PROVE  Patience(d)'
    <3>1. Waits(d) /\ Patience(d) /\ client'[d] = client[d]
      BY <1>2, <1>3, <2>1, <2>4 DEF ConnInv, Waits, Open
    <3> QED BY <1>3, <2>3, <3>1 DEF Patience
  <2> QED BY <2>2, <2>4 DEF ConnInv, Patience
<1>6. TableInv'
  <2>1. Counted' = Counted /\ \A d \in Conns : At(d, "accepted")' <=> At(d, "accepted")
    BY <1>3 DEF Counted, At
  <2> QED BY <1>1, <1>2, <2>1 DEF TableInv
<1>7. StopInv'
  BY <1>1, <1>2 DEF StopInv
<1> QED BY <1>4, <1>5, <1>6, <1>7 DEF Inv

-------------------------------------------------------------------------------
(* The theorems.                                                            *)

LEMMA NextInv == Inv /\ [Next]_vars => Inv'
<1> SUFFICES ASSUME Inv, [Next]_vars PROVE Inv'
  OBVIOUS
<1>1. CASE UNCHANGED vars
  <2>1. UNCHANGED connVars /\ UNCHANGED <<pluginVars, processVars>> /\ UNCHANGED listener
    BY <1>1 DEF vars, pluginVars
  <2>2. \A d \in Conns : ConnInv(d)'
    BY <2>1, ConnectionsKeep DEF Inv
  <2> QED BY <2>1, <2>2 DEF Inv, Types, TableInv, StopInv, Counted, At, connVars, pluginVars,
         processVars
<1>2. ASSUME NEW c \in Conns, Serve(c) PROVE Inv'
  <2>1. Loop(c) => Inv'
    BY GotoStep DEF Loop, Pcs
  <2> QED BY <1>2, <2>1, BeginStep, HandshakeStep, BetweenStep, ClearDeadlineStep, ReadStep, GiveUpStep,
         LeaveStep, CloseReturnsStep, EndStep DEF Serve
<1>3. ASSUME NEW c \in Conns, Core(c) PROVE Inv'
  BY <1>3, BetweenStep, OpenedStep, AnswerStep DEF Core
<1> QED BY <1>1, <1>2, <1>3, ApplicationStep, AcceptStep, AdmitStep, PumpStep, PluginStep, StopStep
       DEF Next

\* Every variable has its type, and in every reachable state the table holds exactly the
\* connections whose goroutines run, at most MaxConns, and the wait group counts them
\* and the accept loop (plugin.go, Start and serve).
THEOREM TypeCorrect == Spec => []TypeOK
<1>1. Inv => TypeOK
  BY DEF Inv, Types, TypeOK, ConnInv, Bounded, TableInv, Counted
<1> QED BY <1>1, InitInv, NextInv, PTL DEF Spec

\* After a Stop that succeeded nothing of the plugin is left and nothing starts again:
\* no accept loop, no connection in the table, none that was just accepted.
THEOREM StopCorrect == Spec => []StopLeavesNothing
<1>1. Inv => StopLeavesNothing
  <2> SUFFICES ASSUME Inv, halted PROVE StopLeavesNothing
    BY DEF StopLeavesNothing
  <2>1. loop \in {"off", "ended"} /\ conns = {} /\ conns = Counted
    BY DEF Inv, StopInv, TableInv
  <2>2. ASSUME NEW c \in Conns PROVE conn[c].pc \in {"none", "refused", "over"}
    <3>1. ~At(c, "accepted")
      BY <2>1 DEF Inv, TableInv
    <3> QED BY <2>1, <3>1 DEF Counted, At
  <2> QED BY <2>1, <2>2 DEF StopLeavesNothing
<1> QED BY <1>1, InitInv, NextInv, PTL DEF Spec

-------------------------------------------------------------------------------
(* What a step changes for the client of a connection and for the core.     *)

Stage(c) == IF HungUp(c) THEN "shut" ELSE StageOf[conn[c].pc]
Asked(c) == IF conn[c].pc \in {"selecting", "handling"} THEN conn[c].cmd ELSE "nothing"

LEMMA Stages ==
    /\ StageOf["none"] = "new" /\ StageOf["refused"] = "new" /\ StageOf["accepted"] = "new"
    /\ StageOf["starting"] = "new" /\ StageOf["handshake"] = "new"
    /\ StageOf["selecting"] = "selecting" /\ StageOf["selected"] = "selected"
    /\ StageOf["opening"] = "opening" /\ StageOf["greeted"] = "open"
    /\ StageOf["ready"] = "open" /\ StageOf["reading"] = "open" /\ StageOf["handling"] = "busy"
    /\ StageOf["leaving"] = "open" /\ StageOf["closing"] = "closing"
    /\ StageOf["ending"] = "closed" /\ StageOf["over"] = "closed"
BY DEF StageOf

\* The steps the core may see.
Same(c) == Asked(c)' = Asked(c) /\ known'[c] = known[c]

Moved(c) ==
    /\ \/ Stage(c) \in {"new", "selected"} /\ Stage(c)' = "opening"
       \/ Stage(c) = "opening" /\ Stage(c)' = "open"
       \/ Stage(c) \in {"new", "selected", "opening", "open"} /\ Stage(c)' = "shut"
       \/ Stage(c) \in {"open", "shut"} /\ Stage(c)' = "closing"
    /\ Same(c)

Selects(c) ==
    /\ Stage(c) = "new" /\ Stage(c)' = "selecting"
    /\ Asked(c)' = "use" /\ known'[c] = known[c]

Asks(c) ==
    /\ Stage(c) = "open" /\ Stage(c)' = "busy"
    /\ Asked(c)' \in Dispatched /\ (Asked(c)' = "execute" => known[c] > 0)
    /\ known'[c] = known[c]

Settles(c) ==
    /\ \/ Stage(c) = "selecting" /\ Stage(c)' \in {"selected", "shut"}
       \/ Stage(c) = "busy" /\ Stage(c)' \in {"open", "shut"}
    /\ Asked(c)' = "nothing"
    /\ \/ known'[c] = known[c]
       \/ Asked(c) = "prepare" /\ known'[c] = known[c] + 1
       \/ Asked(c) = "close" /\ known'[c] = known[c] - 1

Closes(c) ==
    Stage(c) = "closing" /\ Stage(c)' = "closed" /\ Asked(c)' = Asked(c) /\ known'[c] = 0

Unseen(c) == Stage(c)' = Stage(c) /\ Same(c)

\* A wire that ends under a client that waits has one of three reasons.
Justified(c) ==
    Waits(c) /\ conn'[c].wire # "open" =>
        \/ conn'[c].wire = "eof" /\ listener = "closed"
        \/ conn'[c].wire = "timeout" /\ (~conn[c].commandPhase \/ At(c, "greeted"))
        \/ conn'[c].wire = "closed" /\ (~conn[c].commandPhase \/ conn'[c].cmd = "quit")

Visible(c) ==
    /\ \A d \in Conns \ {c} : conn'[d] = conn[d] /\ known'[d] = known[d]
    /\ Unseen(c) \/ Moved(c) \/ Selects(c) \/ Asks(c) \/ Settles(c) \/ Closes(c)
    /\ Justified(c)

\* Only queues, clients and numbers of statements change.
LEMMA Quiet ==
    ASSUME Inv, NEW c \in Conns, NEW k, Becomes(c, k), UNCHANGED known,
           k.pc = conn[c].pc, k.wire = conn[c].wire, k.cmd = conn[c].cmd,
           k.commandPhase = conn[c].commandPhase
    PROVE  Visible(c)
<1>1. conn'[c] = k /\ \A d \in Conns \ {c} : conn'[d] = conn[d]
  BY Here, BecomesOnly
<1>2. HungUp(c)' <=> HungUp(c)
  BY <1>1 DEF HungUp, At, Ended
<1>3. Unseen(c)
  BY <1>1, <1>2 DEF Unseen, Same, Stage, Asked, At
<1>4. Justified(c)
  BY <1>1 DEF Justified, Waits, Open
<1> QED BY <1>1, <1>3, <1>4 DEF Visible

\* The wire ends and serve has not noticed yet.
LEMMA WireEnds ==
    ASSUME Inv, NEW c \in Conns, NEW k, Becomes(c, k), UNCHANGED known, Open(c),
           k.pc = conn[c].pc, k.wire \in Ends, k.cmd = conn[c].cmd,
           k.commandPhase = conn[c].commandPhase, Justified(c)
    PROVE  Visible(c)
<1>1. conn'[c] = k /\ \A d \in Conns \ {c} : conn'[d] = conn[d]
  BY Here, BecomesOnly
<1>2. ~Ended(c) /\ Ended(c)' /\ conn[c].pc \in Pcs \ Outside
  BY <1>1, Here DEF Open, Ended, Ends, ConnInv, Phases, Connection
<1>3. Same(c)
  BY <1>1 DEF Same, Asked, At
<1>4. CASE conn[c].pc \in {"handshake", "selected", "greeted", "ready", "reading"}
  <2>1. Stage(c)' = "shut" /\ Stage(c) \in {"new", "selected", "open"}
    BY <1>1, <1>2, <1>4, Stages DEF Stage, HungUp, At
  <2> QED BY <1>1, <1>3, <2>1 DEF Moved, Visible
<1>5. CASE conn[c].pc = "leaving"
  <2>1. Stage(c)' = "shut" /\ Stage(c) \in {"shut", "open"}
    BY <1>1, <1>2, <1>5, Stages DEF Stage, HungUp, At
  <2> QED BY <1>1, <1>3, <2>1 DEF Moved, Unseen, Visible
<1>6. CASE conn[c].pc \in {"selecting", "opening", "handling", "closing", "ending", "over"}
  <2>1. Stage(c)' = Stage(c)
    BY <1>1, <1>6 DEF Stage, HungUp, At
  <2> QED BY <1>1, <1>3, <2>1 DEF Unseen, Visible
<1> QED BY <1>2, <1>4, <1>5, <1>6 DEF Pcs, Outside

LEMMA AtMost ==
    ASSUME NEW a \in Nat, NEW b \in Nat, NEW q \in Nat
    PROVE  /\ q # 0 /\ (a + b <= 1 \/ a + b <= 0) => a + b <= q
           /\ \A o \in Nat : a + b <= o /\ o <= q => a + b <= q
OBVIOUS

LEMMA Room ==
    ASSUME NEW a \in Nat, NEW b \in Nat, NEW q \in Nat, a >= 1, a + b <= q
    PROVE  b < q
OBVIOUS

LEMMA ApplicationSeen ==
    ASSUME Inv, NEW c \in Conns, Application(c)
    PROVE  Visible(c)
<1>1. conn[c] \in Connection
  BY Here
<1>2. CASE UNCHANGED <<conn, known>>
  BY <1>2 DEF Visible, Unseen, Same, Justified, Stage, Asked, HungUp, At, Ended, Waits, Open
<1>3. ASSUME NEW frame, Sends(c, frame), UNCHANGED known
      PROVE  Visible(c)
  <2> DEFINE k == [conn[c] EXCEPT !.net = Append(@, frame)]
  <2>1. /\ k.pc = conn[c].pc /\ k.wire = conn[c].wire /\ k.cmd = conn[c].cmd
        /\ k.commandPhase = conn[c].commandPhase
    BY <1>1 DEF Connection
  <2>2. Becomes(c, k)
    BY <1>3 DEF Sends
  <2> HIDE DEF k
  <2> QED BY <1>3, <2>1, <2>2, Quiet
<1> QED BY <1>2, <1>3 DEF Application, Connect, SendAuth, SendCommand, Disconnect

LEMMA PumpSeen ==
    ASSUME Inv, NEW c \in Conns, Pump(c)
    PROVE  Visible(c)
<1>1. conn[c] \in Connection /\ client[c] \in Client /\ ConnInv(c)
  BY Here
<1>2. Open(c) /\ UNCHANGED known
  BY DEF Pump, PumpEnds, PumpFrame, DeadlinePasses
<1>3. ASSUME NEW k \in Connection, NEW why \in Ends,
             k = conn[c] \/ k = [conn[c] EXCEPT !.net = Tail(@)],
             Becomes(c, EndWire(k, why)),
             Waits(c) => \/ why = "eof" /\ listener = "closed"
                         \/ why = "timeout" /\ (~conn[c].commandPhase \/ At(c, "greeted"))
      PROVE  Visible(c)
  <2>1. /\ k.pc = conn[c].pc /\ k.wire = "open" /\ k.cmd = conn[c].cmd
        /\ k.commandPhase = conn[c].commandPhase
    BY <1>1, <1>2, <1>3 DEF Connection, Open
  <2> DEFINE e == EndWire(k, why)
  <2>2. /\ e.pc = conn[c].pc /\ e.wire = why /\ e.cmd = conn[c].cmd
        /\ e.commandPhase = conn[c].commandPhase
    BY <2>1, EndWireIs
  <2>3. conn'[c] = e
    BY <1>3, Here, BecomesOnly
  <2> HIDE DEF e
  <2>4. Justified(c)
    BY <1>3, <2>2, <2>3 DEF Justified
  <2> QED BY <1>2, <1>3, <2>2, <2>4, WireEnds DEF e
<1>4. CASE PumpEnds(c)
  <2>1. Waits(c) => listener = "closed"
    BY <1>1, <1>4 DEF PumpEnds, Waits, ConnInv, CutByStop
  <2> QED BY <1>1, <1>3, <1>4, <2>1 DEF PumpEnds, Ends
<1>5. CASE DeadlinePasses(c)
  <2>1. Waits(c) => ~conn[c].commandPhase \/ At(c, "greeted")
    BY <1>1, <1>5 DEF DeadlinePasses, ConnInv, Patience, At
  <2> QED BY <1>1, <1>3, <1>5, <2>1 DEF DeadlinePasses, Ends
<1>6. CASE PumpFrame(c)
  <2> DEFINE k == [conn[c] EXCEPT !.net = Tail(@)]
             net == conn[c].net
             frames == conn[c].frames
  <2>1. /\ net \in Seq(Frames) /\ net # <<>> /\ frames \in Seq(Frames)
        /\ Len(net) \in Nat /\ Len(frames) \in Nat /\ QueueSize \in Nat \ {0}
        /\ client[c].owed \in Nat
    BY <1>1, <1>6, WireAssumption DEF Connection, Client, PumpFrame
  <2>2. k \in Connection
    <3>1. Tail(net) \in Seq(Frames)
      BY <2>1, TailAt
    <3> QED BY <1>1, <3>1 DEF Connection
  <2>3. Len(net) >= 1
    BY <2>1
  \* A patient client sends nothing that the pump refuses, and never too much.
  <2>4. ASSUME Waits(c)
        PROVE  Head(net) # "bad" /\ Len(frames) < QueueSize
    <3>1. Patience(c)
      BY <1>1 DEF ConnInv
    <3>2. Head(net) # "bad"
      <4>1. Head(net) = net[1] /\ 1 \in 1..Len(net)
        BY <2>1, TailAt
      <4> QED BY <2>4, <3>1, <4>1 DEF Patience
    <3>3. Len(net) + Len(frames) <= QueueSize
      <4>1. CASE client[c].state = "authenticating"
        <5>1. Len(net) + Len(frames) <= 1 \/ Len(net) + Len(frames) <= 0
          BY <2>4, <3>1, <4>1 DEF Patience
        <5> QED BY <2>1, <5>1, AtMost
      <4>2. CASE client[c].state = "greeted"
        <5>1. Len(net) + Len(frames) <= client[c].owed /\ client[c].owed <= QueueSize
          BY <2>4, <3>1, <4>2 DEF Patience, Unanswered
        <5> QED BY <2>1, <5>1, AtMost
      <4> QED BY <1>1, <2>1, <2>4, <3>1, <4>1, <4>2 DEF Patience, Waits, Client
    <3> QED BY <2>1, <2>3, <3>2, <3>3, Room
  <2>5. CASE ~Waits(c) /\ (Becomes(c, EndWire(k, "bad")) \/ Becomes(c, EndWire(k, "full")))
    BY <1>3, <2>2, <2>5 DEF Ends
  <2>6. CASE Becomes(c, [k EXCEPT !.frames = Append(@, Head(net))])
    <3> DEFINE r == [k EXCEPT !.frames = Append(@, Head(net))]
    <3>1. /\ r.pc = conn[c].pc /\ r.wire = conn[c].wire /\ r.cmd = conn[c].cmd
          /\ r.commandPhase = conn[c].commandPhase
      BY <1>1 DEF Connection
    <3> HIDE DEF r
    <3> QED BY <1>2, <2>6, <3>1, Quiet DEF r
  <2>7. /\ \/ Head(net) = "bad" /\ Becomes(c, EndWire(k, "bad"))
           \/ Len(frames) >= QueueSize /\ Becomes(c, EndWire(k, "full"))
           \/ Becomes(c, [k EXCEPT !.frames = Append(@, Head(net))])
    BY <1>6 DEF PumpFrame
  <2>8. Waits(c) => ~(Len(frames) >= QueueSize)
    BY <2>1, <2>4
  <2> QED BY <2>4, <2>5, <2>6, <2>7, <2>8
<1> QED BY <1>4, <1>5, <1>6 DEF Pump

\* serve moves on, and the wire stays as it is.
LEMMA MovesOnSeen ==
    ASSUME Inv, NEW c \in Conns, NEW k, Becomes(c, k), UNCHANGED known,
           k.wire = conn[c].wire,
           k.commandPhase = conn[c].commandPhase \/ (At(c, "opening") /\ k.commandPhase),
           \/ conn[c].pc \in {"none", "accepted", "starting"}
                 /\ k.pc \in {"refused", "accepted", "starting"}
           \/ At(c, "handshake") /\ k.pc = "opening" /\ ~conn[c].cancelled
           \/ At(c, "selected") /\ k.pc = "opening" /\ ~conn[c].cancelled
           \/ At(c, "handshake") /\ k.pc = "leaving"
           \/ At(c, "selected") /\ k.pc = "leaving"
           \/ At(c, "opening") /\ k.pc = "greeted" /\ Open(c)
           \/ At(c, "opening") /\ k.pc = "leaving"
           \/ At(c, "greeted") /\ k.pc = "ready"
           \/ At(c, "ready") /\ k.pc = "reading"
           \/ At(c, "ready") /\ k.pc = "leaving" /\ conn[c].cancelled
           \/ At(c, "reading") /\ k.pc = "ready"
           \/ At(c, "reading") /\ k.pc = "leaving"
    PROVE  Visible(c)
<1>1. conn'[c] = k /\ \A d \in Conns \ {c} : conn'[d] = conn[d]
  BY Here, BecomesOnly
<1>2. ConnInv(c) /\ conn[c] \in Connection
  BY Here
<1>3. Ended(c)' <=> Ended(c)
  BY <1>1 DEF Ended
<1>4. Same(c)
  BY <1>1 DEF Same, Asked, At
<1>5. Justified(c)
  BY <1>1 DEF Justified, Waits, Open
<1>6. /\ conn[c].wire = "none" <=> conn[c].pc \in Outside
      /\ conn[c].pc # "over" => (conn[c].cancelled <=> Ended(c))
      /\ conn[c].pc \in Session => conn[c].commandPhase
      /\ conn[c].commandPhase => conn[c].pc \in Session \cup {"leaving"} \cup After
  BY <1>2 DEF ConnInv, Phases
<1>7. Open(c) \/ Ended(c) \/ conn[c].wire = "none"
  BY <1>2 DEF Open, Ended, Connection
<1>8. Stage(c)' = (IF HungUp(c)' THEN "shut" ELSE StageOf[k.pc])
  BY <1>1 DEF Stage
<1>9. CASE conn[c].pc \in {"none", "accepted", "starting"}
           /\ k.pc \in {"refused", "accepted", "starting"}
  BY <1>1, <1>4, <1>5, <1>8, <1>9, Stages DEF Stage, HungUp, At, Visible, Unseen
<1>10. CASE \/ At(c, "handshake") /\ k.pc = "opening" /\ ~conn[c].cancelled
            \/ At(c, "selected") /\ k.pc = "opening" /\ ~conn[c].cancelled
  <2>1. Stage(c) \in {"new", "selected"} /\ Stage(c)' = "opening"
    BY <1>1, <1>6, <1>8, <1>10, Stages DEF Stage, HungUp, At
  <2> QED BY <1>1, <1>4, <1>5, <2>1 DEF Visible, Moved
<1>11. CASE \/ At(c, "handshake") /\ k.pc = "leaving"
            \/ At(c, "selected") /\ k.pc = "leaving"
  <2>1. Stage(c) \in {"new", "selected", "shut"} /\ Stage(c)' = "shut"
    BY <1>1, <1>6, <1>8, <1>11, Stages DEF Stage, HungUp, At, Session, After
  <2> QED BY <1>1, <1>4, <1>5, <2>1 DEF Visible, Moved, Unseen
<1>12. CASE At(c, "opening") /\ k.pc = "greeted" /\ Open(c)
  <2>1. Stage(c) = "opening" /\ Stage(c)' = "open"
    BY <1>1, <1>3, <1>8, <1>12, Stages DEF Stage, HungUp, At, Open, Ended, Ends
  <2> QED BY <1>1, <1>4, <1>5, <2>1 DEF Visible, Moved
<1>13. CASE At(c, "opening") /\ k.pc = "leaving"
  <2>1. Stage(c) = "opening" /\ Stage(c)' \in {"open", "shut"}
    BY <1>1, <1>8, <1>13, Stages DEF Stage, HungUp, At
  <2> QED BY <1>1, <1>4, <1>5, <2>1 DEF Visible, Moved
<1>14. CASE At(c, "ready") /\ k.pc = "leaving" /\ conn[c].cancelled
  <2>1. Stage(c) = "shut" /\ Stage(c)' = "shut"
    BY <1>1, <1>3, <1>6, <1>8, <1>14, Stages DEF Stage, HungUp, At
  <2> QED BY <1>1, <1>4, <1>5, <2>1 DEF Visible, Unseen
<1>15. CASE \/ At(c, "greeted") /\ k.pc = "ready"
            \/ At(c, "ready") /\ k.pc = "reading"
            \/ At(c, "reading") /\ k.pc \in {"ready", "leaving"}
  <2>1. k.commandPhase
    BY <1>6, <1>15 DEF At, Session
  <2>2. HungUp(c)' <=> HungUp(c)
    BY <1>1, <1>3, <1>15, <2>1 DEF HungUp, At
  <2>3. Stage(c)' = Stage(c)
    BY <1>8, <1>15, <2>2, Stages DEF Stage, At
  <2> QED BY <1>1, <1>4, <1>5, <2>3 DEF Visible, Unseen
<1> QED BY <1>9, <1>10, <1>11, <1>12, <1>13, <1>14, <1>15

LEMMA OutsideSeen ==
    ASSUME Inv, NEW c \in Conns, Accept(c) \/ Admit(c) \/ Begin(c)
    PROVE  Visible(c)
<1>1. conn[c] \in Connection /\ ConnInv(c) /\ UNCHANGED known
  BY Here DEF Accept, Admit, Begin
<1>2. ASSUME NEW pc \in {"refused", "accepted", "starting"}, Goto(c, pc), Accept(c) \/ Admit(c)
      PROVE  Visible(c)
  <2> DEFINE k == [conn[c] EXCEPT !.pc = pc]
  <2>1. pc \in Pcs /\ conn[c].pc \in {"none", "accepted", "starting"}
    BY <1>2 DEF Pcs, Accept, Admit, At
  <2>2. k.pc = pc /\ k.wire = conn[c].wire /\ k.commandPhase = conn[c].commandPhase
    BY <1>1, <2>1, MovesOn
  <2>3. Becomes(c, k)
    BY <1>2 DEF Goto
  <2> HIDE DEF k
  <2> QED BY <1>1, <2>1, <2>2, <2>3, MovesOnSeen
<1>3. CASE Begin(c)
  <2> DEFINE k == [conn[c] EXCEPT !.pc = "handshake", !.wire = "open", !.deadline = TRUE]
  <2>1. /\ At(c, "starting") /\ Becomes(c, k)
    BY <1>3 DEF Begin
  <2>2. k.pc = "handshake" /\ k.wire = "open"
    BY <1>1 DEF Connection
  <2> HIDE DEF k
  <2>3. conn'[c] = k /\ \A d \in Conns \ {c} : conn'[d] = conn[d]
    BY <2>1, Here, BecomesOnly
  <2>4. Stage(c) = "new" /\ Stage(c)' = "new"
    BY <2>1, <2>2, <2>3, Stages DEF Stage, HungUp, At, Ended, Ends
  <2>5. Unseen(c) /\ Justified(c)
    BY <1>1, <2>1, <2>2, <2>3, <2>4 DEF Unseen, Same, Asked, At, Justified, Waits
  <2> QED BY <1>1, <2>3, <2>5 DEF Visible
<1>4. Admit(c) => Goto(c, "refused") \/ Goto(c, "starting")
  BY DEF Admit
<1> QED BY <1>2, <1>3, <1>4 DEF Accept

\* The core is asked for the database of the handshake, and answers or not.
LEMMA SelectSeen ==
    ASSUME Inv, NEW c \in Conns, NEW k, Becomes(c, k), UNCHANGED known,
           k.wire = conn[c].wire, k.commandPhase = conn[c].commandPhase,
           \/ At(c, "handshake") /\ k.pc = "selecting" /\ k.cmd = "use" /\ ~conn[c].cancelled
           \/ At(c, "selecting") /\ k.pc \in {"selected", "leaving"}
    PROVE  Visible(c)
<1>1. conn'[c] = k /\ \A d \in Conns \ {c} : conn'[d] = conn[d]
  BY Here, BecomesOnly
<1>2. /\ conn[c].pc # "over" => (conn[c].cancelled <=> Ended(c))
      /\ conn[c].commandPhase => conn[c].pc \in Session \cup {"leaving"} \cup After
  BY Here DEF ConnInv, Phases
<1>3. Justified(c)
  BY <1>1 DEF Justified, Waits, Open
<1>4. CASE At(c, "handshake") /\ k.pc = "selecting" /\ k.cmd = "use" /\ ~conn[c].cancelled
  <2>1. Stage(c) = "new" /\ Stage(c)' = "selecting" /\ Asked(c)' = "use"
    BY <1>1, <1>2, <1>4, Stages DEF Stage, Asked, HungUp, At
  <2> QED BY <1>1, <1>3, <2>1 DEF Visible, Selects
<1>5. CASE At(c, "selecting") /\ k.pc \in {"selected", "leaving"}
  <2>1. ~k.commandPhase
    BY <1>2, <1>5 DEF At, Session, After
  <2>2. Stage(c) = "selecting" /\ Stage(c)' \in {"selected", "shut"} /\ Asked(c)' = "nothing"
    BY <1>1, <1>5, <2>1, Stages DEF Stage, Asked, HungUp, At
  <2> QED BY <1>1, <1>3, <2>2 DEF Visible, Settles
<1> QED BY <1>4, <1>5

LEMMA HandshakeSeen ==
    ASSUME Inv, NEW c \in Conns,
           \/ Handshake(c) \/ Selected(c) \/ Authenticate(c) \/ Opened(c)
           \/ HandshakeFails(c) \/ ClearDeadline(c) \/ Loop(c)
    PROVE  Visible(c)
<1>1. conn[c] \in Connection /\ ConnInv(c) /\ UNCHANGED known
  BY Here DEF Handshake, Selected, Authenticate, Opened, HandshakeFails, ClearDeadline, Loop
<1>2. ASSUME NEW pc \in Pcs, Goto(c, pc),
             \/ At(c, "handshake") /\ pc = "leaving"
             \/ At(c, "selected") /\ pc = "leaving"
             \/ At(c, "selected") /\ pc = "opening" /\ ~conn[c].cancelled
             \/ At(c, "ready") /\ pc = IF conn[c].cancelled THEN "leaving" ELSE "reading"
      PROVE  Visible(c)
  <2> DEFINE k == [conn[c] EXCEPT !.pc = pc]
  <2>1. k.pc = pc /\ k.wire = conn[c].wire /\ k.commandPhase = conn[c].commandPhase
    BY <1>1, MovesOn
  <2>2. Becomes(c, k)
    BY <1>2 DEF Goto
  <2> HIDE DEF k
  <2> QED BY <1>1, <1>2, <2>1, <2>2, MovesOnSeen
<1>3. CASE Handshake(c)
  <2> DEFINE f == [conn[c] EXCEPT !.frames = Tail(@)]
  <2>1. ASSUME NEW pc \in {"leaving", "opening"}, pc = "opening" => ~conn[c].cancelled,
               Becomes(c, [f EXCEPT !.pc = pc])
        PROVE  Visible(c)
    <3> DEFINE k == [f EXCEPT !.pc = pc]
    <3>1. k.pc = pc /\ k.wire = conn[c].wire /\ k.commandPhase = conn[c].commandPhase
      BY <1>1 DEF Connection
    <3>2. Becomes(c, k) /\ At(c, "handshake")
      BY <1>3, <2>1 DEF Handshake
    <3> HIDE DEF k
    <3> QED BY <1>1, <2>1, <3>1, <3>2, MovesOnSeen
  <2>2. ASSUME ~conn[c].cancelled, Becomes(c, [f EXCEPT !.pc = "selecting", !.cmd = "use"])
        PROVE  Visible(c)
    <3> DEFINE k == [f EXCEPT !.pc = "selecting", !.cmd = "use"]
    <3>1. /\ k.pc = "selecting" /\ k.cmd = "use" /\ k.wire = conn[c].wire
          /\ k.commandPhase = conn[c].commandPhase
      BY <1>1 DEF Connection
    <3>2. Becomes(c, k) /\ At(c, "handshake")
      BY <1>3, <2>2 DEF Handshake
    <3> HIDE DEF k
    <3> QED BY <1>1, <2>2, <3>1, <3>2, SelectSeen
  <2>3. At(c, "handshake") /\ Goto(c, "leaving") => Visible(c)
    BY <1>2 DEF Pcs
  <2> QED BY <1>3, <2>1, <2>2, <2>3 DEF Handshake, Authenticated
<1>4. CASE Opened(c)
  <2>1. PICK pc \in {"greeted", "leaving"} :
            /\ Becomes(c, [conn[c] EXCEPT !.commandPhase = TRUE, !.pc = pc])
            /\ pc = "greeted" => Open(c)
    BY <1>4 DEF Opened, Written
  <2> DEFINE k == [conn[c] EXCEPT !.commandPhase = TRUE, !.pc = pc]
  <2>2. k.pc = pc /\ k.wire = conn[c].wire /\ k.commandPhase
    BY <1>1 DEF Connection
  <2>3. Becomes(c, k) /\ At(c, "opening")
    BY <1>4, <2>1 DEF Opened
  <2> HIDE DEF k
  <2> QED BY <1>1, <2>1, <2>2, <2>3, MovesOnSeen
<1>5. CASE ClearDeadline(c)
  <2> DEFINE k == [conn[c] EXCEPT !.pc = "ready", !.deadline = @ /\ Ended(c)]
  <2>1. k.pc = "ready" /\ k.wire = conn[c].wire /\ k.commandPhase = conn[c].commandPhase
    BY <1>1 DEF Connection
  <2>2. Becomes(c, k) /\ At(c, "greeted")
    BY <1>5 DEF ClearDeadline
  <2> HIDE DEF k
  <2> QED BY <1>1, <2>1, <2>2, MovesOnSeen
<1>6. ASSUME NEW pc \in {"selected", "leaving"},
             At(c, "selecting") \/ (At(c, "opening") /\ pc = "leaving"),
             Becomes(c, [conn[c] EXCEPT !.pc = pc, !.cmd = "none"])
      PROVE  Visible(c)
  <2> DEFINE k == [conn[c] EXCEPT !.pc = pc, !.cmd = "none"]
  <2>1. k.pc = pc /\ k.wire = conn[c].wire /\ k.commandPhase = conn[c].commandPhase
    BY <1>1 DEF Connection
  <2>2. Becomes(c, k)
    BY <1>6
  <2> HIDE DEF k
  <2>3. CASE At(c, "selecting")
    BY <1>1, <2>1, <2>2, <2>3, SelectSeen
  <2>4. CASE At(c, "opening") /\ pc = "leaving"
    BY <1>1, <2>1, <2>2, <2>4, MovesOnSeen
  <2> QED BY <1>6, <2>3, <2>4
<1>7. Selected(c) \/ HandshakeFails(c) => Visible(c)
  BY <1>6 DEF Selected, HandshakeFails
<1>8. Authenticate(c) \/ Loop(c) => Visible(c)
  BY <1>2 DEF Authenticate, Authenticated, Loop, Pcs
<1> QED BY <1>3, <1>4, <1>5, <1>7, <1>8

LEMMA ReadSeen ==
    ASSUME Inv, NEW c \in Conns, Read(c)
    PROVE  Visible(c)
<1>1. conn[c] \in Connection /\ ConnInv(c) /\ UNCHANGED known /\ At(c, "reading")
  BY Here DEF Read
<1>2. /\ conn[c].commandPhase /\ (conn[c].cancelled <=> Ended(c))
      /\ conn[c].statements <= known[c] /\ conn[c].wire # "none"
      /\ conn[c].statements \in Nat /\ known[c] \in Nat
  BY <1>1, Here, WireAssumption
     DEF ConnInv, Phases, Held, At, Session, Outside, Connection
<1>3. Open(c) \/ Ended(c)
  BY <1>1, <1>2 DEF Open, Ended, Connection
<1>4. CASE Ended(c) /\ Goto(c, "leaving")
  <2> DEFINE k == [conn[c] EXCEPT !.pc = "leaving"]
  <2>1. k.pc = "leaving" /\ k.wire = conn[c].wire /\ k.commandPhase = conn[c].commandPhase
    BY <1>1 DEF Connection
  <2>2. Becomes(c, k)
    BY <1>4 DEF Goto
  <2> HIDE DEF k
  <2> QED BY <1>1, <2>1, <2>2, MovesOnSeen
<1> DEFINE cmd == Head(conn[c].frames)
           rest == Tail(conn[c].frames)
           n == IF cmd = "close" /\ NeedsCore(c, cmd) THEN conn[c].statements - 1
                ELSE conn[c].statements
           k == [conn[c] EXCEPT !.frames = rest, !.statements = n]
<1>5. CASE conn[c].frames # <<>> /\ Command(c, k, cmd)
  <2>1. n \in 0..MaxStatements
    BY <1>1, WireAssumption DEF Connection, NeedsCore
  <2>2. rest \in Seq(Frames)
    BY <1>1, <1>5, TailAt DEF Connection
  <2> HIDE DEF n, cmd, rest
  <2>3. /\ k \in Connection /\ k.pc = "reading" /\ k.wire = conn[c].wire
        /\ k.commandPhase /\ k.cancelled = conn[c].cancelled
    BY <1>1, <1>2, <2>1, <2>2 DEF Connection, At
  <2> HIDE DEF k
  <2>4. ASSUME NEW pc \in {"ready", "leaving"}, Becomes(c, [k EXCEPT !.pc = pc])
        PROVE  Visible(c)
    <3> DEFINE r == [k EXCEPT !.pc = pc]
    <3>1. r.pc = pc /\ r.wire = conn[c].wire /\ r.commandPhase = conn[c].commandPhase
      BY <1>2, <2>3 DEF Connection
    <3>2. Becomes(c, r)
      BY <2>4
    <3> HIDE DEF r
    <3> QED BY <1>1, <3>1, <3>2, MovesOnSeen
  <2>5. CASE NeedsCore(c, cmd) /\ ~k.cancelled /\ Becomes(c, [k EXCEPT !.pc = "handling", !.cmd = cmd])
    <3> DEFINE r == [k EXCEPT !.pc = "handling", !.cmd = cmd]
    <3>1. r.pc = "handling" /\ r.wire = conn[c].wire /\ r.cmd = cmd
      BY <2>3 DEF Connection
    <3>2. Becomes(c, r)
      BY <2>5
    <3> HIDE DEF r
    <3>3. conn'[c] = r /\ \A d \in Conns \ {c} : conn'[d] = conn[d]
      BY <3>2, Here, BecomesOnly
    <3>4. Stage(c) = "open" /\ Stage(c)' = "busy" /\ Asked(c)' = cmd
      BY <1>1, <1>2, <2>3, <2>5, <3>1, <3>3, Stages DEF Stage, Asked, HungUp, At
    <3>5. cmd \in Dispatched /\ (cmd = "execute" => known[c] > 0)
      BY <1>2, <2>5 DEF NeedsCore, Dispatched
    <3>6. Justified(c)
      BY <3>1, <3>3 DEF Justified, Waits, Open
    <3> QED BY <1>1, <3>3, <3>4, <3>5, <3>6 DEF Visible, Asks
  <2>6. CASE Becomes(c, [EndWire(k, "closed") EXCEPT !.pc = "ready", !.cmd = "quit"])
    <3> DEFINE e == EndWire(k, "closed")
               r == [e EXCEPT !.pc = "ready", !.cmd = "quit"]
    <3>1. /\ e \in Connection
          /\ k.wire = "open" => e.wire = "closed"
          /\ k.wire # "open" => e = k
      <4>1. "closed" \in Ends
        BY DEF Ends
      <4> QED BY <2>3, <4>1, EndWireIs
    <3>2. Becomes(c, r)
      BY <2>6
    <3> HIDE DEF e
    <3>3. r.pc = "ready" /\ r.wire = e.wire /\ r.cmd = "quit"
      BY <3>1 DEF Connection
    <3>4. r.wire \in Ends /\ (conn[c].wire = "open" => r.wire = "closed")
      BY <1>3, <2>3, <3>1, <3>3 DEF Open, Ended, Ends
    <3> HIDE DEF r
    <3>5. conn'[c] = r /\ \A d \in Conns \ {c} : conn'[d] = conn[d]
      BY <3>2, Here, BecomesOnly
    <3>6. Stage(c) \in {"open", "shut"} /\ Stage(c)' = "shut"
      BY <1>1, <3>3, <3>4, <3>5, Stages DEF Stage, HungUp, At, Ended
    <3>7. Same(c) /\ Justified(c)
      BY <1>1, <3>3, <3>4, <3>5 DEF Same, Asked, At, Justified, Waits, Open
    <3> QED BY <1>1, <3>5, <3>6, <3>7 DEF Visible, Moved, Unseen
  <2> QED BY <1>5, <2>4, <2>5, <2>6 DEF Command, Written
<1> QED BY <1>4, <1>5 DEF Read

LEMMA CommandSeen ==
    ASSUME Inv, NEW c \in Conns, Answer(c) \/ GiveUp(c)
    PROVE  Visible(c)
<1>1. conn[c] \in Connection /\ ConnInv(c) /\ known[c] \in Nat /\ Types /\ At(c, "handling")
  BY Here DEF Answer, GiveUp
<1>2. ASSUME NEW r, Becomes(c, r), r.pc \in {"ready", "leaving"}, r.wire = conn[c].wire,
             r.commandPhase = conn[c].commandPhase,
             \A d \in Conns \ {c} : known'[d] = known[d],
             \/ known'[c] = known[c]
             \/ conn[c].cmd = "prepare" /\ known'[c] = known[c] + 1
             \/ conn[c].cmd = "close" /\ known'[c] = known[c] - 1
      PROVE  Visible(c)
  <2>1. conn'[c] = r /\ \A d \in Conns \ {c} : conn'[d] = conn[d]
    BY <1>2, Here, BecomesOnly
  <2>2. Stage(c) = "busy" /\ Asked(c) = conn[c].cmd /\ Asked(c)' = "nothing"
    BY <1>1, <1>2, <2>1, Stages DEF Stage, Asked, HungUp, At
  <2>3. Stage(c)' \in {"open", "shut"}
    BY <1>2, <2>1, Stages DEF Stage
  <2>4. Justified(c)
    BY <1>2, <2>1 DEF Justified, Waits, Open
  <2> QED BY <1>2, <2>1, <2>2, <2>3, <2>4 DEF Visible, Settles
<1>3. CASE GiveUp(c)
  <2> DEFINE r == [conn[c] EXCEPT !.pc = "ready", !.cmd = "none"]
  <2>1. r.pc = "ready" /\ r.wire = conn[c].wire /\ r.commandPhase = conn[c].commandPhase
    BY <1>1 DEF Connection
  <2>2. Becomes(c, r) /\ UNCHANGED known
    BY <1>3 DEF GiveUp
  <2> HIDE DEF r
  <2> QED BY <1>2, <2>1, <2>2
<1>4. CASE Answer(c)
  <2>1. PICK ok \in BOOLEAN, pc \in Written(c, "ready") :
          /\ Applied(c, ok)
          /\ Becomes(c, [conn[c] EXCEPT
                !.pc = pc, !.cmd = "none",
                !.statements = IF conn[c].cmd = "prepare" /\ ok /\ @ < MaxStatements
                               THEN @ + 1 ELSE @])
    BY <1>4 DEF Answer
  <2> DEFINE n == IF conn[c].cmd = "prepare" /\ ok /\ conn[c].statements < MaxStatements
                  THEN conn[c].statements + 1 ELSE conn[c].statements
             r == [conn[c] EXCEPT !.pc = pc, !.cmd = "none", !.statements = n]
  <2>2. Becomes(c, r)
    BY <2>1
  <2> HIDE DEF n
  <2>3. r.pc = pc /\ r.wire = conn[c].wire /\ r.commandPhase = conn[c].commandPhase
    BY <1>1 DEF Connection
  <2>4. pc \in {"ready", "leaving"}
    BY DEF Written
  <2>5. /\ \A d \in Conns \ {c} : known'[d] = known[d]
        /\ \/ known'[c] = known[c]
           \/ conn[c].cmd = "prepare" /\ known'[c] = known[c] + 1
           \/ conn[c].cmd = "close" /\ known'[c] = known[c] - 1
    BY <1>1, <2>1 DEF Applied, Types
  <2> HIDE DEF r
  <2> QED BY <1>2, <2>2, <2>3, <2>4, <2>5
<1> QED BY <1>3, <1>4

LEMMA DeferredSeen ==
    ASSUME Inv, NEW c \in Conns, Leave(c) \/ CloseReturns(c) \/ End(c)
    PROVE  Visible(c)
<1>1. conn[c] \in Connection /\ ConnInv(c) /\ Types
  BY Here
<1>2. CASE Leave(c)
  <2> DEFINE e == EndWire(conn[c], "closed")
             r == [e EXCEPT !.pc = "closing"]
  <2>1. /\ e \in Connection
        /\ conn[c].wire = "open" => e.wire = "closed"
        /\ conn[c].wire # "open" => e = conn[c]
    <3>1. "closed" \in Ends
      BY DEF Ends
    <3> QED BY <1>1, <3>1, EndWireIs
  <2>2. At(c, "leaving") /\ Becomes(c, r) /\ UNCHANGED known
    BY <1>2 DEF Leave
  <2> HIDE DEF e
  <2>3. r.pc = "closing" /\ r.wire = e.wire
    BY <2>1 DEF Connection
  <2> HIDE DEF r
  <2>4. conn'[c] = r /\ \A d \in Conns \ {c} : conn'[d] = conn[d]
    BY <2>2, Here, BecomesOnly
  <2>5. Stage(c) \in {"open", "shut"} /\ Stage(c)' = "closing"
    BY <2>2, <2>3, <2>4, Stages DEF Stage, HungUp, At
  <2>6. Same(c)
    BY <2>2, <2>3, <2>4 DEF Same, Asked, At
  <2>7. Justified(c)
    <3>1. Waits(c) => ~conn[c].commandPhase /\ conn[c].wire = "open"
      BY <1>1, <2>2 DEF ConnInv, Patience, At, Waits, Open
    <3> QED BY <2>1, <2>3, <2>4, <3>1 DEF Justified
  <2> QED BY <2>2, <2>4, <2>5, <2>6, <2>7 DEF Visible, Moved
<1>3. CASE CloseReturns(c)
  <2> DEFINE r == [conn[c] EXCEPT !.pc = "ending"]
  <2>1. At(c, "closing") /\ Becomes(c, r) /\ known' = [known EXCEPT ![c] = 0]
    BY <1>3 DEF CloseReturns, Goto
  <2>2. r.pc = "ending" /\ r.wire = conn[c].wire
    BY <1>1 DEF Connection
  <2> HIDE DEF r
  <2>3. conn'[c] = r /\ \A d \in Conns \ {c} : conn'[d] = conn[d]
    BY <2>1, Here, BecomesOnly
  <2>4. Stage(c) = "closing" /\ Stage(c)' = "closed" /\ Asked(c)' = Asked(c)
    BY <2>1, <2>2, <2>3, Stages DEF Stage, Asked, HungUp, At
  <2>5. Justified(c)
    BY <2>2, <2>3 DEF Justified, Waits, Open
  <2>6. known'[c] = 0 /\ \A d \in Conns \ {c} : known'[d] = known[d]
    BY <1>1, <2>1 DEF Types
  <2> QED BY <2>3, <2>4, <2>5, <2>6 DEF Visible, Closes
<1>4. CASE End(c)
  <2> DEFINE r == [NoConnection EXCEPT !.pc = "over", !.wire = "closed"]
  <2>1. At(c, "ending") /\ Becomes(c, r) /\ UNCHANGED known
    BY <1>4 DEF End
  <2>2. r.pc = "over" /\ r.wire = "closed"
    BY NothingYet DEF Connection
  <2> HIDE DEF r
  <2>3. conn'[c] = r /\ \A d \in Conns \ {c} : conn'[d] = conn[d]
    BY <2>1, Here, BecomesOnly
  <2>4. Unseen(c)
    BY <2>1, <2>2, <2>3, Stages DEF Unseen, Same, Stage, Asked, HungUp, At
  <2>5. Justified(c)
    BY <1>1, <2>1 DEF Justified, Waits, Open, ConnInv, Phases, At, After, Ended, Ends
  <2> QED BY <2>1, <2>3, <2>4, <2>5 DEF Visible
<1> QED BY <1>2, <1>3, <1>4

\* A step is either one of a connection, or nothing the core and the clients see.
LEMMA StepSeen ==
    ASSUME Inv, [Next]_vars
    PROVE  \/ \E c \in Conns : Visible(c)
           \/ \A c \in Conns : Unseen(c) /\ Justified(c)
<1>1. CASE UNCHANGED <<conn, known>>
  BY <1>1 DEF Unseen, Same, Justified, Stage, Asked, HungUp, At, Ended, Waits, Open
<1>2. CASE Stop
  <2>1. /\ UNCHANGED known
        /\ conn' = [c \in Conns |-> IF c \in conns THEN [conn[c] EXCEPT !.cut = TRUE]
                                    ELSE conn[c]]
    BY <1>2 DEF Stop
  <2>2. ASSUME NEW d \in Conns
        PROVE  /\ conn'[d].pc = conn[d].pc /\ conn'[d].wire = conn[d].wire
               /\ conn'[d].commandPhase = conn[d].commandPhase /\ conn'[d].cmd = conn[d].cmd
    <3>1. conn[d] \in Connection
      BY Here
    <3> QED BY <2>1, <3>1 DEF Connection
  <2>3. ASSUME NEW d \in Conns PROVE Unseen(d) /\ Justified(d)
    <3>1. HungUp(d)' <=> HungUp(d)
      BY <2>2 DEF HungUp, At, Ended
    <3> QED BY <2>1, <2>2, <3>1 DEF Unseen, Same, Justified, Stage, Asked, At, Waits, Open
  <2> QED BY <2>3
<1>3. ASSUME NEW c \in Conns, Serve(c) PROVE Visible(c)
  BY <1>3, OutsideSeen, HandshakeSeen, ReadSeen, CommandSeen, DeferredSeen DEF Serve
<1>4. ASSUME NEW c \in Conns, Core(c) PROVE Visible(c)
  BY <1>4, HandshakeSeen, CommandSeen DEF Core
<1>5. UNCHANGED vars => UNCHANGED <<conn, known>>
  BY DEF vars, connVars
<1>6. Start \/ AcceptFails \/ StopReturns \/ DaemonGone => UNCHANGED <<conn, known>>
  BY DEF Start, AcceptFails, StopReturns, DaemonGone, connVars
<1> QED BY <1>1, <1>2, <1>3, <1>4, <1>5, <1>6, ApplicationSeen, OutsideSeen, PumpSeen DEF Next

\* What a step of one connection is to the abstract specification.
LEMMA VisibleIsAllowed ==
    ASSUME Types, Types', NEW c \in Conns, Visible(c)
    PROVE  [Promise!Next]_Promise!vars
<1> DEFINE stage == [d \in Conns |-> Stage(d)]
           asked == [d \in Conns |-> Asked(d)]
<1>1. /\ stage = [d \in Conns |-> IF HungUp(d) THEN "shut" ELSE StageOf[conn[d].pc]]
      /\ asked = [d \in Conns |-> IF conn[d].pc \in {"selecting", "handling"}
                               THEN conn[d].cmd ELSE "nothing"]
  BY DEF Stage, Asked
<1>2. ASSUME NEW d \in Conns \ {c} PROVE Stage(d)' = Stage(d) /\ Asked(d)' = Asked(d)
  BY DEF Visible, Stage, Asked, HungUp, At, Ended
<1>3. known \in [Conns -> Nat] /\ known' \in [Conns -> Nat]
      /\ \A d \in Conns \ {c} : known'[d] = known[d]
  BY DEF Types, Visible
<1>4. stage' = [stage EXCEPT ![c] = Stage(c)'] /\ asked' = [asked EXCEPT ![c] = Asked(c)']
      /\ known' = [known EXCEPT ![c] = known'[c]]
  BY <1>2, <1>3
<1>5. stage[c] = Stage(c) /\ asked[c] = Asked(c)
  OBVIOUS
<1>6. /\ Asked(c)' = Asked(c) => asked' = asked
      /\ Stage(c)' = Stage(c) => stage' = stage
      /\ known'[c] = known[c] => known' = known
  BY <1>2, <1>3
<1>7. /\ stage' = [d \in Conns |-> IF HungUp(d) THEN "shut" ELSE StageOf[conn[d].pc]]'
      /\ asked' = [d \in Conns |-> IF conn[d].pc \in {"selecting", "handling"}
                               THEN conn[d].cmd ELSE "nothing"]'
  BY DEF Stage, Asked
<1> HIDE DEF stage, asked
<1>8. CASE Unseen(c)
  <2>1. stage' = stage /\ asked' = asked /\ known' = known
    BY <1>6, <1>8 DEF Unseen, Same
  <2> QED BY <1>1, <1>7, <2>1 DEF Promise!vars
<1>9. CASE Moved(c)
  <2>1. asked' = asked /\ known' = known
    BY <1>6, <1>9 DEF Moved, Same
  <2>2. Promise!Open(c) \/ Promise!Opened(c) \/ Promise!HangUp(c) \/ Promise!Close(c)
    BY <1>1, <1>4, <1>5, <1>7, <1>9, <2>1
       DEF Moved, Promise!Open, Promise!Opened, Promise!HangUp, Promise!Close, Promise!Moves
  <2> QED BY <2>2 DEF Promise!Next
<1>10. CASE Asks(c)
  <2>1. known' = known
    BY <1>6, <1>10 DEF Asks
  <2>2. PICK op \in Promise!Operations : op = Asked(c)'
    BY <1>10 DEF Asks, Promise!Operations, Dispatched
  <2>3. Promise!Ask(c, op)
    BY <1>1, <1>4, <1>5, <1>7, <1>10, <2>1, <2>2 DEF Asks, Promise!Ask, Promise!Moves
  <2> QED BY <2>2, <2>3 DEF Promise!Next
<1>11. CASE Selects(c)
  <2>1. known' = known
    BY <1>6, <1>11 DEF Selects
  <2>2. Promise!Select(c)
    BY <1>1, <1>4, <1>5, <1>7, <1>11, <2>1 DEF Selects, Promise!Select, Promise!Moves
  <2> QED BY <2>2 DEF Promise!Next
<1>12. CASE Settles(c)
  <2>1. Promise!Settle(c)
    BY <1>1, <1>3, <1>4, <1>5, <1>6, <1>7, <1>12 DEF Settles, Promise!Settle, Promise!Moves
  <2> QED BY <2>1 DEF Promise!Next
<1>13. CASE Closes(c)
  <2>1. asked' = asked
    BY <1>6, <1>13 DEF Closes
  <2>2. Promise!Closed(c)
    BY <1>1, <1>4, <1>5, <1>7, <1>13, <2>1 DEF Closes, Promise!Closed, Promise!Moves
  <2> QED BY <2>2 DEF Promise!Next
<1> QED BY <1>8, <1>9, <1>10, <1>11, <1>12, <1>13 DEF Visible

\* The core's view: before a connection is opened nothing but its database is selected,
\* at most once; it has one request under way at a time, executes only what was prepared
\* for it, and is closed once and last, opened or not, whenever its client, the daemon or
\* Stop end it (plugin.go, OnAuthSuccess and serve; handler.go, UseDB and call).
THEOREM ConnectionImplemented == Spec => ImplementsConnection
<1>1. Init => Promise!Init
  <2> SUFFICES ASSUME Init PROVE Promise!Init
    OBVIOUS
  <2>1. \A c \in Conns : conn[c] = NoConnection /\ known = [d \in Conns |-> 0]
    BY DEF Init
  <2>2. \A c \in Conns : conn[c].pc = "none" /\ ~HungUp(c)
    BY <2>1 DEF NoConnection, HungUp, At, Ended, Ends
  <2> QED BY <2>2, Stages DEF Promise!Init, Init, At
<1>2. Inv /\ [Next]_vars => [Promise!Next]_Promise!vars
  <2> SUFFICES ASSUME Inv, [Next]_vars PROVE [Promise!Next]_Promise!vars
    OBVIOUS
  <2>1. Types /\ Types'
    BY NextInv DEF Inv
  <2>2. CASE \E c \in Conns : Visible(c)
    BY <2>1, <2>2, VisibleIsAllowed
  <2>3. CASE \A c \in Conns : Unseen(c) /\ Justified(c)
    <3>1. CASE Conns = {}
      BY <2>1, <3>1 DEF Types, Promise!vars
    <3>2. CASE Conns # {}
      <4>1. PICK c \in Conns : TRUE
        BY <3>2
      <4>2. known' = known
        BY <2>1, <2>3 DEF Types, Unseen, Same
      <4>3. \A d \in Conns : Stage(d)' = Stage(d) /\ Asked(d)' = Asked(d)
        BY <2>3 DEF Unseen, Same
      <4> QED BY <4>2, <4>3 DEF Promise!vars, Stage, Asked
    <3> QED BY <3>1, <3>2
  <2> QED BY <2>2, <2>3, StepSeen
<1> QED BY <1>1, <1>2, InitInv, NextInv, PTL DEF Spec, ImplementsConnection, Promise!Spec

\* A client that waits for its answers is not cut off, however slow core and agent are:
\* no queue of it overflows, no deadline of the handshake outlives the handshake, and
\* its wire is closed only by Stop or on its own request (connection.go, pump).
THEOREM PatientStay == Spec => PatientClientsStay
<1>1. Inv /\ [Next]_vars =>
        \A c \in Patient :
          Open(c) /\ conn'[c].wire # "open" /\ client[c].state # "left" =>
             \/ conn'[c].wire = "eof" /\ listener = "closed"
             \/ conn'[c].wire = "timeout" /\ (~conn[c].commandPhase \/ At(c, "greeted"))
             \/ conn'[c].wire = "closed" /\ (~conn[c].commandPhase \/ conn'[c].cmd = "quit")
  <2> SUFFICES ASSUME Inv, [Next]_vars, NEW c \in Patient, Waits(c), conn'[c].wire # "open"
               PROVE  \/ conn'[c].wire = "eof" /\ listener = "closed"
                      \/ conn'[c].wire = "timeout" /\ (~conn[c].commandPhase \/ At(c, "greeted"))
                      \/ conn'[c].wire = "closed" /\ (~conn[c].commandPhase \/ conn'[c].cmd = "quit")
    BY DEF Waits
  <2>1. c \in Conns
    BY WireAssumption
  <2>2. Justified(c) \/ conn'[c] = conn[c]
    BY <2>1, StepSeen DEF Visible
  <2>3. Justified(c)
    BY <2>2 DEF Waits, Open
  <2> QED BY <2>3 DEF Justified
<1> QED BY <1>1, InitInv, NextInv, PTL DEF Spec, PatientClientsStay

===============================================================================
