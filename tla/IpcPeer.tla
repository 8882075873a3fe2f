-------------------------------- MODULE IpcPeer --------------------------------
(***************************************************************************)
(* internal/plugin/ipc/peer.go: the two ends of the JSON-RPC pipes between *)
(* the host and the process of a plugin.  Either end calls the other, so   *)
(* both run the same code: any number of Calls and handlers, one read loop *)
(* that must never wait for a handler, and one write loop behind a bounded *)
(* queue.  The application's requests and the deadlines of the generation  *)
(* queue travel through here, as calls and as cancellations.               *)
(*                                                                         *)
(* A frame that is malformed, too long or of an unknown kind shuts a peer  *)
(* down as the end of its input does; peers do not send one.  Notify is    *)
(* not used by the program.                                                *)
(***************************************************************************)
EXTENDS Naturals, Sequences, FiniteSets

CONSTANTS
    Peers, Calls,
    CallerOf,       \* the peer that makes a call
    MaxPending,     \* 128 calls that wait for an answer
    MaxWrites,      \* 128 frames in the queue of the write loop
    MaxHandlers,    \* 32 handlers at a time
    PipeRoom,       \* frames the operating system buffers
    NoFrame

ASSUME IpcAssumption ==
    /\ IsFiniteSet(Calls)
    /\ \E p, q \in Peers : p # q /\ Peers = {p, q}
    /\ CallerOf \in [Calls -> Peers]
    /\ MaxPending \in Nat /\ MaxWrites \in Nat /\ MaxHandlers \in Nat
    /\ PipeRoom \in Nat \ {0}
    /\ NoFrame \notin [kind : {"request", "cancel", "answer", "refused"}, id : Calls]

VARIABLES
    call,       \* Call: where it is, and what it returns
    ctx,        \* calls whose context is done
    ch,         \* the channel of a call, with room for one answer
    sent,       \* job.done of its request
    pending,    \* p.pending
    err,        \* p.err, set when p.done is closed
    open,       \* the pipe ends of p are open
    writes,     \* p.writes
    writing,    \* the job of the write loop
    wire,       \* frames of p that the other peer has not read
    delivering, \* the answer that the read loop is about to put into a channel
    handler,    \* the handler of a call, in the other peer
    hctx        \* calls whose handler has been cancelled

callVars == <<call, ctx, ch, sent, pending>>
pipeVars == <<err, open, writes, writing, wire, delivering>>
vars == <<callVars, pipeVars, handler, hctx>>

-------------------------------------------------------------------------------
Kinds == {"request", "cancel", "answer", "refused"}
Frame == [kind : Kinds, id : Calls]
Msg(kind, c) == [kind |-> kind, id |-> c]

Other(p) == CHOOSE q \in Peers : q # p
CalleeOf(c) == Other(CallerOf[c])

\* "leaving" is Call before its deferred removal from p.pending.
Pcs == {"idle", "registered", "sending", "waiting", "leaving", "done"}
Outcomes == {"none", "answer", "refused", "context", "closed", "full"}
Reasons == {"none", "closed", "eof", "overflow", "write"}

Init ==
    /\ call = [c \in Calls |-> [pc |-> "idle", out |-> "none"]]
    /\ ctx = {}
    /\ ch = [c \in Calls |-> "empty"]
    /\ sent = [c \in Calls |-> "no"]
    /\ pending = [p \in Peers |-> {}]
    /\ err = [p \in Peers |-> "none"]
    /\ open = [p \in Peers |-> TRUE]
    /\ writes = [p \in Peers |-> <<>>]
    /\ writing = [p \in Peers |-> NoFrame]
    /\ wire = [p \in Peers |-> <<>>]
    /\ delivering = [p \in Peers |-> NoFrame]
    /\ handler = [c \in Calls |-> "none"]
    /\ hctx = {}

\* Handlers that hold a slot of p.
Active(p) == {c \in Calls : CalleeOf(c) = p /\ handler[c] \in {"running", "responded"}}
InFlight(c) == call[c].pc \notin {"idle", "done"}

Goto(c, pc) == call' = [call EXCEPT ![c].pc = pc]
Leave(c, out) == call' = [call EXCEPT ![c] = [pc |-> "leaving", out |-> out]]

-------------------------------------------------------------------------------
(* Shutdown, and the queue of the write loop when nobody may wait for it.    *)

\* The critical section of shutdown, which runs once.
Shutdown(p, e) ==
    /\ err' = [err EXCEPT ![p] = e]
    /\ ch' = [c \in Calls |-> IF c \in pending[p] THEN "closed" ELSE ch[c]]
    /\ pending' = [pending EXCEPT ![p] = {}]
    /\ hctx' = hctx \cup Active(p)

\* Mutant: a frame that does not fit is dropped.
Enqueue_Drops(p, f) ==
    /\ writes' = IF err[p] = "none" /\ Len(writes[p]) < MaxWrites
                 THEN [writes EXCEPT ![p] = Append(@, f)] ELSE writes
    /\ UNCHANGED <<err, ch, pending, hctx>>

\* enqueue() never waits: a full queue ends the connection.
Enqueue(p, f) ==
    \/ /\ err[p] # "none"
       /\ UNCHANGED <<writes, err, ch, pending, hctx>>
    \/ /\ err[p] = "none" /\ Len(writes[p]) < MaxWrites
       /\ writes' = [writes EXCEPT ![p] = Append(@, f)]
       /\ UNCHANGED <<err, ch, pending, hctx>>
    \/ /\ err[p] = "none" /\ Len(writes[p]) >= MaxWrites
       /\ Shutdown(p, "overflow")
       /\ UNCHANGED writes

\* Close(), or the end of the process.
Close(p) ==
    /\ err[p] = "none"
    /\ Shutdown(p, "closed")
    /\ UNCHANGED <<call, ctx, sent, open, writes, writing, wire, delivering, handler>>

\* The pipes are closed after p.mu is released: what p has not read is discarded,
\* and its write loop, whose next write fails, ends and leaves the queue.
ClosePipes(p) ==
    /\ err[p] # "none" /\ open[p]
    /\ open' = [open EXCEPT ![p] = FALSE]
    /\ wire' = [wire EXCEPT ![Other(p)] = <<>>]
    /\ writes' = [writes EXCEPT ![p] = <<>>]
    /\ writing' = [writing EXCEPT ![p] = NoFrame]
    /\ UNCHANGED <<callVars, err, delivering, handler, hctx>>

-------------------------------------------------------------------------------
(* Call.                                                                    *)

\* Mutant: p.err is not looked at under the lock.
Rejection_IgnoresErr(p) ==
    IF Cardinality(pending[p]) >= MaxPending THEN "full" ELSE "none"

\* Why a call is not even sent.
Rejection(p) ==
    IF err[p] # "none" THEN "closed"
    ELSE IF Cardinality(pending[p]) >= MaxPending THEN "full"
    ELSE "none"

\* A context that is done before the call returns at once: no call.
Begin(c) ==
    LET p == CallerOf[c]
    IN  /\ call[c].pc = "idle" /\ c \notin ctx
        /\ \/ /\ Rejection(p) # "none"
              /\ call' = [call EXCEPT ![c] = [pc |-> "done", out |-> Rejection(p)]]
              /\ UNCHANGED pending
           \/ /\ Rejection(p) = "none"
              /\ pending' = [pending EXCEPT ![p] = @ \cup {c}]
              /\ Goto(c, "registered")
        /\ UNCHANGED <<ctx, ch, sent, pipeVars, handler, hctx>>

ContextEnds(c) ==
    /\ InFlight(c)
    /\ ctx' = ctx \cup {c}
    /\ UNCHANGED <<call, ch, sent, pending, pipeVars, handler, hctx>>

\* Mutant: nobody is told that the call is over.
Cancel_Silent(c) ==
    /\ Leave(c, "context")
    /\ UNCHANGED <<writes, err, ch, pending, hctx>>

\* cancelRequest(), which does not know whether the request was sent.
Cancel(c) ==
    /\ Leave(c, "context")
    /\ Enqueue(CallerOf[c], Msg("cancel", c))

\* send(): the request enters the queue when there is room (once the write loop
\* has ended that makes no difference any more).
Send(c) ==
    LET p == CallerOf[c]
    IN  /\ call[c].pc = "registered"
        /\ \/ /\ open[p] /\ Len(writes[p]) < MaxWrites
              /\ writes' = [writes EXCEPT ![p] = Append(@, Msg("request", c))]
              /\ Goto(c, "sending")
              /\ UNCHANGED <<err, ch, pending, hctx>>
           \/ c \in ctx /\ Cancel(c)
           \/ /\ err[p] # "none"
              /\ Leave(c, "closed")
              /\ UNCHANGED <<writes, err, ch, pending, hctx>>
        /\ UNCHANGED <<ctx, sent, open, writing, wire, delivering, handler>>

\* send(): the write loop reports the write; or the call ends before that.
AwaitWrite(c) ==
    /\ call[c].pc = "sending"
    /\ \/ /\ sent[c] = "yes"
          /\ Goto(c, "waiting")
          /\ UNCHANGED <<writes, err, ch, pending, hctx>>
       \/ c \in ctx /\ Cancel(c)
       \/ /\ sent[c] = "failed" \/ err[CallerOf[c]] # "none"
          /\ Leave(c, "closed")
          /\ UNCHANGED <<writes, err, ch, pending, hctx>>
    /\ UNCHANGED <<ctx, sent, open, writing, wire, delivering, handler>>

\* The last select of Call takes any of the cases that are ready.
AwaitAnswer(c) ==
    /\ call[c].pc = "waiting"
    /\ \/ /\ ch[c] # "empty"
          /\ Leave(c, ch[c])
          /\ ch' = [ch EXCEPT ![c] = "empty"]
          /\ UNCHANGED <<writes, err, pending, hctx>>
       \/ c \in ctx /\ Cancel(c)
       \/ /\ err[CallerOf[c]] # "none"
          /\ Leave(c, "closed")
          /\ UNCHANGED <<writes, err, ch, pending, hctx>>
    /\ UNCHANGED <<ctx, sent, open, writing, wire, delivering, handler>>

\* The deferred removal.
Return(c) ==
    /\ call[c].pc = "leaving"
    /\ Goto(c, "done")
    /\ pending' = [pending EXCEPT ![CallerOf[c]] = @ \ {c}]
    /\ UNCHANGED <<ctx, ch, sent, pipeVars, handler, hctx>>

-------------------------------------------------------------------------------
(* writeLoop.                                                               *)

TakeJob(p) ==
    /\ writing[p] = NoFrame /\ writes[p] # <<>>
    /\ writing' = [writing EXCEPT ![p] = Head(writes[p])]
    /\ writes' = [writes EXCEPT ![p] = Tail(@)]
    /\ UNCHANGED <<callVars, err, open, wire, delivering, handler, hctx>>

Report(f, result) ==
    sent' = IF f.kind = "request" THEN [sent EXCEPT ![f.id] = result] ELSE sent

\* The write waits while the pipe is full and its other end is open.
WriteFrame(p) ==
    LET f == writing[p]
    IN  /\ f # NoFrame
        /\ \/ /\ open[p] /\ open[Other(p)] /\ Len(wire[p]) < PipeRoom
              /\ wire' = [wire EXCEPT ![p] = Append(@, f)]
              /\ writing' = [writing EXCEPT ![p] = NoFrame]
              /\ Report(f, "yes")
              /\ UNCHANGED <<err, ch, pending, hctx>>
           \/ /\ ~open[Other(p)]
              /\ writing' = [writing EXCEPT ![p] = NoFrame]
              /\ Report(f, "failed")
              /\ IF err[p] = "none" THEN Shutdown(p, "write")
                 ELSE UNCHANGED <<err, ch, pending, hctx>>
              /\ UNCHANGED wire
        /\ UNCHANGED <<call, ctx, open, writes, delivering, handler>>

-------------------------------------------------------------------------------
(* readLoop: one frame at a time.  A peer that is shut down ignores frames.  *)

Readable(p, kinds) ==
    /\ err[p] = "none" /\ delivering[p] = NoFrame
    /\ wire[Other(p)] # <<>> /\ Head(wire[Other(p)]).kind \in kinds
Consume(p) == wire' = [wire EXCEPT ![Other(p)] = Tail(@)]

\* Mutant: one handler too many.
Room_OffByOne(p) == Cardinality(Active(p)) <= MaxHandlers

Room(p) == Cardinality(Active(p)) < MaxHandlers

\* Mutant: the refusal is sent without its error.
Refuse_AsAnswer(p, c) ==
    /\ handler' = [handler EXCEPT ![c] = "refused"]
    /\ Enqueue(p, Msg("answer", c))

Refuse(p, c) ==
    /\ handler' = [handler EXCEPT ![c] = "refused"]
    /\ Enqueue(p, Msg("refused", c))

\* startHandler: a slot is taken or the request refused, without waiting.
ReadRequest(p) ==
    LET c == Head(wire[Other(p)]).id
    IN  /\ Readable(p, {"request"})
        /\ Consume(p)
        /\ \/ /\ Room(p)
              /\ handler' = [handler EXCEPT ![c] = "running"]
              /\ UNCHANGED <<writes, err, ch, pending, hctx>>
           \/ ~Room(p) /\ Refuse(p, c)
        /\ UNCHANGED <<call, ctx, sent, open, writing, delivering>>

\* p.running no longer holds a handler that has ended.
ReadCancel(p) ==
    LET c == Head(wire[Other(p)]).id
    IN  /\ Readable(p, {"cancel"})
        /\ Consume(p)
        /\ hctx' = hctx \cup ({c} \cap Active(p))
        /\ UNCHANGED <<callVars, err, open, writes, writing, delivering, handler>>

\* Mutant: the call stays in p.pending until it returns.
TakeOut_Late(p, c) == pending' = pending

TakeOut(p, c) == pending' = [pending EXCEPT ![p] = @ \ {c}]

\* The call is taken out of p.pending; a late answer is dropped.
ReadAnswer(p) ==
    LET f == Head(wire[Other(p)])
    IN  /\ Readable(p, {"answer", "refused"})
        /\ Consume(p)
        /\ delivering' = [delivering EXCEPT ![p] = IF f.id \in pending[p] THEN f ELSE NoFrame]
        /\ TakeOut(p, f.id)
        /\ UNCHANGED <<call, ctx, ch, sent, err, open, writes, writing, handler, hctx>>

\* The answer enters the channel after p.mu is released.
Deliver(p) ==
    LET f == delivering[p]
    IN  /\ f # NoFrame
        /\ ch[f.id] = "empty"
        /\ ch' = [ch EXCEPT ![f.id] = f.kind]
        /\ delivering' = [delivering EXCEPT ![p] = NoFrame]
        /\ UNCHANGED <<call, ctx, sent, pending, err, open, writes, writing, wire,
                       handler, hctx>>

ReadEOF(p) ==
    /\ err[p] = "none" /\ delivering[p] = NoFrame
    /\ wire[Other(p)] = <<>> /\ ~open[Other(p)]
    /\ Shutdown(p, "eof")
    /\ UNCHANGED <<call, ctx, sent, open, writes, writing, wire, delivering, handler>>

-------------------------------------------------------------------------------
(* The goroutine of a handler: it answers first and frees its slot later.    *)

Respond(c) ==
    /\ handler[c] = "running"
    /\ handler' = [handler EXCEPT ![c] = "responded"]
    /\ Enqueue(CalleeOf(c), Msg("answer", c))
    /\ UNCHANGED <<call, ctx, sent, open, writing, wire, delivering>>

Cleanup(c) ==
    /\ handler[c] = "responded"
    /\ handler' = [handler EXCEPT ![c] = "ended"]
    /\ UNCHANGED <<callVars, pipeVars, hctx>>

-------------------------------------------------------------------------------
Caller(c) == Begin(c) \/ Send(c) \/ AwaitWrite(c) \/ AwaitAnswer(c) \/ Return(c)
WriteLoop(p) == TakeJob(p) \/ WriteFrame(p)
ReadLoop(p) ==
    ReadRequest(p) \/ ReadCancel(p) \/ ReadAnswer(p) \/ Deliver(p) \/ ReadEOF(p)

Next ==
    \/ \E c \in Calls : Caller(c) \/ ContextEnds(c) \/ Respond(c) \/ Cleanup(c)
    \/ \E p \in Peers : WriteLoop(p) \/ ReadLoop(p) \/ Close(p) \/ ClosePipes(p)

Spec == Init /\ [][Next]_vars

(* Goroutines that can run do.  A handler need not end, unless it has been   *)
(* cancelled; a call need not begin, no context need end.                    *)
Fairness ==
    /\ \A c \in Calls :
          /\ WF_vars(InFlight(c) /\ Caller(c))
          /\ WF_vars(c \in hctx /\ Respond(c))
          /\ WF_vars(Cleanup(c))
    /\ \A p \in Peers :
          WF_vars(WriteLoop(p)) /\ WF_vars(ReadLoop(p)) /\ WF_vars(ClosePipes(p))

FairSpec == Spec /\ Fairness

-------------------------------------------------------------------------------
(* Properties.                                                              *)

\* Every variable has its type, and no bound of the peer is exceeded.
TypeOK ==
    /\ call \in [Calls -> [pc : Pcs, out : Outcomes]]
    /\ ctx \subseteq Calls /\ hctx \subseteq Calls
    /\ ch \in [Calls -> {"empty", "answer", "refused", "closed"}]
    /\ sent \in [Calls -> {"no", "yes", "failed"}]
    /\ pending \in [Peers -> SUBSET Calls]
    /\ err \in [Peers -> Reasons] /\ open \in [Peers -> BOOLEAN]
    /\ writes \in [Peers -> Seq(Frame)] /\ wire \in [Peers -> Seq(Frame)]
    /\ writing \in [Peers -> Frame \cup {NoFrame}]
    /\ delivering \in [Peers -> Frame \cup {NoFrame}]
    /\ handler \in [Calls -> {"none", "running", "responded", "refused", "ended"}]
    /\ \A p \in Peers : /\ Len(writes[p]) <= MaxWrites /\ Len(wire[p]) <= PipeRoom
                        /\ Cardinality(pending[p]) <= MaxPending
                        /\ Cardinality(Active(p)) <= MaxHandlers

\* Whoever is to put an answer into a channel finds room there: otherwise the
\* read loop would stop, or shutdown would, with p.mu held.
ChannelHasRoom ==
    \A p \in Peers, c \in Calls :
        c \in pending[p] \/ (delivering[p] # NoFrame /\ delivering[p].id = c)
        => ch[c] = "empty"

\* After its shutdown a peer has no waiting call, and every handler that still
\* runs there has been cancelled.
ShutdownIsComplete ==
    \A p \in Peers : err[p] # "none" => pending[p] = {} /\ Active(p) \subseteq hctx

\* Only an answer of the handler is reported as one, and QUEUE_FULL of the other
\* side only for a request that never ran: it is safe to repeat.
OutcomeMatchesHandler ==
    \A c \in Calls :
        /\ call[c].out = "answer" => handler[c] \in {"responded", "ended"}
        /\ call[c].out = "refused" => handler[c] = "refused"

\* A handler whose caller has given up is cancelled and ends, also when the
\* request was still queued or the cancellation found the queue full: again and
\* again there is no such handler (a call has one).
CancelledHandlersEnd ==
    []<>(\A c \in Calls : call[c].out = "context" => handler[c] # "running")

\* A call that was answered, refused or given up, or whose peer is shut down,
\* returns, whatever the queues and the other calls do.
Settled(c) ==
    \/ handler[c] \in {"responded", "refused", "ended"}
    \/ c \in ctx
    \/ err[CallerOf[c]] # "none"

SettledCallsReturn ==
    []<>(\A c \in Calls : InFlight(c) => ~Settled(c))
===============================================================================
