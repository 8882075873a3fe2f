----------------------------- MODULE IpcPeerProofs -----------------------------
(* What IpcPeer guarantees for any number of calls and any bounds.          *)
EXTENDS IpcPeer, FiniteSetTheorems, TLAPS

-------------------------------------------------------------------------------
(* The inductive invariant.                                                 *)

\* Every variable but the lengths has its type.
Types ==
    /\ call \in [Calls -> [pc : Pcs, out : Outcomes]]
    /\ ctx \subseteq Calls /\ hctx \subseteq Calls
    /\ ch \in [Calls -> {"empty", "answer", "refused", "closed"}]
    /\ sent \in [Calls -> {"no", "yes", "failed"}]
    /\ pending \in [Peers -> SUBSET Calls]
    /\ err \in [Peers -> Reasons] /\ open \in [Peers -> BOOLEAN]
    /\ writes \in [Peers -> Seq(Frame)] /\ wire \in [Peers -> Seq(Frame)]
    /\ writing \in [Peers -> Frame \cup {NoFrame}]
    /\ delivering \in [Peers -> Frame \cup {NoFrame}]
    /\ handler \in [Calls -> {"none", "running", "responded", "refused", "ended"}]

\* A call that has not begun has an empty channel; one that waits, or whose answer
\* is being delivered, has begun, belongs to the peer, and is in one place only.
ChannelInv ==
    /\ \A c \in Calls : call[c].pc = "idle" => ch[c] = "empty"
    /\ \A p \in Peers : \A c \in pending[p] :
          CallerOf[c] = p /\ call[c].pc # "idle" /\ ch[c] = "empty"
    /\ \A p \in Peers : delivering[p] # NoFrame =>
          LET c == delivering[p].id
          IN  /\ delivering[p].kind \in {"answer", "refused"}
              /\ CallerOf[c] = p /\ c \notin pending[p]
              /\ call[c].pc # "idle" /\ ch[c] = "empty"

LEMMA Pair ==
    \A p \in Peers : /\ Other(p) \in Peers /\ Other(p) # p /\ Other(Other(p)) = p
                     /\ \A q \in Peers : q # p => q = Other(p)
<1> TAKE p \in Peers
<1>1. PICK a, b \in Peers : a # b /\ Peers = {a, b}
  BY IpcAssumption
<1>2. \A q \in Peers : Other(q) \in Peers /\ Other(q) # q
  BY <1>1 DEF Other
<1> QED BY <1>1, <1>2

LEMMA InitInv == Init => Types /\ ChannelInv
BY IpcAssumption DEF Init, Types, ChannelInv, Pcs, Outcomes, Reasons, Frame

\* What shutdown and enqueue leave true of the variables that they write.
Kept ==
    /\ err' \in [Peers -> Reasons] /\ pending' \in [Peers -> SUBSET Calls]
    /\ ch' \in [Calls -> {"empty", "answer", "refused", "closed"}]
    /\ hctx' \subseteq Calls
    /\ \A c \in Calls : call[c].pc = "idle" => ch'[c] = "empty"
    /\ \A q \in Peers : \A c \in pending'[q] : c \in pending[q] /\ ch'[c] = "empty"
    /\ \A q \in Peers : delivering[q] # NoFrame => ch'[delivering[q].id] = "empty"

LEMMA FrameIds == \A f \in Frame : f.id \in Calls /\ f.kind \in Kinds
BY DEF Frame

LEMMA UnchangedKeeps ==
    ASSUME Types, ChannelInv, UNCHANGED <<err, ch, pending, hctx>>
    PROVE  Kept
BY DEF Types, ChannelInv, Kept

LEMMA ShutdownKeeps ==
    ASSUME Types, ChannelInv, NEW p \in Peers, NEW e \in Reasons, Shutdown(p, e)
    PROVE  Kept
<1>1. err' \in [Peers -> Reasons] /\ pending' \in [Peers -> SUBSET Calls]
  BY DEF Types, Shutdown
<1>2. ch' \in [Calls -> {"empty", "answer", "refused", "closed"}] /\ hctx' \subseteq Calls
  BY DEF Types, Shutdown, Active
<1>3. \A c \in Calls : call[c].pc = "idle" => ch'[c] = "empty"
  BY DEF Types, ChannelInv, Shutdown
<1>4. \A q \in Peers : \A c \in pending'[q] : c \in pending[q] /\ ch'[c] = "empty"
  <2> SUFFICES ASSUME NEW q \in Peers, NEW c \in pending'[q]
               PROVE  c \in pending[q] /\ ch'[c] = "empty"
    OBVIOUS
  <2>1. q # p /\ c \in pending[q]
    BY DEF Types, Shutdown
  <2>2. c \in Calls /\ ch[c] = "empty" /\ CallerOf[c] = q
    BY <2>1 DEF Types, ChannelInv
  <2>3. c \notin pending[p]
    BY <2>1, <2>2 DEF ChannelInv
  <2> QED BY <2>1, <2>2, <2>3 DEF Shutdown
<1>5. ASSUME NEW q \in Peers, delivering[q] # NoFrame
      PROVE  ch'[delivering[q].id] = "empty"
  <2>1. delivering[q].id \in Calls
    BY <1>5, FrameIds DEF Types
  <2>2. CallerOf[delivering[q].id] = q /\ delivering[q].id \notin pending[q]
        /\ ch[delivering[q].id] = "empty"
    BY <1>5 DEF ChannelInv
  <2>3. delivering[q].id \notin pending[p]
    BY <2>2 DEF ChannelInv
  <2> QED BY <2>1, <2>2, <2>3 DEF Shutdown
<1> QED BY <1>1, <1>2, <1>3, <1>4, <1>5 DEF Kept

LEMMA EnqueueKeeps ==
    ASSUME Types, ChannelInv, NEW p \in Peers, NEW f \in Frame, Enqueue(p, f)
    PROVE  Kept /\ writes' \in [Peers -> Seq(Frame)]
<1>1. CASE UNCHANGED <<writes, err, ch, pending, hctx>>
  BY <1>1, UnchangedKeeps DEF Types
<1>2. CASE /\ writes' = [writes EXCEPT ![p] = Append(@, f)]
           /\ UNCHANGED <<err, ch, pending, hctx>>
  BY <1>2, UnchangedKeeps DEF Types
<1>3. CASE Shutdown(p, "overflow") /\ UNCHANGED writes
  BY <1>3, ShutdownKeeps DEF Types, Reasons
<1> QED BY <1>1, <1>2, <1>3 DEF Enqueue

\* A step that keeps what the calls are doing and what is delivered.
LEMMA KeptInv ==
    ASSUME Types, ChannelInv, Kept, UNCHANGED delivering,
           \A c \in Calls : call'[c].pc = "idle" <=> call[c].pc = "idle"
    PROVE  ChannelInv'
<1>1. \A p \in Peers : delivering[p] # NoFrame => delivering[p].id \in Calls
  BY FrameIds DEF Types
<1>2. \A p \in Peers : pending[p] \subseteq Calls /\ pending'[p] \subseteq pending[p]
  BY DEF Types, Kept
<1>3. \A c \in Calls : call'[c].pc = "idle" => ch'[c] = "empty"
  BY DEF Kept
<1>4. \A p \in Peers : \A c \in pending'[p] :
         CallerOf[c] = p /\ call'[c].pc # "idle" /\ ch'[c] = "empty"
  BY <1>2 DEF ChannelInv, Kept
<1>5. \A p \in Peers : delivering'[p] # NoFrame =>
         LET c == delivering'[p].id
         IN  /\ delivering'[p].kind \in {"answer", "refused"}
             /\ CallerOf[c] = p /\ c \notin pending'[p]
             /\ call'[c].pc # "idle" /\ ch'[c] = "empty"
  BY <1>1, <1>2 DEF ChannelInv, Kept
<1> QED BY <1>3, <1>4, <1>5 DEF ChannelInv

-------------------------------------------------------------------------------
(* The steps.                                                               *)

LEMMA CallerStep ==
    ASSUME Types, ChannelInv, NEW c \in Calls, Caller(c) \/ ContextEnds(c)
    PROVE  Types' /\ ChannelInv'
<1> DEFINE p == CallerOf[c]
<1>0. p \in Peers /\ Msg("request", c) \in Frame /\ Msg("cancel", c) \in Frame
  BY IpcAssumption DEF Msg, Frame, Kinds
<1>1. CASE Begin(c)
  <2>1. Rejection(p) \in Outcomes
    BY DEF Rejection, Outcomes
  <2>3. /\ pending' = pending \/ pending' = [pending EXCEPT ![p] = @ \cup {c}]
        /\ call[c].pc = "idle" /\ ch[c] = "empty"
        /\ UNCHANGED <<ctx, ch, sent, pipeVars, handler, hctx>>
    BY <1>1 DEF Begin, ChannelInv
  <2>4. call' \in [Calls -> [pc : Pcs, out : Outcomes]]
        /\ \A d \in Calls : call'[d].pc = "idle" => d # c /\ call[d].pc = "idle"
    <3>1. CASE call' = [call EXCEPT ![c] = [pc |-> "done", out |-> Rejection(p)]]
      BY <2>1, <3>1 DEF Types, Pcs
    <3>2. CASE Goto(c, "registered")
      BY <3>2 DEF Types, Goto, Pcs
    <3> QED BY <1>1, <3>1, <3>2 DEF Begin
  <2>5. pending' \in [Peers -> SUBSET Calls]
        /\ \A q \in Peers : \A d \in pending'[q] :
              d \in pending[q] \/ (d = c /\ q = p)
    <3>1. CASE pending' = pending
      BY <3>1 DEF Types
    <3>2. CASE pending' = [pending EXCEPT ![p] = pending[p] \cup {c}]
      <4>1. pending[p] \cup {c} \in SUBSET Calls
        BY <1>0 DEF Types
      <4> QED BY <1>0, <3>2, <4>1 DEF Types
    <3> QED BY <2>3, <3>1, <3>2
  <2>6. Types'
    BY <2>3, <2>4, <2>5 DEF Types, pipeVars
  <2>7. \A d \in Calls : call'[d].pc = "idle" => ch'[d] = "empty"
    BY <2>3, <2>4 DEF ChannelInv
  <2>9. \A q \in Peers : \A d \in pending'[q] :
           CallerOf[d] = q /\ call'[d].pc # "idle" /\ ch'[d] = "empty"
    BY <2>3, <2>4, <2>5 DEF ChannelInv
  <2>10. ASSUME NEW q \in Peers, delivering[q] # NoFrame
         PROVE  LET d == delivering[q].id
                IN  /\ delivering[q].kind \in {"answer", "refused"}
                    /\ CallerOf[d] = q /\ d \notin pending'[q]
                    /\ call'[d].pc # "idle" /\ ch'[d] = "empty"
    <3>1. delivering[q].id \in Calls
      BY <2>10, FrameIds DEF Types
    <3>2. delivering[q].id # c
      BY <2>3, <2>10 DEF ChannelInv
    <3> QED BY <2>3, <2>4, <2>5, <2>10, <3>1, <3>2 DEF ChannelInv
  <2> QED BY <2>3, <2>6, <2>7, <2>9, <2>10 DEF ChannelInv, pipeVars
<1>2. CASE ContextEnds(c)
  BY <1>2 DEF Types, ChannelInv, ContextEnds, pipeVars
<1>3. ASSUME Cancel(c), UNCHANGED <<ctx, sent, open, writing, wire, delivering, handler>>,
             call[c].pc # "idle"
      PROVE  Types' /\ ChannelInv'
  <2>1. Kept /\ writes' \in [Peers -> Seq(Frame)]
    BY <1>0, <1>3, EnqueueKeeps DEF Cancel
  <2>2. Types'
    BY <1>3, <2>1 DEF Types, Kept, Cancel, Leave, Pcs, Outcomes
  <2>3. \A d \in Calls : call'[d].pc = "idle" <=> call[d].pc = "idle"
    BY <1>3 DEF Types, Cancel, Leave
  <2> QED BY <1>3, <2>1, <2>2, <2>3, KeptInv
<1>4. ASSUME Leave(c, "closed"), UNCHANGED <<writes, err, ch, pending, hctx>>,
             UNCHANGED <<ctx, sent, open, writing, wire, delivering, handler>>,
             call[c].pc # "idle"
      PROVE  Types' /\ ChannelInv'
  <2>1. Types'
    BY <1>4 DEF Types, Leave, Pcs, Outcomes
  <2>2. \A d \in Calls : call'[d].pc = "idle" <=> call[d].pc = "idle"
    BY <1>4 DEF Types, Leave
  <2> QED BY <1>4, <2>1, <2>2, UnchangedKeeps, KeptInv
<1>5. CASE Send(c)
  <2>1. CASE /\ writes' = [writes EXCEPT ![p] = Append(@, Msg("request", c))]
             /\ Goto(c, "sending")
             /\ UNCHANGED <<err, ch, pending, hctx>>
    <3>1. call' \in [Calls -> [pc : Pcs, out : Outcomes]]
      BY <2>1 DEF Types, Goto, Pcs
    <3>3. writes' \in [Peers -> Seq(Frame)]
      BY <1>0, <2>1 DEF Types
    <3>4. Types'
      BY <1>5, <2>1, <3>1, <3>3 DEF Types, Send
    <3>2. \A d \in Calls : call'[d].pc = "idle" <=> call[d].pc = "idle"
      BY <1>5, <2>1 DEF Types, Send, Goto
    <3> QED BY <1>5, <2>1, <3>2, <3>4, UnchangedKeeps, KeptInv DEF Send
  <2> QED BY <1>3, <1>4, <1>5, <2>1 DEF Send
<1>6. CASE AwaitWrite(c)
  <2>1. CASE Goto(c, "waiting") /\ UNCHANGED <<writes, err, ch, pending, hctx>>
    <3>1. Types'
      BY <1>6, <2>1 DEF Types, AwaitWrite, Goto, Pcs
    <3>2. \A d \in Calls : call'[d].pc = "idle" <=> call[d].pc = "idle"
      BY <1>6, <2>1 DEF Types, AwaitWrite, Goto
    <3> QED BY <1>6, <2>1, <3>1, <3>2, UnchangedKeeps, KeptInv DEF AwaitWrite
  <2> QED BY <1>3, <1>4, <1>6, <2>1 DEF AwaitWrite
<1>7. CASE AwaitAnswer(c)
  <2>1. CASE /\ ch[c] # "empty" /\ Leave(c, ch[c])
             /\ ch' = [ch EXCEPT ![c] = "empty"]
             /\ UNCHANGED <<writes, err, pending, hctx>>
    <3>1. Types'
      BY <1>7, <2>1 DEF Types, AwaitAnswer, Leave, Pcs, Outcomes
    <3>2. \A d \in Calls : call'[d].pc = "idle" <=> call[d].pc = "idle"
      BY <1>7, <2>1 DEF Types, AwaitAnswer, Leave
    <3>3. Kept
      BY <1>7, <2>1, FrameIds DEF Types, ChannelInv, Kept, AwaitAnswer
    <3> QED BY <1>7, <3>1, <3>2, <3>3, KeptInv DEF AwaitAnswer
  <2> QED BY <1>3, <1>4, <1>7, <2>1 DEF AwaitAnswer
<1>8. CASE Return(c)
  <2>1. Types'
    BY <1>0, <1>8 DEF Types, Return, Goto, Pcs, pipeVars
  <2>2. \A d \in Calls : call'[d].pc = "idle" <=> call[d].pc = "idle"
    BY <1>8 DEF Types, Return, Goto
  <2>3. Kept
    BY <1>0, <1>8 DEF Types, ChannelInv, Kept, Return, pipeVars
  <2> QED BY <1>8, <2>1, <2>2, <2>3, KeptInv DEF Return, pipeVars
<1> QED BY <1>1, <1>2, <1>5, <1>6, <1>7, <1>8 DEF Caller

LEMMA ReasonsAndFrames ==
    /\ Reasons = {"none", "closed", "eof", "overflow", "write"}
    /\ \A c \in Calls : /\ Msg("answer", c) \in Frame /\ Msg("refused", c) \in Frame
                       /\ CalleeOf(c) \in Peers
BY IpcAssumption, Pair DEF Reasons, Msg, Frame, Kinds, CalleeOf

LEMMA WriteLoopStep ==
    ASSUME Types, ChannelInv, NEW p \in Peers, WriteLoop(p) \/ Close(p) \/ ClosePipes(p)
    PROVE  Types' /\ ChannelInv'
<1>1. CASE TakeJob(p)
  <2>1. Head(writes[p]) \in Frame /\ Tail(writes[p]) \in Seq(Frame)
    BY <1>1 DEF Types, TakeJob
  <2>2. writes' \in [Peers -> Seq(Frame)]
    BY <1>1, <2>1 DEF Types, TakeJob
  <2>3. writing' \in [Peers -> Frame \cup {NoFrame}]
    BY <1>1, <2>1 DEF Types, TakeJob
  <2>4. Types'
    BY <1>1, <2>2, <2>3 DEF Types, TakeJob, callVars
  <2> QED BY <1>1, <2>4, UnchangedKeeps, KeptInv DEF TakeJob, callVars
<1>2. CASE WriteFrame(p)
  <2>1. writing[p] \in Frame /\ writing[p].id \in Calls
    BY <1>2, FrameIds DEF Types, WriteFrame
  <2>2. sent' \in [Calls -> {"no", "yes", "failed"}]
    BY <1>2, <2>1 DEF Types, WriteFrame, Report
  <2>3. wire' \in [Peers -> Seq(Frame)]
    <3>1. Append(wire[p], writing[p]) \in Seq(Frame)
      BY <2>1 DEF Types
    <3> QED BY <1>2, <3>1 DEF Types, WriteFrame
  <2>5. writing' \in [Peers -> Frame \cup {NoFrame}]
    BY <1>2 DEF Types, WriteFrame
  <2>4. Kept
    BY <1>2, UnchangedKeeps, ShutdownKeeps, ReasonsAndFrames DEF WriteFrame
  <2>6. Types'
    BY <1>2, <2>2, <2>3, <2>4, <2>5 DEF Types, Kept, WriteFrame
  <2> QED BY <1>2, <2>4, <2>6, KeptInv DEF WriteFrame
<1>3. CASE Close(p)
  <2>1. Kept
    BY <1>3, ShutdownKeeps, ReasonsAndFrames DEF Close
  <2>2. Types'
    BY <1>3, <2>1 DEF Types, Kept, Close
  <2> QED BY <1>3, <2>1, <2>2, KeptInv DEF Close
<1>4. CASE ClosePipes(p)
  <2>1. <<>> \in Seq(Frame) /\ Other(p) \in Peers
    BY Pair
  <2>2. writes' \in [Peers -> Seq(Frame)]
    BY <1>4, <2>1 DEF Types, ClosePipes
  <2>3. wire' \in [Peers -> Seq(Frame)]
    BY <1>4, <2>1 DEF Types, ClosePipes
  <2>4. writing' \in [Peers -> Frame \cup {NoFrame}] /\ open' \in [Peers -> BOOLEAN]
    BY <1>4 DEF Types, ClosePipes
  <2>5. Types'
    BY <1>4, <2>2, <2>3, <2>4 DEF Types, ClosePipes, callVars
  <2> QED BY <1>4, <2>5, UnchangedKeeps, KeptInv DEF ClosePipes, callVars
<1> QED BY <1>1, <1>2, <1>3, <1>4 DEF WriteLoop

LEMMA ReadLoopStep ==
    ASSUME Types, ChannelInv, NEW p \in Peers, ReadLoop(p)
    PROVE  Types' /\ ChannelInv'
<1> DEFINE o == Other(p)
           f == Head(wire[o])
<1>0. o \in Peers
  BY Pair
<1>1. ASSUME NEW K \in SUBSET Kinds, Readable(p, K), Consume(p)
      PROVE  /\ f \in Frame /\ f.id \in Calls /\ f.kind \in K
             /\ wire' \in [Peers -> Seq(Frame)]
  <2>1. f \in Frame /\ Tail(wire[o]) \in Seq(Frame)
    BY <1>0, <1>1 DEF Types, Readable
  <2>2. wire' \in [Peers -> Seq(Frame)]
    BY <1>0, <1>1, <2>1 DEF Types, Consume
  <2> QED BY <1>1, <2>1, <2>2, FrameIds DEF Readable
<1>2. CASE ReadRequest(p)
  <2>1. f.id \in Calls /\ wire' \in [Peers -> Seq(Frame)]
    <3>1. {"request"} \in SUBSET Kinds /\ Readable(p, {"request"}) /\ Consume(p)
      BY <1>2 DEF ReadRequest, Kinds
    <3> QED BY <1>1, <3>1
  <2>2. CASE /\ handler' = [handler EXCEPT ![f.id] = "running"]
             /\ UNCHANGED <<writes, err, ch, pending, hctx>>
    <3>1. Types'
      BY <1>2, <2>1, <2>2 DEF Types, ReadRequest
    <3> QED BY <1>2, <2>2, <3>1, UnchangedKeeps, KeptInv DEF ReadRequest
  <2>3. CASE Refuse(p, f.id)
    <3>1. Kept /\ writes' \in [Peers -> Seq(Frame)]
      BY <2>1, <2>3, ReasonsAndFrames, EnqueueKeeps DEF Refuse
    <3>2. Types'
      BY <1>2, <2>1, <2>3, <3>1 DEF Types, Kept, ReadRequest, Refuse
    <3> QED BY <1>2, <3>1, <3>2, KeptInv DEF ReadRequest
  <2> QED BY <1>2, <2>2, <2>3 DEF ReadRequest
<1>3. CASE ReadCancel(p)
  <2>1. f.id \in Calls /\ wire' \in [Peers -> Seq(Frame)]
    <3>1. {"cancel"} \in SUBSET Kinds /\ Readable(p, {"cancel"}) /\ Consume(p)
      BY <1>3 DEF ReadCancel, Kinds
    <3> QED BY <1>1, <3>1
  <2>2. Types'
    BY <1>3, <2>1 DEF Types, ReadCancel, callVars
  <2>3. Kept
    BY <1>3, <2>2 DEF Types, ChannelInv, Kept, ReadCancel, callVars
  <2> QED BY <1>3, <2>2, <2>3, KeptInv DEF ReadCancel, callVars
<1>4. CASE ReadAnswer(p)
  <2>1. /\ f \in Frame /\ f.id \in Calls /\ f.kind \in {"answer", "refused"}
        /\ wire' \in [Peers -> Seq(Frame)]
    <3>1. /\ {"answer", "refused"} \in SUBSET Kinds
          /\ Readable(p, {"answer", "refused"}) /\ Consume(p)
      BY <1>4 DEF ReadAnswer, Kinds
    <3> QED BY <1>1, <3>1
  <2>2. /\ delivering' = [delivering EXCEPT ![p] = IF f.id \in pending[p] THEN f ELSE NoFrame]
        /\ pending' = [pending EXCEPT ![p] = @ \ {f.id}]
        /\ UNCHANGED <<call, ctx, ch, sent, err, open, writes, writing, handler, hctx>>
    BY <1>4 DEF ReadAnswer, TakeOut
  <2>3. Types'
    BY <2>1, <2>2 DEF Types
  <2>4. \A q \in Peers : pending'[q] \subseteq pending[q] /\ pending[q] \subseteq Calls
    BY <2>2 DEF Types
  <2>5. ASSUME NEW q \in Peers, delivering'[q] # NoFrame
        PROVE  LET d == delivering'[q].id
               IN  /\ delivering'[q].kind \in {"answer", "refused"}
                   /\ CallerOf[d] = q /\ d \notin pending'[q]
                   /\ call'[d].pc # "idle" /\ ch'[d] = "empty"
    <3>1. CASE q = p
      <4>1. delivering'[p] = f /\ f.id \in pending[p] /\ f.id \notin pending'[p]
        BY <2>2, <2>5, <3>1 DEF Types
      <4> QED BY <2>1, <2>2, <3>1, <4>1 DEF ChannelInv
    <3>2. CASE q # p
      BY <2>2, <2>4, <2>5, <3>2 DEF Types, ChannelInv
    <3> QED BY <3>1, <3>2
  <2> QED BY <2>2, <2>3, <2>4, <2>5 DEF ChannelInv
<1>5. CASE Deliver(p)
  <2> DEFINE d == delivering[p]
  <2>1. /\ d \in Frame /\ d.id \in Calls /\ d.kind \in {"answer", "refused"}
        /\ CallerOf[d.id] = p /\ d.id \notin pending[p] /\ call[d.id].pc # "idle"
    BY <1>5, FrameIds DEF Types, ChannelInv, Deliver
  <2>2. Types'
    BY <1>5, <2>1 DEF Types, Deliver
  <2>3. \A c \in Calls : c # d.id => ch'[c] = ch[c]
    BY <1>5, <2>1 DEF Types, Deliver
  <2>4. \A c \in Calls : call'[c].pc = "idle" => ch'[c] = "empty"
    BY <1>5, <2>1, <2>3 DEF ChannelInv, Deliver
  <2>5. ASSUME NEW q \in Peers, NEW c \in pending'[q]
        PROVE  CallerOf[c] = q /\ call'[c].pc # "idle" /\ ch'[c] = "empty"
    <3>1. c \in Calls /\ c \in pending[q] /\ CallerOf[c] = q
          /\ call[c].pc # "idle" /\ ch[c] = "empty"
      BY <1>5 DEF Types, ChannelInv, Deliver
    <3> QED BY <1>5, <2>1, <2>3, <3>1 DEF Deliver
  <2>6. ASSUME NEW q \in Peers, delivering'[q] # NoFrame
        PROVE  LET c == delivering'[q].id
               IN  /\ delivering'[q].kind \in {"answer", "refused"}
                   /\ CallerOf[c] = q /\ c \notin pending'[q]
                   /\ call'[c].pc # "idle" /\ ch'[c] = "empty"
    <3>1. q # p /\ delivering'[q] = delivering[q]
      BY <1>5, <2>6 DEF Types, Deliver
    <3>2. CallerOf[delivering[q].id] = q /\ delivering[q].id \in Calls
      BY <2>6, <3>1, FrameIds DEF Types, ChannelInv
    <3> QED BY <1>5, <2>1, <2>3, <2>6, <3>1, <3>2 DEF ChannelInv, Deliver
  <2> QED BY <2>2, <2>4, <2>5, <2>6 DEF ChannelInv
<1>6. CASE ReadEOF(p)
  <2>1. Kept
    BY <1>6, ShutdownKeeps, ReasonsAndFrames DEF ReadEOF
  <2>2. Types'
    BY <1>6, <2>1 DEF Types, Kept, ReadEOF
  <2> QED BY <1>6, <2>1, <2>2, KeptInv DEF ReadEOF
<1> QED BY <1>2, <1>3, <1>4, <1>5, <1>6 DEF ReadLoop

LEMMA HandlerStep ==
    ASSUME Types, ChannelInv, NEW c \in Calls, Respond(c) \/ Cleanup(c)
    PROVE  Types' /\ ChannelInv'
<1>1. CASE Respond(c)
  <2>1. Kept /\ writes' \in [Peers -> Seq(Frame)]
    BY <1>1, ReasonsAndFrames, EnqueueKeeps DEF Respond
  <2>2. Types'
    BY <1>1, <2>1 DEF Types, Kept, Respond
  <2> QED BY <1>1, <2>1, <2>2, KeptInv DEF Respond
<1>2. CASE Cleanup(c)
  <2>1. Types'
    BY <1>2 DEF Types, Cleanup, callVars, pipeVars
  <2> QED BY <1>2, <2>1, UnchangedKeeps, KeptInv DEF Cleanup, callVars, pipeVars
<1> QED BY <1>1, <1>2

LEMMA NextInv == Types /\ ChannelInv /\ [Next]_vars => Types' /\ ChannelInv'
<1> SUFFICES ASSUME Types, ChannelInv, [Next]_vars
             PROVE  Types' /\ ChannelInv'
  OBVIOUS
<1>1. CASE UNCHANGED vars
  BY <1>1 DEF Types, ChannelInv, vars, callVars, pipeVars
<1> QED BY <1>1, CallerStep, WriteLoopStep, ReadLoopStep, HandlerStep DEF Next

LEMMA SpecInv == Spec => [](Types /\ ChannelInv)
BY InitInv, NextInv, PTL DEF Spec

\* No answer is ever put into a channel that is full, whatever peers, calls and
\* bounds there are: neither the read loop nor shutdown can block on one.
THEOREM ChannelsNeverBlock == Spec => []ChannelHasRoom
<1>1. Types /\ ChannelInv => ChannelHasRoom
  BY DEF Types, ChannelInv, ChannelHasRoom
<1> QED BY <1>1, SpecInv, PTL
-------------------------------------------------------------------------------
(* Shutdown is complete.  A peer starts a handler only before its shutdown,  *)
(* but has to be the callee of the request: the requests in its caller's     *)
(* queue, write loop and pipe are all that caller's own.                     *)

Own(p) == {f \in Frame : f.kind = "request" => CallerOf[f.id] = p}

OwnRequests ==
    \A p \in Peers : /\ writes[p] \in Seq(Own(p)) /\ wire[p] \in Seq(Own(p))
                     /\ writing[p] \in Own(p) \cup {NoFrame}

ShutdownInv == Types /\ ChannelInv /\ OwnRequests /\ ShutdownIsComplete

\* What a step leaves true for the handlers that were there before it.
Sealed ==
    \A p \in Peers : err'[p] # "none" => pending'[p] = {} /\ Active(p) \subseteq hctx'

\* The frames that a step leaves in front of the other peer.
OwnKept ==
    \A p \in Peers : /\ writes'[p] \in Seq(Own(p)) /\ wire'[p] \in Seq(Own(p))
                     /\ writing'[p] \in Own(p) \cup {NoFrame}

LEMMA OwnFrames ==
    /\ \A c \in Calls : \A p \in Peers :
          /\ Msg("cancel", c) \in Own(p) /\ Msg("answer", c) \in Own(p)
          /\ Msg("refused", c) \in Own(p)
    /\ \A c \in Calls : Msg("request", c) \in Own(CallerOf[c])
BY IpcAssumption DEF Own, Msg, Frame, Kinds

LEMMA UnchangedSeals ==
    ASSUME ShutdownInv, UNCHANGED <<err, pending, hctx>>
    PROVE  Sealed
BY DEF ShutdownInv, ShutdownIsComplete, Sealed

LEMMA ShutdownSeals ==
    ASSUME ShutdownInv, NEW p \in Peers, NEW e \in Reasons, Shutdown(p, e)
    PROVE  Sealed
<1> SUFFICES ASSUME NEW q \in Peers, err'[q] # "none"
             PROVE  pending'[q] = {} /\ Active(q) \subseteq hctx'
  BY DEF Sealed
<1>1. CASE q = p
  BY <1>1 DEF ShutdownInv, Types, Shutdown
<1>2. CASE q # p
  <2>1. err[q] # "none" /\ pending'[q] = pending[q]
    BY <1>2 DEF ShutdownInv, Types, Shutdown
  <2> QED BY <2>1 DEF ShutdownInv, ShutdownIsComplete, Shutdown
<1> QED BY <1>1, <1>2

LEMMA EnqueueSeals ==
    ASSUME ShutdownInv, NEW p \in Peers, NEW f \in Own(p), Enqueue(p, f)
    PROVE  Sealed /\ \A q \in Peers : writes'[q] \in Seq(Own(q))
<1>1. CASE UNCHANGED <<writes, err, ch, pending, hctx>>
  BY <1>1, UnchangedSeals DEF ShutdownInv, OwnRequests
<1>2. CASE /\ writes' = [writes EXCEPT ![p] = Append(@, f)]
           /\ UNCHANGED <<err, ch, pending, hctx>>
  <2>1. Append(writes[p], f) \in Seq(Own(p))
    BY DEF ShutdownInv, OwnRequests
  <2>2. \A q \in Peers : writes'[q] \in Seq(Own(q))
    BY <1>2, <2>1 DEF ShutdownInv, Types, OwnRequests
  <2> QED BY <1>2, <2>2, UnchangedSeals
<1>3. CASE Shutdown(p, "overflow") /\ UNCHANGED writes
  BY <1>3, ShutdownSeals, ReasonsAndFrames DEF ShutdownInv, OwnRequests
<1> QED BY <1>1, <1>2, <1>3 DEF Enqueue

\* A step that starts no handler.
LEMMA SealedInv ==
    ASSUME Sealed, OwnKept,
           \A c \in Calls : handler'[c] \in {"running", "responded"}
                            => handler[c] \in {"running", "responded"}
    PROVE  OwnRequests' /\ ShutdownIsComplete'
BY DEF Sealed, OwnKept, OwnRequests, ShutdownIsComplete, Active

LEMMA CallerSeals ==
    ASSUME ShutdownInv, NEW c \in Calls, Caller(c) \/ ContextEnds(c)
    PROVE  OwnRequests' /\ ShutdownIsComplete'
<1> DEFINE p == CallerOf[c]
<1>0. p \in Peers /\ UNCHANGED <<handler, wire, writing>>
  BY IpcAssumption DEF Caller, Begin, Send, AwaitWrite, AwaitAnswer, Return,
                       ContextEnds, pipeVars
<1>1. ASSUME UNCHANGED <<writes, err, hctx>>,
             pending' = pending \/ pending' = [pending EXCEPT ![p] = @ \ {c}]
      PROVE  Sealed /\ OwnKept
  <2>1. OwnKept
    BY <1>0, <1>1 DEF ShutdownInv, OwnRequests, OwnKept
  <2>2. \A q \in Peers : pending[q] = {} => pending'[q] = {}
    BY <1>0, <1>1 DEF ShutdownInv, Types
  <2> QED BY <1>1, <2>1, <2>2 DEF ShutdownInv, ShutdownIsComplete, Sealed
<1>2. ASSUME Cancel(c)
      PROVE  Sealed /\ OwnKept
  <2>1. Sealed /\ \A q \in Peers : writes'[q] \in Seq(Own(q))
    BY <1>0, <1>2, OwnFrames, EnqueueSeals DEF Cancel
  <2> QED BY <1>0, <2>1 DEF ShutdownInv, OwnRequests, OwnKept
<1>3. CASE Begin(c)
  <2>1. UNCHANGED <<writes, err, hctx>>
    BY <1>3 DEF Begin, pipeVars
  <2>2. CASE Rejection(p) = "none" /\ pending' = [pending EXCEPT ![p] = @ \cup {c}]
    <3>1. err[p] = "none"
      BY <2>2 DEF Rejection
    <3>2. Sealed
      BY <1>0, <2>1, <2>2, <3>1 DEF ShutdownInv, Types, ShutdownIsComplete, Sealed
    <3>3. OwnKept
      BY <1>0, <2>1 DEF ShutdownInv, OwnRequests, OwnKept
    <3> QED BY <1>0, <3>2, <3>3, SealedInv
  <2>3. CASE UNCHANGED pending
    BY <1>0, <1>1, <2>1, <2>3, SealedInv
  <2> QED BY <1>3, <2>2, <2>3 DEF Begin
<1>4. CASE Send(c)
  <2>1. CASE /\ writes' = [writes EXCEPT ![p] = Append(@, Msg("request", c))]
             /\ UNCHANGED <<err, ch, pending, hctx>>
    <3>1. Append(writes[p], Msg("request", c)) \in Seq(Own(p))
      BY <1>0, OwnFrames DEF ShutdownInv, OwnRequests
    <3>2. OwnKept
      BY <1>0, <2>1, <3>1 DEF ShutdownInv, Types, OwnRequests, OwnKept
    <3> QED BY <1>0, <2>1, <3>2, UnchangedSeals, SealedInv
  <2>2. CASE Cancel(c)
    BY <1>0, <1>2, <2>2, SealedInv
  <2>3. CASE UNCHANGED <<writes, err, ch, pending, hctx>>
    BY <1>0, <1>1, <2>3, SealedInv
  <2> QED BY <1>4, <2>1, <2>2, <2>3 DEF Send
<1>5. CASE AwaitWrite(c)
  BY <1>0, <1>1, <1>2, <1>5, SealedInv DEF AwaitWrite
<1>6. CASE AwaitAnswer(c)
  BY <1>0, <1>1, <1>2, <1>6, SealedInv DEF AwaitAnswer
<1>7. CASE Return(c)
  BY <1>0, <1>1, <1>7, SealedInv DEF Return, pipeVars
<1>8. CASE ContextEnds(c)
  BY <1>0, <1>1, <1>8, SealedInv DEF ContextEnds, pipeVars
<1> QED BY <1>3, <1>4, <1>5, <1>6, <1>7, <1>8 DEF Caller

LEMMA WriteLoopSeals ==
    ASSUME ShutdownInv, NEW p \in Peers, WriteLoop(p) \/ Close(p) \/ ClosePipes(p)
    PROVE  OwnRequests' /\ ShutdownIsComplete'
<1>0. UNCHANGED handler
  BY DEF WriteLoop, TakeJob, WriteFrame, Close, ClosePipes
<1>1. CASE TakeJob(p)
  <2>1. Head(writes[p]) \in Own(p) /\ Tail(writes[p]) \in Seq(Own(p))
    BY <1>1 DEF ShutdownInv, OwnRequests, TakeJob
  <2>2. OwnKept
    BY <1>1, <2>1 DEF ShutdownInv, Types, OwnRequests, OwnKept, TakeJob
  <2> QED BY <1>0, <1>1, <2>2, UnchangedSeals, SealedInv DEF TakeJob, callVars
<1>2. CASE WriteFrame(p)
  <2>1. writing[p] \in Own(p) /\ Append(wire[p], writing[p]) \in Seq(Own(p))
    BY <1>2 DEF ShutdownInv, OwnRequests, WriteFrame
  <2>2. \A q \in Peers : wire'[q] \in Seq(Own(q))
    BY <1>2, <2>1 DEF ShutdownInv, Types, OwnRequests, WriteFrame
  <2>3. \A q \in Peers : writing'[q] \in Own(q) \cup {NoFrame}
    BY <1>2 DEF ShutdownInv, Types, OwnRequests, WriteFrame
  <2>4. OwnKept
    BY <1>2, <2>2, <2>3 DEF ShutdownInv, OwnRequests, OwnKept, WriteFrame
  <2>5. Sealed
    BY <1>2, UnchangedSeals, ShutdownSeals, ReasonsAndFrames DEF WriteFrame
  <2> QED BY <1>0, <2>4, <2>5, SealedInv
<1>3. CASE Close(p)
  <2>1. Sealed
    BY <1>3, ShutdownSeals, ReasonsAndFrames DEF Close
  <2>2. OwnKept
    BY <1>3 DEF ShutdownInv, OwnRequests, OwnKept, Close
  <2> QED BY <1>0, <2>1, <2>2, SealedInv
<1>4. CASE ClosePipes(p)
  <2>1. \A q \in Peers : <<>> \in Seq(Own(q))
    OBVIOUS
  <2>2. OwnKept
    BY <1>4, <2>1, Pair DEF ShutdownInv, Types, OwnRequests, OwnKept, ClosePipes
  <2> QED BY <1>0, <1>4, <2>2, UnchangedSeals, SealedInv DEF ClosePipes, callVars
<1> QED BY <1>1, <1>2, <1>3, <1>4 DEF WriteLoop

LEMMA ReadLoopSeals ==
    ASSUME ShutdownInv, NEW p \in Peers, ReadLoop(p)
    PROVE  OwnRequests' /\ ShutdownIsComplete'
<1> DEFINE o == Other(p)
           f == Head(wire[o])
<1>0. o \in Peers /\ Other(o) = p
  BY Pair
<1>1. ASSUME NEW K, Readable(p, K), Consume(p), UNCHANGED writing
      PROVE  /\ f \in Own(o) /\ f.id \in Calls /\ f.kind \in K
             /\ \A q \in Peers : /\ wire'[q] \in Seq(Own(q))
                                 /\ writing'[q] \in Own(q) \cup {NoFrame}
  <2>1. f \in Own(o) /\ Tail(wire[o]) \in Seq(Own(o))
    BY <1>0, <1>1 DEF ShutdownInv, OwnRequests, Readable
  <2>2. f.id \in Calls
    BY <2>1, FrameIds DEF Own
  <2>3. \A q \in Peers : wire'[q] \in Seq(Own(q))
    BY <1>0, <1>1, <2>1 DEF ShutdownInv, Types, OwnRequests, Consume
  <2> QED BY <1>1, <2>1, <2>2, <2>3 DEF ShutdownInv, OwnRequests, Readable
<1>2. CASE ReadRequest(p)
  <2>1. /\ f \in Own(o) /\ f.id \in Calls /\ f.kind = "request" /\ err[p] = "none"
        /\ \A q \in Peers : /\ wire'[q] \in Seq(Own(q))
                            /\ writing'[q] \in Own(q) \cup {NoFrame}
    BY <1>1, <1>2 DEF ReadRequest, Readable
  <2>2. CASE /\ handler' = [handler EXCEPT ![f.id] = "running"]
             /\ UNCHANGED <<writes, err, ch, pending, hctx>>
    <3>1. CalleeOf(f.id) = p
      BY <1>0, <2>1 DEF Own, CalleeOf
    <3>2. \A q \in Peers : q # p => Active(q)' \subseteq Active(q)
      BY <2>1, <2>2, <3>1 DEF ShutdownInv, Types, Active
    <3>3. ShutdownIsComplete'
      BY <2>1, <2>2, <3>2 DEF ShutdownInv, ShutdownIsComplete
    <3>4. OwnRequests'
      BY <2>1, <2>2 DEF ShutdownInv, OwnRequests
    <3> QED BY <3>3, <3>4
  <2>3. CASE Refuse(p, f.id)
    <3>1. Sealed /\ \A q \in Peers : writes'[q] \in Seq(Own(q))
      BY <2>1, <2>3, OwnFrames, EnqueueSeals DEF Refuse
    <3>2. OwnKept
      BY <2>1, <3>1 DEF OwnKept
    <3>3. \A c \in Calls : handler'[c] \in {"running", "responded"}
                           => handler[c] \in {"running", "responded"}
      BY <2>1, <2>3 DEF ShutdownInv, Types, Refuse
    <3> QED BY <3>1, <3>2, <3>3, SealedInv
  <2> QED BY <1>2, <2>2, <2>3 DEF ReadRequest
<1>3. CASE ReadCancel(p)
  <2>1. OwnKept
    BY <1>1, <1>3 DEF ReadCancel, ShutdownInv, OwnRequests, OwnKept
  <2>2. Sealed
    BY <1>3 DEF ShutdownInv, ShutdownIsComplete, Sealed, ReadCancel, callVars
  <2> QED BY <1>3, <2>1, <2>2, SealedInv DEF ReadCancel
<1>4. CASE ReadAnswer(p)
  <2>1. OwnKept
    BY <1>1, <1>4 DEF ReadAnswer, ShutdownInv, OwnRequests, OwnKept
  <2>2. Sealed
    BY <1>4 DEF ShutdownInv, Types, ShutdownIsComplete, Sealed, ReadAnswer, TakeOut
  <2> QED BY <1>4, <2>1, <2>2, SealedInv DEF ReadAnswer
<1>5. CASE Deliver(p)
  BY <1>5, UnchangedSeals, SealedInv DEF Deliver, ShutdownInv, OwnRequests, OwnKept
<1>6. CASE ReadEOF(p)
  <2>1. Sealed
    BY <1>6, ShutdownSeals, ReasonsAndFrames DEF ReadEOF
  <2>2. OwnKept
    BY <1>6 DEF ShutdownInv, OwnRequests, OwnKept, ReadEOF
  <2> QED BY <1>6, <2>1, <2>2, SealedInv DEF ReadEOF
<1> QED BY <1>2, <1>3, <1>4, <1>5, <1>6 DEF ReadLoop

LEMMA HandlerSeals ==
    ASSUME ShutdownInv, NEW c \in Calls, Respond(c) \/ Cleanup(c)
    PROVE  OwnRequests' /\ ShutdownIsComplete'
<1>0. \A d \in Calls : handler'[d] \in {"running", "responded"}
                       => handler[d] \in {"running", "responded"}
  BY DEF ShutdownInv, Types, Respond, Cleanup
<1>1. CASE Respond(c)
  <2>1. Sealed /\ \A q \in Peers : writes'[q] \in Seq(Own(q))
    BY <1>1, OwnFrames, ReasonsAndFrames, EnqueueSeals DEF Respond
  <2>2. OwnKept
    BY <1>1, <2>1 DEF ShutdownInv, OwnRequests, OwnKept, Respond
  <2> QED BY <1>0, <2>1, <2>2, SealedInv
<1>2. CASE Cleanup(c)
  BY <1>0, <1>2, UnchangedSeals, SealedInv
     DEF Cleanup, callVars, pipeVars, ShutdownInv, OwnRequests, OwnKept
<1> QED BY <1>1, <1>2

LEMMA ShutdownInvStep == ShutdownInv /\ [Next]_vars => ShutdownInv'
<1> SUFFICES ASSUME ShutdownInv, [Next]_vars PROVE ShutdownInv'
  OBVIOUS
<1>1. Types' /\ ChannelInv'
  BY NextInv DEF ShutdownInv
<1>2. CASE UNCHANGED vars
  BY <1>1, <1>2 DEF ShutdownInv, OwnRequests, ShutdownIsComplete, Active, vars,
                    callVars, pipeVars
<1>3. CASE Next
  BY <1>1, <1>3, CallerSeals, WriteLoopSeals, ReadLoopSeals, HandlerSeals
     DEF Next, ShutdownInv
<1> QED BY <1>2, <1>3

\* A peer that is shut down has failed every call that waited there and cancelled
\* every handler that still runs, whatever is queued, in the pipes or arrives later.
THEOREM ShutdownCompletes == Spec => []ShutdownIsComplete
<1>1. Init => ShutdownInv
  <2>1. Init => OwnRequests
    BY DEF Init, OwnRequests
  <2>2. Init => ShutdownIsComplete
    BY DEF Init, ShutdownIsComplete
  <2> QED BY <2>1, <2>2, InitInv DEF ShutdownInv
<1>2. ShutdownInv => ShutdownIsComplete
  BY DEF ShutdownInv
<1> QED BY <1>1, <1>2, ShutdownInvStep, PTL DEF Spec

-------------------------------------------------------------------------------
(* Where the request of a call is.  At any time there is at most one frame   *)
(* of it, in one place of its caller: the queue, the hand of the write loop   *)
(* or the pipe.  While there is one the call has been sent and its handler    *)
(* has not been started, so that no handler is ever started twice.           *)

In(s, f) == \E i \in 1..Len(s) : s[i] = f
Once(s, f) == \A i, j \in 1..Len(s) : s[i] = f /\ s[j] = f => i = j

Request(c) == Msg("request", c)
Queued(c) == In(writes[CallerOf[c]], Request(c))
InHand(c) == writing[CallerOf[c]] = Request(c)
Piped(c) == In(wire[CallerOf[c]], Request(c))

Unsent(c) == call[c].pc \in {"idle", "registered"}

OneRequest(c) ==
    /\ Once(writes[CallerOf[c]], Request(c)) /\ Once(wire[CallerOf[c]], Request(c))
    /\ ~(Queued(c) /\ InHand(c)) /\ ~(Queued(c) /\ Piped(c)) /\ ~(InHand(c) /\ Piped(c))
    /\ Queued(c) \/ InHand(c) \/ Piped(c) => ~Unsent(c)
    /\ Queued(c) \/ InHand(c) \/ Piped(c) \/ Unsent(c) => handler[c] = "none"

LEMMA InAppend ==
    ASSUME NEW S, NEW s \in Seq(S), NEW g \in S, NEW f
    PROVE  /\ In(Append(s, g), f) <=> In(s, f) \/ g = f
           /\ Once(s, f) /\ ~(In(s, f) /\ g = f) => Once(Append(s, g), f)
<1>1. /\ Len(s) \in Nat /\ Len(Append(s, g)) = Len(s) + 1
      /\ \A i \in 1..Len(s) : Append(s, g)[i] = s[i]
      /\ Append(s, g)[Len(s) + 1] = g
  OBVIOUS
<1>2. \A i \in 1..(Len(s) + 1) : i \in 1..Len(s) \/ i = Len(s) + 1
  BY <1>1
<1>3. Len(s) + 1 \in 1..(Len(s) + 1) /\ \A i \in 1..Len(s) : i \in 1..(Len(s) + 1)
  BY <1>1
<1>4. In(Append(s, g), f) <=> In(s, f) \/ g = f
  BY <1>1, <1>2, <1>3 DEF In
<1>5. Once(s, f) /\ ~(In(s, f) /\ g = f) => Once(Append(s, g), f)
  BY <1>1, <1>2 DEF In, Once
<1> QED BY <1>4, <1>5

LEMMA InTail ==
    ASSUME NEW S, NEW s \in Seq(S), s # <<>>, NEW f
    PROVE  /\ In(Tail(s), f) => In(s, f)
           /\ Head(s) = f => In(s, f)
           /\ Once(s, f) => Once(Tail(s), f) /\ ~(Head(s) = f /\ In(Tail(s), f))
<1>1. /\ Len(s) \in Nat /\ Len(s) >= 1 /\ Len(Tail(s)) = Len(s) - 1 /\ Head(s) = s[1]
      /\ \A i \in 1..Len(Tail(s)) : Tail(s)[i] = s[i + 1]
  OBVIOUS
<1>2. \A i \in 1..(Len(s) - 1) : i + 1 \in 1..Len(s) /\ i + 1 # 1
  BY <1>1
<1>3. 1 \in 1..Len(s)
  BY <1>1
<1>4. In(Tail(s), f) => In(s, f)
  BY <1>1, <1>2 DEF In
<1>5. Head(s) = f => In(s, f)
  BY <1>1, <1>3 DEF In
<1>6. Once(s, f) => Once(Tail(s), f)
  <2> SUFFICES ASSUME Once(s, f), NEW i \in 1..Len(Tail(s)), NEW j \in 1..Len(Tail(s)),
                      Tail(s)[i] = f, Tail(s)[j] = f
               PROVE  i = j
    BY DEF Once
  <2>1. s[i + 1] = f /\ s[j + 1] = f /\ i + 1 \in 1..Len(s) /\ j + 1 \in 1..Len(s)
    BY <1>1, <1>2
  <2>2. i + 1 = j + 1
    BY <2>1 DEF Once
  <2> QED BY <1>1, <2>2
<1>7. Once(s, f) => ~(Head(s) = f /\ In(Tail(s), f))
  BY <1>1, <1>2, <1>3 DEF In, Once
<1> QED BY <1>4, <1>5, <1>6, <1>7

\* The empty sequence holds nothing.
LEMMA InNothing ==
    ASSUME NEW f
    PROVE  ~In(<<>>, f) /\ Once(<<>>, f)
BY DEF In, Once

\* What a step can do to the request of a call.
Forward(c) ==
    \/ handler'[c] = handler[c]
    \/ <<handler[c], handler'[c]>> \in {<<"running", "responded">>, <<"responded", "ended">>}

RequestKept(c) ==
    /\ Once(writes[CallerOf[c]], Request(c))' /\ Once(wire[CallerOf[c]], Request(c))'
    /\ Queued(c)' => Queued(c)
    /\ InHand(c)' => InHand(c)
    /\ Piped(c)' => Piped(c)
    /\ Unsent(c)' => Unsent(c)
    /\ Forward(c)

RequestSent(c) ==
    /\ call[c].pc = "registered" /\ call'[c].pc = "sending"
    /\ Once(writes[CallerOf[c]], Request(c))' /\ Once(wire[CallerOf[c]], Request(c))'
    /\ InHand(c)' = InHand(c) /\ Piped(c)' = Piped(c) /\ handler'[c] = handler[c]

RequestTaken(c) ==
    /\ Queued(c) /\ ~Queued(c)'
    /\ Once(writes[CallerOf[c]], Request(c))' /\ Once(wire[CallerOf[c]], Request(c))'
    /\ Piped(c)' = Piped(c) /\ Unsent(c)' = Unsent(c) /\ handler'[c] = handler[c]

RequestWritten(c) ==
    /\ InHand(c) /\ ~InHand(c)'
    /\ Once(writes[CallerOf[c]], Request(c))' /\ Once(wire[CallerOf[c]], Request(c))'
    /\ Queued(c)' = Queued(c) /\ Unsent(c)' = Unsent(c) /\ handler'[c] = handler[c]

RequestRead(c) ==
    /\ Piped(c) /\ ~Piped(c)'
    /\ Once(writes[CallerOf[c]], Request(c))' /\ Once(wire[CallerOf[c]], Request(c))'
    /\ (Queued(c)' <=> Queued(c)) /\ (InHand(c)' <=> InHand(c)) /\ (Unsent(c)' <=> Unsent(c))
    /\ handler'[c] \in {"running", "refused"}

RequestChange(c) ==
    \/ RequestKept(c) \/ RequestSent(c) \/ RequestTaken(c) \/ RequestWritten(c)
    \/ RequestRead(c)

LEMMA OneRequestStep ==
    ASSUME NEW c \in Calls, OneRequest(c), RequestChange(c)
    PROVE  OneRequest(c)'
<1>1. CASE RequestKept(c)
  BY <1>1 DEF OneRequest, RequestKept, Forward
<1>2. CASE RequestSent(c)
  BY <1>2 DEF OneRequest, RequestSent, Unsent
<1>3. CASE RequestTaken(c)
  BY <1>3 DEF OneRequest, RequestTaken
<1>4. CASE RequestWritten(c)
  BY <1>4 DEF OneRequest, RequestWritten
<1>5. CASE RequestRead(c)
  BY <1>5 DEF OneRequest, RequestRead
<1> QED BY <1>1, <1>2, <1>3, <1>4, <1>5 DEF RequestChange

\* The queue of the write loop, seen from the request of a call.
QueueKept(c) ==
    Once(writes[CallerOf[c]], Request(c))' /\ (Queued(c)' <=> Queued(c))

LEMMA EnqueueRequests ==
    ASSUME Types, NEW c \in Calls, OneRequest(c), NEW p \in Peers, NEW f \in Frame,
           f.kind # "request", Enqueue(p, f)
    PROVE  QueueKept(c)
<1>1. CASE writes' = writes
  BY <1>1 DEF QueueKept, Queued, OneRequest
<1>2. CASE writes' = [writes EXCEPT ![p] = Append(@, f)]
  <2>1. f # Request(c) /\ CallerOf[c] \in Peers
    BY IpcAssumption DEF Request, Msg
  <2>2. writes[p] \in Seq(Frame) /\ Request(c) \in Frame
    BY DEF Types, Request, Msg, Frame, Kinds
  <2>3. CASE CallerOf[c] = p
    <3>1. writes'[CallerOf[c]] = Append(writes[p], f)
      BY <1>2, <2>1, <2>3 DEF Types
    <3> QED BY <2>1, <2>2, <2>3, <3>1, InAppend DEF QueueKept, Queued, OneRequest
  <2>4. CASE CallerOf[c] # p
    <3>1. writes'[CallerOf[c]] = writes[CallerOf[c]]
      BY <1>2, <2>1, <2>4 DEF Types
    <3> QED BY <3>1 DEF QueueKept, Queued, OneRequest
  <2> QED BY <2>3, <2>4
<1> QED BY <1>1, <1>2 DEF Enqueue

\* The steps of a call: only Send puts a request into the queue, once.
LEMMA CallerRequests ==
    ASSUME Types, NEW d \in Calls, Caller(d) \/ ContextEnds(d),
           NEW c \in Calls, OneRequest(c)
    PROVE  RequestChange(c)
<1>0. /\ CallerOf[d] \in Peers /\ CallerOf[c] \in Peers
      /\ UNCHANGED <<handler, wire, writing>>
      /\ Request(c) \in Frame /\ Msg("request", d) \in Frame /\ Msg("cancel", d) \in Frame
      /\ Msg("cancel", d).kind # "request"
  BY IpcAssumption DEF Request, Msg, Frame, Kinds, Caller, Begin, Send, AwaitWrite,
     AwaitAnswer, Return, ContextEnds, pipeVars
<1>1. ASSUME QueueKept(c), Unsent(c)' => Unsent(c)
      PROVE  RequestChange(c)
  BY <1>0, <1>1 DEF RequestChange, RequestKept, Forward, QueueKept, InHand, Piped, OneRequest
<1>2. ASSUME writes' = writes
      PROVE  QueueKept(c)
  BY <1>2 DEF QueueKept, Queued, OneRequest
<1>3. CASE /\ writes' = [writes EXCEPT ![CallerOf[d]] = Append(@, Msg("request", d))]
           /\ call[d].pc = "registered" /\ Goto(d, "sending")
  <2>1. writes[CallerOf[d]] \in Seq(Frame)
    BY <1>0 DEF Types
  <2>2. CASE c = d
    <3>1. writes'[CallerOf[c]] = Append(writes[CallerOf[c]], Request(c))
      BY <1>0, <1>3, <2>2 DEF Types, Request
    <3>2. ~Queued(c)
      BY <1>3, <2>2 DEF OneRequest, Unsent
    <3>3. Once(writes[CallerOf[c]], Request(c))'
      BY <1>0, <2>1, <2>2, <3>1, <3>2, InAppend DEF Queued, OneRequest
    <3>4. call'[c].pc = "sending"
      BY <1>3, <2>2 DEF Types, Goto
    <3> QED BY <1>0, <1>3, <2>2, <3>3, <3>4
            DEF RequestChange, RequestSent, InHand, Piped, OneRequest
  <2>3. CASE c # d
    <3>1. Request(c) # Msg("request", d)
      BY <2>3 DEF Request, Msg
    <3>2. \/ writes'[CallerOf[c]] = writes[CallerOf[c]]
          \/ /\ CallerOf[c] = CallerOf[d]
             /\ writes'[CallerOf[c]] = Append(writes[CallerOf[d]], Msg("request", d))
      BY <1>0, <1>3 DEF Types
    <3>3. QueueKept(c)
      <4>1. CASE writes'[CallerOf[c]] = writes[CallerOf[c]]
        BY <4>1 DEF QueueKept, Queued, OneRequest
      <4>2. CASE /\ CallerOf[c] = CallerOf[d]
                 /\ writes'[CallerOf[c]] = Append(writes[CallerOf[d]], Msg("request", d))
        BY <1>0, <2>1, <3>1, <4>2, InAppend DEF QueueKept, Queued, OneRequest
      <4> QED BY <3>2, <4>1, <4>2
    <3>4. Unsent(c)' => Unsent(c)
      BY <1>3, <2>3 DEF Types, Goto, Unsent
    <3> QED BY <1>1, <3>3, <3>4
  <2> QED BY <2>2, <2>3
<1>4. ASSUME \/ call' = call
             \/ \E out \in Outcomes : call' = [call EXCEPT ![d] = [pc |-> "leaving", out |-> out]]
             \/ \E out \in Outcomes : call' = [call EXCEPT ![d] = [pc |-> "done", out |-> out]]
             \/ Goto(d, "waiting") \/ Goto(d, "done")
             \/ call[d].pc = "idle" /\ Goto(d, "registered")
      PROVE  Unsent(c)' => Unsent(c)
  <2>1. call \in [Calls -> [pc : Pcs, out : Outcomes]] /\ call[d] \in [pc : Pcs, out : Outcomes]
    BY DEF Types
  <2>2. CASE c = d
    <3>1. \/ call'[c].pc \in {call[c].pc, "leaving", "done", "waiting"}
          \/ call[c].pc = "idle"
      BY <1>4, <2>1, <2>2 DEF Goto
    <3> QED BY <3>1 DEF Unsent
  <2>3. CASE c # d
    <3>1. call'[c] = call[c]
      BY <1>4, <2>1, <2>3 DEF Goto
    <3> QED BY <3>1 DEF Unsent
  <2> QED BY <2>2, <2>3
<1>5. CASE Begin(d)
  <2>1. Rejection(CallerOf[d]) \in Outcomes /\ writes' = writes
    BY <1>5 DEF Rejection, Outcomes, Begin, pipeVars
  <2> QED BY <1>1, <1>2, <1>4, <1>5, <2>1 DEF Begin
<1>6. CASE ContextEnds(d)
  BY <1>1, <1>2, <1>4, <1>6 DEF ContextEnds, pipeVars
<1>7. ASSUME Cancel(d)
      PROVE  RequestChange(c)
  <2>1. QueueKept(c)
    BY <1>0, <1>7, EnqueueRequests DEF Cancel
  <2>2. Unsent(c)' => Unsent(c)
    BY <1>4, <1>7 DEF Cancel, Leave, Outcomes
  <2> QED BY <1>1, <2>1, <2>2
<1>8. ASSUME NEW out \in Outcomes, Leave(d, out), writes' = writes
      PROVE  RequestChange(c)
  BY <1>1, <1>2, <1>4, <1>8 DEF Leave
<1>9. CASE Send(d)
  <2>1. CASE Leave(d, "closed") /\ writes' = writes
    BY <1>8, <2>1 DEF Outcomes
  <2> QED BY <1>3, <1>7, <1>9, <2>1 DEF Send
<1>10. CASE AwaitWrite(d)
  <2>1. CASE Goto(d, "waiting") /\ writes' = writes
    BY <1>1, <1>2, <1>4, <2>1
  <2>2. CASE Leave(d, "closed") /\ writes' = writes
    BY <1>8, <2>2 DEF Outcomes
  <2> QED BY <1>7, <1>10, <2>1, <2>2 DEF AwaitWrite
<1>11. CASE AwaitAnswer(d)
  <2>1. CASE Leave(d, ch[d]) /\ ch[d] # "empty" /\ writes' = writes
    <3>1. ch[d] \in Outcomes
      BY <2>1 DEF Types, Outcomes
    <3> QED BY <1>8, <2>1, <3>1
  <2>2. CASE Leave(d, "closed") /\ writes' = writes
    BY <1>8, <2>2 DEF Outcomes
  <2> QED BY <1>7, <1>11, <2>1, <2>2 DEF AwaitAnswer
<1>12. CASE Return(d)
  BY <1>1, <1>2, <1>4, <1>12 DEF Return, pipeVars
<1> QED BY <1>5, <1>6, <1>9, <1>10, <1>11, <1>12 DEF Caller

\* The write loop moves a request along, or drops it with everything else.
LEMMA WriteLoopRequests ==
    ASSUME ShutdownInv, NEW p \in Peers, WriteLoop(p) \/ Close(p) \/ ClosePipes(p),
           NEW c \in Calls, OneRequest(c)
    PROVE  RequestChange(c)
<1>0. /\ CallerOf[c] \in Peers /\ UNCHANGED <<handler, call>> /\ Request(c) \in Frame
      /\ Types /\ NoFrame \notin Frame
  BY IpcAssumption DEF Request, Msg, Frame, Kinds, WriteLoop, TakeJob, WriteFrame, Close,
     ClosePipes, callVars, ShutdownInv
<1>2. CASE TakeJob(p)
  <2>1. CASE CallerOf[c] # p
    <3>1. writes'[CallerOf[c]] = writes[CallerOf[c]] /\ wire' = wire
          /\ writing'[CallerOf[c]] = writing[CallerOf[c]]
      BY <1>0, <1>2, <2>1 DEF Types, TakeJob
    <3> QED BY <1>0, <3>1 DEF RequestChange, RequestKept, Forward, Queued, InHand, Piped,
                              Unsent, OneRequest
  <2>2. CASE CallerOf[c] = p
    <3>1. /\ writes[p] \in Seq(Frame) /\ writes[p] # <<>> /\ wire' = wire
          /\ writes'[CallerOf[c]] = Tail(writes[p])
          /\ writing'[CallerOf[c]] = Head(writes[p])
      BY <1>0, <1>2, <2>2 DEF Types, TakeJob
    <3>2. /\ Once(writes[CallerOf[c]], Request(c))' /\ (Queued(c)' => Queued(c))
          /\ Head(writes[p]) = Request(c) => Queued(c) /\ ~Queued(c)'
      BY <2>2, <3>1, InTail DEF Queued, OneRequest
    <3>3. CASE Head(writes[p]) = Request(c)
      BY <1>0, <3>1, <3>2, <3>3 DEF RequestChange, RequestTaken, Piped, Unsent, OneRequest
    <3>4. CASE Head(writes[p]) # Request(c)
      BY <1>0, <3>1, <3>2, <3>4 DEF RequestChange, RequestKept, Forward, InHand, Piped,
                                    Unsent, OneRequest
    <3> QED BY <3>3, <3>4
  <2> QED BY <2>1, <2>2
<1>3. CASE WriteFrame(p)
  <2>1. CASE CallerOf[c] # p
    <3>1. wire'[CallerOf[c]] = wire[CallerOf[c]] /\ writes' = writes
          /\ writing'[CallerOf[c]] = writing[CallerOf[c]]
      BY <1>0, <1>3, <2>1 DEF Types, WriteFrame
    <3> QED BY <1>0, <3>1 DEF RequestChange, RequestKept, Forward, Queued, InHand, Piped,
                              Unsent, OneRequest
  <2>2. CASE CallerOf[c] = p
    <3>1. /\ wire[p] \in Seq(Frame) /\ writing[p] \in Frame /\ writes' = writes
          /\ wire'[p] = wire[p] \/ wire'[p] = Append(wire[p], writing[p])
          /\ writing'[p] = NoFrame
      BY <1>0, <1>3, <2>2 DEF Types, WriteFrame
    <3>2. Once(wire[CallerOf[c]], Request(c))' /\ (Piped(c)' => Piped(c) \/ InHand(c))
      <4>1. CASE wire'[p] = wire[p]
        BY <2>2, <4>1 DEF Piped, OneRequest
      <4>2. CASE wire'[p] = Append(wire[p], writing[p])
        BY <2>2, <3>1, <4>2, InAppend DEF Piped, InHand, OneRequest
      <4> QED BY <3>1, <4>1, <4>2
    <3>3. ~InHand(c)'
      BY <1>0, <2>2, <3>1 DEF InHand
    <3>4. CASE InHand(c)
      BY <1>0, <3>1, <3>2, <3>3, <3>4 DEF RequestChange, RequestWritten, Queued, Unsent, OneRequest
    <3>5. CASE ~InHand(c)
      BY <1>0, <3>1, <3>2, <3>3, <3>5 DEF RequestChange, RequestKept, Forward, Queued,
                                          Unsent, OneRequest
    <3> QED BY <3>4, <3>5
  <2> QED BY <2>1, <2>2
<1>4. CASE Close(p)
  BY <1>0, <1>4 DEF Close, RequestChange, RequestKept, Forward, Queued, InHand, Piped,
     Unsent, OneRequest
<1>5. CASE ClosePipes(p)
  <2>1. /\ writes'[CallerOf[c]] = writes[CallerOf[c]] \/ writes'[CallerOf[c]] = <<>>
        /\ wire'[CallerOf[c]] = wire[CallerOf[c]] \/ wire'[CallerOf[c]] = <<>>
        /\ writing'[CallerOf[c]] = writing[CallerOf[c]] \/ writing'[CallerOf[c]] = NoFrame
    BY <1>0, <1>5, Pair DEF Types, ClosePipes
  <2>2. Once(writes[CallerOf[c]], Request(c))' /\ (Queued(c)' => Queued(c))
    BY <2>1, InNothing DEF Queued, OneRequest
  <2>3. Once(wire[CallerOf[c]], Request(c))' /\ (Piped(c)' => Piped(c))
    BY <2>1, InNothing DEF Piped, OneRequest
  <2> QED BY <1>0, <2>1, <2>2, <2>3 DEF RequestChange, RequestKept, Forward, InHand, Unsent
<1> QED BY <1>2, <1>3, <1>4, <1>5 DEF WriteLoop

\* The read loop starts or refuses the handler of the request it reads, which is
\* then nowhere any more.
LEMMA ReadLoopRequests ==
    ASSUME ShutdownInv, NEW p \in Peers, ReadLoop(p), NEW c \in Calls, OneRequest(c)
    PROVE  RequestChange(c)
<1> DEFINE o == Other(p)
           f == Head(wire[o])
<1>0. /\ CallerOf[c] \in Peers /\ o \in Peers /\ o # p /\ Types
      /\ UNCHANGED <<call, writing>>
  BY IpcAssumption, Pair DEF ReadLoop, ReadRequest, ReadCancel, ReadAnswer, Deliver, ReadEOF,
     callVars, ShutdownInv
<1>1. ASSUME NEW K, Readable(p, K), Consume(p)
      PROVE  /\ Once(wire[CallerOf[c]], Request(c))' /\ (Piped(c)' => Piped(c))
             /\ f \in Frame /\ f.kind \in K
             /\ f = Request(c) => CallerOf[c] = o /\ Piped(c) /\ ~Piped(c)'
             /\ f.kind = "request" => f = Request(f.id) /\ f.id \in Calls /\ CallerOf[f.id] = o
  <2>1. wire[o] \in Seq(Frame) /\ wire[o] # <<>> /\ f \in Own(o) /\ f.kind \in K
        /\ wire' = [wire EXCEPT ![o] = Tail(@)]
    BY <1>0, <1>1 DEF ShutdownInv, OwnRequests, Types, Readable, Consume
  <2>2. f.kind = "request" => f = Request(f.id) /\ f.id \in Calls /\ CallerOf[f.id] = o
    BY <2>1 DEF Own, Frame, Request, Msg
  <2>3. f = Request(c) => CallerOf[c] = o
    BY <2>2 DEF Request, Msg
  <2>4. CASE CallerOf[c] = o
    <3>1. wire'[CallerOf[c]] = Tail(wire[o])
      BY <1>0, <2>1, <2>4 DEF Types
    <3> HIDE DEF o
    <3>2. /\ Once(wire[CallerOf[c]], Request(c))' /\ (Piped(c)' => Piped(c))
          /\ f = Request(c) => Piped(c) /\ ~Piped(c)'
      BY <2>1, <2>4, <3>1, InTail DEF Piped, OneRequest
    <3> QED BY <2>1, <2>2, <2>3, <2>4, <3>2 DEF Own
  <2>5. CASE CallerOf[c] # o
    <3>1. wire'[CallerOf[c]] = wire[CallerOf[c]]
      BY <1>0, <2>1, <2>5 DEF Types
    <3> QED BY <2>1, <2>2, <2>3, <2>5, <3>1 DEF Own, Piped, OneRequest
  <2> QED BY <2>4, <2>5
<1>2. ASSUME QueueKept(c), Once(wire[CallerOf[c]], Request(c))', Piped(c)' => Piped(c),
             handler'[c] = handler[c]
      PROVE  RequestChange(c)
  BY <1>0, <1>2 DEF RequestChange, RequestKept, Forward, QueueKept, InHand, Unsent
<1>3. ASSUME writes' = writes
      PROVE  QueueKept(c)
  BY <1>3 DEF QueueKept, Queued, OneRequest
<1>4. CASE ReadRequest(p)
  <2>1. Readable(p, {"request"}) /\ Consume(p)
    BY <1>4 DEF ReadRequest
  <2>2. f = Request(f.id) /\ f.id \in Calls
    BY <1>1, <2>1
  <2>3. QueueKept(c) /\ \E h \in {"running", "refused"} : handler' = [handler EXCEPT ![f.id] = h]
    <3>1. CASE Refuse(p, f.id)
      <4>1. Msg("refused", f.id) \in Frame /\ Msg("refused", f.id).kind # "request"
        BY <2>2 DEF Msg, Frame, Kinds
      <4> QED BY <1>0, <3>1, <4>1, EnqueueRequests DEF Refuse
    <3> QED BY <1>3, <1>4, <3>1 DEF ReadRequest
  <2>4. CASE f.id = c
    <3>1. handler'[c] \in {"running", "refused"}
      BY <1>0, <2>3, <2>4 DEF Types
    <3>2. Piped(c) /\ ~Piped(c)' /\ Once(wire[CallerOf[c]], Request(c))'
      BY <1>1, <2>1, <2>2, <2>4
    <3> QED BY <1>0, <2>3, <3>1, <3>2
            DEF RequestChange, RequestRead, QueueKept, InHand, Unsent
  <2>5. CASE f.id # c
    <3>1. handler'[c] = handler[c]
      BY <1>0, <2>2, <2>3, <2>5 DEF Types
    <3> QED BY <1>1, <1>2, <2>1, <2>3, <3>1
  <2> QED BY <2>4, <2>5
<1>5. CASE ReadCancel(p)
  BY <1>1, <1>2, <1>3, <1>5 DEF ReadCancel
<1>6. CASE ReadAnswer(p)
  BY <1>1, <1>2, <1>3, <1>6 DEF ReadAnswer
<1>7. CASE Deliver(p) \/ ReadEOF(p)
  BY <1>2, <1>3, <1>7 DEF Deliver, ReadEOF, Piped, OneRequest
<1> QED BY <1>4, <1>5, <1>6, <1>7 DEF ReadLoop

LEMMA HandlerRequests ==
    ASSUME Types, NEW d \in Calls, Respond(d) \/ Cleanup(d), NEW c \in Calls, OneRequest(c)
    PROVE  RequestChange(c)
<1>1. UNCHANGED <<call, writing, wire>> /\ Forward(c)
  BY DEF Respond, Cleanup, callVars, pipeVars, Forward, Types
<1>2. QueueKept(c)
  <2>1. Msg("answer", d) \in Frame /\ Msg("answer", d).kind # "request" /\ CalleeOf(d) \in Peers
    BY ReasonsAndFrames DEF Msg
  <2>2. CASE Respond(d)
    BY <2>1, <2>2, EnqueueRequests DEF Respond
  <2>3. CASE Cleanup(d)
    BY <2>3 DEF Cleanup, pipeVars, QueueKept, Queued, OneRequest
  <2> QED BY <2>2, <2>3
<1> QED BY <1>1, <1>2 DEF RequestChange, RequestKept, QueueKept, InHand, Piped, Unsent, OneRequest

\* Every step, seen from the request of a call.
LEMMA RequestStep ==
    ASSUME ShutdownInv, [Next]_vars, NEW c \in Calls, OneRequest(c)
    PROVE  RequestChange(c)
<1>1. CASE UNCHANGED vars
  BY <1>1 DEF vars, callVars, pipeVars, RequestChange, RequestKept, Forward, Queued, InHand,
     Piped, Unsent, OneRequest
<1>2. CASE Next
  BY <1>2, CallerRequests, WriteLoopRequests, ReadLoopRequests, HandlerRequests
     DEF Next, ShutdownInv
<1> QED BY <1>1, <1>2

-------------------------------------------------------------------------------
(* What is told of a handler, in a frame, in a channel or as the result of a  *)
(* call, is true and stays true: a handler that was started or refused is not *)
(* started again.                                                            *)

Truth(kind, c) ==
    /\ kind = "answer" => handler[c] \in {"responded", "ended"}
    /\ kind = "refused" => handler[c] = "refused"

Told == {f \in Frame : Truth(f.kind, f.id)}

TrueFrames ==
    \A p \in Peers : /\ writes[p] \in Seq(Told) /\ wire[p] \in Seq(Told)
                     /\ writing[p] \in Told \cup {NoFrame}
                     /\ delivering[p] \in Told \cup {NoFrame}

TrueOutcomes == \A c \in Calls : Truth(ch[c], c) /\ Truth(call[c].out, c)

Requests == \A c \in Calls : OneRequest(c)

OutcomeInv == ShutdownInv /\ Requests /\ TrueFrames /\ TrueOutcomes

LEMMA SeqGrows ==
    ASSUME NEW S, NEW T, S \subseteq T, NEW s \in Seq(S)
    PROVE  s \in Seq(T)
OBVIOUS

\* What was true stays true.
LEMMA TruthStays ==
    ASSUME OutcomeInv, [Next]_vars
    PROVE  /\ \A c \in Calls : \A k : Truth(k, c) => Truth(k, c)'
           /\ \A p \in Peers : /\ writes[p] \in Seq(Told') /\ wire[p] \in Seq(Told')
                               /\ writing[p] \in Told' \cup {NoFrame}
                               /\ delivering[p] \in Told' \cup {NoFrame}
<1>1. ASSUME NEW c \in Calls, NEW k, Truth(k, c)
      PROVE  Truth(k, c)'
  <2>1. OneRequest(c) /\ RequestChange(c)
    BY RequestStep DEF OutcomeInv, Requests
  <2>2. handler[c] = "none" \/ Forward(c)
    BY <2>1 DEF OneRequest, RequestChange, RequestKept, RequestSent, RequestTaken,
       RequestWritten, RequestRead, Forward
  <2> QED BY <1>1, <2>2 DEF Truth, Forward
<1>2. Told \subseteq Told'
  BY <1>1, FrameIds DEF Told
<1>3. PICK T : T = Told'
  OBVIOUS
<1>4. \A p \in Peers : /\ writes[p] \in Seq(T) /\ wire[p] \in Seq(T)
                       /\ writing[p] \in T \cup {NoFrame}
                       /\ delivering[p] \in T \cup {NoFrame}
  BY <1>2, <1>3, SeqGrows DEF OutcomeInv, TrueFrames
<1> QED BY <1>1, <1>3, <1>4

\* A frame that may be enqueued now.
LEMMA EnqueueTells ==
    ASSUME Types, NEW p \in Peers, NEW f, NEW T, f \in T, Enqueue(p, f),
           \A q \in Peers : writes[q] \in Seq(T)
    PROVE  /\ \A q \in Peers : writes'[q] \in Seq(T)
           /\ \A c \in Calls : ch'[c] \in {ch[c], "closed"}
<1>1. CASE UNCHANGED <<writes, ch>>
  BY <1>1
<1>2. CASE writes' = [writes EXCEPT ![p] = Append(@, f)] /\ UNCHANGED ch
  <2>1. Append(writes[p], f) \in Seq(T)
    OBVIOUS
  <2> QED BY <1>2, <2>1 DEF Types
<1>3. CASE Shutdown(p, "overflow") /\ UNCHANGED writes
  BY <1>3 DEF Shutdown
<1> QED BY <1>1, <1>2, <1>3 DEF Enqueue

\* Cancellations and requests tell nothing.
LEMMA AskingTells ==
    \A c \in Calls : Msg("request", c) \in Told' /\ Msg("cancel", c) \in Told'
BY DEF Told, Truth, Msg, Frame, Kinds

\* The steps that leave the frames and outcomes that are told to be true.
OutcomesKept ==
    \A c \in Calls : /\ ch'[c] \in {ch[c], "closed", "empty"}
                     /\ call'[c].out \in {call[c].out, ch[c], "context", "closed", "full", "none"}

LEMMA OutcomesStay ==
    ASSUME OutcomeInv, [Next]_vars, OutcomesKept
    PROVE  TrueOutcomes'
<1> SUFFICES ASSUME NEW c \in Calls
             PROVE  Truth(ch[c], c)' /\ Truth(call[c].out, c)'
  BY DEF TrueOutcomes
<1>1. Truth(ch[c], c) /\ Truth(call[c].out, c)
  BY DEF OutcomeInv, TrueOutcomes
<1>2. \A k : Truth(k, c) => Truth(k, c)'
  BY TruthStays
<1>3. ch'[c] \in {ch[c], "closed", "empty"}
      /\ call'[c].out \in {call[c].out, ch[c], "context", "closed", "full", "none"}
  BY DEF OutcomesKept
<1>4. \A k : Truth(k, c)' <=> /\ k = "answer" => handler'[c] \in {"responded", "ended"}
                              /\ k = "refused" => handler'[c] = "refused"
  BY DEF Truth
<1>5. \A k : Truth(k, c) <=> /\ k = "answer" => handler[c] \in {"responded", "ended"}
                             /\ k = "refused" => handler[c] = "refused"
  BY DEF Truth
<1>6. Truth(ch[c], c)' <=> /\ ch'[c] = "answer" => handler'[c] \in {"responded", "ended"}
                           /\ ch'[c] = "refused" => handler'[c] = "refused"
  BY DEF Truth
<1>7. Truth(call[c].out, c)' <=>
         /\ call'[c].out = "answer" => handler'[c] \in {"responded", "ended"}
         /\ call'[c].out = "refused" => handler'[c] = "refused"
  BY DEF Truth
<1>8. ASSUME NEW k, Truth(k, c)
      PROVE  /\ k = "answer" => handler'[c] \in {"responded", "ended"}
             /\ k = "refused" => handler'[c] = "refused"
  BY <1>2, <1>4, <1>8
<1> QED BY <1>1, <1>3, <1>6, <1>7, <1>8

\* Every frame is one of T: with what is told after a step for T, the frames that
\* were there may stay and the new ones have to be true.
FramesIn(T) ==
    \A p \in Peers : /\ writes[p] \in Seq(T) /\ wire[p] \in Seq(T)
                     /\ writing[p] \in T \cup {NoFrame}
                     /\ delivering[p] \in T \cup {NoFrame}

LEMMA CallerTells ==
    ASSUME Types, NEW T, FramesIn(T), NEW c \in Calls, Caller(c) \/ ContextEnds(c),
           Msg("request", c) \in T, Msg("cancel", c) \in T
    PROVE  FramesIn(T)' /\ OutcomesKept
<1> DEFINE p == CallerOf[c]
<1>0. p \in Peers /\ UNCHANGED <<wire, writing, delivering>>
  BY IpcAssumption DEF Caller, Begin, Send, AwaitWrite, AwaitAnswer, Return,
                       ContextEnds, pipeVars
<1> DEFINE Goal == FramesIn(T)' /\ OutcomesKept
<1>w. ASSUME \A q \in Peers : writes'[q] \in Seq(T), OutcomesKept
      PROVE  Goal
  BY <1>0, <1>w DEF FramesIn
<1>1. ASSUME UNCHANGED <<writes, ch>>, \/ UNCHANGED call
                                       \/ \E pc \in Pcs : Goto(c, pc)
                                       \/ \E out \in {"closed", "full"}, pc \in Pcs :
                                             call' = [call EXCEPT ![c] = [pc |-> pc, out |-> out]]
      PROVE  Goal
  <2>1. \A q \in Peers : writes'[q] \in Seq(T)
    BY <1>1 DEF FramesIn
  <2>2. ASSUME UNCHANGED call
        PROVE  OutcomesKept
    BY <1>1, <2>2 DEF OutcomesKept
  <2>3. ASSUME \E pc \in Pcs : Goto(c, pc)
        PROVE  OutcomesKept
    <3>1. \A d \in Calls : call'[d].out = call[d].out
      BY <2>3 DEF Goto, Types
    <3> QED BY <1>1, <3>1 DEF OutcomesKept
  <2>4. ASSUME \E out \in {"closed", "full"}, pc \in Pcs :
                   call' = [call EXCEPT ![c] = [pc |-> pc, out |-> out]]
        PROVE  OutcomesKept
    <3>1. \A d \in Calls : call'[d].out \in {call[d].out, "closed", "full"}
      BY <2>4 DEF Types
    <3> QED BY <1>1, <3>1 DEF OutcomesKept
  <2>5. OutcomesKept
    BY <1>1, <2>2, <2>3, <2>4
  <2> QED BY <1>w, <2>1, <2>5
<1>2. ASSUME Cancel(c)
      PROVE  Goal
  <2>1. \A q \in Peers : writes'[q] \in Seq(T)
    BY <1>0, <1>2, EnqueueTells DEF Cancel, FramesIn
  <2>2. \A d \in Calls : ch'[d] \in {ch[d], "closed"}
    BY <1>0, <1>2, EnqueueTells DEF Cancel, FramesIn
  <2>3. \A d \in Calls : call'[d].out \in {call[d].out, "context"}
    BY <1>2 DEF Cancel, Leave, Types
  <2>4. OutcomesKept
    BY <2>2, <2>3 DEF OutcomesKept
  <2> QED BY <1>w, <2>1, <2>4
<1>3. CASE Begin(c)
  <2>1. UNCHANGED <<writes, ch>>
    BY <1>3 DEF Begin, pipeVars
  <2>2. CASE Goto(c, "registered")
    BY <1>1, <2>1, <2>2 DEF Pcs
  <2>3. CASE call' = [call EXCEPT ![c] = [pc |-> "done", out |-> Rejection(p)]] /\ Rejection(p) # "none"
    <3>1. Rejection(p) \in {"closed", "full"}
      BY <2>3 DEF Rejection
    <3> QED BY <1>1, <2>1, <2>3, <3>1 DEF Pcs
  <2> QED BY <1>3, <2>2, <2>3 DEF Begin
<1>4. CASE Send(c)
  <2>1. CASE writes' = [writes EXCEPT ![p] = Append(@, Msg("request", c))] /\ Goto(c, "sending")
             /\ UNCHANGED <<err, ch, pending, hctx>>
    <3>1. Append(writes[p], Msg("request", c)) \in Seq(T)
      BY <1>0 DEF FramesIn
    <3>2. \A q \in Peers : writes'[q] \in Seq(T)
      BY <1>0, <2>1, <3>1 DEF Types, FramesIn
    <3>3. \A d \in Calls : call'[d].out = call[d].out
      BY <2>1 DEF Goto, Types
    <3>4. OutcomesKept
      BY <2>1, <3>3 DEF OutcomesKept
    <3> QED BY <1>w, <3>2, <3>4
  <2>2. CASE Cancel(c)
    BY <1>2, <2>2
  <2>3. CASE Leave(c, "closed") /\ UNCHANGED <<writes, err, ch, pending, hctx>>
    BY <1>1, <2>3 DEF Leave, Pcs
  <2> QED BY <1>4, <2>1, <2>2, <2>3 DEF Send
<1>5. CASE AwaitWrite(c)
  <2>1. CASE Goto(c, "waiting") /\ UNCHANGED <<writes, err, ch, pending, hctx>>
    BY <1>1, <2>1 DEF Pcs
  <2>2. CASE Cancel(c)
    BY <1>2, <2>2
  <2>3. CASE Leave(c, "closed") /\ UNCHANGED <<writes, err, ch, pending, hctx>>
    BY <1>1, <2>3 DEF Leave, Pcs
  <2> QED BY <1>5, <2>1, <2>2, <2>3 DEF AwaitWrite
<1>6. CASE AwaitAnswer(c)
  <2>1. CASE Leave(c, ch[c]) /\ ch' = [ch EXCEPT ![c] = "empty"]
             /\ UNCHANGED <<writes, err, pending, hctx>>
    <3>1. \A q \in Peers : writes'[q] \in Seq(T)
      BY <2>1 DEF FramesIn
    <3>2. \A d \in Calls : /\ call'[d].out \in {call[d].out, ch[d]}
                            /\ ch'[d] \in {ch[d], "empty"}
      BY <2>1 DEF Leave, Types
    <3>3. OutcomesKept
      BY <3>2 DEF OutcomesKept
    <3> QED BY <1>w, <3>1, <3>3
  <2>2. CASE Cancel(c)
    BY <1>2, <2>2
  <2>3. CASE Leave(c, "closed") /\ UNCHANGED <<writes, err, ch, pending, hctx>>
    BY <1>1, <2>3 DEF Leave, Pcs
  <2> QED BY <1>6, <2>1, <2>2, <2>3 DEF AwaitAnswer
<1>7. CASE Return(c)
  BY <1>1, <1>7 DEF Return, Pcs, pipeVars
<1>8. CASE ContextEnds(c)
  BY <1>1, <1>8 DEF ContextEnds, pipeVars
<1> QED BY <1>3, <1>4, <1>5, <1>6, <1>7, <1>8 DEF Caller

\* A frame at the head of a queue, and the rest.
LEMMA HeadAndTail ==
    ASSUME NEW S, NEW s \in Seq(S), s # <<>>
    PROVE  Head(s) \in S /\ Tail(s) \in Seq(S)
OBVIOUS

LEMMA ShutdownTells ==
    ASSUME NEW p \in Peers, NEW e, Shutdown(p, e)
    PROVE  \A c \in Calls : ch'[c] \in {ch[c], "closed"}
BY DEF Shutdown

LEMMA PipeTells ==
    ASSUME Types, NEW T, FramesIn(T), NEW p \in Peers,
           WriteLoop(p) \/ ReadCancel(p) \/ ReadAnswer(p) \/ ReadEOF(p) \/ Close(p) \/ ClosePipes(p)
    PROVE  FramesIn(T)' /\ OutcomesKept
<1> DEFINE o == Other(p)
<1>0. o \in Peers
  BY Pair
<1>1. UNCHANGED call
  BY DEF WriteLoop, TakeJob, WriteFrame, ReadCancel, ReadAnswer, ReadEOF, Close, ClosePipes, callVars
<1>2. CASE TakeJob(p)
  <2>1. Head(writes[p]) \in T /\ Tail(writes[p]) \in Seq(T)
    BY <1>2, HeadAndTail DEF TakeJob, FramesIn
  <2> QED BY <1>2, <2>1 DEF TakeJob, FramesIn, OutcomesKept, Types, callVars
<1>3. CASE WriteFrame(p)
  <2>1. writing[p] \in T
    BY <1>3 DEF WriteFrame, FramesIn
  <2>2. CASE wire' = [wire EXCEPT ![p] = Append(@, writing[p])]
             /\ writing' = [writing EXCEPT ![p] = NoFrame] /\ UNCHANGED ch
    <3>1. Append(wire[p], writing[p]) \in Seq(T)
      BY <2>1 DEF FramesIn
    <3>2. UNCHANGED <<writes, delivering>>
      BY <1>3 DEF WriteFrame
    <3> QED BY <1>1, <2>2, <3>1, <3>2 DEF FramesIn, OutcomesKept, Types
  <2>3. CASE writing' = [writing EXCEPT ![p] = NoFrame] /\ UNCHANGED wire
             /\ \A c \in Calls : ch'[c] \in {ch[c], "closed"}
    <3>1. UNCHANGED <<writes, delivering>>
      BY <1>3 DEF WriteFrame
    <3> QED BY <1>1, <2>3, <3>1 DEF FramesIn, OutcomesKept, Types
  <2> QED BY <1>3, <2>2, <2>3, ShutdownTells DEF WriteFrame
<1>4. CASE ReadCancel(p)
  <2>1. Tail(wire[o]) \in Seq(T)
    BY <1>0, <1>4, HeadAndTail DEF ReadCancel, Readable, FramesIn
  <2> QED BY <1>4, <2>1 DEF ReadCancel, Consume, FramesIn, OutcomesKept, Types, callVars
<1>5. CASE ReadAnswer(p)
  <2>1. Head(wire[o]) \in T /\ Tail(wire[o]) \in Seq(T)
    BY <1>0, <1>5, HeadAndTail DEF ReadAnswer, Readable, FramesIn
  <2>2. wire' = [wire EXCEPT ![o] = Tail(@)] /\ UNCHANGED <<writes, writing, ch>>
    BY <1>5 DEF ReadAnswer, Consume
  <2>3. \E f \in T \cup {NoFrame} : delivering' = [delivering EXCEPT ![p] = f]
    BY <1>5, <2>1 DEF ReadAnswer
  <2>4. \A q \in Peers : wire'[q] \in Seq(T)
    BY <2>1, <2>2 DEF FramesIn, Types
  <2>5. \A q \in Peers : delivering'[q] \in T \cup {NoFrame}
    BY <2>3 DEF FramesIn, Types
  <2> QED BY <1>1, <2>2, <2>4, <2>5 DEF FramesIn, OutcomesKept
<1>6. CASE ReadEOF(p)
  BY <1>1, <1>6, ShutdownTells DEF ReadEOF, FramesIn, OutcomesKept
<1>7. CASE Close(p)
  BY <1>1, <1>7, ShutdownTells DEF Close, FramesIn, OutcomesKept
<1>8. CASE ClosePipes(p)
  <2>1. <<>> \in Seq(T)
    OBVIOUS
  <2> QED BY <1>0, <1>1, <1>8, <2>1 DEF ClosePipes, FramesIn, OutcomesKept, Types, callVars
<1> QED BY <1>2, <1>3, <1>4, <1>5, <1>6, <1>7, <1>8 DEF WriteLoop

\* A handler answers, or is refused, and what is said of it is true from now on.
LEMMA HandlerTells ==
    ASSUME OutcomeInv, NEW T, T = Told', FramesIn(T), NEW c \in Calls, Respond(c) \/ Cleanup(c)
    PROVE  FramesIn(T)' /\ OutcomesKept
<1>1. UNCHANGED <<call, wire, writing, delivering>>
  BY DEF Respond, Cleanup, callVars, pipeVars
<1>2. CASE Respond(c)
  <2>1. handler'[c] = "responded"
    BY <1>2 DEF Respond, OutcomeInv, ShutdownInv, Types
  <2>2. Msg("answer", c) \in T
    BY <2>1 DEF Told, Truth, Msg, Frame, Kinds
  <2>3. CalleeOf(c) \in Peers
    BY ReasonsAndFrames
  <2>4. /\ \A q \in Peers : writes'[q] \in Seq(T)
        /\ \A d \in Calls : ch'[d] \in {ch[d], "closed"}
    BY <1>2, <2>2, <2>3, EnqueueTells DEF Respond, FramesIn, OutcomeInv, ShutdownInv
  <2> QED BY <1>1, <2>4 DEF FramesIn, OutcomesKept
<1>3. CASE Cleanup(c)
  BY <1>1, <1>3 DEF Cleanup, FramesIn, OutcomesKept, callVars, pipeVars
<1> QED BY <1>2, <1>3

LEMMA RequestTells ==
    ASSUME OutcomeInv, NEW T, T = Told', FramesIn(T), NEW p \in Peers, ReadRequest(p)
    PROVE  FramesIn(T)' /\ OutcomesKept
<1> DEFINE o == Other(p)
           c == Head(wire[o]).id
<1>0. o \in Peers /\ Types
  BY Pair DEF OutcomeInv, ShutdownInv
<1>1. UNCHANGED <<call, writing, delivering>>
  BY DEF ReadRequest
<1>2. Tail(wire[o]) \in Seq(T) /\ c \in Calls
  BY <1>0, HeadAndTail, FrameIds DEF ReadRequest, Readable, FramesIn, Types
<1>3. \A q \in Peers : wire'[q] \in Seq(T)
  BY <1>0, <1>2 DEF ReadRequest, Consume, FramesIn, Types
<1>4. CASE UNCHANGED <<writes, err, ch, pending, hctx>>
  BY <1>1, <1>3, <1>4 DEF FramesIn, OutcomesKept
<1>5. CASE Refuse(p, c)
  <2>1. handler'[c] = "refused"
    BY <1>0, <1>2, <1>5 DEF Refuse, Types
  <2>2. Msg("refused", c) \in T
    BY <1>2, <2>1 DEF Told, Truth, Msg, Frame, Kinds
  <2>3. /\ \A q \in Peers : writes'[q] \in Seq(T)
        /\ \A d \in Calls : ch'[d] \in {ch[d], "closed"}
    BY <1>0, <1>5, <2>2, EnqueueTells DEF Refuse, FramesIn
  <2> QED BY <1>1, <1>3, <2>3 DEF FramesIn, OutcomesKept
<1> QED BY <1>4, <1>5 DEF ReadRequest

\* The answer that is delivered is one that was told.
LEMMA DeliverTells ==
    ASSUME OutcomeInv, [Next]_vars, NEW T, FramesIn(T), NEW p \in Peers, Deliver(p)
    PROVE  FramesIn(T)' /\ TrueOutcomes'
<1>1. UNCHANGED <<call, writes, wire, writing, handler>>
  BY DEF Deliver
<1>2. \A q \in Peers : delivering'[q] \in T \cup {NoFrame}
  BY DEF Deliver, FramesIn, OutcomeInv, ShutdownInv, Types
<1>3. FramesIn(T)'
  BY <1>1, <1>2 DEF FramesIn
<1>4. delivering[p] \in Told
  BY DEF Deliver, OutcomeInv, TrueFrames
<1>5. delivering[p].id \in Calls /\ Truth(delivering[p].kind, delivering[p].id)
  BY <1>4, FrameIds DEF Told
<1>6. \A c \in Calls : ch'[c] = ch[c] \/ (c = delivering[p].id /\ ch'[c] = delivering[p].kind)
  BY DEF Deliver, OutcomeInv, ShutdownInv, Types
<1>7. TrueOutcomes'
  BY <1>1, <1>5, <1>6 DEF OutcomeInv, TrueOutcomes, Truth
<1> QED BY <1>3, <1>7

LEMMA OutcomeInvStep == OutcomeInv /\ [Next]_vars => OutcomeInv'
<1> SUFFICES ASSUME OutcomeInv, [Next]_vars
             PROVE  OutcomeInv'
  OBVIOUS
<1>1. ShutdownInv'
  BY ShutdownInvStep DEF OutcomeInv
<1>2. Requests'
  BY RequestStep, OneRequestStep DEF OutcomeInv, Requests
<1>3. PICK T : T = Told'
  OBVIOUS
<1>4. FramesIn(T)
  BY <1>3, TruthStays DEF FramesIn
<1>5. \A c \in Calls : Msg("request", c) \in T /\ Msg("cancel", c) \in T
  BY <1>3, AskingTells
<1>6. Types
  BY DEF OutcomeInv, ShutdownInv
<1> DEFINE Goal == FramesIn(T)' /\ TrueOutcomes'
<1>7. ASSUME FramesIn(T)', OutcomesKept
      PROVE  Goal
  BY <1>7, OutcomesStay
<1>8. ASSUME NEW c \in Calls, Caller(c) \/ ContextEnds(c)
      PROVE  Goal
  BY <1>4, <1>5, <1>6, <1>7, <1>8, CallerTells
<1>9. ASSUME NEW c \in Calls, Respond(c) \/ Cleanup(c)
      PROVE  Goal
  BY <1>3, <1>4, <1>7, <1>9, HandlerTells
<1>10. ASSUME NEW p \in Peers, WriteLoop(p) \/ ReadLoop(p) \/ Close(p) \/ ClosePipes(p)
       PROVE  Goal
  <2>1. CASE ReadRequest(p)
    BY <1>3, <1>4, <1>7, <2>1, RequestTells
  <2>2. CASE Deliver(p)
    BY <1>4, <2>2, DeliverTells
  <2>3. CASE WriteLoop(p) \/ ReadCancel(p) \/ ReadAnswer(p) \/ ReadEOF(p) \/ Close(p) \/ ClosePipes(p)
    BY <1>4, <1>6, <1>7, <2>3, PipeTells
  <2> QED BY <1>10, <2>1, <2>2, <2>3 DEF ReadLoop
<1>11. ASSUME UNCHANGED vars
       PROVE  Goal
  BY <1>4, <1>7, <1>11 DEF vars, callVars, pipeVars, FramesIn, OutcomesKept
<1> HIDE DEF Goal
<1>12. Goal
  BY <1>8, <1>9, <1>10, <1>11 DEF Next
<1>13. FramesIn(T)' /\ TrueOutcomes'
  BY <1>12 DEF Goal
<1>14. TrueFrames'
  BY <1>3, <1>13 DEF FramesIn, TrueFrames
<1> QED BY <1>1, <1>2, <1>13, <1>14 DEF OutcomeInv

LEMMA OutcomeInvInit == Init => OutcomeInv
<1> SUFFICES ASSUME Init
             PROVE  OutcomeInv
  OBVIOUS
<1>1. Types /\ ChannelInv
  BY InitInv
<1>2. ShutdownInv
  BY <1>1 DEF Init, ShutdownInv, OwnRequests, ShutdownIsComplete
<1>3. ASSUME NEW c \in Calls
      PROVE  OneRequest(c)
  <2>1. CallerOf[c] \in Peers
    BY IpcAssumption
  <2>2. writes[CallerOf[c]] = <<>> /\ wire[CallerOf[c]] = <<>> /\ writing[CallerOf[c]] = NoFrame
        /\ handler[c] = "none"
    BY <2>1 DEF Init
  <2>3. Request(c) # NoFrame
    BY IpcAssumption DEF Request, Msg
  <2> QED BY <2>2, <2>3, InNothing DEF OneRequest, Queued, InHand, Piped
<1>4. TrueFrames
  BY DEF Init, TrueFrames
<1>5. TrueOutcomes
  BY DEF Init, TrueOutcomes, Truth
<1> QED BY <1>2, <1>3, <1>4, <1>5 DEF OutcomeInv, Requests

\* A call reports an answer only when its handler has answered, and QUEUE_FULL of
\* the other side only when its handler never ran: the request was sent once, its
\* handler was started or refused once, and no frame about it was ever false.
THEOREM OutcomeCorrect == Spec => []OutcomeMatchesHandler
<1>1. OutcomeInv => OutcomeMatchesHandler
  BY DEF OutcomeInv, TrueOutcomes, Truth, OutcomeMatchesHandler
<1> QED BY <1>1, OutcomeInvInit, OutcomeInvStep, PTL DEF Spec

-------------------------------------------------------------------------------
(* The bounds of a peer: its write queue, the pipe, the calls that wait and   *)
(* the handlers that run.                                                    *)

Bounds ==
    \A p \in Peers : /\ Len(writes[p]) <= MaxWrites /\ Len(wire[p]) <= PipeRoom
                     /\ Cardinality(pending[p]) <= MaxPending
                     /\ Cardinality(Active(p)) <= MaxHandlers

LEMMA Lengths ==
    ASSUME NEW s \in Seq(Frame), NEW f \in Frame
    PROVE  /\ Len(s) \in Nat
           /\ Append(s, f) \in Seq(Frame) /\ Len(Append(s, f)) = Len(s) + 1
           /\ s # <<>> => Len(s) >= 1 /\ Tail(s) \in Seq(Frame) /\ Len(Tail(s)) = Len(s) - 1
OBVIOUS

\* A subset of the calls with at most one member more than another one.
LEMMA OneMore ==
    ASSUME NEW S \in SUBSET Calls, NEW T \in SUBSET Calls, NEW c, NEW n \in Nat,
           \/ T \subseteq S /\ Cardinality(S) <= n
           \/ T \subseteq S \cup {c} /\ Cardinality(S) < n
    PROVE  Cardinality(T) <= n
<1>1. IsFiniteSet(S) /\ IsFiniteSet(T)
  BY IpcAssumption, FS_Subset
<1>2. Cardinality(S) \in Nat /\ Cardinality(T) \in Nat
  BY <1>1, FS_CardinalityType
<1>3. CASE T \subseteq S /\ Cardinality(S) <= n
  <2>1. Cardinality(T) <= Cardinality(S)
    BY <1>1, <1>3, FS_Subset
  <2> QED BY <1>2, <1>3, <2>1
<1>4. CASE T \subseteq S \cup {c} /\ Cardinality(S) < n
  <2>1. /\ IsFiniteSet(S \cup {c})
        /\ Cardinality(S \cup {c}) = Cardinality(S) \/ Cardinality(S \cup {c}) = Cardinality(S) + 1
    BY <1>1, FS_AddElement
  <2>2. Cardinality(T) <= Cardinality(S \cup {c})
    BY <1>4, <2>1, FS_Subset
  <2> QED BY <1>2, <1>4, <2>1, <2>2
<1> QED BY <1>3, <1>4

LEMMA EnqueueBounded ==
    ASSUME Types, Bounds, NEW p \in Peers, NEW f \in Frame, Enqueue(p, f)
    PROVE  \A q \in Peers : Len(writes'[q]) <= MaxWrites
<1>1. CASE UNCHANGED writes
  BY <1>1 DEF Bounds
<1>2. CASE Len(writes[p]) < MaxWrites /\ writes' = [writes EXCEPT ![p] = Append(@, f)]
  <2>1. Len(writes[p]) \in Nat /\ Len(Append(writes[p], f)) = Len(writes[p]) + 1
    BY Lengths DEF Types
  <2>2. Len(Append(writes[p], f)) <= MaxWrites
    BY <1>2, <2>1, IpcAssumption
  <2> QED BY <1>2, <2>2 DEF Types, Bounds
<1> QED BY <1>1, <1>2 DEF Enqueue, Shutdown

\* Nobody appends to a full write queue: send waits, enqueue shuts the peer down.
LEMMA QueueBounded ==
    ASSUME Types, Bounds, [Next]_vars
    PROVE  \A q \in Peers : Len(writes'[q]) <= MaxWrites
<1> DEFINE Goal == \A q \in Peers : Len(writes'[q]) <= MaxWrites
<1>1. ASSUME UNCHANGED writes
      PROVE  Goal
  BY <1>1 DEF Bounds
<1>2. ASSUME NEW p \in Peers, NEW f \in Frame, Enqueue(p, f)
      PROVE  Goal
  BY <1>2, EnqueueBounded
<1>3. ASSUME NEW c \in Calls, Cancel(c)
      PROVE  Goal
  <2>1. CallerOf[c] \in Peers /\ Msg("cancel", c) \in Frame
    BY IpcAssumption DEF Msg, Frame, Kinds
  <2> QED BY <1>2, <1>3, <2>1 DEF Cancel
<1>4. ASSUME NEW c \in Calls, Send(c)
      PROVE  Goal
  <2>1. CASE /\ Len(writes[CallerOf[c]]) < MaxWrites
             /\ writes' = [writes EXCEPT ![CallerOf[c]] = Append(@, Msg("request", c))]
    <3>1. CallerOf[c] \in Peers /\ Msg("request", c) \in Frame
      BY IpcAssumption DEF Msg, Frame, Kinds
    <3>2. PICK w : w = writes[CallerOf[c]]
      OBVIOUS
    <3>3. w \in Seq(Frame) /\ Len(w) < MaxWrites
          /\ writes' = [writes EXCEPT ![CallerOf[c]] = Append(w, Msg("request", c))]
      BY <2>1, <3>1, <3>2 DEF Types
    <3>4. Len(w) \in Nat /\ Len(Append(w, Msg("request", c))) = Len(w) + 1
      BY <3>1, <3>3, Lengths
    <3>5. Len(Append(w, Msg("request", c))) <= MaxWrites
      BY <3>3, <3>4, IpcAssumption
    <3> QED BY <3>3, <3>5 DEF Types, Bounds
  <2> QED BY <1>1, <1>3, <1>4, <2>1 DEF Send
<1>5. ASSUME NEW c \in Calls, Caller(c) \/ ContextEnds(c)
      PROVE  Goal
  BY <1>1, <1>3, <1>4, <1>5 DEF Caller, Begin, AwaitWrite, AwaitAnswer, Return, ContextEnds, pipeVars
<1>6. ASSUME NEW c \in Calls, Respond(c) \/ Cleanup(c)
      PROVE  Goal
  BY <1>1, <1>2, <1>6, ReasonsAndFrames DEF Respond, Cleanup, pipeVars
<1>7. ASSUME NEW p \in Peers, TakeJob(p)
      PROVE  Goal
  <2>1. writes[p] \in Seq(Frame) /\ writes[p] # <<>>
    BY <1>7 DEF TakeJob, Types
  <2>2. PICK w : w = writes[p]
    OBVIOUS
  <2>3. w \in Seq(Frame) /\ w # <<>> /\ Head(w) \in Frame
    BY <2>1, <2>2
  <2>4. Len(w) \in Nat /\ Len(Tail(w)) = Len(w) - 1
    BY <2>3, Lengths
  <2>5. Len(Tail(w)) <= MaxWrites
    BY <2>2, <2>4, IpcAssumption DEF Bounds
  <2> QED BY <1>7, <2>2, <2>5 DEF TakeJob, Types, Bounds
<1>8. ASSUME NEW p \in Peers, ClosePipes(p)
      PROVE  Goal
  <2>1. Len(<<>>) <= MaxWrites
    BY IpcAssumption
  <2> QED BY <1>8, <2>1 DEF ClosePipes, Types, Bounds
<1>9. ASSUME NEW p \in Peers, ReadRequest(p)
      PROVE  Goal
  <2>1. Head(wire[Other(p)]).id \in Calls
    BY <1>9, Pair, FrameIds, HeadAndTail DEF ReadRequest, Readable, Types
  <2>2. CASE Refuse(p, Head(wire[Other(p)]).id)
    BY <1>2, <2>1, <2>2, ReasonsAndFrames DEF Refuse
  <2> QED BY <1>1, <1>9, <2>2 DEF ReadRequest
<1>10. ASSUME NEW p \in Peers, WriteFrame(p) \/ ReadCancel(p) \/ ReadAnswer(p) \/ Deliver(p)
                               \/ ReadEOF(p) \/ Close(p)
       PROVE  Goal
  BY <1>1, <1>10 DEF WriteFrame, ReadCancel, ReadAnswer, Deliver, ReadEOF, Close
<1>11. ASSUME UNCHANGED vars
       PROVE  Goal
  BY <1>1, <1>11 DEF vars, pipeVars
<1> HIDE DEF Goal
<1>12. Goal
  BY <1>5, <1>6, <1>7, <1>8, <1>9, <1>10, <1>11 DEF Next, WriteLoop, ReadLoop
<1> QED BY <1>12 DEF Goal

LEMMA PipeBounded ==
    ASSUME Types, Bounds, [Next]_vars
    PROVE  \A q \in Peers : Len(wire'[q]) <= PipeRoom
<1> DEFINE Goal == \A q \in Peers : Len(wire'[q]) <= PipeRoom
<1>1. ASSUME UNCHANGED wire
      PROVE  Goal
  BY <1>1 DEF Bounds
<1>2. ASSUME NEW p \in Peers, WriteFrame(p)
      PROVE  Goal
  <2>1. CASE Len(wire[p]) < PipeRoom /\ wire' = [wire EXCEPT ![p] = Append(@, writing[p])]
    <3>1. writing[p] \in Frame /\ wire[p] \in Seq(Frame)
      BY <1>2 DEF WriteFrame, Types
    <3>2. Len(wire[p]) \in Nat /\ Len(Append(wire[p], writing[p])) = Len(wire[p]) + 1
      BY <3>1, Lengths
    <3>3. Len(Append(wire[p], writing[p])) <= PipeRoom
      BY <2>1, <3>2, IpcAssumption
    <3> QED BY <2>1, <3>3 DEF Types, Bounds
  <2> QED BY <1>1, <1>2, <2>1 DEF WriteFrame
<1>3. ASSUME NEW p \in Peers, ReadRequest(p) \/ ReadCancel(p) \/ ReadAnswer(p)
      PROVE  Goal
  <2>1. Other(p) \in Peers
    BY Pair
  <2>2. PICK w : w = wire[Other(p)]
    OBVIOUS
  <2>3. w \in Seq(Frame) /\ w # <<>> /\ Head(w) \in Frame
        /\ wire' = [wire EXCEPT ![Other(p)] = Tail(w)] /\ Len(w) <= PipeRoom
    BY <1>3, <2>1, <2>2, HeadAndTail
       DEF ReadRequest, ReadCancel, ReadAnswer, Readable, Consume, Types, Bounds
  <2>4. Len(w) \in Nat /\ Len(Tail(w)) = Len(w) - 1
    BY <2>3, Lengths
  <2>5. Len(Tail(w)) <= PipeRoom
    BY <2>3, <2>4, IpcAssumption
  <2> QED BY <2>3, <2>5 DEF Types, Bounds
<1>4. ASSUME NEW p \in Peers, ClosePipes(p)
      PROVE  Goal
  <2>1. Len(<<>>) <= PipeRoom
    BY IpcAssumption
  <2> QED BY <1>4, <2>1 DEF ClosePipes, Types, Bounds
<1>5. ASSUME NEW p \in Peers, TakeJob(p) \/ Deliver(p) \/ ReadEOF(p) \/ Close(p)
      PROVE  Goal
  BY <1>1, <1>5 DEF TakeJob, Deliver, ReadEOF, Close
<1>6. ASSUME NEW c \in Calls, Caller(c) \/ ContextEnds(c) \/ Respond(c) \/ Cleanup(c)
      PROVE  Goal
  BY <1>1, <1>6 DEF Caller, Begin, Send, AwaitWrite, AwaitAnswer, Return, ContextEnds,
                    Respond, Cleanup, pipeVars
<1>7. ASSUME UNCHANGED vars
      PROVE  Goal
  BY <1>1, <1>7 DEF vars, pipeVars
<1> HIDE DEF Goal
<1>8. Goal
  BY <1>2, <1>3, <1>4, <1>5, <1>6, <1>7 DEF Next, WriteLoop, ReadLoop
<1> QED BY <1>8 DEF Goal

\* Only Begin adds a call to p.pending, after it has looked at their number.
LEMMA PendingBounded ==
    ASSUME Types, ChannelInv, Bounds, [Next]_vars
    PROVE  \A q \in Peers : Cardinality(pending'[q]) <= MaxPending
<1> DEFINE Goal == \A q \in Peers : Cardinality(pending'[q]) <= MaxPending
<1>0. \A q \in Peers : pending'[q] \in SUBSET Calls /\ pending[q] \in SUBSET Calls
  BY NextInv DEF Types
<1>n. MaxPending \in Nat
  BY IpcAssumption
<1>1. ASSUME \A q \in Peers : pending'[q] \subseteq pending[q]
      PROVE  Goal
  <2> SUFFICES ASSUME NEW q \in Peers
               PROVE  Cardinality(pending'[q]) <= MaxPending
    OBVIOUS
  <2>1. pending'[q] \subseteq pending[q] /\ Cardinality(pending[q]) <= MaxPending
    BY <1>1 DEF Bounds
  <2>2. PICK T : T = pending'[q]
    OBVIOUS
  <2>3. PICK S : S = pending[q]
    OBVIOUS
  <2> QED BY <1>0, <1>n, <2>1, <2>2, <2>3, OneMore
<1>2. ASSUME NEW p \in Peers, NEW e, Shutdown(p, e)
      PROVE  Goal
  BY <1>1, <1>2 DEF Shutdown, Types
<1>3. ASSUME NEW p \in Peers, NEW f, Enqueue(p, f)
      PROVE  Goal
  BY <1>1, <1>2, <1>3 DEF Enqueue
<1>4. ASSUME NEW c \in Calls, Begin(c)
      PROVE  Goal
  <2>1. CASE UNCHANGED pending
    BY <1>1, <2>1
  <2>2. CASE Rejection(CallerOf[c]) = "none"
             /\ pending' = [pending EXCEPT ![CallerOf[c]] = @ \cup {c}]
    <3> SUFFICES ASSUME NEW q \in Peers
                 PROVE  Cardinality(pending'[q]) <= MaxPending
      OBVIOUS
    <3>1. CallerOf[c] \in Peers
      BY IpcAssumption
    <3>2. PICK S : S = pending[q]
      OBVIOUS
    <3>3. PICK T : T = pending'[q]
      OBVIOUS
    <3>4. CASE q = CallerOf[c]
      <4>1. Cardinality(S) \in Nat
        BY <1>0, <3>2, IpcAssumption, FS_Subset, FS_CardinalityType
      <4>2. ~(Cardinality(S) >= MaxPending)
        BY <2>2, <3>2, <3>4 DEF Rejection
      <4>3. Cardinality(S) < MaxPending
        BY <1>n, <4>1, <4>2
      <4>4. T \subseteq S \cup {c}
        BY <2>2, <3>1, <3>2, <3>3, <3>4 DEF Types
      <4> QED BY <1>0, <1>n, <3>2, <3>3, <4>3, <4>4, OneMore
    <3>5. CASE q # CallerOf[c]
      BY <2>2, <3>5 DEF Types, Bounds
    <3> QED BY <3>4, <3>5
  <2> QED BY <1>4, <2>1, <2>2 DEF Begin
<1>5. ASSUME NEW c \in Calls, Send(c) \/ AwaitWrite(c) \/ AwaitAnswer(c) \/ ContextEnds(c)
      PROVE  Goal
  BY <1>1, <1>3, <1>5, IpcAssumption DEF Send, AwaitWrite, AwaitAnswer, ContextEnds, Cancel
<1>6. ASSUME NEW c \in Calls, Return(c)
      PROVE  Goal
  BY <1>1, <1>6 DEF Return, Types
<1>7. ASSUME NEW c \in Calls, Respond(c) \/ Cleanup(c)
      PROVE  Goal
  BY <1>1, <1>3, <1>7, ReasonsAndFrames DEF Respond, Cleanup, callVars
<1>8. ASSUME NEW p \in Peers, WriteFrame(p) \/ ReadEOF(p) \/ Close(p)
      PROVE  Goal
  BY <1>1, <1>2, <1>8 DEF WriteFrame, ReadEOF, Close
<1>9. ASSUME NEW p \in Peers, TakeJob(p) \/ ReadCancel(p) \/ Deliver(p) \/ ClosePipes(p)
      PROVE  Goal
  BY <1>1, <1>9 DEF TakeJob, ReadCancel, Deliver, ClosePipes, callVars
<1>10. ASSUME NEW p \in Peers, ReadRequest(p)
       PROVE  Goal
  BY <1>1, <1>3, <1>10 DEF ReadRequest, Refuse
<1>11. ASSUME NEW p \in Peers, ReadAnswer(p)
       PROVE  Goal
  BY <1>1, <1>11 DEF ReadAnswer, TakeOut, Types
<1>12. ASSUME UNCHANGED vars
       PROVE  Goal
  BY <1>1, <1>12 DEF vars, callVars
<1> HIDE DEF Goal
<1>13. Goal
  BY <1>4, <1>5, <1>6, <1>7, <1>8, <1>9, <1>10, <1>11, <1>12 DEF Next, Caller, WriteLoop, ReadLoop
<1> QED BY <1>13 DEF Goal

\* Only ReadRequest starts a handler, when there is room for one.
LEMMA HandlersBounded ==
    ASSUME Types, ChannelInv, OwnRequests, Bounds, [Next]_vars
    PROVE  \A q \in Peers : Cardinality(Active(q)') <= MaxHandlers
<1> DEFINE Goal == \A q \in Peers : Cardinality(Active(q)') <= MaxHandlers
<1>n. MaxHandlers \in Nat
  BY IpcAssumption
<1>1. ASSUME NEW q \in Peers, \/ Active(q)' \subseteq Active(q)
                              \/ /\ Cardinality(Active(q)) < MaxHandlers
                                 /\ \E c \in Calls : Active(q)' \subseteq Active(q) \cup {c}
      PROVE  Cardinality(Active(q)') <= MaxHandlers
  <2>1. PICK T : T = Active(q)'
    OBVIOUS
  <2>2. PICK S : S = Active(q)
    OBVIOUS
  <2>3. S \in SUBSET Calls /\ T \in SUBSET Calls
    BY <2>1, <2>2 DEF Active
  <2>4. Cardinality(S) <= MaxHandlers
    BY <2>2 DEF Bounds
  <2>5. \E c : \/ T \subseteq S /\ Cardinality(S) <= MaxHandlers
               \/ T \subseteq S \cup {c} /\ Cardinality(S) < MaxHandlers
    BY <1>1, <2>1, <2>2, <2>4
  <2>6. Cardinality(T) <= MaxHandlers
    BY <1>n, <2>3, <2>5, OneMore
  <2> QED BY <2>1, <2>6
<1>2. ASSUME \A c \in Calls : handler'[c] \in {"running", "responded"}
                              => handler[c] \in {"running", "responded"}
      PROVE  Goal
  BY <1>1, <1>2 DEF Active
<1>3. ASSUME NEW p \in Peers, ReadRequest(p)
      PROVE  Goal
  <2> DEFINE c == Head(wire[Other(p)]).id
  <2>1. c \in Calls
    BY <1>3, Pair, FrameIds, HeadAndTail DEF ReadRequest, Readable, Types
  <2>2. CalleeOf(c) = p
    <3>1. Head(wire[Other(p)]) \in Own(Other(p)) /\ Head(wire[Other(p)]).kind = "request"
      BY <1>3, Pair, HeadAndTail DEF ReadRequest, Readable, OwnRequests
    <3> QED BY <3>1, Pair DEF Own, CalleeOf
  <2>3. CASE Room(p) /\ handler' = [handler EXCEPT ![c] = "running"]
    <3>1. \A q \in Peers : q # p => Active(q)' \subseteq Active(q)
      BY <2>2, <2>3 DEF Active, Types
    <3>2. Cardinality(Active(p)) < MaxHandlers /\ Active(p)' \subseteq Active(p) \cup {c}
      BY <2>3 DEF Room, Active, Types
    <3> QED BY <1>1, <2>1, <3>1, <3>2
  <2>4. CASE Refuse(p, c)
    BY <1>2, <2>4 DEF Refuse, Types
  <2> QED BY <1>3, <2>3, <2>4 DEF ReadRequest
<1>4. ASSUME NEW c \in Calls, Caller(c) \/ ContextEnds(c)
      PROVE  Goal
  BY <1>2, <1>4 DEF Caller, Begin, Send, AwaitWrite, AwaitAnswer, Return, ContextEnds
<1>5. ASSUME NEW c \in Calls, Respond(c) \/ Cleanup(c)
      PROVE  Goal
  BY <1>2, <1>5 DEF Respond, Cleanup, Types
<1>6. ASSUME NEW p \in Peers, \/ WriteLoop(p) \/ Close(p) \/ ClosePipes(p)
                              \/ ReadCancel(p) \/ ReadAnswer(p) \/ Deliver(p) \/ ReadEOF(p)
      PROVE  Goal
  BY <1>2, <1>6 DEF WriteLoop, TakeJob, WriteFrame, Close, ClosePipes, ReadCancel, ReadAnswer,
                    Deliver, ReadEOF
<1>7. ASSUME UNCHANGED vars
      PROVE  Goal
  BY <1>2, <1>7 DEF vars
<1> HIDE DEF Goal
<1>8. Goal
  BY <1>3, <1>4, <1>5, <1>6, <1>7 DEF Next, ReadLoop
<1> QED BY <1>8 DEF Goal

LEMMA BoundsInit == Init => Bounds
<1> SUFFICES ASSUME Init, NEW p \in Peers
             PROVE  /\ Len(writes[p]) <= MaxWrites /\ Len(wire[p]) <= PipeRoom
                    /\ Cardinality(pending[p]) <= MaxPending
                    /\ Cardinality(Active(p)) <= MaxHandlers
  BY DEF Bounds
<1>1. writes[p] = <<>> /\ wire[p] = <<>> /\ pending[p] = {} /\ Active(p) = {}
  BY DEF Init, Active
<1>2. Len(<<>>) = 0 /\ Cardinality({}) = 0
  BY FS_EmptySet
<1> QED BY <1>1, <1>2, IpcAssumption

\* Every variable of every peer keeps its type, and no peer ever holds more queued
\* frames, waiting calls or running handlers than its limits, at any interleaving of
\* callers, loops, handlers, cancellations and shutdowns.
THEOREM TypeCorrect == Spec => []TypeOK
<1>1. Init => ShutdownInv /\ Bounds
  BY OutcomeInvInit, BoundsInit DEF OutcomeInv
<1>2. ShutdownInv /\ Bounds /\ [Next]_vars => ShutdownInv' /\ Bounds'
  <2> SUFFICES ASSUME ShutdownInv, Bounds, [Next]_vars
               PROVE  ShutdownInv' /\ Bounds'
    OBVIOUS
  <2>1. ShutdownInv'
    BY ShutdownInvStep
  <2>2. \A q \in Peers : Len(writes'[q]) <= MaxWrites
    BY QueueBounded DEF ShutdownInv
  <2>3. \A q \in Peers : Len(wire'[q]) <= PipeRoom
    BY PipeBounded DEF ShutdownInv
  <2>4. \A q \in Peers : Cardinality(pending'[q]) <= MaxPending
    BY PendingBounded DEF ShutdownInv
  <2>5. \A q \in Peers : Cardinality(Active(q)') <= MaxHandlers
    BY HandlersBounded DEF ShutdownInv
  <2>6. Bounds'
    BY <2>2, <2>3, <2>4, <2>5 DEF Bounds
  <2> QED BY <2>1, <2>6
<1>3. ShutdownInv /\ Bounds => TypeOK
  BY DEF ShutdownInv, Types, Bounds, TypeOK
<1> QED BY <1>1, <1>2, <1>3, PTL DEF Spec
===============================================================================
