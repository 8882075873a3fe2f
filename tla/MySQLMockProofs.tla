---------------------------- MODULE MySQLMockProofs ----------------------------
(* What MySQLMock guarantees for any number of requests, connections, slots   *)
(* and fills.                                                                *)
EXTENDS MySQLMock, MySQLStateProofs, FiniteSetTheorems

-------------------------------------------------------------------------------
(* The inductive invariant.                                                 *)

HandlersTyped ==
    /\ req \in [Requests -> Handler]
    /\ ctx \subseteq Requests /\ late \subseteq Requests
    /\ need \in [Requests -> Need]
    /\ slotOf \in [Slots -> Requests \cup {NoRequest}]
    /\ calls \in [Statements -> Nat]
    /\ closed \subseteq gone /\ gone \subseteq Conns
    /\ holder \in Requests \cup {NoRequest}
    /\ stopped \in BOOLEAN

\* Statements of clients write items only; what is committed is valid.
PrivateWrites(s) ==
    /\ ~s.active => s.writes = NoWrites
    /\ \A p \in Parents : s.writes[p] = Unwritten

RowsInv == Types /\ (\A c \in Conns : PrivateWrites(Conn(c))) /\ CommittedIsValid

\* The rows of a slot are there.
Holds(s) == \A k \in SlotKeys[s] : committed[k].row # NoRow

\* A request has a continuation from the turn of its loop in which it asked.  While
\* Complete executes its query the continuation is open and p.mu is held.
NeedInv(q) ==
    /\ need[q].state # "none" =>
          req[q].pc \in {"needs", "filling", "done", "failed"} /\ need[q].slot \in Slots
    /\ req[q].pc \in {"needs", "filling"} => need[q].state # "none"
    /\ need[q].state = "open" => slotOf[need[q].slot] = q
    /\ need[q].state = "filled" => Holds(need[q].slot)
    /\ req[q].pc = "filling" =>
          holder = q /\ need[q].state = "open" /\ Holds(need[q].slot)

\* A query has passed the slots whose rows are there; it waits for a continuation of
\* the slot it has come to, and is executed after the last one.
LoopInv(d) ==
    /\ \A i \in 1..(d.at - 1) : Holds(SlotSeq[i])
    /\ d.pc = "waiting" =>
          /\ d.at <= Len(SlotSeq) /\ d.on \in Requests
          /\ need[d.on].state # "none" /\ need[d.on].slot = SlotSeq[d.at]
    /\ d.pc = "executing" /\ d.op = "select" => d.at > Len(SlotSeq)

SlotInv(s) ==
    slotOf[s] # NoRequest => need[slotOf[s]].state # "none" /\ need[slotOf[s]].slot = s

\* Each request is counted once.
Counted(st) ==
    {q \in Requests : req[q].op = st /\ req[q].pc \notin {"idle", "called", "admitted"}}

LimitInv ==
    /\ IsFiniteSet(Pending) /\ Cardinality(Pending) <= MaxPending
    /\ \A st \in Statements : calls[st] <= Cardinality(Counted(st))

MockInv ==
    /\ HandlersTyped /\ RowsInv /\ LimitInv
    /\ \A q \in Requests : NeedInv(q) /\ LoopInv(req[q])
    /\ \A s \in Slots : SlotInv(s)

-------------------------------------------------------------------------------
(* The rows.  No statement changes a parent that is committed; only Complete *)
(* adds parents, where there are none.                                       *)

Kept == \A p \in Parents : committed[p].row # NoRow => committed'[p] = committed[p]

LEMMA ParentKeys == \A p \in Parents : p \in Keys /\ p \notin Ids
BY KeysAssumption DEF Keys

LEMMA HoldsStays ==
    ASSUME Kept, NEW s \in Slots, Holds(s)
    PROVE  Holds(s)'
<1>1. SlotKeys[s] \subseteq Parents
  BY MockAssumption DEF Slots
<1> QED BY <1>1 DEF Holds, Kept

\* What is committed does not change.
LEMMA SessionStep ==
    ASSUME RowsInv, Forth, NEW c \in Conns, NEW s \in Session, Gives(c, s), PrivateWrites(s),
           UNCHANGED <<committed, version>>
    PROVE  RowsInv' /\ Kept
<1>1. Types'
  BY DEF RowsInv, Types, Forth, Gives
<1>2. \A d \in Conns : PrivateWrites(Conn(d)')
  BY DEF RowsInv, Gives
<1>3. CommittedIsValid'
  BY DEF RowsInv, CommittedIsValid
<1> QED BY <1>1, <1>2, <1>3 DEF RowsInv, Kept, PrivateWrites

\* Rows are committed.
LEMMA CommitRows ==
    ASSUME RowsInv, Forth, sessions' \in [Conns -> Session \cup {NoSession}],
           \A d \in Conns : PrivateWrites(Conn(d)'),
           NEW changes, \A k \in DOMAIN changes : changes[k] \in Rows \cup {NoRow},
           \A p \in Parents : p \in DOMAIN changes => committed[p].row = NoRow,
           version < MaxVersion, Install(changes), Valid(After(CommittedNow, changes))
    PROVE  RowsInv' /\ Kept
<1>1. version \in Nat /\ version' = version + 1 /\ version' \in 0..MaxVersion
  BY Numbers DEF RowsInv, Types, Install
<1>2. \A k \in Keys : committed'[k] = IF k \in DOMAIN changes
                                      THEN [row |-> changes[k], version |-> version + 1]
                                      ELSE committed[k]
  BY DEF Install
<1>3. committed' \in [Keys -> Record]
  <2>1. ASSUME NEW k \in Keys
        PROVE  committed'[k] \in Record
    <3>1. CASE k \in DOMAIN changes
      <4>1. committed'[k] = [row |-> changes[k], version |-> version']
        BY <1>1, <1>2, <3>1
      <4> QED BY <1>1, <3>1, <4>1 DEF Record
    <3>2. CASE k \notin DOMAIN changes
      BY <1>2, <3>2 DEF RowsInv, Types
    <3> QED BY <3>1, <3>2
  <2> QED BY <2>1 DEF Install
<1>4. Types'
  BY <1>1, <1>3 DEF RowsInv, Types, Forth
<1>5. CommittedIsValid'
  <2>1. [k \in Keys |-> committed'[k].row] = After(CommittedNow, changes)
    <3>1. ASSUME NEW k \in Keys
          PROVE  committed'[k].row = After(CommittedNow, changes)[k]
      <4>0. After(CommittedNow, changes)[k] =
               IF k \in DOMAIN changes THEN changes[k] ELSE committed[k].row
        BY DEF After, CommittedNow
      <4>1. CASE k \in DOMAIN changes
        <5>1. committed'[k] = [row |-> changes[k], version |-> version + 1]
          BY <1>2, <4>1
        <5> QED BY <4>0, <4>1, <5>1
      <4>2. CASE k \notin DOMAIN changes
        BY <1>2, <4>0, <4>2
      <4> QED BY <4>1, <4>2
    <3> QED BY <3>1 DEF After
  <2> QED BY <2>1 DEF CommittedIsValid
<1>6. Kept
  BY <1>2, ParentKeys DEF Kept
<1> QED BY <1>4, <1>5, <1>6 DEF RowsInv, PrivateWrites

LEMMA ReadRows ==
    ASSUME RowsInv, NEW c \in Conns, Read(c)
    PROVE  RowsInv' /\ Kept
<1>1. Forth
  BY Numbers DEF Read, RowsInv, Types, Forth
<1>2. /\ Started(c) \in Session /\ Gives(c, Started(c)) /\ PrivateWrites(Started(c))
  BY StartedSession, NewSession DEF Read, RowsInv, PrivateWrites
<1> QED BY <1>1, <1>2, SessionStep DEF Read

LEMMA BeginRows ==
    ASSUME RowsInv, NEW c \in Conns, Begin(c)
    PROVE  RowsInv' /\ Kept
<1> DEFINE s == [Conn(c) EXCEPT !.active = TRUE]
<1>1. Forth
  BY Numbers DEF Begin, RowsInv, Types, Forth
<1>2. s \in Session /\ s.writes = Conn(c).writes /\ s.active = TRUE
  BY Sessions, ActiveSession DEF RowsInv
<1>3. Gives(c, s) /\ PrivateWrites(s)
  BY <1>2, NewSession DEF Begin, RowsInv, PrivateWrites
<1> HIDE DEF s
<1> QED BY <1>1, <1>2, <1>3, SessionStep DEF Begin

LEMMA FreshSession == Fresh \in Session /\ PrivateWrites(Fresh)
<1>1. NoWrites \in [Keys -> Rows \cup {NoRow, Unwritten}]
  BY DEF NoWrites
<1>2. NoBase \in [Keys -> 0..MaxVersion]
  BY Numbers DEF NoBase
<1> QED BY <1>1, <1>2, ParentKeys DEF Fresh, Session, PrivateWrites, NoWrites

LEMMA CloseRows ==
    ASSUME RowsInv, NEW c \in Conns, Close(c)
    PROVE  RowsInv' /\ Kept
<1>1. Forth
  BY Numbers DEF Close, RowsInv, Types, Forth
<1>2. Gives(c, Fresh)
  BY DEF Close, RowsInv, Types, Gives, Conn
<1> QED BY <1>1, <1>2, FreshSession, SessionStep DEF Close

LEMMA ClearPrivate ==
    ASSUME NEW s, s.writes = NoWrites
    PROVE  PrivateWrites(s)
BY ParentKeys DEF PrivateWrites, NoWrites

LEMMA CommitRowsOf ==
    ASSUME RowsInv, NEW c \in Conns, NEW autocommit \in BOOLEAN, Commit(c, autocommit)
    PROVE  RowsInv' /\ Kept
<1> DEFINE s == Conn(c)
           new == [Cleared(s) EXCEPT !.autocommit = autocommit]
           changes == [k \in Written(s) |-> s.writes[k]]
<1>1. Forth /\ Types
  BY Numbers DEF Commit, RowsInv, Types, Forth
<1>2. /\ s \in Session /\ s.writes \in [Keys -> Rows \cup {NoRow, Unwritten}]
      /\ Cleared(s) \in Session /\ Cleared(s).writes = NoWrites
  BY <1>1, Sessions, ClearedSession
<1>3. CASE sessions' = [sessions EXCEPT ![c] = Cleared(s)] /\ UNCHANGED <<committed, version, births>>
  BY <1>1, <1>2, <1>3, NewSession, ClearPrivate, SessionStep
<1>4. CASE /\ Committable(s) /\ version < MaxVersion /\ Install(changes)
           /\ sessions' = [sessions EXCEPT ![c] = new]
  <2>1. new \in Session /\ new.writes = NoWrites
    BY <1>2, AutocommitSession
  <2> HIDE DEF new
  <2>2. Gives(c, new) /\ PrivateWrites(new)
    BY <1>1, <1>4, <2>1, NewSession, ClearPrivate
  <2>3. /\ sessions' \in [Conns -> Session \cup {NoSession}]
        /\ \A d \in Conns : PrivateWrites(Conn(d)')
    BY <2>2 DEF Gives, RowsInv
  <2>4. \A k \in Written(s) : s.writes[k] \in Rows \cup {NoRow}
    BY <1>2 DEF Written
  <2>5. \A p \in Parents : p \notin Written(s)
    BY DEF Written, RowsInv, PrivateWrites
  <2>6. After(CommittedNow, changes) = View(s)
    BY DEF After, CommittedNow, View, Written
  <2> QED BY <1>1, <1>4, <2>3, <2>4, <2>5, <2>6, CommitRows DEF Committable
<1> QED BY <1>3, <1>4 DEF Commit

\* One item under a key that is no parent's.
LEMMA ApplyRows ==
    ASSUME RowsInv, Forth, NEW c \in Conns, NEW id \in Ids, NEW row \in ItemRow,
           Apply(c, [k \in {id} |-> row])
    PROVE  RowsInv' /\ Kept
<1> DEFINE s == Started(c)
           changes == [k \in {id} |-> row]
           w == After(s.writes, changes)
           b == [k \in Keys |-> IF k \in DOMAIN changes /\ s.writes[k] = Unwritten
                                THEN committed[k].version ELSE s.base[k]]
           new == [s EXCEPT !.writes = w, !.base = b]
<1>1. /\ Types /\ s \in Session /\ s.writes = Conn(c).writes
      /\ s.writes \in [Keys -> Rows \cup {NoRow, Unwritten}] /\ s.base \in [Keys -> 0..MaxVersion]
      /\ s.active \in BOOLEAN /\ ~s.active => ~Conn(c).active
      /\ PrivateWrites(Conn(c)) /\ PrivateWrites(s)
  BY StartedSession DEF RowsInv, Session, PrivateWrites
<1>2. /\ id \in Keys /\ row \in Rows /\ \A p \in Parents : p # id
      /\ DOMAIN changes = {id} /\ changes[id] = row
  BY Numbers, ParentKeys DEF Rows
<1>3. CASE ~s.active
  <2>1. /\ sessions' = [sessions EXCEPT ![c] = s] /\ version < MaxVersion /\ Install(changes)
        /\ Valid(After(View(s), changes))
    BY <1>3 DEF Apply
  <2>2. View(s) = CommittedNow
    BY <1>1, <1>3 DEF PrivateWrites, View, CommittedNow, NoWrites
  <2>3. Gives(c, s)
    BY <1>1, <2>1, NewSession
  <2>4. /\ sessions' \in [Conns -> Session \cup {NoSession}]
        /\ \A d \in Conns : PrivateWrites(Conn(d)')
    BY <1>1, <2>3 DEF Gives, RowsInv
  <2>5. /\ \A k \in DOMAIN changes : changes[k] \in Rows \cup {NoRow}
        /\ \A p \in Parents : p \in DOMAIN changes => committed[p].row = NoRow
    BY <1>2
  <2> HIDE DEF changes, s
  <2> QED BY <2>1, <2>2, <2>4, <2>5, CommitRows
<1>4. CASE s.active
  <2>1. /\ sessions' = [sessions EXCEPT ![c] = new] /\ UNCHANGED <<committed, version>>
    BY <1>4 DEF Apply
  <2>2. w \in [Keys -> Rows \cup {NoRow, Unwritten}] /\ \A p \in Parents : w[p] = Unwritten
    BY <1>1, <1>2, ParentKeys DEF After, PrivateWrites
  <2>3. b \in [Keys -> 0..MaxVersion]
    <3>1. \A k \in Keys : committed[k].version \in 0..MaxVersion
      BY <1>1 DEF Types, Record
    <3> QED BY <1>1, <3>1
  <2>4. new \in Session /\ new.writes = w /\ new.active = s.active
    <3> HIDE DEF w, b, s
    <3> QED BY <1>1, <2>2, <2>3 DEF Session
  <2> HIDE DEF w, b, new
  <2>5. PrivateWrites(new) /\ Gives(c, new)
    BY <1>1, <1>4, <2>1, <2>2, <2>4, NewSession DEF PrivateWrites
  <2> QED BY <2>1, <2>4, <2>5, SessionStep
<1> QED BY <1>3, <1>4

LEMMA InsertRows ==
    ASSUME RowsInv, NEW c \in Conns, NEW p \in Parents, NEW u \in UniqueVals, NEW op \in Ops,
           InsertAuto(c, p, u, op)
    PROVE  RowsInv' /\ Kept
<1>1. /\ nextID \in Ids /\ nextID' \in 1..MaxInt /\ nextID' >= nextID
  BY Numbers DEF InsertAuto, RowsInv, Types, Ids
<1>2. used' \in {used, used \cup {op}}
  BY DEF InsertAuto
<1>3. Forth
  BY <1>1, <1>2 DEF RowsInv, Types, Forth
<1>4. CASE /\ sessions' = [sessions EXCEPT ![c] = Started(c)]
           /\ UNCHANGED <<committed, version, used, births>>
  <2>1. /\ Started(c) \in Session /\ Gives(c, Started(c)) /\ PrivateWrites(Started(c))
    BY <1>4, StartedSession, NewSession DEF RowsInv, PrivateWrites
  <2> QED BY <1>3, <1>4, <2>1, SessionStep
<1>5. CASE Apply(c, [k \in {nextID} |-> Item(op, p, u)])
  BY <1>1, <1>3, <1>5, ItemRows, ApplyRows
<1> QED BY <1>4, <1>5 DEF InsertAuto

\* Complete adds the rows of a fill under keys that have none.
LEMMA FillInstalls ==
    ASSUME RowsInv, NEW s \in Slots, NEW f \in Candidates, Install(FillRows(s, f)),
           version < MaxVersion, \A k \in SlotKeys[s] : committed[k].row = NoRow,
           UNCHANGED <<sessions, nextID, used>>
    PROVE  RowsInv' /\ Kept /\ Holds(s)'
<1> DEFINE changes == FillRows(s, f)
<1>1. SlotKeys[s] \subseteq Parents /\ f \in Ops
  BY MockAssumption DEF Slots
<1>2. DOMAIN changes = SlotKeys[s] /\ \A k \in SlotKeys[s] : changes[k] = [born |-> f]
  BY DEF FillRows
<1>3. [born |-> f] \in Rows /\ [born |-> f] # NoRow
  BY <1>1, MarkersAssumption DEF ParentRow, Rows
<1>4. Forth
  BY Numbers DEF RowsInv, Types, Forth
<1>5. /\ sessions' \in [Conns -> Session \cup {NoSession}]
      /\ \A d \in Conns : PrivateWrites(Conn(d)')
  BY DEF RowsInv, Types, Conn
\* Items are untouched and no parent is missed.
<1>6. Valid(After(CommittedNow, changes))
  <2> DEFINE rows == After(CommittedNow, changes)
  <2>1. \A k \in Keys : rows[k] = IF k \in SlotKeys[s] THEN [born |-> f] ELSE CommittedNow[k]
    BY <1>2 DEF After
  <2>2. \A i \in Ids : i \in Keys /\ rows[i] = CommittedNow[i]
    BY <1>1, <2>1, ParentKeys, Numbers
  <2> HIDE DEF rows
  <2>3. Present(CommittedNow) \subseteq Present(rows)
    BY <1>3, <2>1 DEF Present
  <2>4. Items(rows) = Items(CommittedNow)
    BY <2>2 DEF Items, Present
  <2>5. Valid(CommittedNow)
    BY DEF RowsInv, CommittedIsValid, CommittedNow
  <2>6. \A i \in Items(rows) : i \in Ids
    BY DEF Items
  <2>7. Valid(rows)
    BY <2>2, <2>3, <2>4, <2>5, <2>6 DEF Valid, ForeignKeys, UniqueKeys
  <2> QED BY <2>7 DEF rows
<1>7. Holds(s)'
  <2>1. \A k \in SlotKeys[s] : committed'[k] = [row |-> [born |-> f], version |-> version + 1]
    BY <1>1, <1>2, ParentKeys DEF Install
  <2>2. \A k \in SlotKeys[s] : committed'[k].row = [born |-> f]
    BY <2>1
  <2> QED BY <1>3, <2>2 DEF Holds
<1>8. /\ \A k \in DOMAIN changes : changes[k] \in Rows \cup {NoRow}
      /\ \A p \in Parents : p \in DOMAIN changes => committed[p].row = NoRow
  BY <1>2, <1>3
<1> HIDE DEF changes
<1>9. RowsInv' /\ Kept
  BY <1>4, <1>5, <1>6, <1>8, CommitRows DEF changes
<1> QED BY <1>7, <1>9

-------------------------------------------------------------------------------
(* A step of one handler.                                                    *)

Early == {"idle", "called", "admitted"}

LEMMA Sizes ==
    /\ IsFiniteSet(Requests) /\ NoRequest \notin Requests /\ MaxPending \in Nat
    /\ Len(SlotSeq) \in Nat /\ \A i \in 1..Len(SlotSeq) : SlotSeq[i] \in Slots
BY MockAssumption DEF Slots

LEMMA HandlerFields ==
    ASSUME NEW d \in Handler
    PROVE  /\ d.pc \in Pcs /\ d.op \in Operations \cup {"none"} /\ d.tx \in BOOLEAN
           /\ d.at \in 1..(Len(SlotSeq) + 1) /\ d.at \in Nat
           /\ d.on \in Requests \cup {NoRequest} /\ d.err \in Errors /\ d.saw \subseteq Parents
BY Sizes DEF Handler

LEMMA NeedFields ==
    ASSUME NEW n \in Need
    PROVE  /\ n.state \in {"none", "open", "filled", "failed"}
           /\ n.slot \in Slots \cup {"none"} /\ n.err \in Errors
           /\ n.fill \in Candidates \cup {"none"}
BY DEF Need

\* The request goes on with its operation, or fails.
SameRequest(d, e) == d.op = e.op /\ d.tx = e.tx /\ d.at = e.at /\ d.on = e.on /\ d.saw = e.saw

LEMMA PcField ==
    ASSUME NEW d \in Handler, NEW pc \in Pcs, NEW e, e = [d EXCEPT !.pc = pc]
    PROVE  e \in Handler /\ e.pc = pc /\ SameRequest(e, d)
BY DEF Handler, SameRequest

LEMMA FailFields ==
    ASSUME NEW d \in Handler, NEW err \in Errors, NEW e, e = [d EXCEPT !.pc = "failed", !.err = err]
    PROVE  e \in Handler /\ e.pc = "failed" /\ SameRequest(e, d)
BY DEF Handler, SameRequest, Pcs

\* q becomes d.
Turns(q, d) == d \in Handler /\ req' = [req EXCEPT ![q] = d]

LEMMA Goes ==
    ASSUME HandlersTyped, NEW q \in Requests, NEW pc \in Pcs, Goto(q, pc)
    PROVE  \E d : Turns(q, d) /\ d.pc = pc /\ SameRequest(d, req[q])
<1>1. req[q] \in Handler
  BY DEF HandlersTyped
<1>2. PICK d : d = [req[q] EXCEPT !.pc = pc]
  OBVIOUS
<1>3. d \in Handler /\ d.pc = pc /\ SameRequest(d, req[q])
  BY <1>1, <1>2, PcField
<1>4. req' = [req EXCEPT ![q] = d]
  BY <1>2 DEF Goto, HandlersTyped
<1> QED BY <1>3, <1>4 DEF Turns

LEMMA Fails ==
    ASSUME HandlersTyped, NEW q \in Requests, NEW err \in Errors, Fail(q, err)
    PROVE  \E d : Turns(q, d) /\ d.pc = "failed" /\ SameRequest(d, req[q])
<1>1. req[q] \in Handler
  BY DEF HandlersTyped
<1>2. PICK d : d = [req[q] EXCEPT !.pc = "failed", !.err = err]
  OBVIOUS
<1>3. d \in Handler /\ d.pc = "failed" /\ SameRequest(d, req[q])
  BY <1>1, <1>2, FailFields
<1>4. req' = [req EXCEPT ![q] = d]
  BY <1>2 DEF Fail, HandlersTyped
<1> QED BY <1>3, <1>4 DEF Turns

LEMMA TurnsOnly ==
    ASSUME HandlersTyped, NEW q \in Requests, NEW d, Turns(q, d)
    PROVE  /\ d \in Handler /\ req'[q] = d /\ \A r \in Requests : r # q => req'[r] = req[r]
           /\ req' \in [Requests -> Handler]
BY DEF HandlersTyped, Turns

-------------------------------------------------------------------------------
(* Continuations.                                                           *)

\* The continuation of r, whose query is not being executed, ends without a fill.
Ended(r) ==
    /\ need[r].state = "open" /\ req[r].pc # "filling"
    /\ need'[r].state = "failed" /\ need'[r].slot = need[r].slot

\* No continuation is dropped, and none is asked for another slot.
NeedsStay ==
    \A r \in Requests : need[r].state # "none" =>
        need'[r].state # "none" /\ need'[r].slot = need[r].slot

\* What others do leaves the invariant of r alone.
LEMMA OthersKeep ==
    ASSUME MockInv, NEW r \in Requests, req'[r] = req[r], Kept, NeedsStay,
           need'[r] = need[r] \/ Ended(r),
           need'[r].state = "open" => slotOf'[need[r].slot] = r,
           req[r].pc = "filling" => holder' = holder
    PROVE  NeedInv(r)' /\ LoopInv(req[r])'
<1>1. NeedInv(r) /\ LoopInv(req[r]) /\ req[r] \in Handler /\ need[r] \in Need
  BY DEF MockInv, HandlersTyped
<1>2. NeedInv(r)'
  <2>1. CASE need'[r] = need[r]
    <3>1. need[r].state # "none" /\ Holds(need[r].slot) => Holds(need[r].slot)'
      <4> SUFFICES ASSUME need[r].state # "none", Holds(need[r].slot)
                   PROVE  Holds(need[r].slot)'
        OBVIOUS
      <4>1. PICK s \in Slots : s = need[r].slot
        BY <1>1 DEF NeedInv
      <4>2. Holds(s)'
        BY <4>1, HoldsStays
      <4> QED BY <2>1, <4>1, <4>2 DEF Holds
    <3> QED BY <1>1, <2>1, <3>1 DEF NeedInv
  <2>2. CASE Ended(r)
    BY <1>1, <2>2 DEF NeedInv, Ended
  <2> QED BY <2>1, <2>2
<1>3. LoopInv(req[r])'
  <2>1. \A i \in 1..(req[r].at - 1) : Holds(SlotSeq[i])'
    <3> TAKE i \in 1..(req[r].at - 1)
    <3>1. i \in 1..Len(SlotSeq)
      BY <1>1, HandlerFields, Sizes
    <3> QED BY <1>1, <3>1, HoldsStays, Sizes DEF LoopInv
  <2>2. /\ \A i \in 1..(req'[r].at - 1) : Holds(SlotSeq[i])'
        /\ req'[r].pc = "executing" /\ req'[r].op = "select" => req'[r].at > Len(SlotSeq)
    BY <1>1, <2>1 DEF LoopInv
  <2>3. req'[r].pc = "waiting" =>
          /\ req'[r].at <= Len(SlotSeq) /\ req'[r].on \in Requests
          /\ need'[req'[r].on].state # "none" /\ need'[req'[r].on].slot = SlotSeq[req'[r].at]
    BY <1>1 DEF LoopInv, NeedsStay
  <2> QED BY <2>2, <2>3 DEF LoopInv
<1> QED BY <1>2, <1>3

LEMMA SlotKeeps ==
    ASSUME MockInv, NEW s \in Slots, NeedsStay, slotOf'[s] = slotOf[s]
    PROVE  SlotInv(s)'
BY DEF MockInv, SlotInv, NeedsStay, HandlersTyped

LEMMA PendingStays ==
    ASSUME HandlersTyped, \A r \in Requests : need'[r].state # "none" <=> need[r].state # "none"
    PROVE  Pending' = Pending
BY DEF Pending

LEMMA CountedFinite ==
    \A st \in Statements : IsFiniteSet(Counted(st)) /\ IsFiniteSet(Counted(st)')
BY Sizes, FS_Subset DEF Counted

\* A request that was counted is not uncounted.
CountStays(q, d) == req[q].pc \in Early \/ (d.op = req[q].op /\ d.pc \notin Early)

LEMMA CountedGrows ==
    ASSUME HandlersTyped, NEW q \in Requests, NEW d, Turns(q, d),
           CountStays(q, d),
           NEW st \in Statements
    PROVE  Cardinality(Counted(st)) <= Cardinality(Counted(st)')
<1>1. Counted(st) \subseteq Counted(st)'
  BY TurnsOnly DEF Counted, Early, CountStays
<1> QED BY <1>1, CountedFinite, FS_Subset

LEMMA LimitKept ==
    ASSUME MockInv, calls' = calls, Pending' = Pending,
           \/ req' = req
           \/ \E q \in Requests : \E d : Turns(q, d) /\ CountStays(q, d)
    PROVE  LimitInv'
<1>1. HandlersTyped /\ LimitInv
  BY DEF MockInv
<1>2. ASSUME NEW st \in Statements
      PROVE  calls'[st] <= Cardinality(Counted(st)')
  <2>1. /\ calls[st] \in Nat /\ Cardinality(Counted(st)) \in Nat /\ Cardinality(Counted(st)') \in Nat
        /\ calls[st] <= Cardinality(Counted(st))
    BY <1>1, CountedFinite, FS_CardinalityType DEF HandlersTyped, LimitInv
  <2>2. CASE req' = req
    <3>1. Counted(st)' = Counted(st)
      BY <2>2 DEF Counted
    <3> QED BY <2>1, <3>1
  <2>3. CASE \E q \in Requests : \E d : Turns(q, d) /\ CountStays(q, d)
    <3>0. PICK q \in Requests : \E d : Turns(q, d) /\ CountStays(q, d)
      BY <2>3
    <3>1. Cardinality(Counted(st)) <= Cardinality(Counted(st)')
      BY <1>1, <3>0, CountedGrows
    <3> QED BY <2>1, <3>1
  <2> QED BY <2>2, <2>3
<1> QED BY <1>1, <1>2 DEF LimitInv

-------------------------------------------------------------------------------
(* What every step does.                                                     *)

EndsOnceStep ==
    \A q \in Requests : need[q].state \in {"filled", "failed"} =>
        /\ need'[q].state = need[q].state
        /\ need'[q].err = need[q].err

\* The slots that a query has passed, and the one that it asked for.
CoveredSlots(q) ==
    {SlotSeq[i] : i \in 1..(req[q].at - 1)}
        \cup {s \in Slots : need[q].state # "none" /\ need[q].slot = s}

Answers(q) == req[q].op = "select" /\ req[q].pc # "done" /\ req'[q].pc = "done"

AnswersStep ==
    /\ Kept
    /\ \A q \in Requests : Answers(q) =>
          /\ req[q].at > Len(SlotSeq) \/ need[q].state # "none"
          /\ \A s \in CoveredSlots(q) : SlotKeys[s] \subseteq req'[q].saw

StepOK == MockInv' /\ EndsOnceStep /\ AnswersStep

LEMMA LoopStays ==
    ASSUME NEW d \in Handler, LoopInv(d), Kept, NeedsStay
    PROVE  LoopInv(d)'
<1>1. \A i \in 1..(d.at - 1) : Holds(SlotSeq[i])'
  <2> TAKE i \in 1..(d.at - 1)
  <2>1. i \in 1..Len(SlotSeq)
    BY HandlerFields, Sizes
  <2> QED BY <2>1, HoldsStays, Sizes DEF LoopInv
<1>2. d.pc = "waiting" => need'[d.on].state # "none" /\ need'[d.on].slot = SlotSeq[d.at]
  BY DEF LoopInv, NeedsStay
<1> QED BY <1>1, <1>2 DEF LoopInv

\* The handler of q goes on, ends, or waits; continuations and slots stay.
LEMMA MoveStep ==
    ASSUME MockInv, NEW q \in Requests, NEW d, Turns(q, d), RowsInv', Kept,
           UNCHANGED <<ctx, late, need, slotOf, calls, closed, gone, holder, stopped>>,
           CountStays(q, d), d.pc \notin {"needs", "filling"},
           need[q].state # "none" => d.pc \in {"done", "failed"}, LoopInv(d),
           req[q].op = "select" /\ req[q].pc # "done" /\ d.pc = "done" =>
               req[q].pc = "executing" /\ \A s \in Slots : Holds(s) => SlotKeys[s] \subseteq d.saw
    PROVE  StepOK
<1>1. /\ HandlersTyped /\ \A r \in Requests : NeedInv(r) /\ LoopInv(req[r])
      /\ d \in Handler /\ req'[q] = d /\ \A r \in Requests : r # q => req'[r] = req[r]
      /\ req' \in [Requests -> Handler]
  BY TurnsOnly DEF MockInv
<1>2. HandlersTyped'
  BY <1>1 DEF HandlersTyped
<1>3. LimitInv'
  BY <1>1, PendingStays, LimitKept
<1>4. NeedsStay
  BY DEF NeedsStay
<1>5. ASSUME NEW r \in Requests
      PROVE  NeedInv(r)' /\ LoopInv(req[r])'
  <2>1. CASE r # q
    BY <1>1, <1>4, <2>1, OthersKeep DEF NeedInv
  <2>2. CASE r = q
    <3>1. LoopInv(d)'
      BY <1>1, <1>4, LoopStays
    <3>2. need[q].state = "filled" => Holds(need[q].slot)'
      <4> SUFFICES ASSUME need[q].state = "filled"
                   PROVE  Holds(need[q].slot)'
        OBVIOUS
      <4>1. PICK s \in Slots : s = need[q].slot
        BY <1>1 DEF NeedInv
      <4>2. Holds(s)'
        BY <1>1, <4>1, HoldsStays DEF NeedInv
      <4> QED BY <4>1, <4>2 DEF Holds
    <3>3. NeedInv(q)'
      BY <1>1, <3>2 DEF NeedInv
    <3> QED BY <1>1, <2>2, <3>1, <3>3 DEF LoopInv
  <2> QED BY <2>1, <2>2
<1>6. \A s \in Slots : SlotInv(s)'
  BY <1>4, SlotKeeps
<1>7. MockInv'
  BY <1>2, <1>3, <1>5, <1>6 DEF MockInv
<1>8. EndsOnceStep
  BY DEF EndsOnceStep
<1>9. AnswersStep
  <2> SUFFICES ASSUME NEW r \in Requests, Answers(r)
               PROVE  /\ req[r].at > Len(SlotSeq) \/ need[r].state # "none"
                      /\ \A s \in CoveredSlots(r) : SlotKeys[s] \subseteq req'[r].saw
    BY DEF AnswersStep
  <2>1. r = q /\ req[q].pc = "executing" /\ \A s \in Slots : Holds(s) => SlotKeys[s] \subseteq d.saw
    BY <1>1 DEF Answers
  <2>2. req[q].at > Len(SlotSeq) /\ need[q].state = "none" /\ req[q] \in Handler
    BY <1>1, <2>1 DEF Answers, LoopInv, NeedInv, HandlersTyped
  <2>3. \A i \in 1..(req[q].at - 1) : SlotSeq[i] \in Slots /\ Holds(SlotSeq[i])
    <3> TAKE i \in 1..(req[q].at - 1)
    <3>1. i \in 1..Len(SlotSeq)
      BY <2>2, HandlerFields, Sizes
    <3> QED BY <1>1, <3>1, Sizes DEF LoopInv
  <2>4. \A s \in CoveredSlots(q) : s \in Slots /\ Holds(s)
    BY <2>2, <2>3 DEF CoveredSlots
  <2> QED BY <1>1, <2>1, <2>2, <2>4
<1> QED BY <1>7, <1>8, <1>9 DEF StepOK

LEMMA RowsSame ==
    ASSUME RowsInv, UNCHANGED dbVars
    PROVE  RowsInv' /\ Kept
BY DEF dbVars, RowsInv, Types, PrivateWrites, Conn, CommittedIsValid, Kept

\* The loop of a request that stays where it is in it, or leaves it.
LEMMA LeavesLoop ==
    ASSUME MockInv, NEW q \in Requests, NEW d \in Handler, SameRequest(d, req[q]),
           d.pc # "waiting", d.pc # "executing" \/ d.op # "select" \/ d.at > Len(SlotSeq)
    PROVE  LoopInv(d)
BY DEF MockInv, LoopInv, SameRequest

\* A handler that fails changes nothing else.
LEMMA FailStep ==
    ASSUME MockInv, NEW q \in Requests, NEW err \in Errors, Fail(q, err),
           UNCHANGED <<dbVars, ctx, late, need, slotOf, calls, closed, gone, holder, stopped>>
    PROVE  StepOK
<1>1. HandlersTyped /\ RowsInv' /\ Kept
  BY RowsSame DEF MockInv
<1>2. PICK d : Turns(q, d) /\ d.pc = "failed" /\ SameRequest(d, req[q])
  BY <1>1, Fails
<1>3. d \in Handler
  BY <1>2 DEF Turns
<1>4. LoopInv(d) /\ CountStays(q, d)
  BY <1>2, <1>3, LeavesLoop DEF CountStays, Early, SameRequest
<1> QED BY <1>1, <1>2, <1>4, MoveStep

\* A handler goes on without looking at slots or rows.
LEMMA GoStep ==
    ASSUME MockInv, NEW q \in Requests, need[q].state = "none", NEW pc \in Pcs, Goto(q, pc),
           pc \notin {"waiting", "needs", "filling"}, req[q].pc \in Early \/ pc \notin Early,
           pc = "done" => req[q].op # "select",
           pc = "executing" /\ req[q].op = "select" => req[q].at > Len(SlotSeq),
           RowsInv', Kept,
           UNCHANGED <<ctx, late, need, slotOf, calls, closed, gone, holder, stopped>>
    PROVE  StepOK
<1>1. HandlersTyped
  BY DEF MockInv
<1>2. PICK d : Turns(q, d) /\ d.pc = pc /\ SameRequest(d, req[q])
  BY <1>1, Goes
<1>3. d \in Handler
  BY <1>2 DEF Turns
<1>4. LoopInv(d) /\ CountStays(q, d)
  BY <1>2, <1>3, LeavesLoop DEF CountStays, SameRequest
<1> QED BY <1>2, <1>4, MoveStep

\* A handler that is not at its end and has not asked has no continuation.
LEMMA NoContinuation ==
    ASSUME MockInv, NEW q \in Requests, req[q].pc \notin {"needs", "filling", "done", "failed"}
    PROVE  need[q].state = "none"
BY NeedFields DEF MockInv, NeedInv

LEMMA SendStep ==
    ASSUME MockInv, NEW q \in Requests, Send(q)
    PROVE  StepOK
<1>1. PICK op \in Operations :
          req' = [req EXCEPT ![q].pc = "called", ![q].op = op, ![q].tx = Conn(ConnOf[q]).active]
  BY DEF Send
<1>2. /\ HandlersTyped /\ req[q] \in Handler /\ req[q].pc = "idle" /\ RowsInv' /\ Kept
      /\ ConnOf[q] \in Conns /\ Conn(ConnOf[q]).active \in BOOLEAN
  BY RowsSame, Sessions, MockAssumption DEF MockInv, HandlersTyped, Send, RowsInv
<1>3. PICK a \in BOOLEAN : a = Conn(ConnOf[q]).active
  BY <1>2
<1>4. PICK h \in Handler : h = req[q]
  BY <1>2
<1>5. PICK d : d = [h EXCEPT !.pc = "called", !.op = op, !.tx = a]
  OBVIOUS
<1>6. d \in Handler /\ d.pc = "called" /\ d.at = h.at
  BY <1>5 DEF Handler, Pcs
<1>7. req' = [req EXCEPT ![q] = d]
  BY <1>1, <1>3, <1>4, <1>5 DEF HandlersTyped
<1>8. Turns(q, d) /\ CountStays(q, d)
  BY <1>2, <1>6, <1>7 DEF Turns, CountStays, Early
<1>9. LoopInv(d)
  BY <1>4, <1>6 DEF MockInv, LoopInv
<1>10. need[q].state = "none"
  BY <1>2, NoContinuation
<1> QED BY <1>2, <1>6, <1>8, <1>9, <1>10, MoveStep DEF Send

LEMMA AdmitStep ==
    ASSUME MockInv, NEW q \in Requests, Admit(q)
    PROVE  StepOK
<1>1. need[q].state = "none" /\ RowsInv' /\ Kept
  BY NoContinuation, RowsSame DEF Admit, MockInv
<1>2. {"stopped", "context", "closed"} \subseteq Errors /\ "admitted" \in Pcs
  BY DEF Errors, Pcs
<1>3. CASE \E err \in {"stopped", "context", "closed"} : Fail(q, err)
  BY <1>2, <1>3, FailStep DEF Admit
<1>4. CASE Goto(q, "admitted")
  BY <1>1, <1>2, <1>4, GoStep DEF Admit, Early
<1> QED BY <1>3, <1>4 DEF Admit

LEMMA TransactionStep ==
    ASSUME MockInv, NEW q \in Requests, TransactionControl(q)
    PROVE  StepOK
<1>1. need[q].state = "none" /\ RowsInv /\ ConnOf[q] \in Conns
  BY NoContinuation, MockAssumption DEF TransactionControl, MockInv
<1>2. CASE q \in ctx
  BY <1>2, FailStep DEF TransactionControl, Errors
<1>3. CASE q \notin ctx
  <2>1. Goto(q, "done") /\ req[q].op # "select"
    BY <1>3 DEF TransactionControl
  <2>2. RowsInv' /\ Kept
    <3>1. CASE Begin(ConnOf[q])
      BY <1>1, <3>1, BeginRows
    <3>2. CASE UNCHANGED dbVars
      BY <1>1, <3>2, RowsSame
    <3>3. CASE Commit(ConnOf[q], Conn(ConnOf[q]).autocommit)
      <4>1. Conn(ConnOf[q]).autocommit \in BOOLEAN
        BY <1>1, Sessions DEF RowsInv
      <4> QED BY <1>1, <3>3, <4>1, CommitRowsOf
    <3> QED BY <1>3, <3>1, <3>2, <3>3 DEF TransactionControl
  <2> QED BY <1>1, <2>1, <2>2, GoStep DEF TransactionControl, Pcs, Early
<1> QED BY <1>2, <1>3

LEMMA GiveUpStep ==
    ASSUME MockInv, NEW q \in Requests, GiveUp(q)
    PROVE  StepOK
BY FailStep DEF GiveUp, Errors

LEMMA WaitCancelledStep ==
    ASSUME MockInv, NEW q \in Requests, WaitCancelled(q)
    PROVE  StepOK
BY FailStep DEF WaitCancelled, Errors

LEMMA LoopEndsStep ==
    ASSUME MockInv, NEW q \in Requests, LoopEnds(q)
    PROVE  StepOK
<1>1. need[q].state = "none" /\ RowsInv' /\ Kept
  BY NoContinuation, RowsSame DEF LoopEnds, MockInv
<1> QED BY <1>1, GoStep DEF LoopEnds, Pcs, Early

\* What is there is in the answer: nobody hides a parent from a connection.
LEMMA Sees ==
    ASSUME RowsInv, NEW c \in Conns, NEW s \in Slots, Holds(s)
    PROVE  SlotKeys[s] \subseteq Present(View(Started(c))) \cap Parents
<1> SUFFICES ASSUME NEW k \in SlotKeys[s]
             PROVE  k \in Parents /\ k \in Present(View(Started(c)))
  OBVIOUS
<1>1. k \in Parents /\ k \in Keys /\ committed[k].row # NoRow
  BY MockAssumption, ParentKeys DEF Slots, Holds
<1>2. Started(c).writes[k] = Unwritten
  BY <1>1, StartedSession DEF RowsInv, PrivateWrites
<1> QED BY <1>1, <1>2 DEF Present, View

LEMMA AnswerTurns ==
    ASSUME MockInv, NEW q \in Requests, Answer(q)
    PROVE  \E d : /\ Turns(q, d) /\ d.pc = "done" /\ d.op = req[q].op /\ d.at = req[q].at
                  /\ \A s \in Slots : Holds(s) => SlotKeys[s] \subseteq d.saw
<1>1. HandlersTyped /\ RowsInv /\ req[q] \in Handler /\ ConnOf[q] \in Conns
  BY MockAssumption DEF MockInv, HandlersTyped
<1>2. PICK saw : saw = Present(View(Started(ConnOf[q]))) \cap Parents
  OBVIOUS
<1>3. PICK h \in Handler : h = req[q]
  BY <1>1
<1>4. PICK d : d = [h EXCEPT !.pc = "done", !.saw = saw]
  OBVIOUS
<1>5. d \in Handler /\ d.pc = "done" /\ d.op = h.op /\ d.at = h.at /\ d.saw = saw
  BY <1>2, <1>4 DEF Handler, Pcs
<1>6. req' = [req EXCEPT ![q] = d]
  BY <1>1, <1>2, <1>3, <1>4 DEF Answer, HandlersTyped
<1> QED BY <1>1, <1>2, <1>3, <1>5, <1>6, Sees DEF Turns

LEMMA ExecuteStep ==
    ASSUME MockInv, NEW q \in Requests, ExecuteStatement(q)
    PROVE  StepOK
<1>1. need[q].state = "none" /\ RowsInv /\ ConnOf[q] \in Conns /\ q \in Ops
  BY NoContinuation, MockAssumption DEF ExecuteStatement, MockInv
<1>2. CASE q \in ctx
  BY <1>2, FailStep DEF ExecuteStatement, Errors
<1>3. CASE q \notin ctx /\ Answer(q) /\ Read(ConnOf[q])
  <2>1. RowsInv' /\ Kept
    BY <1>1, <1>3, ReadRows
  <2>2. PICK d : /\ Turns(q, d) /\ d.pc = "done" /\ d.op = req[q].op /\ d.at = req[q].at
                 /\ \A s \in Slots : Holds(s) => SlotKeys[s] \subseteq d.saw
    BY <1>3, AnswerTurns
  <2>3. LoopInv(d) /\ CountStays(q, d)
    BY <2>2 DEF MockInv, LoopInv, CountStays, Early
  <2> QED BY <1>1, <2>1, <2>2, <2>3, MoveStep DEF ExecuteStatement
<1>4. CASE /\ q \notin ctx /\ req[q].op = "insert" /\ Goto(q, "done")
           /\ \E p \in Parents, u \in UniqueVals : InsertAuto(ConnOf[q], p, u, q)
  <2>1. RowsInv' /\ Kept
    BY <1>1, <1>4, InsertRows
  <2> QED BY <1>1, <1>4, <2>1, GoStep DEF ExecuteStatement, Pcs, Early
<1> QED BY <1>2, <1>3, <1>4 DEF ExecuteStatement

\* Count: the request is now one of those that were counted.
LEMMA CountStep ==
    ASSUME MockInv, NEW q \in Requests, Count(q)
    PROVE  StepOK
<1>1. /\ HandlersTyped /\ RowsInv' /\ Kept /\ need[q].state = "none" /\ LimitInv
      /\ req[q].pc = "admitted" /\ req[q].op \in Statements
      /\ calls' = [calls EXCEPT ![req[q].op] = @ + 1]
      /\ UNCHANGED <<ctx, late, need, slotOf, closed, gone, holder, stopped>>
  BY NoContinuation, RowsSame DEF Count, MockInv
<1>2. \E d : Turns(q, d) /\ d.pc \in {"failed", "looping", "executing"} /\ SameRequest(d, req[q])
             /\ (d.pc = "executing" => req[q].op # "select")
  <2>1. CASE Fail(q, "count")
    BY <1>1, <2>1, Fails DEF Errors
  <2>2. CASE Goto(q, "looping")
    BY <1>1, <2>2, Goes DEF Pcs
  <2>3. CASE Goto(q, "executing") /\ req[q].op # "select"
    BY <1>1, <2>3, Goes DEF Pcs
  <2> QED BY <2>1, <2>2, <2>3 DEF Count
<1>3. PICK d : Turns(q, d) /\ d.pc \in {"failed", "looping", "executing"} /\ SameRequest(d, req[q])
             /\ (d.pc = "executing" => req[q].op # "select")
  BY <1>2
<1>4. /\ d \in Handler /\ req'[q] = d /\ \A r \in Requests : r # q => req'[r] = req[r]
      /\ req' \in [Requests -> Handler]
  BY <1>1, <1>3, TurnsOnly
<1>5. LoopInv(d)
  BY <1>3, <1>4, LeavesLoop DEF SameRequest
<1>6. HandlersTyped'
  <2>1. calls[req[q].op] + 1 \in Nat
    BY <1>1 DEF HandlersTyped
  <2> QED BY <1>1, <1>4, <2>1 DEF HandlersTyped
<1>7. LimitInv'
  <2>1. Pending' = Pending
    BY <1>1, PendingStays
  <2>2. ASSUME NEW st \in Statements
        PROVE  calls'[st] <= Cardinality(Counted(st)')
    <3>1. /\ calls[st] \in Nat /\ Cardinality(Counted(st)) \in Nat /\ Cardinality(Counted(st)') \in Nat
          /\ calls[st] <= Cardinality(Counted(st)) /\ IsFiniteSet(Counted(st))
      BY <1>1, CountedFinite, FS_CardinalityType DEF HandlersTyped, LimitInv
    <3>2. CASE st # req[q].op
      <4>1. Cardinality(Counted(st)) <= Cardinality(Counted(st)')
        BY <1>1, <1>3, CountedGrows DEF CountStays, Early
      <4>2. calls'[st] = calls[st]
        BY <1>1, <3>2 DEF HandlersTyped
      <4> QED BY <3>1, <4>1, <4>2
    <3>3. CASE st = req[q].op
      <4>1. calls'[st] = calls[st] + 1
        BY <1>1, <3>3 DEF HandlersTyped
      <4>2. q \notin Counted(st)
        BY <1>1 DEF Counted
      <4>3. Counted(st)' = Counted(st) \cup {q}
        BY <1>3, <1>4, <3>3 DEF Counted, SameRequest
      <4>4. Cardinality(Counted(st)') = Cardinality(Counted(st)) + 1
        BY <3>1, <4>2, <4>3, FS_AddElement
      <4> QED BY <3>1, <4>1, <4>4
    <3> QED BY <3>2, <3>3
  <2> QED BY <1>1, <2>1, <2>2 DEF LimitInv
<1>8. NeedsStay
  BY <1>1 DEF NeedsStay
<1>9. ASSUME NEW r \in Requests
      PROVE  NeedInv(r)' /\ LoopInv(req[r])'
  <2>1. CASE r # q
    BY <1>1, <1>4, <1>8, <2>1, OthersKeep DEF MockInv, NeedInv
  <2>2. CASE r = q
    <3>1. LoopInv(d)'
      BY <1>1, <1>4, <1>5, <1>8, LoopStays
    <3> QED BY <1>1, <1>3, <1>4, <2>2, <3>1 DEF NeedInv, LoopInv
  <2> QED BY <2>1, <2>2
<1>10. MockInv'
  BY <1>1, <1>6, <1>7, <1>8, <1>9, SlotKeeps DEF MockInv
<1>11. EndsOnceStep /\ AnswersStep
  BY <1>1, <1>3, <1>4 DEF EndsOnceStep, AnswersStep, Answers
<1> QED BY <1>10, <1>11 DEF StepOK

\* A query passes a slot that is filled.
LEMMA PassStep ==
    ASSUME MockInv, NEW q \in Requests, req[q].pc \in {"looping", "waiting"},
           req[q].at <= Len(SlotSeq), Holds(SlotSeq[req[q].at]),
           req' = [req EXCEPT ![q].pc = "looping", ![q].at = @ + 1],
           UNCHANGED <<dbVars, ctx, late, need, slotOf, calls, closed, gone, holder, stopped>>
    PROVE  StepOK
<1>1. /\ HandlersTyped /\ req[q] \in Handler /\ RowsInv' /\ Kept /\ need[q].state = "none"
      /\ LoopInv(req[q])
  BY NoContinuation, RowsSame DEF MockInv, HandlersTyped
<1>2. PICK h \in Handler : h = req[q]
  BY <1>1
<1>3. PICK n \in Nat : n = h.at
  BY HandlerFields
<1>4. PICK d : d = [h EXCEPT !.pc = "looping", !.at = n + 1]
  OBVIOUS
<1>5. d \in Handler /\ d.pc = "looping" /\ d.at = n + 1 /\ d.op = h.op
  <2>1. n + 1 \in 1..(Len(SlotSeq) + 1)
    BY <1>2, <1>3, Sizes
  <2> QED BY <1>4, <2>1 DEF Handler, Pcs
<1>6. req' = [req EXCEPT ![q] = d]
  BY <1>1, <1>2, <1>3, <1>4 DEF HandlersTyped
<1>7. \A i \in 1..n : Holds(SlotSeq[i])
  <2> TAKE i \in 1..n
  <2>1. i = n \/ i \in 1..(n - 1)
    OBVIOUS
  <2> QED BY <1>1, <1>2, <1>3, <2>1 DEF LoopInv
<1>8. LoopInv(d)
  <2>1. d.at - 1 = n
    BY <1>5
  <2> QED BY <1>5, <1>7, <2>1 DEF LoopInv
<1>9. Turns(q, d) /\ CountStays(q, d)
  BY <1>2, <1>5, <1>6 DEF Turns, CountStays, Early
<1> QED BY <1>1, <1>5, <1>8, <1>9, MoveStep

LEMMA WakeStep ==
    ASSUME MockInv, NEW q \in Requests, Wake(q)
    PROVE  StepOK
<1>1. /\ req[q].pc = "waiting" /\ req[q].at <= Len(SlotSeq) /\ req[q].on \in Requests
      /\ need[req[q].on].slot = SlotSeq[req[q].at] /\ need[req[q].on] \in Need
  BY DEF Wake, MockInv, LoopInv, HandlersTyped
<1>2. CASE need[req[q].on].state = "filled"
  <2>1. Holds(SlotSeq[req[q].at])
    BY <1>1, <1>2 DEF MockInv, NeedInv
  <2>2. req' = [req EXCEPT ![q].pc = "looping", ![q].at = @ + 1]
    BY <1>2 DEF Wake
  <2> QED BY <1>1, <2>1, <2>2, PassStep DEF Wake
<1>3. CASE need[req[q].on].state = "failed"
  <2>1. need[req[q].on].err \in Errors /\ Fail(q, need[req[q].on].err)
    BY <1>1, <1>3, NeedFields DEF Wake
  <2> QED BY <2>1, FailStep DEF Wake
<1> QED BY <1>2, <1>3 DEF Wake

-------------------------------------------------------------------------------
(* Steps that end or open continuations.                                     *)

LEMMA EndFields ==
    ASSUME NEW n \in Need, NEW err \in Errors
    PROVE  /\ EndNeed(n, err) \in Need /\ EndNeed(n, err).state = "failed"
           /\ EndNeed(n, err).slot = n.slot /\ EndNeed(n, err).err = err
BY DEF EndNeed, Need

\* The turn of the loop in which q asks, or finds that there are too many already.
LEMMA OpenStep ==
    ASSUME MockInv, NEW q \in Requests, LoopSlot(q), OpenSlot(q, SlotSeq[req[q].at])
    PROVE  StepOK
<1>1. /\ req[q].pc = "looping" /\ req[q].at <= Len(SlotSeq) /\ holder = NoRequest
      /\ UNCHANGED <<dbVars, ctx, late, calls, closed, gone, holder, stopped>>
  BY DEF LoopSlot, Free
<1>2. /\ HandlersTyped /\ LimitInv /\ RowsInv' /\ Kept /\ need[q].state = "none"
      /\ req[q] \in Handler /\ \A r \in Requests : need[r] \in Need /\ NeedInv(r)
      /\ \A x \in Slots : SlotInv(x)
  BY <1>1, NoContinuation, RowsSame DEF MockInv, HandlersTyped
<1>3. PICK s \in Slots : s = SlotSeq[req[q].at]
  BY <1>1, <1>2, HandlerFields, Sizes
<1>4. slotOf[s] # q /\ \A r \in Requests : req[r].pc # "filling"
  BY <1>1, <1>2, Sizes DEF SlotInv, NeedInv
<1>5. "none" \in Errors /\ "expired" \in Errors /\ "full" \in Errors /\ "needs" \in Pcs
  BY DEF Errors, Pcs
\* The present fill of the slot, if it is open, ends.
<1>6. PICK e : e = Expire(s)
  OBVIOUS
<1>7. ASSUME NEW r \in Requests
      PROVE  /\ e[r] \in Need
             /\ \/ e[r] = need[r] /\ (need[r].state = "open" => need[r].slot # s)
                \/ /\ need[r].state = "open" /\ e[r].state = "failed" /\ e[r].slot = need[r].slot
                   /\ r # q
  <2>1. CASE r = slotOf[s] /\ need[r].state = "open"
    <3>1. e[r] = EndNeed(need[r], "expired")
      BY <1>6, <2>1 DEF Expire
    <3>2. PICK m \in Need : m = need[r]
      BY <1>2
    <3>3. e[r] \in Need /\ e[r].state = "failed" /\ e[r].slot = need[r].slot
      BY <1>5, <3>1, <3>2, EndFields
    <3> QED BY <1>4, <2>1, <3>3
  <2>2. CASE ~(r = slotOf[s] /\ need[r].state = "open")
    <3>1. e[r] = need[r]
      BY <1>6, <2>2 DEF Expire
    <3> QED BY <1>2, <2>2, <3>1 DEF NeedInv
  <2> QED BY <2>1, <2>2
<1>8. e \in [Requests -> Need]
  <2>1. e = [r \in Requests |-> e[r]]
    BY <1>6 DEF Expire
  <2> QED BY <1>7, <2>1
\* What the two outcomes have in common.
<1>9. ASSUME NEW d, Turns(q, d), d.pc \in {"failed", "needs"}, SameRequest(d, req[q]),
             need' \in [Requests -> Need], NEW x \in Requests \cup {NoRequest},
             slotOf' = [slotOf EXCEPT ![s] = x], \A r \in Requests : r # q => need'[r] = e[r],
             NeedInv(q)', SlotInv(s)', LimitInv'
      PROVE  StepOK
  <2>1. /\ d \in Handler /\ req'[q] = d /\ \A r \in Requests : r # q => req'[r] = req[r]
        /\ req' \in [Requests -> Handler]
    BY <1>2, <1>9, TurnsOnly
  <2>2. slotOf'[s] = x /\ \A y \in Slots : y # s => slotOf'[y] = slotOf[y]
    BY <1>2, <1>9 DEF HandlersTyped
  <2>3. NeedsStay
    BY <1>2, <1>7, <1>9 DEF NeedsStay
  <2>4. HandlersTyped'
    BY <1>1, <1>2, <1>9, <2>1 DEF HandlersTyped
  <2>5. ASSUME NEW r \in Requests, r # q
        PROVE  NeedInv(r)' /\ LoopInv(req[r])'
    <3>1. need'[r] = need[r] \/ Ended(r)
      BY <1>4, <1>7, <1>9, <2>5 DEF Ended
    <3>2. need'[r].state = "open" => slotOf'[need[r].slot] = r
      <4> SUFFICES ASSUME need'[r].state = "open"
                   PROVE  slotOf'[need[r].slot] = r
        OBVIOUS
      <4>1. need[r].state = "open" /\ need[r].slot # s
        BY <1>7, <1>9, <2>5
      <4>2. need[r].slot \in Slots /\ slotOf[need[r].slot] = r
        BY <1>2, <4>1 DEF NeedInv
      <4> QED BY <2>2, <4>1, <4>2
    <3> QED BY <1>1, <1>2, <2>1, <2>3, <2>5, <3>1, <3>2, OthersKeep
  <2>6. LoopInv(req[q])'
    <3>1. LoopInv(d)
      BY <1>9, <2>1, LeavesLoop
    <3>2. LoopInv(d)'
      BY <1>2, <2>1, <2>3, <3>1, LoopStays
    <3> QED BY <2>1, <3>2 DEF LoopInv
  <2>7. \A y \in Slots : SlotInv(y)'
    <3> TAKE y \in Slots
    <3>1. CASE y = s
      BY <1>9, <3>1
    <3>2. CASE y # s
      BY <2>2, <2>3, <3>2, SlotKeeps
    <3> QED BY <3>1, <3>2
  <2>8. MockInv'
    BY <1>2, <1>9, <2>4, <2>5, <2>6, <2>7 DEF MockInv
  <2>9. EndsOnceStep
    <3> SUFFICES ASSUME NEW r \in Requests, need[r].state \in {"filled", "failed"}
                 PROVE  need'[r].state = need[r].state /\ need'[r].err = need[r].err
      BY DEF EndsOnceStep
    <3>1. r # q /\ need'[r] = need[r]
      BY <1>2, <1>7, <1>9
    <3> QED BY <3>1
  <2>10. AnswersStep
    BY <1>2, <1>9, <2>1 DEF AnswersStep, Answers
  <2> QED BY <2>8, <2>9, <2>10 DEF StepOK
<1>10. CASE Cardinality(Pending) >= MaxPending
  <2>1. /\ need' = e /\ slotOf' = [slotOf EXCEPT ![s] = NoRequest] /\ Fail(q, "full")
    BY <1>3, <1>6, <1>10 DEF OpenSlot
  <2>2. PICK d : Turns(q, d) /\ d.pc = "failed" /\ SameRequest(d, req[q])
    BY <1>2, <1>5, <2>1, Fails
  <2>3. d \in Handler /\ req'[q] = d
    BY <1>2, <2>2, TurnsOnly
  <2>4. need'[q] = need[q]
    BY <1>2, <1>7, <2>1
  <2>5. NeedInv(q)'
    BY <1>2, <2>2, <2>3, <2>4 DEF NeedInv
  <2>6. SlotInv(s)'
    BY <1>2, <2>1 DEF SlotInv, HandlersTyped
  <2>7. LimitInv'
    <3>1. \A r \in Requests : need'[r].state # "none" <=> need[r].state # "none"
      BY <1>7, <2>1
    <3>2. Pending' = Pending
      BY <1>2, <3>1, PendingStays
    <3>3. CountStays(q, d)
      BY <2>2 DEF CountStays, SameRequest, Early
    <3> QED BY <1>1, <2>2, <3>2, <3>3, LimitKept
  <2> QED BY <1>8, <1>9, <2>1, <2>2, <2>5, <2>6, <2>7
<1>11. CASE ~(Cardinality(Pending) >= MaxPending)
  <2>1. /\ need' = [e EXCEPT ![q] = Asked(s)] /\ slotOf' = [slotOf EXCEPT ![s] = q]
        /\ Goto(q, "needs")
    BY <1>3, <1>6, <1>11 DEF OpenSlot
  <2>2. PICK d : Turns(q, d) /\ d.pc = "needs" /\ SameRequest(d, req[q])
    BY <1>2, <1>5, <2>1, Goes
  <2>3. d \in Handler /\ req'[q] = d
    BY <1>2, <2>2, TurnsOnly
  <2>4. PICK n : n = Asked(s)
    OBVIOUS
  <2>5. n \in Need /\ n.state = "open" /\ n.slot = s
    BY <1>5, <2>4 DEF Asked, NoNeed, Need
  <2>6. /\ need'[q] = n /\ \A r \in Requests : r # q => need'[r] = e[r]
        /\ need' \in [Requests -> Need] /\ slotOf'[s] = q
    BY <1>2, <1>8, <2>1, <2>4, <2>5 DEF HandlersTyped
  <2>7. NeedInv(q)'
    BY <2>2, <2>3, <2>5, <2>6 DEF NeedInv
  <2>8. SlotInv(s)'
    BY <2>5, <2>6 DEF SlotInv
  <2>9. LimitInv'
    <3>1. Pending' = Pending \cup {q} /\ q \notin Pending
      BY <1>2, <1>7, <2>5, <2>6 DEF Pending
    <3>2. IsFiniteSet(Pending) /\ Cardinality(Pending) \in Nat /\ Cardinality(Pending) < MaxPending
      BY <1>2, <1>11, Sizes, FS_CardinalityType DEF LimitInv
    <3>3. IsFiniteSet(Pending') /\ Cardinality(Pending') <= MaxPending
      <4>1. /\ IsFiniteSet(Pending \cup {q})
            /\ Cardinality(Pending \cup {q}) = Cardinality(Pending) + 1
        BY <3>1, <3>2, FS_AddElement
      <4>2. Cardinality(Pending) + 1 <= MaxPending
        BY <3>2, Sizes
      <4> QED BY <3>1, <4>1, <4>2
    <3>4. \A st \in Statements : calls'[st] <= Cardinality(Counted(st)')
      <4> TAKE st \in Statements
      <4>1. CountStays(q, d)
        BY <2>2 DEF CountStays, SameRequest, Early
      <4>2. Cardinality(Counted(st)) <= Cardinality(Counted(st)')
        BY <1>2, <2>2, <4>1, CountedGrows
      <4>3. /\ calls[st] \in Nat /\ Cardinality(Counted(st)) \in Nat
            /\ Cardinality(Counted(st)') \in Nat /\ calls[st] <= Cardinality(Counted(st))
        BY <1>2, CountedFinite, FS_CardinalityType DEF HandlersTyped, LimitInv
      <4> QED BY <1>1, <4>2, <4>3
    <3> QED BY <3>3, <3>4 DEF LimitInv
  <2> QED BY <1>9, <2>1, <2>2, <2>6, <2>7, <2>8, <2>9
<1> QED BY <1>10, <1>11

LEMMA LoopSlotStep ==
    ASSUME MockInv, NEW q \in Requests, LoopSlot(q)
    PROVE  StepOK
<1>1. /\ HandlersTyped /\ req[q] \in Handler /\ LoopInv(req[q]) /\ req[q].pc = "looping"
      /\ need[q].state = "none" /\ RowsInv' /\ Kept /\ \A x \in Slots : SlotInv(x)
      /\ UNCHANGED <<dbVars, ctx, late, calls, closed, gone, holder, stopped>>
  BY NoContinuation, RowsSame DEF MockInv, HandlersTyped, LoopSlot
<1>2. PICK s \in Slots : s = SlotSeq[req[q].at]
  BY <1>1, HandlerFields, Sizes DEF LoopSlot
<1>3. slotOf[s] \in Requests \cup {NoRequest} /\ req[q].at <= Len(SlotSeq)
  BY <1>1 DEF HandlersTyped, LoopSlot
<1>4. CASE /\ Filled(s) /\ req' = [req EXCEPT ![q].at = @ + 1] /\ UNCHANGED <<need, slotOf>>
  <2>1. Holds(s)
    BY <1>1, <1>3, <1>4 DEF Filled, SlotInv, MockInv, NeedInv
  <2>2. req' = [req EXCEPT ![q].pc = "looping", ![q].at = @ + 1]
    <3>1. [req[q] EXCEPT !.pc = "looping", !.at = @ + 1] = [req[q] EXCEPT !.at = @ + 1]
      BY <1>1 DEF Handler
    <3> QED BY <1>1, <1>4, <3>1 DEF HandlersTyped
  <2> QED BY <1>1, <1>2, <1>3, <1>4, <2>1, <2>2, PassStep
<1>5. CASE /\ Awaited(s) /\ req' = [req EXCEPT ![q].pc = "waiting", ![q].on = slotOf[s]]
           /\ UNCHANGED <<need, slotOf>>
  <2>1. PICK on \in Requests : on = slotOf[s]
    BY <1>3, <1>5 DEF Awaited
  <2>2. need[on].state # "none" /\ need[on].slot = s
    BY <1>1, <1>5, <2>1, Sizes DEF SlotInv, Awaited
  <2>3. PICK h \in Handler : h = req[q]
    BY <1>1
  <2>4. PICK d : d = [h EXCEPT !.pc = "waiting", !.on = on]
    OBVIOUS
  <2>5. d \in Handler /\ d.pc = "waiting" /\ d.on = on /\ d.at = h.at /\ d.op = h.op
    BY <2>4 DEF Handler, Pcs
  <2>6. req' = [req EXCEPT ![q] = d]
    BY <1>1, <1>5, <2>1, <2>3, <2>4 DEF HandlersTyped
  <2>7. LoopInv(d)
    BY <1>1, <1>2, <1>3, <2>2, <2>3, <2>5 DEF LoopInv
  <2>8. Turns(q, d) /\ CountStays(q, d)
    BY <2>3, <2>5, <2>6 DEF Turns, CountStays, Early
  <2> QED BY <1>1, <1>5, <2>5, <2>7, <2>8, MoveStep
<1>6. CASE OpenSlot(q, s)
  BY <1>2, <1>6, OpenStep
<1> QED BY <1>2, <1>4, <1>5, <1>6 DEF LoopSlot

\* Complete: what happens to the continuation of q and to its query.
LEMMA OwnStep ==
    ASSUME MockInv, NEW q \in Requests, need[q].state = "open",
           NEW d, Turns(q, d), d.op = req[q].op, d.pc \in {"filling", "done", "failed"},
           LoopInv(d), NEW n \in Need, n.state # "none", n.slot = need[q].slot,
           need' = [need EXCEPT ![q] = n], n.state \in {"open", "filled"} => Holds(n.slot)',
           d.pc = "filling" => holder' = q /\ n.state = "open",
           \A r \in Requests : r # q => req[r].pc # "filling",
           RowsInv', Kept, holder' \in Requests \cup {NoRequest},
           UNCHANGED <<ctx, late, slotOf, calls, closed, gone, stopped>>,
           req[q].pc \in {"needs", "filling"},
           d.pc = "done" => /\ Holds(need[q].slot)
                            /\ \A s \in Slots : Holds(s) => SlotKeys[s] \subseteq d.saw
    PROVE  StepOK
<1>1. /\ HandlersTyped /\ \A r \in Requests : NeedInv(r) /\ LoopInv(req[r])
      /\ d \in Handler /\ req'[q] = d /\ \A r \in Requests : r # q => req'[r] = req[r]
      /\ req' \in [Requests -> Handler]
  BY TurnsOnly DEF MockInv
<1>2. /\ need'[q] = n /\ \A r \in Requests : r # q => need'[r] = need[r]
      /\ need' \in [Requests -> Need]
  BY <1>1 DEF HandlersTyped
<1>3. HandlersTyped'
  BY <1>1, <1>2 DEF HandlersTyped
<1>4. NeedsStay
  BY <1>2 DEF NeedsStay
<1>5. LimitInv'
  <2>1. Pending' = Pending
    BY <1>1, <1>2, PendingStays
  <2> QED BY <2>1, LimitKept DEF CountStays, Early
<1>6. ASSUME NEW r \in Requests
      PROVE  NeedInv(r)' /\ LoopInv(req[r])'
  <2>1. CASE r # q
    BY <1>1, <1>2, <1>4, <2>1, OthersKeep DEF NeedInv
  <2>2. CASE r = q
    <3>1. LoopInv(d)'
      BY <1>1, <1>4, LoopStays
    <3>2. n.slot \in Slots /\ slotOf'[n.slot] = q
      BY <1>1 DEF NeedInv
    <3>3. NeedInv(q)'
      BY <1>1, <1>2, <3>2 DEF NeedInv, Holds
    <3> QED BY <1>1, <2>2, <3>1, <3>3 DEF LoopInv
  <2> QED BY <2>1, <2>2
<1>7. MockInv'
  BY <1>3, <1>4, <1>5, <1>6, SlotKeeps DEF MockInv
<1>8. EndsOnceStep
  BY <1>2 DEF EndsOnceStep
<1>9. AnswersStep
  <2> SUFFICES ASSUME NEW r \in Requests, Answers(r)
               PROVE  /\ req[r].at > Len(SlotSeq) \/ need[r].state # "none"
                      /\ \A s \in CoveredSlots(r) : SlotKeys[s] \subseteq req'[r].saw
    BY DEF AnswersStep
  <2>1. r = q /\ d.pc = "done" /\ req[q] \in Handler
    BY <1>1 DEF Answers, HandlersTyped
  <2>2. \A i \in 1..(req[q].at - 1) : SlotSeq[i] \in Slots /\ Holds(SlotSeq[i])
    <3> TAKE i \in 1..(req[q].at - 1)
    <3>1. i \in 1..Len(SlotSeq)
      BY <2>1, HandlerFields, Sizes
    <3> QED BY <1>1, <3>1, Sizes DEF LoopInv
  <2>3. \A s \in CoveredSlots(q) : s \in Slots /\ Holds(s)
    BY <2>1, <2>2 DEF CoveredSlots
  <2> QED BY <1>1, <2>1, <2>3
<1> QED BY <1>7, <1>8, <1>9 DEF StepOK

LEMMA CompleteStep ==
    ASSUME MockInv, NEW q \in Requests, NEW f \in Candidates, Complete(q, f)
    PROVE  StepOK
<1>1. /\ HandlersTyped /\ RowsInv /\ NeedInv(q) /\ need[q] \in Need /\ req[q] \in Handler
      /\ req[q].pc = "needs" /\ holder = NoRequest /\ LoopInv(req[q])
      /\ UNCHANGED <<ctx, late, slotOf, calls, closed, gone, stopped>>
  BY DEF MockInv, HandlersTyped, Complete, Free
<1>2. need[q].slot \in Slots /\ \A r \in Requests : req[r].pc # "filling"
  BY <1>1, Sizes DEF MockInv, NeedInv
<1>3. CASE /\ Fail(q, need[q].err) /\ UNCHANGED <<dbVars, need, holder>>
  <2>1. need[q].err \in Errors
    BY <1>1, NeedFields
  <2> QED BY <1>1, <1>3, <2>1, FailStep
<1>4. CASE /\ need[q].state = "open"
           /\ need' = [need EXCEPT ![q] = [EndNeed(@, Refusal(q, f)) EXCEPT !.fill = f]]
           /\ Fail(q, Refusal(q, f)) /\ UNCHANGED <<dbVars, holder>>
  <2>1. PICK err \in Errors : err = Refusal(q, f)
    BY DEF Refusal, Errors
  <2>2. PICK m \in Need : m = need[q]
    BY <1>1
  <2>3. PICK e : e = EndNeed(m, err)
    OBVIOUS
  <2>4. e \in Need /\ e.state = "failed" /\ e.slot = m.slot
    BY <2>3, EndFields
  <2>5. PICK n : n = [e EXCEPT !.fill = f]
    OBVIOUS
  <2>6. n \in Need /\ n.state = "failed" /\ n.slot = m.slot
    BY <2>4, <2>5 DEF Need
  <2>7. need' = [need EXCEPT ![q] = n]
    BY <1>1, <1>4, <2>1, <2>2, <2>3, <2>5 DEF HandlersTyped
  <2>8. PICK d : Turns(q, d) /\ d.pc = "failed" /\ SameRequest(d, req[q])
    BY <1>1, <1>4, <2>1, Fails
  <2>9. LoopInv(d) /\ d.op = req[q].op
    BY <2>8, LeavesLoop DEF Turns, SameRequest
  <2>10. RowsInv' /\ Kept
    BY <1>1, <1>4, RowsSame
  <2>11. /\ holder' \in Requests \cup {NoRequest} /\ need[q].state = "open"
         /\ n.slot = need[q].slot
    BY <1>1, <1>4, <2>2, <2>6
  <2> HIDE <1>4
  <2> QED BY <1>1, <1>2, <2>6, <2>7, <2>8, <2>9, <2>10, <2>11, OwnStep
<1>5. CASE /\ need[q].state = "open" /\ Refusal(q, f) = "none" /\ version < MaxVersion
           /\ Install(FillRows(need[q].slot, f)) /\ need' = [need EXCEPT ![q].fill = f]
           /\ holder' = q /\ Goto(q, "filling") /\ UNCHANGED <<sessions, nextID, used>>
  <2>1. PICK s \in Slots : s = need[q].slot
    BY <1>2
  <2>2. \A k \in SlotKeys[s] : committed[k].row = NoRow
    BY <1>5, <2>1 DEF Refusal
  <2>3. RowsInv' /\ Kept /\ Holds(s)'
    BY <1>1, <1>5, <2>1, <2>2, FillInstalls
  <2>4. PICK m \in Need : m = need[q]
    BY <1>1
  <2>5. PICK n : n = [m EXCEPT !.fill = f]
    OBVIOUS
  <2>6. n \in Need /\ n.state = "open" /\ n.slot = s
    BY <1>5, <2>1, <2>4, <2>5 DEF Need
  <2>7. need' = [need EXCEPT ![q] = n]
    BY <1>1, <1>5, <2>4, <2>5 DEF HandlersTyped
  <2>8. PICK d : Turns(q, d) /\ d.pc = "filling" /\ SameRequest(d, req[q])
    BY <1>1, <1>5, Goes DEF Pcs
  <2>9. LoopInv(d) /\ d.op = req[q].op
    BY <2>8, LeavesLoop DEF Turns, SameRequest
  <2>10. Holds(n.slot)'
    BY <2>3, <2>6
  <2>11. /\ need[q].state = "open" /\ holder' = q /\ holder' \in Requests \cup {NoRequest}
         /\ n.slot = need[q].slot
    BY <1>5, <2>1, <2>6
  <2> HIDE <1>5
  <2> QED BY <1>1, <1>2, <2>3, <2>6, <2>7, <2>8, <2>9, <2>10, <2>11, OwnStep
<1> QED BY <1>3, <1>4, <1>5 DEF Complete

LEMMA CompleteExecutesStep ==
    ASSUME MockInv, NEW q \in Requests, CompleteExecutes(q)
    PROVE  StepOK
<1>1. /\ HandlersTyped /\ RowsInv /\ need[q] \in Need /\ req[q] \in Handler
      /\ req[q].pc = "filling" /\ LoopInv(req[q]) /\ holder = q /\ need[q].state = "open"
      /\ Holds(need[q].slot) /\ need[q].slot \in Slots /\ holder' = NoRequest
      /\ UNCHANGED <<ctx, late, slotOf, calls, closed, gone, stopped>>
  BY DEF MockInv, HandlersTyped, CompleteExecutes, NeedInv
<1>2. /\ \A r \in Requests : r # q => req[r].pc # "filling"
      /\ holder' \in Requests \cup {NoRequest}
  BY <1>1 DEF MockInv, NeedInv
<1>3. PICK m \in Need : m = need[q]
  BY <1>1
<1>4. PICK s \in Slots : s = need[q].slot
  BY <1>1
<1>5. CASE /\ need' = [need EXCEPT ![q] = EndNeed(@, "context")] /\ Fail(q, "context")
           /\ UNCHANGED dbVars
  <2>1. "context" \in Errors
    BY DEF Errors
  <2>2. PICK n : n = EndNeed(m, "context")
    OBVIOUS
  <2>3. n \in Need /\ n.state = "failed" /\ n.slot = m.slot
    BY <2>1, <2>2, EndFields
  <2>4. need' = [need EXCEPT ![q] = n]
    BY <1>1, <1>3, <1>5, <2>2 DEF HandlersTyped
  <2>5. PICK d : Turns(q, d) /\ d.pc = "failed" /\ SameRequest(d, req[q])
    BY <1>1, <1>5, <2>1, Fails
  <2>6. LoopInv(d) /\ d.op = req[q].op
    BY <2>5, LeavesLoop DEF Turns, SameRequest
  <2>7. RowsInv' /\ Kept
    BY <1>1, <1>5, RowsSame
  <2> QED BY <1>1, <1>2, <1>3, <2>3, <2>4, <2>5, <2>6, <2>7, OwnStep
<1>6. CASE /\ need' = [need EXCEPT ![q].state = "filled"] /\ Answer(q) /\ Read(ConnOf[q])
  <2>1. PICK n : n = [m EXCEPT !.state = "filled"]
    OBVIOUS
  <2>2. n \in Need /\ n.state = "filled" /\ n.slot = m.slot
    BY <2>1 DEF Need
  <2>3. need' = [need EXCEPT ![q] = n]
    BY <1>1, <1>3, <1>6, <2>1 DEF HandlersTyped
  <2>4. RowsInv' /\ Kept
    BY <1>1, <1>6, ReadRows, MockAssumption
  <2>5. PICK d : /\ Turns(q, d) /\ d.pc = "done" /\ d.op = req[q].op /\ d.at = req[q].at
                 /\ \A x \in Slots : Holds(x) => SlotKeys[x] \subseteq d.saw
    BY <1>6, AnswerTurns
  <2>6. LoopInv(d)
    BY <1>1, <2>5 DEF LoopInv
  <2>7. Holds(s)'
    BY <1>1, <1>4, <2>4, HoldsStays
  <2>8. Holds(n.slot)'
    BY <1>3, <1>4, <2>2, <2>7
  <2> QED BY <1>1, <1>2, <1>3, <2>2, <2>3, <2>4, <2>5, <2>6, <2>8, OwnStep
<1> QED BY <1>5, <1>6 DEF CompleteExecutes

\* connection.close and Stop: continuations end, no handler moves.
LEMMA EndStep ==
    ASSUME MockInv, Free, NEW S \in SUBSET Requests, NEW err \in Errors, EndNeeds(S, err),
           UNCHANGED <<req, ctx, late, slotOf, calls, gone, holder>>, RowsInv', Kept,
           closed' \subseteq gone, stopped' \in BOOLEAN
    PROVE  StepOK
<1>1. /\ HandlersTyped /\ \A r \in Requests : need[r] \in Need /\ NeedInv(r)
      /\ \A r \in Requests : req[r].pc # "filling"
  BY Sizes DEF MockInv, HandlersTyped, NeedInv, Free
<1>2. ASSUME NEW r \in Requests
      PROVE  need'[r] \in Need /\ (need'[r] = need[r] \/ Ended(r))
  <2>1. CASE r \in S /\ need[r].state = "open"
    <3>1. need'[r] = EndNeed(need[r], err)
      BY <2>1 DEF EndNeeds
    <3>2. need'[r] \in Need /\ need'[r].state = "failed" /\ need'[r].slot = need[r].slot
      BY <1>1, <3>1, EndFields
    <3> QED BY <1>1, <2>1, <3>2 DEF Ended
  <2>2. CASE ~(r \in S /\ need[r].state = "open")
    <3>1. need'[r] = need[r]
      BY <2>2 DEF EndNeeds
    <3> QED BY <1>1, <3>1
  <2> QED BY <2>1, <2>2
<1>3. need' \in [Requests -> Need]
  <2>1. need' = [r \in Requests |-> need'[r]]
    BY DEF EndNeeds
  <2> QED BY <1>2, <2>1
<1>4. NeedsStay
  BY <1>2 DEF NeedsStay, Ended
<1>5. HandlersTyped'
  BY <1>1, <1>3 DEF HandlersTyped
<1>6. LimitInv'
  <2>1. Pending' = Pending
    BY <1>1, <1>2, PendingStays DEF Ended
  <2> QED BY <2>1, LimitKept
<1>7. \A r \in Requests : NeedInv(r)' /\ LoopInv(req[r])'
  <2> TAKE r \in Requests
  <2>1. need'[r].state = "open" => slotOf'[need[r].slot] = r
    BY <1>1, <1>2 DEF NeedInv, Ended
  <2> QED BY <1>2, <1>4, <2>1, OthersKeep
<1>8. MockInv'
  BY <1>4, <1>5, <1>6, <1>7, SlotKeeps DEF MockInv
<1>9. EndsOnceStep
  BY <1>2 DEF EndsOnceStep, Ended
<1> QED BY <1>8, <1>9 DEF StepOK, AnswersStep, Answers

LEMMA CloseStep ==
    ASSUME MockInv, NEW c \in Conns, CloseConnection(c)
    PROVE  StepOK
<1> DEFINE S == {q \in Requests : ConnOf[q] = c}
<1>1. RowsInv' /\ Kept
  BY CloseRows DEF CloseConnection, MockInv
<1>2. /\ closed' \subseteq gone /\ stopped' \in BOOLEAN
  BY DEF CloseConnection, MockInv, HandlersTyped
<1>3. /\ Free /\ EndNeeds(S, "closed") /\ UNCHANGED <<req, ctx, late, slotOf, calls, gone, holder>>
      /\ S \in SUBSET Requests /\ "closed" \in Errors
  BY DEF CloseConnection, Errors
<1> HIDE DEF S
<1> QED BY <1>1, <1>2, <1>3, EndStep

LEMMA StopStep ==
    ASSUME MockInv, Stop
    PROVE  StepOK
<1>1. RowsInv' /\ Kept
  BY RowsSame DEF Stop, MockInv
<1>2. /\ closed' \subseteq gone /\ stopped' \in BOOLEAN
  BY DEF Stop, MockInv, HandlersTyped
<1>3. /\ Free /\ EndNeeds(Requests, "stopped")
      /\ UNCHANGED <<req, ctx, late, slotOf, calls, gone, holder>>
      /\ Requests \in SUBSET Requests /\ "stopped" \in Errors
  BY DEF Stop, Errors
<1> QED BY <1>1, <1>2, <1>3, EndStep

\* A client goes, a context ends, a deadline passes; or nothing happens.
LEMMA OutsideStep ==
    ASSUME MockInv, UNCHANGED <<dbVars, req, need, slotOf, calls, closed, holder, stopped>>,
           ctx' \subseteq Requests, late' \subseteq Requests, gone \subseteq gone', gone' \subseteq Conns
    PROVE  StepOK
<1>1. HandlersTyped /\ RowsInv' /\ Kept
  BY RowsSame DEF MockInv
<1>2. HandlersTyped'
  BY <1>1 DEF HandlersTyped
<1>3. NeedsStay
  BY DEF NeedsStay
<1>4. LimitInv'
  BY <1>1, PendingStays, LimitKept
<1>5. \A r \in Requests : NeedInv(r)' /\ LoopInv(req[r])'
  <2> TAKE r \in Requests
  <2>1. need'[r].state = "open" => slotOf'[need[r].slot] = r
    BY DEF MockInv, NeedInv
  <2> QED BY <1>1, <1>3, <2>1, OthersKeep
<1>6. MockInv'
  BY <1>1, <1>2, <1>3, <1>4, <1>5, SlotKeeps DEF MockInv
<1> QED BY <1>1, <1>6 DEF StepOK, EndsOnceStep, AnswersStep, Answers

-------------------------------------------------------------------------------
(* The invariant, and what it gives.                                        *)

LEMMA MockInitInv == MockInit => MockInv
<1> SUFFICES ASSUME MockInit
             PROVE  MockInv
  OBVIOUS
<1>1. RowsInv
  <2>1. Inv
    BY InitInv DEF MockInit
  <2>2. \A c \in Conns : Conn(c) = Fresh
    BY DEF MockInit, Init, Conn
  <2> QED BY <2>1, <2>2, FreshSession DEF Inv, RowsInv
<1>2. 1 \in 1..(Len(SlotSeq) + 1)
  BY Sizes
<1>3. /\ \A q \in Requests : /\ req[q] = [pc |-> "idle", op |-> "none", tx |-> FALSE, at |-> 1,
                                         on |-> NoRequest, err |-> "none", saw |-> {}]
                              /\ need[q] = NoNeed
  BY DEF MockInit
<1>4. [pc |-> "idle", op |-> "none", tx |-> FALSE, at |-> 1, on |-> NoRequest, err |-> "none",
       saw |-> {}] \in Handler /\ NoNeed \in Need /\ NoNeed.state = "none"
  BY <1>2 DEF Handler, NoNeed, Need, Pcs, Errors
<1>5. HandlersTyped
  BY <1>4 DEF MockInit, HandlersTyped
<1>6. \A q \in Requests : NeedInv(q) /\ LoopInv(req[q])
  BY <1>3, <1>4 DEF NeedInv, LoopInv
<1>7. \A s \in Slots : SlotInv(s)
  BY DEF MockInit, SlotInv
<1>8. LimitInv
  <2>1. Pending = {}
    BY <1>3, <1>4 DEF Pending
  <2>2. \A st \in Statements : Counted(st) = {}
    BY <1>3 DEF Counted
  <2>3. IsFiniteSet({}) /\ Cardinality({}) = 0
    BY FS_EmptySet
  <2>4. \A st \in Statements : calls[st] = 0
    BY DEF MockInit
  <2>5. IsFiniteSet(Pending) /\ Cardinality(Pending) <= MaxPending
    BY <2>1, <2>3, Sizes
  <2>6. \A st \in Statements : calls[st] <= Cardinality(Counted(st))
    BY <2>2, <2>3, <2>4
  <2> QED BY <2>5, <2>6 DEF LimitInv
<1> QED BY <1>1, <1>5, <1>6, <1>7, <1>8 DEF MockInv

LEMMA MockNextStep ==
    ASSUME MockInv, [MockNext]_allVars
    PROVE  StepOK
<1>0. HandlersTyped
  BY DEF MockInv
<1>1. CASE UNCHANGED allVars
  BY <1>0, <1>1, OutsideStep DEF allVars, mockVars, HandlersTyped
<1>2. ASSUME NEW q \in Requests, Handle(q)
      PROVE  StepOK
  BY <1>2, AdmitStep, TransactionStep, CountStep, LoopSlotStep, WakeStep, WaitCancelledStep,
     LoopEndsStep, ExecuteStep, CompleteExecutesStep DEF Handle
<1>3. ASSUME NEW q \in Requests, Host(q)
      PROVE  StepOK
  <2>1. CASE ContextEnds(q)
    BY <1>0, <2>1, OutsideStep DEF ContextEnds, HandlersTyped
  <2>2. CASE DeadlinePasses(q)
    BY <1>0, <2>2, OutsideStep DEF DeadlinePasses, HandlersTyped
  <2> QED BY <1>3, <2>1, <2>2, SendStep, GiveUpStep, CompleteStep DEF Host
<1>4. ASSUME NEW c \in Conns, Disconnect(c)
      PROVE  StepOK
  BY <1>0, <1>4, OutsideStep DEF Disconnect, HandlersTyped
<1> QED BY <1>1, <1>2, <1>3, <1>4, CloseStep, StopStep DEF MockNext

LEMMA MockSpecInv == MockSpec => []MockInv
<1>1. MockInv /\ [MockNext]_allVars => MockInv'
  BY MockNextStep DEF StepOK
<1> QED BY <1>1, MockInitInv, PTL DEF MockSpec

\* Every variable keeps its type; there are never more continuations than the limit,
\* and no statement is counted twice.
THEOREM MockTypeCorrect == MockSpec => []MockTypeOK
<1>1. MockInv => MockTypeOK
  <2> SUFFICES ASSUME MockInv
               PROVE  MockTypeOK
    OBVIOUS
  <2>1. \A st \in Statements : calls[st] \in 0..Cardinality(Requests)
    <3> TAKE st \in Statements
    <3>1. /\ calls[st] \in Nat /\ calls[st] <= Cardinality(Counted(st))
      BY DEF MockInv, HandlersTyped, LimitInv
    <3>2. /\ Cardinality(Counted(st)) <= Cardinality(Requests)
          /\ Cardinality(Counted(st)) \in Nat /\ Cardinality(Requests) \in Nat
      BY CountedFinite, Sizes, FS_Subset, FS_CardinalityType DEF Counted
    <3> QED BY <3>1, <3>2
  <2> QED BY <2>1 DEF MockInv, HandlersTyped, LimitInv, MockTypeOK
<1> QED BY <1>1, MockSpecInv, PTL

\* An open continuation is the one its slot has, however fills expire, fail, are given
\* up or asked for again: no two fills of a slot are awaited at a time.
THEOREM OneFillCorrect == MockSpec => []OneFillPerSlot
<1>1. MockInv => OneFillPerSlot
  BY DEF MockInv, NeedInv, OneFillPerSlot
<1> QED BY <1>1, MockSpecInv, PTL

\* A continuation that was filled or has failed stays as it is: its channel is closed
\* once, whoever of Complete, the loops of other queries, connection.close and Stop ends it.
THEOREM EndsOnceCorrect == MockSpec => EndsOnce
<1>1. MockInv /\ [MockNext]_allVars => [EndsOnceStep]_allVars
  BY MockNextStep DEF StepOK
<1>2. MockSpec => [][EndsOnceStep]_allVars
  BY <1>1, MockSpecInv, PTL DEF MockSpec
<1> QED BY <1>2 DEF EndsOnce, EndsOnceStep

\* With any number of slots: an answer has all rows of the slots that the query passed
\* and of the one that it asked for, and a row of a slot, once there, is never replaced.
THEOREM AnswersCover == MockSpec => [][AnswersStep]_allVars
<1>1. MockInv /\ [MockNext]_allVars => [AnswersStep]_allVars
  BY MockNextStep DEF StepOK
<1> QED BY <1>1, MockSpecInv, PTL DEF MockSpec

\* The table of the queries has one slot.
OneSlotOnly ==
    /\ \A s, t \in Slots : s = t
    /\ \A s \in Slots : \E i \in 1..Len(SlotSeq) : SlotSeq[i] = s

\* With one slot, the case of the P0 scenario, each answer has all the rows of the table's
\* slots; with more, only AnswersCover holds.
THEOREM AnswersCorrect ==
    ASSUME OneSlotOnly
    PROVE  MockSpec => AnswersStayTrue
<1> DEFINE Told ==
        /\ \A q \in Requests :
              req[q].op = "select" /\ req[q].pc # "done" /\ req'[q].pc = "done" =>
                 \A s \in Slots : SlotKeys[s] \subseteq req'[q].saw
        /\ \A k \in Parents : committed[k].row # NoRow => committed'[k] = committed[k]
<1>1. ASSUME MockInv, AnswersStep
      PROVE  Told
  <2>1. ASSUME NEW q \in Requests, Answers(q), NEW s \in Slots
        PROVE  SlotKeys[s] \subseteq req'[q].saw
    <3>1. CASE req[q].at > Len(SlotSeq)
      <4>1. req[q].at \in Nat
        BY <1>1, HandlerFields DEF MockInv, HandlersTyped
      <4>2. PICK i \in 1..Len(SlotSeq) : SlotSeq[i] = s
        BY DEF OneSlotOnly
      <4>3. i \in 1..(req[q].at - 1)
        BY <3>1, <4>1, Sizes
      <4> QED BY <1>1, <2>1, <4>2, <4>3 DEF AnswersStep, CoveredSlots
    <3>2. CASE need[q].state # "none"
      <4>1. need[q].slot = s
        BY <1>1, <3>2 DEF MockInv, NeedInv, OneSlotOnly
      <4> QED BY <1>1, <2>1, <3>2, <4>1 DEF AnswersStep, CoveredSlots
    <3> QED BY <1>1, <2>1, <3>1, <3>2 DEF AnswersStep
  <2> QED BY <1>1, <2>1 DEF AnswersStep, Answers, Kept
<1>2. MockInv /\ [AnswersStep]_allVars => [Told]_allVars
  BY <1>1
<1>3. MockSpec => [][Told]_allVars
  <2> HIDE DEF Told
  <2> QED BY <1>2, MockSpecInv, AnswersCover, PTL
<1> QED BY <1>3 DEF AnswersStayTrue

\* What is committed satisfies the foreign keys and the unique keys, though fills are
\* committed next to the transactions.
THEOREM MockValidityCorrect == MockSpec => []CommittedIsValid
<1>1. MockInv => CommittedIsValid
  BY DEF MockInv, RowsInv
<1> QED BY <1>1, MockSpecInv, PTL
===============================================================================
