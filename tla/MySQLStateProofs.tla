---------------------------- MODULE MySQLStateProofs ----------------------------
(* What MySQLState guarantees for any number of connections, keys and ops.   *)
EXTENDS MySQLState, TLAPS

-------------------------------------------------------------------------------
(* The inductive invariant.  Conn(c) is the session of c, or the one it would *)
(* be given: what holds of every session holds of that one, too.             *)

RowsAt(k) == IF k \in Ids THEN ItemRow ELSE ParentRow

Types ==
    /\ committed \in [Keys -> Record]
    /\ sessions \in [Conns -> Session \cup {NoSession}]
    /\ nextID \in 1..MaxInt
    /\ version \in 0..MaxVersion
    /\ used \in SUBSET Ops

Births == births \in SUBSET (used \cup {Seeded})

\* A committed row has the columns of its table, a version that was given out and
\* an INSERT that was committed; an item that was never committed is not there.
CommittedInv ==
    \A k \in Keys :
        /\ committed[k].version <= version
        /\ committed[k].row \in RowsAt(k) \cup {NoRow}
        /\ committed[k].row # NoRow => committed[k].row.born \in births
        /\ k \in Ids /\ committed[k].version = 0 => committed[k].row = NoRow

\* A row may replace the one that is committed under its key: it has all of its
\* additions, or is the row of an INSERT that was never committed.
Follows(k, row) ==
    LET old == committed[k].row
    IN  /\ old # NoRow /\ old.born = row.born /\ k \in Ids => old.added \subseteq row.added
        /\ old = NoRow \/ old.born # row.born => row.born \notin births

\* The working set of a connection.  As long as nobody has committed the row since
\* the transaction touched it first, what the transaction made of it may replace it.
WorkInv(c) ==
    /\ ~Conn(c).active => Conn(c).writes = NoWrites
    /\ \A k \in Keys :
          /\ Conn(c).base[k] <= committed[k].version
          /\ Conn(c).writes[k] \in RowsAt(k) \cup {NoRow, Unwritten}
          /\ Conn(c).writes[k] \in RowsAt(k) =>
                /\ Conn(c).writes[k].born \in used \cup {Seeded}
                /\ Conn(c).base[k] = committed[k].version => Follows(k, Conn(c).writes[k])

\* The row of an INSERT that is not committed is in one working set only.
Unshared ==
    \A c, d \in Conns : \A k, q \in Keys :
        /\ Conn(c).writes[k] \in RowsAt(k) /\ Conn(d).writes[q] \in RowsAt(q)
        /\ Conn(c).writes[k].born = Conn(d).writes[q].born
        /\ Conn(c).writes[k].born \notin births
        => c = d /\ k = q

CounterInv ==
    \A i \in Ids : i >= nextID =>
        committed[i].version = 0 /\ \A c \in Conns : Conn(c).writes[i] = Unwritten

Inv ==
    /\ Types /\ Births /\ CommittedInv /\ (\A c \in Conns : WorkInv(c)) /\ Unshared /\ CounterInv
    /\ CommittedIsValid

-------------------------------------------------------------------------------
(* Facts about the data.                                                    *)

LEMMA Markers ==
    /\ NoRow # Unwritten
    /\ \A k : RowsAt(k) \subseteq Rows /\ NoRow \notin RowsAt(k) /\ Unwritten \notin RowsAt(k)
BY MarkersAssumption DEF RowsAt, Rows

LEMMA Numbers ==
    /\ MaxInt \in Nat /\ MaxVersion \in Nat
    /\ \A i \in Ids : i \in Keys /\ i \in Nat /\ i < MaxInt /\ i >= 1
    /\ \A v \in 0..MaxVersion : v \in Nat
BY StateAssumption DEF Ids, Keys

LEMMA Sessions ==
    ASSUME Types, NEW c \in Conns
    PROVE  /\ Conn(c) \in Session /\ Conn(c) # NoSession
           /\ Conn(c).active \in BOOLEAN /\ Conn(c).autocommit \in BOOLEAN
           /\ Conn(c).writes \in [Keys -> Rows \cup {NoRow, Unwritten}]
           /\ Conn(c).base \in [Keys -> 0..MaxVersion]
<1>1. Fresh \in Session
  <2>1. NoWrites \in [Keys -> Rows \cup {NoRow, Unwritten}]
    BY DEF NoWrites
  <2>2. NoBase \in [Keys -> 0..MaxVersion]
    BY Numbers DEF NoBase
  <2> QED BY <2>1, <2>2 DEF Fresh, Session
<1>2. Conn(c) \in Session
  BY <1>1 DEF Conn, Types
<1>3. Conn(c) # NoSession
  BY <1>2, SessionAssumption
<1> QED BY <1>2, <1>3 DEF Session

\* The step leaves session s to c, and the others theirs.
Gives(c, s) ==
    /\ Conn(c)' = s /\ \A d \in Conns : d # c => Conn(d)' = Conn(d)
    /\ sessions' \in [Conns -> Session \cup {NoSession}]

LEMMA NewSession ==
    ASSUME Types, NEW c \in Conns, NEW s \in Session, sessions' = [sessions EXCEPT ![c] = s]
    PROVE  Gives(c, s)
<1>1. s # NoSession
  BY SessionAssumption
<1>2. sessions'[c] = s /\ \A d \in Conns : d # c => sessions'[d] = sessions[d]
  BY DEF Types
<1>3. sessions' \in [Conns -> Session \cup {NoSession}]
  BY DEF Types
<1> QED BY <1>1, <1>2, <1>3 DEF Conn, Gives

LEMMA CommittedRows ==
    ASSUME Types, CommittedInv, NEW k \in Keys
    PROVE  /\ committed[k].version \in Nat /\ committed[k].version <= version
           /\ version \in Nat /\ committed[k].version \in 0..MaxVersion
           /\ committed[k].row \in RowsAt(k) \cup {NoRow}
           /\ committed[k].row # NoRow => committed[k].row.born \in births
BY Numbers DEF Types, CommittedInv, Record

\* Keys and ops are never given back.
Forth ==
    /\ nextID' \in 1..MaxInt /\ nextID' >= nextID
    /\ used' \in SUBSET Ops /\ used \subseteq used'

-------------------------------------------------------------------------------
(* A step that changes the working set of a connection, and nothing that is   *)
(* committed.                                                                *)

WorkOK(c, s) ==
    /\ ~s.active => s.writes = NoWrites
    /\ \A k \in Keys :
          /\ s.base[k] <= committed[k].version
          /\ s.writes[k] \in RowsAt(k) \cup {NoRow, Unwritten}
          /\ s.writes[k] # Unwritten /\ k \in Ids => k < nextID'
          /\ s.writes[k] \in RowsAt(k) =>
                /\ s.writes[k].born \in used' \cup {Seeded}
                /\ s.base[k] = committed[k].version => Follows(k, s.writes[k])
                /\ s.writes[k].born \notin births =>
                      /\ \A q \in Keys : s.writes[q] \in RowsAt(q)
                                         /\ s.writes[q].born = s.writes[k].born => q = k
                      /\ \A d \in Conns \ {c} : \A q \in Keys :
                            Conn(d).writes[q] \in RowsAt(q)
                            => Conn(d).writes[q].born # s.writes[k].born

LEMMA WorkStep ==
    ASSUME Inv, Forth, NEW c \in Conns, NEW s \in Session, WorkOK(c, s),
           Gives(c, s), UNCHANGED <<committed, version, births>>
    PROVE  Inv'
<1>1. /\ Conn(c)' = s /\ \A d \in Conns : d # c => Conn(d)' = Conn(d)
      /\ sessions' \in [Conns -> Session \cup {NoSession}]
  BY DEF Gives
<1>2. Types'
  BY <1>1 DEF Inv, Types, Forth
<1>3. Births' /\ CommittedInv' /\ CommittedIsValid'
  BY DEF Inv, Births, Forth, CommittedInv, CommittedIsValid
<1>4. ASSUME NEW d \in Conns
      PROVE  WorkInv(d)'
  <2>1. CASE d = c
    BY <1>1, <2>1 DEF WorkOK, WorkInv, Follows
  <2>2. CASE d # c
    BY <1>1, <2>2 DEF Inv, WorkInv, Follows, Forth
  <2> QED BY <2>1, <2>2
<1>5. Unshared'
  <2> SUFFICES ASSUME NEW d \in Conns, NEW e \in Conns, NEW k \in Keys, NEW q \in Keys,
                      Conn(d)'.writes[k] \in RowsAt(k), Conn(e)'.writes[q] \in RowsAt(q),
                      Conn(d)'.writes[k].born = Conn(e)'.writes[q].born,
                      Conn(d)'.writes[k].born \notin births'
               PROVE  d = e /\ k = q
    BY DEF Unshared
  <2>1. CASE d # c /\ e # c
    BY <1>1, <2>1 DEF Inv, Unshared
  <2>2. CASE d = c /\ e # c
    BY <1>1, <2>2 DEF WorkOK
  <2>3. CASE d # c /\ e = c
    BY <1>1, <2>3 DEF WorkOK
  <2>4. CASE d = c /\ e = c
    BY <1>1, <2>4 DEF WorkOK
  <2> QED BY <2>1, <2>2, <2>3, <2>4
<1>6. CounterInv'
  <2> SUFFICES ASSUME NEW i \in Ids, i >= nextID'
               PROVE  committed[i].version = 0 /\ \A d \in Conns : Conn(d)'.writes[i] = Unwritten
    BY DEF CounterInv
  <2>1. i \in Keys /\ i \in Nat /\ nextID \in Nat /\ nextID' \in Nat /\ i >= nextID /\ ~(i < nextID')
    BY Numbers DEF Forth, Inv, Types
  <2>2. committed[i].version = 0 /\ \A d \in Conns : Conn(d).writes[i] = Unwritten
    BY <2>1 DEF Inv, CounterInv
  <2>3. s.writes[i] = Unwritten
    BY <2>1 DEF WorkOK
  <2> QED BY <1>1, <2>2, <2>3
<1> QED BY <1>2, <1>3, <1>4, <1>5, <1>6 DEF Inv

-------------------------------------------------------------------------------
(* A step that commits rows.                                                 *)

CommittedNow == [k \in Keys |-> committed[k].row]

\* What CommitsKeepOthers says of one step.
StepKeepsOthers ==
    /\ \A i \in Ids :
          LET old == committed[i].row
              new == committed'[i].row
          IN  old # NoRow /\ new # NoRow /\ old.born = new.born
              => old.added \subseteq new.added
    /\ \A k \in Keys :
          LET old == committed[k].row
              new == committed'[k].row
          IN  new # NoRow /\ (old = NoRow \/ old.born # new.born)
              => new.born \notin births

Replaces(c, changes) ==
    \A k \in DOMAIN changes :
        /\ k \in Keys /\ changes[k] \in RowsAt(k) \cup {NoRow}
        /\ k \in Ids => k < nextID'
        /\ changes[k] # NoRow =>
              /\ changes[k].born \in used' \cup {Seeded}
              /\ Follows(k, changes[k])
              /\ \A d \in Conns \ {c} : \A q \in Keys :
                    Conn(d).writes[q] \in RowsAt(q) /\ Conn(d).writes[q].born = changes[k].born
                    => changes[k].born \in births

LEMMA InstallStep ==
    ASSUME Inv, Forth, NEW c \in Conns, NEW s \in Session, NEW changes,
           sessions' = [sessions EXCEPT ![c] = s], s.writes = NoWrites,
           \A k \in Keys : s.base[k] <= committed[k].version,
           version < MaxVersion, Install(changes), Replaces(c, changes),
           Valid(After(CommittedNow, changes))
    PROVE  Inv' /\ StepKeepsOthers
<1>0. Types /\ Births /\ CommittedInv /\ Unshared /\ CounterInv /\ \A d \in Conns : WorkInv(d)
  BY DEF Inv
<1>1. /\ Conn(c)' = s /\ \A d \in Conns : d # c => Conn(d)' = Conn(d)
      /\ sessions' \in [Conns -> Session \cup {NoSession}]
  BY <1>0, NewSession DEF Gives
<1>2. /\ version \in Nat /\ version' = version + 1 /\ version' \in 0..MaxVersion
      /\ nextID \in Nat /\ nextID' \in Nat /\ nextID' >= nextID
  BY <1>0, Numbers DEF Types, Install, Forth
<1>3. \A k \in Keys : \/ k \notin DOMAIN changes /\ committed'[k] = committed[k]
                      \/ /\ k \in DOMAIN changes
                         /\ committed'[k] = [row |-> changes[k], version |-> version + 1]
                         /\ committed'[k].row = changes[k]
                         /\ committed'[k].version = version + 1
  <2> SUFFICES ASSUME NEW k \in Keys
               PROVE  \/ k \notin DOMAIN changes /\ committed'[k] = committed[k]
                      \/ /\ k \in DOMAIN changes
                         /\ committed'[k] = [row |-> changes[k], version |-> version + 1]
                         /\ committed'[k].row = changes[k]
                         /\ committed'[k].version = version + 1
    OBVIOUS
  <2>1. CASE k \in DOMAIN changes
    <3>1. committed'[k] = [row |-> changes[k], version |-> version + 1]
      BY <2>1 DEF Install
    <3> QED BY <2>1, <3>1
  <2>2. CASE k \notin DOMAIN changes
    BY <2>2 DEF Install
  <2> QED BY <2>1, <2>2
<1>4. ASSUME NEW k \in Keys
      PROVE  /\ committed'[k] \in Record /\ committed'[k].version <= version'
             /\ committed[k].version <= committed'[k].version
             /\ committed'[k].row \in RowsAt(k) \cup {NoRow}
             /\ committed'[k].row # NoRow => committed'[k].row.born \in births'
             /\ k \in Ids /\ committed'[k].version = 0 => committed'[k].row = NoRow
  <2>1. committed'[k].row # NoRow => committed'[k].row.born \in births'
    BY DEF Install
  <2>2. CASE k \notin DOMAIN changes /\ committed'[k] = committed[k]
    BY <1>0, <1>2, <2>1, <2>2, CommittedRows DEF Types, CommittedInv
  <2>3. CASE k \in DOMAIN changes /\ committed'[k] = [row |-> changes[k], version |-> version + 1]
    <3>1. changes[k] \in RowsAt(k) \cup {NoRow} /\ changes[k] \in Rows \cup {NoRow}
      BY <2>3, Markers DEF Replaces
    <3>2. committed'[k] \in Record /\ committed'[k].version = version' /\ committed'[k].row = changes[k]
      BY <1>2, <2>3, <3>1 DEF Record
    <3>3. committed[k].version <= version /\ committed[k].version \in Nat
      BY <1>0, CommittedRows
    <3> QED BY <1>2, <2>1, <3>1, <3>2, <3>3
  <2> QED BY <1>3, <2>2, <2>3
<1>5. births \subseteq births' /\ births' \subseteq used' \cup {Seeded}
  <2>1. ASSUME NEW b \in births', b \notin births
        PROVE  \E k \in DOMAIN changes : changes[k] # NoRow /\ changes[k].born = b
    <3>1. PICK k \in Keys : committed'[k].row # NoRow /\ committed'[k].row.born = b
      BY <2>1 DEF Install
    <3>2. committed'[k] # committed[k]
      BY <1>0, <2>1, <3>1, CommittedRows
    <3> QED BY <1>3, <3>1, <3>2
  <2>2. births \subseteq births'
    BY DEF Install
  <2>3. births \subseteq used' \cup {Seeded}
    BY <1>0 DEF Births, Forth
  <2>4. ASSUME NEW b \in births'
        PROVE  b \in used' \cup {Seeded}
    <3>1. CASE b \in births
      BY <2>3, <3>1
    <3>2. CASE b \notin births
      BY <2>1, <3>2 DEF Replaces
    <3> QED BY <3>1, <3>2
  <2> QED BY <2>2, <2>4
<1>6. Types' /\ Births'
  <2>1. committed' \in [Keys -> Record]
    BY <1>4 DEF Install
  <2> QED BY <1>1, <1>2, <1>5, <2>1 DEF Types, Births, Forth
<1>7. CommittedInv'
  BY <1>4 DEF CommittedInv
\* What is committed now was in no other working set.
<1>8. ASSUME NEW d \in Conns, d # c, NEW k \in Keys, Conn(d).writes[k] \in RowsAt(k),
             Conn(d).writes[k].born \notin births
      PROVE  Conn(d).writes[k].born \notin births'
  <2> SUFFICES ASSUME Conn(d).writes[k].born \in births'
               PROVE  FALSE
    OBVIOUS
  <2>1. PICK q \in Keys : committed'[q].row # NoRow /\ committed'[q].row.born = Conn(d).writes[k].born
    BY <1>8 DEF Install
  <2>2. committed'[q] # committed[q]
    BY <1>0, <1>8, <2>1, CommittedRows
  <2>3. q \in DOMAIN changes /\ changes[q] # NoRow /\ changes[q].born = Conn(d).writes[k].born
    BY <1>3, <2>1, <2>2
  <2> QED BY <1>8, <2>3 DEF Replaces
<1>9. ASSUME NEW d \in Conns
      PROVE  WorkInv(d)'
  <2>1. CASE d = c
    <3>1. \A k \in Keys : s.writes[k] = Unwritten
      BY DEF NoWrites
    <3>2. \A k \in Keys : s.base[k] <= committed'[k].version
      <4> TAKE k \in Keys
      <4>1. s.base[k] \in Nat /\ s.base[k] <= committed[k].version
        BY Numbers DEF Session
      <4>2. committed[k].version \in Nat /\ committed[k].version <= committed'[k].version
            /\ committed'[k].version \in Nat
        BY <1>0, <1>4, CommittedRows, Numbers DEF Record
      <4> QED BY <4>1, <4>2
    <3> QED BY <1>1, <2>1, <3>1, <3>2, Markers DEF WorkInv
  <2>2. CASE d # c
    <3>1. Conn(d)' = Conn(d) /\ WorkInv(d)
      BY <1>0, <1>1, <2>2
    <3> SUFFICES ASSUME NEW k \in Keys
                 PROVE  /\ Conn(d).base[k] <= committed'[k].version
                        /\ Conn(d).writes[k] \in RowsAt(k) =>
                              /\ Conn(d).writes[k].born \in used' \cup {Seeded}
                              /\ Conn(d).base[k] = committed'[k].version
                                 => Follows(k, Conn(d).writes[k])'
      BY <3>1 DEF WorkInv
    <3>2. Conn(d).base[k] \in Nat /\ Conn(d).base[k] <= committed[k].version
      BY <1>0, <3>1, Sessions, Numbers DEF WorkInv
    <3>3. /\ committed[k].version \in Nat /\ committed[k].version <= committed'[k].version
          /\ committed'[k].version \in Nat /\ committed[k].version <= version
      BY <1>0, <1>4, CommittedRows, Numbers DEF Record
    <3>4. Conn(d).base[k] <= committed'[k].version
      BY <3>2, <3>3
    <3>5. Conn(d).writes[k] \in RowsAt(k) => Conn(d).writes[k].born \in used' \cup {Seeded}
      BY <3>1 DEF WorkInv, Forth
    <3>6. ASSUME Conn(d).writes[k] \in RowsAt(k), Conn(d).base[k] = committed'[k].version
          PROVE  Follows(k, Conn(d).writes[k])'
      <4>1. committed'[k] = committed[k]
        <5>1. committed'[k].version # version + 1
          BY <1>2, <3>2, <3>3, <3>6
        <5> QED BY <1>3, <5>1
      <4>2. Follows(k, Conn(d).writes[k])
        BY <3>1, <3>6, <4>1 DEF WorkInv
      <4>3. committed[k].row = NoRow \/ committed[k].row.born # Conn(d).writes[k].born
            => Conn(d).writes[k].born \notin births'
        BY <1>8, <2>2, <3>6, <4>2 DEF Follows
      <4> QED BY <3>1, <4>1, <4>2, <4>3 DEF Follows
    <3> QED BY <3>4, <3>5, <3>6
  <2> QED BY <2>1, <2>2
<1>10. Unshared'
  <2> SUFFICES ASSUME NEW d \in Conns, NEW e \in Conns, NEW k \in Keys, NEW q \in Keys,
                      Conn(d)'.writes[k] \in RowsAt(k), Conn(e)'.writes[q] \in RowsAt(q),
                      Conn(d)'.writes[k].born = Conn(e)'.writes[q].born,
                      Conn(d)'.writes[k].born \notin births'
               PROVE  d = e /\ k = q
    BY DEF Unshared
  <2>1. d # c /\ e # c
    BY <1>1, Markers DEF NoWrites
  <2> QED BY <1>0, <1>1, <1>5, <2>1 DEF Unshared
<1>11. CounterInv'
  <2> SUFFICES ASSUME NEW i \in Ids, i >= nextID'
               PROVE  committed'[i].version = 0 /\ \A d \in Conns : Conn(d)'.writes[i] = Unwritten
    BY DEF CounterInv
  <2>1. i \in Keys /\ i \in Nat /\ i >= nextID /\ ~(i < nextID')
    BY <1>2, Numbers
  <2>2. committed[i].version = 0 /\ \A d \in Conns : Conn(d).writes[i] = Unwritten
    BY <1>0, <2>1 DEF CounterInv
  <2>3. committed'[i] = committed[i]
    BY <1>3, <2>1 DEF Replaces
  <2>4. s.writes[i] = Unwritten
    BY <2>1 DEF NoWrites
  <2> QED BY <1>1, <2>2, <2>3, <2>4
<1>12. CommittedIsValid'
  <2>1. [k \in Keys |-> committed'[k].row] = After(CommittedNow, changes)
    BY <1>3 DEF After, CommittedNow
  <2> QED BY <2>1 DEF CommittedIsValid
<1>13. StepKeepsOthers
  <2>1. ASSUME NEW k \in Keys, committed'[k].row # NoRow
        PROVE  \/ committed'[k].row = committed[k].row /\ committed[k].row # NoRow
               \/ Follows(k, committed'[k].row)
    BY <1>3, <2>1 DEF Replaces
  <2>2. \A i \in Ids : i \in Keys
    BY Numbers
  <2> QED BY <2>1, <2>2 DEF StepKeepsOthers, Follows
<1> QED BY <1>0, <1>6, <1>7, <1>9, <1>10, <1>11, <1>12, <1>13 DEF Inv

-------------------------------------------------------------------------------
(* The steps that keep or clear the working set.                            *)

LEMMA StaySame == UNCHANGED <<committed, version, births>> => StepKeepsOthers
BY DEF StepKeepsOthers

LEMMA KeptWork ==
    ASSUME Inv, Forth, NEW c \in Conns, NEW s, s.writes = Conn(c).writes,
           s.base = Conn(c).base, ~s.active => ~Conn(c).active
    PROVE  WorkOK(c, s)
<1>1. WorkInv(c) /\ Unshared /\ CounterInv
  BY DEF Inv
<1>2. \A k \in Keys : s.writes[k] # Unwritten /\ k \in Ids => k < nextID'
  <2> SUFFICES ASSUME NEW k \in Ids, Conn(c).writes[k] # Unwritten
               PROVE  k < nextID'
    OBVIOUS
  <2>1. k \in Nat /\ nextID \in Nat /\ nextID' \in Nat /\ nextID' >= nextID
    BY Numbers DEF Inv, Types, Forth
  <2>2. ~(k >= nextID)
    BY <1>1 DEF CounterInv
  <2> QED BY <2>1, <2>2
<1>3. \A k \in Keys : s.writes[k] \in RowsAt(k) =>
          /\ s.writes[k].born \in used' \cup {Seeded}
          /\ s.base[k] = committed[k].version => Follows(k, s.writes[k])
  BY <1>1 DEF WorkInv, Forth
<1>4. \A k \in Keys : s.writes[k] \in RowsAt(k) /\ s.writes[k].born \notin births =>
          /\ \A q \in Keys : s.writes[q] \in RowsAt(q)
                             /\ s.writes[q].born = s.writes[k].born => q = k
          /\ \A d \in Conns \ {c} : \A q \in Keys :
                Conn(d).writes[q] \in RowsAt(q) => Conn(d).writes[q].born # s.writes[k].born
  BY <1>1 DEF Unshared
<1> QED BY <1>1, <1>2, <1>3, <1>4 DEF WorkOK, WorkInv

LEMMA ClearWork ==
    ASSUME Inv, Forth, NEW c \in Conns, NEW s, s.writes = NoWrites, s.base = NoBase
    PROVE  WorkOK(c, s)
<1>1. \A k \in Keys : s.writes[k] = Unwritten /\ s.base[k] = 0
  BY DEF NoWrites, NoBase
<1>2. \A k \in Keys : 0 <= committed[k].version
  <2> TAKE k \in Keys
  <2>1. committed[k].version \in Nat
    BY CommittedRows DEF Inv
  <2> QED BY <2>1
<1> QED BY <1>1, <1>2, Markers DEF WorkOK

LEMMA ActiveSession ==
    ASSUME NEW s \in Session, NEW a \in BOOLEAN, NEW t, t = [s EXCEPT !.active = a]
    PROVE  t \in Session /\ t.writes = s.writes /\ t.base = s.base /\ t.active = a
BY DEF Session

LEMMA AutocommitSession ==
    ASSUME NEW s \in Session, NEW a \in BOOLEAN, NEW t, t = [s EXCEPT !.autocommit = a]
    PROVE  t \in Session /\ t.writes = s.writes /\ t.base = s.base /\ t.active = s.active
BY DEF Session

LEMMA ClearedSession ==
    ASSUME NEW s \in Session
    PROVE  /\ Cleared(s) \in Session /\ Cleared(s).writes = NoWrites /\ Cleared(s).base = NoBase
           /\ ~Cleared(s).active
<1>1. NoWrites \in [Keys -> Rows \cup {NoRow, Unwritten}]
  BY DEF NoWrites
<1>2. NoBase \in [Keys -> 0..MaxVersion]
  BY Numbers DEF NoBase
<1> QED BY <1>1, <1>2 DEF Session, Cleared

LEMMA StartedSession ==
    ASSUME Types, NEW c \in Conns
    PROVE  /\ Started(c) \in Session /\ Started(c).writes = Conn(c).writes
           /\ Started(c).base = Conn(c).base /\ Started(c).active \in BOOLEAN
           /\ ~Started(c).active => ~Conn(c).active
<1>1. Started(c) = [Conn(c) EXCEPT !.active = Conn(c).active \/ ~Conn(c).autocommit]
  BY DEF Started
<1>2. (Conn(c).active \/ ~Conn(c).autocommit) \in BOOLEAN
  BY Sessions
<1>3. Conn(c) \in Session
  BY Sessions
<1>4. PICK s : s = Conn(c)
  OBVIOUS
<1>5. PICK a : a = (Conn(c).active \/ ~Conn(c).autocommit)
  OBVIOUS
<1>6. PICK t : t = Started(c)
  OBVIOUS
<1>7. s \in Session /\ a \in BOOLEAN /\ t = [s EXCEPT !.active = a]
  BY <1>1, <1>2, <1>3, <1>4, <1>5, <1>6
<1>8. t \in Session /\ t.writes = s.writes /\ t.base = s.base /\ t.active = a
  BY <1>7, ActiveSession
<1>9. ~a => ~Conn(c).active
  BY <1>5
<1> QED BY <1>4, <1>6, <1>7, <1>8, <1>9

\* A statement that changes no row.
LEMMA OnlyStarted ==
    ASSUME Inv, Forth, NEW c \in Conns, sessions' = [sessions EXCEPT ![c] = Started(c)],
           UNCHANGED <<committed, version, births>>
    PROVE  Inv' /\ StepKeepsOthers
<1>1. Gives(c, Started(c)) /\ Started(c) \in Session
  BY NewSession, StartedSession DEF Inv
<1>2. WorkOK(c, Started(c))
  BY KeptWork, StartedSession DEF Inv
<1> QED BY <1>1, <1>2, WorkStep, StaySame

LEMMA StandStill == ASSUME Inv, UNCHANGED <<nextID, used>> PROVE Forth
BY Numbers DEF Inv, Types, Forth

-------------------------------------------------------------------------------
(* Control statements.                                                      *)

LEMMA CommitStep ==
    ASSUME Inv, NEW c \in Conns, NEW autocommit \in BOOLEAN, Commit(c, autocommit)
    PROVE  Inv' /\ StepKeepsOthers
<1> DEFINE s == Conn(c)
           new == [Cleared(s) EXCEPT !.autocommit = autocommit]
           changes == [k \in Written(s) |-> s.writes[k]]
<1>0. Forth /\ Types
  BY StandStill DEF Commit, Inv
<1>1. s \in Session
  BY <1>0, Sessions
<1>2. /\ Cleared(s) \in Session /\ Cleared(s).writes = NoWrites /\ Cleared(s).base = NoBase
  BY <1>1, ClearedSession
<1>3. CASE sessions' = [sessions EXCEPT ![c] = Cleared(s)] /\ UNCHANGED <<committed, version, births>>
  BY <1>0, <1>2, <1>3, NewSession, ClearWork, WorkStep, StaySame
<1>4. CASE /\ Committable(s) /\ version < MaxVersion /\ Install(changes)
           /\ sessions' = [sessions EXCEPT ![c] = new]
  <2>1. new \in Session /\ new.writes = NoWrites /\ new.base = NoBase
    BY <1>2, AutocommitSession
  <2>2. \A k \in Keys : new.base[k] <= committed[k].version
    <3> TAKE k \in Keys
    <3>1. new.base[k] = 0 /\ committed[k].version \in Nat
      BY <2>1, CommittedRows DEF NoBase, Inv
    <3> QED BY <3>1
  <2>3. Replaces(c, changes)
    <3> SUFFICES ASSUME NEW k \in Written(s)
                 PROVE  /\ k \in Keys /\ s.writes[k] \in RowsAt(k) \cup {NoRow}
                        /\ k \in Ids => k < nextID'
                        /\ s.writes[k] # NoRow =>
                              /\ s.writes[k].born \in used' \cup {Seeded}
                              /\ Follows(k, s.writes[k])
                              /\ \A d \in Conns \ {c} : \A q \in Keys :
                                    Conn(d).writes[q] \in RowsAt(q)
                                    /\ Conn(d).writes[q].born = s.writes[k].born
                                    => s.writes[k].born \in births
      BY DEF Replaces
    <3>1. k \in Keys /\ s.writes[k] # Unwritten /\ committed[k].version = s.base[k]
      BY <1>4 DEF Written, Committable
    <3>2. WorkOK(c, s)
      BY <1>0, KeptWork
    <3> QED BY <3>1, <3>2 DEF WorkOK
  <2>4. Valid(After(CommittedNow, changes))
    <3>1. After(CommittedNow, changes) = View(s)
      BY DEF After, CommittedNow, View, Written
    <3> QED BY <1>4, <3>1 DEF Committable
  <2> HIDE DEF changes, new
  <2> QED BY <1>0, <1>4, <2>1, <2>2, <2>3, <2>4, InstallStep
<1> QED BY <1>3, <1>4 DEF Commit

LEMMA ControlStep ==
    ASSUME Inv, NEW c \in Conns, Control(c) \/ Close(c)
    PROVE  Inv' /\ StepKeepsOthers
<1>0. Types /\ Conn(c) \in Session /\ Conn(c).autocommit \in BOOLEAN
  BY Sessions DEF Inv
<1>1. CASE Begin(c)
  <2> DEFINE s == [Conn(c) EXCEPT !.active = TRUE]
  <2>1. s \in Session /\ s.writes = Conn(c).writes /\ s.base = Conn(c).base /\ s.active
    BY <1>0, ActiveSession
  <2>2. Forth /\ Gives(c, s) /\ UNCHANGED <<committed, version, births>>
    BY <1>0, <1>1, <2>1, NewSession, StandStill DEF Begin
  <2> HIDE DEF s
  <2> QED BY <2>1, <2>2, KeptWork, WorkStep, StaySame
<1>2. CASE \E autocommit \in BOOLEAN : Commit(c, autocommit)
  BY <1>2, CommitStep
<1>3. CASE Rollback(c)
  <2>1. /\ Cleared(Conn(c)) \in Session /\ Cleared(Conn(c)).writes = NoWrites
        /\ Cleared(Conn(c)).base = NoBase
    BY <1>0, ClearedSession
  <2>2. Forth /\ Gives(c, Cleared(Conn(c))) /\ UNCHANGED <<committed, version, births>>
    BY <1>0, <1>3, <2>1, NewSession, StandStill DEF Rollback
  <2> QED BY <2>1, <2>2, ClearWork, WorkStep, StaySame
<1>4. ASSUME NEW on \in BOOLEAN, SetAutocommit(c, on)
      PROVE  Inv' /\ StepKeepsOthers
  <2>1. CASE Commit(c, TRUE)
    BY <1>2, <2>1
  <2>2. CASE /\ sessions' = [sessions EXCEPT ![c] = [Conn(c) EXCEPT !.autocommit = on]]
             /\ UNCHANGED <<committed, nextID, version, used, births>>
    <3> DEFINE s == [Conn(c) EXCEPT !.autocommit = on]
    <3>1. s \in Session /\ s.writes = Conn(c).writes /\ s.base = Conn(c).base
          /\ s.active = Conn(c).active
      BY <1>0, AutocommitSession
    <3>2. Forth /\ Gives(c, s) /\ UNCHANGED <<committed, version, births>>
      BY <1>0, <2>2, <3>1, NewSession, StandStill
    <3> HIDE DEF s
    <3> QED BY <3>1, <3>2, KeptWork, WorkStep, StaySame
  <2> QED BY <1>4, <2>1, <2>2 DEF SetAutocommit
<1>5. CASE Close(c)
  <2>1. sessions' = [sessions EXCEPT ![c] = NoSession]
        /\ UNCHANGED <<committed, version, births>> /\ Forth
    BY <1>5, StandStill DEF Close
  <2>2. Gives(c, Fresh)
    BY <1>0, <2>1 DEF Types, Gives, Conn
  <2>3. Fresh.writes = NoWrites /\ Fresh.base = NoBase
    BY DEF Fresh
  <2>4. Fresh \in Session
    <3>1. NoWrites \in [Keys -> Rows \cup {NoRow, Unwritten}]
      BY DEF NoWrites
    <3>2. NoBase \in [Keys -> 0..MaxVersion]
      BY Numbers DEF NoBase
    <3> QED BY <3>1, <3>2 DEF Fresh, Session
  <2> QED BY <2>1, <2>2, <2>3, <2>4, ClearWork, WorkStep, StaySame
<1> QED BY <1>0, <1>1, <1>2, <1>3, <1>4, <1>5 DEF Control

-------------------------------------------------------------------------------
(* Statements that write rows.                                              *)

\* What a statement writes: tombstones, the row of an INSERT of its own, or rows that
\* it has read with something added to them.
Writes(c, changes) ==
    \A k \in DOMAIN changes :
        /\ k \in Keys /\ changes[k] \in RowsAt(k) \cup {NoRow}
        /\ k \in Ids => k < nextID'
        /\ changes[k] # NoRow =>
              \/ DOMAIN changes = {k} /\ changes[k].born \in used' \ used
              \/ /\ View(Conn(c))[k] \in RowsAt(k) /\ changes[k].born = View(Conn(c))[k].born
                 /\ k \in Ids => View(Conn(c))[k].added \subseteq changes[k].added

LEMMA Unborn ==
    ASSUME Inv, Forth, NEW c \in Conns, NEW op \in used' \ used
    PROVE  /\ op \notin births /\ \A k \in Keys : committed[k].row # NoRow => committed[k].row.born # op
           /\ \A d \in Conns : \A q \in Keys : Conn(d).writes[q] \in RowsAt(q)
                                              => Conn(d).writes[q].born # op
<1>1. op \in Ops /\ op # Seeded
  BY StateAssumption DEF Forth
<1>2. op \notin births
  BY <1>1 DEF Inv, Births
<1>3. \A k \in Keys : committed[k].row # NoRow => committed[k].row.born # op
  BY <1>2, CommittedRows DEF Inv
<1>4. \A d \in Conns : \A q \in Keys : Conn(d).writes[q] \in RowsAt(q)
                                      => Conn(d).writes[q].born # op
  BY <1>1 DEF Inv, WorkInv
<1> QED BY <1>2, <1>3, <1>4

\* Outside a transaction.
LEMMA ApplyCommitted ==
    ASSUME Inv, Forth, NEW c \in Conns, NEW changes, Writes(c, changes), Apply(c, changes),
           ~Started(c).active
    PROVE  Inv' /\ StepKeepsOthers
<1> DEFINE s == Started(c)
<1>1. /\ Types /\ Births /\ CommittedInv /\ WorkInv(c)
      /\ s \in Session /\ s.writes = Conn(c).writes /\ s.base = Conn(c).base
      /\ ~Conn(c).active
  BY StartedSession DEF Inv
<1>2. s.writes = NoWrites /\ \A k \in Keys : s.base[k] <= committed[k].version
  BY <1>1 DEF WorkInv
<1>3. View(Conn(c)) = CommittedNow /\ View(s) = CommittedNow
  BY <1>1, <1>2 DEF View, CommittedNow, NoWrites
<1>4. /\ sessions' = [sessions EXCEPT ![c] = s] /\ version < MaxVersion /\ Install(changes)
      /\ Valid(After(CommittedNow, changes))
  BY <1>3 DEF Apply
<1>5. Replaces(c, changes)
  <2> SUFFICES ASSUME NEW k \in DOMAIN changes, changes[k] # NoRow
               PROVE  /\ changes[k].born \in used' \cup {Seeded}
                      /\ Follows(k, changes[k])
                      /\ \A d \in Conns \ {c} : \A q \in Keys :
                            Conn(d).writes[q] \in RowsAt(q)
                            /\ Conn(d).writes[q].born = changes[k].born
                            => changes[k].born \in births
    BY DEF Replaces, Writes
  <2>0. k \in Keys
    BY DEF Writes
  <2>1. CASE changes[k].born \in used' \ used
    BY <2>0, <2>1, Unborn DEF Follows
  <2>2. CASE /\ CommittedNow[k] \in RowsAt(k) /\ changes[k].born = CommittedNow[k].born
             /\ k \in Ids => CommittedNow[k].added \subseteq changes[k].added
    <3>1. committed[k].row = CommittedNow[k] /\ committed[k].row # NoRow
      BY <2>0, <2>2, Markers DEF CommittedNow
    <3>2. changes[k].born \in births
      BY <1>1, <2>0, <2>2, <3>1, CommittedRows
    <3>3. births \subseteq used' \cup {Seeded}
      BY <1>1 DEF Births, Forth
    <3> QED BY <2>2, <3>1, <3>2, <3>3 DEF Follows
  <2> QED BY <1>3, <2>1, <2>2 DEF Writes
<1> HIDE DEF s
<1> QED BY <1>1, <1>2, <1>4, <1>5, InstallStep

\* In a transaction.
LEMMA ApplyWorking ==
    ASSUME Inv, Forth, NEW c \in Conns, NEW changes, Writes(c, changes), Apply(c, changes),
           Started(c).active
    PROVE  Inv' /\ StepKeepsOthers
<1> DEFINE s == Started(c)
           w == After(s.writes, changes)
           b == [k \in Keys |-> IF k \in DOMAIN changes /\ s.writes[k] = Unwritten
                                THEN committed[k].version ELSE s.base[k]]
           new == [s EXCEPT !.writes = w, !.base = b]
<1>1. /\ Types /\ Births /\ CommittedInv /\ WorkInv(c) /\ Unshared
      /\ s \in Session /\ s.writes = Conn(c).writes /\ s.base = Conn(c).base /\ s.active = TRUE
      /\ WorkOK(c, Conn(c))
  BY StartedSession, KeptWork DEF Inv
<1>2. sessions' = [sessions EXCEPT ![c] = new] /\ UNCHANGED <<committed, version, births>>
  BY DEF Apply
<1>3. w \in [Keys -> Rows \cup {NoRow, Unwritten}]
  <2>1. \A k \in DOMAIN changes : changes[k] \in Rows \cup {NoRow, Unwritten}
    BY Markers DEF Writes
  <2>2. s.writes \in [Keys -> Rows \cup {NoRow, Unwritten}]
    BY <1>1 DEF Session
  <2> QED BY <2>1, <2>2 DEF After
<1>4. b \in [Keys -> 0..MaxVersion]
  <2>1. s.base \in [Keys -> 0..MaxVersion]
    BY <1>1 DEF Session
  <2> QED BY <1>1, <2>1, CommittedRows
<1>5. new \in Session /\ new.writes = w /\ new.base = b /\ new.active = TRUE
  <2> HIDE DEF w, b
  <2> QED BY <1>1, <1>3, <1>4 DEF Session
<1>6. \A k \in Keys :
         \/ k \notin DOMAIN changes /\ w[k] = Conn(c).writes[k] /\ b[k] = Conn(c).base[k]
         \/ /\ k \in DOMAIN changes /\ w[k] = changes[k] /\ Conn(c).writes[k] = Unwritten
            /\ b[k] = committed[k].version /\ View(Conn(c))[k] = committed[k].row
         \/ /\ k \in DOMAIN changes /\ w[k] = changes[k] /\ Conn(c).writes[k] # Unwritten
            /\ b[k] = Conn(c).base[k] /\ View(Conn(c))[k] = Conn(c).writes[k]
  BY <1>1 DEF After, View
<1> HIDE DEF w, b
\* Where a row of the new working set comes from.
<1>7. ASSUME NEW k \in Keys, w[k] \in RowsAt(k)
      PROVE  \/ DOMAIN changes = {k} /\ w[k].born \in used' \ used
             \/ w[k].born \in births
             \/ Conn(c).writes[k] \in RowsAt(k) /\ w[k].born = Conn(c).writes[k].born
  <2>1. CASE k \notin DOMAIN changes
    BY <1>6, <1>7, <2>1
  <2>2. CASE k \in DOMAIN changes
    <3>1. w[k] = changes[k] /\ changes[k] # NoRow
      BY <1>6, <1>7, <2>2, Markers
    <3>2. CASE View(Conn(c))[k] \in RowsAt(k) /\ changes[k].born = View(Conn(c))[k].born
      BY <1>1, <1>6, <2>2, <3>1, <3>2, CommittedRows, Markers
    <3> QED BY <2>2, <3>1, <3>2 DEF Writes
  <2> QED BY <2>1, <2>2
<1>8. ASSUME NEW k \in Keys
      PROVE  /\ b[k] <= committed[k].version
             /\ w[k] \in RowsAt(k) \cup {NoRow, Unwritten}
             /\ w[k] # Unwritten /\ k \in Ids => k < nextID'
  <2>1. committed[k].version \in Nat
    BY <1>1, CommittedRows
  <2>2. /\ Conn(c).base[k] <= committed[k].version
        /\ Conn(c).writes[k] \in RowsAt(k) \cup {NoRow, Unwritten}
        /\ Conn(c).writes[k] # Unwritten /\ k \in Ids => k < nextID'
    BY <1>1 DEF WorkOK
  <2>3. CASE k \notin DOMAIN changes
    BY <1>6, <2>2, <2>3
  <2>4. CASE k \in DOMAIN changes
    <3>1. changes[k] \in RowsAt(k) \cup {NoRow} /\ (k \in Ids => k < nextID')
      BY <2>4 DEF Writes
    <3>2. b[k] <= committed[k].version /\ w[k] = changes[k]
      BY <1>6, <2>1, <2>2, <2>4
    <3> QED BY <3>1, <3>2
  <2> QED BY <2>3, <2>4
<1>9. ASSUME NEW k \in Keys, w[k] \in RowsAt(k)
      PROVE  w[k].born \in used' \cup {Seeded}
  <2>1. births \subseteq used' \cup {Seeded}
    BY <1>1 DEF Births, Forth
  <2> QED BY <1>1, <1>7, <1>9, <2>1 DEF WorkOK
<1>10. ASSUME NEW k \in Keys, w[k] \in RowsAt(k), b[k] = committed[k].version
       PROVE  Follows(k, w[k])
  <2>1. CASE k \notin DOMAIN changes
    BY <1>1, <1>6, <1>10, <2>1 DEF WorkOK
  <2>2. CASE k \in DOMAIN changes
    <3>1. w[k] = changes[k] /\ changes[k] # NoRow
      BY <1>6, <1>10, <2>2, Markers
    <3>2. CASE changes[k].born \in used' \ used
      BY <3>1, <3>2, Unborn DEF Follows
    <3>3. CASE /\ View(Conn(c))[k] \in RowsAt(k) /\ changes[k].born = View(Conn(c))[k].born
               /\ k \in Ids => View(Conn(c))[k].added \subseteq changes[k].added
      <4>1. CASE View(Conn(c))[k] = committed[k].row
        BY <3>1, <3>3, <4>1, Markers DEF Follows
      <4>2. CASE View(Conn(c))[k] = Conn(c).writes[k] /\ b[k] = Conn(c).base[k]
        <5>1. Follows(k, Conn(c).writes[k])
          BY <1>1, <1>10, <3>3, <4>2 DEF WorkOK
        <5> QED BY <3>1, <3>3, <4>2, <5>1 DEF Follows
      <4> QED BY <1>6, <2>2, <4>1, <4>2
    <3> QED BY <2>2, <3>1, <3>2, <3>3 DEF Writes
  <2> QED BY <2>1, <2>2
<1>11. ASSUME NEW k \in Keys, w[k] \in RowsAt(k), w[k].born \notin births
       PROVE  /\ \A q \in Keys : w[q] \in RowsAt(q) /\ w[q].born = w[k].born => q = k
              /\ \A d \in Conns \ {c} : \A q \in Keys :
                    Conn(d).writes[q] \in RowsAt(q) => Conn(d).writes[q].born # w[k].born
  <2>1. CASE DOMAIN changes = {k} /\ w[k].born \in used' \ used
    <3>1. \A d \in Conns : \A q \in Keys :
             Conn(d).writes[q] \in RowsAt(q) => Conn(d).writes[q].born # w[k].born
      BY <2>1, Unborn
    <3>2. \A q \in Keys : q # k => w[q] = Conn(c).writes[q]
      BY <1>6, <2>1
    <3> QED BY <3>1, <3>2
  <2>2. CASE Conn(c).writes[k] \in RowsAt(k) /\ w[k].born = Conn(c).writes[k].born
    <3>1. \A d \in Conns \ {c} : \A q \in Keys :
             Conn(d).writes[q] \in RowsAt(q) => Conn(d).writes[q].born # w[k].born
      BY <1>1, <1>11, <2>2 DEF WorkOK
    <3>2. ASSUME NEW q \in Keys, w[q] \in RowsAt(q), w[q].born = w[k].born
          PROVE  q = k
      <4>1. w[q].born \notin used' \ used
        BY <1>11, <2>2, <3>2, Unborn
      <4>2. Conn(c).writes[q] \in RowsAt(q) /\ w[q].born = Conn(c).writes[q].born
        BY <1>7, <1>11, <3>2, <4>1
      <4> QED BY <1>1, <1>11, <2>2, <3>2, <4>2 DEF WorkOK
    <3> QED BY <3>1, <3>2
  <2> QED BY <1>7, <1>11, <2>1, <2>2
<1> HIDE DEF new
<1>12. WorkOK(c, new)
  BY <1>5, <1>8, <1>9, <1>10, <1>11 DEF WorkOK
<1>13. Gives(c, new)
  BY <1>1, <1>2, <1>5, NewSession
<1> QED BY <1>2, <1>5, <1>12, <1>13, WorkStep, StaySame

LEMMA ApplyStep ==
    ASSUME Inv, Forth, NEW c \in Conns, NEW changes, Writes(c, changes), Apply(c, changes)
    PROVE  Inv' /\ StepKeepsOthers
BY ApplyCommitted, ApplyWorking

\* What a connection can see.
LEMMA Seen ==
    ASSUME Inv, NEW c \in Conns, NEW k \in Keys
    PROVE  /\ View(Started(c)) = View(Conn(c))
           /\ View(Conn(c))[k] \in RowsAt(k) \cup {NoRow}
           /\ View(Conn(c))[k] # NoRow /\ k \in Ids => k < nextID
<1>0. Types /\ CommittedInv /\ WorkInv(c) /\ CounterInv
  BY DEF Inv
<1>1. View(Started(c)) = View(Conn(c))
  BY <1>0, StartedSession DEF View
<1>2. \/ Conn(c).writes[k] = Unwritten /\ View(Conn(c))[k] = committed[k].row
      \/ Conn(c).writes[k] # Unwritten /\ View(Conn(c))[k] = Conn(c).writes[k]
  BY DEF View
<1>3. View(Conn(c))[k] \in RowsAt(k) \cup {NoRow}
  BY <1>0, <1>2 DEF CommittedInv, WorkInv
<1>4. ASSUME View(Conn(c))[k] # NoRow, k \in Ids
      PROVE  k < nextID
  <2>1. k \in Nat /\ nextID \in Nat
    BY <1>0, <1>4, Numbers DEF Types
  <2>2. ~(k >= nextID)
    BY <1>0, <1>2, <1>4 DEF CounterInv, CommittedInv
  <2> QED BY <2>1, <2>2
<1> QED BY <1>1, <1>3, <1>4

LEMMA ItemRows ==
    ASSUME NEW op \in Ops, NEW p \in Parents, NEW u \in UniqueVals
    PROVE  /\ Item(op, p, u) \in ItemRow /\ Item(op, p, u).born = op
           /\ [born |-> op] \in ParentRow /\ [born |-> op].born = op
BY DEF Item, ItemRow, ParentRow

\* One INSERT of a row under a key.
LEMMA InsertWrites ==
    ASSUME Inv, Forth, NEW c \in Conns, NEW id \in Keys, NEW op \in Ops, NEW row \in RowsAt(id),
           row.born = op, op \notin used, used' = used \cup {op}, id \in Ids => id < nextID'
    PROVE  Writes(c, [k \in {id} |-> row])
BY DEF Writes

LEMMA InsertStep ==
    ASSUME Inv, NEW c \in Conns, NEW p \in Parents, NEW u \in UniqueVals, NEW op \in Ops,
           NEW id \in Ids, nextID' \in 1..MaxInt, nextID' >= nextID, id < nextID',
           \/ /\ op \notin used /\ used' = used \cup {op}
              /\ Apply(c, [k \in {id} |-> Item(op, p, u)])
           \/ /\ sessions' = [sessions EXCEPT ![c] = Started(c)]
              /\ UNCHANGED <<committed, version, used, births>>
    PROVE  Inv' /\ StepKeepsOthers
<1>1. Forth
  BY DEF Forth, Inv, Types
<1>2. CASE /\ sessions' = [sessions EXCEPT ![c] = Started(c)]
           /\ UNCHANGED <<committed, version, used, births>>
  BY <1>1, <1>2, OnlyStarted
<1>3. CASE /\ op \notin used /\ used' = used \cup {op}
           /\ Apply(c, [k \in {id} |-> Item(op, p, u)])
  <2>1. id \in Keys /\ Item(op, p, u) \in RowsAt(id) /\ Item(op, p, u).born = op
    BY ItemRows, Numbers DEF RowsAt
  <2>2. Writes(c, [k \in {id} |-> Item(op, p, u)])
    BY <1>1, <1>3, <2>1, InsertWrites
  <2> QED BY <1>1, <1>3, <2>2, ApplyStep
<1> QED BY <1>2, <1>3

LEMMA AddStep ==
    ASSUME Inv, NEW c \in Conns, NEW p \in Parents, NEW op \in Ops, AddWhereParent(c, p, op)
    PROVE  Inv' /\ StepKeepsOthers
<1> DEFINE rows == View(Started(c))
           hits == {i \in Items(rows) : rows[i].parent = p}
           changes == [i \in hits |-> [rows[i] EXCEPT !.added = @ \cup {op}]]
<1>1. Apply(c, changes) /\ nextID' = nextID /\ used' \in {used, used \cup {op}}
  BY DEF AddWhereParent
<1>2. Forth
  BY <1>1, Numbers DEF Forth, Inv, Types
<1>3. ASSUME NEW i \in hits
      PROVE  /\ i \in Keys /\ i \in Ids /\ i < nextID' /\ rows[i] = View(Conn(c))[i]
             /\ rows[i] \in ItemRow
  <2>1. i \in Keys /\ i \in Ids /\ rows[i] # NoRow
    BY DEF Items, Present
  <2>2. rows[i] = View(Conn(c))[i] /\ rows[i] \in RowsAt(i) /\ i < nextID
    BY <2>1, Seen
  <2> QED BY <1>1, <2>1, <2>2 DEF RowsAt
<1>4. ASSUME NEW row \in ItemRow
      PROVE  LET new == [row EXCEPT !.added = @ \cup {op}]
             IN  new \in ItemRow /\ new.born = row.born /\ row.added \subseteq new.added
  BY DEF ItemRow
<1>5. Writes(c, changes)
  <2> SUFFICES ASSUME NEW i \in hits
               PROVE  /\ i \in Keys /\ changes[i] \in RowsAt(i) \cup {NoRow}
                      /\ i \in Ids => i < nextID'
                      /\ View(Conn(c))[i] \in RowsAt(i) /\ changes[i].born = View(Conn(c))[i].born
                      /\ View(Conn(c))[i].added \subseteq changes[i].added
    BY DEF Writes
  <2>1. PICK row : row = rows[i]
    OBVIOUS
  <2>2. row \in ItemRow /\ changes[i] = [row EXCEPT !.added = @ \cup {op}]
    BY <1>3, <2>1
  <2>3. changes[i] \in ItemRow /\ changes[i].born = row.born /\ row.added \subseteq changes[i].added
    BY <1>4, <2>2
  <2> HIDE DEF changes, hits
  <2> QED BY <1>3, <2>1, <2>2, <2>3 DEF RowsAt
<1> HIDE DEF changes
<1> QED BY <1>1, <1>2, <1>5, ApplyStep

LEMMA StatementStep ==
    ASSUME Inv, NEW c \in Conns, Statement(c)
    PROVE  Inv' /\ StepKeepsOthers
<1>0. nextID \in Nat /\ nextID \in 1..MaxInt /\ MaxInt \in Nat
  BY Numbers DEF Inv, Types
<1>1. CASE Read(c)
  BY <1>1, StandStill, OnlyStarted DEF Read
<1>2. ASSUME NEW op \in Ops, NEW p \in Parents, NEW u \in UniqueVals, InsertAuto(c, p, u, op)
      PROVE  Inv' /\ StepKeepsOthers
  <2>1. nextID \in Ids /\ nextID' = nextID + 1 /\ nextID' \in 1..MaxInt
        /\ nextID' >= nextID /\ nextID < nextID'
    BY <1>0, <1>2 DEF InsertAuto, Ids
  <2> QED BY <1>2, <2>1, InsertStep DEF InsertAuto
<1>3. ASSUME NEW op \in Ops, NEW p \in Parents, NEW u \in UniqueVals, NEW id \in Ids,
             InsertExplicit(c, id, p, u, op)
      PROVE  Inv' /\ StepKeepsOthers
  <2>1. id \in Nat /\ id < MaxInt /\ id >= 1
    BY Numbers
  <2>2. nextID' = IF id >= nextID THEN id + 1 ELSE nextID
    BY <1>3 DEF InsertExplicit
  <2>3. nextID' \in 1..MaxInt /\ nextID' >= nextID /\ id < nextID'
    BY <1>0, <2>1, <2>2
  <2> QED BY <1>3, <2>3, InsertStep DEF InsertExplicit
<1>4. ASSUME NEW op \in Ops, NEW p \in Parents, InsertParent(c, p, op)
      PROVE  Inv' /\ StepKeepsOthers
  <2>1. /\ p \in Keys /\ p \notin Ids
    BY KeysAssumption DEF Keys
  <2>2. Forth
    BY <1>0, <1>4 DEF InsertParent, Forth, Inv, Types
  <2>3. [born |-> op] \in RowsAt(p) /\ [born |-> op].born = op
    BY <2>1, ItemRows DEF RowsAt, ParentRow
  <2>4. Writes(c, [k \in {p} |-> [born |-> op]])
    BY <1>4, <2>1, <2>2, <2>3, InsertWrites DEF InsertParent
  <2> QED BY <1>4, <2>2, <2>4, ApplyStep DEF InsertParent
<1>5. ASSUME NEW k \in Keys, Delete(c, k)
      PROVE  Inv' /\ StepKeepsOthers
  <2> DEFINE changes == [q \in {k} \cap Present(View(Started(c))) |-> NoRow]
  <2>1. Forth /\ Apply(c, changes) /\ nextID' = nextID
    BY <1>5, StandStill DEF Delete
  <2>2. ASSUME NEW q \in {k} \cap Present(View(Started(c)))
        PROVE  q \in Keys /\ (q \in Ids => q < nextID)
    BY Seen DEF Present
  <2>3. Writes(c, changes)
    BY <2>1, <2>2 DEF Writes
  <2> HIDE DEF changes
  <2> QED BY <2>1, <2>3, ApplyStep
<1> QED BY <1>1, <1>2, <1>3, <1>4, <1>5, AddStep DEF Statement

-------------------------------------------------------------------------------
(* The invariant, and what it gives.                                        *)

LEMMA InitInv == Init => Inv
<1> SUFFICES ASSUME Init
             PROVE  Inv
  OBVIOUS
<1>0. 0 \in 0..MaxVersion /\ 1 \in 1..MaxInt
  BY StateAssumption
<1>1. \A c \in Conns : Conn(c) = Fresh
  BY DEF Init, Conn
<1>2. \A k \in Keys :
         \/ /\ k \in InitialParents /\ k \notin Ids
            /\ committed[k] = [row |-> [born |-> Seeded], version |-> 0]
         \/ k \notin InitialParents /\ committed[k] = [row |-> NoRow, version |-> 0]
  BY KeysAssumption, StateAssumption DEF Init
<1>3. [born |-> Seeded] \in ParentRow
  BY DEF ParentRow
<1>4. \A k \in Keys : /\ committed[k] \in Record /\ committed[k].version = 0
                      /\ committed[k].row \in RowsAt(k) \cup {NoRow}
                      /\ committed[k].row # NoRow => committed[k].row.born = Seeded
                      /\ k \in Ids => committed[k].row = NoRow
  <2> SUFFICES ASSUME NEW k \in Keys
               PROVE  /\ committed[k] \in Record /\ committed[k].version = 0
                      /\ committed[k].row \in RowsAt(k) \cup {NoRow}
                      /\ committed[k].row # NoRow => committed[k].row.born = Seeded
                      /\ k \in Ids => committed[k].row = NoRow
    OBVIOUS
  <2>1. CASE /\ k \in InitialParents /\ k \notin Ids
             /\ committed[k] = [row |-> [born |-> Seeded], version |-> 0]
    BY <1>0, <1>3, <2>1 DEF Record, RowsAt, Rows
  <2>2. CASE committed[k] = [row |-> NoRow, version |-> 0]
    BY <1>0, <2>2 DEF Record
  <2> QED BY <1>2, <2>1, <2>2
<1>5. Types /\ Births
  BY <1>0, <1>4 DEF Init, Types, Births
<1>6. CommittedInv
  BY <1>0, <1>4 DEF Init, CommittedInv
<1>7. \A c \in Conns : \A k \in Keys : /\ Conn(c).writes[k] = Unwritten /\ Conn(c).base[k] = 0
                                      /\ Conn(c).writes = NoWrites
  BY <1>1 DEF Fresh, NoWrites, NoBase
<1>8. \A c \in Conns : WorkInv(c)
  <2>1. \A c \in Conns : Conn(c).writes = NoWrites
    BY <1>1 DEF Fresh
  <2> QED BY <1>4, <1>7, <2>1, Markers DEF WorkInv
<1>9. Unshared
  BY <1>7, Markers DEF Unshared
<1>10. CounterInv
  BY <1>4, <1>7, Numbers DEF CounterInv
<1>11. CommittedIsValid
  <2>1. \A i \in Ids : CommittedNow[i] = NoRow
    BY <1>4, Numbers DEF CommittedNow
  <2>2. Items(CommittedNow) = {}
    BY <2>1 DEF Items, Present
  <2> QED BY <2>2 DEF CommittedIsValid, CommittedNow, Valid, ForeignKeys, UniqueKeys
<1> QED BY <1>5, <1>6, <1>8, <1>9, <1>10, <1>11 DEF Inv

LEMMA NextInv == Inv /\ [Next]_dbVars => Inv' /\ StepKeepsOthers
<1> SUFFICES ASSUME Inv, [Next]_dbVars
             PROVE  Inv' /\ StepKeepsOthers
  OBVIOUS
<1>1. CASE UNCHANGED dbVars
  BY <1>1, StaySame DEF dbVars, Inv, Types, Births, CommittedInv, WorkInv, Follows, Unshared, CounterInv,
     CommittedIsValid, Conn
<1> QED BY <1>1, StatementStep, ControlStep DEF Next

LEMMA SpecInv == Spec => []Inv
BY InitInv, NextInv, PTL DEF Spec

LEMMA SessionOrFresh ==
    \A c \in Conns : sessions[c] # NoSession => Conn(c) = sessions[c]
BY DEF Conn

\* Every variable keeps its type; a connection outside a transaction has no working
\* set, and no write of a transaction has a version of a later commit.
THEOREM TypeCorrect == Spec => []TypeOK
<1>1. Inv => TypeOK
  <2> SUFFICES ASSUME Inv
               PROVE  TypeOK
    OBVIOUS
  <2>1. NoLeftovers
    BY SessionOrFresh DEF Inv, WorkInv, NoLeftovers
  <2>2. Types /\ Births /\ used \cup {Seeded} \subseteq Ops \cup {Seeded}
    BY DEF Inv, Types
  <2> QED BY <2>1, <2>2 DEF Types, Births, TypeOK
<1> QED BY <1>1, SpecInv, PTL

\* The committed rows satisfy the foreign keys and the unique keys, however many
\* transactions overlap: outside a transaction a statement is checked against what is
\* committed, and a commit checks its whole view again.
THEOREM ValidityCorrect == Spec => []CommittedIsValid
<1>1. Inv => CommittedIsValid
  BY DEF Inv
<1> QED BY <1>1, SpecInv, PTL

\* No key at or above the counter was ever committed or is in a working set, so that a
\* generated key collides with nothing, not even after a rollback.
THEOREM CounterCorrect == Spec => []CounterAboveKeys
<1>1. Inv => CounterAboveKeys
  BY SessionOrFresh DEF Inv, CounterInv, CounterAboveKeys
<1> QED BY <1>1, SpecInv, PTL

\* No commit loses an addition that another one has made since, and none brings back a
\* row that another one deleted.
THEOREM CommitsCorrect == Spec => CommitsKeepOthers
<1>1. Inv /\ [Next]_dbVars => [StepKeepsOthers]_dbVars
  BY NextInv
<1>2. Spec => [][StepKeepsOthers]_dbVars
  BY <1>1, SpecInv, PTL DEF Spec
<1> QED BY <1>2 DEF CommitsKeepOthers, StepKeepsOthers
=================================================================================
