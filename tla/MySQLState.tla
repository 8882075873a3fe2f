------------------------------ MODULE MySQLState ------------------------------
(***************************************************************************)
(* plugins/right/mysql-mock/state.go and transaction.go: the rows that the *)
(* connections of one environment share, and the working set of each       *)
(* connection's transaction.  s.mu makes every statement one action.       *)
(*                                                                         *)
(* The schema is the smallest that has everything the code checks: a table *)
(* of parents, and a table of items with an auto-increment key, a foreign  *)
(* key to a parent, a unique column and a quantity that statements add to. *)
(* A quantity is the set of additions applied to it, and a row remembers   *)
(* the INSERT that made it: each such statement is an op of its own.       *)
(***************************************************************************)
EXTENDS Naturals, FiniteSets

CONSTANTS
    Conns,           \* connection ids
    Parents,         \* primary keys of the parent table
    InitialParents,  \* the parents the scenario starts with
    UniqueVals,      \* values of the unique column
    Ops,             \* INSERTs and UPDATEs, each used once: bounds them too
    Seeded,          \* stands for the INSERT of a row of the scenario
    MaxInt,          \* MaxInt64: the key that cannot be allocated
    MaxQuantity,     \* the quantity no addition may exceed
    MaxVersion,      \* bound: commits
    NoRow,           \* a nil Entity: no row, or a tombstone
    Unwritten,       \* a key the transaction has not written
    NoSession

ASSUME StateAssumption ==
    /\ InitialParents \subseteq Parents
    /\ Seeded \notin Ops
    /\ MaxInt \in Nat \ {0} /\ MaxQuantity \in Nat /\ MaxVersion \in Nat

Ids == 1..(MaxInt - 1)
Keys == Parents \cup Ids

ASSUME KeysAssumption == Parents \cap Ids = {}

ParentRow == [born : Ops \cup {Seeded}]
ItemRow == [born : Ops, parent : Parents, uniq : UniqueVals, added : SUBSET Ops]
Rows == ParentRow \cup ItemRow

ASSUME MarkersAssumption ==
    /\ NoRow \notin Rows
    /\ Unwritten \notin Rows \cup {NoRow}

Record == [row : Rows \cup {NoRow}, version : 0..MaxVersion]
Session == [autocommit : BOOLEAN, active : BOOLEAN,
            writes : [Keys -> Rows \cup {NoRow, Unwritten}],
            base : [Keys -> 0..MaxVersion]]

ASSUME SessionAssumption == NoSession \notin Session

VARIABLES
    committed,  \* s.committed; a key it does not hold reads as NoRow, version 0
    sessions,   \* s.sessions
    nextID,     \* s.nextIDs of the item table
    version,    \* s.version
    used,       \* history: the ops already used
    births      \* history: the INSERTs that were committed at some time

dbVars == <<committed, sessions, nextID, version, used, births>>

NoWrites == [k \in Keys |-> Unwritten]
NoBase == [k \in Keys |-> 0]
Fresh == [autocommit |-> TRUE, active |-> FALSE, writes |-> NoWrites,
          base |-> NoBase]

Init ==
    /\ committed = [k \in Keys |->
          [row |-> IF k \in InitialParents THEN [born |-> Seeded] ELSE NoRow,
           version |-> 0]]
    /\ sessions = [c \in Conns |-> NoSession]
    /\ nextID = 1
    /\ version = 0
    /\ used = {}
    /\ births = {Seeded}

-------------------------------------------------------------------------------
\* conn() makes the session of a connection that has none.
Conn(c) == IF sessions[c] = NoSession THEN Fresh ELSE sessions[c]

\* With autocommit off a statement opens a transaction.
Started(c) == [Conn(c) EXCEPT !.active = @ \/ ~Conn(c).autocommit]

\* view(): the committed rows under the writes of the connection.
View(s) == [k \in Keys |-> IF s.writes[k] = Unwritten THEN committed[k].row
                                                       ELSE s.writes[k]]

Present(rows) == {k \in Keys : rows[k] # NoRow}
Items(rows) == Present(rows) \cap Ids

\* validateInitial().
ForeignKeys(rows) == \A i \in Items(rows) : rows[i].parent \in Present(rows)
UniqueKeys(rows) ==
    \A i, j \in Items(rows) : rows[i].uniq = rows[j].uniq => i = j
Valid(rows) == ForeignKeys(rows) /\ UniqueKeys(rows)

\* The rows after a statement changed the keys of "changes".
After(rows, changes) ==
    [k \in Keys |-> IF k \in DOMAIN changes THEN changes[k] ELSE rows[k]]

\* Rows become committed under a new version.
Install(changes) ==
    /\ version' = version + 1
    /\ committed' = [k \in Keys |->
          IF k \in DOMAIN changes
          THEN [row |-> changes[k], version |-> version + 1]
          ELSE committed[k]]
    /\ births' = births \cup {committed'[k].row.born : k \in
                     {q \in Keys : committed'[q].row # NoRow}}

\* clearTransaction().
Cleared(s) == [s EXCEPT !.active = FALSE, !.writes = NoWrites, !.base = NoBase]

-------------------------------------------------------------------------------
(* execute().                                                               *)

\* A SELECT; or a statement that fails: a constraint, a read-only session, a
\* parameter, or a context that ends before anything is applied.
Read(c) ==
    /\ sessions' = [sessions EXCEPT ![c] = Started(c)]
    /\ UNCHANGED <<committed, nextID, version, used, births>>

\* A write: into the working set, with the version of each row it touches first,
\* or committed at once.
Apply(c, changes) ==
    LET s == Started(c)
    IN  /\ Valid(After(View(s), changes))
        /\ IF s.active
           THEN /\ sessions' = [sessions EXCEPT ![c] =
                     [s EXCEPT !.writes = After(@, changes),
                               !.base = [k \in Keys |->
                                   IF k \in DOMAIN changes /\ s.writes[k] = Unwritten
                                   THEN committed[k].version ELSE @[k]]]]
                /\ UNCHANGED <<committed, version, births>>
           ELSE /\ version < MaxVersion
                /\ sessions' = [sessions EXCEPT ![c] = s]
                /\ Install(changes)

Item(op, p, u) == [born |-> op, parent |-> p, uniq |-> u, added |-> {}]

\* Mutant: an exhausted counter is spent all the same.
InsertAuto_PastTheEnd(c, p, u, op) ==
    /\ nextID' = nextID + 1
    /\ \/ /\ op \notin used
          /\ nextID \in Ids /\ View(Started(c))[nextID] = NoRow
          /\ used' = used \cup {op}
          /\ Apply(c, [k \in {nextID} |-> Item(op, p, u)])
       \/ /\ sessions' = [sessions EXCEPT ![c] = Started(c)]
          /\ UNCHANGED <<committed, version, used, births>>

\* INSERT INTO items with a generated key.  The key is spent even if the
\* statement then fails.
InsertAuto(c, p, u, op) ==
    /\ nextID < MaxInt
    /\ nextID' = nextID + 1
    /\ \/ /\ op \notin used
          /\ View(Started(c))[nextID] = NoRow
          /\ used' = used \cup {op}
          /\ Apply(c, [k \in {nextID} |-> Item(op, p, u)])
       \/ /\ sessions' = [sessions EXCEPT ![c] = Started(c)]
          /\ UNCHANGED <<committed, version, used, births>>

\* Mutant: an explicit key does not move the counter.
InsertExplicit_KeepsCounter(c, id, p, u, op) ==
    /\ UNCHANGED nextID
    /\ \/ /\ op \notin used
          /\ View(Started(c))[id] = NoRow
          /\ used' = used \cup {op}
          /\ Apply(c, [k \in {id} |-> Item(op, p, u)])
       \/ /\ sessions' = [sessions EXCEPT ![c] = Started(c)]
          /\ UNCHANGED <<committed, version, used, births>>

\* INSERT INTO items with a key of its own, which moves the counter.
InsertExplicit(c, id, p, u, op) ==
    /\ nextID' = IF id >= nextID THEN id + 1 ELSE nextID
    /\ \/ /\ op \notin used
          /\ View(Started(c))[id] = NoRow
          /\ used' = used \cup {op}
          /\ Apply(c, [k \in {id} |-> Item(op, p, u)])
       \/ /\ sessions' = [sessions EXCEPT ![c] = Started(c)]
          /\ UNCHANGED <<committed, version, used, births>>

\* INSERT INTO parents.
InsertParent(c, p, op) ==
    /\ op \notin used
    /\ View(Started(c))[p] = NoRow
    /\ used' = used \cup {op}
    /\ Apply(c, [k \in {p} |-> [born |-> op]])
    /\ UNCHANGED nextID

\* UPDATE items SET quantity = quantity + 1 WHERE parent = p; 1690 on overflow.
AddWhereParent(c, p, op) ==
    LET rows == View(Started(c))
        hits == {i \in Items(rows) : rows[i].parent = p}
    IN  /\ op \notin used
        /\ \A i \in hits : Cardinality(rows[i].added) < MaxQuantity
        /\ used' = IF hits = {} THEN used ELSE used \cup {op}
        /\ Apply(c, [i \in hits |-> [rows[i] EXCEPT !.added = @ \cup {op}]])
        /\ UNCHANGED nextID

\* DELETE FROM either table WHERE key = k.
Delete(c, k) ==
    /\ Apply(c, [q \in {k} \cap Present(View(Started(c))) |-> NoRow])
    /\ UNCHANGED <<nextID, used>>

-------------------------------------------------------------------------------
(* control().                                                               *)

Begin(c) ==
    /\ ~Conn(c).active
    /\ sessions' = [sessions EXCEPT ![c] = [Conn(c) EXCEPT !.active = TRUE]]
    /\ UNCHANGED <<committed, nextID, version, used, births>>

\* commit(), with the autocommit flag the session has afterwards if it succeeds:
\* a version that moved or a constraint that no longer holds is 1213, and the
\* working set is gone.
Written(s) == {k \in Keys : s.writes[k] # Unwritten}

\* Mutant: the constraints are not checked again.
Committable_VersionsOnly(s) ==
    \A k \in Written(s) : committed[k].version = s.base[k]

\* Mutant: the versions are not checked.
Committable_ConstraintsOnly(s) == Valid(View(s))

Committable(s) ==
    /\ \A k \in Written(s) : committed[k].version = s.base[k]
    /\ Valid(View(s))

Commit(c, autocommit) ==
    LET s == Conn(c)
    IN  /\ \/ /\ Committable(s)
              /\ version < MaxVersion
              /\ Install([k \in Written(s) |-> s.writes[k]])
              /\ sessions' = [sessions EXCEPT ![c] =
                    [Cleared(s) EXCEPT !.autocommit = autocommit]]
           \/ /\ ~Committable(s)
              /\ sessions' = [sessions EXCEPT ![c] = Cleared(s)]
              /\ UNCHANGED <<committed, version, births>>
        /\ UNCHANGED <<nextID, used>>

\* Mutant: the transaction is closed, its working set stays.
Rollback_KeepsWrites(c) ==
    /\ sessions' = [sessions EXCEPT ![c] = [Conn(c) EXCEPT !.active = FALSE]]
    /\ UNCHANGED <<committed, nextID, version, used, births>>

Rollback(c) ==
    /\ sessions' = [sessions EXCEPT ![c] = Cleared(Conn(c))]
    /\ UNCHANGED <<committed, nextID, version, used, births>>

\* SET autocommit = 1 commits what autocommit = 0 left open; if that fails the
\* flag stays 0.
SetAutocommit(c, on) ==
    IF on /\ ~Conn(c).autocommit
    THEN Commit(c, TRUE)
    ELSE /\ sessions' = [sessions EXCEPT ![c] = [Conn(c) EXCEPT !.autocommit = on]]
         /\ UNCHANGED <<committed, nextID, version, used, births>>

\* closeConnection().
Close(c) ==
    /\ sessions' = [sessions EXCEPT ![c] = NoSession]
    /\ UNCHANGED <<committed, nextID, version, used, births>>

-------------------------------------------------------------------------------
Statement(c) ==
    \/ Read(c)
    \/ \E op \in Ops, p \in Parents :
          \/ \E u \in UniqueVals :
                \/ InsertAuto(c, p, u, op)
                \/ \E id \in Ids : InsertExplicit(c, id, p, u, op)
          \/ InsertParent(c, p, op)
          \/ AddWhereParent(c, p, op)
    \/ \E k \in Keys : Delete(c, k)

Control(c) ==
    \/ Begin(c)
    \/ Commit(c, Conn(c).autocommit)
    \/ Rollback(c)
    \/ \E on \in BOOLEAN : SetAutocommit(c, on)

Next == \E c \in Conns : Statement(c) \/ Control(c) \/ Close(c)

Spec == Init /\ [][Next]_dbVars

-------------------------------------------------------------------------------
(* Properties.                                                              *)

\* A pooled connection brings nothing along: outside a transaction it has no
\* working set, and each write of a transaction has the version it started from.
NoLeftovers ==
    \A c \in Conns : sessions[c] # NoSession =>
        /\ ~sessions[c].active => sessions[c].writes = NoWrites
        /\ \A k \in Keys : sessions[c].base[k] <= committed[k].version

\* Every variable has its type.
TypeOK ==
    /\ committed \in [Keys -> Record]
    /\ sessions \in [Conns -> Session \cup {NoSession}] /\ NoLeftovers
    /\ nextID \in 1..MaxInt
    /\ version \in 0..MaxVersion
    /\ used \in SUBSET Ops
    /\ births \in SUBSET (Ops \cup {Seeded})

\* The shared rows always satisfy the foreign keys and the unique keys, though
\* each transaction checked them against a view that others have since changed.
CommittedIsValid == Valid([k \in Keys |-> committed[k].row])

\* A commit undoes nothing that others committed since: an addition stays in the
\* quantity for as long as the row lives, and a row appears by the commit of its own
\* INSERT and never a second time, so that no pending update brings back what another
\* transaction deleted.
CommitsKeepOthers ==
    [][/\ \A i \in Ids :
             LET old == committed[i].row
                 new == committed'[i].row
             IN  old # NoRow /\ new # NoRow /\ old.born = new.born
                 => old.added \subseteq new.added
       /\ \A k \in Keys :
             LET old == committed[k].row
                 new == committed'[k].row
             IN  new # NoRow /\ (old = NoRow \/ old.born # new.born)
                 => new.born \notin births]_dbVars

\* A generated key is new to everybody: the counter is above every key that was
\* ever committed and every key in a working set, rolled back ones included.
CounterAboveKeys ==
    \A i \in Ids : i >= nextID =>
        /\ committed[i].version = 0
        /\ \A c \in Conns : sessions[c] # NoSession => sessions[c].writes[i] = Unwritten
===============================================================================
