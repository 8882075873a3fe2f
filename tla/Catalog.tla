-------------------------------- MODULE Catalog --------------------------------
(***************************************************************************)
(* internal/plugin/catalog/catalog.go: the versions of plugins that are    *)
(* installed in a project, and who refers to them.                         *)
(*                                                                         *)
(* Every operation runs under c.mu and a lock on catalog.lock, and writes  *)
(* catalog.json by a rename, which is atomic.  Install and Uninstall move  *)
(* a package directory before they write the index: a crash may come       *)
(* between the two, and nothing else.                                      *)
(***************************************************************************)
EXTENDS Naturals, FiniteSets

CONSTANTS
    Refs,       \* versions of plugins: role, ID and version
    Archives,   \* packages, told apart by their digest
    RefOf,      \* the version an archive says it is
    NoArchive,
    MaxInstalls \* bound: packages ever installed

ASSUME CatalogAssumption ==
    /\ RefOf \in [Archives -> Refs]
    /\ NoArchive \notin Archives
    /\ MaxInstalls \in Nat

VARIABLES
    record,     \* catalog.json: archive, enabled and active_instances
    package,    \* the package directory of a version: what it holds
    moving,     \* the operation between its rename and its index write
    installs    \* how many packages were installed

catalogVars == <<record, package, moving, installs>>

Missing == [archive |-> NoArchive, enabled |-> FALSE, active |-> 0]
NotMoving == [kind |-> "none", archive |-> NoArchive]
Moves == [kind : {"none", "install", "uninstall"}, archive : Archives \cup {NoArchive}]

CatalogInit ==
    /\ record = [ref \in Refs |-> Missing]
    /\ package = [ref \in Refs |-> NoArchive]
    /\ moving = NotMoving
    /\ installs = 0

Unlocked == moving = NotMoving
Installed(ref) == record[ref].archive # NoArchive

-------------------------------------------------------------------------------
(* Install and Uninstall.                                                   *)

\* Installing the same archive again changes nothing; another archive of the same
\* version, and a directory nobody registered, are conflicts.
Install(a) ==
    /\ Unlocked /\ installs < MaxInstalls
    /\ ~Installed(RefOf[a])
    /\ package[RefOf[a]] = NoArchive
    /\ package' = [package EXCEPT ![RefOf[a]] = a]
    /\ moving' = [kind |-> "install", archive |-> a]
    /\ installs' = installs + 1
    /\ UNCHANGED record

\* The rename fails, and with it the call, when the directory is not there.
Uninstall(ref) ==
    /\ Unlocked
    /\ Installed(ref)
    /\ record[ref].active = 0 /\ ~record[ref].enabled
    /\ package[ref] # NoArchive
    /\ package' = [package EXCEPT ![ref] = NoArchive]
    /\ moving' = [kind |-> "uninstall", archive |-> package[ref]]
    /\ UNCHANGED <<record, installs>>

Persist ==
    /\ ~Unlocked
    /\ record' = [record EXCEPT ![RefOf[moving.archive]] =
          IF moving.kind = "install" THEN [Missing EXCEPT !.archive = moving.archive]
          ELSE Missing]
    /\ moving' = NotMoving
    /\ UNCHANGED <<package, installs>>

\* Mutant: the package stays where it was moved.
PersistFails_NoUndo ==
    /\ ~Unlocked
    /\ moving' = NotMoving
    /\ UNCHANGED <<record, package, installs>>

\* The index cannot be written: the rollback moves the package back.
PersistFails ==
    /\ ~Unlocked
    /\ package' = [package EXCEPT ![RefOf[moving.archive]] =
          IF moving.kind = "install" THEN NoArchive ELSE moving.archive]
    /\ moving' = NotMoving
    /\ UNCHANGED <<record, installs>>

-------------------------------------------------------------------------------
(* Enable, Disable and references.  A failed write changes nothing.         *)

Enable(ref) ==
    /\ Unlocked
    /\ Installed(ref) /\ ~record[ref].enabled
    /\ record' = [record EXCEPT ![ref].enabled = TRUE]
    /\ UNCHANGED <<package, moving, installs>>

\* Mutant: a version in use can be disabled.
Disable_InUse(ref) ==
    /\ Unlocked
    /\ Installed(ref) /\ record[ref].enabled
    /\ record' = [record EXCEPT ![ref].enabled = FALSE]
    /\ UNCHANGED <<package, moving, installs>>

Disable(ref) ==
    /\ Unlocked
    /\ Installed(ref) /\ record[ref].enabled
    /\ record[ref].active = 0
    /\ record' = [record EXCEPT ![ref].enabled = FALSE]
    /\ UNCHANGED <<package, moving, installs>>

Acquire(ref) ==
    /\ Unlocked
    /\ Installed(ref) /\ record[ref].enabled
    /\ record' = [record EXCEPT ![ref].active = @ + 1]
    /\ UNCHANGED <<package, moving, installs>>

\* The function Acquire returned.
Release(ref) ==
    /\ Unlocked
    /\ record' = IF Installed(ref) /\ record[ref].active > 0
                 THEN [record EXCEPT ![ref].active = @ - 1] ELSE record
    /\ UNCHANGED <<package, moving, installs>>

\* A daemon that starts forgets the references of the one before.
RecoverReferences ==
    /\ Unlocked
    /\ record' = [ref \in Refs |-> [record[ref] EXCEPT !.active = 0]]
    /\ UNCHANGED <<package, moving, installs>>

\* The process that was in an operation dies.
CatalogCrash ==
    /\ moving' = NotMoving
    /\ UNCHANGED <<record, package, installs>>
===============================================================================
