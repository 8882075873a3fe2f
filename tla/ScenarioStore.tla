----------------------------- MODULE ScenarioStore -----------------------------
(***************************************************************************)
(* internal/scenario/store.go: the versions of one scenario.  Versions are *)
(* appended under a lock and written by a rename; the document is validated*)
(* before, outside of the lock, by a process of the plugin it is for.      *)
(***************************************************************************)
EXTENDS Naturals, Sequences

CONSTANTS
    Bodies,          \* the bodies of documents
    InitialVersions  \* what the project holds at first

ASSUME StoreAssumption == InitialVersions \in Seq(Bodies)

VARIABLE versions

StoreInit == versions = InitialVersions

\* The locked part of Put.
AppendVersion(body, expected) ==
    /\ Len(versions) = expected
    /\ versions' = Append(versions, body)

\* Get.
Stored(n) == n \in 1..Len(versions)
===============================================================================
