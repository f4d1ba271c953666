-------------------------- MODULE SnapshotContract --------------------------
(***************************************************************************)
(* What a warehouse store promises about the snapshots of one object type, *)
(* whatever engine it sits on: the CatalogWriteStore interface             *)
(* (packages/catalog/src/catalog.store.ts).                                *)
(*                                                                         *)
(* A snapshot is open while a load writes it, committed once blessed, and  *)
(* dropped when its rows are gone and its record stays as a tombstone.     *)
(***************************************************************************)
CONSTANTS Snapshots, None

VARIABLES status,      \* [Snapshots -> {"none", "open", "committed", "dropped"}]
          served       \* the snapshot an ordinary read gets

contractVars == <<status, served>>

ContractInit ==
  /\ status = [s \in Snapshots |-> "none"]
  /\ served = None

\* The first batch, or the merge, of a load brings its record into being.
Open(s) ==
  /\ status[s] = "none"
  /\ status' = [status EXCEPT ![s] = "open"]
  /\ UNCHANGED served

\* commit, first half: the record says committed.  A tombstone never does.
Bless(s) ==
  /\ status[s] \in {"none", "open"}
  /\ status' = [status EXCEPT ![s] = "committed"]
  /\ UNCHANGED served

\* commit, second half: readers get it.  Committing an older snapshot again is
\* how a rollback is expressed, so any committed snapshot may be served.
Serve(s) ==
  /\ status[s] = "committed"
  /\ served' = s
  /\ UNCHANGED status

\* A store with transactions does both at once.
Publish(s) ==
  /\ status[s] \in {"open", "committed"}
  /\ status' = [status EXCEPT ![s] = "committed"]
  /\ served' = s

\* The served snapshot cannot be dropped.
Drop(s) ==
  /\ served # s
  /\ status[s] # "dropped"
  /\ status' = [status EXCEPT ![s] = "dropped"]
  /\ UNCHANGED served

ContractNext ==
  \E s \in Snapshots : Open(s) \/ Bless(s) \/ Serve(s) \/ Publish(s) \/ Drop(s)

ContractSpec == ContractInit /\ [][ContractNext]_contractVars
=============================================================================
