------------------------------ MODULE KVStore ------------------------------
(***************************************************************************)
(* What src/leveldb/db.h promises of a DB with snapshots: a map from keys  *)
(* to values, and frozen copies of it.                                     *)
(***************************************************************************)
CONSTANTS
  Keys, Values,
  NotFound        \* what Get() returns for a key without a value

VARIABLES
  latest,         \* what Get() returns for each key
  frozen          \* what it returns through each snapshot

store == <<latest, frozen>>

Init == latest = [k \in Keys |-> NotFound] /\ frozen = [s \in {} |-> latest]

\* Put() or Delete()
Write ==
  /\ \E k \in Keys : /\ latest'[k] \in Values \cup {NotFound}
                     /\ \A j \in Keys \ {k} : latest'[j] = latest[j]
  /\ UNCHANGED frozen

GetSnapshot ==
  /\ DOMAIN frozen \subseteq DOMAIN frozen'
  /\ \A s \in DOMAIN frozen' : frozen'[s] = IF s \in DOMAIN frozen THEN frozen[s] ELSE latest
  /\ UNCHANGED latest

\* One snapshot is released, or all of them when the DB is closed.
ReleaseSnapshot ==
  /\ DOMAIN frozen' \subseteq DOMAIN frozen
  /\ \A s \in DOMAIN frozen' : frozen'[s] = frozen[s]
  /\ UNCHANGED latest

Next == Write \/ GetSnapshot \/ ReleaseSnapshot

Spec == Init /\ [][Next]_store
=============================================================================
