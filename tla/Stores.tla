------------------------------- MODULE Stores -------------------------------
(***************************************************************************)
(* The sessions' store, whether it is a file that programs share           *)
(* (session.py) or the replica of a remote database (persistence.py): each *)
(* program opens one of the two, and neither touches the other's state.    *)
(***************************************************************************)
EXTENDS StoreOpening, Replica

StoresSpec == OpeningSpec /\ ReplicaSpec

\* Stores open once and whole: a database of the first version is migrated once whoever opens
\* it, and a replica is opened and given up without a leak or a silent loss (session.py 272-330,
\* persistence.py 252-448).
StoresSound == StoreOpensSound /\ ReplicaSound
=============================================================================
