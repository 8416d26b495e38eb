------------------------------- MODULE Replica -------------------------------
(***************************************************************************)
(* The session store kept in a replica of a Turso database                 *)
(* (persistence.py): the settings are read, the replica is opened, brought *)
(* up to date and made a session store, used, synchronised when asked, and *)
(* synchronised and closed when the program leaves, by itself or with an   *)
(* exception.  Every call of the libsql SDK may fail.                      *)
(*                                                                         *)
(* The SDK is external: a synchronisation gives each side what only the    *)
(* other has, and cannot merge two schemas that were made independently.   *)
(* Another machine has made the remote schema before, or never does.       *)
(***************************************************************************)
EXTENDS Naturals

CONSTANTS
  MaxStored,    \* bound: what is written here
  MaxRemote,    \* bound: what another machine writes
  MaxRefusals   \* bound: calls of the SDK that fail

Schema == "schema"

VARIABLES
  settings,   \* what is wanted: backend, a usable url, a token, synchronise first, last, and
              \* whether memories are kept in it too
  stageOf,    \* how far the store is
  link,       \* the connection: "none", "open", "closed", or "stuck" if closing failed
  local,      \* what the replica holds, the schema included: a set
  remote,     \* what the database holds
  origin,     \* who made the replica's schema: "none", "made" here, or "shared"
  pulled,     \* the first synchronisation is done
  lastSync,   \* _sync_on_close
  isClosed,   \* _closed
  ending,     \* the exception the body of the program ended with: "none" or "body"
  reported,   \* what the user is told in the end: "none", "body" or "store"
  refusals

replicaVars == <<settings, stageOf, link, local, remote, origin, pulled, lastSync, isClosed,
                 ending, reported, refusals>>

Contents(where) == {<<where, i>> : i \in 1..(MaxStored + MaxRemote)}
Merges == ~(origin = "made" /\ <<Schema, 0>> \in remote)

ReplicaInit ==
  /\ settings \in [backend : {"sqlite", "turso", "other"}, url : BOOLEAN, token : BOOLEAN,
                 first : BOOLEAN, last : BOOLEAN, memories : BOOLEAN]
  /\ settings.backend # "turso" => settings.url /\ settings.token /\ ~settings.memories
  /\ stageOf = "settings" /\ pulled = FALSE /\ link = "none" /\ local = {} /\ origin = "none"
  /\ remote \in {{}, {<<Schema, 0>>, <<"far", 1>>}}
  /\ lastSync = settings.last /\ isClosed = FALSE /\ ending = "none" /\ reported = "none"
  /\ refusals = 0

SdkFails == refusals < MaxRefusals /\ refusals' = refusals + 1
Stay == UNCHANGED <<settings, local, remote, origin, pulled, lastSync, isClosed, ending>>

\* The outcome of closing the connection while another error is being reported.
CloseQuietly ==
  \/ link' = "closed" /\ UNCHANGED refusals
  \/ link' = "stuck" /\ SdkFails

Fail == stageOf' = "failed" /\ reported' = "store"
-----------------------------------------------------------------------------
\* open_session_store: an unknown backend, no url, an unusable one, or no token.
ReadSettings ==
  /\ stageOf = "settings"
  /\ \/ settings.backend = "other" /\ Fail
     \/ settings.backend = "turso" /\ ~(settings.url /\ settings.token) /\ Fail
     \/ settings.backend = "sqlite" /\ stageOf' = "sqlite" /\ UNCHANGED reported
     \/ /\ settings.backend = "turso" /\ settings.url /\ settings.token
        /\ stageOf' = "connecting" /\ UNCHANGED reported
  /\ Stay /\ UNCHANGED <<link, refusals>>

Connect ==
  /\ stageOf = "connecting"
  /\ \/ link' = "open" /\ stageOf' = "connected" /\ UNCHANGED <<reported, refusals>>
     \/ SdkFails /\ Fail /\ UNCHANGED link
  /\ Stay

\* A synchronisation that the SDK carries out, or does not.
Synchronised ==
  /\ Merges
  /\ local' = local \union remote /\ remote' = local \union remote
  /\ origin' = IF <<Schema, 0>> \in local \union remote THEN "shared" ELSE origin

Pull ==
  /\ stageOf = "connected" /\ settings.first /\ ~pulled
  /\ \/ /\ Synchronised /\ pulled' = TRUE
        /\ UNCHANGED <<stageOf, link, isClosed, reported, refusals>>
     \/ SdkFails /\ Fail /\ isClosed' = TRUE /\ link' = "closed"
        /\ UNCHANGED <<local, remote, origin, pulled>>
     \/ ~Merges /\ Fail /\ isClosed' = TRUE /\ CloseQuietly
        /\ UNCHANGED <<local, remote, origin, pulled>>
  /\ UNCHANGED <<settings, lastSync, ending>>

\* The remote schema is there before a local one is made.
AtAnyTime == TRUE
NothingToPull == settings.first => pulled

\* The checkpointer's tables and the store's schema, where there are none.
Initialise ==
  /\ stageOf = "connected" /\ NothingToPull
  /\ \/ /\ stageOf' = "memory" /\ local' = local \union {<<Schema, 0>>}
        /\ origin' = IF origin = "none" THEN "made" ELSE origin
        /\ UNCHANGED <<link, isClosed, reported, refusals>>
     \/ SdkFails /\ Fail /\ isClosed' = TRUE /\ link' = "closed" /\ UNCHANGED <<local, origin>>
  /\ UNCHANGED <<settings, remote, lastSync, ending, pulled>>

\* Structured memories in the same database; without them the store is closed, not synchronised.
SetUpMemory ==
  /\ stageOf = "memory"
  /\ \/ stageOf' = "ready" /\ UNCHANGED <<link, lastSync, isClosed, reported, refusals>>
     \/ /\ settings.memories /\ Fail /\ lastSync' = FALSE
        /\ CloseQuietly /\ isClosed' = (link' = "closed")
  /\ UNCHANGED <<settings, local, remote, origin, pulled, ending>>

StoreHere ==
  /\ stageOf = "ready"
  /\ \E w \in Contents("near") \ local : w[2] <= MaxStored /\ local' = local \union {w}
  /\ UNCHANGED <<settings, stageOf, link, remote, origin, pulled, lastSync, isClosed, ending,
                 reported, refusals>>

OthersWrite ==
  /\ <<Schema, 0>> \in remote
  /\ \E w \in Contents("far") \ remote : w[2] <= MaxRemote /\ remote' = remote \union {w}
  /\ UNCHANGED <<settings, stageOf, link, local, origin, pulled, lastSync, isClosed, ending,
                 reported, refusals>>

\* /sync: a failure is shown, and the session goes on.
SyncByHand ==
  /\ stageOf = "ready" /\ Synchronised
  /\ UNCHANGED <<settings, stageOf, link, pulled, lastSync, isClosed, ending, reported, refusals>>

\* The program leaves the store's block, by itself or with an exception.
Leave(how) ==
  /\ stageOf = "ready" /\ stageOf' = "leaving" /\ ending' = how
  /\ UNCHANGED <<settings, link, local, remote, origin, pulled, lastSync, isClosed, reported,
                 refusals>>

\* __exit__: an exception of the body is not replaced by one of the store.
ToldAtLast(failed) == IF ending # "none" THEN ending ELSE IF failed THEN "store" ELSE "none"

\* close: synchronised if that is wanted, and closed whether or not that worked.
CloseReplica ==
  /\ stageOf = "leaving" /\ stageOf' = "left"
  /\ \E synced \in IF lastSync THEN BOOLEAN ELSE {FALSE}, closes \in BOOLEAN :
       /\ synced => Merges
       /\ LET lost == (IF lastSync /\ ~synced /\ Merges THEN 1 ELSE 0) + (IF closes THEN 0 ELSE 1)
          IN  refusals + lost <= MaxRefusals /\ refusals' = refusals + lost
       /\ IF synced THEN Synchronised ELSE UNCHANGED <<local, remote, origin>>
       /\ link' = IF closes THEN "closed" ELSE "stuck"
       /\ isClosed' = closes
       /\ reported' = ToldAtLast((lastSync /\ ~synced) \/ ~closes)
  /\ UNCHANGED <<settings, pulled, lastSync, ending>>

ReplicaNext ==
  \/ ReadSettings \/ Connect \/ Pull \/ Initialise \/ SetUpMemory \/ StoreHere \/ OthersWrite
  \/ SyncByHand \/ CloseReplica
  \/ \E how \in {"none", "body"} : Leave(how)

ReplicaSpec == ReplicaInit /\ [][ReplicaNext]_replicaVars
-----------------------------------------------------------------------------
ReplicaTypeOK ==
  /\ link \in {"none", "open", "closed", "stuck"} /\ origin \in {"none", "shared", "made"}
  /\ lastSync \in BOOLEAN /\ isClosed \in BOOLEAN /\ reported \in {"none", "body", "store"}

\* A store that was to be synchronised at first never makes a schema of its own beside
\* the remote one (with which it could not be synchronised again).
NoRivalSchema ==
  settings.first /\ <<Schema, 0>> \in remote /\ stageOf # "failed" => Merges

\* However it ends, the connection is closed unless the SDK refused that; a program that
\* ends without a word has left nothing behind that was to be synchronised, and one that
\* ends with an exception of its own tells that one.
LeavesInOrder ==
  /\ stageOf \in {"failed", "left"} => link # "open"
  /\ stageOf = "left" /\ reported = "none" =>
       link = "closed" /\ (lastSync => local \subseteq remote)
  /\ stageOf = "left" /\ ending = "body" => reported = "body"
  /\ stageOf = "failed" => reported = "store"

ReplicaSound == NoRivalSchema /\ LeavesInOrder
=============================================================================
