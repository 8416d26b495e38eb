---------------------------- MODULE StoreOpening ----------------------------
(***************************************************************************)
(* Opening the session store (session.py): programs that share a database  *)
(* file check it, connect to it, and bring it to the present schema in one *)
(* transaction, in which the conversations of a database of the first      *)
(* version, which has checkpoints only, become entries of a ledger.  Any   *)
(* of them may be killed at any step, and a program of the old version may *)
(* still be running.                                                       *)
(*                                                                         *)
(* A connection's transaction is its own copy of the file until it is      *)
(* committed; SQLite admits one at a time and makes the others wait, for a *)
(* few seconds.  A turn and its capture are one step.                      *)
(***************************************************************************)
EXTENDS Naturals, Sequences

CONSTANTS
  Opener,       \* programs that open the file
  OldSession,   \* sessions of a database of the first version, in some order
  OldStates,    \* the states such a session may be in, see NeverUsed and Lasting
  MaxTurnsMade, \* bound: turns of programs old and new
  MaxKills      \* bound: programs killed

NoOpener == "no one"
Broken == [state |-> "broken", messages |-> 0]        \* not the form of a checkpoint
NeverUsed == [state |-> "none", messages |-> 0]          \* no checkpoint was ever written
Lasting(n) == [state |-> "kept", messages |-> n]

ASSUME NoOpenerAssumption == NoOpener \notin Opener
ASSUME OldStatesAssumption ==
  \A c \in OldStates : c \in {Broken, NeverUsed} \/ (c.messages \in Nat /\ c = Lasting(c.messages))

VARIABLES
  file,      \* what is at the path: "none", "ours", "foreign" (another's) or "link"
  db,        \* the file: its version, whether the tables are there, the checkpoints,
             \* the entries and threads (how much is captured, by session)
  copy,      \* the transaction's copy
  writer,    \* whose transaction is open
  progress,  \* by program: how far it is
  unmoved,   \* the sessions the open transaction has yet to migrate
  uncaptured,\* history: the sessions an old program wrote to after their migration
  turnsMade, kills

openingVars == <<file, db, copy, writer, progress, unmoved, uncaptured, turnsMade, kills>>

OpeningInit ==
  /\ file \in {"none", "ours", "foreign", "link"}
  /\ \E v \in {0, 2}, states \in [OldSession -> OldStates] :
       /\ file # "ours" => v = 0 /\ states = [s \in OldSession |-> NeverUsed]
       /\ db = [version |-> v, tables |-> FALSE, checkpoint |-> states,
                entries |-> [s \in OldSession |-> 0], threads |-> {},
                captured |-> [s \in OldSession |-> 0]]
  /\ copy = db /\ writer = NoOpener /\ progress = [p \in Opener |-> "idle"]
  /\ unmoved = {} /\ uncaptured = {} /\ turnsMade = 0 /\ kills = 0

Goto(p, s) == progress' = [progress EXCEPT ![p] = s]
-----------------------------------------------------------------------------
\* The file must not be a link, nor another user's; a missing one is made.
OpenFile(p) ==
  /\ progress[p] \in {"idle", "refused"}
  /\ IF file \in {"link", "foreign"} THEN Goto(p, "refused") /\ UNCHANGED file
     ELSE Goto(p, "connected") /\ file' = "ours"
  /\ UNCHANGED <<db, copy, writer, unmoved, uncaptured, turnsMade, kills>>

\* BEGIN IMMEDIATE, the version and, of an old database, the checkpoints.
BeginMigration(p) ==
  /\ progress[p] = "connected" /\ writer = NoOpener
  /\ IF db.version > 1 THEN Goto(p, "refused") /\ UNCHANGED <<copy, writer, unmoved>>
     ELSE /\ Goto(p, "begun") /\ writer' = p /\ copy' = db
          /\ unmoved' = IF db.version = 0
                        THEN {s \in OldSession : db.checkpoint[s].state # "none"} ELSE {}
  /\ UNCHANGED <<file, db, uncaptured, turnsMade, kills>>

\* SQLite gives up waiting for the others' transaction.
LockTimeout(p) ==
  /\ progress[p] = "connected" /\ writer # NoOpener
  /\ Goto(p, "refused")
  /\ UNCHANGED <<file, db, copy, writer, unmoved, uncaptured, turnsMade, kills>>

EnsureTables(p) ==
  /\ progress[p] = "begun" /\ Goto(p, "migrating")
  /\ copy' = [copy EXCEPT !.tables = TRUE]
  /\ UNCHANGED <<file, db, writer, unmoved, uncaptured, turnsMade, kills>>

\* Nothing is in the file before the transaction is committed.
AtOnce(changed) == changed
WhenCommitted(changed) == db

Migrated(s) ==
  LET n == copy.checkpoint[s].messages
  IN  [copy EXCEPT !.entries[s] = copy.entries[s] + n, !.threads = @ \union {s},
                   !.captured[s] = n]

\* _migrate_v0_to_v1, one session: its messages in a chain, a thread that has captured
\* them.  What it cannot read, or a thread that exists, takes everything back.
MigrateSession(p, s) ==
  /\ progress[p] = "migrating" /\ s \in unmoved
  /\ IF copy.checkpoint[s].state = "broken" \/ s \in copy.threads
     THEN Goto(p, "refused") /\ writer' = NoOpener /\ unmoved' = {} /\ copy' = db
          /\ UNCHANGED db
     ELSE copy' = Migrated(s) /\ unmoved' = unmoved \ {s} /\ db' = WhenCommitted(Migrated(s))
          /\ UNCHANGED <<progress, writer>>
  /\ UNCHANGED <<file, uncaptured, turnsMade, kills>>

CommitMigration(p) ==
  /\ progress[p] = "migrating" /\ unmoved = {}
  /\ Goto(p, "open") /\ writer' = NoOpener
  /\ db' = [copy EXCEPT !.version = 1] /\ copy' = db'
  /\ UNCHANGED <<file, unmoved, uncaptured, turnsMade, kills>>

CloseStore(p) ==
  /\ progress[p] = "open" /\ Goto(p, "idle")
  /\ UNCHANGED <<file, db, copy, writer, unmoved, uncaptured, turnsMade, kills>>

\* A killed program's transaction is gone.
Kill(p) ==
  /\ kills < MaxKills /\ progress[p] \notin {"idle", "refused"} /\ kills' = kills + 1
  /\ Goto(p, "idle")
  /\ writer' = IF writer = p THEN NoOpener ELSE writer
  /\ copy' = IF writer = p THEN db ELSE copy
  /\ unmoved' = IF writer = p THEN {} ELSE unmoved
  /\ UNCHANGED <<file, db, uncaptured, turnsMade>>

MayWrite == writer = NoOpener /\ turnsMade < MaxTurnsMade /\ turnsMade' = turnsMade + 1

\* A turn in a session that has a thread, and its capture: all that is not captured.
Turn(p, s) ==
  LET n == db.checkpoint[s].messages + 1 IN
  /\ MayWrite /\ progress[p] = "open" /\ s \in db.threads
  /\ db' = [db EXCEPT !.checkpoint[s] = Lasting(n),
                      !.entries[s] = @ + n - db.captured[s], !.captured[s] = n]
  /\ copy' = db' /\ uncaptured' = uncaptured \ {s}
  /\ UNCHANGED <<file, writer, progress, unmoved, kills>>

\* A turn of a program of the old version, which keeps checkpoints only.
OldTurn(s) ==
  /\ MayWrite /\ file = "ours" /\ db.checkpoint[s].state = "kept"
  /\ db' = [db EXCEPT !.checkpoint[s].messages = @ + 1] /\ copy' = db'
  /\ uncaptured' = IF s \in db.threads THEN uncaptured \union {s} ELSE uncaptured
  /\ UNCHANGED <<file, writer, progress, unmoved, kills>>

OpeningNext ==
  \/ \E p \in Opener : \/ OpenFile(p) \/ BeginMigration(p) \/ LockTimeout(p) \/ EnsureTables(p)
                       \/ CommitMigration(p) \/ CloseStore(p) \/ Kill(p)
                       \/ \E s \in OldSession : MigrateSession(p, s) \/ Turn(p, s)
  \/ \E s \in OldSession : OldTurn(s)

OpeningSpec == OpeningInit /\ [][OpeningNext]_openingVars
-----------------------------------------------------------------------------
OpeningTypeOK ==
  /\ file \in {"none", "ours", "foreign", "link"} /\ writer \in Opener \union {NoOpener}
  /\ progress \in [Opener -> {"idle", "refused", "connected", "begun", "migrating", "open"}]
  /\ unmoved \subseteq OldSession /\ uncaptured \subseteq OldSession

\* A database is of the first version with nothing of the second in it, or of the second
\* with every conversation in the ledger, each message once; so it is for every program
\* that has it open, however many migrate it at once and wherever one is killed.
OldConversationsKept ==
  /\ db.version = 0 => db.threads = {} /\ ~db.tables /\ \A s \in OldSession : db.entries[s] = 0
  /\ db.version = 1 =>
       /\ db.tables
       /\ \A s \in OldSession :
            /\ (s \in db.threads) = (db.checkpoint[s].state = "kept")
            /\ db.entries[s] = db.captured[s]
            /\ s \in db.threads \ uncaptured => db.entries[s] = db.checkpoint[s].messages
  /\ \A p \in Opener : progress[p] = "open" => db.version = 1

\* A file that is refused is left as it was.
RefusedUntouched ==
  /\ file \in {"foreign", "link"} => db.version = 0 /\ ~db.tables
  /\ (\E s \in OldSession : db.checkpoint[s].state = "broken") => db.version # 1

StoreOpensSound == OldConversationsKept /\ RefusedUntouched
=============================================================================
