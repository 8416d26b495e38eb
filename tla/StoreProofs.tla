---------------------------- MODULE StoreProofs ----------------------------
(***************************************************************************)
(* The store of sessions: bringing an old database to the present schema,  *)
(* by any number of programs at once of which any may be killed, and the   *)
(* life of a replica whose every call of the SDK may fail.  Then what is   *)
(* kept beside it: memories that are edited by revision, and the rows of   *)
(* usage that the requests leave.  Then what is kept in it: the entries    *)
(* that several programs write into one session.                           *)
(***************************************************************************)
EXTENDS Stores, MemoryDocs, UsageAccounting, LedgerWriters, TLAPS

(* Opening the database. *)

Checkpoints == [state : {"broken", "none", "kept"}, messages : Nat]
Databases == [version : {0, 1, 2}, tables : BOOLEAN, checkpoint : [OldSession -> Checkpoints],
              entries : [OldSession -> Nat], threads : SUBSET OldSession,
              captured : [OldSession -> Nat]]
OpenerStages == {"idle", "refused", "connected", "begun", "migrating", "open"}

OpeningStates ==
  /\ db \in Databases /\ copy \in Databases
  /\ file \in {"none", "ours", "foreign", "link"}
  /\ progress \in [Opener -> OpenerStages]
  /\ unmoved \subseteq OldSession

\* A database nobody has begun to migrate, and one that was migrated.
Fresh(d) ==
  /\ d.threads = {} /\ ~d.tables
  /\ \A s \in OldSession : d.entries[s] = 0 /\ d.captured[s] = 0

SessionIsKept(d, s) ==
  /\ s \in d.threads <=> d.checkpoint[s].state = "kept"
  /\ d.checkpoint[s].state # "broken"
  /\ d.entries[s] = d.captured[s]
  /\ s \in d.threads \ uncaptured => d.entries[s] = d.checkpoint[s].messages

Complete(d) == d.tables /\ \A s \in OldSession : SessionIsKept(d, s)

DatabaseIsSound ==
  /\ db.version = 0 => Fresh(db)
  /\ db.version = 1 => Complete(db)
  /\ file \in {"foreign", "link"} => db.version = 0

\* A session in the open transaction: moved, all of it, or still to be moved, or never used.
SessionIsMoving(s) ==
  IF s \in copy.threads
  THEN /\ s \notin unmoved /\ copy.checkpoint[s].state = "kept"
       /\ copy.entries[s] = copy.captured[s]
       /\ copy.entries[s] = copy.checkpoint[s].messages
  ELSE /\ copy.entries[s] = 0 /\ copy.captured[s] = 0
       /\ s \in unmoved <=> copy.checkpoint[s].state # "none"

\* The transaction differs from the file in what it has moved, and only of a database of the
\* first version; nobody else writes while it is open.
TransactionIsSound ==
  /\ writer = NoOpener => copy = db /\ unmoved = {}
  /\ writer # NoOpener =>
       /\ db.version \in {0, 1} /\ copy.version = db.version
       /\ copy.checkpoint = db.checkpoint
       /\ progress[writer] = "migrating" => copy.tables
       /\ db.version = 1 => /\ unmoved = {} /\ copy.entries = db.entries
                            /\ copy.threads = db.threads /\ copy.captured = db.captured
       /\ db.version = 0 => \A s \in OldSession : SessionIsMoving(s)

\* Who is how far.
OpenersInOrder ==
  /\ writer \in Opener \union {NoOpener}
  /\ \A p \in Opener : /\ progress[p] \in {"begun", "migrating"} <=> writer = p
                       /\ progress[p] = "open" => db.version = 1
                       /\ progress[p] \notin {"idle", "refused"} => file = "ours"

OpeningInv == OpeningStates /\ DatabaseIsSound /\ TransactionIsSound /\ OpenersInOrder

LEMMA OpeningStart == OpeningInit => OpeningInv
<1> SUFFICES ASSUME OpeningInit PROVE OpeningInv OBVIOUS
<1>1. PICK v \in {0, 2}, states \in [OldSession -> OldStates] :
        /\ file # "ours" => v = 0 /\ states = [s \in OldSession |-> NeverUsed]
        /\ db = [version |-> v, tables |-> FALSE, checkpoint |-> states,
                 entries |-> [s \in OldSession |-> 0], threads |-> {},
                 captured |-> [s \in OldSession |-> 0]]
  BY DEF OpeningInit
<1>2. \A s \in OldSession : states[s] \in Checkpoints
  BY OldStatesAssumption DEF Broken, NeverUsed, Lasting, Checkpoints
<1>3. states \in [OldSession -> Checkpoints] BY <1>2
<1>4. db \in Databases BY <1>1, <1>3 DEF Databases
<1>5. OpeningStates BY <1>4 DEF OpeningInit, OpeningStates, OpenerStages
<1>6. DatabaseIsSound
 <2>1. Fresh(db) /\ db.version \in {0, 2} /\ (file # "ours" => db.version = 0)
   BY <1>1 DEF Fresh
 <2> QED BY <2>1 DEF DatabaseIsSound
<1>7. TransactionIsSound /\ OpenersInOrder
  BY NoOpenerAssumption DEF OpeningInit, TransactionIsSound, OpenersInOrder
<1> QED BY <1>5, <1>6, <1>7 DEF OpeningInv

\* The programs on their way to and from the transaction, which leave the file alone.
LEMMA ComeAndGo ==
  ASSUME OpeningInv, NEW p \in Opener,
         OpenFile(p) \/ LockTimeout(p) \/ CloseStore(p) \/ Kill(p)
  PROVE  OpeningInv'
<1>0. OpeningStates /\ DatabaseIsSound /\ TransactionIsSound /\ OpenersInOrder
  BY DEF OpeningInv
<1>1. /\ db' = db /\ uncaptured' = uncaptured
      /\ file' \in {file, "ours"} /\ (file \in {"foreign", "link"} => file' = file)
      /\ \E stage \in {"idle", "refused", "connected"} :
           /\ progress' = [progress EXCEPT ![p] = stage]
           /\ stage = "connected" => file' = "ours"
  BY <1>0 DEF OpenFile, LockTimeout, CloseStore, Kill, Goto, OpeningStates
<1>2. \/ writer # p /\ copy' = copy /\ unmoved' = unmoved /\ writer' = writer
      \/ writer = p /\ copy' = db /\ unmoved' = {} /\ writer' = NoOpener
 <2>1. CASE Kill(p) BY <2>1 DEF Kill
 <2>2. CASE OpenFile(p) \/ LockTimeout(p) \/ CloseStore(p)
   BY <1>0, <2>2 DEF OpenFile, LockTimeout, CloseStore, OpenersInOrder
 <2> QED BY <2>1, <2>2
<1>3. OpeningStates' BY <1>0, <1>1, <1>2 DEF OpeningStates, OpenerStages
<1>4. DatabaseIsSound' BY <1>0, <1>1 DEF DatabaseIsSound, Fresh, Complete, SessionIsKept
<1>5. TransactionIsSound'
 <2>1. CASE writer # p
   BY <1>0, <1>1, <1>2, <2>1
      DEF TransactionIsSound, SessionIsMoving, OpeningStates, OpenersInOrder
 <2>2. CASE writer = p BY <1>1, <1>2, <2>2, NoOpenerAssumption DEF TransactionIsSound
 <2> QED BY <2>1, <2>2
<1>6. OpenersInOrder'
  BY <1>0, <1>1, <1>2, NoOpenerAssumption DEF OpenersInOrder, OpeningStates
<1> QED BY <1>3, <1>4, <1>5, <1>6 DEF OpeningInv

LEMMA OpenBegins == ASSUME OpeningInv, NEW p \in Opener, BeginMigration(p) PROVE OpeningInv'
<1>0. OpeningStates /\ DatabaseIsSound /\ TransactionIsSound /\ OpenersInOrder
  BY DEF OpeningInv
<1>1. /\ progress[p] = "connected" /\ writer = NoOpener /\ copy = db /\ unmoved = {}
      /\ db' = db /\ uncaptured' = uncaptured /\ file' = file
  BY <1>0 DEF BeginMigration, TransactionIsSound
<1>2. DatabaseIsSound' BY <1>0, <1>1 DEF DatabaseIsSound, Fresh, Complete, SessionIsKept
<1>3. CASE db.version > 1
 <2>1. /\ progress' = [progress EXCEPT ![p] = "refused"]
       /\ copy' = copy /\ writer' = writer /\ unmoved' = unmoved
   BY <1>3 DEF BeginMigration, Goto
 <2>2. OpeningStates' /\ TransactionIsSound'
   BY <1>0, <1>1, <2>1 DEF OpeningStates, OpenerStages, TransactionIsSound
 <2>3. OpenersInOrder'
   BY <1>0, <1>1, <2>1, NoOpenerAssumption DEF OpenersInOrder, OpeningStates
 <2> QED BY <1>2, <2>2, <2>3 DEF OpeningInv
<1>4. CASE ~(db.version > 1)
 <2>1. /\ progress' = [progress EXCEPT ![p] = "begun"] /\ writer' = p /\ copy' = db
       /\ unmoved' = IF db.version = 0
                     THEN {s \in OldSession : db.checkpoint[s].state # "none"} ELSE {}
   BY <1>4 DEF BeginMigration, Goto
 <2>2. db.version \in {0, 1} BY <1>0, <1>4 DEF OpeningStates, Databases
 <2>3. OpeningStates' BY <1>0, <1>1, <2>1 DEF OpeningStates, OpenerStages
 <2>4. TransactionIsSound'
  <3>1. p # NoOpener /\ progress'[p] = "begun"
    BY <1>0, <2>1, NoOpenerAssumption DEF OpeningStates
  <3>2. db.version = 0 => \A s \in OldSession : SessionIsMoving(s)'
    BY <1>0, <2>1 DEF SessionIsMoving, DatabaseIsSound, Fresh
  <3> QED BY <1>1, <2>1, <2>2, <3>1, <3>2 DEF TransactionIsSound
 <2>5. OpenersInOrder'
   BY <1>0, <1>1, <2>1, NoOpenerAssumption DEF OpenersInOrder, OpeningStates
 <2> QED BY <1>2, <2>3, <2>4, <2>5 DEF OpeningInv
<1> QED BY <1>3, <1>4

LEMMA Ensures == ASSUME OpeningInv, NEW p \in Opener, EnsureTables(p) PROVE OpeningInv'
<1>0. OpeningStates /\ DatabaseIsSound /\ TransactionIsSound /\ OpenersInOrder
  BY DEF OpeningInv
<1>1. /\ progress[p] = "begun" /\ progress' = [progress EXCEPT ![p] = "migrating"]
      /\ copy' = [copy EXCEPT !.tables = TRUE]
      /\ db' = db /\ uncaptured' = uncaptured /\ file' = file
      /\ writer' = writer /\ unmoved' = unmoved
  BY DEF EnsureTables, Goto
<1>2. writer = p BY <1>0, <1>1 DEF OpenersInOrder
<1>3. /\ copy' \in Databases /\ copy'.tables /\ copy'.version = copy.version
      /\ copy'.checkpoint = copy.checkpoint /\ copy'.entries = copy.entries
      /\ copy'.threads = copy.threads /\ copy'.captured = copy.captured
  BY <1>0, <1>1 DEF OpeningStates, Databases
<1>4. OpeningStates' BY <1>0, <1>1, <1>3 DEF OpeningStates, OpenerStages
<1>5. DatabaseIsSound' BY <1>0, <1>1 DEF DatabaseIsSound, Fresh, Complete, SessionIsKept
<1>6. TransactionIsSound'
 <2>1. \A s \in OldSession : SessionIsMoving(s) => SessionIsMoving(s)'
   BY <1>1, <1>3 DEF SessionIsMoving
 <2>2. writer # NoOpener BY <1>2, NoOpenerAssumption
 <2> QED BY <1>0, <1>1, <1>3, <2>1, <2>2 DEF TransactionIsSound
<1>7. OpenersInOrder' BY <1>0, <1>1, <1>2 DEF OpenersInOrder, OpeningStates
<1> QED BY <1>4, <1>5, <1>6, <1>7 DEF OpeningInv

\* One session is moved, all of it; or the transaction is taken back.
LEMMA Migrates ==
  ASSUME OpeningInv, NEW p \in Opener, NEW s \in OldSession, MigrateSession(p, s)
  PROVE  OpeningInv'
<1>0. OpeningStates /\ DatabaseIsSound /\ TransactionIsSound /\ OpenersInOrder
  BY DEF OpeningInv
<1>1. /\ progress[p] = "migrating" /\ s \in unmoved
      /\ uncaptured' = uncaptured /\ file' = file
  BY DEF MigrateSession
<1>2. writer = p /\ writer # NoOpener BY <1>0, <1>1, NoOpenerAssumption DEF OpenersInOrder
<1>3. db.version = 0 /\ SessionIsMoving(s) BY <1>0, <1>1, <1>2 DEF TransactionIsSound
<1>4. copy.checkpoint[s].state # "none" /\ s \notin copy.threads
      /\ copy.entries[s] = 0 /\ copy.captured[s] = 0
  BY <1>1, <1>3 DEF SessionIsMoving
<1>5. db' = db BY DEF MigrateSession, WhenCommitted
<1>6. DatabaseIsSound'
  BY <1>0, <1>1, <1>5 DEF DatabaseIsSound, Fresh, Complete, SessionIsKept
<1>7. CASE copy.checkpoint[s].state = "broken" \/ s \in copy.threads
 <2>1. /\ progress' = [progress EXCEPT ![p] = "refused"] /\ writer' = NoOpener
       /\ unmoved' = {} /\ copy' = db
   BY <1>7 DEF MigrateSession, Goto
 <2>2. OpeningStates' /\ TransactionIsSound'
   BY <1>0, <1>1, <1>5, <2>1 DEF OpeningStates, OpenerStages, TransactionIsSound
 <2>3. OpenersInOrder'
   BY <1>0, <1>1, <1>2, <1>5, <2>1, NoOpenerAssumption DEF OpenersInOrder, OpeningStates
 <2> QED BY <1>6, <2>2, <2>3 DEF OpeningInv
<1>8. CASE ~(copy.checkpoint[s].state = "broken" \/ s \in copy.threads)
 <2> DEFINE n == copy.checkpoint[s].messages
 <2>1. /\ progress' = progress /\ writer' = writer /\ unmoved' = unmoved \ {s}
       /\ copy' = [copy EXCEPT !.entries[s] = copy.entries[s] + n, !.threads = @ \union {s},
                               !.captured[s] = n]
   BY <1>8 DEF MigrateSession, Migrated
 <2>2. copy.checkpoint[s] \in Checkpoints /\ n \in Nat
   BY <1>0 DEF OpeningStates, Databases, Checkpoints
 <2>3. copy.checkpoint[s].state = "kept" BY <1>4, <1>8, <2>2 DEF Checkpoints
 <2>4. /\ copy'.version = copy.version /\ copy'.checkpoint = copy.checkpoint
       /\ copy'.tables = copy.tables /\ copy'.threads = copy.threads \union {s}
       /\ copy'.entries = [copy.entries EXCEPT ![s] = n]
       /\ copy'.captured = [copy.captured EXCEPT ![s] = n]
       /\ copy' \in Databases
  <3>1. copy.entries[s] + n = n BY <1>4, <2>2
  <3>2. /\ copy \in Databases /\ copy.entries \in [OldSession -> Nat]
        /\ copy.captured \in [OldSession -> Nat] /\ copy.threads \subseteq OldSession
    BY <1>0 DEF OpeningStates, Databases
  <3>3. copy' = [copy EXCEPT !.entries = [copy.entries EXCEPT ![s] = n],
                             !.threads = copy.threads \union {s},
                             !.captured = [copy.captured EXCEPT ![s] = n]]
    BY <2>1, <3>1, <3>2 DEF Databases
  <3>4. /\ [copy.entries EXCEPT ![s] = n] \in [OldSession -> Nat]
        /\ [copy.captured EXCEPT ![s] = n] \in [OldSession -> Nat]
        /\ copy.threads \union {s} \in SUBSET OldSession
    BY <2>2, <3>2
  <3> QED BY <3>2, <3>3, <3>4 DEF Databases
 <2> HIDE DEF n
 <2>5. OpeningStates' BY <1>0, <1>1, <1>5, <2>1, <2>4 DEF OpeningStates
 <2>6. SessionIsMoving(s)'
   BY <1>0, <2>1, <2>2, <2>3, <2>4 DEF SessionIsMoving, OpeningStates, Databases, n
 <2>7. ASSUME NEW t \in OldSession, t # s PROVE SessionIsMoving(t)'
  <3>1. SessionIsMoving(t) BY <1>0, <1>2, <1>3 DEF TransactionIsSound
  <3>2. /\ copy'.entries[t] = copy.entries[t] /\ copy'.captured[t] = copy.captured[t]
        /\ t \in copy'.threads <=> t \in copy.threads
        /\ t \in unmoved' <=> t \in unmoved
    BY <1>0, <2>1, <2>4, <2>7 DEF OpeningStates, Databases
  <3> QED BY <2>4, <3>1, <3>2 DEF SessionIsMoving
 <2>8. TransactionIsSound'
   BY <1>0, <1>2, <1>3, <1>5, <2>1, <2>4, <2>6, <2>7 DEF TransactionIsSound
 <2>9. OpenersInOrder' BY <1>0, <1>1, <1>5, <2>1 DEF OpenersInOrder
 <2> QED BY <1>6, <2>5, <2>8, <2>9 DEF OpeningInv
<1> QED BY <1>7, <1>8

\* With nothing left to move, the transaction is a migrated database.
LEMMA Commits == ASSUME OpeningInv, NEW p \in Opener, CommitMigration(p) PROVE OpeningInv'
<1>0. OpeningStates /\ DatabaseIsSound /\ TransactionIsSound /\ OpenersInOrder
  BY DEF OpeningInv
<1>1. /\ progress[p] = "migrating" /\ unmoved = {} /\ unmoved' = unmoved
      /\ progress' = [progress EXCEPT ![p] = "open"] /\ writer' = NoOpener
      /\ db' = [copy EXCEPT !.version = 1] /\ copy' = db'
      /\ uncaptured' = uncaptured /\ file' = file
  BY DEF CommitMigration, Goto
<1>2. writer = p /\ writer # NoOpener /\ file = "ours"
  BY <1>0, <1>1, NoOpenerAssumption DEF OpenersInOrder
<1>3. /\ db' \in Databases /\ db'.version = 1 /\ db'.checkpoint = copy.checkpoint
      /\ db'.entries = copy.entries /\ db'.captured = copy.captured
      /\ db'.threads = copy.threads /\ db'.tables = copy.tables
  BY <1>0, <1>1 DEF OpeningStates, Databases
<1>4. copy.tables BY <1>0, <1>1, <1>2 DEF TransactionIsSound
<1>5. ASSUME NEW s \in OldSession PROVE SessionIsKept(db, s)'
 <2>1. CASE db.version = 0
  <3>1. SessionIsMoving(s) BY <1>0, <1>2, <2>1 DEF TransactionIsSound
  <3> QED BY <1>1, <1>3, <3>1 DEF SessionIsMoving, SessionIsKept
 <2>2. CASE db.version = 1
  <3>1. SessionIsKept(db, s) BY <1>0, <2>2 DEF DatabaseIsSound, Complete
  <3> QED BY <1>0, <1>1, <1>2, <1>3, <2>2, <3>1 DEF SessionIsKept, TransactionIsSound
 <2> QED BY <1>0, <1>2, <2>1, <2>2 DEF TransactionIsSound
<1>6. DatabaseIsSound'
  BY <1>1, <1>2, <1>3, <1>4, <1>5 DEF DatabaseIsSound, Complete, SessionIsKept
<1>7. OpeningStates' /\ TransactionIsSound'
  BY <1>0, <1>1, <1>3 DEF OpeningStates, OpenerStages, TransactionIsSound
<1>8. OpenersInOrder'
  BY <1>0, <1>1, <1>2, <1>3, NoOpenerAssumption DEF OpenersInOrder, OpeningStates
<1> QED BY <1>6, <1>7, <1>8 DEF OpeningInv

\* A turn of a program that has the store open, and of one of the old version.
LEMMA Turns ==
  ASSUME OpeningInv, NEW s \in OldSession, OldTurn(s) \/ \E p \in Opener : Turn(p, s)
  PROVE  OpeningInv'
<1>0. OpeningStates /\ DatabaseIsSound /\ TransactionIsSound /\ OpenersInOrder
  BY DEF OpeningInv
<1>1. /\ writer = NoOpener /\ copy = db /\ unmoved = {} /\ copy' = db'
      /\ writer' = writer /\ unmoved' = unmoved /\ progress' = progress /\ file' = file
  BY <1>0 DEF OldTurn, Turn, MayWrite, TransactionIsSound
<1>2. /\ db \in Databases /\ db.checkpoint \in [OldSession -> Checkpoints]
      /\ db.checkpoint[s] \in Checkpoints /\ db.checkpoint[s].messages \in Nat
      /\ db.entries \in [OldSession -> Nat] /\ db.captured \in [OldSession -> Nat]
      /\ db.entries[s] \in Nat /\ db.captured[s] \in Nat
  BY <1>0 DEF OpeningStates, Databases, Checkpoints
<1>3. TransactionIsSound' BY <1>1 DEF TransactionIsSound
<1>4. ASSUME db' \in Databases, db'.version = db.version, DatabaseIsSound' PROVE OpeningInv'
 <2>1. OpeningStates' BY <1>0, <1>1, <1>4 DEF OpeningStates
 <2>2. OpenersInOrder' BY <1>0, <1>1, <1>4 DEF OpenersInOrder
 <2> QED BY <1>3, <1>4, <2>1, <2>2 DEF OpeningInv
<1>5. CASE OldTurn(s)
 <2> DEFINE c == [db.checkpoint[s] EXCEPT !.messages = @ + 1]
 <2>1. /\ file = "ours" /\ db.checkpoint[s].state = "kept"
       /\ db' = [db EXCEPT !.checkpoint[s].messages = @ + 1]
       /\ uncaptured' = IF s \in db.threads THEN uncaptured \union {s} ELSE uncaptured
   BY <1>5 DEF OldTurn
 <2>2. c \in Checkpoints /\ c.state = "kept" BY <1>2, <2>1 DEF Checkpoints
 <2>3. db' = [db EXCEPT !.checkpoint = [db.checkpoint EXCEPT ![s] = c]] BY <2>1
 <2> HIDE DEF c
 <2>4. [db.checkpoint EXCEPT ![s] = c] \in [OldSession -> Checkpoints] BY <1>2, <2>2
 <2>5. /\ db' \in Databases /\ db'.version = db.version /\ db'.entries = db.entries
       /\ db'.captured = db.captured /\ db'.threads = db.threads /\ db'.tables = db.tables
       /\ db'.checkpoint = [db.checkpoint EXCEPT ![s] = c]
   BY <1>2, <2>3, <2>4 DEF Databases
 <2>6. ASSUME NEW t \in OldSession, SessionIsKept(db, t) PROVE SessionIsKept(db, t)'
  <3>1. CASE t = s BY <1>2, <2>1, <2>2, <2>5, <2>6, <3>1 DEF SessionIsKept
  <3>2. CASE t # s BY <1>2, <2>1, <2>5, <2>6, <3>2 DEF SessionIsKept
  <3> QED BY <3>1, <3>2
 <2>7. DatabaseIsSound'
   BY <1>0, <1>1, <2>5, <2>6 DEF DatabaseIsSound, Fresh, Complete, SessionIsKept
 <2> QED BY <1>4, <2>5, <2>7
<1>6. ASSUME NEW p \in Opener, Turn(p, s) PROVE OpeningInv'
 <2> DEFINE n == db.checkpoint[s].messages + 1
 <2>1. /\ progress[p] = "open" /\ s \in db.threads
       /\ db' = [db EXCEPT !.checkpoint[s] = Lasting(n),
                           !.entries[s] = @ + n - db.captured[s], !.captured[s] = n]
       /\ uncaptured' = uncaptured \ {s}
   BY <1>6 DEF Turn
 <2>2. db.version = 1 /\ file = "ours" /\ Complete(db)
   BY <1>0, <2>1 DEF OpenersInOrder, DatabaseIsSound
 <2>3. db.entries[s] = db.captured[s] BY <2>2 DEF Complete, SessionIsKept
 <2>4. /\ n \in Nat /\ Lasting(n) \in Checkpoints /\ Lasting(n).state = "kept"
       /\ Lasting(n).messages = n /\ db.entries[s] + n - db.captured[s] = n
   BY <1>2, <2>3 DEF Lasting, Checkpoints
 <2> HIDE DEF n
 <2>5. db' = [db EXCEPT !.checkpoint = [db.checkpoint EXCEPT ![s] = Lasting(n)],
                        !.entries = [db.entries EXCEPT ![s] = n],
                        !.captured = [db.captured EXCEPT ![s] = n]]
   BY <1>2, <2>1, <2>4 DEF Databases
 <2>6. /\ [db.checkpoint EXCEPT ![s] = Lasting(n)] \in [OldSession -> Checkpoints]
       /\ [db.entries EXCEPT ![s] = n] \in [OldSession -> Nat]
       /\ [db.captured EXCEPT ![s] = n] \in [OldSession -> Nat]
   BY <1>2, <2>4
 <2>7. /\ db' \in Databases /\ db'.version = db.version /\ db'.threads = db.threads
       /\ db'.tables = db.tables
       /\ db'.checkpoint = [db.checkpoint EXCEPT ![s] = Lasting(n)]
       /\ db'.entries = [db.entries EXCEPT ![s] = n]
       /\ db'.captured = [db.captured EXCEPT ![s] = n]
   BY <1>2, <2>5, <2>6 DEF Databases
 <2>8. ASSUME NEW t \in OldSession PROVE SessionIsKept(db, t)'
  <3>1. CASE t = s BY <1>2, <2>1, <2>4, <2>7, <3>1 DEF SessionIsKept
  <3>2. CASE t # s BY <1>2, <2>1, <2>2, <2>7, <3>2 DEF SessionIsKept, Complete
  <3> QED BY <3>1, <3>2
 <2>9. DatabaseIsSound'
   BY <1>1, <2>2, <2>7, <2>8 DEF DatabaseIsSound, Complete, SessionIsKept
 <2> QED BY <1>4, <2>7, <2>9
<1> QED BY <1>5, <1>6

LEMMA OpeningStep == OpeningInv /\ [OpeningNext]_openingVars => OpeningInv'
<1> SUFFICES ASSUME OpeningInv, [OpeningNext]_openingVars PROVE OpeningInv' OBVIOUS
<1>1. CASE UNCHANGED openingVars
  BY <1>1 DEF openingVars, OpeningInv, OpeningStates, DatabaseIsSound, TransactionIsSound,
              OpenersInOrder, Fresh, Complete, SessionIsKept, SessionIsMoving
<1> QED BY <1>1, ComeAndGo, OpenBegins, Ensures, Migrates, Commits, Turns DEF OpeningNext

\* Every program that has the store open finds a database with every old conversation in the
\* ledger, each message once, however many programs migrate it at once, wherever one of them
\* is killed and whatever an old program still writes; and a file that is refused is left as it
\* was.  (SessionStore's opening and _migrate_v0_to_v1, session.py.)
THEOREM OldStoreOpens == OpeningSpec => []StoreOpensSound
<1>1. OpeningInv => StoreOpensSound
 <2> SUFFICES ASSUME OpeningInv PROVE StoreOpensSound OBVIOUS
 <2>0. OpeningStates /\ DatabaseIsSound /\ OpenersInOrder BY DEF OpeningInv
 <2>1. db.version = 0 => Fresh(db) BY <2>0 DEF DatabaseIsSound
 <2>2. db.version = 1 => Complete(db) BY <2>0 DEF DatabaseIsSound
 <2>3. ASSUME NEW s \in OldSession, SessionIsKept(db, s)
       PROVE  /\ (s \in db.threads) = (db.checkpoint[s].state = "kept")
              /\ db.entries[s] = db.captured[s]
              /\ s \in db.threads \ uncaptured => db.entries[s] = db.checkpoint[s].messages
   BY <2>3 DEF SessionIsKept
 <2>4. OldConversationsKept
   BY <2>0, <2>1, <2>2, <2>3 DEF OldConversationsKept, Fresh, Complete, OpenersInOrder
 <2>5. RefusedUntouched
   BY <2>0, <2>1, <2>2 DEF RefusedUntouched, DatabaseIsSound, Fresh, Complete, SessionIsKept
 <2> QED BY <2>4, <2>5 DEF StoreOpensSound
<1> QED BY <1>1, OpeningStart, OpeningStep, PTL DEF OpeningSpec
-----------------------------------------------------------------------------
(* The replica. *)

\* A replica with a schema of its own has no other one to be merged with; one that was brought up
\* to date and found none may make one, since nobody makes the remote one meanwhile.
SchemaIsShared ==
  /\ origin = "none" => <<Schema, 0>> \notin local
  /\ pulled /\ origin = "none" => <<Schema, 0>> \notin remote
  /\ settings.first /\ origin = "made" => <<Schema, 0>> \notin remote

\* The connection and what the user is told, by how far the store is.
StagesInOrder ==
  /\ stageOf \in {"settings", "connecting", "sqlite", "failed", "left"} => link # "open"
  /\ stageOf = "failed" => reported = "store"
  /\ stageOf \notin {"failed", "left"} => reported = "none"
  /\ stageOf = "left" =>
       /\ ending = "body" => reported = "body"
       /\ reported = "none" => link = "closed" /\ (lastSync => local \subseteq remote)

ReplicaInv == SchemaIsShared /\ StagesInOrder

LEMMA SynchronisedFacts ==
  ASSUME SchemaIsShared, Synchronised, settings' = settings
  PROVE  /\ (origin' = "none" => <<Schema, 0>> \notin local' /\ <<Schema, 0>> \notin remote')
         /\ (settings'.first /\ origin' = "made" => <<Schema, 0>> \notin remote')
         /\ local' = remote'
<1>1. /\ local' = local \union remote /\ remote' = local \union remote
      /\ origin' = IF <<Schema, 0>> \in local \union remote THEN "shared" ELSE origin
  BY DEF Synchronised
<1>2. CASE <<Schema, 0>> \in local \union remote BY <1>1, <1>2
<1>3. CASE <<Schema, 0>> \notin local \union remote BY <1>1, <1>3
<1> QED BY <1>2, <1>3, <1>1

LEMMA ReplicaStep == ReplicaInv /\ [ReplicaNext]_replicaVars => ReplicaInv'
<1> SUFFICES ASSUME ReplicaInv, [ReplicaNext]_replicaVars PROVE ReplicaInv' OBVIOUS
<1>0. SchemaIsShared /\ StagesInOrder BY DEF ReplicaInv
<1>1. CASE ReadSettings \/ Connect
  BY <1>1 DEF ReplicaInv, SchemaIsShared, StagesInOrder, ReadSettings, Connect, Stay, Fail
<1>2. CASE Pull
 <2>1. stageOf = "connected" /\ settings' = settings /\ reported = "none"
   BY <1>0, <1>2 DEF Pull, StagesInOrder
 <2>2. CASE Synchronised /\ pulled' = TRUE /\ UNCHANGED <<stageOf, link, isClosed, reported,
                                                          refusals>>
  <3>1. SchemaIsShared' BY <1>0, <2>1, <2>2, SynchronisedFacts DEF SchemaIsShared
  <3> QED BY <2>1, <2>2, <3>1 DEF ReplicaInv, StagesInOrder
 <2>3. CASE Fail /\ link' \in {"closed", "stuck"} /\ UNCHANGED <<local, remote, origin, pulled>>
   BY <1>0, <2>1, <2>3 DEF Fail, ReplicaInv, SchemaIsShared, StagesInOrder
 <2> QED BY <1>2, <2>2, <2>3 DEF Pull, CloseQuietly
<1>3. CASE Initialise
 <2>1. /\ stageOf = "connected" /\ settings' = settings /\ remote' = remote
       /\ pulled' = pulled /\ reported = "none"
   BY <1>0, <1>3 DEF Initialise, StagesInOrder
 <2>2. CASE Fail /\ link' = "closed" /\ UNCHANGED <<local, origin>>
   BY <1>0, <2>1, <2>2 DEF Fail, ReplicaInv, SchemaIsShared, StagesInOrder
 <2>3. CASE /\ stageOf' = "memory" /\ local' = local \union {<<Schema, 0>>}
            /\ origin' = IF origin = "none" THEN "made" ELSE origin
            /\ UNCHANGED <<link, isClosed, reported, refusals>>
  <3>1. settings.first /\ origin = "none" => <<Schema, 0>> \notin remote
    BY <1>0, <1>3 DEF Initialise, NothingToPull, SchemaIsShared
  <3> QED BY <1>0, <2>1, <2>3, <3>1 DEF ReplicaInv, SchemaIsShared, StagesInOrder
 <2> QED BY <1>3, <2>2, <2>3 DEF Initialise
<1>4. CASE SetUpMemory
  BY <1>4 DEF ReplicaInv, SchemaIsShared, StagesInOrder, SetUpMemory, CloseQuietly, Fail
<1>5. CASE StoreHere
 <2>1. PICK w \in Contents("near") : local' = local \union {w} BY <1>5 DEF StoreHere
 <2>2. w # <<Schema, 0>> BY DEF Contents, Schema
 <2> QED BY <1>5, <2>1, <2>2 DEF StoreHere, ReplicaInv, SchemaIsShared, StagesInOrder
<1>6. CASE OthersWrite
 <2>1. PICK w \in Contents("far") : remote' = remote \union {w} /\ <<Schema, 0>> \in remote
   BY <1>6 DEF OthersWrite
 <2> QED BY <1>6, <2>1 DEF OthersWrite, ReplicaInv, SchemaIsShared, StagesInOrder
<1>7. CASE SyncByHand
 <2>1. /\ stageOf = "ready" /\ Synchronised
       /\ UNCHANGED <<settings, stageOf, link, pulled, lastSync, isClosed, ending, reported,
                      refusals>>
   BY <1>7 DEF SyncByHand
 <2>2. SchemaIsShared' BY <1>0, <2>1, SynchronisedFacts DEF SchemaIsShared
 <2> QED BY <1>0, <2>1, <2>2 DEF ReplicaInv, StagesInOrder
<1>8. ASSUME NEW how \in {"none", "body"}, Leave(how) PROVE ReplicaInv'
  BY <1>8 DEF Leave, ReplicaInv, SchemaIsShared, StagesInOrder
<1>9. CASE CloseReplica
 <2>1. PICK synced \in (IF lastSync THEN BOOLEAN ELSE {FALSE}), closes \in BOOLEAN :
         /\ IF synced THEN Synchronised ELSE UNCHANGED <<local, remote, origin>>
         /\ link' = IF closes THEN "closed" ELSE "stuck"
         /\ reported' = ToldAtLast((lastSync /\ ~synced) \/ ~closes)
   BY <1>9 DEF CloseReplica
 <2>2. /\ stageOf' = "left" /\ settings' = settings /\ pulled' = pulled
       /\ lastSync' = lastSync /\ ending' = ending
   BY <1>9 DEF CloseReplica
 <2>3. SchemaIsShared'
  <3>1. CASE synced BY <1>0, <2>1, <2>2, <3>1, SynchronisedFacts DEF SchemaIsShared
  <3>2. CASE ~synced BY <1>0, <2>1, <2>2, <3>2 DEF SchemaIsShared
  <3> QED BY <3>1, <3>2
 <2>4. ending = "body" => reported' = "body" BY <2>1 DEF ToldAtLast
 <2>5. reported' = "none" => ~((lastSync /\ ~synced) \/ ~closes) BY <2>1 DEF ToldAtLast
 <2>6. reported' = "none" => link' = "closed" /\ (lastSync => local' = remote')
  <3>1. synced => local' = remote' BY <1>0, <2>1, <2>2, SynchronisedFacts
  <3> QED BY <2>1, <2>5, <3>1
 <2>7. StagesInOrder' BY <2>1, <2>2, <2>4, <2>6 DEF StagesInOrder
 <2> QED BY <2>3, <2>7 DEF ReplicaInv
<1>10. CASE UNCHANGED replicaVars
  BY <1>10 DEF replicaVars, ReplicaInv, SchemaIsShared, StagesInOrder
<1> QED BY <1>1, <1>2, <1>3, <1>4, <1>5, <1>6, <1>7, <1>8, <1>9, <1>10 DEF ReplicaNext

\* A store that is to be synchronised at first never makes a schema of its own beside the remote
\* one; and whichever calls of the SDK fail, the connection is closed unless closing it failed,
\* nothing that was to be synchronised is left behind without a word, and an exception of the
\* program is the one the user is told.  (persistence.py.)
THEOREM ReplicaLeavesInOrder == ReplicaSpec => []ReplicaSound
<1>1. ReplicaInit => ReplicaInv
  BY DEF ReplicaInit, ReplicaInv, SchemaIsShared, StagesInOrder
<1>2. ReplicaInv => ReplicaSound
  BY DEF ReplicaInv, SchemaIsShared, StagesInOrder, ReplicaSound, NoRivalSchema, LeavesInOrder,
         Merges
<1> QED BY <1>1, <1>2, ReplicaStep, PTL DEF ReplicaSpec

\* Both kinds of store keep their promises, side by side.  (session.py, persistence.py.)
THEOREM StoresKeepPromises == StoresSpec => []StoresSound
BY OldStoreOpens, ReplicaLeavesInOrder, PTL DEF StoresSpec, StoresSound

-----------------------------------------------------------------------------
(* Memories: what an editor holds is what is there, or the revision is gone. *)

HeldIsCurrent ==
  \A e \in Editor : held[e] # NothingHeld =>
    LET a == held[e].at
    IN  /\ a \in Address /\ held[e].revision \in Nat /\ held[e].revision <= row[a].revision
        /\ held[e].revision = row[a].revision => held[e].content = row[a].content

MemoryTyped ==
  /\ DOMAIN row = Address /\ \A a \in Address : row[a].revision \in Nat
  /\ row = [a \in Address |-> row[a]] /\ held = [e \in Editor |-> held[e]]

MemoryInv == MemoryTyped /\ HeldIsCurrent /\ EditsBuildOnLatest

LEMMA WriteKeeps ==
  ASSUME MemoryInv, NEW e \in Editor, NEW new, new.revision = held[e].revision + 1, Writes(e, new)
  PROVE  MemoryInv'
<1> DEFINE a == held[e].at
<1>1. held[e] # NothingHeld /\ held' = [held EXCEPT ![e] = NothingHeld] BY DEF Writes
<1>2. /\ a \in Address /\ held[e].revision \in Nat /\ held[e].revision <= row[a].revision
      /\ (held[e].revision = row[a].revision => held[e].content = row[a].content)
      /\ \A b \in Address : row[b].revision \in Nat
      /\ DOMAIN row = Address /\ row = [x \in Address |-> row[x]] /\ held = [x \in Editor |-> held[x]]
  BY <1>1 DEF MemoryInv, MemoryTyped, HeldIsCurrent
<1>3. \A x \in Editor : held'[x] # NothingHeld => x # e /\ held'[x] = held[x] BY <1>1, <1>2
<1>4. CASE HasRevision(a, held[e].revision)
 <2>1. /\ row' = [row EXCEPT ![a] = new] /\ row[a].revision = held[e].revision
       /\ clobbered' = (IF row[a].content = held[e].content THEN clobbered
                          ELSE clobbered \union {row[a].content})
   BY <1>4 DEF Writes, HasRevision
 <2>2. clobbered' = {} BY <1>2, <2>1 DEF MemoryInv, EditsBuildOnLatest
 <2>3. /\ row'[a].revision = row[a].revision + 1 /\ \A b \in Address : b # a => row'[b] = row[b]
       /\ DOMAIN row' = Address /\ row' = [x \in Address |-> row'[x]]
   BY <1>2, <2>1
 <2>4. \A b \in Address : row'[b].revision \in Nat BY <1>2, <2>3
 <2>5. HeldIsCurrent'
  <3> SUFFICES ASSUME NEW x \in Editor, held'[x] # NothingHeld
               PROVE  LET b == held'[x].at
                      IN  /\ b \in Address /\ held'[x].revision \in Nat
                          /\ held'[x].revision <= row'[b].revision
                          /\ held'[x].revision = row'[b].revision => held'[x].content = row'[b].content
    BY DEF HeldIsCurrent
  <3>1. held'[x] = held[x] /\ held[x] # NothingHeld BY <1>3
  <3>2. /\ held[x].at \in Address /\ held[x].revision \in Nat
        /\ held[x].revision <= row[held[x].at].revision
        /\ (held[x].revision = row[held[x].at].revision => held[x].content = row[held[x].at].content)
    BY <3>1 DEF MemoryInv, HeldIsCurrent
  <3>3. CASE held[x].at = a BY <1>2, <2>3, <3>1, <3>2, <3>3
  <3>4. CASE held[x].at # a BY <2>3, <3>1, <3>2, <3>4
  <3> QED BY <3>3, <3>4
 <2>6. held' = [x \in Editor |-> held'[x]] BY <1>1, <1>2
 <2> QED BY <2>2, <2>3, <2>4, <2>5, <2>6 DEF MemoryInv, MemoryTyped, EditsBuildOnLatest
<1>5. CASE ~HasRevision(a, held[e].revision)
 <2>1. row' = row /\ clobbered' = clobbered BY <1>5 DEF Writes
 <2>2. held' = [x \in Editor |-> held'[x]] BY <1>1, <1>2
 <2> QED BY <1>3, <2>1, <2>2 DEF MemoryInv, MemoryTyped, HeldIsCurrent, EditsBuildOnLatest
<1> QED BY <1>4, <1>5

\* No save or delete of a memory replaces a text its author has not read, for any number of editors,
\* addresses and writes (memory_store.py 402-468, 510-540).
THEOREM MemoriesAreNotClobbered == MemorySpec => []EditsBuildOnLatest
<1>1. MemoryInit => MemoryInv
  BY DEF MemoryInit, MemoryInv, MemoryTyped, HeldIsCurrent, EditsBuildOnLatest, NoRow
<1>2. MemoryInv /\ [MemoryNext]_memoryVars => MemoryInv'
 <2> SUFFICES ASSUME MemoryInv, [MemoryNext]_memoryVars PROVE MemoryInv' OBVIOUS
 <2>1. CASE UNCHANGED memoryVars
   BY <2>1 DEF memoryVars, MemoryInv, MemoryTyped, HeldIsCurrent, EditsBuildOnLatest
 <2>2. ASSUME NEW e \in Editor, NEW a \in Address, Reads(e, a) PROVE MemoryInv'
  <3>1. /\ held' = [held EXCEPT ![e] = [at |-> a, revision |-> row[a].revision, content |-> row[a].content]]
        /\ row' = row /\ clobbered' = clobbered
        /\ held = [x \in Editor |-> held[x]] /\ row[a].revision \in Nat
    BY <2>2 DEF Reads, MemoryInv, MemoryTyped
  <3>2. /\ held'[e].at = a /\ held'[e].revision = row[a].revision /\ held'[e].content = row[a].content
        /\ \A x \in Editor : x # e => held'[x] = held[x]
        /\ held' = [x \in Editor |-> held'[x]]
    BY <3>1
  <3>3. HeldIsCurrent' BY <3>1, <3>2 DEF MemoryInv, HeldIsCurrent
  <3> QED BY <3>1, <3>2, <3>3 DEF MemoryInv, MemoryTyped, EditsBuildOnLatest
 <2>3. ASSUME NEW e \in Editor, Save(e) \/ Delete(e) PROVE MemoryInv'
   BY <2>3, WriteKeeps DEF Save, Delete, Tombstone
 <2>4. ASSUME NEW e \in Editor, Forgets(e) PROVE MemoryInv'
  <3>1. held' = [held EXCEPT ![e] = NothingHeld] /\ row' = row /\ clobbered' = clobbered
    BY <2>4 DEF Forgets
  <3>2. /\ \A x \in Editor : held'[x] # NothingHeld => held'[x] = held[x]
        /\ held' = [x \in Editor |-> held'[x]]
    BY <3>1 DEF MemoryInv, MemoryTyped
  <3> QED BY <3>1, <3>2 DEF MemoryInv, MemoryTyped, HeldIsCurrent, EditsBuildOnLatest
 <2> QED BY <2>1, <2>2, <2>3, <2>4 DEF MemoryNext
<1>3. MemoryInv => EditsBuildOnLatest BY DEF MemoryInv
<1> QED BY <1>1, <1>2, <1>3, PTL DEF MemorySpec

-----------------------------------------------------------------------------
(* Usage: the row of a request. *)

Requests == [pc : {"none", "streaming", "over"}, session : UseSession \union {0}, used : Int, counts : BOOLEAN]
Reports == {"none", "pending", "writing", "written", "told"}

UsageRows ==
  /\ request \in [Requested -> Requests]
  /\ report \in [Requested -> [Reporter -> Reports]]
  /\ DOMAIN usageRow = Requested /\ usageRow = [q \in Requested |-> usageRow[q]]
  /\ \A q \in Requested :
       /\ usageRow[q] = {} \/ (usageRow[q] = {RowOf(q)} /\ request[q].pc = "over")
       /\ \A k \in Reporter : /\ report[q][k] # "none" => request[q].pc # "none"
                              /\ report[q][k] \in {"writing", "written", "told"} => request[q].pc = "over"
                              /\ report[q][k] \in {"written", "told"} => usageRow[q] # {}

LEMMA RequestStartsKeeps ==
  ASSUME UsageRows, NEW q \in Requested, NEW s \in UseSession, NEW n \in Reporter, RequestStarts(q, s, n)
  PROVE  UsageRows'
<1>1. /\ request[q].pc = "none" /\ request' = [request EXCEPT ![q].pc = "streaming", ![q].session = s]
      /\ report' = [r \in Requested |-> [k \in Reporter |->
                  IF r = q /\ k <= n THEN "pending" ELSE report[r][k]]]
      /\ usageRow' = usageRow
  BY DEF RequestStarts
<1>2. request \in [Requested -> Requests] /\ report \in [Requested -> [Reporter -> Reports]]
  BY DEF UsageRows
<1>3. /\ request'[q].pc = "streaming" /\ request' \in [Requested -> Requests]
      /\ \A r \in Requested : r # q => request'[r] = request[r]
  BY <1>1, <1>2, ZenonT(40) DEF Requests
<1>4. /\ \A r \in Requested, k \in Reporter : (report'[r][k] = "pending" /\ r = q) \/ report'[r][k] = report[r][k]
      /\ report' \in [Requested -> [Reporter -> Reports]]
  BY <1>1, <1>2 DEF Reports
<1>5. \A k \in Reporter : report[q][k] = "none" BY <1>1, <1>2 DEF UsageRows, Reports
<1> QED BY <1>1, <1>3, <1>4, <1>5 DEF UsageRows, RowOf

LEMMA RequestEndsKeeps ==
  ASSUME UsageRows, NEW q \in Requested, NEW used \in 1 .. MaxUsed, NEW counts \in BOOLEAN,
         RequestEnds(q, used, counts)
  PROVE  UsageRows'
<1>1. /\ request[q].pc = "streaming"
      /\ request' = [request EXCEPT ![q].pc = "over", ![q].used = used, ![q].counts = counts]
      /\ report' = [r \in Requested |-> [k \in Reporter |->
                  IF r = q /\ report[r][k] = "pending" THEN "writing" ELSE report[r][k]]]
      /\ usageRow' = usageRow
  BY DEF RequestEnds
<1>2. request \in [Requested -> Requests] /\ report \in [Requested -> [Reporter -> Reports]] /\ used \in Int
  BY DEF UsageRows
<1>3. /\ request'[q].pc = "over" /\ request' \in [Requested -> Requests]
      /\ \A r \in Requested : r # q => request'[r] = request[r]
 <2>1. PICK x : x = [request[q] EXCEPT !.pc = "over", !.used = used, !.counts = counts]
   OBVIOUS
 <2>2. x \in Requests /\ x.pc = "over" BY <1>2, <2>1 DEF Requests
 <2>3. request' = [request EXCEPT ![q] = x] BY <1>1, <1>2, <2>1
 <2> QED BY <1>2, <2>2, <2>3
<1>4. /\ \A r \in Requested, k \in Reporter : (report'[r][k] = "writing" /\ r = q) \/ report'[r][k] = report[r][k]
      /\ report' \in [Requested -> [Reporter -> Reports]]
  BY <1>1, <1>2 DEF Reports
<1>5. usageRow[q] = {} /\ \A k \in Reporter : report[q][k] \notin {"writing", "written", "told"}
  BY <1>1, <1>2 DEF UsageRows
<1> QED BY <1>1, <1>3, <1>4, <1>5 DEF UsageRows, RowOf

\* A callback writes its row, or tells of it.
LEMMA ReportMovesKeeps ==
  ASSUME UsageRows, NEW q \in Requested, NEW k \in Reporter, WritesRow(q, k) \/ Tells(q, k)
  PROVE  UsageRows'
<1>1. /\ request' = request /\ report[q][k] \in {"writing", "written"}
      /\ report' = [report EXCEPT ![q][k] = IF report[q][k] = "writing" THEN "written" ELSE "told"]
      /\ \/ /\ report[q][k] = "writing"
            /\ usageRow' = [usageRow EXCEPT ![q] = IF @ = {} THEN {RowOf(q)} ELSE @]
         \/ report[q][k] = "written" /\ usageRow' = usageRow
  BY DEF WritesRow, Tells, Record
<1>2. /\ request \in [Requested -> Requests] /\ report \in [Requested -> [Reporter -> Reports]]
      /\ DOMAIN usageRow = Requested /\ usageRow = [r \in Requested |-> usageRow[r]]
      /\ request[q].pc = "over"
  BY <1>1 DEF UsageRows
<1>3. /\ report'[q][k] \in {"written", "told"} /\ report' \in [Requested -> [Reporter -> Reports]]
      /\ \A r \in Requested, j \in Reporter : (r = q /\ j = k) \/ report'[r][j] = report[r][j]
  BY <1>1, <1>2 DEF Reports
<1>4. /\ usageRow'[q] = {RowOf(q)} /\ \A r \in Requested : r # q => usageRow'[r] = usageRow[r]
      /\ DOMAIN usageRow' = Requested /\ usageRow' = [r \in Requested |-> usageRow'[r]]
  BY <1>1, <1>2 DEF UsageRows
<1>5. \A r \in Requested : RowOf(r)' = RowOf(r)
 <2>1. request' = request BY <1>1
 <2> QED BY <2>1 DEF RowOf
<1> DEFINE InRow(its, pc, req, rep) ==
             /\ its = {} \/ (its = {req} /\ pc = "over")
             /\ \A j \in Reporter : /\ rep[j] # "none" => pc # "none"
                                    /\ rep[j] \in {"writing", "written", "told"} => pc = "over"
                                    /\ rep[j] \in {"written", "told"} => its # {}
<1>6. \A r \in Requested : InRow(usageRow'[r], request[r].pc, RowOf(r), report'[r])
 <2> TAKE r \in Requested
 <2>1. InRow(usageRow[r], request[r].pc, RowOf(r), report[r]) BY DEF UsageRows
 <2>2. CASE r = q BY <1>2, <1>3, <1>4, <2>1, <2>2
 <2>3. CASE r # q
  <3>1. usageRow'[r] = usageRow[r] /\ \A j \in Reporter : report'[r][j] = report[r][j]
    BY <1>3, <1>4, <2>3
  <3> QED BY <2>1, <3>1
 <2> QED BY <2>2, <2>3
<1>7. request' = request BY <1>1
<1> QED BY <1>2, <1>3, <1>4, <1>5, <1>6, <1>7 DEF UsageRows

LEMMA UsageRowsHold == UsageSpec => []UsageRows
<1>1. UsageInit => UsageRows BY DEF UsageInit, UsageRows, Requests, Reports
<1>2. UsageRows /\ [UsageNext]_usageVars => UsageRows'
 <2> SUFFICES ASSUME UsageRows, [UsageNext]_usageVars PROVE UsageRows' OBVIOUS
 <2>1. ASSUME UNCHANGED <<request, report, usageRow>> PROVE UsageRows'
   BY <2>1 DEF UsageRows, RowOf
 <2>2. CASE UNCHANGED usageVars \/ (\E f \in Refresher : ReadsSession(f) \/ Keeps(f))
              \/ (\E f \in Occasions : Occurs(f) \/ Arrives(f)) \/ GoesBack
              \/ (\E s \in UseSession : MovesTo(s))
   BY <2>1, <2>2 DEF usageVars, userVars, ReadsSession, Keeps, Occurs, Arrives, GoesBack, MovesTo
 <2> QED BY <2>2, RequestStartsKeeps, RequestEndsKeeps, ReportMovesKeeps DEF UsageNext
<1> QED BY <1>1, <1>2, PTL DEF UsageSpec

\* However many callbacks report a request, and wherever the user is, it has one row, its own
\* session's, with what it reported (usage_store.py 67-96, 220-276).
THEOREM RequestsCountOnce == UsageSpec => []RowsAreOwn
<1>1. UsageRows => RowsAreOwn
 <2> SUFFICES ASSUME UsageRows, NEW q \in Requested, NEW k \in Reporter, report[q][k] \in {"written", "told"}
              PROVE  \E r \in usageRow[q] :
                       usageRow[q] = {r} /\ r.session = request[q].session
                         /\ (request[q].counts => r.used = request[q].used)
   BY DEF RowsAreOwn
 <2>1. usageRow[q] = {RowOf(q)} BY DEF UsageRows
 <2>2. RowOf(q).session = request[q].session /\ (request[q].counts => RowOf(q).used = request[q].used)
   BY DEF RowOf
 <2> QED BY <2>1, <2>2
<1> QED BY <1>1, UsageRowsHold, PTL

-----------------------------------------------------------------------------
(* Usage: the totals that are shown. *)

AllTold == \A q \in Requested, k \in Reporter : report[q][k] # "written"
NoneUnderWay == \A f \in Refresher : ~ UnderWay(f)

\* Of refreshes that do not overlap there is one at a time; what it has read is what is there, until
\* another row is written, and it was asked for the session the user is in, until he moves.
RefreshIsLone ==
  ~overlapped =>
    /\ \A f, g \in Refresher : UnderWay(f) /\ UnderWay(g) => f = g
    /\ \A f \in Refresher : UnderWay(f) =>
         /\ AllTold /\ refresh[f].read # Unread => refresh[f].read = SessionTotal(refresh[f].of)
         /\ cameFrom = NoParent /\ ~strayed => refresh[f].of = looking
    /\ AllTold /\ NoneUnderWay => totals.session = SessionTotal(totals.of)
    /\ NoneUnderWay /\ cameFrom = NoParent /\ ~strayed => totals.of = looking

RefreshTyped ==
  /\ refresh = [f \in Refresher |-> refresh[f]]
  /\ \A f \in Refresher : refresh[f] = [pc |-> refresh[f].pc, of |-> refresh[f].of, read |-> refresh[f].read]
  /\ overlapped \in BOOLEAN /\ strayed \in BOOLEAN

RefreshInv == RefreshTyped /\ RefreshIsLone

UserTyped == looking \in UseSession /\ cameFrom \in UseSession \union {NoParent}

\* Before anything is recorded, nothing is spent: the premise about sums that the prover lacks.
NothingSpent == SessionTotal(looking) = 0

LEMMA RefreshBegins ==
  ASSUME RefreshInv, NEW f \in Refresher, Refreshes(f, looking), looking' = looking,
         UNCHANGED <<parentOf, usageRow, totals>>
  PROVE  RefreshInv'
<1>1. /\ refresh' = [refresh EXCEPT ![f] = [NotAsked EXCEPT !.pc = "reading", !.of = looking]]
      /\ overlapped' = (\E g \in Refresher : UnderWay(g)) /\ strayed' = FALSE
  BY DEF Refreshes
<1>2. /\ refresh = [g \in Refresher |-> refresh[g]]
      /\ \A g \in Refresher : refresh[g] = [pc |-> refresh[g].pc, of |-> refresh[g].of, read |-> refresh[g].read]
  BY DEF RefreshInv, RefreshTyped
<1>3. /\ refresh'[f] = [pc |-> "reading", of |-> looking, read |-> Unread]
      /\ \A g \in Refresher : g # f => refresh'[g] = refresh[g]
      /\ refresh' = [g \in Refresher |-> refresh'[g]]
  BY <1>1, <1>2 DEF NotAsked
<1>4. RefreshTyped' BY <1>1, <1>2, <1>3 DEF RefreshInv, RefreshTyped
<1>5. RefreshIsLone'
 <2> SUFFICES ASSUME \A g \in Refresher : ~UnderWay(g)
              PROVE  /\ \A g, h \in Refresher : UnderWay(g)' /\ UnderWay(h)' => g = h
                     /\ \A g \in Refresher : UnderWay(g)' => refresh'[g].read = Unread /\ refresh'[g].of = looking'
                     /\ ~NoneUnderWay'
   BY <1>1 DEF RefreshIsLone
 <2>1. UnderWay(f)' /\ \A g \in Refresher : UnderWay(g)' => g = f BY <1>3 DEF UnderWay
 <2> QED BY <1>3, <2>1 DEF NoneUnderWay
<1> QED BY <1>4, <1>5 DEF RefreshInv

\* Neither the rows nor the refreshes change.
LEMMA RefreshRests ==
  ASSUME RefreshInv, UNCHANGED <<parentOf, usageRow, refresh, totals, overlapped>>,
         strayed' \in BOOLEAN,
         AllTold' => AllTold,
         cameFrom' = NoParent /\ ~strayed' => cameFrom = NoParent /\ ~strayed /\ looking' = looking
  PROVE  RefreshInv'
<1>1. \A s : SessionTotal(s)' = SessionTotal(s) BY DEF SessionTotal, Family
<1>2. /\ refresh' = refresh /\ totals' = totals /\ overlapped' = overlapped
      /\ usageRow' = usageRow /\ parentOf' = parentOf
  OBVIOUS
<1>3. (NoneUnderWay' <=> NoneUnderWay) /\ \A f \in Refresher : UnderWay(f)' <=> UnderWay(f)
  BY <1>2 DEF NoneUnderWay, UnderWay
<1>4. RefreshTyped' BY <1>2 DEF RefreshInv, RefreshTyped
<1>5. RefreshIsLone' BY <1>1, <1>2, <1>3 DEF RefreshInv, RefreshIsLone
<1> QED BY <1>4, <1>5 DEF RefreshInv

LEMMA RequestsRest ==
  ASSUME RefreshInv, UsageRows, NEW q \in Requested,
         \/ \E s \in UseSession, n \in Reporter : RequestStarts(q, s, n)
         \/ \E used \in 1 .. MaxUsed, counts \in BOOLEAN : RequestEnds(q, used, counts)
  PROVE  RefreshInv'
<1>1. /\ UNCHANGED <<parentOf, usageRow, refresh, totals, overlapped>>
      /\ strayed' = strayed /\ cameFrom' = cameFrom /\ looking' = looking
  BY DEF RequestStarts, RequestEnds, userVars
<1>2. report \in [Requested -> [Reporter -> Reports]] BY DEF UsageRows
<1>3. ASSUME NEW r \in Requested, NEW k \in Reporter, report[r][k] = "written"
      PROVE  report'[r][k] = "written"
 <2>1. CASE \E used \in 1 .. MaxUsed, counts \in BOOLEAN : RequestEnds(q, used, counts)
  <3>1. report' = [x \in Requested |-> [j \in Reporter |->
                    IF x = q /\ report[x][j] = "pending" THEN "writing" ELSE report[x][j]]]
    BY <2>1 DEF RequestEnds
  <3> QED BY <1>3, <3>1
 <2>2. CASE \E s \in UseSession, n \in Reporter : RequestStarts(q, s, n)
  <3>1. request[q].pc = "none" BY <2>2 DEF RequestStarts
  <3>2. r # q BY <1>3, <3>1 DEF UsageRows
  <3> QED BY <1>3, <2>2, <3>2 DEF RequestStarts
 <2> QED BY <2>1, <2>2
<1>4. AllTold' => AllTold BY <1>3 DEF AllTold
<1> QED BY <1>1, <1>4, RefreshRests DEF RefreshInv, RefreshTyped

\* A row that is written is not told of.
LEMMA WritesRowRests ==
  ASSUME RefreshInv, UsageRows, NEW q \in Requested, NEW k \in Reporter, WritesRow(q, k)
  PROVE  RefreshInv'
<1>1. /\ UNCHANGED <<parentOf, refresh, totals, overlapped>>
      /\ strayed' = strayed /\ cameFrom' = cameFrom /\ looking' = looking
      /\ report' = [report EXCEPT ![q][k] = "written"]
  BY DEF WritesRow, userVars
<1>2. report'[q][k] = "written" BY <1>1 DEF UsageRows
<1>3. ~AllTold' BY <1>2 DEF AllTold
<1>4. (NoneUnderWay' <=> NoneUnderWay) /\ \A f \in Refresher : UnderWay(f)' <=> UnderWay(f)
  BY <1>1 DEF NoneUnderWay, UnderWay
<1>5. RefreshTyped' BY <1>1 DEF RefreshInv, RefreshTyped
<1>6. RefreshIsLone' BY <1>1, <1>3, <1>4 DEF RefreshInv, RefreshIsLone
<1> QED BY <1>5, <1>6 DEF RefreshInv

LEMMA ReadsSessionKeeps ==
  ASSUME RefreshInv, NEW f \in Refresher, ReadsSession(f)
  PROVE  RefreshInv'
<1>1. /\ refresh' = [refresh EXCEPT ![f].read = SessionTotal(refresh[f].of)] /\ UnderWay(f)
      /\ UNCHANGED <<parentOf, report, usageRow, totals, overlapped, looking, cameFrom, strayed>>
  BY DEF ReadsSession, userVars
<1>2. /\ refresh = [g \in Refresher |-> refresh[g]]
      /\ \A g \in Refresher : refresh[g] = [pc |-> refresh[g].pc, of |-> refresh[g].of, read |-> refresh[g].read]
  BY DEF RefreshInv, RefreshTyped
<1>3. /\ refresh'[f] = [pc |-> refresh[f].pc, of |-> refresh[f].of, read |-> SessionTotal(refresh[f].of)]
      /\ \A g \in Refresher : g # f => refresh'[g] = refresh[g]
      /\ refresh' = [g \in Refresher |-> refresh'[g]]
  BY <1>1, <1>2
<1>4. \A s : SessionTotal(s)' = SessionTotal(s) BY <1>1 DEF SessionTotal, Family
<1>5. \A g \in Refresher : (UnderWay(g)' <=> UnderWay(g)) /\ refresh'[g].of = refresh[g].of
  BY <1>3 DEF UnderWay
<1>6. (NoneUnderWay' <=> NoneUnderWay) /\ (AllTold' <=> AllTold)
  BY <1>1, <1>5 DEF NoneUnderWay, AllTold
<1>7. RefreshTyped' BY <1>1, <1>2, <1>3 DEF RefreshInv, RefreshTyped
<1>8. \A g \in Refresher : UnderWay(g)' /\ ~overlapped /\ AllTold /\ refresh'[g].read # Unread =>
        refresh'[g].read = SessionTotal(refresh'[g].of)
  BY <1>3, <1>5 DEF RefreshInv, RefreshIsLone
<1>9. RefreshIsLone' BY <1>1, <1>4, <1>5, <1>6, <1>8 DEF RefreshInv, RefreshIsLone
<1> QED BY <1>7, <1>9 DEF RefreshInv

LEMMA KeepsKeeps ==
  ASSUME RefreshInv, NEW f \in Refresher, Keeps(f)
  PROVE  RefreshInv'
<1>1. /\ refresh' = [refresh EXCEPT ![f] = [NotAsked EXCEPT !.pc = "kept"]] /\ UnderWay(f)
      /\ totals' = [session |-> refresh[f].read, of |-> refresh[f].of] /\ refresh[f].read # Unread
      /\ UNCHANGED <<parentOf, report, usageRow, overlapped, looking, cameFrom, strayed>>
  BY DEF Keeps, userVars
<1>2. /\ refresh = [g \in Refresher |-> refresh[g]]
      /\ \A g \in Refresher : refresh[g] = [pc |-> refresh[g].pc, of |-> refresh[g].of, read |-> refresh[g].read]
  BY DEF RefreshInv, RefreshTyped
<1>3. /\ refresh'[f] = [pc |-> "kept", of |-> 0, read |-> Unread]
      /\ \A g \in Refresher : g # f => refresh'[g] = refresh[g]
      /\ refresh' = [g \in Refresher |-> refresh'[g]]
  BY <1>1, <1>2 DEF NotAsked
<1>4. \A s : SessionTotal(s)' = SessionTotal(s) BY <1>1 DEF SessionTotal, Family
<1>5. ~UnderWay(f)' /\ \A g \in Refresher : g # f => (UnderWay(g)' <=> UnderWay(g))
  BY <1>3 DEF UnderWay
<1>6. AllTold' <=> AllTold BY <1>1 DEF AllTold
<1>7. RefreshTyped' BY <1>1, <1>2, <1>3 DEF RefreshInv, RefreshTyped
<1>8. RefreshIsLone'
 <2> SUFFICES ASSUME ~overlapped
              PROVE  /\ NoneUnderWay'
                     /\ AllTold => totals'.session = SessionTotal(totals'.of)
                     /\ cameFrom = NoParent /\ ~strayed => totals'.of = looking
   BY <1>1, <1>4, <1>6 DEF RefreshIsLone, NoneUnderWay
 <2>1. NoneUnderWay' BY <1>1, <1>5 DEF NoneUnderWay, RefreshInv, RefreshIsLone
 <2>2. totals'.session = refresh[f].read /\ totals'.of = refresh[f].of BY <1>1
 <2> QED BY <1>1, <2>1, <2>2 DEF RefreshInv, RefreshIsLone
<1> QED BY <1>7, <1>8 DEF RefreshInv

LEMMA UserMovesRest ==
  ASSUME RefreshInv, GoesBack \/ (\E s \in UseSession : MovesTo(s)) \/ UNCHANGED usageVars, UserTyped
  PROVE  RefreshInv'
<1>1. /\ UNCHANGED <<parentOf, report, usageRow, refresh, totals, overlapped>> /\ strayed' \in BOOLEAN
      /\ (cameFrom' = NoParent /\ ~strayed' => cameFrom = NoParent /\ ~strayed /\ looking' = looking)
 <2>1. strayed \in BOOLEAN /\ looking # NoParent
   BY UseSessionAssumption DEF RefreshInv, RefreshTyped, UserTyped, NoParent
 <2>2. CASE GoesBack BY <2>2 DEF GoesBack
 <2>3. CASE \E s \in UseSession : MovesTo(s) BY <2>1, <2>3 DEF MovesTo
 <2>4. CASE UNCHANGED usageVars BY <2>1, <2>4 DEF usageVars, userVars
 <2> QED BY <2>2, <2>3, <2>4
<1>2. AllTold' => AllTold BY <1>1 DEF AllTold
<1> QED BY <1>1, <1>2, RefreshRests

LEMMA TellsKeeps ==
  ASSUME RefreshInv
  PROVE  /\ \A q \in Requested, k \in Reporter : Tells(q, k) => RefreshInv'
         /\ \A f \in Occasions : Occurs(f) \/ Arrives(f) => RefreshInv'
<1>1. \A q \in Requested, k \in Reporter : <<q, k>> \in Refresher BY DEF Refresher
<1>2. Occasions \subseteq Refresher BY DEF Refresher
<1> QED BY <1>1, <1>2, RefreshBegins DEF Tells, Occurs, Arrives

\* Once every row is told of, a refresh that nothing overlapped has left the totals of the store, and
\* those of the session the user is in, for any number of requests, callbacks and moves
\* (builtin/usage.py 18-29).
THEOREM LoneRefreshTells == UsageSpec /\ NothingSpent => []LoneRefreshCatchesUp
<1> DEFINE Inv == RefreshInv /\ UserTyped
<1>1. UsageInit /\ NothingSpent => Inv
 <2> SUFFICES ASSUME UsageInit, NothingSpent PROVE Inv OBVIOUS
 <2>1. \A f \in Refresher : refresh[f] = NotAsked /\ refresh[f].pc = "none" /\ ~UnderWay(f)
   BY DEF UsageInit, NotAsked, UnderWay
 <2>2. RefreshTyped BY <2>1 DEF UsageInit, RefreshTyped, NotAsked
 <2>3. looking = 1 /\ cameFrom = NoParent /\ totals.session = 0 /\ totals.of = 1
   BY DEF UsageInit
 <2>4. totals.session = SessionTotal(totals.of) BY <2>3 DEF NothingSpent
 <2>5. RefreshIsLone BY <2>1, <2>3, <2>4 DEF RefreshIsLone
 <2> QED BY <2>2, <2>3, <2>5, UseSessionAssumption DEF RefreshInv, UserTyped
<1>2. Inv /\ UsageRows /\ [UsageNext]_usageVars => Inv'
 <2> SUFFICES ASSUME Inv, UsageRows, [UsageNext]_usageVars PROVE Inv' OBVIOUS
 <2>1. UserTyped'
  <3>1. ASSUME looking' = looking, cameFrom' \in {cameFrom, NoParent} PROVE UserTyped'
    BY <3>1 DEF UserTyped
  <3>2. CASE UNCHANGED usageVars BY <3>1, <3>2 DEF usageVars, userVars
  <3>3. ASSUME NEW q \in Requested, NEW s \in UseSession, NEW n \in Reporter, RequestStarts(q, s, n)
        PROVE  UserTyped'
    BY <3>1, <3>3 DEF RequestStarts, userVars
  <3>4. ASSUME NEW q \in Requested, NEW u \in 1 .. MaxUsed, NEW counts \in BOOLEAN, RequestEnds(q, u, counts)
        PROVE  UserTyped'
    BY <3>1, <3>4 DEF RequestEnds, userVars
  <3>5. ASSUME NEW q \in Requested, NEW k \in Reporter, WritesRow(q, k) \/ Tells(q, k) PROVE UserTyped'
    BY <3>1, <3>5 DEF WritesRow, Tells, userVars
  <3>6. ASSUME NEW f \in Refresher, ReadsSession(f) \/ Keeps(f) PROVE UserTyped'
    BY <3>1, <3>6 DEF ReadsSession, Keeps, userVars
  <3>7. ASSUME NEW f \in Occasions, Occurs(f) \/ Arrives(f) PROVE UserTyped'
    BY <3>1, <3>7 DEF Occurs, Arrives
  <3>8. CASE GoesBack \/ \E s \in UseSession : MovesTo(s)
    BY <3>8 DEF GoesBack, MovesTo, UserTyped
  <3> QED BY <3>2, <3>3, <3>4, <3>5, <3>6, <3>7, <3>8 DEF UsageNext
 <2>2. RefreshInv'
   BY RequestsRest, WritesRowRests, ReadsSessionKeeps, KeepsKeeps, UserMovesRest, TellsKeeps DEF UsageNext
 <2> QED BY <2>1, <2>2
<1>3. Inv => LoneRefreshCatchesUp
  BY DEF RefreshInv, RefreshIsLone, LoneRefreshCatchesUp, AllTold, NoneUnderWay
<1> QED BY <1>1, <1>2, <1>3, UsageRowsHold, PTL DEF UsageSpec

-----------------------------------------------------------------------------
(* Several writers of one session: LedgerWriters. *)

Node == [of : SUBSET Worker, above : SUBSET Nat]

\* g is what n more entries under at make of a tree t.
IsGrown(g, t, at, n) ==
  /\ g \in Seq(Node) /\ Len(g) = Len(t) + n
  /\ \A i \in 1 .. Len(t) : g[i] = t[i]
  /\ \A i \in Len(t) + 1 .. Len(t) + n :
        g[i] = [of |-> {}, above |-> Above(t, at) \cup (Len(t) + 1 .. i)]

LEMMA GrownTree ==
  ASSUME NEW t \in Seq(Node), NEW at \in 0 .. Len(t), NEW n \in Nat
  PROVE  IsGrown(Grown(t, at, n), t, at, n)
<1>1. \A i \in 1 .. Len(t) : t[i] \in Node OBVIOUS
<1>2. Above(t, at) \in SUBSET Nat BY <1>1 DEF Above, Node
<1>3. \A i \in 1 .. Len(t) + n :
        (IF i <= Len(t) THEN t[i]
         ELSE [of |-> {}, above |-> Above(t, at) \cup (Len(t) + 1 .. i)]) \in Node
  BY <1>1, <1>2 DEF Node
<1>4. Len(t) + n \in Nat OBVIOUS
<1>5. Grown(t, at, n) \in [1 .. Len(t) + n -> Node] BY <1>3 DEF Grown
<1>6. Grown(t, at, n) \in Seq(Node) /\ Len(Grown(t, at, n)) = Len(t) + n BY <1>4, <1>5
<1> QED BY <1>6 DEF Grown, IsGrown

\* The same of one entry of a run.
LEMMA AppendedTree ==
  ASSUME NEW t \in Seq(Node), NEW e \in Node
  PROVE  /\ Append(t, e) \in Seq(Node)
         /\ Len(Append(t, e)) = Len(t) + 1
         /\ \A i \in 1 .. Len(t) : Append(t, e)[i] = t[i]
         /\ Append(t, e)[Len(t) + 1] = e
OBVIOUS

\* ... and of taking n entries back.
LEMMA ShortenedTree ==
  ASSUME NEW t \in Seq(Node), NEW n \in 0 .. Len(t)
  PROVE  /\ SubSeq(t, 1, Len(t) - n) \in Seq(Node)
         /\ Len(SubSeq(t, 1, Len(t) - n)) = Len(t) - n
         /\ \A i \in 1 .. Len(t) - n : SubSeq(t, 1, Len(t) - n)[i] = t[i]
OBVIOUS

LEMMA InitInductive == Init => TypeOK /\ Inductive
BY DEF Init, TypeOK, Inductive, Rooted, Disjoint, JobsSound, JobsOnTheirBranch, Nothing, Own

-------------------------------------------------------------------------------
(* What all ways of appending have in common. *)

\* t2 is t and new entries, of no run or of one in W, that follow the leaf at of t.
Extends(t2, t, at, W) ==
  /\ t2 \in Seq(Node) /\ Len(t2) >= Len(t)
  /\ \A i \in 1 .. Len(t) : t2[i] = t[i]
  /\ \A i \in Len(t) + 1 .. Len(t2) :
       /\ t2[i].of = {} \/ \E w \in W : t2[i].of = {w}
       /\ t2[i].above = Above(t, at) \cup (Len(t) + 1 .. i)

LEMMA WriteExtends ==
  ASSUME TypeOK, NEW n \in Nat, Write(n)
  PROVE  /\ Extends(tree', tree, leaf, {})
         /\ Len(tree') = Len(tree) + n
         /\ leaf' \in 0 .. Len(tree')
<1>1. tree \in Seq(Node) /\ leaf \in 0 .. Len(tree) BY DEF TypeOK, Node
<1>2. tree' = Grown(tree, leaf, n) BY DEF Write
<1>3. /\ tree' \in Seq(Node) /\ Len(tree') = Len(tree) + n
      /\ \A i \in 1 .. Len(tree) : tree'[i] = tree[i]
      /\ \A i \in Len(tree) + 1 .. Len(tree) + n :
            tree'[i] = [of |-> {}, above |-> Above(tree, leaf) \cup (Len(tree) + 1 .. i)]
 <2>1. IsGrown(tree', tree, leaf, n) BY <1>1, <1>2, GrownTree, Zenon
 <2> QED BY <2>1 DEF IsGrown
<1>4. Extends(tree', tree, leaf, {})
 <2>1. Len(tree') >= Len(tree) BY <1>1, <1>3
 <2>2. \A i \in Len(tree) + 1 .. Len(tree') :
         /\ tree'[i].of = {}
         /\ tree'[i].above = Above(tree, leaf) \cup (Len(tree) + 1 .. i)
  <3> SUFFICES ASSUME NEW i \in Len(tree) + 1 .. Len(tree')
               PROVE  /\ tree'[i].of = {}
                      /\ tree'[i].above = Above(tree, leaf) \cup (Len(tree) + 1 .. i)
    OBVIOUS
  <3>1. tree'[i] = [of |-> {}, above |-> Above(tree, leaf) \cup (Len(tree) + 1 .. i)]
    BY <1>3
  <3> QED BY <3>1
 <2> QED BY <1>3, <2>1, <2>2 DEF Extends
<1>5. leaf' \in 0 .. Len(tree') BY <1>1, <1>3 DEF Write
<1> QED BY <1>3, <1>4, <1>5

\* The way to the leaf lies among the entries, and with an entry has the way to it.
LEMMA AboveLeaf ==
  ASSUME TypeOK, Rooted
  PROVE  /\ Above(tree, leaf) \subseteq DOMAIN tree
         /\ \A k \in Above(tree, leaf) : tree[k].above \subseteq Above(tree, leaf)
BY DEF TypeOK, Rooted, Above

LEMMA GrowthIsRooted ==
  ASSUME TypeOK, Rooted, NEW W, Extends(tree', tree, leaf, W)
  PROVE  Rooted'
<1>1. SUFFICES ASSUME NEW i \in 1 .. Len(tree')
               PROVE  /\ i \in tree'[i].above /\ tree'[i].above \subseteq 1 .. i
                      /\ \A k \in tree'[i].above : tree'[k].above \subseteq tree'[i].above
  BY DEF Extends, Rooted
<1>2. Len(tree) \in Nat /\ Len(tree') \in Nat /\ DOMAIN tree = 1 .. Len(tree)
  BY DEF TypeOK, Extends
<1>3. CASE i <= Len(tree)
 <2>1. i \in DOMAIN tree /\ tree'[i] = tree[i] BY <1>2, <1>3 DEF Extends
 <2>2. \A k \in tree[i].above : k \in 1 .. Len(tree) /\ tree'[k] = tree[k]
   BY <1>2, <1>3, <2>1 DEF Extends, Rooted
 <2> QED BY <2>1, <2>2 DEF Rooted
<1>4. CASE i > Len(tree)
 <2>1. tree'[i].above = Above(tree, leaf) \cup (Len(tree) + 1 .. i)
   BY <1>2, <1>4 DEF Extends
 <2>2. Above(tree, leaf) \subseteq 1 .. Len(tree) BY <1>2, AboveLeaf
 <2>3. \A k \in Above(tree, leaf) : tree'[k].above \subseteq Above(tree, leaf)
   BY <1>2, <2>2, AboveLeaf DEF Extends
 <2>4. \A k \in Len(tree) + 1 .. i :
         tree'[k].above = Above(tree, leaf) \cup (Len(tree) + 1 .. k)
   BY <1>2 DEF Extends
 <2>5. \A k \in tree'[i].above : tree'[k].above \subseteq tree'[i].above
   BY <1>2, <2>1, <2>3, <2>4
 <2> QED BY <1>2, <1>4, <2>1, <2>2, <2>5
<1> QED BY <1>2, <1>3, <1>4

\* A writer that is left alone would take back what it would have before.
LEMMA OwnStays ==
  ASSUME TypeOK, Disjoint, NEW p \in Writer, batch'[p] = batch[p],
         tree' \in Seq(Node), Len(tree') >= Len(tree)
  PROVE  Own(p)' = Own(p)
<1>1. /\ Len(tree) \in Nat /\ Len(tree') \in Nat
      /\ DOMAIN tree = 1 .. Len(tree) /\ DOMAIN tree' = 1 .. Len(tree')
      /\ batch[p].first \in Nat /\ batch[p].size \in Nat
  BY DEF TypeOK
<1>2. \A i \in Nat : batch[p].open /\ i >= batch[p].first
                     /\ i < batch[p].first + batch[p].size => i <= Len(tree)
 <2>1. CASE batch[p].open /\ batch[p].size > 0
  <3>1. batch[p].first + batch[p].size <= Len(tree) + 1 BY <2>1 DEF Disjoint
  <3> QED BY <1>1, <3>1
 <2>2. CASE ~batch[p].open \/ batch[p].size = 0 BY <1>1, <2>2
 <2> QED BY <1>1, <2>1, <2>2
<1>3. \A i : i \in Own(p)' <=> i \in Own(p) BY <1>1, <1>2 DEF Own
<1> QED BY <1>3

LEMMA GrowthIsDisjoint ==
  ASSUME TypeOK, Disjoint, NEW W, Extends(tree', tree, leaf, W), UNCHANGED batch
  PROVE  Disjoint'
<1>1. \A p \in Writer : Own(p)' = Own(p) BY OwnStays DEF Extends
<1>2. \A p \in Writer : \A i \in Own(p) : tree'[i] = tree[i] BY DEF Own, Extends, TypeOK
<1>3. Len(tree) \in Nat /\ Len(tree') \in Nat /\ Len(tree') >= Len(tree)
  BY DEF Extends, TypeOK
<1>4. SUFFICES ASSUME NEW p \in Writer, batch[p].open, batch[p].size > 0
               PROVE  /\ batch[p].from < batch[p].first
                      /\ batch[p].first + batch[p].size <= Len(tree') + 1
                      /\ \A i \in Own(p)' : tree'[i].of = {}
                      /\ \A q \in Writer \ {p} : Own(p)' \cap Own(q)' = {}
  BY DEF Disjoint
<1>5. /\ batch[p].from < batch[p].first
      /\ batch[p].first + batch[p].size <= Len(tree) + 1
      /\ \A i \in Own(p) : tree[i].of = {}
      /\ \A q \in Writer \ {p} : Own(p) \cap Own(q) = {}
  BY <1>4 DEF Disjoint
<1>6. batch[p].first \in Nat /\ batch[p].size \in Nat BY DEF TypeOK
<1>7. batch[p].first + batch[p].size <= Len(tree') + 1 BY <1>3, <1>5, <1>6
<1>8. \A i \in Own(p)' : tree'[i].of = {} BY <1>1, <1>2, <1>5
<1>9. \A q \in Writer \ {p} : Own(p)' \cap Own(q)' = {} BY <1>1, <1>5
<1> QED BY <1>5, <1>7, <1>8, <1>9

\* Entries of no run.
LEMMA GrowthKeepsJobs ==
  ASSUME TypeOK, JobsSound, JobsOnTheirBranch, Extends(tree', tree, leaf, {})
  PROVE  /\ JobsOnTheirBranch'
         /\ UNCHANGED job => JobsSound'
<1>1. /\ Len(tree) \in Nat /\ Len(tree') \in Nat /\ Len(tree') >= Len(tree)
      /\ DOMAIN tree = 1 .. Len(tree) /\ DOMAIN tree' = 1 .. Len(tree')
  BY DEF TypeOK, Extends
<1>2. \A w \in Worker : \A i \in DOMAIN tree' :
        tree'[i].of = {w} => i \in DOMAIN tree
  BY <1>1, SMTT(30) DEF Extends
<1>3. \A i \in DOMAIN tree : tree'[i] = tree[i] BY <1>1 DEF Extends
<1>4. JobsOnTheirBranch'
 <2>1. SUFFICES ASSUME NEW w \in Worker, NEW i \in DOMAIN tree', NEW k \in 1 .. i,
                       tree'[i].of = {w}, tree'[k].of = {w},
                       \A n \in 1 .. k - 1 : tree'[n].of # {w}
                PROVE  k \in tree'[i].above
   BY DEF JobsOnTheirBranch
 <2>2. i \in DOMAIN tree /\ k \in DOMAIN tree BY <1>1, <1>2, <2>1
 <2>3. tree[i].of = {w} /\ tree[k].of = {w} BY <1>3, <2>1, <2>2
 <2>4. \A n \in 1 .. k - 1 : tree[n].of # {w} BY <1>1, <1>3, <2>1, <2>2, SMTT(30)
 <2>5. k \in tree[i].above BY <2>1, <2>2, <2>3, <2>4 DEF JobsOnTheirBranch
 <2> QED BY <1>3, <2>2, <2>5
<1>5. UNCHANGED job => JobsSound' BY <1>1, <1>2, <1>3 DEF JobsSound
<1> QED BY <1>4, <1>5

\* Only its own entries are in the way of a writer.
LEMMA OthersBelow ==
  ASSUME TypeOK, Disjoint, NEW p \in Writer, NEW q \in Writer \ {p},
         batch[p].open, batch[p].size > 0, Len(tree) = batch[p].first + batch[p].size - 1
  PROVE  \A i \in Own(q) : i <= Len(tree) - batch[p].size
<1>1. /\ Len(tree) \in Nat /\ DOMAIN tree = 1 .. Len(tree)
      /\ batch[p].first \in Nat /\ batch[p].size \in Nat /\ batch[p].from \in Nat
      /\ batch[q].first \in Nat /\ batch[q].size \in Nat
  BY DEF TypeOK
<1>2. Own(p) \cap Own(q) = {} BY DEF Disjoint
<1>3. batch[p].first >= 1 BY <1>1 DEF Disjoint
<1>4. \A i \in DOMAIN tree : i >= batch[p].first => i \in Own(p) BY <1>1 DEF Own
<1>5. \A i \in Own(q) : i \in DOMAIN tree /\ i < batch[p].first BY <1>1, <1>2, <1>4 DEF Own
<1>6. Len(tree) - batch[p].size = batch[p].first - 1 BY <1>1, SMTT(30)
<1>7. \A i \in Own(q) : i \in Nat /\ i <= batch[p].first - 1 BY <1>1, <1>5
<1> QED BY <1>6, <1>7

-------------------------------------------------------------------------------
(* The actions. *)

LEMMA CapturesInductive ==
  ASSUME TypeOK, Inductive, Captures
  PROVE  TypeOK' /\ Inductive'
<1>1. PICK n \in 1 .. Batch : Write(n) BY DEF Captures
<1>2. n \in Nat OBVIOUS
<1>3. Extends(tree', tree, leaf, {}) /\ leaf' \in 0 .. Len(tree') /\ UNCHANGED <<batch, job>>
  BY <1>1, <1>2, WriteExtends DEF Captures
<1>4. TypeOK' BY <1>3 DEF TypeOK, Extends, Node
<1> QED BY <1>3, <1>4, GrowthIsRooted, GrowthIsDisjoint, GrowthKeepsJobs DEF Inductive

LEMMA BeginsInductive ==
  ASSUME TypeOK, Inductive, NEW p \in Writer, Begins(p)
  PROVE  TypeOK' /\ Inductive'
<1>1. PICK n \in 1 .. Batch :
        /\ batch' = [batch EXCEPT ![p] = [open |-> TRUE, first |-> Len(tree) + 1,
                                          size |-> n, from |-> leaf]]
        /\ Write(n)
  BY DEF Begins
<1>2. n \in Nat /\ n > 0 OBVIOUS
<1>3. /\ Extends(tree', tree, leaf, {}) /\ Len(tree') = Len(tree) + n
      /\ leaf' \in 0 .. Len(tree') /\ UNCHANGED job
  BY <1>1, <1>2, WriteExtends DEF Begins
<1>4. TypeOK'
 <2>1. Len(tree) + 1 \in Nat /\ leaf \in Nat BY DEF TypeOK
 <2>2. batch' \in [Writer -> [open : BOOLEAN, first : Nat, size : Nat, from : Nat]]
   BY <1>1, <1>2, <2>1 DEF TypeOK
 <2> QED BY <1>3, <2>2 DEF TypeOK, Extends, Node
<1>5. /\ Len(tree) \in Nat /\ DOMAIN tree = 1 .. Len(tree) /\ DOMAIN tree' = 1 .. Len(tree')
      /\ leaf \in 0 .. Len(tree)
  BY <1>3 DEF TypeOK, Extends
<1>6. batch'[p] = [open |-> TRUE, first |-> Len(tree) + 1, size |-> n, from |-> leaf]
      /\ \A q \in Writer \ {p} : batch'[q] = batch[q]
  BY <1>1 DEF TypeOK
<1>7. Own(p)' = Len(tree) + 1 .. Len(tree') BY <1>2, <1>3, <1>5, <1>6 DEF Own
<1>8. \A q \in Writer \ {p} : Own(q)' = Own(q) /\ Own(q) \subseteq 1 .. Len(tree)
 <2>1. \A q \in Writer \ {p} : Own(q)' = Own(q)
   BY <1>3, <1>6, OwnStays DEF Extends, Inductive
 <2> QED BY <1>5, <2>1 DEF Own
<1>9. Disjoint'
 <2>1. SUFFICES ASSUME NEW q \in Writer, batch'[q].open, batch'[q].size > 0
                PROVE  /\ batch'[q].from < batch'[q].first
                       /\ batch'[q].first + batch'[q].size <= Len(tree') + 1
                       /\ \A i \in Own(q)' : tree'[i].of = {}
                       /\ \A r \in Writer \ {q} : Own(q)' \cap Own(r)' = {}
   BY DEF Disjoint
 <2>2. CASE q = p
  <3>1. batch'[p].from < batch'[p].first BY <1>5, <1>6
  <3>2. batch'[p].first + batch'[p].size <= Len(tree') + 1 BY <1>3, <1>5, <1>6
  <3>3. \A i \in Own(p)' : tree'[i].of = {} BY <1>3, <1>7 DEF Extends
  <3>4. \A r \in Writer \ {p} : Own(p)' \cap Own(r)' = {} BY <1>5, <1>7, <1>8
  <3> QED BY <2>2, <3>1, <3>2, <3>3, <3>4
 <2>3. CASE q # p
  <3>1. batch'[q] = batch[q] /\ Own(q)' = Own(q) BY <1>6, <1>8, <2>3
  <3>2. /\ batch[q].from < batch[q].first
        /\ batch[q].first + batch[q].size <= Len(tree) + 1
        /\ \A i \in Own(q) : tree[i].of = {}
        /\ \A r \in Writer \ {q} : Own(q) \cap Own(r) = {}
    BY <2>1, <3>1 DEF Inductive, Disjoint
  <3>3. batch'[q].first + batch'[q].size <= Len(tree') + 1
   <4>1. batch[q].first \in Nat /\ batch[q].size \in Nat BY DEF TypeOK
   <4> QED BY <1>2, <1>3, <1>5, <3>1, <3>2, <4>1
  <3>4. \A i \in Own(q)' : tree'[i].of = {} BY <1>3, <1>8, <2>3, <3>1, <3>2 DEF Extends
  <3>5. \A r \in Writer \ {q} : Own(q)' \cap Own(r)' = {}
    BY <1>5, <1>7, <1>8, <2>3, <3>1, <3>2
  <3> QED BY <3>1, <3>2, <3>3, <3>4, <3>5
 <2> QED BY <2>2, <2>3
<1> QED BY <1>3, <1>4, <1>9, GrowthIsRooted, GrowthKeepsJobs DEF Inductive

\* A step that leaves the tree alone and makes a writer's batch empty.
LEMMA EmptiedInductive ==
  ASSUME TypeOK, Inductive, NEW p \in Writer, UNCHANGED <<tree, job>>,
         leaf' \in 0 .. Len(tree), NEW b \in [open : BOOLEAN, first : Nat, size : {0}, from : Nat],
         batch' = [batch EXCEPT ![p] = b]
  PROVE  TypeOK' /\ Inductive'
<1>1. batch' \in [Writer -> [open : BOOLEAN, first : Nat, size : Nat, from : Nat]]
  BY DEF TypeOK
<1>2. TypeOK' BY <1>1 DEF TypeOK
<1>3. batch'[p].size = 0 /\ \A q \in Writer \ {p} : batch'[q] = batch[q] BY DEF TypeOK
<1>4. batch'[p].first \in Nat /\ Own(p)' = {} BY <1>2, <1>3 DEF Own, TypeOK
<1>5. \A q \in Writer \ {p} : Own(q)' = Own(q) BY <1>3 DEF Own
<1>6. Disjoint' BY <1>3, <1>4, <1>5 DEF Inductive, Disjoint
<1> QED BY <1>2, <1>6 DEF Inductive, Rooted, JobsSound, JobsOnTheirBranch

LEMMA BranchesInductive ==
  ASSUME TypeOK, Inductive, NEW p \in Writer, Branches(p)
  PROVE  TypeOK' /\ Inductive'
<1>1. leaf \in Nat /\ leaf' \in 0 .. Len(tree) BY DEF Branches, TypeOK
<1>2. [open |-> TRUE, first |-> 0, size |-> 0, from |-> leaf]
        \in [open : BOOLEAN, first : Nat, size : {0}, from : Nat]
  BY <1>1
<1> QED BY <1>1, <1>2, EmptiedInductive DEF Branches

LEMMA EndsInductive ==
  ASSUME TypeOK, Inductive, NEW p \in Writer, Ends(p)
  PROVE  TypeOK' /\ Inductive'
<1>1. leaf' \in 0 .. Len(tree) BY DEF Ends, TypeOK
<1>2. Nothing \in [open : BOOLEAN, first : Nat, size : {0}, from : Nat] BY DEF Nothing
<1> QED BY <1>1, <1>2, EmptiedInductive DEF Ends

LEMMA TakesBackInductive ==
  ASSUME TypeOK, Inductive, NEW p \in Writer, TakesBack(p)
  PROVE  TypeOK' /\ Inductive'
<1> DEFINE n == batch[p].size
<1>1. /\ tree \in Seq(Node) /\ Len(tree) \in Nat /\ n \in Nat
      /\ batch[p].first \in Nat /\ batch[p].from \in Nat /\ batch[p].open
      /\ DOMAIN tree = 1 .. Len(tree)
  BY DEF TypeOK, Node, TakesBack
<1>2. n > 0 => /\ batch[p].from < batch[p].first
               /\ Len(tree) = batch[p].first + n - 1
  BY <1>1 DEF TakesBack, Inductive, Disjoint
<1>3. n \in 0 .. Len(tree) /\ leaf' \in 0 .. Len(tree) - n
 <2>1. leaf' = batch[p].from /\ batch[p].from <= Len(tree) BY DEF TakesBack
 <2> HIDE DEF n
 <2>2. CASE n = 0 BY <1>1, <2>1, <2>2
 <2>3. CASE n > 0 BY <1>1, <1>2, <2>1, <2>3
 <2> QED BY <1>1, <2>2, <2>3
<1>4. /\ tree' \in Seq(Node) /\ Len(tree') = Len(tree) - n
      /\ \A i \in 1 .. Len(tree) - n : tree'[i] = tree[i]
  BY <1>1, <1>3, ShortenedTree DEF TakesBack
<1>5. DOMAIN tree' = 1 .. Len(tree) - n /\ DOMAIN tree' \subseteq DOMAIN tree
  BY <1>1, <1>3, <1>4
<1>6. batch'[p] = Nothing /\ \A q \in Writer \ {p} : batch'[q] = batch[q]
  BY DEF TakesBack, TypeOK
<1>7. TypeOK'
 <2>1. batch' \in [Writer -> [open : BOOLEAN, first : Nat, size : Nat, from : Nat]]
   BY DEF TakesBack, TypeOK, Nothing
 <2> QED BY <1>3, <1>4, <2>1 DEF TypeOK, Node, TakesBack
<1>8. \A i \in DOMAIN tree \ DOMAIN tree' : i \in Own(p) /\ tree[i].of = {}
 <2>1. SUFFICES ASSUME NEW i \in DOMAIN tree \ DOMAIN tree'
                PROVE  i \in Own(p) /\ tree[i].of = {}
   OBVIOUS
 <2>2. n > 0 /\ i >= batch[p].first /\ i < batch[p].first + n
  <3>1. i \in 1 .. Len(tree) /\ i \notin 1 .. Len(tree) - n BY <1>1, <1>5
  <3> HIDE DEF n
  <3> QED BY <1>1, <1>2, <1>3, <3>1
 <2>3. i \in Own(p) BY <1>1, <2>2 DEF Own
 <2> QED BY <1>1, <2>2, <2>3 DEF Inductive, Disjoint
<1>9. Rooted'
 <2>1. \A i \in DOMAIN tree' : \A k \in 1 .. i : k \in DOMAIN tree' BY <1>1, <1>3, <1>5
 <2> QED BY <1>4, <1>5, <2>1 DEF Inductive, Rooted
<1>10. \A q \in Writer \ {p} : Own(q)' = Own(q)
 <2>1. SUFFICES ASSUME NEW q \in Writer \ {p}
                PROVE  \A i \in Own(q) : i \in DOMAIN tree'
   BY <1>5, <1>6 DEF Own
 <2>2. CASE n > 0
  <3>1. \A i \in Own(q) : i <= Len(tree) - n BY <1>1, <1>2, <2>2, OthersBelow DEF Inductive
  <3> QED BY <1>1, <1>3, <1>5, <3>1 DEF Own
 <2>3. CASE n = 0 BY <1>1, <1>5, <2>3 DEF Own
 <2> QED BY <1>1, <2>2, <2>3
<1>11. Own(p)' = {} BY <1>6 DEF Own, Nothing
<1>12. Disjoint'
 <2>1. SUFFICES ASSUME NEW q \in Writer \ {p}, batch[q].open, batch[q].size > 0
                PROVE  /\ batch[q].from < batch[q].first
                       /\ batch[q].first + batch[q].size <= Len(tree') + 1
                       /\ \A i \in Own(q) : tree'[i].of = {}
                       /\ \A r \in Writer \ {q} : Own(q) \cap Own(r)' = {}
   BY <1>6, <1>10 DEF Disjoint, Nothing
 <2>2. /\ batch[q].from < batch[q].first
       /\ batch[q].first + batch[q].size <= Len(tree) + 1
       /\ \A i \in Own(q) : tree[i].of = {}
       /\ \A r \in Writer \ {q} : Own(q) \cap Own(r) = {}
   BY <2>1 DEF Inductive, Disjoint
 <2>3. batch[q].first \in Nat /\ batch[q].size \in Nat /\ batch[q].from \in Nat
   BY DEF TypeOK
 <2>4. batch[q].first + batch[q].size - 1 \in Own(q)
  <3>1. batch[q].first + batch[q].size - 1 \in 1 .. Len(tree)
   <4>1. batch[q].first >= 1 /\ batch[q].first + batch[q].size - 1 <= Len(tree)
     BY <1>1, <2>2, <2>3
   <4> QED BY <1>1, <2>1, <2>3, <4>1
  <3>2. /\ batch[q].first + batch[q].size - 1 >= batch[q].first
        /\ batch[q].first + batch[q].size - 1 < batch[q].first + batch[q].size
    BY <2>1, <2>3
  <3> QED BY <1>1, <2>1, <3>1, <3>2 DEF Own
 <2>5. \A i \in Own(q) : i \in DOMAIN tree' BY <1>10 DEF Own
 <2>6. batch[q].first + batch[q].size <= Len(tree') + 1
  <3>1. batch[q].first + batch[q].size - 1 \in 1 .. Len(tree) - n BY <1>5, <2>4, <2>5
  <3> HIDE DEF n
  <3> QED BY <1>1, <1>4, <2>3, <3>1, SMTT(30)
 <2>7. \A i \in Own(q) : tree'[i].of = {} BY <1>4, <1>5, <2>2, <2>5
 <2>8. \A r \in Writer \ {q} : Own(q) \cap Own(r)' = {} BY <1>10, <1>11, <2>2
 <2> QED BY <2>2, <2>6, <2>7, <2>8
<1>13. JobsSound'
 <2>1. \A w \in Worker : job[w].state = "attached" => job[w].entry \in DOMAIN tree'
   BY <1>8 DEF Inductive, JobsSound
 <2> QED BY <1>4, <1>5, <2>1, ZenonT(40) DEF Inductive, JobsSound, TakesBack
<1>14. JobsOnTheirBranch'
 <2>1. SUFFICES ASSUME NEW w \in Worker, NEW i \in DOMAIN tree', NEW k \in 1 .. i,
                       tree'[i].of = {w}, tree'[k].of = {w},
                       \A m \in 1 .. k - 1 : tree'[m].of # {w}
                PROVE  k \in tree'[i].above
   BY DEF JobsOnTheirBranch
 <2>2. \A m \in 1 .. i : tree'[m] = tree[m] BY <1>1, <1>3, <1>4, <1>5
 <2>3. i \in DOMAIN tree /\ i \in 1 .. i /\ \A m \in 1 .. k - 1 : m \in 1 .. i BY <1>1, <1>5
 <2>4. k \in tree[i].above BY <2>1, <2>2, <2>3 DEF Inductive, JobsOnTheirBranch
 <2> QED BY <2>2, <2>3, <2>4
<1> QED BY <1>7, <1>9, <1>12, <1>13, <1>14 DEF Inductive

LEMMA LeavesInductive ==
  ASSUME TypeOK, Inductive, NEW w \in Worker, Leaves(w)
  PROVE  TypeOK' /\ Inductive'
<1>1. /\ UNCHANGED <<tree, leaf, batch>> /\ job'[w].state = "detached"
      /\ \A x \in Worker \ {w} : job'[x] = job[x]
  BY DEF Leaves, TypeOK
<1>2. job' \in [Worker -> [state : {"unborn", "attached", "detached"}, entry : Nat]]
  BY DEF Leaves, TypeOK
<1>3. JobsSound' BY <1>1 DEF Inductive, JobsSound
<1>4. TypeOK' BY <1>1, <1>2 DEF TypeOK
<1>5. Rooted' /\ JobsOnTheirBranch' BY <1>1 DEF Inductive, Rooted, JobsOnTheirBranch
<1>6. Disjoint' BY <1>1 DEF Inductive, Disjoint, Own
<1> QED BY <1>3, <1>4, <1>5, <1>6 DEF Inductive

LEMMA PersistsInductive ==
  ASSUME TypeOK, Inductive, NEW w \in Worker, Persists(w)
  PROVE  TypeOK' /\ Inductive'
<1> DEFINE id == Len(tree) + 1
           e == [of |-> {w}, above |-> Above(tree, leaf) \cup {id}]
<1>1. /\ tree \in Seq(Node) /\ Len(tree) \in Nat /\ leaf \in 0 .. Len(tree)
      /\ DOMAIN tree = 1 .. Len(tree) /\ id \in Nat
  BY DEF TypeOK, Node
<1>2. Above(tree, leaf) \subseteq 1 .. Len(tree) BY <1>1, AboveLeaf DEF Inductive
<1>3. e \in Node BY <1>1, <1>2 DEF Node
<1>4. tree' = Append(tree, e) /\ leaf' = id /\ UNCHANGED batch BY DEF Persists
<1>5. /\ tree' \in Seq(Node) /\ Len(tree') = id
      /\ \A i \in 1 .. Len(tree) : tree'[i] = tree[i]
      /\ tree'[id] = e
 <2> HIDE DEF e
 <2> QED BY <1>1, <1>3, <1>4, AppendedTree
<1>6. DOMAIN tree' = 1 .. id BY <1>1, <1>5
<1>7. /\ job'[w] = [state |-> "attached", entry |-> id]
      /\ \A x \in Worker \ {w} : job'[x] = job[x]
  BY DEF Persists, TypeOK
<1>8. TypeOK'
 <2>1. job' \in [Worker -> [state : {"unborn", "attached", "detached"}, entry : Nat]]
   BY <1>1 DEF Persists, TypeOK
 <2> QED BY <1>1, <1>4, <1>5, <2>1 DEF TypeOK, Node
<1>9. Extends(tree', tree, leaf, {w})
 <2>1. \A i \in Len(tree) + 1 .. Len(tree') :
         /\ tree'[i].of = {w}
         /\ tree'[i].above = Above(tree, leaf) \cup (Len(tree) + 1 .. i)
  <3>1. \A i \in Len(tree) + 1 .. Len(tree') : i = id BY <1>1, <1>5
  <3>2. {id} = Len(tree) + 1 .. id BY <1>1
  <3>3. tree'[id].of = {w} /\ tree'[id].above = Above(tree, leaf) \cup {id} BY <1>5
  <3> HIDE DEF id
  <3> QED BY <3>1, <3>2, <3>3
 <2>2. Len(tree') >= Len(tree) BY <1>1, <1>5
 <2> QED BY <1>5, <2>1, <2>2 DEF Extends
<1>10. Rooted' /\ Disjoint' BY <1>4, <1>9, GrowthIsRooted, GrowthIsDisjoint DEF Inductive
<1>11. JobsSound'
 <2>1. SUFFICES ASSUME NEW x \in Worker
                PROVE  /\ job'[x].state = "unborn" => \A i \in DOMAIN tree' : tree'[i].of # {x}
                       /\ job'[x].state = "attached" =>
                            job'[x].entry \in DOMAIN tree' /\ tree'[job'[x].entry].of = {x}
   BY DEF JobsSound
 <2>2. CASE x = w BY <1>1, <1>5, <1>6, <1>7, <2>2
 <2>3. CASE x # w
  <3>1. job'[x] = job[x] /\ tree'[id].of # {x} BY <1>5, <1>7, <2>3
  <3>2. \A i \in DOMAIN tree' : i = id \/ (i \in DOMAIN tree /\ tree'[i] = tree[i])
    BY <1>1, <1>5, <1>6
  <3>3. \A i \in DOMAIN tree : i \in DOMAIN tree' /\ tree'[i] = tree[i] BY <1>1, <1>5, <1>6
  <3> QED BY <3>1, <3>2, <3>3 DEF Inductive, JobsSound
 <2> QED BY <2>2, <2>3
<1>12. JobsOnTheirBranch'
 <2>1. SUFFICES ASSUME NEW x \in Worker, NEW i \in DOMAIN tree', NEW k \in 1 .. i,
                       tree'[i].of = {x}, tree'[k].of = {x},
                       \A m \in 1 .. k - 1 : tree'[m].of # {x}
                PROVE  k \in tree'[i].above
   BY DEF JobsOnTheirBranch
 <2>2. CASE i # id
  <3>1. i \in DOMAIN tree /\ \A m \in 1 .. i : tree'[m] = tree[m] BY <1>1, <1>5, <1>6, <2>2
  <3>2. i \in 1 .. i /\ \A m \in 1 .. k - 1 : m \in 1 .. i BY <1>1, <3>1
  <3>3. k \in tree[i].above BY <2>1, <3>1, <3>2 DEF Inductive, JobsOnTheirBranch
  <3> QED BY <3>1, <3>2, <3>3
 <2>3. CASE i = id /\ k = id BY <1>5, <2>3
 <2>4. CASE i = id /\ k # id
  <3>1. k \in DOMAIN tree /\ x = w
   <4>1. {x} = {w}
    <5>1. tree'[id].of = {w} BY <1>5
    <5> HIDE DEF id
    <5>2. tree'[id].of = {x} BY <2>1, <2>4
    <5> QED BY <5>1, <5>2
   <4>2. k \in 1 .. Len(tree) BY <1>1, <2>4
   <4> QED BY <1>1, <4>1, <4>2
  <3>2. tree[k].of = {w} BY <1>1, <1>5, <2>1, <3>1
  <3>3. job[w].state = "attached" /\ job[w].entry \in Above(tree, leaf)
    BY <3>1, <3>2 DEF Persists, Inductive, JobsSound
  <3>4. job[w].entry \in DOMAIN tree /\ tree[job[w].entry].of = {w}
    BY <3>3 DEF Inductive, JobsSound
  <3>5. k <= job[w].entry BY <1>1, <1>5, <2>1, <3>1, <3>4, SMTT(30)
  <3>6. \A m \in 1 .. k - 1 : tree[m].of # {w} BY <1>1, <1>5, <2>1, <3>1
  <3>7. k \in tree[job[w].entry].above
   <4>1. k \in 1 .. job[w].entry BY <1>1, <3>1, <3>4, <3>5
   <4> QED BY <3>2, <3>4, <3>6, <4>1 DEF Inductive, JobsOnTheirBranch
  <3>8. k \in Above(tree, leaf) BY <3>3, <3>7, AboveLeaf DEF Inductive
  <3> QED BY <1>5, <2>4, <3>8
 <2> QED BY <2>2, <2>3, <2>4
<1> QED BY <1>8, <1>10, <1>11, <1>12 DEF Inductive

LEMMA RestartsInductive ==
  ASSUME TypeOK, Inductive, Restarts
  PROVE  TypeOK' /\ Inductive'
<1>1. PICK n \in 0 .. Batch : Write(n) BY DEF Restarts
<1>2. n \in Nat OBVIOUS
<1>3. Extends(tree', tree, leaf, {}) /\ leaf' \in 0 .. Len(tree')
  BY <1>1, <1>2, WriteExtends
<1>4. tree' \in Seq(Node) /\ Len(tree') \in Nat /\ DOMAIN tree' = 1 .. Len(tree')
  BY <1>3 DEF Extends
<1>5. TypeOK'
 <2>1. job' \in [Worker -> [state : {"unborn", "attached", "detached"}, entry : Nat]]
   BY <1>4 DEF Restarts
 <2>2. batch' \in [Writer -> [open : BOOLEAN, first : Nat, size : Nat, from : Nat]]
   BY DEF Restarts, Nothing
 <2> QED BY <1>3, <1>4, <2>1, <2>2 DEF TypeOK, Node
<1>6. Rooted' /\ JobsOnTheirBranch' BY <1>3, GrowthIsRooted, GrowthKeepsJobs DEF Inductive
<1>7. Disjoint' BY DEF Restarts, Nothing, Disjoint
<1>8. Above(tree', leaf') \subseteq DOMAIN tree' BY <1>3, <1>4, <1>6 DEF Above, Rooted
<1>9. JobsSound'
 <2>1. SUFFICES ASSUME NEW w \in Worker
                PROVE  /\ job'[w].state = "unborn" => \A i \in DOMAIN tree' : tree'[i].of # {w}
                       /\ job'[w].state = "attached" =>
                            job'[w].entry \in DOMAIN tree' /\ tree'[job'[w].entry].of = {w}
   BY DEF JobsSound
 <2>2. CASE \E e \in Above(tree', leaf') :
              tree'[e].of = {w} /\ job'[w] = [state |-> "attached", entry |-> e]
   BY <1>8, <2>2
 <2>3. CASE job[w].state = "unborn" /\ job'[w] = job[w]
  <3>1. \A i \in DOMAIN tree : tree[i].of # {w} BY <2>3 DEF Inductive, JobsSound
  <3>2. \A i \in DOMAIN tree' : tree'[i].of = {} \/ (i \in DOMAIN tree /\ tree'[i] = tree[i])
   <4>1. tree \in Seq(Node) /\ Len(tree) \in Nat /\ DOMAIN tree = 1 .. Len(tree)
     BY DEF TypeOK, Node
   <4>2. SUFFICES ASSUME NEW i \in 1 .. Len(tree'), tree'[i].of # {}
                  PROVE  i \in 1 .. Len(tree) /\ tree'[i] = tree[i]
     BY <1>4, <4>1
   <4>3. i \in 1 .. Len(tree) BY <1>3, <1>4, <4>1, <4>2 DEF Extends
   <4> QED BY <1>3, <4>3 DEF Extends
  <3> QED BY <2>3, <3>1, <3>2
 <2>4. CASE job'[w] = [state |-> "detached", entry |-> 0] BY <2>4
 <2> QED BY <2>2, <2>3, <2>4 DEF Restarts, Found
<1> QED BY <1>5, <1>6, <1>7, <1>9 DEF Inductive

LEMMA StepInductive ==
  ASSUME TypeOK, Inductive, [Next]_vars
  PROVE  TypeOK' /\ Inductive'
<1>1. CASE Captures BY <1>1, CapturesInductive
<1>2. CASE Restarts BY <1>2, RestartsInductive
<1>3. ASSUME NEW p \in Writer, Begins(p) PROVE TypeOK' /\ Inductive'
  BY <1>3, BeginsInductive
<1>4. ASSUME NEW p \in Writer, Branches(p) PROVE TypeOK' /\ Inductive'
  BY <1>4, BranchesInductive
<1>5. ASSUME NEW p \in Writer, Ends(p) PROVE TypeOK' /\ Inductive' BY <1>5, EndsInductive
<1>6. ASSUME NEW p \in Writer, TakesBack(p) PROVE TypeOK' /\ Inductive'
  BY <1>6, TakesBackInductive
<1>7. ASSUME NEW w \in Worker, Leaves(w) PROVE TypeOK' /\ Inductive'
  BY <1>7, LeavesInductive
<1>8. ASSUME NEW w \in Worker, Persists(w) PROVE TypeOK' /\ Inductive'
  BY <1>8, PersistsInductive
<1>9. CASE UNCHANGED vars
  BY <1>9 DEF vars, TypeOK, Inductive, Rooted, Disjoint, Own, JobsSound, JobsOnTheirBranch
<1> QED BY <1>1, <1>2, <1>3, <1>4, <1>5, <1>6, <1>7, <1>8, <1>9 DEF Next

-------------------------------------------------------------------------------
(* What follows for every behaviour. *)

\* The tree is rooted, what several operations would take back is disjoint, and the
\* runs know their entries, whatever the operations and in whatever order they end.
THEOREM LedgerInvariance == Spec => [](TypeOK /\ Inductive)
<1>1. Init => TypeOK /\ Inductive BY InitInductive
<1>2. TypeOK /\ Inductive /\ [Next]_vars => (TypeOK /\ Inductive)' BY StepInductive
<1> QED BY <1>1, <1>2, PTL DEF Spec

\* _persist_job (core/agents.py:683-716): an entry of a run never lands on a branch that
\* does not have the entry of its spawn.
THEOREM JobsStayOnBranch == Spec => []JobsOnTheirBranch
<1>1. Inductive => JobsOnTheirBranch BY DEF Inductive
<1> QED BY <1>1, LedgerInvariance, PTL

\* set_position with discard_entry_id (core/ledger.py:489-529): what is taken back is the
\* operation's own.
THEOREM OnlyOwnTakenBack == Spec => OthersEntriesStay
<1> DEFINE Stays == \A i \in DOMAIN tree :
                      i \notin DOMAIN tree' => \E p \in Writer : i \in Own(p) /\ batch'[p] = Nothing
<1>1. ASSUME TypeOK, Inductive, [Next]_vars PROVE Stays
 <2>1. SUFFICES ASSUME NEW i \in DOMAIN tree, i \notin DOMAIN tree'
                PROVE  \E p \in Writer : i \in Own(p) /\ batch'[p] = Nothing
   OBVIOUS
 <2>2. DOMAIN tree = 1 .. Len(tree) /\ Len(tree) \in Nat /\ tree \in Seq(Node)
   BY <1>1 DEF TypeOK, Node
 <2>3. ASSUME NEW n \in Nat, Write(n) PROVE FALSE
  <3>1. Extends(tree', tree, leaf, {}) BY <1>1, <2>3, WriteExtends
  <3> QED BY <2>1, <2>2, <3>1 DEF Extends
 <2>4. ASSUME NEW w \in Worker, Persists(w) PROVE FALSE
  <3>1. Len(tree') = Len(tree) + 1 BY <2>2, <2>4 DEF Persists
  <3>2. DOMAIN tree' = 1 .. Len(tree') BY <1>1, StepInductive DEF TypeOK
  <3> QED BY <2>1, <2>2, <3>1, <3>2
 <2>5. tree' # tree BY <2>1
 <2>6. PICK p \in Writer : TakesBack(p)
  <3>1. ~Captures /\ ~Restarts /\ \A p \in Writer : ~Begins(p)
    BY <2>3 DEF Captures, Restarts, Begins
  <3>2. \A p \in Writer : ~Branches(p) /\ ~Ends(p) BY <2>5 DEF Branches, Ends
  <3>3. \A w \in Worker : ~Leaves(w) /\ ~Persists(w) BY <2>4, <2>5 DEF Leaves
  <3> QED BY <1>1, <2>5, <3>1, <3>2, <3>3 DEF Next, vars
 <2>7. /\ batch[p].open /\ batch[p].first \in Nat /\ batch[p].size \in Nat /\ batch[p].from \in Nat
       /\ batch'[p] = Nothing
   BY <1>1, <2>6 DEF TakesBack, TypeOK
 <2>8. batch[p].size = 0 \/ (/\ Len(tree) = batch[p].first + batch[p].size - 1
                             /\ batch[p].from < batch[p].first)
   BY <1>1, <2>6, <2>7 DEF TakesBack, Inductive, Disjoint
 <2>9. batch[p].size \in 0 .. Len(tree) BY <2>2, <2>7, <2>8
 <2>10. Len(tree') = Len(tree) - batch[p].size /\ tree' \in Seq(Node)
   BY <2>2, <2>6, <2>9, ShortenedTree DEF TakesBack
 <2>11. i > Len(tree) - batch[p].size BY <2>1, <2>2, <2>9, <2>10
 <2>12. i >= batch[p].first /\ i < batch[p].first + batch[p].size BY <2>2, <2>7, <2>8, <2>11
 <2>13. i \in Own(p) BY <2>7, <2>12 DEF Own
 <2> QED BY <2>7, <2>13
<1>2. TypeOK /\ Inductive /\ [Next]_vars => [Stays]_vars BY <1>1
<1> QED BY <1>2, LedgerInvariance, PTL DEF Spec, OthersEntriesStay
===============================================================================
