----------------------------- MODULE MemoryDocs -----------------------------
(***************************************************************************)
(* Structured memories (core/memory_store.py, builtin/memory.py, the       *)
(* /memory command): documents at addresses of different reach, written    *)
(* under optimistic revisions, and the resolution of what is in force      *)
(* somewhere.                                                              *)
(*                                                                         *)
(* The rows are shared by the processes that have the database open.  An   *)
(* operation of the store is one transaction; between the get and the save *)
(* of one process any other may write.  Contents are stamps: every write   *)
(* has a new one.                                                          *)
(***************************************************************************)
EXTENDS Naturals, FiniteSets, SequencesExt

CONSTANTS
  MaxIds,      \* bound: logical names, 1 .. MaxIds
  Place,       \* the scopes in play, a subset of Reach
  Editor,      \* the processes
  MaxWrites    \* bound: writes to the store

VARIABLES
  row,        \* memory_documents: revision (0: no row), deleted, content by address
  held,       \* what each editor has read and not yet written back
  writes,     \* the number of writes, which is also the last stamp
  clobbered   \* the stamps that were replaced by somebody who had not read them

memoryVars == <<row, held, writes, clobbered>>

DocId == 1 .. MaxIds
Address == DocId \X Place

\* Scopes from the widest to the closest: everywhere, the workspace, a directory of it and a
\* directory of that. Where one resolves: outside any workspace, in it, in either directory.
Reach == <<"global", "workspace", "outer", "inner">>
Where == <<"nowhere", "workspace", "outer", "inner">>
Level(place) == CHOOSE i \in DOMAIN Reach : Reach[i] = place

NoRow == [revision |-> 0, deleted |-> FALSE, content |-> 0]
NothingHeld == [at |-> <<>>, revision |-> 0, content |-> 0]

MemoryInit ==
  /\ row = [a \in Address |-> NoRow]
  /\ held = [e \in Editor |-> NothingHeld]
  /\ writes = 0 /\ clobbered = {}

-----------------------------------------------------------------------------
(* Writing. *)

\* /memory set, save_memory: the row at the address, a tombstone included, is looked at first.
Reads(e, a) ==
  /\ held[e] = NothingHeld
  /\ held' = [held EXCEPT ![e] = [at |-> a, revision |-> row[a].revision,
                                  content |-> row[a].content]]
  /\ UNCHANGED <<row, writes, clobbered>>

\* save and delete: the revision must be the one the caller has read. Otherwise a conflict.
HasRevision(a, expected) == row[a].revision = expected

Writes(e, new) ==
  LET a == held[e].at
  IN  /\ held[e] # NothingHeld /\ writes < MaxWrites
      /\ held' = [held EXCEPT ![e] = NothingHeld]
      /\ IF HasRevision(a, held[e].revision)
           THEN /\ row' = [row EXCEPT ![a] = new]
                /\ writes' = writes + 1
                /\ clobbered' = IF row[a].content = held[e].content THEN clobbered
                                ELSE clobbered \union {row[a].content}
           ELSE UNCHANGED <<row, writes, clobbered>>

Save(e) ==
  Writes(e, [revision |-> held[e].revision + 1, deleted |-> FALSE, content |-> writes + 1])

\* bug: a deleted document leaves nothing behind
RemovedRow(e) == NoRow

\* A tombstone, with the next revision: the row stays.
Tombstone(e) == [revision |-> held[e].revision + 1, deleted |-> TRUE, content |-> writes + 1]

\* delete; with revision 0 it puts a tombstone where there was nothing.
Delete(e) == Writes(e, Tombstone(e))

Forgets(e) ==
  /\ held[e] # NothingHeld
  /\ held' = [held EXCEPT ![e] = NothingHeld]
  /\ UNCHANGED <<row, writes, clobbered>>

MemoryNext ==
  \E e \in Editor : \/ \E a \in Address : Reads(e, a)
                    \/ Save(e) \/ Delete(e) \/ Forgets(e)

MemorySpec == MemoryInit /\ [][MemoryNext]_memoryVars

-----------------------------------------------------------------------------
(* Resolution. *)

\* Does a document at place apply at the i-th of Where? _path_applies: a directory's memory
\* applies in it and below it.
Applies(place, i) == Level(place) <= i

\* _precedence
Before(a, b) == \/ Level(a[2]) < Level(b[2])
                \/ Level(a[2]) = Level(b[2]) /\ a[1] < b[1]

Applicable(i) == {a \in Address : row[a].revision > 0 /\ Applies(a[2], i)}

Put(winners, a) == [winners EXCEPT ![a[1]] = a]

\* bug: a tombstone is left out before it can hide anything
LiveWinners(i) ==
  FoldLeft(Put, [d \in DocId |-> <<>>],
           SetToSortSeq({a \in Applicable(i) : ~row[a].deleted}, Before))

\* From the weakest to the strongest, the later definition of a name replaces the earlier.
Winners(i) == FoldLeft(Put, [d \in DocId |-> <<>>], SetToSortSeq(Applicable(i), Before))

\* resolve
Resolve(i) ==
  SetToSortSeq({a \in Range(Winners(i)) \ {<<>>} : ~row[a].deleted}, Before)

-----------------------------------------------------------------------------
MemoryTypeOK ==
  /\ row \in [Address -> [revision : 0 .. MaxWrites, deleted : BOOLEAN, content : 0 .. MaxWrites]]
  /\ held \in [Editor -> [at : Address \union {<<>>}, revision : 0 .. MaxWrites,
                          content : 0 .. MaxWrites]]
  /\ writes \in 0 .. MaxWrites
  /\ clobbered \subseteq 0 .. MaxWrites

\* No write of a memory replaces a text its author has not read, a deleted one included: a
\* revision is never used twice at an address, not even after a delete (memory_store.py
\* 402-468, 510-540).
EditsBuildOnLatest == clobbered = {}

\* Somewhere in the tree the memory in force under a name is the one that reaches there and is
\* closest, and none where the closest is a tombstone; they come from the widest to the
\* closest, so that the closest has the last word (memory_store.py 314-320, 596-641).
ClosestWins ==
  (\E a \in Address : row[a].revision > 0) =>
  \A i \in DOMAIN Where :
    LET result == Resolve(i)
        reaching(d) == {p \in Place : Applies(p, i) /\ row[<<d, p>>].revision > 0}
        closest(d, p) == \A q \in reaching(d) : Level(q) <= Level(p)
    IN  /\ Range(result) = {a \in Address : /\ a[2] \in reaching(a[1])
                                            /\ closest(a[1], a[2])
                                            /\ ~row[a].deleted}
        /\ \A j, k \in DOMAIN result : j < k => Level(result[j][2]) <= Level(result[k][2])
=============================================================================
