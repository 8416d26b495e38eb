------------------------------- MODULE Ledger -------------------------------
(* The session ledger: a tree of entries, and the conversation that the path *)
(* from its root to a leaf stands for.  No state: SessionTree holds it.      *)
(* An entry's id is its place in the sequence; 0 is no entry.  The parent of *)
(* an entry never changes, so its path from the root is kept with it.        *)
EXTENDS Integers, Sequences, FiniteSetsExt, SequencesExt

(* Messages: what the model said and was told, by id.  A call asks for a tool *)
(* and a tool message answers it; a summary stands for the messages it covers. *)
TextMessage(id) == [id |-> id, role |-> "text", of |-> {}]
CallMessage(id) == [id |-> id, role |-> "call", of |-> {}]
ToolMessage(id, call) == [id |-> id, role |-> "tool", of |-> {call}]
SummaryMessage(covered) == [id |-> 0, role |-> "summary", of |-> covered]

\* The ids a sequence of messages carries, on its own or inside a summary.
Covered(ms) == UNION {IF m.role = "summary" THEN m.of ELSE {m.id} : m \in ToSet(ms)}

(* Entries. *)
NoMark == -1
NoMessage == [id |-> 0, role |-> "none", of |-> {}]
Entry(kind, msg, kept, job) == [kind |-> kind, msg |-> msg, kept |-> kept, job |-> job]
MessageEntry(m) == Entry("message", m, NoMark, "none")
ResetBoundaryEntry == Entry("reset", NoMessage, NoMark, "none")
CheckpointReset == Entry("checkpoint_reset", NoMessage, NoMark, "none")
CompactionEntry(summary, kept) == Entry("compaction", summary, kept, "none")
JobEntry(w) == Entry("job", NoMessage, NoMark, w)

\* The ids from the root to an entry.
Path(es, at) == IF at = 0 THEN <<>> ELSE es[at].path

Row(e, parent, path) ==
  [kind |-> e.kind, msg |-> e.msg, kept |-> e.kept, job |-> e.job, parent |-> parent, path |-> path]

\* One more entry under a parent.
Placed(es, parent, e) == Append(es, Row(e, parent, Append(Path(es, parent), Len(es) + 1)))

\* Each new entry is the parent of the next; the first goes under the leaf.
AppendMany(es, leaf, new) ==
  es \o [k \in DOMAIN new |->
           Row(new[k], IF k = 1 THEN leaf ELSE Len(es) + k - 1,
               Path(es, leaf) \o [j \in 1 .. k |-> Len(es) + j])]

\* The elements of a sequence that are in a set.
Only(s, S) ==
  LET kept[i \in 0 .. Len(s)] ==
        IF i = 0 THEN <<>>
        ELSE IF s[i] \in S THEN Append(kept[i - 1], s[i]) ELSE kept[i - 1]
  IN  kept[Len(s)]

\* The messages of a stretch of a path.
Messages(es, ids) ==
  LET held == Only(ids, {i \in DOMAIN es : es[i].kind = "message"})
  IN  [k \in DOMAIN held |-> es[held[k]].msg]

\* bug: what comes after the first boundary.
AfterFirstReset(es, ids) ==
  LET at == SelectInSeq(ids, LAMBDA i : es[i].kind \in {"reset", "checkpoint_reset"})
  IN  SubSeq(ids, at + 1, Len(ids))

\* What comes after the last boundary, a clear's or a capture's.
AfterLastReset(es, ids) ==
  LET at == SelectLastInSeq(ids, LAMBDA i : es[i].kind \in {"reset", "checkpoint_reset"})
  IN  SubSeq(ids, at + 1, Len(ids))

\* A compaction keeps all, what follows its marker, or what follows itself.
KeptAfter(es, ids, at) ==
  LET kept == es[ids[at]].kept
  IN  CASE kept = 0 -> 0
        [] kept # 0 /\ Contains(ids, kept) -> SelectInSeq(ids, LAMBDA i : i = kept)
        [] OTHER -> at

\* The last compaction and what it keeps.
ApplyLastCompaction(es, ids) ==
  LET at == SelectLastInSeq(ids, LAMBDA i : es[i].kind = "compaction")
  IN  IF at = 0 THEN Messages(es, ids)
      ELSE <<es[ids[at]].msg>> \o Messages(es, SubSeq(ids, KeptAfter(es, ids, at) + 1, Len(ids)))

Calls(ms) == {m.id : m \in {x \in ToSet(ms) : x.role = "call"}}
Answered(ms) == UNION {m.of : m \in {x \in ToSet(ms) : x.role = "tool"}}

\* The messages but calls without their answer and answers without their call.
Paired(ms) ==
  {m \in ToSet(ms) : /\ m.role = "call" => m.id \in Answered(ms)
                     /\ m.role = "tool" => m.of \subseteq Calls(ms)}

WithoutDangling(ms) == Only(ms, Paired(ms))

\* The conversation at a leaf, as recorded and as a graph is seeded with it.
Recorded(es, at) == ApplyLastCompaction(es, AfterLastReset(es, Path(es, at)))
Context(es, at) == WithoutDangling(Recorded(es, at))
Dangling(es, at) == Context(es, at) # Recorded(es, at)

\* The entry before the message that a compaction keeps first; 0 if there is none.
FirstKept(es, at, m) ==
  LET ids == Path(es, at)
      found == SelectLastInSeq(ids, LAMBDA i : es[i].kind = "message" /\ es[i].msg.id = m.id)
  IN  IF found = 0 THEN NoMark ELSE IF found = 1 THEN 0 ELSE ids[found - 1]
============================================================================
