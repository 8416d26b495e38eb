------------------------------ MODULE FileEdits ------------------------------
(***************************************************************************)
(* Line edits of a file under snapshot tags (core/tools/hashline.py), for  *)
(* one file and one thread, beside somebody else who writes the file.      *)
(*                                                                         *)
(* A tag is 16 bits: different contents may have the same. The full digest *)
(* of a content is as good as the content. Line ends are left out.         *)
(***************************************************************************)
EXTENDS Integers, FiniteSets, SequencesExt

CONSTANTS
  Line,          \* the texts a line may have
  MaxLen,        \* bound: lines of a file
  MaxSnapshots,  \* MAX_SNAPSHOTS
  MaxChanges     \* bound: how often the file changes

ASSUME FileAssumption == {MaxLen, MaxSnapshots} \subseteq Nat \ {0} /\ MaxChanges \in Nat

VARIABLES
  disk,       \* the lines of the file
  snapshots,  \* HashlineTools.snapshots, oldest first
  firstSeen,  \* tag_digests: the first content remembered under each tag
  ambiguous,  \* ambiguous_tags
  shown,      \* per tag, the numbered lines the model was given under it
  plan,       \* the edit that has passed every check and is not written yet
  changes

fileVars == <<disk, snapshots, firstSeen, ambiguous, shown, plan, changes>>

Content == UNION {[1 .. n -> Line] : n \in 0 .. MaxLen}
Tag == 0 .. 1

\* file_hash: a label that several contents share.
TagOf(content) == Len(content) % 2

NoPlan == [tag |-> -1]

FileInit ==
  /\ disk \in {c \in Content : Len(c) > 0}
  /\ snapshots = <<>>
  /\ firstSeen = [t \in Tag |-> {}]
  /\ ambiguous = {}
  /\ shown = [t \in Tag |-> {}]
  /\ plan = NoPlan /\ changes = 0

-----------------------------------------------------------------------------
(* Snapshots. *)

\* bug: what is known of a tag goes with its snapshot
AmbiguousWhileKept(tag, content) ==
  \E i \in DOMAIN snapshots : snapshots[i].tag = tag /\ snapshots[i].content # content

\* The tag has once stood for another content, whether or not its snapshot is still kept.
Ambiguous(tag, content) == firstSeen[tag] \ {content} # {}

\* bug: one snapshot too many stays
OneTooMany(all) == IF Len(all) > MaxSnapshots + 1 THEN Tail(all) ELSE all

\* The oldest snapshot falls out of a full cache.
Trimmed(all) == IF Len(all) > MaxSnapshots THEN Tail(all) ELSE all

\* Without the snapshot of this content: there is one at most.
Others(content) ==
  LET same == {i \in DOMAIN snapshots : snapshots[i].content = content}
  IN  IF same = {} THEN snapshots ELSE RemoveAt(snapshots, CHOOSE i \in same : TRUE)

\* _remember: the newest snapshot goes last, one of the same content is replaced.
Remember(content, seen) ==
  LET tag == TagOf(content)
      all == Append(Others(content), [tag |-> tag, content |-> content, seen |-> seen])
  IN  /\ snapshots' = Trimmed(all)
      /\ firstSeen' = [firstSeen EXCEPT ![tag] = IF @ = {} THEN {content} ELSE @]
      /\ ambiguous' = IF Ambiguous(tag, content) THEN ambiguous \union {tag} ELSE ambiguous
      /\ shown' = [shown EXCEPT ![tag] = @ \union {<<n, content[n]>> : n \in seen}]

SeenOf(content) ==
  UNION {snapshots[i].seen : i \in {j \in DOMAIN snapshots : snapshots[j].content = content}}

\* read: a range of lines, with what is known of them from earlier reads of the same content.
Read(first, last) ==
  /\ plan = NoPlan
  /\ 1 <= first /\ first <= last /\ last <= Len(disk)
  /\ Remember(disk, (first .. last) \union SeenOf(disk))
  /\ UNCHANGED <<disk, plan, changes>>

-----------------------------------------------------------------------------
(* SequenceMatcher.get_matching_blocks: the pairs of equal lines of a and b. *)

Block(a, b, i, j, k) == \A d \in 0 .. k - 1 : a[i + d] = b[j + d]

\* An area: from where to where in a, and in b.
Area == (1 .. MaxLen + 1) \X (0 .. MaxLen) \X (1 .. MaxLen + 1) \X (0 .. MaxLen)

\* The longest block within an area, the first in a and then in b.
Longest(a, b, q) ==
  LET blocks == {t \in (q[1] .. q[2]) \X (q[3] .. q[4]) \X (1 .. MaxLen) :
                   /\ t[1] + t[3] - 1 <= q[2] /\ t[2] + t[3] - 1 <= q[4]
                   /\ Block(a, b, t[1], t[2], t[3])}
      better(s, t) == \/ s[3] > t[3]
                      \/ s[3] = t[3] /\ s[1] < t[1]
                      \/ s[3] = t[3] /\ s[1] = t[1] /\ s[2] <= t[2]
  IN  {s \in blocks : \A t \in blocks : better(s, t)}

\* The pairs of the longest block, and what matches before it and after it.
Around(match, q, s) ==
  {<<s[1] + d, s[2] + d>> : d \in 0 .. s[3] - 1}
    \union match[<<q[1], s[1] - 1, q[3], s[2] - 1>>]
    \union match[<<s[1] + s[3], q[2], s[2] + s[3], q[4]>>]

Matching(a, b) ==
  LET match[q \in Area] == UNION {Around(match, q, s) : s \in Longest(a, b, q)}
  IN  match[<<1, Len(a), 1, Len(b)>>]

-----------------------------------------------------------------------------
(* Edits. A hunk replaces the lines first..last by body; an insertion has  *)
(* last = first - 1, and an anchor unless it is at an end of the file.     *)

Hunk(first, last, body, anchors) ==
  [first |-> first, last |-> last, body |-> body, anchors |-> anchors]

PutHunks(first, last, anchors) == {Hunk(first, last, <<l>>, anchors) : l \in Line}
CutHunk(first, last) == Hunk(first, last, <<>>, first .. last)
Ranges(total) == {r \in (1 .. total) \X (1 .. total) : r[1] <= r[2]}

\* _hunks: CUT and PUT of a range, PUT before and after a line, at either end.
Hunks(total) ==
  UNION ({PutHunks(r[1], r[2], r[1] .. r[2]) \union {CutHunk(r[1], r[2])} : r \in Ranges(total)}
           \union {PutHunks(i, i - 1, {i}) : i \in 2 .. total}
           \union {PutHunks(i + 1, i, {i}) : i \in 1 .. total}
           \union {PutHunks(1, 0, {}), PutHunks(total + 1, total, {})})

Count(content, line) == Cardinality({i \in DOMAIN content : content[i] = line})

\* _recover, for a line of the snapshot: it is the only one of its text, then and now.
Found(old, new, anchor) ==
  /\ \E p \in Matching(old, new) : p[1] = anchor
  /\ Count(old, old[anchor]) = 1 /\ Count(new, old[anchor]) = 1

Position(old, new, anchor) == CHOOSE j \in DOMAIN new : <<anchor, j>> \in Matching(old, new)

\* _recover, for a hunk: every anchor is found, and together they are still one range.
Recoverable(old, new, h) ==
  /\ h.anchors # {} /\ \A k \in h.anchors : Found(old, new, k)
  /\ \A k, l \in h.anchors :
       Position(old, new, l) - Position(old, new, k) = l - k

Shift(old, new, h) ==
  LET k == CHOOSE k \in h.anchors : TRUE IN Position(old, new, k) - k

Moved(h, by) == [h EXCEPT !.first = @ + by, !.last = @ + by]

\* Sorted by place, they neither overlap nor start at the same line.
Disjoint(g, h) == g.first # h.first /\ (g.last < h.first \/ h.last < g.first)

\* _apply_hunks: from the last to the first, so that places before a hunk stay right.
Splice(content, h) ==
  SubSeq(content, 1, h.first - 1) \o h.body \o SubSeq(content, h.last + 1, Len(content))

Apply(content, g, h) ==
  CASE g = h -> Splice(content, g)
    [] g.first > h.first -> Splice(Splice(content, g), h)
    [] g.first < h.first -> Splice(Splice(content, h), g)

\* The lines of the result that need no reading: those taken over from lines that were seen,
\* and the new ones.
NewSeen(snapshot, original, updated) ==
  {p[2] : p \in {q \in Matching(snapshot.content, updated) : q[1] \in snapshot.seen}}
    \union (DOMAIN updated \ {p[2] : p \in Matching(original, updated)})

Candidates(tag) == {i \in DOMAIN snapshots : snapshots[i].tag = tag}

\* edit, up to its first write: all checks of one section of one or two hunks.
Edit(tag) ==
  /\ plan = NoPlan
  /\ tag \notin ambiguous /\ Cardinality(Candidates(tag)) = 1
  /\ LET snapshot == snapshots[CHOOSE i \in Candidates(tag) : TRUE]
         old == snapshot.content
         fresh == old = disk
         usable == {h \in Hunks(Len(old)) : /\ h.anchors \subseteq snapshot.seen
                                           /\ (fresh \/ Recoverable(old, disk, h))}
         moved(h) == IF fresh THEN h ELSE Moved(h, Shift(old, disk, h))
         place(k) == IF fresh THEN k ELSE Position(old, disk, k)
     IN  \E g, h \in usable :
           LET hunks == {moved(g), moved(h)}
               updated == Apply(disk, moved(g), moved(h))
           IN  /\ g = h \/ Disjoint(moved(g), moved(h))
               /\ Len(updated) <= MaxLen
               /\ plan' = [tag |-> tag, original |-> disk, updated |-> updated, hunks |-> hunks,
                           seen |-> NewSeen(snapshot, disk, updated),
                           hits |-> {<<k, place(k)>> : k \in g.anchors \union h.anchors}]
  /\ UNCHANGED <<disk, snapshots, firstSeen, ambiguous, shown, changes>>

\* atomic_write, and the result with its new tag.
Write ==
  /\ plan # NoPlan /\ changes < MaxChanges
  /\ disk' = plan.updated
  /\ Remember(plan.updated, plan.seen)
  /\ plan' = NoPlan /\ changes' = changes + 1

\* Another process, another thread, or the write tool.
ElsewhereWritten(content) ==
  /\ changes < MaxChanges /\ content # disk
  /\ disk' = content /\ changes' = changes + 1
  /\ UNCHANGED <<snapshots, firstSeen, ambiguous, shown, plan>>

FileNext ==
  \/ \E i, j \in 1 .. MaxLen : Read(i, j)
  \/ \E t \in Tag : Edit(t)
  \/ Write
  \/ \E c \in Content : ElsewhereWritten(c)

FileSpec == FileInit /\ [][FileNext]_fileVars

-----------------------------------------------------------------------------
FileTypeOK ==
  /\ disk \in Content
  /\ \A i \in DOMAIN snapshots : snapshots[i].content \in Content
  /\ Len(snapshots) <= MaxSnapshots
  /\ ambiguous \subseteq Tag

\* By how much a hunk moves a line that it does not name.
Growth(h, n) == IF h.first <= n THEN Len(h.body) - (h.last - h.first + 1) ELSE 0

\* An edit touches no line but those it names, and each line it names has, in the file as it is
\* now, the one text the model was ever given for that number under that tag: whatever happened
\* to the file since, however many contents share the tag, and also when the snapshot had
\* fallen out of the cache meanwhile (hashline.py 194-214, 263-284, 305-358).
EditsHitWhatWasShown ==
  plan # NoPlan =>
    /\ \A p \in plan.hits :
         {t \in Line : <<p[1], t>> \in shown[plan.tag]} = {plan.original[p[2]]}
    /\ \A n \in DOMAIN plan.original :
         \/ \E h \in plan.hunks : h.first <= n /\ n <= h.last
         \/ \A g, h \in plan.hunks : plan.hunks = {g, h} =>
              LET by == IF g = h THEN Growth(g, n) ELSE Growth(g, n) + Growth(h, n)
              IN  plan.updated[n + by] = plan.original[n]
=============================================================================
