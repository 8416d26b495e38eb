----------------------------- MODULE FilePages -----------------------------
(***************************************************************************)
(* Reading a file in pages, and editing what was read (core/tools/         *)
(* filesystem.py): a selector asks for lines, a long answer is cut, and    *)
(* what was left out is pointed at by the answer's own hints.  The file is *)
(* read twice, once for its digest and its number of lines and once for    *)
(* the lines asked for, while others replace it or write into it; an edit *)
(* needs the text that was read last.                                      *)
(*                                                                         *)
(* A line is its number of characters and their width in bytes.  A digest  *)
(* is the text itself.  A hint that lists bytes is followed at once.       *)
(***************************************************************************)
EXTENDS Integers, Sequences, SequencesExt, FiniteSets

CONSTANTS
  LineKind,      \* the lines there are
  MaxLines,      \* bound: lines of a file
  PageLines,     \* lines of an answer without a range: 200
  HeadLines,     \* lines kept at the beginning of a long answer: 60
  TailLines,     \* and at its end: 25
  ByteBudget,    \* bytes of an answer: 20000
  Gutter,        \* bytes of a line number
  MaxTouched,    \* bound: lines of a file that others write to, and that is edited
  MaxRewrites    \* bound: rewrites of the file

NoText == <<>>
LeastOf(S) == CHOOSE n \in S : \A k \in S : n <= k
MostOf(S) == CHOOSE n \in S : \A k \in S : n >= k

ASSUME PagesAssumption ==
  /\ {PageLines, HeadLines, TailLines} \subseteq Nat \ {0}
  /\ {MaxLines, ByteBudget, Gutter, MaxTouched, MaxRewrites} \subseteq Nat

VARIABLES
  text,      \* the lines of the file
  inode,     \* which file it is: a number that grows when it is replaced
  pass,      \* a read between its passes: NoText, or <<[sel, digest, of, held]>>, where held
             \* is what the file that was opened holds
  editing,   \* an edit between its check and its write: NoText, or <<the text checked>>
  knownText, \* self.reads: NoText, or <<[of, how]>>, the text that was "read" or "written" last
  shownOf,   \* the text the bytes in shownBytes are of: NoText or <<text>>
  shownBytes,\* bytes that were shown, or listed for recovery: <<line, byte>>
  hints,     \* selectors that answers have pointed at and that were not followed yet
  followed,  \* those that were
  rewrites

pageVars ==
  <<text, inode, pass, editing, knownText, shownOf, shownBytes, hints, followed, rewrites>>

SmallTexts == UNION {[1..n -> LineKind] : n \in 0..MaxLines}
LineForm == [op : {"", "tail"}, n : 1..MaxLines, k : {0}] \cup
            [op : {"-", "+"}, n : 1..MaxLines, k : 0..MaxLines]
Onward(n) == [forms |-> {[op |-> "", n |-> n, k |-> 0]}, raw |-> FALSE]
FromTo(n, k) == [forms |-> {[op |-> "-", n |-> n, k |-> k]}, raw |-> FALSE]

LineBytes(line) == line[1] * line[2]
\* The bytes of a line, its end included.
BytesOf(i, line) == {<<i, b>> : b \in 1..(LineBytes(line) + 1)}
AllBytes(lines) == UNION {BytesOf(i, lines[i]) : i \in DOMAIN lines}
-----------------------------------------------------------------------------
\* parse_selector: the lines that a form names; an end before the beginning is an error. It is
\* called first with no lines at all, so a range without an end is always one.
NotASelector(form) == form.op \in {"-", "+"} /\ (form.k < 1 \/ (form.op = "-" /\ form.k < form.n))
RangeOf(form, total) ==
  CASE form.op = "tail" -> MostOf({1, total - form.n + 1}) .. total
    [] form.op = "" -> form.n .. LeastOf({form.n + PageLines - 1, total})
    [] form.op = "-" -> form.n .. LeastOf({form.k, total})
    [] form.op = "+" -> form.n .. LeastOf({form.n + form.k - 1, total})

WantedLines(sel, total) ==
  IF sel.forms = {}
    THEN 1 .. (IF sel.raw THEN total ELSE LeastOf({total, PageLines}))
    ELSE UNION {RangeOf(f, total) : f \in sel.forms}

\* Numbers from the least to the greatest.
Ascending(S) ==
  [i \in 1 .. Cardinality(S) |-> CHOOSE n \in S : Cardinality({m \in S : m < n}) = i - 1]

\* The answer in full, with its line numbers.
FullLength(lines, numbers, gutter) ==
  FoldLeft(LAMBDA sum, i : sum + LineBytes(lines[i]) + gutter + 1, -1, numbers)

\* _bounded_read: the first lines and the last ones are kept, and shown while the budget lasts;
\* a line of which a part was shown ends it.
HeadAndTail(numbers) ==
  LET n == Len(numbers) head == SubSeq(numbers, 1, LeastOf({HeadLines, n})) IN
  [head |-> head, tail |-> SubSeq(numbers, MostOf({HeadLines, n - TailLines}) + 1, n)]

\* Whole characters of a line that fit into that many bytes.
Fitting(line, room) == LeastOf({LineBytes(line), (room \div line[2]) * line[2]})

ShowLine(lines, gutter, so, i) ==
  LET before == gutter + (IF so.rows = 0 THEN 0 ELSE 1)
      fits == so.budget >= before
      part == IF fits THEN Fitting(lines[i], so.budget - before) ELSE 0
      whole == fits /\ part = LineBytes(lines[i])
  IN  [rows |-> IF fits THEN so.rows + 1 ELSE so.rows,
       budget |-> IF part < LineBytes(lines[i]) THEN 0
                  ELSE IF fits THEN so.budget - before - part ELSE so.budget,
       shown |-> so.shown \cup (IF whole THEN BytesOf(i, lines[i])
                                ELSE {<<i, b>> : b \in 1..part}),
       clipped |-> so.clipped \cup (IF whole THEN {}
                                    ELSE {<<i, b>> : b \in (part + 1)..(LineBytes(lines[i]) + 1)})]

Bounded(lines, numbers, gutter) ==
  LET kept == HeadAndTail(numbers)
      middle == Len(numbers) - Len(kept.head) - Len(kept.tail)
      out == FoldLeft(LAMBDA so, i : ShowLine(lines, gutter, so, i),
                      [rows |-> 0, budget |-> ByteBudget, shown |-> {}, clipped |-> {}],
                      kept.head \o kept.tail)
      between == SubSeq(numbers, Len(kept.head) + 1, Len(kept.head) + middle)
  IN  [bytes |-> out.shown \cup out.clipped \cup
                 (IF out.clipped = {} THEN {}
                  ELSE UNION {BytesOf(i, lines[i]) : i \in Range(between)}),
       hints |-> IF middle = 0 THEN {}
                 ELSE {FromTo(Last(kept.head) + 1, Head(kept.tail) - 1)}]

\* Where the answer says that the rest of the file begins: after the last line shown, or at the
\* first line if the last line of the file was shown.
OnlyForward(last, total) == IF last < total THEN {Onward(last + 1)} ELSE {}
Continuation(last, total) == IF last < total THEN {Onward(last + 1)} ELSE {Onward(1)}

\* The bytes an answer shows or lists, and its hints.
Answer(lines, sel) ==
  LET total == Len(lines)
      wanted == WantedLines(sel, total) \cap 1..total
      numbers == Ascending(wanted)
      gutter == IF sel.raw THEN 0 ELSE Gutter
      long == FullLength(lines, numbers, gutter) > ByteBudget
      cut == Bounded(lines, numbers, gutter)
  IN  IF wanted = {} THEN [bytes |-> {}, hints |-> IF total = 0 THEN {} ELSE {Onward(1)}]
      ELSE [bytes |-> IF long THEN cut.bytes ELSE UNION {BytesOf(i, lines[i]) : i \in wanted},
            hints |-> (IF long THEN cut.hints ELSE {}) \cup
                      (IF Cardinality(wanted) < total THEN Continuation(Last(numbers), total)
                       ELSE {})]
-----------------------------------------------------------------------------
PagesInit ==
  /\ text \in SmallTexts /\ inode = 0 /\ pass = NoText /\ editing = NoText /\ knownText = NoText
  /\ shownOf = NoText /\ shownBytes = {} /\ hints = {} /\ followed = {} /\ rewrites = 0

\* read, the first pass: the file is opened, and its digest and its lines are counted. A file
\* is read with any selector at first, and then as its hints say.
FirstPass(sel) ==
  /\ pass = NoText /\ \A f \in sel.forms : ~ NotASelector(f)
  /\ sel \in hints \/ (hints = {} /\ (shownBytes = {} \/ shownOf # <<text>>))
  /\ pass' = <<[sel |-> sel, digest |-> text, of |-> inode, held |-> text]>>
  /\ UNCHANGED <<text, inode, editing, knownText, shownOf, shownBytes, hints, followed, rewrites>>

\* The second pass: if what the open file holds has another digest the read has failed. What
\* an answer shows of another text than before makes the hints of before worthless.
SecondPass ==
  /\ pass # NoText /\ pass' = NoText
  /\ LET p == pass[1] answer == Answer(p.held, p.sel) IN
     IF p.held # p.digest
       THEN UNCHANGED <<knownText, shownOf, shownBytes, hints, followed>>
       ELSE /\ knownText' = <<[of |-> p.digest, how |-> "read"]>> /\ shownOf' = <<p.held>>
            /\ IF shownOf = <<p.held>>
                 THEN /\ shownBytes' = shownBytes \cup answer.bytes
                      /\ followed' = followed \cup (hints \cap {p.sel})
                      /\ hints' = (hints \cup answer.hints) \ followed'
                 ELSE /\ shownBytes' = answer.bytes /\ followed' = {}
                      /\ hints' = answer.hints
  /\ UNCHANGED <<text, inode, editing, rewrites>>

Rewritten == rewrites < MaxRewrites /\ rewrites' = rewrites + 1
Rewordings == {Append(text, l) : l \in LineKind} \cup
           (IF text = <<>> THEN {} ELSE {Front(text)})

\* atomic_write: another file takes the place of the one that may be open.
Replaces(lines) == text' = lines /\ inode' = inode + 1 /\ UNCHANGED pass
WritesText(lines) == Replaces(lines) /\ knownText' = <<[of |-> lines, how |-> "written"]>>

\* edit: only the text that was read last is edited; the file is replaced later.
EditChecks ==
  /\ editing = NoText /\ Len(text) <= MaxTouched /\ rewrites < MaxRewrites
  /\ knownText # NoText /\ knownText[1].of = text /\ editing' = <<text>>
  /\ UNCHANGED <<text, inode, pass, knownText, shownOf, shownBytes, hints, followed, rewrites>>

EditWrites ==
  /\ editing # NoText /\ editing' = NoText /\ Rewritten
  /\ \E lines \in {Append(editing[1], l) : l \in LineKind} : WritesText(lines)
  /\ UNCHANGED <<shownOf, shownBytes, hints, followed>>

\* write: the whole file, whatever was read; it has then been read.
WriteFile ==
  /\ Len(text) <= MaxTouched /\ Rewritten
  /\ \E lines \in Rewordings : WritesText(lines)
  /\ UNCHANGED <<editing, shownOf, shownBytes, hints, followed>>

\* Others replace the file, or write into it, which the read that has it open comes to see.
OthersReplace ==
  /\ Len(text) <= MaxTouched /\ Rewritten
  /\ \E lines \in Rewordings : Replaces(lines)
  /\ UNCHANGED <<editing, knownText, shownOf, shownBytes, hints, followed>>

OthersWriteInto ==
  /\ Len(text) <= MaxTouched /\ Rewritten /\ UNCHANGED inode
  /\ text' \in Rewordings
  /\ pass' = IF pass # NoText /\ pass[1].of = inode
               THEN <<[pass[1] EXCEPT !.held = text']>> ELSE pass
  /\ UNCHANGED <<editing, knownText, shownOf, shownBytes, hints, followed>>

FirstAsked == {[forms |-> {}, raw |-> FALSE], [forms |-> {}, raw |-> TRUE]} \cup
              {[forms |-> {f}, raw |-> FALSE] : f \in LineForm}

PagesNext ==
  \/ \E sel \in FirstAsked \cup hints : FirstPass(sel)
  \/ SecondPass \/ EditChecks \/ EditWrites \/ WriteFile \/ OthersReplace \/ OthersWriteInto

PagesSpec == PagesInit /\ [][PagesNext]_pageVars
-----------------------------------------------------------------------------
PagesTypeOK ==
  /\ text \in Seq(LineKind) /\ inode \in 0..MaxRewrites
  /\ Len(pass) <= 1 /\ Len(editing) <= 1 /\ Len(knownText) <= 1 /\ Len(shownOf) <= 1
  /\ \A h \in hints \cup followed : h.raw \in BOOLEAN /\ \A f \in h.forms : f.n \in Nat
  /\ shownBytes \subseteq (Nat \X Nat) /\ rewrites \in 0..MaxRewrites

\* Whoever has followed every hint has every byte of the file: an answer may leave out lines
\* before, between or after those it shows, and bytes of a line, but never without a hint that
\* leads to them, from whichever lines the reading began.
HintsLeadEverywhere ==
  shownOf # NoText /\ hints = {} => shownBytes = AllBytes(shownOf[1])

\* What a read has left as the text to be edited is what its answer showed, though the file is
\* read twice and others change it in between; and a hint is a selector that is not refused.
KnownWasShown ==
  /\ knownText # NoText /\ knownText[1].how = "read" => shownOf = <<knownText[1].of>>
  /\ \A h \in hints : \A f \in h.forms : ~ NotASelector(f)

PagesSound == HintsLeadEverywhere /\ KnownWasShown
=============================================================================
