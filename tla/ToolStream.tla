------------------------------ MODULE ToolStream ------------------------------
(***************************************************************************)
(* How a turn turns the stream of its graph into tool cards (turn.py): the *)
(* model's calls arrive in pieces, several calls of a response and several *)
(* agents at once, and _ToolCallBuffer shows a call when its arguments can *)
(* be read; a rule may break a response off, and it is asked for again;    *)
(* the results arrive in updates of the graph, which repeat results that   *)
(* were told before; _FileDiffCapture reads the file of an edit when the   *)
(* call is shown and when its result arrives.                              *)
(*                                                                         *)
(* One turn: the next starts with new buffers.  Every call edits the same  *)
(* file.  The arguments of a call are numbered pieces and can be read when *)
(* they are all there, in order, and nothing else.                         *)
(***************************************************************************)
EXTENDS Naturals, Sequences, FiniteSets, SequencesExt

CONSTANTS
  Agent,         \* sources: the main agent and the graphs below it
  MaxCalls,      \* bound: calls of the turn
  MaxParallel,   \* bound: calls of one response
  MaxPieces,     \* bound: pieces of a call's arguments
  MaxAborts      \* bound: responses a rule breaks off

VARIABLES
  asked,      \* by call: source, slot, pieces, whether streamed, phase
  arrived,    \* by call: the chunks of it that have arrived
  pending,    \* _pending: by key, the names, the pieces and the id gathered
  emitted,    \* _emitted
  begun,      \* the ToolCallStart events, in order
  over,       \* the ToolCallEnd events, in order
  resultsSeen,\* seen_results
  version,    \* of the file
  wrote,      \* by call: the version it wrote, 0 if none
  before,     \* _FileDiffCapture._pending: the version read when the call was shown
  diffs,      \* the differences shown, as [id, before, after]
  aborted,    \* responses broken off so far
  torn        \* history: calls whose slot held pieces of a response broken off

streamVars == <<asked, arrived, pending, emitted, begun, over, resultsSeen, version, wrote,
                before, diffs, aborted, torn>>

Calls == DOMAIN asked
Of(s, phase) == {c \in Calls : asked[c].source = s /\ asked[c].phase = phase}
Empty == [names |-> 0, args |-> <<>>, id |-> 0]

StreamInit ==
  /\ asked = <<>> /\ arrived = <<>> /\ emitted = {} /\ begun = <<>> /\ over = <<>>
  /\ pending = [k \in Agent \X (1..MaxParallel) |-> Empty]
  /\ resultsSeen = {} /\ version = 0 /\ wrote = <<>> /\ before = <<>> /\ diffs = {}
  /\ aborted = 0 /\ torn = {}
-----------------------------------------------------------------------------
\* The key of a chunk: its source and its place in the response.
OneKeyForAll(s, slot) == <<CHOOSE a \in Agent : TRUE, slot>>
KeyOf(s, slot) == <<s, slot>>

\* The model of source s begins a response with n calls, streamed or in one piece.
BeginResponse(s, pieces, streamed) ==
  LET first == Len(asked)
      n == Len(pieces)
      new == {first + i : i \in 1..n}
  IN  /\ Of(s, "asked") = {} /\ Of(s, "called") = {} /\ first + n <= MaxCalls
      /\ asked' = asked \o [i \in 1..n |-> [source |-> s, slot |-> i, pieces |-> pieces[i],
                                            streamed |-> streamed, phase |-> "asked"]]
      /\ arrived' = arrived \o [i \in 1..n |-> 0]
      /\ wrote' = wrote \o [i \in 1..n |-> 0]
      /\ before' = before \o [i \in 1..n |-> <<>>]
      /\ torn' = IF streamed
                 THEN torn \union {c \in new : pending[KeyOf(s, c - first)] # Empty}
                 ELSE torn
      /\ UNCHANGED <<pending, emitted, begun, over, resultsSeen, version, diffs, aborted>>

\* ToolCallStart is shown, and the file read before the tool runs.
ShowCall(c, names) ==
  /\ emitted' = emitted \union {<<asked[c].source, c>>}
  /\ begun' = Append(begun, [id |-> c, names |-> names])
  /\ before' = [before EXCEPT ![c] = <<version>>]

\* The chunks of a call: the first has its name and id, the others a piece each.
\* add: a call is shown as soon as its arguments can be read.
ChunkArrives(c) ==
  LET k == KeyOf(asked[c].source, asked[c].slot)
      n == arrived[c]
      held == IF n = 0 THEN [pending[k] EXCEPT !.names = @ + 1, !.id = c]
              ELSE [pending[k] EXCEPT !.args = Append(@, <<c, n>>)]
      readable == /\ held.names > 0 /\ held.id # 0
                  /\ held.args = [i \in 1..asked[held.id].pieces |-> <<held.id, i>>]
                  /\ <<asked[c].source, held.id>> \notin emitted
  IN  /\ asked[c].phase = "asked" /\ asked[c].streamed /\ n <= asked[c].pieces
      /\ arrived' = [arrived EXCEPT ![c] = n + 1]
      /\ pending' = [pending EXCEPT ![k] = IF readable THEN Empty ELSE held]
      /\ IF readable THEN ShowCall(held.id, held.names)
         ELSE UNCHANGED <<emitted, begun, before>>
      /\ UNCHANGED <<asked, over, resultsSeen, version, wrote, diffs, aborted, torn>>

\* A message without chunks: its calls are shown at once, each once.
WholeCall(c) ==
  /\ asked[c].phase = "asked" /\ ~asked[c].streamed
  /\ <<asked[c].source, c>> \notin emitted
  /\ ShowCall(c, 1)
  /\ arrived' = [arrived EXCEPT ![c] = asked[c].pieces + 1]
  /\ UNCHANGED <<asked, pending, over, resultsSeen, version, wrote, diffs, aborted, torn>>

\* All of it has arrived: the graph runs the calls.
EndResponse(s) ==
  /\ Of(s, "asked") # {}
  /\ \A c \in Of(s, "asked") : arrived[c] = asked[c].pieces + 1
  /\ asked' = [c \in Calls |-> IF c \in Of(s, "asked") THEN [asked[c] EXCEPT !.phase = "called"]
                               ELSE asked[c]]
  /\ UNCHANGED <<arrived, pending, emitted, begun, over, resultsSeen, version, wrote, before,
                 diffs, aborted, torn>>

\* A rule breaks the response off (intercepted_stream); the buffer keeps what it has.
AbortResponse(s) ==
  /\ aborted < MaxAborts /\ Of(s, "asked") # {}
  /\ aborted' = aborted + 1
  /\ asked' = [c \in Calls |-> IF c \in Of(s, "asked") THEN [asked[c] EXCEPT !.phase = "dropped"]
                               ELSE asked[c]]
  /\ UNCHANGED <<arrived, pending, emitted, begun, over, resultsSeen, version, wrote, before,
                 diffs, torn>>

\* The tool writes the file, or does not.
RunCall(c, writes) ==
  /\ asked[c].phase = "called"
  /\ asked' = [asked EXCEPT ![c].phase = "ran"]
  /\ version' = IF writes THEN version + 1 ELSE version
  /\ wrote' = IF writes THEN [wrote EXCEPT ![c] = version + 1] ELSE wrote
  /\ UNCHANGED <<arrived, pending, emitted, begun, over, resultsSeen, before, diffs, aborted,
                 torn>>

\* finish: the difference since the call was shown, if there is one.
Difference(c) ==
  IF before[c] = <<>> \/ before[c] = <<version>> THEN {}
  ELSE {[id |-> c, before |-> before[c][1], after |-> version]}

EveryTime(results) == results
NotSeen(results) == SelectSeq(results, LAMBDA c : c \notin resultsSeen)

\* _updates_event: an update of the graph with these results in it.
ResultsArrive(results) ==
  LET fresh == NotSeen(results) IN
  /\ results # <<>> /\ \A c \in Range(results) : asked[c].phase \in {"ran", "told"}
  /\ over' = over \o fresh
  /\ resultsSeen' = resultsSeen \union Range(fresh)
  /\ diffs' = diffs \union UNION {Difference(c) : c \in Range(fresh)}
  /\ before' = [c \in Calls |-> IF c \in Range(fresh) THEN <<>> ELSE before[c]]
  /\ asked' = [c \in Calls |-> IF c \in Range(results) THEN [asked[c] EXCEPT !.phase = "told"]
                               ELSE asked[c]]
  /\ UNCHANGED <<arrived, pending, emitted, begun, version, wrote, aborted, torn>>

StreamNext ==
  \/ \E s \in Agent, n \in 1..MaxParallel, streamed \in BOOLEAN :
       \E pieces \in [1..n -> 1..MaxPieces] : BeginResponse(s, pieces, streamed)
  \/ \E s \in Agent : EndResponse(s) \/ AbortResponse(s)
  \/ \E c \in Calls : ChunkArrives(c) \/ WholeCall(c) \/ \E writes \in BOOLEAN : RunCall(c, writes)
  \* one result, or those of a compaction, which repeats what it keeps
  \/ \E c \in Calls : ResultsArrive(<<c>>)
  \/ ResultsArrive(SelectSeq([i \in Calls |-> i], LAMBDA c : asked[c].phase \in {"ran", "told"}))
-----------------------------------------------------------------------------
StreamTypeOK ==
  /\ torn \subseteq Calls /\ resultsSeen \subseteq Calls /\ Len(arrived) = Len(asked)
  /\ \A k \in DOMAIN pending : pending[k].id \in Calls \union {0}

Begins(c) == SelectSeq(begun, LAMBDA e : e.id = c)
Ends(c) == SelectSeq(over, LAMBDA e : e = c)

\* A call gets one card, with its own name and arguments, before its tool runs, and one
\* result, however the pieces of the calls and agents alternate and however often the
\* graph repeats a result.  A call that takes the slot of one that was broken off is left
\* out: its pieces are added to the old ones, and it is shown late or under a wrong name.
CardPerCall ==
  \A c \in Calls :
    /\ Len(Ends(c)) <= 1 /\ Len(Begins(c)) <= 1
    /\ c \notin torn /\ asked[c].phase \in {"called", "ran", "told"} =>
         Begins(c) = <<[id |-> c, names |-> 1]>>
    /\ asked[c].phase = "told" => Len(Ends(c)) = 1

\* The difference shown for an edit contains the edit.
DiffsCoverEdits ==
  \A c \in Calls \ torn : asked[c].phase = "told" /\ wrote[c] # 0 =>
    \E d \in diffs : d.id = c /\ d.before < wrote[c] /\ wrote[c] <= d.after

ToolCardsSound == CardPerCall /\ DiffsCoverEdits
=============================================================================
