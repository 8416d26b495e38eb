----------------------------- MODULE Compaction -----------------------------
(***************************************************************************)
(* The compactor and its middleware: when a conversation is compacted,     *)
(* what of it is kept, summaries made ahead of time, and attempts that     *)
(* bring nothing (core/compaction.py 60-485).                              *)
(*                                                                         *)
(* A message is a record: a text, an answer, a call, the tool's answer to  *)
(* it, or a summary with the messages it stands for.  Sizes are small      *)
(* numbers, so that a result of at least 95 % of the size is one that is   *)
(* not smaller.                                                            *)
(***************************************************************************)
EXTENDS Integers, FiniteSets, SequencesExt

CONSTANTS
  Threshold,   \* policy.threshold(window)
  KeepRecent,  \* policy.keep_recent_tokens
  MaxSize,     \* the largest message
  MaxSaid, MaxSummaries   \* bounds of the instance

VARIABLES
  chat,     \* the messages of the graph state
  work,     \* the messages of the model call in hand
  step,     \* where the model call is
  trigger,  \* what the compaction in hand is for
  retried,  \* the call has been repeated after an overflow
  spec,     \* _speculation with its key
  taken,    \* the speculation that compact awaits
  blocked,  \* _blocked_prefixes
  said, summaries

compactVars == <<chat, work, step, trigger, retried, spec, taken, blocked, said, summaries>>

NoSpec == [state |-> "none", key |-> <<>>, covers |-> {}, size |-> 0]
Msg(kind, size) == [id |-> said + 1, kind |-> kind, size |-> size, covers |-> {said + 1},
                    futile |-> FALSE]

CompactInit ==
  /\ chat = <<>> /\ work = <<>> /\ step = "idle" /\ trigger = "none" /\ retried = FALSE
  /\ spec = NoSpec /\ taken = NoSpec /\ blocked = {} /\ said = 0 /\ summaries = 0

-----------------------------------------------------------------------------
(* Pure parts. *)

Size(ms) == FoldLeft(LAMBDA n, m : n + m.size, 0, ms)
Covered(ms) == UNION {ms[i].covers : i \in DOMAIN ms}

\* prune_results: the answer of a read that was repeated shrinks.
Prune(ms) ==
  [i \in DOMAIN ms |-> IF ms[i].kind = "tool" /\ \E j \in (i + 1)..Len(ms) : ms[j].kind = "tool"
                         THEN [ms[i] EXCEPT !.size = 1] ELSE ms[i]]

\* _key
Key(ms) == [i \in DOMAIN ms |-> <<ms[i].id, ms[i].size>>]

\* Where the tail may begin: the messages from there on fit what is to be kept.
Fits(ms, i) == Size(SubSeq(ms, i, Len(ms))) <= KeepRecent
Boundaries(ms, kinds) == {i \in 2..Len(ms) : ms[i].kind \in kinds}
Least(S, default) == IF S = {} THEN default ELSE CHOOSE x \in S : \A y \in S : x <= y
Greatest(S, default) == IF S = {} THEN default ELSE CHOOSE x \in S : \A y \in S : x >= y

\* bug: the tail begins at whatever message fits
CutAnywhere(ms) == Least({i \in 2..Len(ms) : Fits(ms, i)}, Len(ms) + 1)

\* _partition: the first message of the tail. It is a text or an answer of the model; if none
\* fits and the conversation ends in a tool's answer, the call of that answer.
Cut(ms) ==
  LET cut == Least({i \in Boundaries(ms, {"human", "ai", "call"}) : Fits(ms, i)}, Len(ms) + 1)
  IN  IF cut = Len(ms) + 1 /\ ms # <<>> /\ Last(ms).kind = "tool"
        THEN Greatest(Boundaries(ms, {"ai", "call"}), cut) ELSE cut

Prefix(ms) == SubSeq(Prune(ms), 1, Cut(Prune(ms)) - 1)
TailOf(ms) == SubSeq(Prune(ms), Cut(Prune(ms)), Len(ms))

\* needed: manual compactions are not the middleware's.
Needed(ms, why) ==
  /\ why \in {"overflow", "length"} \/ Size(ms) >= Threshold
  /\ Key(Prefix(ms)) \notin blocked

-----------------------------------------------------------------------------
(* compact. *)

\* bug: the speculation in hand is used whatever it is of
MatchesAny(ms) == spec.state # "none"

\* A speculation is used if its prefix is still the prefix.
Matches(ms) == spec.state # "none" /\ spec.key = Key(Prefix(ms))

StartCompact(ms, why) ==
  /\ work' = ms /\ trigger' = why
  /\ IF Matches(ms) THEN step' = "awaiting" /\ taken' = spec /\ spec' = NoSpec
                    ELSE step' = "compacting" /\ UNCHANGED <<taken, spec>>

\* bug: only the conversation that was compacted is blocked, not the one it became
BlockOriginal(before, after) ==
  IF Size(after) >= Size(before) THEN blocked \union {Key(Prefix(before))} ELSE blocked

\* _check_reduction
CheckReduction(before, after) ==
  IF Size(after) >= Size(before)
    THEN blocked \union {Key(Prefix(before)), Key(Prefix(after))} ELSE blocked

Marker(covers, size, before, tail) ==
  [id |-> 100 + summaries, kind |-> "summary", size |-> size, covers |-> covers,
   futile |-> size + Size(tail) >= Size(before)]

\* Where the middleware goes with the compacted messages.
Proceed(ms, why) ==
  IF why = "post" THEN /\ chat' = ms /\ work' = <<>> /\ step' = "idle"
                  ELSE /\ work' = ms /\ step' = "model" /\ UNCHANGED chat

Summarised(covers, size) ==
  LET tail == TailOf(work)
      result == <<Marker(covers, size, work, tail)>> \o tail
  IN  /\ summaries < MaxSummaries /\ summaries' = summaries + 1
      /\ blocked' = CheckReduction(work, result)
      /\ Proceed(result, trigger)
      /\ trigger' = "none"
      /\ retried' = (retried \/ trigger = "overflow")

\* The awaited speculation is done, and its summary stands for the prefix; or it failed or only
\* shook, and the compaction starts over.
SpeculationUsed ==
  /\ step = "awaiting"
  /\ \/ /\ taken.state = "done"
        /\ Summarised(taken.covers, taken.size)
        /\ taken' = NoSpec
     \/ /\ taken.state = "failed"
        /\ step' = "compacting" /\ taken' = NoSpec
        /\ UNCHANGED <<chat, work, trigger, retried, blocked, summaries>>
  /\ UNCHANGED <<spec, said>>

\* _compact_impl: the first method that works. With no summary, superseded results are shaken out.
Compacts ==
  /\ step = "compacting"
  /\ \/ \E size \in 1..MaxSize : Summarised(Covered(Prefix(work)), size)
     \/ /\ Prune(work) # work
        /\ blocked' = CheckReduction(work, Prune(work))
        /\ Proceed(Prune(work), trigger)
        /\ trigger' = "none" /\ retried' = (retried \/ trigger = "overflow")
        /\ UNCHANGED summaries
  /\ UNCHANGED <<spec, taken, said>>

\* No method works: the model call fails, and what it had in hand is dropped.
CompactionFails ==
  /\ step = "compacting" /\ Prune(work) = work
  /\ step' = "idle" /\ work' = <<>> /\ trigger' = "none"
  /\ UNCHANGED <<chat, retried, spec, taken, blocked, said, summaries>>

-----------------------------------------------------------------------------
(* awrap_model_call, and the turn around it. *)

\* The user speaks, or a tool answers: the model is called.
Speaks(size) ==
  /\ step = "idle" /\ said < MaxSaid /\ said' = said + 1
  /\ LET kind == IF chat # <<>> /\ Last(chat).kind = "call" THEN "tool" ELSE "human"
         ms == Append(chat, Msg(kind, size))
     IN  /\ chat' = ms
         /\ \/ Needed(ms, "mid") /\ StartCompact(ms, "mid")
            \/ /\ ~Needed(ms, "mid")
               /\ step' = "model" /\ work' = ms /\ UNCHANGED <<trigger, taken, spec>>
  /\ retried' = FALSE
  /\ UNCHANGED <<blocked, summaries>>

\* The model calls a tool.
Calls(size) ==
  /\ step = "model" /\ said < MaxSaid /\ said' = said + 1
  /\ chat' = Append(work, Msg("call", size)) /\ work' = <<>> /\ step' = "idle"
  /\ UNCHANGED <<trigger, retried, spec, taken, blocked, summaries>>

\* speculate: a summary is made ahead of time when the conversation is near the threshold.
Speculate(ms) ==
  IF /\ 4 * Size(ms) >= 3 * Threshold
     /\ spec.key # Key(Prefix(ms)) /\ Key(Prefix(ms)) \notin blocked
    THEN spec' = [state |-> "running", key |-> Key(Prefix(ms)), covers |-> Covered(Prefix(ms)),
                  size |-> 0]
    ELSE UNCHANGED spec

\* It answers: after that the conversation is compacted, or a summary is begun.
Answers(size, why) ==
  /\ step = "model" /\ said < MaxSaid /\ said' = said + 1
  /\ LET ms == Append(work, Msg("ai", size))
     IN  \/ Needed(ms, why) /\ StartCompact(ms, "post") /\ UNCHANGED chat
         \/ /\ ~Needed(ms, why)
            /\ chat' = ms /\ work' = <<>> /\ step' = "idle"
            /\ Speculate(ms)
            /\ UNCHANGED <<trigger, taken>>
  /\ UNCHANGED <<retried, blocked, summaries>>

\* The provider refuses the length: one more try with a compacted conversation.
Overflows ==
  /\ step = "model"
  /\ \/ ~retried /\ Needed(work, "overflow") /\ StartCompact(work, "overflow") /\ UNCHANGED chat
     \/ /\ retried \/ ~Needed(work, "overflow")
        /\ step' = "idle" /\ work' = <<>> /\ UNCHANGED <<chat, trigger, spec, taken>>
  /\ UNCHANGED <<retried, blocked, said, summaries>>

\* The speculative task ends.
Ends(task) == \/ \E size \in 1..MaxSize : task' = [task EXCEPT !.state = "done", !.size = size]
              \/ task' = [task EXCEPT !.state = "failed"]
SpeculationEnds ==
  /\ \/ spec.state = "running" /\ Ends(spec) /\ UNCHANGED taken
     \/ taken.state = "running" /\ Ends(taken) /\ UNCHANGED spec
  /\ UNCHANGED <<chat, work, step, trigger, retried, blocked, said, summaries>>

\* close: the agent is built anew, or the session, the thread or the model is switched. A
\* speculation that is already awaited goes on.
Closes ==
  /\ spec # NoSpec /\ spec' = NoSpec
  /\ UNCHANGED <<chat, work, step, trigger, retried, taken, blocked, said, summaries>>

CompactNext ==
  \/ \E size \in 1..MaxSize : Speaks(size) \/ Calls(size)
                              \/ \E why \in {"length", "post"} : Answers(size, why)
  \/ Overflows \/ Compacts \/ CompactionFails
  \/ SpeculationUsed \/ SpeculationEnds \/ Closes

CompactSpec == CompactInit /\ [][CompactNext]_compactVars

-----------------------------------------------------------------------------
(* Properties. *)

CompactTypeOK ==
  /\ \A ms \in {chat, work} : \A i \in DOMAIN ms :
       /\ ms[i].kind \in {"human", "ai", "call", "tool", "summary"}
       /\ ms[i].size \in 1..MaxSize /\ ms[i].covers \subseteq 1..MaxSaid
  /\ step \in {"idle", "model", "awaiting", "compacting"}
  /\ trigger \in {"none", "mid", "overflow", "post"}
  /\ spec.state \in {"none", "running", "done", "failed"}
  /\ taken.state \in {"none", "running", "done", "failed"}

\* What the model is given, and what the graph keeps, stands for everything that was said, each
\* message once and in order: a summary made ahead of time replaces exactly the messages it is of
\* (compaction.py:232-281). Left out are only answers that a failed compaction took with it.
InOrder(ms) ==
  \A i, j \in DOMAIN ms : i < j => \A x \in ms[i].covers, y \in ms[j].covers : x < y
SummaryFits ==
  [][/\ Covered(chat) \subseteq Covered(chat')
     /\ InOrder(chat') /\ InOrder(work')
     /\ step' = "model" => Covered(work') = Covered(chat')]_compactVars

\* A tool's answer always follows its call: no cut goes between them, or the provider refuses the
\* conversation (compaction.py:283-303). And a summary that did not make the conversation smaller
\* is not summarised again by itself: an attempt that brought nothing waits for new material
\* (compaction.py:157-184).
CutsSound ==
  /\ \A ms \in {chat, work} : \A i \in DOMAIN ms :
       ms[i].kind = "tool" => i > 1 /\ ms[i - 1].kind = "call"
  /\ step \in {"compacting", "awaiting"} =>
       LET p == Prefix(work) IN ~(Len(p) = 1 /\ p[1].futile)
=============================================================================
