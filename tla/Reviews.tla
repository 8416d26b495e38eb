------------------------------ MODULE Reviews ------------------------------
(***************************************************************************)
(* /review: the diff is cut into chunks, a reviewer is spawned for each,   *)
(* and what they find becomes one review (builtin/commands_review.py       *)
(* 376-491, 533-610, 857-998).                                             *)
(*                                                                         *)
(* A reviewer is a worker run (AgentRuns): here it registers, starts, ends *)
(* and is cancelled.  The command may be cancelled whenever it waits.      *)
(***************************************************************************)
EXTENDS Integers, Sequences, FiniteSets, FiniteSetsExt, SequencesExt

CONSTANTS
  Diffs,          \* the diffs looked at: sets of hunks
  Limits,         \* the changed lines up to which there are 1, 2 and 4 reviewers
  MaxReviewers    \* bound: chunks of a diff that is given to reviewers

ASSUME LimitsAssumption == Limits \in Nat \X Nat \X Nat
ASSUME DiffsAssumption == \A diff \in Diffs : IsFiniteSet(diff)

VARIABLES
  hunks, bins, preferred,   \* partition_diff
  reviewStage,                    \* where the command is
  reviewer,                 \* of each chunk: its run
  terminal,                 \* the runs that _deliver_terminal_reviewers has found to be over
  heard,                \* the runs whose end is heard
  aborted,                  \* the command has been cancelled
  gaveUp,                   \* a wait has expired, a spawn or a delivery has raised
  merged

reviewVars == <<hunks, bins, preferred, reviewStage, reviewer, terminal, heard, aborted, gaveUp, merged>>

\* A hunk: its file's top directory, its changed lines, its place in the diff.
Weight(h) == IF h.changed = 0 THEN 1 ELSE h.changed

\* reviewer_count: one, two, four or eight.
Fanout(changed) ==
  IF changed <= Limits[1] THEN 1 ELSE IF changed <= Limits[2] THEN 2
  ELSE IF changed <= Limits[3] THEN 4 ELSE 8

Changed(h) == h.changed
Bins(S) == LET most == Fanout(MapThenSumSet(Changed, S))
           IN  1 .. (IF most < Cardinality(S) THEN most ELSE Cardinality(S))

\* What a reviewer that is done has yielded: a review without findings or with some, one
\* with a finding that is not valid, and what is no review.
Clean == "clean"
Flagged == "flagged"
Partial == "partial"
Garbage == "garbage"
Output == {Clean, Flagged, Partial, Garbage}

\* The states of a reviewer: asked for, registered, running, asked to stop, over, refused by
\* spawn, and registered by a spawn that raised before it was started.
Over == Output \union {"failed"}
RunState == Over \union {"asked", "registered", "running", "stopping", "refused", "unstarted"}

NoReview == [overall |-> "none", failures |-> 0]

ReviewInit ==
  /\ hunks \in Diffs
  /\ bins = [b \in Bins(hunks) |-> {}] /\ preferred = 0
  /\ reviewStage = "partition"
  /\ reviewer = <<>> /\ terminal = {} /\ heard = {}
  /\ aborted = FALSE /\ gaveUp = FALSE /\ merged = NoReview

-----------------------------------------------------------------------------
(* partition_diff. *)

BinLoad(b) == MapThenSumSet(Weight, bins[b])
Placed == UNION {bins[b] : b \in DOMAIN bins}
Group(h) == {g \in hunks : g.top = h.top}

\* The directories by their weight, and in a directory the hunks by theirs.
PlacedBefore(g, h) ==
  IF g.top # h.top
    THEN \/ MapThenSumSet(Weight, Group(g)) > MapThenSumSet(Weight, Group(h))
         \/ MapThenSumSet(Weight, Group(g)) = MapThenSumSet(Weight, Group(h)) /\ g.top < h.top
    ELSE Weight(g) > Weight(h) \/ (Weight(g) = Weight(h) /\ g.place < h.place)

BinTarget ==
  LET total == MapThenSumSet(Weight, hunks)
      share == (total + Cardinality(DOMAIN bins) - 1) \div Cardinality(DOMAIN bins)
  IN  IF share > 1 THEN share ELSE 1

\* The first of the bins with the least load.
Lightest == CHOOSE b \in DOMAIN bins :
              \A c \in DOMAIN bins : BinLoad(b) < BinLoad(c) \/ (BinLoad(b) = BinLoad(c) /\ b <= c)

\* bug: a directory stays together whatever the load
StaysTogether(h, wished) == wished

\* A hunk goes where the last of its directory went, unless that bin would be too heavy.
Destination(h, wished) ==
  IF BinLoad(wished) + Weight(h) > BinLoad(Lightest) + BinTarget THEN Lightest ELSE wished

PlaceHunk ==
  /\ reviewStage = "partition" /\ Placed # hunks
  /\ LET h == CHOOSE x \in hunks \ Placed : \A y \in hunks \ Placed : x = y \/ PlacedBefore(x, y)
         wished == IF Group(h) \intersect Placed = {} THEN Lightest ELSE preferred
         b == Destination(h, wished)
     IN  bins' = [bins EXCEPT ![b] = @ \union {h}] /\ preferred' = b
  /\ UNCHANGED <<hunks, reviewStage, reviewer, terminal, heard, aborted, gaveUp, merged>>

\* The heaviest bin of several hunks gives its heaviest one to an empty bin.
Fills ==
  \E empty \in DOMAIN bins :
    LET givers == {b \in DOMAIN bins : Cardinality(bins[b]) > 1}
        giver == CHOOSE b \in givers :
                   \A c \in givers : BinLoad(b) > BinLoad(c) \/ (BinLoad(b) = BinLoad(c) /\ b <= c)
        given == CHOOSE h \in bins[giver] : \A g \in bins[giver] :
                   \/ Weight(h) > Weight(g)
                   \/ Weight(h) = Weight(g) /\ (h.top > g.top \/ (h.top = g.top /\ h.place <= g.place))
    IN  /\ bins[empty] = {} /\ \A b \in DOMAIN bins : bins[b] = {} => empty <= b
        /\ bins' = [bins EXCEPT ![giver] = @ \ {given}, ![empty] = {given}]

Fill ==
  /\ reviewStage = "partition" /\ Placed = hunks
  /\ Fills
  /\ UNCHANGED <<hunks, preferred, reviewStage, reviewer, terminal, heard, aborted, gaveUp, merged>>

-----------------------------------------------------------------------------
(* The reviewers. *)

Launch ==
  /\ reviewStage = "partition" /\ Placed = hunks /\ \A b \in DOMAIN bins : bins[b] # {}
  /\ Cardinality(DOMAIN bins) <= MaxReviewers
  /\ reviewStage' = "spawning"
  /\ reviewer' = [b \in DOMAIN bins |-> "asked"]
  /\ hunks' = {} /\ bins' = <<>> /\ preferred' = 0
  /\ UNCHANGED <<terminal, heard, aborted, gaveUp, merged>>

RunMoves(r, from, to) ==
  /\ r \in DOMAIN reviewer /\ reviewer[r] \in from
  /\ reviewer' = [reviewer EXCEPT ![r] = to]
  /\ UNCHANGED <<hunks, bins, preferred, reviewStage, terminal, heard, aborted, merged>>

\* spawn: it refuses at the limit of live runs; the run is known before AgentSpawned is
\* heard and starts after, unless a handler raises.
Refused(r) == RunMoves(r, {"asked"}, "refused") /\ UNCHANGED gaveUp
Registers(r) == RunMoves(r, {"asked"}, "registered") /\ UNCHANGED gaveUp
ReviewerStarts(r) == RunMoves(r, {"registered"}, "running") /\ UNCHANGED gaveUp
SpawnRaises(r) == RunMoves(r, {"registered"}, "unstarted") /\ gaveUp' = TRUE

\* A run ends by itself, or as it was asked to.
ReviewerEnds(r) == \E o \in Over : RunMoves(r, {"running"}, o) /\ UNCHANGED gaveUp
ReviewerStops(r) == RunMoves(r, {"stopping"}, "failed") /\ UNCHANGED gaveUp

Spawned == {r \in DOMAIN reviewer : reviewer[r] \in Over \union {"running", "stopping"}}
Unsettled == {r \in Spawned : reviewer[r] \notin Over}
BatchDone == \A r \in DOMAIN reviewer : reviewer[r] \notin {"asked", "registered"}

StageBecomes(next) ==
  /\ reviewStage' = next
  /\ UNCHANGED <<hunks, bins, preferred, terminal, heard, aborted, merged>>

\* The spawns have all returned or raised.
BatchEnds ==
  /\ reviewStage = "spawning" /\ BatchDone
  /\ StageBecomes(IF aborted THEN "cancelling" ELSE "waiting")
  /\ UNCHANGED <<reviewer, gaveUp>>

\* wait_all for five minutes.
WaitEnds ==
  /\ reviewStage = "waiting" /\ StageBecomes("cancelling")
  /\ gaveUp' = (gaveUp \/ Unsettled # {})
  /\ UNCHANGED reviewer

\* bug: an aborted review does not wait for the spawns
AbortsAtOnce == reviewStage' = "cancelling" /\ aborted' = TRUE

\* The command is cancelled. The cleanup cannot be; it first waits for the spawns.
Aborts == reviewStage' = "spawning" /\ aborted' = TRUE

Cancelled ==
  /\ ~ aborted /\ reviewStage \in {"spawning", "waiting", "stopping", "delivering"}
  /\ Aborts
  /\ UNCHANGED <<hunks, bins, preferred, reviewer, terminal, heard, gaveUp, merged>>

\* After five minutes the cleanup cancels the spawns that are left.
CancelBatch ==
  /\ reviewStage = "spawning" /\ aborted /\ ~ BatchDone
  /\ reviewer' = [r \in DOMAIN reviewer |->
                    CASE reviewer[r] = "asked" -> "refused"
                      [] reviewer[r] = "registered" -> "unstarted" [] OTHER -> reviewer[r]]
  /\ gaveUp' = TRUE
  /\ StageBecomes("cancelling")

\* _cancel_unsettled_reviewers.
CancelUnsettled ==
  /\ reviewStage = "cancelling" /\ StageBecomes("stopping")
  /\ reviewer' = [r \in DOMAIN reviewer |-> IF r \in Unsettled THEN "stopping" ELSE reviewer[r]]
  /\ UNCHANGED gaveUp

\* It waits for them, again for five minutes; then what is over is to be heard.
StopEnds ==
  /\ reviewStage = "stopping" /\ reviewStage' = "delivering"
  /\ gaveUp' = (gaveUp \/ Unsettled # {})
  /\ terminal' = Spawned \ Unsettled
  /\ UNCHANGED <<hunks, bins, preferred, reviewer, heard, aborted, merged>>

\* bug: the reviewers that could not be spawned are forgotten
LateFailures(results) == Cardinality(Spawned \ results)

\* The reviewers that have no result: not spawned, not over in time, or over otherwise.
Failures(results) == Cardinality(DOMAIN reviewer \ results)

\* merge_reviews.
Merged ==
  LET results == {r \in terminal : reviewer[r] \in Output}
      reviews == {r \in results : reviewer[r] # Garbage}
      failures == Failures(results)
                    + Cardinality({r \in results : reviewer[r] \in {Garbage, Partial}})
  IN  [overall |-> IF failures > 0 \/ reviews = {} \/ \E r \in reviews : reviewer[r] = Flagged
                     THEN "incorrect" ELSE "correct",
       failures |-> failures]

\* deliver, whose exceptions are swallowed; then the results are merged and shown, or the
\* command ends as it was cancelled.
DeliverReviews ==
  /\ reviewStage = "delivering" /\ reviewStage' = "over"
  /\ \/ heard' = heard \union terminal /\ UNCHANGED gaveUp
     \/ gaveUp' = TRUE /\ UNCHANGED heard
  /\ merged' = IF aborted THEN merged ELSE Merged
  /\ UNCHANGED <<hunks, bins, preferred, reviewer, terminal, aborted>>

ReviewNext ==
  \/ PlaceHunk \/ Fill \/ Launch \/ BatchEnds \/ WaitEnds \/ Cancelled \/ CancelBatch
  \/ CancelUnsettled \/ StopEnds \/ DeliverReviews
  \/ \E r \in DOMAIN reviewer :
       Refused(r) \/ Registers(r) \/ ReviewerStarts(r) \/ SpawnRaises(r) \/ ReviewerEnds(r) \/ ReviewerStops(r)

ReviewSpec == ReviewInit /\ [][ReviewNext]_reviewVars

-----------------------------------------------------------------------------
ReviewTypeOK ==
  /\ \A b \in DOMAIN bins : bins[b] \subseteq hunks
  /\ \A r \in DOMAIN reviewer : reviewer[r] \in RunState
  /\ terminal \union heard \subseteq DOMAIN reviewer
  /\ reviewStage \in {"partition", "spawning", "waiting", "cancelling", "stopping", "delivering", "over"}
  /\ aborted \in BOOLEAN /\ gaveUp \in BOOLEAN

\* Each hunk is in one chunk, and when the last has been placed no bin outweighs another by
\* more than a fair share or the heaviest hunk: a reviewer is not given the whole diff
\* because it is of one directory (partition_diff).
HunksShared ==
  reviewStage = "partition" =>
    /\ \A b, c \in DOMAIN bins : b # c => bins[b] \intersect bins[c] = {}
    /\ \A b, c \in DOMAIN bins :
         BinLoad(b) - BinLoad(c) <= Max({BinTarget} \union {Weight(h) : h \in hunks})

\* A review that calls the change correct has a clean review of every chunk: a reviewer that
\* could not be spawned, failed, was stopped or said something else is not passed over in
\* silence. And when the command has ended, in whatever way, its reviewers have too and
\* their ends are heard, so none is announced to the model again; unless a wait has
\* expired or a spawn or a delivery has raised. A review cancelled while it spawns must not
\* leave reviewers that start after it.
ReviewersAccounted ==
  /\ merged.overall = "correct" => \A r \in DOMAIN reviewer : reviewer[r] = Clean
  /\ reviewStage = "over" /\ ~ gaveUp =>
       \A r \in DOMAIN reviewer : reviewer[r] # "refused" => reviewer[r] \in Over /\ r \in heard

\* What the review command owes, together: the diff shared, the reviewers accounted for.
ReviewsSound == HunksShared /\ ReviewersAccounted
=============================================================================
