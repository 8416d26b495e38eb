----------------------------- MODULE StatusLine -----------------------------
(***************************************************************************)
(* The status line (tui/statusline.py, builtin/statusbar.py): segments that *)
(* a paint takes from the plugin's state, background reads of git, of the  *)
(* pull request and of the session's title that write into it, the moves   *)
(* between sessions that exchange this state, and the row that is fitted   *)
(* into the columns of the terminal.                                       *)
(***************************************************************************)
EXTENDS Integers, Sequences, FiniteSets, FiniteSetsExt, SequencesExt

CONSTANTS
  Place, FirstPlace,  \* sessions, and the one of the start
  Folder, FirstFolder,
  Configured,         \* which of the segments "git", "session", "pr" and "tokens" are shown
  Layouts,            \* for the row: the groups and whether the composer is a box
  Columns,            \* widths of the terminal
  CellsOf,            \* per segment: [text, around, prefix], in columns
  Divider, GaugeCells, BoxFrom,  \* columns of a separator and of the gauge; where a gauge begins
  MaxReads, MaxPlaceMoves, MaxDrifts, MaxCounted  \* bounds: background reads, switches and
                      \* restarts, changes of the world, and chunks with usage

None == <<>>
Unread == <<"unread">>
Failed == <<"failed">>

ASSUME StatusAssumption ==
  /\ FirstPlace \in Place /\ FirstFolder \in Folder /\ None \notin Place \union Folder
  /\ {MaxReads, MaxPlaceMoves, MaxDrifts, MaxCounted} \subseteq Nat
  /\ Columns \subseteq Nat \ {0} /\ {Divider, GaugeCells, BoxFrom} \subseteq Nat

VARIABLES
  status,    \* the plugin's state
  kept,      \* its copy in the store, per session
  folderOf,  \* the directory of a session, None before there is one
  inUse,     \* ctx.session_id
  moving,    \* the resume, fork or new session under way
  movedBack,    \* the last of them failed
  reads,     \* background reads under way
  answers,   \* what git and gh say of a directory: how often it has changed
  titles,    \* the titles in the store, None or a number
  tracker,   \* chunks that were counted, kept beside the state
  stream,    \* chunks with usage of the stream under way
  counted,   \* per session: chunks of its thread; for the properties
  segments,  \* those that are configured
  readNo, places, drifts, chunks  \* so far: reads, moves, changes, chunks

moveVars == <<kept, folderOf, inUse, moving, movedBack, places>>
readVars == <<reads, readNo>>
worldVars == <<answers, titles, segments, drifts>>
tokenVars == <<tracker, stream, counted, chunks>>
statusVars == <<status, moveVars, readVars, worldVars, tokenVars>>

Cleared == [git |-> [of |-> None, text |-> None, fresh |-> FALSE, refreshing |-> FALSE, gen |-> 0],
            pr |-> [of |-> None, text |-> None, due |-> TRUE, refreshing |-> FALSE],
            title |-> [of |-> None, text |-> None, ready |-> FALSE, refreshing |-> FALSE,
                       waits |-> FALSE, gen |-> 0],
            tokens |-> 0]
NoMove == [kind |-> "none"]

StatusInit ==
  /\ status = Cleared /\ kept = [s \in Place |-> Cleared]
  /\ folderOf \in [Place -> Folder \union {None}] /\ folderOf[FirstPlace] = FirstFolder
  /\ inUse = FirstPlace /\ moving = NoMove /\ movedBack = FALSE
  /\ reads = {} /\ answers = [f \in Folder |-> 0] /\ titles = [s \in Place |-> None]
  /\ counted = [s \in Place |-> 0] /\ tracker = {} /\ stream = {}
  /\ segments \in Configured
  /\ readNo = 0 /\ places = 0 /\ drifts = 0 /\ chunks = 0

Here == folderOf[inUse]

-----------------------------------------------------------------------------
(* Resets.                                                                 *)

GitReset(g) == [Cleared.git EXCEPT !.gen = g.gen + 1]
TitleReset(t) == [Cleared.title EXCEPT !.gen = t.gen + 1]

\* reset_git_state and reset_session_state, as SessionSwitch and the start of the program call them.
ResetOfPlace(st) == [st EXCEPT !.git = GitReset(@), !.title = TitleReset(@)]
\* reset_accounting and reset_session_state, on ThreadSwitch.
ResetOfThread(st) == [st EXCEPT !.title = TitleReset(@), !.tokens = 0]

-----------------------------------------------------------------------------
(* What the segments do with the state in a paint.                         *)

\* git_segment: another session or directory begins anew.
GitAt(st) == IF st.git.of = <<inUse, Here>> THEN st.git
             ELSE [GitReset(st.git) EXCEPT !.of = <<inUse, Here>>]
GitStarts(st) == ~GitAt(st).fresh /\ ~GitAt(st).refreshing

\* session_segment.
TitleAt(st) == IF st.title.of = inUse THEN st.title
               ELSE [TitleReset(st.title) EXCEPT !.of = inUse, !.waits = st.title.waits]
TitleStarts(st) == ~TitleAt(st).ready /\ ~TitleAt(st).refreshing /\ ~TitleAt(st).waits

\* pr_segment.
PrAt(st) == IF st.pr.of = Here THEN st.pr ELSE [Cleared.pr EXCEPT !.of = Here]
PrStarts(st) == PrAt(st).due /\ ~PrAt(st).refreshing

\* _evaluate: the segments that are configured, in turn.
Evaluated(st) ==
  [st EXCEPT
     !.git = IF "git" \in segments THEN [GitAt(st) EXCEPT !.refreshing = @ \/ GitStarts(st)] ELSE @,
     !.title = IF "session" \in segments
               THEN [TitleAt(st) EXCEPT !.refreshing = @ \/ TitleStarts(st)] ELSE @,
     !.pr = IF "pr" \in segments THEN [PrAt(st) EXCEPT !.refreshing = @ \/ PrStarts(st)] ELSE @]

Read(what, of, gen) == [what |-> what, of |-> of, gen |-> gen, got |-> Unread, no |-> readNo + 1]
Started(st) ==
  {r \in {Read("git", <<inUse, Here>>, GitAt(st).gen), Read("title", inUse, TitleAt(st).gen),
           Read("pr", Here, 0)} :
     \/ r.what = "git" /\ "git" \in segments /\ GitStarts(st)
     \/ r.what = "title" /\ "session" \in segments /\ TitleStarts(st)
     \/ r.what = "pr" /\ "pr" \in segments /\ PrStarts(st)}

-----------------------------------------------------------------------------
(* render_statusline.                                                      *)

Item(name) == [name |-> name, text |-> CellsOf[name].text, around |-> CellsOf[name].around,
               prefix |-> CellsOf[name].prefix]
Items(names) == [i \in DOMAIN names |-> Item(names[i])]
Cells(segs) ==
  FoldLeft(LAMBDA sum, item : sum + item.text + item.around, 0, segs)
    + (IF segs = <<>> THEN 0 ELSE Divider * (Len(segs) - 1))

\* _shrink_model: without its provider, then cut with a mark, or not at all.
Shrunk(item, excess) ==
  LET left == item.text - Max({1, excess})
  IN  IF item.prefix > 0 THEN <<[item EXCEPT !.text = @ - item.prefix, !.prefix = 0]>>
      ELSE IF left <= 0 THEN <<>> ELSE <<[item EXCEPT !.text = left]>>

ItemRows == Seq([name : DOMAIN CellsOf, text : Nat, around : Nat, prefix : Nat])

\* Whole segments go from the right until the rest fits; the last one may be a model that shrinks.
Fitted(left, right, gauge, width) ==
  LET fit[l \in ItemRows, r \in ItemRows] ==
        LET excess == Cells(l) + Cells(r) + gauge - width
        IN  CASE excess <= 0 -> <<l, r>>
              [] excess > 0 /\ r # <<>> -> fit[l, Front(r)]
              [] excess > 0 /\ r = <<>> /\ Len(l) > 1 -> fit[Front(l), r]
              [] excess > 0 /\ r = <<>> /\ Len(l) = 1 ->
                   fit[IF l[1].name = "model" THEN Shrunk(l[1], excess) ELSE <<>>, r]
              [] OTHER -> <<l, r>>
  IN  fit[left, right]

\* The context is a gauge between the groups where a box is wide enough, else a segment.
HasGauge(layout, telling, width) ==
  /\ layout.box /\ width >= BoxFrom
  /\ "context" \in telling \intersect Range(layout.left \o layout.right)

\* The row with the segments that have something to show; without any it is empty.
Rendered(layout, telling, width) ==
  LET gauge == HasGauge(layout, telling, width)
      segs(names) == Items(SelectSeq(names, LAMBDA n : n \in telling /\ ~(gauge /\ n = "context")))
      needed == IF gauge /\ width >= GaugeCells THEN GaugeCells ELSE 0
      fitted == Fitted(segs(layout.left), segs(layout.right), needed, width)
      gap == width - Cells(fitted[1]) - Cells(fitted[2])
  IN  [width |-> width,
       wantedLeft |-> segs(layout.left), wantedRight |-> segs(layout.right),
       left |-> fitted[1], right |-> fitted[2], gap |-> IF gap < 0 THEN 0 ELSE gap,
       gauge |-> needed]

\* A paint evaluates the segments, which starts reads.
Paint ==
  /\ readNo + 1 <= MaxReads \/ Started(status) = {}
  /\ status' = Evaluated(status)
  /\ reads' = reads \union Started(status)
  /\ readNo' = IF Started(status) = {} THEN readNo ELSE readNo + 1
  /\ UNCHANGED <<moveVars, worldVars, tokenVars>>

\* /status: the title is read anew whatever is on record (looked at where it is shown).
ShowStatus ==
  /\ "session" \in segments /\ moving = NoMove /\ readNo < MaxReads /\ readNo' = readNo + 1
  /\ status' = [status EXCEPT !.title.gen = @ + 1, !.title.of = inUse, !.title.refreshing = TRUE]
  /\ reads' = reads \union {Read("title", inUse, status.title.gen + 1)}
  /\ UNCHANGED <<moveVars, worldVars, tokenVars>>

-----------------------------------------------------------------------------
(* Background reads.                                                       *)

WorldSays(r) ==
  CASE r.what = "git" -> <<r.of[2], answers[r.of[2]]>>
    [] r.what = "pr" -> <<r.of, answers[r.of]>>
    [] r.what = "title" -> titles[r.of]

\* git, gh or the store answers, or it fails or takes too long.
ReadAnswers ==
  /\ \E r \in reads :
       /\ r.got = Unread
       /\ \E got \in {WorldSays(r), Failed} : reads' = (reads \ {r}) \union {[r EXCEPT !.got = got]}
  /\ UNCHANGED <<status, moveVars, readNo, worldVars, tokenVars>>

TextOf(got) == IF got = Failed THEN None ELSE got

\* Whether the state is still that which a read was started for.
OfThisTitle(r) == r.of = status.title.of /\ r.gen = status.title.gen
OfThisGit(r) == r.of = <<inUse, Here>> /\ r.of = status.git.of /\ r.gen = status.git.gen

\* _refresh_git, _refresh_session and _refresh_pr after their read.
Refreshed(r) ==
  CASE r.what = "git" /\ OfThisGit(r) ->
         [status EXCEPT !.git.text = TextOf(r.got), !.git.fresh = TRUE, !.git.refreshing = FALSE]
    [] r.what = "title" /\ OfThisTitle(r) /\ r.got = Failed ->
         [status EXCEPT !.title.refreshing = FALSE, !.title.waits = TRUE]
    [] r.what = "title" /\ OfThisTitle(r) /\ r.got # Failed ->
         [status EXCEPT !.title.text = r.got, !.title.ready = TRUE, !.title.refreshing = FALSE]
    [] r.what = "pr" /\ r.of = status.pr.of ->
         [status EXCEPT !.pr.text = TextOf(r.got), !.pr.due = FALSE, !.pr.refreshing = FALSE]
    [] OTHER -> status

ReadEnds ==
  /\ \E r \in reads : r.got # Unread /\ reads' = reads \ {r} /\ status' = Refreshed(r)
  /\ UNCHANGED <<moveVars, readNo, worldVars, tokenVars>>

\* Two seconds pass, or a minute.
SecondsPass ==
  /\ status.git.fresh \/ status.title.waits \/ ~status.pr.due
  /\ \E minute \in BOOLEAN :
       status' = [status EXCEPT !.git.fresh = FALSE, !.title.waits = FALSE, !.pr.due = @ \/ minute]
  /\ UNCHANGED <<moveVars, readVars, worldVars, tokenVars>>

-----------------------------------------------------------------------------
(* Turns, switches and restarts.                                           *)

\* run_turn: the first prompt is the title; TurnStart, like TurnEnd, makes it be read anew.
TurnStarts ==
  /\ moving = NoMove /\ drifts < MaxDrifts
  /\ drifts' = drifts + 1
  /\ titles' = [titles EXCEPT ![inUse] = IF @ = None THEN <<inUse, "prompt">> ELSE @]
  /\ status' = [status EXCEPT !.title = TitleReset(@)]
  /\ UNCHANGED <<moveVars, readVars, answers, segments, tokenVars>>

\* record_usage: a chunk that was seen counts no more.
Counts(c) == IF c \in tracker THEN status ELSE [status EXCEPT !.tokens = @ + 1]

\* A chunk with usage is delivered, or one of the stream once more (looked at where tokens are
\* shown).
UsageArrives ==
  /\ "tokens" \in segments /\ moving = NoMove
  /\ \E c \in stream \union {chunks + 1} :
       /\ c <= MaxCounted /\ chunks' = Max({chunks, c})
       /\ status' = Counts(c)
       /\ tracker' = tracker \union {c} /\ stream' = stream \union {c}
       /\ counted' = [counted EXCEPT ![inUse] = IF c \in stream THEN @ ELSE @ + 1]
  /\ UNCHANGED <<moveVars, readVars, worldVars>>

\* A clear, a branch or a compaction: ThreadSwitch without a move.
ThreadMoves ==
  /\ moving = NoMove /\ places < MaxPlaceMoves /\ places' = places + 1
  /\ status' = ResetOfThread(status)
  /\ counted' = [counted EXCEPT ![inUse] = 0] /\ tracker' = {} /\ stream' = {}
  /\ UNCHANGED <<kept, folderOf, inUse, moving, movedBack, readVars, worldVars, chunks>>

\* persist_plugin_states: the scope of git, a pair, comes back from JSON as a list and equals none.
Saved(st) == [st EXCEPT !.git.of = None]

Moving(kind, to) == [kind |-> kind, to |-> to, from |-> inUse, before |-> status, there |-> FALSE]

\* resume: the states of the plugins are saved and those of the other session put in their place.
ResumeBegins(s) ==
  /\ moving = NoMove /\ places < MaxPlaceMoves /\ places' = places + 1
  /\ s # inUse /\ folderOf[s] # None
  /\ kept' = [kept EXCEPT ![inUse] = Saved(status)]
  /\ status' = kept[s]
  /\ inUse' = s /\ moving' = Moving("resume", s)
  /\ UNCHANGED <<folderOf, movedBack, readVars, worldVars, tokenVars>>

\* fork: the copy in the store is copied, and the state stays.
ForkBegins(s) ==
  /\ moving = NoMove /\ places < MaxPlaceMoves /\ places' = places + 1
  /\ folderOf[s] = None /\ folderOf' = [folderOf EXCEPT ![s] = Here]
  /\ kept' = [kept EXCEPT ![inUse] = Saved(status), ![s] = Saved(status)]
  /\ inUse' = s /\ moving' = Moving("fork", s)
  /\ UNCHANGED <<status, movedBack, readVars, worldVars, tokenVars>>

\* new_session: the state is cleared while the agent is built, before the session changes.
NewBegins(s) ==
  /\ moving = NoMove /\ places < MaxPlaceMoves /\ places' = places + 1
  /\ folderOf[s] = None
  /\ kept' = [kept EXCEPT ![inUse] = Saved(status)]
  /\ status' = Cleared /\ moving' = Moving("new", s)
  /\ UNCHANGED <<folderOf, inUse, movedBack, readVars, worldVars, tokenVars>>

\* The thread of a fork, or one that a resume seeds, is active: ThreadSwitch.
Activates ==
  /\ moving.kind \in {"resume", "fork"} /\ ~moving.there
  /\ moving' = [moving EXCEPT !.there = TRUE]
  /\ status' = ResetOfThread(status)
  /\ counted' = [counted EXCEPT ![inUse] = 0] /\ tracker' = {} /\ stream' = {}
  /\ UNCHANGED <<kept, folderOf, inUse, movedBack, places, readVars, worldVars, chunks>>

\* The new session is there and becomes the one in use.
NewMoves ==
  /\ moving.kind = "new" /\ ~moving.there
  /\ moving' = [moving EXCEPT !.there = TRUE]
  /\ folderOf' = [folderOf EXCEPT ![moving.to] = Here] /\ inUse' = moving.to
  /\ UNCHANGED <<status, kept, movedBack, places, readVars, worldVars, tokenVars>>

\* SessionSwitch.
MoveEnds ==
  /\ moving # NoMove /\ (moving.there \/ moving.kind = "resume")
  /\ moving' = NoMove /\ movedBack' = FALSE
  /\ status' = ResetOfPlace(status)
  /\ UNCHANGED <<kept, folderOf, inUse, places, readVars, worldVars, tokenVars>>

\* What a failure puts back before the target is active.
PutBack == IF moving.kind = "fork" THEN status ELSE moving.before

\* Before the target is active the way back, else the failure leaves the user there.
MoveFails ==
  /\ moving # NoMove /\ (moving.kind = "new" => ~moving.there)
  /\ moving' = NoMove /\ movedBack' = TRUE
  /\ IF moving.there THEN UNCHANGED <<status, inUse, folderOf>>
     ELSE /\ status' = PutBack
          /\ inUse' = moving.from
          /\ folderOf' = IF moving.kind = "resume" THEN folderOf
                         ELSE [folderOf EXCEPT ![moving.to] = None]
  /\ UNCHANGED <<kept, places, readVars, worldVars, tokenVars>>

\* An exit saves; the next start finds a session again, and register resets what is volatile.
Reopens ==
  /\ moving = NoMove /\ places < MaxPlaceMoves /\ places' = places + 1
  /\ kept' = [kept EXCEPT ![inUse] = Saved(status)]
  /\ \E s \in Place : folderOf[s] # None /\ inUse' = s /\ status' = ResetOfPlace(kept'[s])
  /\ reads' = {} /\ movedBack' = FALSE /\ tracker' = {} /\ stream' = {}
  /\ UNCHANGED <<folderOf, moving, readNo, worldVars, counted, chunks>>

\* Somebody commits or merges.
WorldChanges ==
  /\ drifts < MaxDrifts /\ drifts' = drifts + 1
  /\ \E f \in Folder : answers' = [answers EXCEPT ![f] = @ + 1]
  /\ UNCHANGED <<status, moveVars, readVars, titles, segments, tokenVars>>

StatusNext ==
  \/ Paint \/ ShowStatus \/ ReadAnswers \/ ReadEnds \/ SecondsPass \/ WorldChanges
  \/ TurnStarts \/ UsageArrives \/ ThreadMoves
  \/ \E s \in Place : ResumeBegins(s) \/ ForkBegins(s) \/ NewBegins(s)
  \/ Activates \/ NewMoves \/ MoveEnds \/ MoveFails \/ Reopens

StatusSpec == StatusInit /\ [][StatusNext]_statusVars

-----------------------------------------------------------------------------
(* Properties.                                                             *)

StatusTypeOK ==
  /\ inUse \in Place /\ Here \in Folder
  /\ status.tokens \in Nat /\ {movedBack} \subseteq BOOLEAN
  /\ \A r \in reads : r.what \in {"git", "pr", "title"} /\ r.no <= readNo

\* Whenever a paint comes, what it shows is of the session and the directory in use, whatever was
\* read for others meanwhile.
StatusOfPlace ==
  LET st == Evaluated(status)
  IN  /\ st.git.text # None => st.git.text[1] = Here
      /\ st.pr.text # None => st.pr.text[1] = Here
      /\ st.title.text # None => st.title.text[1] = inUse

\* Between moves, a title that counts as read is the one in the store: a read that was overtaken by
\* a turn or a move leaves nothing.  (While /new builds its agent one may, for generations begin
\* anew with a cleared state; and /status after a fork that failed finds that of the fork, which
\* has none.)
TitleIsCurrent ==
  moving = NoMove /\ status.title.ready /\ status.title.of = inUse =>
    status.title.text = titles[inUse] \/ (movedBack /\ status.title.text = None)

\* While git or the title counts as being read, a read is under way whose end will say so, unless
\* a move was movedBack, which puts back what was on record before it.
RefreshIsUnderWay ==
  moving = NoMove /\ ~movedBack =>
    /\ status.git.refreshing /\ status.git.of = <<inUse, Here>> =>
         \E r \in reads : r.what = "git" /\ OfThisGit(r)
    /\ status.title.refreshing /\ status.title.of = inUse =>
         \E r \in reads : r.what = "title" /\ OfThisTitle(r)

\* The tokens are those of the thread in use, each chunk once, wherever the user has been.
TokensOfThread ==
  moving = NoMove => status.tokens = counted[inUse]

\* A row fills the columns and nothing in it is cut: a gauge is whole, segments go from the
\* right, and none goes that would still fit.
RowFits ==
  \A drawn \in {Rendered(layout, telling, width) :
                 layout \in Layouts, telling \in SUBSET DOMAIN CellsOf, width \in Columns} :
    LET TooWide(left, right) == Cells(left) + drawn.gauge + Cells(right) > drawn.width
    IN  drawn.wantedLeft \o drawn.wantedRight # <<>> =>
        /\ Cells(drawn.left) + drawn.gap + Cells(drawn.right) = drawn.width
        /\ drawn.gap >= drawn.gauge
        /\ IsPrefix(drawn.right, drawn.wantedRight)
        /\ drawn.right # drawn.wantedRight =>
             TooWide(drawn.wantedLeft, SubSeq(drawn.wantedRight, 1, Len(drawn.right) + 1))
        /\ drawn.right # <<>> => drawn.left = drawn.wantedLeft
        /\ Len(drawn.left) > 1 => IsPrefix(drawn.left, drawn.wantedLeft)
        /\ Len(drawn.left) < Len(drawn.wantedLeft) =>
             TooWide(SubSeq(drawn.wantedLeft, 1, Len(drawn.left) + 1), <<>>)

\* Place, title, reads, tokens and row together.
StatusSound == StatusOfPlace /\ TitleIsCurrent /\ RefreshIsUnderWay /\ TokensOfThread /\ RowFits
=============================================================================
