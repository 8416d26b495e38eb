----------------------------- MODULE Transcript -----------------------------
(***************************************************************************)
(* The transcript: events become blocks of the frame, settled blocks are   *)
(* committed in batches and written to the terminal's scrollback, above    *)
(* the viewport that shows the rest (tui/transcript.py, tui/frame.py,      *)
(* tui/runtime.py 1388-1400, 2224-2327).  A block is the number of its     *)
(* creation; of its data only the tool calls that are still open count.    *)
(***************************************************************************)
EXTENDS Integers, Sequences, SequencesExt, FiniteSets

CONSTANTS
  Source, Main,   \* who speaks: the main agent and worker runs
  Call,           \* tool calls
  MaxBlocks,      \* bound: blocks that are made
  MaxTurnsSeen,   \* bound: turns of the main agent
  MaxClears,      \* bound: screens cleared or panels retired
  Backpressure,   \* whether the terminal may lag behind what is written to it
  Heights         \* heights of the viewport that are looked at

ASSUME MainSpeaks == Main \in Source

VARIABLES
  screen,    \* Transcript and Frame: blocks, their order, and what finds them again
  timer,     \* FrameScheduler._commit_task: "none", "set", or "cancelled" but not yet gone
  batches,   \* committed blocks that wait to be written; a late one has seen the terminal lag
  retained,  \* _retained_panels
  scrollback,
  wiping,    \* clearing of the screen, or retiring of panels, under way
  talking,   \* the sources that are in a turn
  calls,     \* tool calls: "new", who has it open, or "over"
  raised,    \* a handler has raised
  turnsSeen, clears

transcriptVars == <<screen, timer, batches, retained, scrollback, wiping, talking, calls, raised,
                    turnsSeen, clears>>

BlockId == 1 .. MaxBlocks
NoBlock == [kind |-> "none", state |-> "none", open |-> {}]
GoneBlock == [NoBlock EXCEPT !.kind = "gone"]
TheScreen == [order |-> <<>>, block |-> [b \in BlockId |-> NoBlock], tail |-> [s \in Source |-> 0],
              streams |-> [s \in Source |-> {}], card |-> [c \in Call |-> 0],
              reads |-> [s \in Source |-> 0], working |-> 0, error |-> 0]

TranscriptInit ==
  /\ screen = TheScreen
  /\ timer = "none" /\ batches = <<>> /\ retained = <<>> /\ scrollback = <<>> /\ wiping = "no"
  /\ talking = {} /\ calls = [c \in Call |-> "new"] /\ raised = FALSE
  /\ turnsSeen = 0 /\ clears = 0

-----------------------------------------------------------------------------
(* What handlers do to the screen. *)

State(x, b) == x.block[b].state
IsActive(x, b) == b # 0 /\ State(x, b) = "active"
Room == \E b \in BlockId : screen.block[b].kind = "none" /\ b + 1 \in BlockId
Newest(x) == Cardinality({b \in BlockId : x.block[b].kind # "none"}) + 1

\* Frame.add
Added(x, kind, open) ==
  [x EXCEPT !.order = Append(@, Newest(x)),
            !.block[Newest(x)] = [kind |-> kind, state |-> "active", open |-> open]]

\* Block.settle
Finished(x, bs) ==
  [x EXCEPT !.block = [b \in BlockId |-> IF b \in bs /\ IsActive(x, b)
                                       THEN [@[b] EXCEPT !.state = "settled"] ELSE @[b]]]

Gone(x, b) ==
  IF b = 0 THEN x
  ELSE [x EXCEPT !.order = SelectSeq(@, LAMBDA y : y # b),
                 !.block[b] = GoneBlock]

\* _discard_working
WithoutWorking(x) == [Gone(x, x.working) EXCEPT !.working = 0]

\* dismiss_error
WithoutError(x) == [Gone(x, x.error) EXCEPT !.error = 0]

\* _float_active_tasks
Floated(x) ==
  LET Floats(b) == x.block[b].kind = "task" /\ IsActive(x, b) IN
  [x EXCEPT !.order = SelectSeq(@, LAMBDA b : ~Floats(b)) \o SelectSeq(@, Floats)]

\* Frame.commit_ready: what precedes the first active block
ReadyBlocks(x) ==
  LET actives == {i \in DOMAIN x.order : IsActive(x, x.order[i])}
      front == IF actives = {} THEN x.order
               ELSE SubSeq(x.order, 1, (CHOOSE i \in actives : \A j \in actives : i <= j) - 1) IN
  SelectSeq(front, LAMBDA b : State(x, b) = "settled")

Committed(x, bs) ==
  [x EXCEPT !.block = [b \in BlockId |-> IF b \in bs THEN [@[b] EXCEPT !.state = "committed"]
                                         ELSE @[b]]]

\* FrameScheduler.commit_now; _commit_blocks makes a batch of what is ready.
CommitNow(x) ==
  /\ screen' = Committed(x, ToSet(ReadyBlocks(x)))
  /\ batches' = IF ReadyBlocks(x) = <<>> THEN batches
                ELSE Append(batches, [blocks |-> ReadyBlocks(x), late |-> FALSE])
  /\ timer' = IF timer = "set" THEN "cancelled" ELSE timer

\* FrameScheduler.request_commit: a timer that is not done keeps another from being set.
CommitSoon(x) ==
  /\ screen' = x /\ timer' = (IF timer = "none" THEN "set" ELSE timer)
  /\ UNCHANGED batches

OnlyScreen(x) == screen' = x /\ UNCHANGED <<timer, batches>>
Elsewhere == UNCHANGED <<retained, scrollback, wiping, clears>>

-----------------------------------------------------------------------------
(* Transcript.handle *)

\* bug: every block's accumulators survive the turn's start
KeepAccumulators(x) == x

\* The accumulators of an earlier turn, but for the cards of tasks that run on
Forgotten(x) ==
  [x EXCEPT !.tail = [s \in Source |-> 0], !.streams = [s \in Source |-> {}],
            !.reads = [s \in Source |-> 0],
            !.card = [c \in Call |-> IF @[c] # 0 /\ x.block[@[c]].kind = "task" /\ IsActive(x, @[c])
                                     THEN @[c] ELSE 0]]

TaskCard(c) == screen.card[c] # 0 /\ screen.block[screen.card[c]].kind = "task"

\* A turn starts; the text of a notification is not shown.
TurnShown(s, shown) ==
  /\ s \notin talking /\ Room /\ (s = Main => turnsSeen < MaxTurnsSeen)
  /\ turnsSeen' = turnsSeen + (IF s = Main THEN 1 ELSE 0)
  /\ LET x == WithoutError(WithoutWorking(screen))
         y == Forgotten(Finished(x, {b \in ToSet(x.order) : x.block[b].kind # "task"}))
         user == Newest(y) IN
     \E z \in {Finished(Floated(Added(y, "user", {})), {user})} :
       IF ~shown THEN OnlyScreen(y)
       ELSE IF s = Main
       THEN \E w \in {Added(Committed(z, ToSet(ReadyBlocks(z))), "working", {})} :
              /\ screen' = [w EXCEPT !.working = Newest(z)]
              /\ batches' = Append(batches, [blocks |-> ReadyBlocks(z), late |-> FALSE])
              /\ timer' = IF timer = "set" THEN "cancelled" ELSE timer
       ELSE CommitNow(z)
  /\ talking' = talking \union {s}
  /\ UNCHANGED <<calls, raised>> /\ Elsewhere

TurnShownOver(s) ==
  /\ s \in talking
  /\ LET x == WithoutWorking(screen) IN
     CommitSoon(Floated(Finished(x, {b \in ToSet(x.order) \ {x.error} : x.block[b].kind # "task"})))
  /\ talking' = talking \ {s}
  /\ calls' = [c \in Call |-> IF calls[c] = s /\ ~TaskCard(c) THEN "over" ELSE calls[c]]
  /\ UNCHANGED <<raised, turnsSeen>> /\ Elsewhere

\* _source_block and _model_chunk: the source's last block is added to, if it is of the kind; a
\* block that has settled raises.
Chunk(s, kind) ==
  /\ s \in talking /\ Room
  /\ LET b == screen.tail[s] IN
     IF b # 0 /\ b \in screen.streams[s] /\ screen.block[b].kind = kind
     THEN IF IsActive(screen, b)
          THEN OnlyScreen(WithoutWorking(screen)) /\ UNCHANGED raised
          ELSE raised' = TRUE /\ UNCHANGED <<screen, timer, batches>>
     ELSE LET n == Newest(screen)
              same == {y \in screen.streams[s] : screen.block[y].kind = kind} IN
          /\ OnlyScreen(WithoutWorking([Added(screen, kind, {}) EXCEPT
                           !.tail[s] = n, !.streams[s] = (@ \ same) \union {n}]))
          /\ UNCHANGED raised
  /\ UNCHANGED <<talking, calls, turnsSeen>> /\ Elsewhere

\* A stream rule has interrupted the source's stream.
Aborted(s) ==
  /\ s \in talking
  /\ LET cut == {b \in screen.streams[s] : IsActive(screen, b)} IN
     CommitSoon([Finished(screen, cut) EXCEPT !.streams[s] = @ \ cut, !.tail[s] = 0])
  /\ UNCHANGED <<talking, calls, raised, turnsSeen>> /\ Elsewhere

\* _tool_start; reads that follow each other share a card.
ToolStarts(s, c, kind) ==
  /\ s \in talking /\ calls[c] = "new" /\ Room
  /\ calls' = [calls EXCEPT ![c] = s]
  /\ LET x == [WithoutWorking(screen) EXCEPT !.tail[s] = 0]
         group == x.reads[s]
         n == Newest(x) IN
     IF kind = "reads" /\ IsActive(x, group) /\ Last(x.order) = group
     THEN OnlyScreen([x EXCEPT !.block[group].open = @ \union {c}, !.card[c] = group])
     ELSE OnlyScreen([Added(x, kind, {c}) EXCEPT
                        !.card[c] = n, !.reads[s] = IF kind = "reads" THEN n ELSE @])
  /\ UNCHANGED <<talking, raised, turnsSeen>> /\ Elsewhere

\* _tool_end: a call without a card gets one; the card of the last open call settles.
ToolEnds(c) ==
  /\ calls[c] \in talking
  /\ ~TaskCard(c)
  /\ screen.card[c] = 0 => Room
  /\ calls' = [calls EXCEPT ![c] = "over"]
  /\ LET b == screen.card[c]
         x == IF b = 0 THEN [Added(screen, "tool", {}) EXCEPT !.card[c] = Newest(screen)]
              ELSE [screen EXCEPT !.block[b].open = @ \ {c}]
         y == x.card[c] IN
     IF b # 0 /\ ~IsActive(screen, b)
     THEN raised' = TRUE /\ UNCHANGED <<screen, timer, batches>>
     ELSE /\ IF x.block[y].open = {} THEN CommitSoon(Floated(Finished(x, {y}))) ELSE OnlyScreen(x)
          /\ UNCHANGED raised
  /\ UNCHANGED <<talking, turnsSeen>> /\ Elsewhere

\* _agent_delivered: the card of the task's agents settles, and the delivery gets a block.
Delivered(c) ==
  /\ calls[c] \notin {"new", "over"} /\ Room
  /\ TaskCard(c)
  /\ calls' = [calls EXCEPT ![c] = "over"]
  /\ LET x == Finished(screen, {screen.card[c]})
         n == Newest(x) IN
     CommitNow(Finished(Floated(Added(x, "delivery", {})), {n}))
  /\ UNCHANGED <<talking, raised, turnsSeen>> /\ Elsewhere

\* append_banner, append_raw, print, markers; a command's panel is one of them.
Notice(kind) ==
  /\ Room
  /\ LET n == Newest(screen) IN CommitSoon(Finished(Floated(Added(screen, kind, {})), {n}))
  /\ UNCHANGED <<talking, calls, raised, turnsSeen>> /\ Elsewhere

\* pin_error
PinError ==
  /\ Room
  /\ LET x == WithoutError(WithoutWorking(screen)) IN
     OnlyScreen([Added(x, "error", {}) EXCEPT !.error = Newest(x)])
  /\ UNCHANGED <<talking, calls, raised, turnsSeen>> /\ Elsewhere

Dismiss ==
  /\ screen.error # 0 /\ OnlyScreen(WithoutError(screen))
  /\ UNCHANGED <<talking, calls, raised, turnsSeen>> /\ Elsewhere

-----------------------------------------------------------------------------
(* Committing and writing *)

TimerFires ==
  /\ timer # "none"
  /\ IF timer = "set" /\ ReadyBlocks(screen) # <<>>
     THEN /\ screen' = Committed(screen, ToSet(ReadyBlocks(screen)))
          /\ batches' = Append(batches, [blocks |-> ReadyBlocks(screen), late |-> FALSE])
     ELSE UNCHANGED <<screen, batches>>
  /\ timer' = "none"
  /\ UNCHANGED <<talking, calls, raised, turnsSeen>> /\ Elsewhere

\* release_committed and prune_committed
Released(x, bs) ==
  LET Kept(b) == IF b \in bs THEN 0 ELSE b IN
  [x EXCEPT !.order = SelectSeq(@, LAMBDA b : b \notin bs),
            !.tail = [s \in Source |-> Kept(@[s])], !.reads = [s \in Source |-> Kept(@[s])],
            !.card = [c \in Call |-> Kept(@[c])], !.streams = [s \in Source |-> @[s] \ bs]]

Kind(b) == screen.block[b].kind
Panels(bs) ==
  LET panels == {i \in DOMAIN bs : Kind(bs[i]) = "panel"} IN
  IF panels = {} THEN <<>> ELSE SubSeq(bs, CHOOSE i \in panels : \A j \in panels : i <= j, Len(bs))
Others(bs) == SubSeq(bs, 1, Len(bs) - Len(Panels(bs)))

\* A panel stays in the viewport until another one or a prompt follows.
Retires(bs) == Panels(bs) # <<>> \/ \E i \in DOMAIN bs : Kind(bs[i]) = "user"

\* bug: what follows a retained panel overtakes it
Overtakes(bs) == FALSE

\* "notices following a held panel retire with it"
JoinsPanel(bs) == ~Retires(bs) /\ retained # <<>>

\* write_and_prune
WriteBatch(i) ==
  /\ i \in DOMAIN batches /\ (i > 1 => \A j \in 1 .. (i - 1) : batches[j].late)
  /\ LET bs == batches[i].blocks IN
     /\ retained' = IF JoinsPanel(bs) THEN retained \o bs
                    ELSE IF Retires(bs) THEN Panels(bs) ELSE retained
     /\ scrollback' = IF JoinsPanel(bs) THEN scrollback
                      ELSE scrollback \o (IF Retires(bs) THEN retained ELSE <<>>) \o Others(bs)
     /\ screen' = Released(screen, ToSet(bs))
  /\ batches' = [j \in 1 .. (Len(batches) - 1) |-> IF j < i THEN batches[j] ELSE batches[j + 1]]
  /\ UNCHANGED <<timer, wiping, talking, calls, raised, turnsSeen, clears>>

\* write_and_release finds the terminal more than 256 KiB behind and sleeps.
WaitForTerminal(i) ==
  /\ Backpressure /\ i \in DOMAIN batches /\ ~batches[i].late
  /\ batches' = [batches EXCEPT ![i].late = TRUE]
  /\ UNCHANGED <<screen, timer, talking, calls, raised, turnsSeen>> /\ Elsewhere

\* _clear_scrollback and rebind_session commit what is ready and wait until it is written.
WipeStarts(what) ==
  /\ wiping = "no" /\ clears < MaxClears
  /\ wiping' = what /\ clears' = clears + 1
  /\ CommitNow(screen)
  /\ UNCHANGED <<retained, scrollback, talking, calls, raised, turnsSeen>>

Wipes ==
  /\ wiping = "clear" /\ batches = <<>>
  /\ wiping' = "wiped" /\ scrollback' = <<>>
  /\ UNCHANGED <<screen, timer, batches, retained, talking, calls, raised, turnsSeen, clears>>

\* Transcript.clear
WipeEnds ==
  /\ wiping = "wiped"
  /\ wiping' = "no" /\ retained' = <<>>
  /\ LET left == UNION {ToSet(batches[i].blocks) : i \in DOMAIN batches} \union ToSet(scrollback)
                 \union {screen.working, screen.error} IN
     screen' = [TheScreen EXCEPT !.working = screen.working, !.error = screen.error,
                  !.block = [b \in BlockId |-> IF b \in left \/ Kind(b) = "none" THEN screen.block[b]
                                             ELSE GoneBlock]]
  /\ UNCHANGED <<timer, batches, scrollback, talking, calls, raised, turnsSeen, clears>>

\* retire_panels
PanelsRetire ==
  /\ wiping = "rebind" /\ batches = <<>>
  /\ wiping' = "no" /\ scrollback' = scrollback \o retained /\ retained' = <<>>
  /\ UNCHANGED <<screen, timer, batches, talking, calls, raised, turnsSeen, clears>>

TranscriptNext ==
  /\ ~raised
  /\ \/ \E s \in Source, shown \in BOOLEAN : TurnShown(s, shown)
     \/ \E s \in Source : TurnShownOver(s) \/ Aborted(s)
     \/ \E s \in Source, kind \in {"assistant", "thinking"} : Chunk(s, kind)
     \/ \E s \in Source, c \in Call, kind \in {"tool", "reads", "task"} : ToolStarts(s, c, kind)
     \/ \E c \in Call : ToolEnds(c) \/ Delivered(c)
     \/ \E kind \in {"notice", "panel"} : Notice(kind)
     \/ PinError \/ Dismiss
     \/ TimerFires
     \/ \E i \in DOMAIN batches : WriteBatch(i) \/ WaitForTerminal(i)
     \/ \E what \in {"clear", "rebind"} : WipeStarts(what)
     \/ Wipes \/ WipeEnds \/ PanelsRetire

TranscriptSpec == TranscriptInit /\ [][TranscriptNext]_transcriptVars

-----------------------------------------------------------------------------
(* Frame.viewport_plan: what the rows above the composer show *)

Spaced == {"assistant", "thinking", "tool", "reads"}   \* LEADING_SPACER_KINDS
Cards == {"tool", "reads", "task"}
LeastRows(b) == IF Kind(b) \in Spaced THEN 2 ELSE 1
WantedRows(b) ==
  IF Kind(b) \in {"tool", "reads"} THEN 3 ELSE IF Kind(b) = "assistant" THEN 4 ELSE LeastRows(b)
Total(bs, rows) == FoldSeq(LAMBDA b, sum : rows[b] + sum, 0, bs)
Shorter(x, y) == IF x < y THEN x ELSE y

\* The newest blocks whose least rows fit, and at least the newest of all
Shown(bs, budget) ==
  LET Fits(i) == FoldSeq(LAMBDA b, sum : LeastRows(b) + sum, 0, SubSeq(bs, i, Len(bs))) <= budget
      fitting == {i \in DOMAIN bs : Fits(i)} IN
  IF bs = <<>> \/ budget = 0 THEN <<>>
  ELSE IF fitting = {} THEN <<Last(bs)>>
  ELSE SubSeq(bs, CHOOSE i \in fitting : \A j \in fitting : i <= j, Len(bs))

\* bug: cards grow before prose does
CardsFirst(bs) ==
  SelectSeq(bs, LAMBDA b : Kind(b) \in Cards) \o SelectSeq(bs, LAMBDA b : Kind(b) \notin Cards)

\* The order in which surplus rows are given: prose before cards, the newest first
Growing(bs) ==
  SelectSeq(bs, LAMBDA b : Kind(b) \notin Cards) \o SelectSeq(bs, LAMBDA b : Kind(b) \in Cards)

Rows(bs, budget) ==
  LET least == [b \in ToSet(bs) |-> Shorter(LeastRows(b), budget)]
      Grow(b, rows) ==
        [rows EXCEPT ![b] = @ + Shorter(budget - Total(bs, rows), WantedRows(b) - @)] IN
  FoldLeft(LAMBDA rows, b : IF WantedRows(b) > rows[b] THEN Grow(b, rows) ELSE rows, least,
           Growing(Reverse(bs)))

-----------------------------------------------------------------------------
TranscriptTypeOK ==
  /\ ToSet(screen.order) \union ToSet(retained) \union ToSet(scrollback) \subseteq BlockId
  /\ timer \in {"none", "set", "cancelled"} /\ talking \subseteq Source
  /\ wiping \in {"no", "clear", "wiped", "rebind"}

\* What is in the scrollback is there once, and in the order in which it came, but for the cards of
\* tasks, which wait for their agents ("Preserve chronology", runtime.py:2260).
ScrollbackInOrder ==
  \A i, j \in DOMAIN scrollback : i < j =>
    /\ scrollback[i] # scrollback[j]
    /\ Kind(scrollback[i]) = "task" \/ Kind(scrollback[j]) = "task" \/ scrollback[i] < scrollback[j]

\* No event finds that its block has been settled while its source was still at it ("source-aware
\* accumulated transcript state", transcript.py:95): a handler that raises ends the turn.
EventsAccepted == ~raised

\* Whatever the height, the newest block is shown, nothing is drawn over the composer, and a card
\* has more than its least row only when all the prose shown has what it wants (frame.py 197-270).
ViewportFits ==
  LET Visible(b) == State(screen, b) # "committed" /\ Kind(b) # "working"
      bs == retained \o SelectSeq(screen.order, Visible) IN
  \A budget \in Heights :
    LET shown == Shown(bs, budget)
        rows == Rows(shown, budget) IN
    bs # <<>> =>
      /\ shown # <<>> /\ Last(shown) = Last(bs)
      /\ Total(shown, rows) <= budget
      /\ (\E b \in ToSet(shown) : Kind(b) \in Cards /\ rows[b] > LeastRows(b)) =>
           \A b \in ToSet(shown) : Kind(b) \notin Cards => rows[b] >= WantedRows(b)
=============================================================================
