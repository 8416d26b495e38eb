--------------------------- MODULE TerminalOutput ---------------------------
(***************************************************************************)
(* What the application writes to the terminal: frames of prompt_toolkit   *)
(* and settled blocks go through one pump, whose thread may fall behind    *)
(* (tui/runtime.py 113-178, 251-417, 2287-2301).  Lengths are counted in   *)
(* writes; a behaviour begins when the first frame has been painted.       *)
(***************************************************************************)
EXTENDS Integers

CONSTANTS
  Skips,         \* 262144 bytes: repaints are left out when more is waiting
  Recovers,      \* 65536 bytes: a repaint that was left out is made up for below it
  StallTicks,    \* stall_seconds, in samples of the probe
  MaxBehind,     \* bound: writes that wait
  MaxReplies,    \* bound: replies of the terminal and changes of the setting
  MaxChangesSeen,\* bound: changes of what is shown, and blocks that are committed
  MaxTicks       \* bound: samples of the probe

ASSUME OutputAssumption == Recovers \in Nat /\ Skips \in Nat /\ Recovers <= Skips

VARIABLES
  pump,       \* writes that wait, how many the counter says, and whether writing has failed
  bracket,    \* whether what was given to the pump leaves a synchronized update open
  frameDepth, frameSync,   \* _sync_depth and _sync_open
  wanted, detected,        \* _enabled and _detected_synchronized
  buffered,   \* something is in the output's own buffer
  stale,      \* the screen does not show the application's state
  skipped,    \* _redraw_skipped
  scheduled,  \* a redraw is scheduled
  commit,     \* where write_and_release is
  probe, watch, slow,      \* _probe_task, the watchdog, _degraded
  closing,    \* where the runtime's end is
  replies, shownChanges, ticks

outputVars == <<pump, bracket, frameDepth, frameSync, wanted, detected, buffered, stale, skipped,
                scheduled, commit, probe, watch, slow, closing, replies, shownChanges, ticks>>

OutputInit ==
  /\ pump = [waiting |-> 0, counted |-> 0, failed |-> FALSE]
  /\ bracket = "closed" /\ frameDepth = 0 /\ frameSync = FALSE
  /\ wanted = TRUE /\ detected \in BOOLEAN
  /\ buffered = FALSE /\ stale = FALSE /\ skipped = FALSE /\ scheduled = FALSE
  /\ commit = "no" /\ probe = "on" /\ watch = [armed |-> FALSE, low |-> 0, age |-> 0]
  /\ slow = FALSE /\ closing = "no" /\ replies = 0 /\ shownChanges = 0 /\ ticks = 0

Synchronized == wanted /\ detected
Running == closing = "no"
InTerminal == commit \in {"erased", "printed"}    \* run_in_terminal has suspended the frame

\* _TerminalPump.write of one piece, which leaves the update as bracketed says
Handed(bracketed) ==
  /\ pump' = IF pump.failed THEN pump
             ELSE [pump EXCEPT !.waiting = @ + 1, !.counted = @ + 1]
  /\ bracket' = IF pump.failed THEN bracket ELSE bracketed

\* flush: a frame outside a transaction is one of its own.
Flushed == IF Synchronized /\ frameDepth = 0 THEN "closed" ELSE bracket

CanHand == pump.waiting < MaxBehind

-----------------------------------------------------------------------------
(* Painting *)

\* Something that is shown changes, and application.invalidate is called.
Changes ==
  /\ Running /\ shownChanges < MaxChangesSeen
  /\ shownChanges' = shownChanges + 1 /\ stale' = TRUE /\ scheduled' = TRUE
  /\ UNCHANGED <<pump, bracket, frameDepth, frameSync, wanted, detected, buffered, skipped, commit,
                 probe, watch, slow, closing, replies, ticks>>

\* bug: the repaint is left out, and nobody knows
SkipsSilently == skipped

\* redraw leaves the repaint out and remembers it.
SkipsRedraw == TRUE

\* redraw; while the frame is suspended prompt_toolkit paints nothing.
Repaints(suspended) ==
  IF pump.counted > Skips
  THEN skipped' = SkipsRedraw /\ UNCHANGED <<pump, bracket, stale, buffered>>
  ELSE /\ skipped' = FALSE
       /\ IF suspended
          THEN UNCHANGED <<pump, bracket, stale, buffered>>
          ELSE stale' = FALSE /\ buffered' = FALSE /\ Handed(Flushed)

Redraw ==
  /\ scheduled /\ Running /\ CanHand
  /\ scheduled' = FALSE
  /\ Repaints(InTerminal)
  /\ UNCHANGED <<frameDepth, frameSync, wanted, detected, commit, probe, watch, slow, closing,
                 replies, shownChanges, ticks>>

\* The title, a bell: written to the output's buffer, which is flushed with the next frame.
Buffers ==
  /\ Running /\ ~buffered /\ shownChanges < MaxChangesSeen
  /\ buffered' = TRUE /\ shownChanges' = shownChanges + 1
  /\ UNCHANGED <<pump, bracket, frameDepth, frameSync, wanted, detected, stale, skipped, scheduled,
                 commit, probe, watch, slow, closing, replies, ticks>>

\* report of the terminal's answer, and set_enabled by the settings
Reports(answer) ==
  /\ Running /\ replies < MaxReplies /\ answer # detected
  /\ detected' = answer /\ replies' = replies + 1
  /\ UNCHANGED <<pump, bracket, frameDepth, frameSync, wanted, buffered, stale, skipped, scheduled,
                 commit, probe, watch, slow, closing, shownChanges, ticks>>

SetEnabled ==
  /\ Running /\ replies < MaxReplies
  /\ wanted' = ~wanted /\ replies' = replies + 1
  /\ UNCHANGED <<pump, bracket, frameDepth, frameSync, detected, buffered, stale, skipped,
                 scheduled, commit, probe, watch, slow, closing, shownChanges, ticks>>

-----------------------------------------------------------------------------
(* Committing: begin_frame, run_in_terminal(write_and_prune), end_frame *)

CommitAsked ==
  /\ commit = "no" /\ Running /\ shownChanges < MaxChangesSeen
  /\ shownChanges' = shownChanges + 1 /\ commit' = "waits"
  /\ UNCHANGED <<pump, bracket, frameDepth, frameSync, wanted, detected, buffered, stale, skipped,
                 scheduled, probe, watch, slow, closing, replies, ticks>>

\* The commit waits for the terminal; when the application ends it is given up.
CommitGivenUp ==
  /\ commit = "waits" /\ pump.counted > Skips /\ ~pump.failed /\ closing = "draining"
  /\ commit' = "no"
  /\ UNCHANGED <<pump, bracket, frameDepth, frameSync, wanted, detected, buffered, stale, skipped,
                 scheduled, probe, watch, slow, closing, replies, shownChanges, ticks>>

BeginFrame ==
  /\ commit = "waits" /\ (pump.counted <= Skips \/ pump.failed) /\ CanHand
  /\ commit' = "begun" /\ frameDepth' = frameDepth + 1 /\ frameSync' = Synchronized
  /\ buffered' = FALSE
  /\ IF Synchronized THEN Handed("open")
     ELSE IF buffered THEN Handed(Flushed) ELSE UNCHANGED <<pump, bracket>>
  /\ UNCHANGED <<wanted, detected, stale, skipped, scheduled, probe, watch, slow, closing, replies,
                 shownChanges, ticks>>

\* The frame is erased, if there is one.
Erases ==
  /\ commit = "begun" /\ CanHand
  /\ commit' = "erased"
  /\ IF Running THEN stale' = TRUE /\ buffered' = FALSE /\ Handed(Flushed)
     ELSE UNCHANGED <<pump, bracket, stale, buffered>>
  /\ UNCHANGED <<frameDepth, frameSync, wanted, detected, skipped, scheduled, probe, watch, slow,
                 closing, replies, shownChanges, ticks>>

\* The console writes to the pump.
PrintsBlocks ==
  /\ commit = "erased" /\ CanHand
  /\ commit' = "printed" /\ Handed(bracket)
  /\ UNCHANGED <<frameDepth, frameSync, wanted, detected, buffered, stale, skipped, scheduled,
                 probe, watch, slow, closing, replies, shownChanges, ticks>>

RestoresFrame ==
  /\ commit = "printed" /\ CanHand
  /\ commit' = "painted"
  /\ IF Running THEN Repaints(FALSE) ELSE UNCHANGED <<pump, bracket, stale, buffered, skipped>>
  /\ UNCHANGED <<frameDepth, frameSync, wanted, detected, scheduled, probe, watch, slow, closing,
                 replies, shownChanges, ticks>>

\* bug: the update is closed if synchronized updates are on now
ClosesIfOnNow == Synchronized

\* end_frame closes the update that begin_frame opened.
ClosesUpdate == frameSync

EndFrame ==
  /\ commit = "painted" /\ CanHand
  /\ commit' = "no" /\ frameDepth' = frameDepth - 1 /\ frameSync' = FALSE
  /\ buffered' = FALSE
  /\ IF ClosesUpdate THEN Handed("closed")
     ELSE IF buffered THEN Handed(Flushed) ELSE UNCHANGED <<pump, bracket>>
  /\ scheduled' = (scheduled \/ (frameDepth = 1 /\ skipped))
  /\ UNCHANGED <<wanted, detected, stale, skipped, probe, watch, slow, closing, replies,
                 shownChanges, ticks>>

-----------------------------------------------------------------------------
(* The pump's thread and the probe *)

PumpWrites ==
  /\ pump.waiting > 0
  /\ pump' = [pump EXCEPT !.waiting = @ - 1, !.counted = @ - 1]
  /\ UNCHANGED <<bracket, frameDepth, frameSync, wanted, detected, buffered, stale, skipped,
                 scheduled, commit, probe, watch, slow, closing, replies, shownChanges, ticks>>

\* A write fails; what waits is still tried.
PumpFails ==
  /\ pump.waiting > 0 /\ ~pump.failed
  /\ pump' = [waiting |-> pump.waiting - 1, counted |-> 0, failed |-> TRUE]
  /\ UNCHANGED <<bracket, frameDepth, frameSync, wanted, detected, buffered, stale, skipped,
                 scheduled, commit, probe, watch, slow, closing, replies, shownChanges, ticks>>

\* StdoutStallWatchdog.sample
Sampled ==
  IF pump.counted <= Recovers THEN [watch EXCEPT !.armed = FALSE]
  ELSE IF ~watch.armed /\ pump.counted <= Skips THEN watch
  ELSE IF ~watch.armed \/ pump.counted < watch.low
  THEN [armed |-> TRUE, low |-> pump.counted, age |-> 0]
  ELSE [watch EXCEPT !.age = IF @ < StallTicks THEN @ + 1 ELSE @]

\* _sample_output
ProbeTick ==
  /\ probe = "on" /\ closing # "closed" /\ ticks < MaxTicks
  /\ ticks' = ticks + 1
  /\ IF pump.failed
     THEN /\ probe' = "over" /\ closing' = IF Running THEN "draining" ELSE closing
          /\ UNCHANGED <<watch, slow, scheduled>>
     ELSE LET stalled == Sampled.armed /\ Sampled.age >= StallTicks IN
          /\ watch' = Sampled /\ slow' = stalled
          /\ scheduled' = (scheduled \/ stalled # slow \/ (skipped /\ pump.counted < Recovers))
          /\ UNCHANGED <<probe, closing>>
  /\ UNCHANGED <<pump, bracket, frameDepth, frameSync, wanted, detected, buffered, stale, skipped,
                 commit, replies, shownChanges>>

-----------------------------------------------------------------------------
(* The end: the application stops, commits are drained, the output is closed. *)

AppStops ==
  /\ Running
  /\ closing' = "draining" /\ scheduled' = FALSE
  /\ UNCHANGED <<pump, bracket, frameDepth, frameSync, wanted, detected, buffered, stale, skipped,
                 commit, probe, watch, slow, replies, shownChanges, ticks>>

CloseOutput ==
  /\ closing = "draining" /\ commit = "no" /\ CanHand
  /\ closing' = "closed" /\ probe' = "over" /\ buffered' = FALSE
  /\ Handed("closed")
  /\ UNCHANGED <<frameDepth, frameSync, wanted, detected, stale, skipped, scheduled, commit, watch,
                 slow, replies, shownChanges, ticks>>

OutputNext ==
  \/ Changes \/ Redraw \/ Buffers \/ (\E a \in BOOLEAN : Reports(a)) \/ SetEnabled
  \/ CommitAsked \/ CommitGivenUp \/ BeginFrame \/ Erases \/ PrintsBlocks \/ RestoresFrame
  \/ EndFrame
  \/ PumpWrites \/ PumpFails \/ ProbeTick
  \/ AppStops \/ CloseOutput

OutputSpec == OutputInit /\ [][OutputNext]_outputVars

-----------------------------------------------------------------------------
OutputTypeOK ==
  /\ pump.waiting \in 0 .. MaxBehind /\ pump.counted \in -MaxBehind .. MaxBehind
  /\ bracket \in {"open", "closed"} /\ frameDepth \in {0, 1}
  /\ commit \in {"no", "waits", "begun", "erased", "printed", "painted"}

\* What is given to a pump that works has a synchronized update open exactly from begin_frame to
\* end_frame of a frame that opened one, whatever the terminal answers and the settings say in
\* between ("without changing an already-open transaction", runtime.py:308).
TransactionsWhole ==
  ~pump.failed => (bracket = "open" <=> (frameDepth > 0 /\ frameSync))

\* While the application runs, a screen that shows something old will be painted: a redraw is
\* scheduled, or a commit has yet to restore the frame, or the repaint that was left out is
\* remembered by a probe that runs (or by the end of the transaction).
PaintsRecovered ==
  stale /\ Running /\ ~pump.failed =>
    \/ scheduled \/ commit \in {"begun", "erased", "printed"}
    \/ (skipped /\ (probe = "on" \/ frameDepth > 0))

OutputSound == TransactionsWhole /\ PaintsRecovered
=============================================================================
