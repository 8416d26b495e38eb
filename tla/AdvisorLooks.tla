---------------------------- MODULE AdvisorLooks ----------------------------
(***************************************************************************)
(* The advisor service of one session (builtin/advisor.py 177-466): looks  *)
(* at what a turn of the main agent has added to the transcript, the       *)
(* cursor that says how far it has looked, and the one hidden run it       *)
(* sends what it sees to.                                                  *)
(*                                                                         *)
(* Everything is on one event loop; a look is a task that a fresh prompt   *)
(* cancels. Of the run only what a look can tell is here: its status, its  *)
(* inbox and its outbox (AgentRuns has the rest). What an advice says, and *)
(* whether it may interrupt, is left out: a follow-up is a turn like any.  *)
(***************************************************************************)
EXTENDS Naturals, FiniteSets, SequencesExt

CONSTANTS
  MaxTurns, MaxResets   \* bounds: turns of the main agent; changes of settings, and restarts

VARIABLES
  transcript, \* ledger.path: the entries of the main session, one for each turn
  turns,      \* state.turns
  run,        \* the newest advisor run of the session
  svc,        \* state: cursor (0 for None), mine (state.run is that run), spawn_task
  look,       \* the look in hand
  advClosed,  \* _closed
  resets,
  answered,   \* entries of the prompts whose advice a look has taken, in this run's conversation
  excused     \* entries that the exceptions named in NothingSkipped are about

advisorVars == <<transcript, turns, run, svc, look, advClosed, resets, answered, excused>>

NoRun == [st |-> "over", inbox |-> <<>>, doing |-> {}, outbox |-> <<>>, fits |-> TRUE,
          ending |-> FALSE]
NoLook == [pc |-> "none", seen |-> <<>>, prompt |-> {}, target |-> 0, before |-> 0, own |-> FALSE]

\* spawn is the prompt of the run that spawn_task creates, or {}.
NewState == [cursor |-> 0, mine |-> FALSE, spawn |-> {}]
Alive == run.st # "over"

AdvisorInit ==
  /\ transcript = <<>> /\ turns = 0
  /\ run = NoRun /\ svc = NewState /\ look = NoLook
  /\ advClosed = FALSE /\ resets = 0 /\ answered = {} /\ excused = {}

-----------------------------------------------------------------------------
(* The main agent. *)

\* on_main_turn_end: a look, unless one is in hand.
MainTurnEnds ==
  /\ turns < MaxTurns /\ turns' = turns + 1
  /\ transcript' = Append(transcript, turns + 1)
  /\ look' = IF look.pc = "none" /\ ~advClosed THEN [NoLook EXCEPT !.pc = "begun"] ELSE look
  /\ UNCHANGED <<run, svc, advClosed, resets, answered, excused>>

\* The user goes back in the tree, or clears.
PathShrinks ==
  /\ \E k \in 0 .. Len(transcript) - 1 : transcript' = SubSeq(transcript, 1, k)
  /\ UNCHANGED <<turns, run, svc, look, advClosed, resets, answered, excused>>

\* Model, mode, backend or tools are changed, or changed back.
SettingsChange ==
  /\ resets < MaxResets /\ resets' = resets + 1
  /\ run' = [run EXCEPT !.fits = ~@]
  /\ UNCHANGED <<transcript, turns, svc, look, advClosed, answered, excused>>

\* The program starts again with --resume: the run is there, parked; the service knows nothing.
AdvisorRestarts ==
  /\ resets < MaxResets /\ resets' = resets + 1
  /\ run' = IF Alive THEN [NoRun EXCEPT !.st = "parked", !.fits = run.fits] ELSE run
  /\ svc' = NewState /\ look' = NoLook /\ advClosed' = FALSE
  /\ UNCHANGED <<transcript, turns, answered, excused>>

-----------------------------------------------------------------------------
(* A look, up to the prompt. *)

Upto(e, path) == {path[i] : i \in {j \in DOMAIN path : \E k \in j .. Len(path) : path[k] = e}}

\* _reset_run: the run is let go and aborted, and its task waited for.
Resets(s, l) ==
  /\ svc' = [s EXCEPT !.mine = FALSE]
  /\ run' = [run EXCEPT !.ending = TRUE]
  /\ look' = l
  /\ UNCHANGED excused

\* bug: an advice that came too late for its look stays in the outbox
KeepsOutbox(r) == r

\* run.advice_outbox is emptied.
Drained(r) == [r EXCEPT !.outbox = <<>>]

\* A parked run is revived, and the prompt sent; then the cursor moves.
Sends(s, l) ==
  /\ run' = [Drained(run) EXCEPT !.inbox = Append(@, l.prompt),
                                 !.st = IF @ = "parked" THEN "idle" ELSE @]
  /\ svc' = [s EXCEPT !.mine = TRUE, !.cursor = l.target]
  /\ look' = [l EXCEPT !.pc = "advice"]
  /\ excused' = IF run.st = "queued" \/ run.inbox # <<>> THEN excused \union l.prompt ELSE excused

\* The run is there: while it is at work it is waited for.
UsesRun(s, l) ==
  IF run.st = "running"
    THEN svc' = [s EXCEPT !.mine = TRUE] /\ look' = [l EXCEPT !.pc = "busy"] /\ UNCHANGED <<run, excused>>
    ELSE Sends(s, l)

\* A new run, by a task of its own; or the task of an earlier look, which is not over.
Spawns(s, l) ==
  /\ svc' = [s EXCEPT !.spawn = IF @ = {} THEN l.prompt ELSE @]
  /\ look' = [l EXCEPT !.pc = "spawning", !.own = s.spawn = {}]
  /\ UNCHANGED <<run, excused>>

\* _ready_run: the run in use, one that is there, or a new one.
ReadyRun(s, l) ==
  CASE Alive /\ (s.mine \/ run.fits) -> UsesRun(s, l)
    [] Alive /\ ~s.mine /\ ~run.fits -> Resets(s, [l EXCEPT !.pc = "replacing"])
    [] ~Alive -> Spawns(s, l)

\* _transcript_delta: what of path is after the cursor.
Delta(cursor, path) == Range(path) \ Upto(cursor, path)

\* That goes into the prompt; if there is nothing, the look is over.
LooksAt(s, path) ==
  LET new == Delta(s.cursor, path)
  IN  IF new = {}
        THEN svc' = s /\ look' = NoLook /\ UNCHANGED <<run, excused>>
        ELSE ReadyRun(s, [NoLook EXCEPT !.prompt = new, !.target = Last(path), !.before = s.cursor])

\* A cursor that is not on the path is an abandoned branch: its run is replaced.
FindsPlace(s) ==
  LET there == s.cursor \in Range(transcript) \union {0}
      inUse == s.mine /\ Alive
  IN  CASE there -> LooksAt(s, transcript)
        [] ~there /\ inUse -> Resets(s, [NoLook EXCEPT !.pc = "reseeding", !.seen = transcript])
        [] ~there /\ ~inUse -> LooksAt([s EXCEPT !.cursor = 0, !.mine = FALSE], transcript)

\* _look_at_delta. A run that is over, or does not fit, is replaced.
LookBegins ==
  /\ look.pc = "begun"
  /\ CASE ~svc.mine \/ (Alive /\ run.fits) -> FindsPlace(svc)
       [] svc.mine /\ ~Alive -> FindsPlace([svc EXCEPT !.mine = FALSE, !.cursor = 0])
       [] svc.mine /\ Alive /\ ~run.fits -> Resets(svc, [look EXCEPT !.pc = "refitting"])
  /\ UNCHANGED <<transcript, turns, advClosed, resets, answered>>

\* The aborted run's task is over, and the look goes on where it waited for that.
AfterReset ==
  /\ ~Alive
  /\ \/ look.pc = "refitting" /\ FindsPlace([svc EXCEPT !.cursor = 0])
     \/ look.pc = "reseeding" /\ LooksAt([svc EXCEPT !.cursor = 0], look.seen)
     \/ look.pc = "replacing" /\ Spawns(svc, look)
  /\ UNCHANGED <<transcript, turns, advClosed, resets, answered>>

-----------------------------------------------------------------------------
(* The task that spawns, and what a look then waits for. *)

\* bug: the cursor stays where the prompt has put it
StaysMoved(l) == svc.cursor

\* The cursor before the look, when it ends without an advice.
Restored(l) == l.before

\* The look ends without one.
GivesNothing == svc' = [svc EXCEPT !.cursor = Restored(look)] /\ look' = NoLook

\* The new run is there and waits for a turn; a look that made it for its own prompt goes on.
SpawnEnds ==
  /\ svc.spawn # {}
  /\ LET s == [svc EXCEPT !.spawn = {}, !.mine = TRUE]
     IN  IF look.pc = "spawning" /\ look.own
           THEN svc' = [s EXCEPT !.cursor = look.target] /\ look' = [look EXCEPT !.pc = "advice"]
           ELSE svc' = s /\ UNCHANGED look
  /\ run' = [NoRun EXCEPT !.st = "queued", !.inbox = <<svc.spawn>>]
  /\ answered' = {}
  /\ UNCHANGED <<transcript, turns, advClosed, resets, excused>>

\* No run can be made now: the limit of live runs.
SpawnFails ==
  /\ svc.spawn # {}
  /\ IF look.pc = "spawning"
       THEN svc' = [svc EXCEPT !.spawn = {}, !.cursor = Restored(look)] /\ look' = NoLook
       ELSE svc' = [svc EXCEPT !.spawn = {}] /\ UNCHANGED look
  /\ UNCHANGED <<transcript, turns, run, advClosed, resets, answered, excused>>

\* The run of an earlier look's task takes this look's prompt in its inbox.
GetsRun ==
  /\ look.pc = "spawning" /\ svc.spawn = {} /\ ~look.own
  /\ IF Alive THEN UsesRun(svc, look) ELSE GivesNothing /\ UNCHANGED <<run, excused>>
  /\ UNCHANGED <<transcript, turns, advClosed, resets, answered>>

\* wait_status("idle")
RunIsIdle ==
  /\ look.pc = "busy" /\ run.st = "idle"
  /\ Sends(svc, look)
  /\ UNCHANGED <<transcript, turns, advClosed, resets, answered>>

\* _next_advice: the advice, or the end of the run's task. The advice is then announced.
TakesAdvice ==
  /\ look.pc = "advice"
  /\ \/ /\ run.outbox # <<>>
        /\ run' = [run EXCEPT !.outbox = Tail(@)]
        /\ answered' = answered \union Head(run.outbox)
        /\ look' = [look EXCEPT !.pc = "announcing"]
        /\ UNCHANGED svc
     \/ /\ ~Alive /\ run.outbox = <<>>
        /\ GivesNothing
        /\ UNCHANGED <<run, answered>>
  /\ UNCHANGED <<transcript, turns, advClosed, resets, excused>>

LookAnnounced ==
  /\ look.pc = "announcing" /\ look' = NoLook
  /\ UNCHANGED <<transcript, turns, run, svc, advClosed, resets, answered, excused>>

\* asyncio.timeout, around everything from _ready_run to the advice
LookTimesOut ==
  /\ look.pc \in {"replacing", "spawning", "busy", "advice"}
  /\ GivesNothing
  /\ UNCHANGED <<transcript, turns, run, advClosed, resets, answered, excused>>

\* before_user_prompt. Before it has a prompt a look has not moved the cursor, and in the
\* announcement it leaves it. A reset that is cut off leaves the old cursor to the next run.
Cancels ==
  /\ look' = NoLook
  /\ svc' = IF look.pc \in {"replacing", "spawning", "busy", "advice"}
              THEN [svc EXCEPT !.cursor = Restored(look)] ELSE svc
  /\ excused' = IF look.pc = "refitting" THEN excused \union Range(transcript) ELSE excused

UserPrompts ==
  /\ look.pc # "none" /\ Cancels
  /\ UNCHANGED <<transcript, turns, run, advClosed, resets, answered>>

\* aclose: no more looks, then no more spawning, then the run is aborted.
AdvisorCloses ==
  /\ ~advClosed /\ advClosed' = TRUE
  /\ Cancels
  /\ UNCHANGED <<transcript, turns, run, resets, answered>>
AdvisorClosed ==
  /\ advClosed /\ (svc.spawn # {} \/ (svc.mine /\ Alive /\ ~run.ending))
  /\ svc' = [svc EXCEPT !.spawn = {}]
  /\ run' = IF svc.mine THEN [run EXCEPT !.ending = TRUE] ELSE run
  /\ UNCHANGED <<transcript, turns, look, advClosed, resets, answered, excused>>

-----------------------------------------------------------------------------
(* The run. Between its turns it is idle, also while a prompt waits for a permit. *)

Runs(r) ==
  /\ Alive /\ run' = r
  /\ UNCHANGED <<transcript, turns, svc, look, advClosed, resets, answered, excused>>

TurnBegins ==
  /\ run.st \in {"queued", "idle"} /\ run.inbox # <<>> /\ ~run.ending
  /\ Runs([run EXCEPT !.st = "running", !.doing = Head(run.inbox), !.inbox = Tail(@)])

\* The tool advise, at most once in a turn.
Advises ==
  /\ run.st = "running" /\ run.doing # {}
  /\ Runs([run EXCEPT !.outbox = Append(@, run.doing), !.doing = {}])

TurnIsOver == run.st = "running" /\ Runs([run EXCEPT !.st = "idle", !.doing = {}])

\* An abort, or an error in a turn.
RunIsOver ==
  /\ run.ending \/ run.st = "running"
  /\ Runs([run EXCEPT !.st = "over", !.inbox = <<>>, !.doing = {}])

AdvisorNext ==
  \/ MainTurnEnds \/ PathShrinks \/ SettingsChange \/ AdvisorRestarts
  \/ LookBegins \/ AfterReset \/ SpawnEnds \/ SpawnFails \/ GetsRun \/ RunIsIdle
  \/ TakesAdvice \/ LookAnnounced \/ LookTimesOut \/ UserPrompts
  \/ AdvisorCloses \/ AdvisorClosed
  \/ TurnBegins \/ Advises \/ TurnIsOver \/ RunIsOver

AdvisorSpec == AdvisorInit /\ [][AdvisorNext]_advisorVars

-----------------------------------------------------------------------------
AdvisorTypeOK ==
  /\ transcript \in Seq(1 .. MaxTurns) /\ turns \in 0 .. MaxTurns
  /\ run.st \in {"queued", "running", "idle", "parked", "over"}
  /\ svc \in [cursor : 0 .. MaxTurns, mine : BOOLEAN, spawn : SUBSET (1 .. MaxTurns)]
  /\ look.pc \in {"none", "begun", "refitting", "reseeding", "replacing", "spawning", "busy",
                  "advice", "announcing"}
  /\ look.target \in 0 .. MaxTurns /\ look.before \in 0 .. MaxTurns
  /\ answered \subseteq 1 .. MaxTurns /\ excused \subseteq 1 .. MaxTurns

\* The cursor passes no entry the advisor has not heard: between looks, whatever became of the
\* last ones, everything up to the cursor was in prompts whose advice a look has taken, in the
\* conversation of the run in use (advisor.py 225-261, 364-390). Two ways around it are excused:
\* a prompt sent to a run whose earlier prompt still waits for a permit, which takes the earlier
\* prompt's advice for its own, and a replacement of the run that a fresh prompt cuts off.
NothingSkipped ==
  look.pc \in {"none", "begun"} /\ svc.mine /\ Alive =>
    Upto(svc.cursor, transcript) \subseteq answered \union excused
=============================================================================
