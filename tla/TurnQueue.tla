----------------------------- MODULE TurnQueue -----------------------------
(***************************************************************************)
(* The prompts of the user: the queue, steering of a turn that streams,    *)
(* the submission loop, escape, interrupt, exit, and session switches that *)
(* take the queue with them (tui/queue.py 54-152, tui/runtime.py           *)
(* 1352-1416, 1426-1602, 1856-1941, tui/turn.py 459-602, tui/context.py    *)
(* 641-666, 775).                                                          *)
(*                                                                         *)
(* A prompt is its number; prompts in Command are commands that switch the *)
(* session.  Keys are handled between two steps of the coroutines.         *)
(***************************************************************************)
EXTENDS Integers, FiniteSets, SequencesExt

CONSTANTS
  MaxPrompts,  \* how many prompts are given
  Command,     \* those that are session switches
  MaxResults,  \* results of background runs that become claimable
  MaxExits

ASSUME QueueAssumption == MaxPrompts \in Nat

VARIABLES
  queue,      \* PromptQueue._items: a sequence of prompts with their mode
  steering,   \* _steering_open
  streaming,  \* ApplicationRuntime.streaming
  line,       \* prompts whose _submit_serially waits for the lock, in order
  loop,       \* the _submit_serially that has the lock
  current,    \* what it runs: a prompt, or Result
  pendingUser,\* the prompt it has put behind a result, or NoPrompt
  phase,      \* where the turn is
  abort,      \* the turn has been cancelled and does not know yet
  draft,      \* the prompts whose text is in the editor
  saved,      \* the composer state of each session: queue and draft
  session, beside, \* the session, and the switch given beside a turn
  leaving,    \* _shutting_down
  claimable,  \* results of background runs that can be claimed
  started,    \* prompts given to a turn, in order
  lost, stale,\* prompts known to be given up, prompts saved although they were kept or run
  fresh, made, exits

queueVars == <<queue, steering, streaming, line, loop, current, pendingUser, phase, abort, draft,
               saved, session, beside, leaving, claimable, started, lost, stale, fresh, made, exits>>
turnVars == <<loop, current, pendingUser, phase, abort, streaming, started>>

Prompt == 1..MaxPrompts
Session == 1..3
NoPrompt == 0
Result == MaxPrompts + 1
Items(ids, mode) == [i \in DOMAIN ids |-> [id |-> ids[i], mode |-> mode]]
Ids(items) == [i \in DOMAIN items |-> items[i].id]
Composer == [queue |-> <<>>, draft |-> <<>>]

QueueInit ==
  /\ queue = <<>> /\ steering = FALSE /\ streaming = FALSE
  /\ line = <<>> /\ loop = "free" /\ current = NoPrompt /\ pendingUser = NoPrompt
  /\ phase = "none" /\ abort = FALSE
  /\ draft = <<>> /\ saved = [s \in Session |-> Composer] /\ session = 1 /\ beside = "none"
  /\ leaving = FALSE /\ claimable = 0
  /\ started = <<>> /\ lost = {} /\ stale = {} /\ fresh = 1 /\ made = 0 /\ exits = 0

-----------------------------------------------------------------------------
(* PromptQueue. *)

\* pop(mode): the first prompt of that mode
FirstOf(mode) == SelectInSeq(queue, LAMBDA it : it.mode = mode)
Without(i) == RemoveAt(queue, i)

\* bug: a cancelled turn only closes steering
CloseOnly(promote) == /\ steering' = FALSE
                      /\ UNCHANGED queue

\* close_steering: prompts that did not reach the turn become follow-ups.
CloseSteering(promote) ==
  /\ steering' = FALSE
  /\ queue' = IF promote THEN Items(Ids(queue), "follow_up") ELSE queue

-----------------------------------------------------------------------------
(* _submit_serially. *)

\* A turn, or a command, is started for what is next.
StartsTurn(x) ==
  /\ loop' = "turn" /\ current' = x /\ streaming' = TRUE /\ abort' = FALSE
  /\ phase' = IF x \in Command THEN "switch" ELSE "opening"
  /\ started' = IF x = Result THEN started ELSE Append(started, x)

\* What follows a claim that had nothing: the prompt behind the result, then a follow-up, then
\* the lock is released.
GoesOn(pending) ==
  \/ /\ pending # NoPrompt
     /\ StartsTurn(pending) /\ pendingUser' = NoPrompt /\ UNCHANGED queue
  \/ /\ pending = NoPrompt /\ FirstOf("follow_up") # 0
     /\ StartsTurn(queue[FirstOf("follow_up")].id)
     /\ queue' = Without(FirstOf("follow_up")) /\ pendingUser' = NoPrompt
  \/ /\ pending = NoPrompt /\ FirstOf("follow_up") = 0
     /\ loop' = "free" /\ current' = NoPrompt /\ phase' = "none" /\ abort' = FALSE
     /\ streaming' = FALSE /\ pendingUser' = NoPrompt
     /\ UNCHANGED <<started, queue>>

\* _claim_agent_delivery awaits the announcement of what it claims; else it does not suspend.
Claims(pending) ==
  \/ /\ claimable > 0
     /\ loop' = "claiming" /\ pendingUser' = pending /\ claimable' = 0
     /\ current' = NoPrompt /\ phase' = "none" /\ abort' = FALSE /\ streaming' = FALSE
     /\ UNCHANGED <<started, queue>>
  \/ /\ claimable = 0 /\ GoesOn(pending) /\ UNCHANGED claimable

\* The next _submit_serially gets the lock; at the end of the program it just returns.
TakesLock ==
  /\ loop = "free" /\ line # <<>>
  /\ line' = Tail(line)
  /\ \/ ~leaving /\ Claims(Head(line)) /\ UNCHANGED lost
     \/ /\ leaving /\ lost' = lost \union {Head(line)}
        /\ UNCHANGED <<turnVars, queue, claimable>>
  /\ UNCHANGED <<steering, draft, saved, session, beside, leaving, stale, fresh, made, exits>>

\* The claimed results are a prompt of their own, before the user's.
ClaimReturns ==
  /\ loop = "claiming"
  /\ StartsTurn(Result)
  /\ UNCHANGED <<queue, steering, line, pendingUser, draft, saved, session, beside, leaving,
                 claimable, lost, stale, fresh, made, exits>>

\* The turn is over: the loop's finally, then what is next.
TurnOver ==
  /\ loop = "turn" /\ phase = "over"
  /\ steering' = FALSE
  /\ \/ ~leaving /\ Claims(pendingUser) /\ UNCHANGED lost
     \/ /\ leaving
        /\ loop' = "free" /\ current' = NoPrompt /\ phase' = "none" /\ abort' = FALSE
        /\ streaming' = FALSE /\ pendingUser' = NoPrompt
        /\ lost' = lost \union ({pendingUser} \ {NoPrompt})
        /\ UNCHANGED <<started, queue, claimable>>
  /\ UNCHANGED <<line, draft, saved, session, beside, leaving, stale, fresh, made, exits>>

-----------------------------------------------------------------------------
(* run_turn. *)

InTurn(p) == loop = "turn" /\ phase = p
Rest == <<streaming, line, loop, current, pendingUser, draft, saved, session, beside, leaving,
          claimable, lost, stale, fresh, made, exits>>

TurnOpensSteering ==
  /\ InTurn("opening") /\ ~abort
  /\ phase' = "stream" /\ steering' = TRUE
  /\ UNCHANGED <<queue, abort, started>> /\ UNCHANGED Rest

\* Between two tool calls the turn takes one steering prompt.
ToolBoundary ==
  /\ InTurn("stream") /\ ~abort /\ FirstOf("steer") # 0
  /\ started' = Append(started, queue[FirstOf("steer")].id)
  /\ queue' = Without(FirstOf("steer"))
  /\ UNCHANGED <<steering, phase, abort>> /\ UNCHANGED Rest

\* The stream ends: steering is closed, and opened again if a prompt was waiting.
StreamEnds ==
  /\ InTurn("stream") /\ ~abort
  /\ \/ /\ FirstOf("steer") # 0
        /\ started' = Append(started, queue[FirstOf("steer")].id)
        /\ queue' = Without(FirstOf("steer"))
        /\ UNCHANGED <<steering, phase>>
     \/ /\ FirstOf("steer") = 0
        /\ CloseSteering(FALSE) /\ phase' = "closing"
        /\ UNCHANGED started
  /\ UNCHANGED abort /\ UNCHANGED Rest

\* A cancel, or an exception: in the stream it is caught there.
TurnBreaks ==
  /\ loop = "turn" /\ phase \in {"opening", "stream"}
  /\ phase' = IF phase = "stream" THEN "closing" ELSE "over"
  /\ IF phase = "stream" THEN CloseSteering(TRUE) ELSE UNCHANGED <<queue, steering>>
  /\ abort' = FALSE
  /\ UNCHANGED started /\ UNCHANGED Rest

\* The capture is joined, also when the turn is cancelled in it; TurnEnd.
TurnCloses ==
  /\ InTurn("closing")
  /\ phase' = "over"
  /\ UNCHANGED <<queue, steering, abort, started>> /\ UNCHANGED Rest

-----------------------------------------------------------------------------
(* Session switches. A switch is resume, which copies the editor's state into the session it
   leaves (prepare_session_switch) before it awaits, or new_session or fork, which do not. *)

Dump(text) == [queue |-> Ids(queue), draft |-> text]
Kept(s) == ToSet(saved[s].queue) \union ToSet(saved[s].draft)
InEditor == ToSet(Ids(queue)) \union ToSet(draft)

SwitchBegins(text) ==
  \/ beside' = "resume" /\ saved' = [saved EXCEPT ![session] = Dump(text)]
  \/ beside' = "new" /\ UNCHANGED saved

\* A command that the loop runs.
CommandRuns ==
  /\ InTurn("switch") /\ beside = "none"
  /\ \/ ~abort /\ SwitchBegins(draft) /\ UNCHANGED <<phase, abort>>
     \/ abort /\ phase' = "over" /\ abort' = FALSE /\ UNCHANGED <<beside, saved>>
  /\ UNCHANGED <<queue, steering, streaming, line, loop, current, pendingUser, draft, session,
                 leaving, claimable, started, lost, stale, fresh, made, exits>>

\* bug: what is given while the switch works stays in the queue
RebindKeeps(s) == queue \o Items(saved[s].queue, "follow_up")

\* rebind_session clears the queue and restores that of the new session.
Rebind(s) == Items(saved[s].queue, "follow_up")

SwitchEnds ==
  /\ beside # "none"
  /\ \E s \in Session \ {session} :
       /\ beside = "new" => saved[s] = Composer
       /\ session' = s
       /\ queue' = Rebind(s) /\ draft' = saved[s].draft
       /\ lost' = lost \union (InEditor \ IF beside = "resume" THEN Kept(session) ELSE {})
       /\ saved' = [saved EXCEPT ![s] = Composer]
  /\ stale' = stale \union IF beside = "resume" THEN Kept(session) \ InEditor ELSE {}
  /\ beside' = "none"
  /\ phase' = IF InTurn("switch") THEN "closing" ELSE phase
  /\ UNCHANGED <<steering, streaming, line, loop, current, pendingUser, abort, leaving, claimable,
                 started, fresh, made, exits>>

\* The switch fails or is cancelled: the old session stays, and the copy that was made too.
SwitchFails ==
  /\ beside # "none"
  /\ beside' = "none"
  /\ phase' = IF InTurn("switch") THEN "closing" ELSE phase
  /\ abort' = IF InTurn("switch") THEN FALSE ELSE abort
  /\ stale' = stale \union IF beside = "resume" THEN Kept(session) ELSE {}
  /\ UNCHANGED <<queue, steering, streaming, line, loop, current, pendingUser, draft, saved,
                 session, leaving, claimable, started, lost, fresh, made, exits>>

-----------------------------------------------------------------------------
(* Keys. *)

\* _accept and _queue_draft, of new prompts or of the draft's: a batch is one submission.
Accept(ids, mode) ==
  \/ /\ streaming /\ Len(ids) = 1 /\ ids[1] \in Command /\ mode = "enter"
     /\ beside = "none"
     /\ SwitchBegins(<<>>) /\ started' = started \o ids
     /\ UNCHANGED <<queue, line>>
  \/ /\ streaming /\ ~(Len(ids) = 1 /\ ids[1] \in Command /\ mode = "enter")
     /\ queue' = queue \o Items(ids, IF mode = "enter" /\ steering THEN "steer" ELSE "follow_up")
     /\ UNCHANGED <<line, beside, saved, started>>
  \/ /\ ~streaming /\ mode = "enter"
     /\ line' = Append(line, Head(ids))
     /\ queue' = queue \o Items(Tail(ids), "follow_up")
     /\ UNCHANGED <<beside, saved, started>>

Untouched == <<steering, streaming, loop, current, pendingUser, phase, abort, session, leaving,
               claimable, lost, stale, made, exits>>

Submit(n, mode) ==
  /\ ~leaving /\ draft = <<>> /\ fresh + n - 1 <= MaxPrompts
  /\ fresh' = fresh + n
  /\ Accept([i \in 1..n |-> fresh + i - 1], mode)
  /\ UNCHANGED draft /\ UNCHANGED Untouched

SubmitDraft(mode) ==
  /\ ~leaving /\ draft # <<>>
  /\ Accept(draft, mode) /\ draft' = <<>>
  /\ UNCHANGED fresh /\ UNCHANGED Untouched

\* _dequeue
Dequeue ==
  /\ ~leaving /\ queue # <<>>
  /\ draft' = <<Last(queue).id>> \o draft /\ queue' = Front(queue)
  /\ UNCHANGED <<line, beside, saved, started, fresh>> /\ UNCHANGED Untouched

\* _abort_turn
AbortTurn == abort' = (loop = "turn" /\ phase # "over")

\* _escape_ladder: the queue goes back into the editor.
Escape ==
  /\ ~leaving /\ streaming
  /\ draft' = Ids(queue) \o draft /\ queue' = <<>>
  /\ AbortTurn
  /\ UNCHANGED <<steering, streaming, line, loop, current, pendingUser, phase, saved, session,
                 beside, leaving, claimable, started, lost, stale, fresh, made, exits>>

\* _interrupt: the draft first, then the turn; and the empty enter of _accept.
Interrupt ==
  /\ ~leaving
  /\ \/ /\ draft # <<>>
        /\ draft' = <<>> /\ lost' = lost \union ToSet(draft) /\ UNCHANGED abort
     \/ /\ draft = <<>> /\ streaming
        /\ AbortTurn /\ UNCHANGED <<draft, lost>>
  /\ UNCHANGED <<queue, steering, streaming, line, loop, current, pendingUser, phase, saved,
                 session, beside, leaving, claimable, started, stale, fresh, made, exits>>

\* _exit
Exit ==
  /\ ~leaving /\ exits < MaxExits
  /\ exits' = exits + 1 /\ leaving' = TRUE
  /\ saved' = [saved EXCEPT ![session] =
                 [queue |-> IF queue # <<>> THEN Ids(queue) ELSE @.queue,
                  draft |-> IF draft # <<>> THEN draft ELSE @.draft]]
  /\ stale' = stale \union {x \in Kept(session) :
                              \/ queue = <<>> /\ x \in ToSet(saved[session].queue)
                              \/ draft = <<>> /\ x \in ToSet(saved[session].draft)}
  /\ IF streaming THEN AbortTurn ELSE UNCHANGED abort
  /\ UNCHANGED <<queue, steering, streaming, line, loop, current, pendingUser, phase, draft,
                 session, beside, claimable, started, lost, fresh, made>>

\* The program has drained its tasks; it is started again with --resume.
ComesBack ==
  /\ leaving /\ loop = "free" /\ line = <<>> /\ beside = "none"
  /\ lost' = lost \union (InEditor \ Kept(session))
  /\ queue' = Items(saved[session].queue, "follow_up") /\ draft' = saved[session].draft
  /\ saved' = [saved EXCEPT ![session] = Composer]
  /\ leaving' = FALSE /\ steering' = FALSE
  /\ UNCHANGED <<streaming, line, loop, current, pendingUser, phase, abort, session, beside,
                 claimable, started, stale, fresh, made, exits>>

\* A background run of the main agent ends.
ResultArrives ==
  /\ made < MaxResults /\ ~leaving
  /\ made' = made + 1 /\ claimable' = claimable + 1
  /\ UNCHANGED <<queue, steering, streaming, line, loop, current, pendingUser, phase, abort,
                 draft, saved, session, beside, leaving, started, lost, stale, fresh, exits>>

-----------------------------------------------------------------------------

LoopSteps == TakesLock \/ ClaimReturns \/ TurnOver
TurnSteps == \/ TurnOpensSteering \/ StreamEnds \/ TurnBreaks \/ TurnCloses \/ CommandRuns
SwitchSteps == SwitchEnds \/ SwitchFails
Keys == \/ \E mode \in {"enter", "later"} :
              (\E n \in 1..2 : Submit(n, mode)) \/ SubmitDraft(mode)
        \/ Dequeue \/ Escape \/ Interrupt \/ Exit

QueueNext == \/ LoopSteps \/ TurnSteps \/ SwitchSteps \/ ToolBoundary
             \/ Keys \/ ComesBack \/ ResultArrives

\* asyncio goes on with the loop, a turn ends, a switch succeeds or fails.
QueueFairness == /\ WF_queueVars(LoopSteps)
                 /\ WF_queueVars(TurnSteps)
                 /\ WF_queueVars(SwitchSteps)

QueueSpec == QueueInit /\ [][QueueNext]_queueVars /\ QueueFairness

-----------------------------------------------------------------------------
(* Properties. *)

QueueTypeOK ==
  /\ queue \in Seq([id : Prompt, mode : {"steer", "follow_up"}])
  /\ line \in Seq(Prompt) /\ draft \in Seq(Prompt) /\ started \in Seq(Prompt)
  /\ loop \in {"free", "claiming", "turn"}
  /\ current \in Prompt \union {NoPrompt, Result} /\ pendingUser \in Prompt \union {NoPrompt}
  /\ phase \in {"none", "opening", "switch", "stream", "closing", "over"}
  /\ {steering, streaming, abort, leaving} \subseteq BOOLEAN
  /\ beside \in {"none", "resume", "new"} /\ session \in Session
  /\ saved \in [Session -> [queue : Seq(Prompt), draft : Seq(Prompt)]]
  /\ lost \subseteq Prompt /\ stale \subseteq Prompt

\* The copies in a session's state count from the moment the session has been left.
Times(x, s) == Cardinality({i \in DOMAIN s : s[i] = x})
Copies(x) ==
  LET out == {s \in Session : s # session \/ (beside # "resume" /\ ~leaving)}
  IN  Times(x, Ids(queue) \o line \o draft \o started \o <<pendingUser>>)
        + Cardinality({s \in out : x \in Kept(s)})

\* A prompt that was accepted is in one place: queued, in line, behind a result, in the
\* editor, in the state of a session, or given to a turn. So none runs twice and none vanishes,
\* but for those a user discards, a switch or an exit drops (lost), and the copies that
\* a resume leaves behind when it fails, or of what was taken away while it worked (stale).
PromptsAccounted ==
  \A x \in 1..(fresh - 1) : x \notin lost \union stale => Copies(x) = 1

\* A prompt that is queued while the loop is at work does not stay there: it is run, or the user,
\* a switch or an exit takes it away. Prompts that miss the end of a turn become follow-ups, and
\* the loop does not stop before it has seen them (turn.py:472, runtime.py:1935).
QueueDrains ==
  \A x \in Prompt : (x \in ToSet(Ids(queue)) /\ (loop # "free" \/ line # <<>>))
                       ~> x \notin ToSet(Ids(queue)) \/ leaving
=============================================================================
