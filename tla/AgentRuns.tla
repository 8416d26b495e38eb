------------------------------ MODULE AgentRuns ------------------------------
(***************************************************************************)
(* The worker runs of orcha_agent/core/agents.py: AgentRun (one worker,    *)
(* its asyncio tasks, its inbox and its limits) and the part of            *)
(* AgentRegistry that spawns, messages, revives, aborts, detaches and      *)
(* shuts down runs.                                                        *)
(*                                                                         *)
(* Everything runs on one asyncio loop: code between two suspension points *)
(* is one step, and each "pc" value below is a place where the coroutine   *)
(* is suspended.  Awaiting the event bus counts as a suspension point,     *)
(* because a plugin's or a blocking hook's handler may wait there.         *)
(***************************************************************************)
EXTENDS Naturals, Sequences, FiniteSets

CONSTANTS
  Run,             \* identities a run can have
  Main,            \* the main agent and its user: the root of every tree
  Nobody,          \* no caller
  Msg,             \* texts that registry.send can post, each at most once
  Advisor,         \* the runs whose agent type is "advisor"
  MaxConcurrency,  \* cfg.agents.max_concurrency
  MaxLiveRuns,     \* cfg.agents.max_live_runs
  MaxDepth,        \* cfg.agents.max_depth
  QueueLimit,      \* _MESSAGE_QUEUE_LIMIT (128)
  Budget,          \* cfg.agents.soft_request_budget
  Grace,           \* requests past the budget before the abort (10)
  Deadlines,       \* whether cfg.agents.max_runtime_s > 0
  Aborting,        \* bound of the model: whether cancel and shutdown are called
  Branching,       \* whether the parent ledger may branch away from its jobs
  MaxStarts        \* bound of the model: tasks one run may be given

ASSUME RunsAssumption ==
  /\ Main \notin Run
  /\ Nobody \notin Run
  /\ Nobody # Main
  /\ Advisor \subseteq Run
  /\ IsFiniteSet(Run)
ASSUME LimitsAssumption ==
  /\ MaxConcurrency \in Nat \ {0}
  /\ MaxLiveRuns \in Nat \ {0}
  /\ MaxDepth \in Nat
  /\ QueueLimit \in Nat \ {0, 1}
  /\ Budget \in Nat \ {0}
  /\ Grace \in Nat \ {0}
  /\ MaxStarts \in Nat \ {0}
  /\ Deadlines \in BOOLEAN
  /\ Branching \in BOOLEAN
  /\ Aborting \in BOOLEAN
ASSUME TextsAssumption == Msg \cap {"prompt", "wrapup", "none", "wake", "warning"} = {}

None == "none"
Final == {"done", "failed", "aborted"}
Live == {"queued", "running", "idle", "parked"}
Reason == {"cancel", "timeout", "budget", "shutdown"}
Start == 1 .. MaxStarts
Caller == Run \cup {Main}
Item == Msg \cup {"wake", "warning"}
Text == Msg \cup {"prompt", "wrapup", "warning"}

\* Where the task of a run can be suspended.
Place == {None, "created", "building", "queueing", "entering", "turn", "descend",
          "idling", "waiting", "parking", "settling", "ended"}
\* ... while it is inside _run's body and has not left _loop.
InLoop == Place \ {None, "parking", "settling", "ended"}
\* The phases of run_turn, as far as cancelling it tells them apart.
Phase == {None, "opening", "streaming", "closing", "failing"}

VARIABLES
  status, parent, depth, attached,     \* AgentRun, and its place in the registry
  abortReq, completion,                \* _abort_requested, _completion
  abortReason, results,                \* abort_reason, agent_result entries written
  requests, inbox, message,            \* requests, inbox, _loop's local "message"
  task, pc, cancel,                    \* run.task; suspension point and pending cancel of each
  turn, turnCancel,                    \* _turn_task: its phase and its pending cancel
  slots,                               \* permits left in the registry's semaphore
  timers, timerRef,                    \* watchdogs alive, and the one _runtime_timer names
  spawner, reviver,                    \* callers suspended inside spawn and revive
  blocked,                             \* children a turn awaits in wait_all
  cascades,                            \* abort trees suspended between two runs
  shutdown,                            \* whether shutdown() runs, and whom it has still to abort
  sent, handled                        \* who got each text; texts each run began a turn for

placeVars == <<parent, depth, attached>>
settleVars == <<status, abortReason, results>>
abortVars == <<settleVars, abortReq, cancel, turnCancel, inbox>>
loopVars == <<task, pc, message, turn, slots>>
workVars == <<completion, requests, sent, handled>>
timerVars == <<timers, timerRef>>
callVars == <<spawner, reviver, blocked>>
vars == <<placeVars, abortVars, loopVars, workVars, timerVars, callVars, cascades, shutdown>>

------------------------------------------------------------------------------
(* Reading the state.                                                      *)
(*                                                                         *)
(* An operator marked "bug:" is no part of the specification: it is the    *)
(* definition after it with a plausible mistake, and a property must see   *)
(* the difference.                                                         *)

NoSpawner == [by |-> Nobody, blocking |-> FALSE]
NoReviver == [by |-> Nobody, text |-> None]

Known == {r \in Run : status[r] # None}
Terminal(r) == status[r] \in Final
TurnLive(r) == turn[r] # None
TaskLive(r) == task[r] # 0 /\ pc[r][task[r]] # "ended"

\* _request_abort_self settles the run in its caller when no task will.
Direct(r) == ~Terminal(r) /\ (status[r] = "parked" \/ ~TaskLive(r))

Children(r) == {x \in Run : parent[x] = r}
Descendants(r) ==
  {x \in Run : \A S \in SUBSET Run :
      (Children(r) \subseteq S /\ \A y \in S : Children(y) \subseteq S) => x \in S}

\* spawn's live_runs: what max_live_runs counts.
LiveRuns == {r \in Run : attached[r] /\ status[r] \in Live}

\* A caller that is executing: the main side, or a turn that is streaming.
CanCall(c) ==
  \/ c = Main /\ ~shutdown.on
  \/ c \in Run /\ turn[c] = "streaming" /\ ~turnCancel[c]

\* Calls of c that are suspended inside the registry.
Suspended(c) ==
  \/ \E r \in Run : spawner[r].by = c \/ reviver[r].by = c
  \/ \E k \in cascades : k.kind = "call" /\ k.by = c

\* A text no send has used yet.
Unsent(m) == m \in Msg /\ sent[m] = Nobody /\ \A r \in Run : reviver[r].text # m

Init ==
  /\ status = [r \in Run |-> None]
  /\ parent = [r \in Run |-> Nobody]
  /\ depth = [r \in Run |-> 0]
  /\ attached = [r \in Run |-> TRUE]
  /\ abortReq = [r \in Run |-> None]
  /\ completion = [r \in Run |-> None]
  /\ abortReason = [r \in Run |-> None]
  /\ results = [r \in Run |-> 0]
  /\ requests = [r \in Run |-> 0]
  /\ inbox = [r \in Run |-> <<>>]
  /\ message = [r \in Run |-> None]
  /\ task = [r \in Run |-> 0]
  /\ pc = [r \in Run |-> [i \in Start |-> None]]
  /\ cancel = [r \in Run |-> [i \in Start |-> FALSE]]
  /\ turn = [r \in Run |-> None]
  /\ turnCancel = [r \in Run |-> FALSE]
  /\ slots = MaxConcurrency
  /\ timers = [r \in Run |-> {}]
  /\ timerRef = [r \in Run |-> 0]
  /\ spawner = [r \in Run |-> NoSpawner]
  /\ reviver = [r \in Run |-> NoReviver]
  /\ blocked = [r \in Run |-> {}]
  /\ cascades = {}
  /\ shutdown = [on |-> FALSE, left |-> {}]
  /\ sent = [m \in Msg |-> Nobody]
  /\ handled = [r \in Run |-> {}]

------------------------------------------------------------------------------
(* Pieces shared by the actions. *)

\* bug: the oldest message goes without a warning.
PutSilently(q, item, warn) ==
  IF Len(q) < QueueLimit THEN Append(q, item) ELSE Append(Tail(q), item)

\* _put_bounded_queue: at the limit the oldest items go, with a warning if asked.
PutBounded(q, item, warn) ==
  IF Len(q) < QueueLimit THEN Append(q, item)
  ELSE IF warn THEN Append(Tail(Append(Tail(q), "warning")), item)
  ELSE Append(Tail(q), item)

\* bug: no terminal check in _settle.
SettleAgain(r, final, reason) ==
  /\ status' = [status EXCEPT ![r] = final]
  /\ results' = [results EXCEPT ![r] = @ + 1]
  /\ abortReason' = [abortReason EXCEPT ![r] = IF final = "aborted" THEN reason ELSE @]

\* _settle, and _settle_abort before it: nothing for a run that is terminal.
Settle(r, final, reason) ==
  IF Terminal(r) THEN UNCHANGED settleVars
  ELSE /\ status' = [status EXCEPT ![r] = final]
       /\ results' = [results EXCEPT ![r] = @ + 1]
       /\ abortReason' = [abortReason EXCEPT ![r] = IF final = "aborted" THEN reason ELSE @]

Goto(r, i, p) == pc' = [pc EXCEPT ![r][i] = p]

\* bug: a later abort overwrites the reason of the first.
WhyLatest(r, reason) == reason

Why(r, reason) == IF abortReq[r] # None THEN abortReq[r] ELSE reason

\* bug: the head of the loop does not look for an abort.
LoopTopNoAbort(r, i, m) ==
  /\ message' = [message EXCEPT ![r] = m]
  /\ \/ /\ completion[r] # None
        /\ Settle(r, completion[r], None)
        /\ Goto(r, i, "settling")
     \/ /\ completion[r] = None /\ m # None
        /\ Goto(r, i, "queueing")
        /\ UNCHANGED settleVars
     \/ /\ completion[r] = None /\ m = None
        /\ status' = [status EXCEPT ![r] = "idle"]
        /\ Goto(r, i, "idling")
        /\ UNCHANGED <<abortReason, results>>

\* The head of _loop with "message" m: abort first, then the completion, then the
\* semaphore for a text, and without one the idle status.
LoopTop(r, i, m) ==
  /\ message' = [message EXCEPT ![r] = m]
  /\ \/ /\ abortReq[r] # None
        /\ Settle(r, "aborted", abortReq[r])
        /\ Goto(r, i, "settling")
     \/ /\ abortReq[r] = None /\ completion[r] # None
        /\ Settle(r, completion[r], None)
        /\ Goto(r, i, "settling")
     \/ /\ abortReq[r] = None /\ completion[r] = None /\ m # None
        /\ Goto(r, i, "queueing")
        /\ UNCHANGED settleVars
     \/ /\ abortReq[r] = None /\ completion[r] = None /\ m = None
        /\ status' = [status EXCEPT ![r] = "idle"]
        /\ Goto(r, i, "idling")
        /\ UNCHANGED <<abortReason, results>>

\* _request_abort_self for every run of B, in one stretch without suspension.
AbortBatch(B, reason) ==
  LET hit == {x \in B : ~Terminal(x)}
      settled == {x \in B : Direct(x)}
      tasked == {x \in hit : ~TurnLive(x) /\ TaskLive(x)}
  IN /\ abortReq' = [x \in Run |-> IF x \in hit THEN Why(x, reason) ELSE abortReq[x]]
     /\ turnCancel' = [x \in Run |-> turnCancel[x] \/ (x \in hit /\ TurnLive(x))]
     /\ cancel' = [x \in Run |-> [i \in Start |->
                     cancel[x][i] \/ (x \in tasked /\ i = task[x])]]
     /\ inbox' = [x \in Run |->
                     IF x \in hit THEN PutBounded(inbox[x], "wake", FALSE) ELSE inbox[x]]
     /\ status' = [x \in Run |-> IF x \in settled THEN "aborted" ELSE status[x]]
     /\ abortReason' = [x \in Run |->
                     IF x \in settled THEN Why(x, reason) ELSE abortReason[x]]
     /\ results' = [x \in Run |-> results[x] + IF x \in settled THEN 1 ELSE 0]

\* What a cascade over todo can do before it next suspends.  It goes through todo
\* with children before their parents, and suspends when it had to settle a run
\* itself, in the events of that run's _set_status and _settle.
Batches(todo) ==
  {B \in SUBSET todo :
     /\ \A x \in B : Children(x) \cap todo \subseteq B
     /\ LET settled == {x \in B : Direct(x)}
        IN \/ settled = {} /\ B = todo
           \/ \E x \in B : settled = {x} /\ parent[x] \notin B}

\* _request_abort_tree and _request_abort_descendants: one stretch of cascade k,
\* which leaves the cascades ks and k's remainder suspended.
Abort(k, ks) ==
  \E B \in Batches(k.left) :
     /\ AbortBatch(B, k.why)
     /\ cascades' = ks \cup (IF B = k.left THEN {} ELSE {[k EXCEPT !.left = @ \ B]})

Tree(r, kind, by, reason) ==
  [root |-> r, kind |-> kind, by |-> by, why |-> Why(r, reason),
   left |-> Descendants(r) \cup {r}]

\* A turn or the main side is cancelled: its suspended calls go with it.
DropCalls(c) ==
  /\ spawner' = [r \in Run |-> IF spawner[r].by = c THEN NoSpawner ELSE spawner[r]]
  /\ reviver' = [r \in Run |-> IF reviver[r].by = c THEN NoReviver ELSE reviver[r]]
  /\ blocked' = [r \in Run |-> IF r = c THEN {} ELSE blocked[r]]
  /\ cascades' = {k \in cascades : ~(k.kind = "call" /\ k.by = c)}

------------------------------------------------------------------------------
(* The registry's operations, called by the main side or from a turn. *)

\* spawn, up to the AgentSpawned event: the depth cap, the live cap, the new entry.
Spawn(c, r) ==
  /\ CanCall(c)
  /\ status[r] = None
  /\ c # Main => attached[c] /\ r \notin Advisor
  /\ (IF c = Main THEN 1 ELSE depth[c] + 1) <= MaxDepth
  /\ Cardinality(LiveRuns) < MaxLiveRuns
  /\ status' = [status EXCEPT ![r] = "queued"]
  /\ parent' = [parent EXCEPT ![r] = c]
  /\ depth' = [depth EXCEPT ![r] = IF c = Main THEN 1 ELSE depth[c] + 1]
  /\ message' = [message EXCEPT ![r] = "prompt"]
  /\ \E b \in BOOLEAN : spawner' = [spawner EXCEPT ![r] = [by |-> c, blocking |-> b]]
  /\ UNCHANGED <<attached, abortReason, results, abortReq, cancel, turnCancel, inbox,
                 task, pc, turn, slots, workVars, timerVars, reviver, blocked,
                 cascades, shutdown>>

\* spawn after its event, and task_call's wait_all for a blocking item.
SpawnReturns(r) ==
  /\ spawner[r].by # Nobody
  /\ task' = [task EXCEPT ![r] = 1]
  /\ Goto(r, 1, "created")
  /\ spawner' = [spawner EXCEPT ![r] = NoSpawner]
  /\ blocked' = [c \in Run |-> IF c = spawner[r].by /\ spawner[r].blocking
                               THEN blocked[c] \cup {r} ELSE blocked[c]]
  /\ UNCHANGED <<placeVars, abortVars, message, turn, slots, workVars, timerVars,
                 reviver, cascades, shutdown>>

\* bug: wait_all has no time limit.
WaitEndsSettled(c) ==
  /\ blocked[c] # {}
  /\ \A x \in blocked[c] : Terminal(x) \/ ~attached[x]
  /\ blocked' = [blocked EXCEPT ![c] = {}]
  /\ UNCHANGED <<placeVars, abortVars, loopVars, workVars, timerVars, spawner, reviver,
                 cascades, shutdown>>

\* wait_all ends: every awaited child has settled or left, or the time is up.
WaitEnds(c) ==
  /\ blocked[c] # {}
  /\ blocked' = [blocked EXCEPT ![c] = {}]
  /\ UNCHANGED <<placeVars, abortVars, loopVars, workVars, timerVars, spawner, reviver,
                 cascades, shutdown>>

\* send to a run that is neither terminal nor parked.
Send(c, r, m, interrupt) ==
  /\ CanCall(c)
  /\ attached[r]
  /\ status[r] \in Live \ {"parked"}
  /\ Unsent(m)
  /\ sent' = [sent EXCEPT ![m] = r]
  /\ inbox' = [inbox EXCEPT ![r] = PutBounded(@, m, TRUE)]
  /\ turnCancel' = [turnCancel EXCEPT ![r] = @ \/ (interrupt /\ TurnLive(r))]
  /\ UNCHANGED <<placeVars, settleVars, abortReq, cancel, loopVars, completion, requests,
                 handled, timerVars, callVars, cascades, shutdown>>

\* bug: a run that is still waiting for work is given a second task.
ReviveIdle(c, r, m) ==
  /\ CanCall(c)
  /\ attached[r]
  /\ status[r] \in {"idle", "parked"}
  /\ task[r] < MaxStarts
  /\ m = None \/ Unsent(m)
  /\ status' = [status EXCEPT ![r] = "idle"]
  /\ reviver' = [reviver EXCEPT ![r] = [by |-> c, text |-> m]]
  /\ UNCHANGED <<placeVars, abortReason, results, abortReq, cancel, turnCancel, inbox,
                 loopVars, workVars, timerVars, spawner, blocked, cascades, shutdown>>

\* bug: a settled run is brought back.
ReviveSettled(c, r, m) ==
  /\ CanCall(c)
  /\ attached[r]
  /\ status[r] \in Final \cup {"parked"}
  /\ task[r] < MaxStarts
  /\ m = None \/ Unsent(m)
  /\ status' = [status EXCEPT ![r] = "idle"]
  /\ reviver' = [reviver EXCEPT ![r] = [by |-> c, text |-> m]]
  /\ UNCHANGED <<placeVars, abortReason, results, abortReq, cancel, turnCancel, inbox,
                 loopVars, workVars, timerVars, spawner, blocked, cascades, shutdown>>

\* revive of a parked run, or send to one (text m), up to the AgentStatus event.
Revive(c, r, m) ==
  /\ CanCall(c)
  /\ attached[r]
  /\ status[r] = "parked"
  /\ task[r] < MaxStarts
  /\ m = None \/ Unsent(m)
  /\ status' = [status EXCEPT ![r] = "idle"]
  /\ reviver' = [reviver EXCEPT ![r] = [by |-> c, text |-> m]]
  /\ UNCHANGED <<placeVars, abortReason, results, abortReq, cancel, turnCancel, inbox,
                 loopVars, workVars, timerVars, spawner, blocked, cascades, shutdown>>

\* bug: the text that revived the run is not posted to it.
ReviveReturnsBare(r) ==
  LET m == reviver[r].text IN
  /\ reviver[r].by # Nobody
  /\ reviver' = [reviver EXCEPT ![r] = NoReviver]
  /\ IF attached[r]
     THEN /\ task' = [task EXCEPT ![r] = @ + 1]
          /\ Goto(r, task[r] + 1, "created")
          /\ message' = [message EXCEPT ![r] = None]
     ELSE UNCHANGED <<task, pc, message>>
  /\ sent' = [x \in Msg |-> IF x = m THEN r ELSE sent[x]]
  /\ UNCHANGED <<placeVars, settleVars, abortReq, cancel, turnCancel, inbox, turn, slots,
                 completion, requests, handled, timerVars, spawner, blocked, cascades,
                 shutdown>>

\* ... and after it: a fresh task unless the run was detached, then the text.
ReviveReturns(r) ==
  LET m == reviver[r].text IN
  /\ reviver[r].by # Nobody
  /\ reviver' = [reviver EXCEPT ![r] = NoReviver]
  /\ IF attached[r]
     THEN /\ task' = [task EXCEPT ![r] = @ + 1]
          /\ Goto(r, task[r] + 1, "created")
          /\ message' = [message EXCEPT ![r] = None]
     ELSE UNCHANGED <<task, pc, message>>
  /\ inbox' = [inbox EXCEPT ![r] = IF m = None THEN @ ELSE PutBounded(@, m, TRUE)]
  /\ sent' = [x \in Msg |-> IF x = m THEN r ELSE sent[x]]
  /\ UNCHANGED <<placeVars, settleVars, abortReq, cancel, turnCancel, turn, slots,
                 completion, requests, handled, timerVars, spawner, blocked, cascades,
                 shutdown>>

\* cancel, through the hub tool or the agents overlay.
Cancel(c, r) ==
  /\ Aborting
  /\ CanCall(c)
  /\ r \in Known /\ attached[r]
  /\ Abort(Tree(r, "call", c, "cancel"), cascades)
  /\ UNCHANGED <<placeVars, loopVars, workVars, timerVars, callVars, shutdown>>

\* A suspended cascade goes on.
ResumeAbort(k) ==
  /\ k \in cascades
  /\ k.kind # "detaching"
  /\ Abort(k, cascades \ {k})
  /\ UNCHANGED <<placeVars, loopVars, workVars, timerVars, callVars, shutdown>>

\* The user's interrupt cancels the main turn and the calls it is suspended in.
MainInterrupted ==
  /\ Suspended(Main)
  /\ DropCalls(Main)
  /\ UNCHANGED <<placeVars, abortVars, loopVars, workVars, timerVars, shutdown>>

\* _detach_job: the parent ledger has branched away from this run's job entry.
Detach(r) ==
  /\ Branching
  /\ parent[r] = Main
  /\ attached[r]
  /\ attached' = [attached EXCEPT ![r] = FALSE]
  /\ IF Terminal(r) \/ abortReq[r] # None
     THEN UNCHANGED <<abortReq, cascades>>
     ELSE /\ abortReq' = [abortReq EXCEPT ![r] = "cancel"]
          /\ cascades' = cascades \cup
               {[root |-> r, kind |-> "detaching", by |-> Nobody, why |-> "cancel", left |-> {}]}
  /\ UNCHANGED <<parent, depth, settleVars, cancel, turnCancel, inbox, loopVars, workVars,
                 timerVars, callVars, shutdown>>

\* The detach task starts: request_abort on the tree as it is by now.
DetachStarts(k) ==
  /\ k \in cascades
  /\ k.kind = "detaching"
  /\ Abort(Tree(k.root, "detach", Nobody, "cancel"), cascades \ {k})
  /\ UNCHANGED <<placeVars, loopVars, workVars, timerVars, callVars, shutdown>>

\* shutdown: the runs known now, one request_abort after the other.
ShutdownBegins ==
  /\ Aborting
  /\ ~shutdown.on
  /\ shutdown' = [on |-> TRUE, left |-> Known]
  /\ UNCHANGED <<placeVars, abortVars, loopVars, workVars, timerVars, callVars, cascades>>

ShutdownNext(r) ==
  /\ r \in shutdown.left
  /\ ~\E k \in cascades : k.kind = "shutdown"
  /\ shutdown' = [shutdown EXCEPT !.left = @ \ {r}]
  /\ IF Terminal(r) THEN UNCHANGED <<abortVars, cascades>>
     ELSE Abort(Tree(r, "shutdown", Nobody, "shutdown"), cascades)
  /\ UNCHANGED <<placeVars, loopVars, workVars, timerVars, callVars>>

------------------------------------------------------------------------------
(* A run's task: _run and _loop. *)

\* bug: the deadline is armed by the first task only.
TaskStartsOnce(r, i) ==
  /\ pc[r][i] = "created" /\ ~cancel[r][i]
  /\ Goto(r, i, "building")
  /\ IF Deadlines /\ r \notin Advisor /\ i = 1
     THEN /\ timers' = [timers EXCEPT ![r] = @ \cup {i}]
          /\ timerRef' = [timerRef EXCEPT ![r] = i]
     ELSE UNCHANGED timerVars
  /\ UNCHANGED <<placeVars, abortVars, task, message, turn, slots, workVars, callVars,
                 cascades, shutdown>>

\* _run's first step; the watchdog's deadline is absolute, so a revived run has
\* the same one.
TaskStarts(r, i) ==
  /\ pc[r][i] = "created" /\ ~cancel[r][i]
  /\ Goto(r, i, "building")
  /\ IF Deadlines /\ r \notin Advisor
     THEN /\ timers' = [timers EXCEPT ![r] = @ \cup {i}]
          /\ timerRef' = [timerRef EXCEPT ![r] = i]
     ELSE UNCHANGED timerVars
  /\ UNCHANGED <<placeVars, abortVars, task, message, turn, slots, workVars, callVars,
                 cascades, shutdown>>

\* A task cancelled before its first step never enters _run, nor its handlers.
TaskStillborn(r, i) ==
  /\ pc[r][i] = "created" /\ cancel[r][i]
  /\ Goto(r, i, "ended")
  /\ cancel' = [cancel EXCEPT ![r][i] = FALSE]
  /\ UNCHANGED <<placeVars, settleVars, abortReq, turnCancel, inbox, task, message, turn,
                 slots, workVars, timerVars, callVars, cascades, shutdown>>

\* ensure_agent returns, and _loop begins.
Built(r, i) ==
  /\ pc[r][i] = "building" /\ ~cancel[r][i]
  /\ LoopTop(r, i, message[r])
  /\ UNCHANGED <<placeVars, abortReq, cancel, turnCancel, inbox, task, turn, slots,
                 workVars, timerVars, callVars, cascades, shutdown>>

\* ensure_agent raises.
BuildFails(r, i) ==
  /\ pc[r][i] = "building" /\ ~cancel[r][i]
  /\ Settle(r, "failed", None)
  /\ Goto(r, i, "settling")
  /\ UNCHANGED <<placeVars, abortReq, cancel, turnCancel, inbox, task, message, turn,
                 slots, workVars, timerVars, callVars, cascades, shutdown>>

\* bug: the turn begins without a permit.
AcquireAnyway(r, i) ==
  /\ pc[r][i] = "queueing" /\ ~cancel[r][i]
  /\ slots' = slots - 1
  /\ status' = [status EXCEPT ![r] = "running"]
  /\ Goto(r, i, "entering")
  /\ UNCHANGED <<placeVars, abortReason, results, abortReq, cancel, turnCancel, inbox, task,
                 message, turn, workVars, timerVars, callVars, cascades, shutdown>>

\* The semaphore is taken and the status announced.
Acquire(r, i) ==
  /\ pc[r][i] = "queueing" /\ ~cancel[r][i]
  /\ slots > 0
  /\ slots' = slots - 1
  /\ status' = [status EXCEPT ![r] = "running"]
  /\ Goto(r, i, "entering")
  /\ UNCHANGED <<placeVars, abortReason, results, abortReq, cancel, turnCancel, inbox, task,
                 message, turn, workVars, timerVars, callVars, cascades, shutdown>>

\* bug: the abort is not looked at again after the wait for a permit.
EnterTurnBlindly(r, i) ==
  /\ pc[r][i] = "entering" /\ ~cancel[r][i]
  /\ turn' = [turn EXCEPT ![r] = "opening"]
  /\ Goto(r, i, "turn")
  /\ handled' = [handled EXCEPT ![r] = @ \cup {message[r]}]
  /\ UNCHANGED <<placeVars, abortVars, task, message, slots, completion, requests, sent,
                 timerVars, callVars, cascades, shutdown>>

\* The abort is looked at once more, then the turn's own task is created.
EnterTurn(r, i) ==
  /\ pc[r][i] = "entering" /\ ~cancel[r][i]
  /\ IF abortReq[r] # None
     THEN /\ Settle(r, "aborted", abortReq[r])
          /\ Goto(r, i, "settling")
          /\ slots' = slots + 1
          /\ UNCHANGED <<turn, handled>>
     ELSE /\ turn' = [turn EXCEPT ![r] = "opening"]
          /\ Goto(r, i, "turn")
          /\ handled' = [handled EXCEPT ![r] = @ \cup {message[r]}]
          /\ UNCHANGED <<slots, settleVars>>
  /\ UNCHANGED <<placeVars, abortReq, cancel, turnCancel, inbox, task, message, completion,
                 requests, sent, timerVars, callVars, cascades, shutdown>>

\* The turn returned: the slot is given back, and abort, completion and budget
\* are looked at in this order.
TurnReturns(r, i) ==
  LET spent == r \notin Advisor /\ requests[r] >= Budget IN
  /\ pc[r][i] = "turn"
  /\ turn[r] = "closing" /\ ~turnCancel[r]
  /\ \/ abortReq[r] # None
     \/ completion[r] # None
     \/ r \in Advisor
     \/ requests[r] < Budget + Grace
  /\ turn' = [turn EXCEPT ![r] = None]
  /\ slots' = slots + 1
  /\ LoopTop(r, i, IF spent THEN "wrapup" ELSE None)
  /\ UNCHANGED <<placeVars, abortReq, cancel, turnCancel, inbox, task, workVars, timerVars,
                 callVars, cascades, shutdown>>

\* bug: the descendants of a run over its budget are left alone.
BudgetExceededAlone(r, i) ==
  /\ pc[r][i] = "turn"
  /\ turn[r] = "closing" /\ ~turnCancel[r]
  /\ abortReq[r] = None /\ completion[r] = None
  /\ r \notin Advisor
  /\ requests[r] >= Budget + Grace
  /\ turn' = [turn EXCEPT ![r] = None]
  /\ slots' = slots + 1
  /\ Goto(r, i, "descend")
  /\ UNCHANGED <<placeVars, abortVars, task, message, workVars, timerVars, callVars,
                 cascades, shutdown>>

\* The turn returned past the hard budget: the descendants are aborted first.
BudgetExceeded(r, i) ==
  /\ pc[r][i] = "turn"
  /\ turn[r] = "closing" /\ ~turnCancel[r]
  /\ abortReq[r] = None /\ completion[r] = None
  /\ r \notin Advisor
  /\ requests[r] >= Budget + Grace
  /\ turn' = [turn EXCEPT ![r] = None]
  /\ slots' = slots + 1
  /\ Goto(r, i, "descend")
  /\ Abort([root |-> r, kind |-> "budget", by |-> Nobody, why |-> "budget",
            left |-> Descendants(r)], cascades)
  /\ UNCHANGED <<placeVars, task, message, workVars, timerVars, callVars, shutdown>>

BudgetSettles(r, i) ==
  /\ pc[r][i] = "descend" /\ ~cancel[r][i]
  /\ ~\E k \in cascades : k.kind = "budget" /\ k.root = r
  /\ Settle(r, "aborted", "budget")
  /\ Goto(r, i, "settling")
  /\ UNCHANGED <<placeVars, abortReq, cancel, turnCancel, inbox, task, message, turn, slots,
                 workVars, timerVars, callVars, cascades, shutdown>>

\* The turn raised: an exception escapes run_turn before its try block or is raised
\* again after it, and _run settles the run as failed.
TurnRaises(r, i) ==
  /\ pc[r][i] = "turn"
  /\ turn[r] \in {"opening", "failing"} /\ ~turnCancel[r]
  /\ turn' = [turn EXCEPT ![r] = None]
  /\ slots' = slots + 1
  /\ Settle(r, "failed", None)
  /\ Goto(r, i, "settling")
  /\ UNCHANGED <<placeVars, abortReq, cancel, turnCancel, inbox, task, message, workVars,
                 timerVars, callVars, cascades, shutdown>>

\* The turn was cancelled where run_turn does not catch it: before its try block,
\* or while its finally block captures the turn and announces its end.
TurnEscapes(r, i) ==
  /\ pc[r][i] = "turn"
  /\ turn[r] \in {"opening", "closing", "failing"} /\ turnCancel[r]
  /\ turn' = [turn EXCEPT ![r] = None]
  /\ turnCancel' = [turnCancel EXCEPT ![r] = FALSE]
  /\ slots' = slots + 1
  /\ Settle(r, "aborted", Why(r, "shutdown"))
  /\ Goto(r, i, "settling")
  /\ UNCHANGED <<placeVars, abortReq, cancel, inbox, task, message, workVars, timerVars,
                 callVars, cascades, shutdown>>

\* _loop takes an item: at once when it is there, or when it arrives in time.
Receive(r, i) ==
  /\ pc[r][i] \in {"idling", "waiting"} /\ ~cancel[r][i]
  /\ inbox[r] # <<>>
  /\ inbox' = [inbox EXCEPT ![r] = Tail(@)]
  /\ LoopTop(r, i, IF Head(inbox[r]) = "wake" THEN None ELSE Head(inbox[r]))
  /\ UNCHANGED <<placeVars, abortReq, cancel, turnCancel, task, turn, slots, workVars,
                 timerVars, callVars, cascades, shutdown>>

Await(r, i) ==
  /\ pc[r][i] = "idling" /\ ~cancel[r][i]
  /\ inbox[r] = <<>>
  /\ Goto(r, i, "waiting")
  /\ UNCHANGED <<placeVars, abortVars, task, message, turn, slots, workVars, timerVars,
                 callVars, cascades, shutdown>>

\* wait_for times out, even when an item has arrived but was not taken yet.
IdleTimeout(r, i) ==
  /\ pc[r][i] = "waiting" /\ ~cancel[r][i]
  /\ r \notin Advisor
  /\ status' = [status EXCEPT ![r] = "parked"]
  /\ Goto(r, i, "parking")
  /\ UNCHANGED <<placeVars, abortReason, results, abortReq, cancel, turnCancel, inbox, task,
                 message, turn, slots, workVars, timerVars, callVars, cascades, shutdown>>

\* _run's CancelledError handler, wherever the task was suspended outside a turn.
TaskCancelled(r, i) ==
  /\ cancel[r][i]
  /\ pc[r][i] \in {"building", "queueing", "entering", "descend", "idling", "waiting",
                   "parking"}
  /\ cancel' = [cancel EXCEPT ![r][i] = FALSE]
  /\ slots' = slots + IF pc[r][i] = "entering" THEN 1 ELSE 0
  /\ cascades' = IF pc[r][i] = "descend"
                 THEN {k \in cascades : ~(k.kind = "budget" /\ k.root = r)} ELSE cascades
  /\ Settle(r, "aborted", Why(r, "shutdown"))
  /\ Goto(r, i, "settling")
  /\ UNCHANGED <<placeVars, abortReq, turnCancel, inbox, task, message, turn, workVars,
                 timerVars, callVars, shutdown>>

\* The last events are out: _run's finally cancels the watchdog that _runtime_timer
\* names by now, whichever task made it.
TaskEnds(r, i) ==
  /\ pc[r][i] \in {"settling", "parking"} /\ ~cancel[r][i]
  /\ Goto(r, i, "ended")
  /\ timers' = [timers EXCEPT ![r] = @ \ {timerRef[r]}]
  /\ timerRef' = [timerRef EXCEPT ![r] = 0]
  /\ cascades' = {k \in cascades :
                    ~(k.kind = "timer" /\ k.root = r /\ k.by = timerRef[r])}
  /\ UNCHANGED <<placeVars, abortVars, task, message, turn, slots, workVars, callVars,
                 shutdown>>

\* _runtime_watchdog: the deadline has passed.
TimerFires(r, i) ==
  /\ i \in timers[r]
  /\ timers' = [timers EXCEPT ![r] = @ \ {i}]
  /\ Abort(Tree(r, "timer", i, "timeout"), cascades)
  /\ UNCHANGED <<placeVars, loopVars, workVars, timerRef, callVars, shutdown>>

------------------------------------------------------------------------------
(* A turn: run_turn of tui/turn.py with the calls its tools make. *)

TurnOpens(r) ==
  /\ turn[r] = "opening" /\ ~turnCancel[r]
  /\ turn' = [turn EXCEPT ![r] = "streaming"]
  /\ UNCHANGED <<placeVars, abortVars, task, pc, message, slots, workVars, timerVars,
                 callVars, cascades, shutdown>>

\* A model request is counted (_RunEventBus); more than the hard budget is as good.
Request(r) ==
  /\ turn[r] = "streaming" /\ ~turnCancel[r]
  /\ requests[r] < Budget + Grace
  /\ requests' = [requests EXCEPT ![r] = @ + 1]
  /\ UNCHANGED <<placeVars, abortVars, loopVars, completion, sent, handled, timerVars,
                 callVars, cascades, shutdown>>

\* A terminal yield: complete().
Yield(r, final) ==
  /\ turn[r] = "streaming" /\ ~turnCancel[r]
  /\ completion' = [completion EXCEPT ![r] = final]
  /\ inbox' = [inbox EXCEPT ![r] = PutBounded(@, "wake", FALSE)]
  /\ UNCHANGED <<placeVars, settleVars, abortReq, cancel, turnCancel, loopVars, requests,
                 sent, handled, timerVars, callVars, cascades, shutdown>>

\* The stream ends, with or without an error, when no call is suspended any more.
TurnStops(r) ==
  /\ turn[r] = "streaming" /\ ~turnCancel[r]
  /\ ~Suspended(r) /\ blocked[r] = {}
  /\ \E p \in {"closing", "failing"} : turn' = [turn EXCEPT ![r] = p]
  /\ UNCHANGED <<placeVars, abortVars, task, pc, message, slots, workVars, timerVars,
                 callVars, cascades, shutdown>>

\* run_turn catches the cancellation of its stream, and its calls end with it.
TurnInterrupted(r) ==
  /\ turn[r] = "streaming" /\ turnCancel[r]
  /\ turn' = [turn EXCEPT ![r] = "closing"]
  /\ turnCancel' = [turnCancel EXCEPT ![r] = FALSE]
  /\ DropCalls(r)
  /\ UNCHANGED <<placeVars, settleVars, abortReq, cancel, inbox, task, pc, message, slots,
                 workVars, timerVars, shutdown>>

------------------------------------------------------------------------------
Calls(c) ==
  \E r \in Run :
     \/ Spawn(c, r)
     \/ Cancel(c, r)
     \/ \E m \in Msg, interrupt \in BOOLEAN : Send(c, r, m, interrupt)
     \/ \E m \in Msg \cup {None} : Revive(c, r, m)

\* What the event loop carries on by itself.
TaskStep(r, i) ==
  \/ TaskStarts(r, i) \/ TaskStillborn(r, i) \/ Built(r, i)
  \/ EnterTurn(r, i) \/ TurnReturns(r, i) \/ BudgetExceeded(r, i) \/ BudgetSettles(r, i)
  \/ TurnRaises(r, i) \/ TurnEscapes(r, i) \/ Receive(r, i) \/ Await(r, i) \/ TaskCancelled(r, i)
  \/ TaskEnds(r, i)

TurnStep(r) == TurnOpens(r) \/ TurnStops(r) \/ TurnInterrupted(r)

Next ==
  \/ \E c \in Caller : Calls(c)
  \/ MainInterrupted
  \/ ShutdownBegins
  \/ \E k \in cascades : ResumeAbort(k) \/ DetachStarts(k)
  \/ \E r \in Run :
        \/ SpawnReturns(r) \/ ReviveReturns(r) \/ WaitEnds(r)
        \/ Detach(r) \/ ShutdownNext(r)
        \/ TurnStep(r) \/ Request(r) \/ \E final \in {"done", "failed"} : Yield(r, final)
        \/ \E i \in Start :
              \/ TaskStep(r, i) \/ BuildFails(r, i) \/ Acquire(r, i)
              \/ IdleTimeout(r, i) \/ TimerFires(r, i)

\* asyncio resumes every coroutine that can go on, a semaphore serves its waiters in
\* order, and a turn is assumed to end.
Fairness ==
  /\ \A r \in Run, i \in Start : WF_vars(TaskStep(r, i)) /\ SF_vars(Acquire(r, i))
  /\ \A r \in Run : /\ WF_vars(TurnStep(r))
                    /\ WF_vars(SpawnReturns(r)) /\ WF_vars(ReviveReturns(r))
                    /\ WF_vars(WaitEnds(r)) /\ WF_vars(ShutdownNext(r))
  /\ WF_vars(\E k \in cascades : ResumeAbort(k) \/ DetachStarts(k))

Spec == Init /\ [][Next]_vars /\ Fairness

------------------------------------------------------------------------------
(* What the code promises. *)

Cascade ==
  [root : Run, kind : {"call", "timer", "detaching", "detach", "shutdown", "budget"},
   by : Caller \cup Start \cup {Nobody}, why : Reason, left : SUBSET Run]

\* Types of the variables.
TypeOK ==
  /\ status \in [Run -> Live \cup Final \cup {None}]
  /\ parent \in [Run -> Caller \cup {Nobody}]
  /\ depth \in [Run -> Nat]
  /\ attached \in [Run -> BOOLEAN]
  /\ abortReq \in [Run -> Reason \cup {None}]
  /\ completion \in [Run -> {"done", "failed", None}]
  /\ abortReason \in [Run -> Reason \cup {None}]
  /\ results \in [Run -> Nat]
  /\ requests \in [Run -> 0 .. Budget + Grace]
  /\ inbox \in [Run -> Seq(Item)]
  /\ message \in [Run -> Text \cup {None}]
  /\ task \in [Run -> 0 .. MaxStarts]
  /\ pc \in [Run -> [Start -> Place]]
  /\ cancel \in [Run -> [Start -> BOOLEAN]]
  /\ turn \in [Run -> Phase]
  /\ turnCancel \in [Run -> BOOLEAN]
  /\ slots \in Nat
  /\ timers \in [Run -> SUBSET Start]
  /\ timerRef \in [Run -> 0 .. MaxStarts]
  /\ spawner \in [Run -> [by : Caller \cup {Nobody}, blocking : BOOLEAN]]
  /\ reviver \in [Run -> [by : Caller \cup {Nobody}, text : Msg \cup {None}]]
  /\ blocked \in [Run -> SUBSET Run]
  /\ cascades \subseteq Cascade
  /\ shutdown \in [on : BOOLEAN, left : SUBSET Run]
  /\ sent \in [Msg -> Run \cup {Nobody}]
  /\ handled \in [Run -> SUBSET Text]

\* README: "Agent concurrency limits active model turns".  The permit is taken and
\* given back in different steps, on every way out of a turn.
TurnsBounded == Cardinality({r \in Run : TurnLive(r)}) <= MaxConcurrency

\* Reviving a run while its parking task is still announcing the new status never
\* leaves two tasks of one run inside _loop: only run.task is there.
OneLoop == \A r \in Run : \A i \in Start : pc[r][i] \in InLoop => i = task[r]

\* Every way a run can end (its own task, a caller that aborts it, a second abort,
\* an exception) writes one agent_result, and no live run has one.
ResultOnce == \A r \in Run : results[r] = IF Terminal(r) THEN 1 ELSE 0

\* A settled run is never revived, re-queued or settled differently.
FinalStays ==
  [][\A r \in Run : Terminal(r) =>
       status'[r] = status[r] /\ abortReason'[r] = abortReason[r]]_vars

\* The first abort reason is the one recorded, unless the run was already ending
\* over its budget.
ReasonFirst ==
  \A r \in Run :
    status[r] = "aborted" /\ abortReq[r] # None => abortReason[r] \in {abortReq[r], "budget"}

\* No turn begins for a run whose abort or completion is known, however the request
\* interleaves with the wait for a permit.
NoTurnAfterEnd ==
  [][\A r \in Run : turn[r] = None /\ turn'[r] # None =>
       abortReq[r] = None /\ completion[r] = None]_vars

\* A run in its loop has a watchdog that has not fired, or is being aborted: parking
\* and reviving never lose the deadline although the tasks share _runtime_timer.
DeadlineArmed ==
  \A r \in Run : \A i \in Start :
     Deadlines /\ r \notin Advisor /\ pc[r][i] \in InLoop \ {"created"} =>
       timers[r] # {} \/ abortReq[r] # None \/ \E k \in cascades : k.kind = "timer" /\ k.root = r

\* A text that a run accepted is in its inbox, has had its turn or is about to, or
\* was dropped with a warning; only an ending run may lose one.
NoSilentLoss ==
  \A m \in Msg, r \in Run :
    sent[m] = r =>
      \/ \E x \in {m, "warning"} : \/ x \in {inbox[r][n] : n \in DOMAIN inbox[r]}
                                   \/ x \in handled[r] \/ message[r] = x
      \/ abortReq[r] # None \/ completion[r] # None \/ Terminal(r)

\* test_direct_parent_abort_cascades_budget_reason_to_descendants: a run that goes over
\* its own budget leaves no child behind, whatever the children do meanwhile.
BudgetDescends ==
  \A r, x \in Run :
    parent[x] = r /\ status[r] = "aborted" /\ abortReason[r] = "budget" /\ abortReq[r] = None =>
      Terminal(x) \/ abortReq[x] # None

\* A run whose task has begun and whose abort is requested does settle.
AbortSettles ==
  \A r \in Run :
    (abortReq[r] # None /\ TaskLive(r) /\ pc[r][task[r]] # "created") ~> Terminal(r)

\* A run that waits for a permit gets it or ends, even when every permit is held by
\* turns that wait for the runs they spawned.
QueueServed ==
  \A r \in Run : \A i \in Start : pc[r][i] = "queueing" ~> pc[r][i] # "queueing"

------------------------------------------------------------------------------
(* Why these hold: what every step keeps true, and the proofs build on.    *)

\* The runs whose task is inside "async with self.owner.semaphore".
Holding == {r \in Run : \E i \in Start : pc[r][i] \in {"entering", "turn"}}

\* _loop beyond its first check of abort and completion.
Served == InLoop \ {"created", "building"}

\* Every permit is in the semaphore or held by exactly one run.
PermitsKept == slots + Cardinality(Holding) = MaxConcurrency

\* Task i of run r, if it is in the loop: it is run.task, no caller is about to start
\* another, the run is not parked, and unless an abort is known it has not ended.
TaskOwned(r, i) ==
  /\ pc[r][i] \in InLoop =>
       /\ i = task[r]
       /\ status[r] # "parked" /\ spawner[r].by = Nobody /\ reviver[r].by = Nobody
       /\ Terminal(r) => abortReq[r] # None
  /\ pc[r][i] \in Served => ~Terminal(r)
  /\ pc[r][i] \in {"queueing", "entering"} => completion[r] = None /\ message[r] # None
  /\ pc[r][i] = "turn" => TurnLive(r)

\* A cancel comes from an abort, and one that hits a former task finds the present
\* task before the loop's first check.
CancelCaused(r, i) ==
  cancel[r][i] =>
    /\ abortReq[r] # None
    /\ \A j \in Start : j # i => pc[r][j] \notin Served

\* The callers that will start a task: one at most, on a run that has none.
StartPending(r) ==
  /\ TurnLive(r) => \E i \in Start : pc[r][i] = "turn"
  /\ status[r] = None => task[r] = 0 /\ spawner[r].by = Nobody /\ reviver[r].by = Nobody
  /\ status[r] = "parked" => task[r] # 0 /\ spawner[r].by = Nobody /\ reviver[r].by = Nobody
  /\ spawner[r].by # Nobody =>
       task[r] = 0 /\ reviver[r].by = Nobody /\ (Terminal(r) => abortReq[r] # None)
  /\ reviver[r].by # Nobody =>
       task[r] \in 1 .. MaxStarts - 1 /\ (Terminal(r) => abortReq[r] # None)

\* One run, with all its tasks and callers.
Sound(r) == StartPending(r) /\ \A i \in Start : TaskOwned(r, i) /\ CancelCaused(r, i)

\* The inductive invariant, beside the types.
Inductive == PermitsKept /\ \A r \in Run : Sound(r)

\* A run that is over, and one that is on its way there whatever it does.
Doomed(r) == Terminal(r) \/ abortReq[r] # None
Ending(r) == Doomed(r) \/ completion[r] # None

\* The watchdogs of a run that may still abort it, asleep or with their abort suspended, and the
\* tasks whose finally has still to cancel one.
Watchdogs(r) ==
  {i \in Start :
     i \in timers[r] \/ \E k \in cascades : k.kind = "timer" /\ k.root = r /\ k.by = i}
Watched(r) == {i \in Start : pc[r][i] \notin {None, "created", "ended"}}

\* A task ends at most one watchdog, be it another's: there are never fewer of them than of the
\* tasks that began, and none for a task that has not.
WatchdogsSuffice(r) ==
  /\ \A i \in Start : i > task[r] => pc[r][i] = None
  /\ \A i \in Start : pc[r][i] \in {None, "created"} => i \notin Watchdogs(r)
  /\ Deadlines /\ r \notin Advisor /\ ~Doomed(r) =>
       Cardinality(Watched(r)) <= Cardinality(Watchdogs(r))
TimersReach ==
  \A k \in cascades : k.kind = "timer" =>
    k.by \in Start /\ (k.root \in k.left \/ Doomed(k.root))

\* A text leaves _loop's "message" by a turn only.
TextsKept(r) ==
  \/ message[r] \notin Msg \cup {"warning"} \/ message[r] \in handled[r]
  \/ task[r] # 0 /\ pc[r][task[r]] \in {"queueing", "entering"}
  \/ Ending(r)

\* The children of a run over its budget, until they are all aborted.
BudgetReaches(r) ==
  (\E i \in Start : pc[r][i] = "descend") =>
    \A x \in Children(r) :
       Doomed(x) \/ \E k \in cascades : k.kind = "budget" /\ k.root = r /\ x \in k.left

------------------------------------------------------------------------------
(* What the documentation and the tests say, and the code does not do. *)

\* tests/agents/test_registry_hardening.py:273-278: a run whose abort was requested
\* reaches "aborted".  A task cancelled before its first step settles nothing.
AbortedTaskSettles ==
  \A r \in Run :
    abortReq[r] # None /\ task[r] # 0 /\ ~TaskLive(r) /\ cascades = {} => Terminal(r)

\* tests/agents/test_tools_agents.py:427, test_interrupt_send_steers_running_agent_
\* without_aborting: a run is not aborted unless somebody asks for it.
InterruptSteers ==
  \A r \in Run : status[r] = "aborted" /\ abortReason[r] = "shutdown" => abortReq[r] # None

==============================================================================
