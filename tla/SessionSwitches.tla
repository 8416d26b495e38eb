--------------------------- MODULE SessionSwitches ---------------------------
(***************************************************************************)
(* From one session or model to another: prompts (also with a model of     *)
(* their own), /model, /new, /fork, /resume, rebuilds and restarts         *)
(* (tui/context.py 258-473, 521-607, 641-898, tui/runtime.py 2500-2588,    *)
(* core/session.py).  What is said is told apart by the provider that said *)
(* it: its messages, and the private blocks in them that no other provider *)
(* may be shown.  A model stands for its provider.                         *)
(*                                                                         *)
(* One command runs at a time; every await can fail, and the program can   *)
(* die between any two steps.                                              *)
(***************************************************************************)
EXTENDS Integers, FiniteSets

CONSTANTS
  Provider,
  MaxSessions, MaxSeeds,  \* bounds: sessions made; threads of a session
  MaxAnswers, MaxCommands, MaxCrashes,
  Accidents   \* whether a model may be put over the saved one on a resume (--model), whether /model,
              \* /resume and restarts may come when history_model names another one, and whether the
              \* program may die in a fork or in a prompt with a model of its own

ASSUME SwitchAssumption ==
  /\ MaxSessions \in Nat \ {0} /\ MaxSeeds \in Nat
  /\ Provider # {} /\ "no model" \notin Provider

SessionId == 1 .. MaxSessions
Thread == 0 .. MaxSeeds
NoThread == -1
NoModel == "no model"
Silence == [said |-> {}, private |-> {}]
NoGraph == [said |-> {NoModel}, private |-> {}]

VARIABLES
  rec,       \* the rows of sessions: thread, model, the context of the ledger's path, thread rows
  graph,     \* the checkpoint of each thread, or NoGraph
  cursor,    \* what of it has been captured
  ctx,       \* AppContext: session, thread, model, agent (the model it is built for), history_model
  agentsOf,  \* the session whose runs the AgentRegistry shows
  op,        \* the command under way, with ctx and rec as they were
  failed,    \* the last one has failed
  answersGiven, commands, crashes

switchVars == <<rec, graph, cursor, ctx, agentsOf, op, failed, answersGiven, commands, crashes>>
storeVars == <<rec, graph, cursor>>

Unmade == [made |-> FALSE, thread |-> NoThread, rows |-> {}, model |-> NoModel,
           path |-> Silence, cut |-> FALSE]
NoSwitch == [kind |-> "none", pc |-> "none", to |-> NoModel, ctx |-> <<>>, rec |-> <<>>]
Model == ctx.model
Live(s, t) == t # NoThread /\ graph[s][t] # NoGraph

\* SessionStore.create
Created(model) == [made |-> TRUE, thread |-> 0, rows |-> {0}, model |-> model, path |-> Silence,
                   cut |-> FALSE]
Fresh == CHOOSE s \in SessionId : ~rec[s].made /\ \A x \in 1 .. (s - 1) : rec[x].made
CanCreate == \E s \in SessionId : ~rec[s].made

SwitchInit ==
  LET model == CHOOSE p \in Provider : TRUE IN
  /\ rec = [s \in SessionId |-> IF s = 1 THEN Created(model) ELSE Unmade]
  /\ graph = [s \in SessionId |-> [t \in Thread |-> NoGraph]]
  /\ cursor = [s \in SessionId |-> [t \in Thread |-> Silence]]
  /\ ctx = [session |-> 1, thread |-> 0, model |-> model, agent |-> NoModel, history |-> NoModel]
  /\ agentsOf = 1 /\ op = NoSwitch /\ failed = FALSE
  /\ answersGiven = 0 /\ commands = 0 /\ crashes = 0

-----------------------------------------------------------------------------
(* What the commands are made of. *)

\* _reseed_pending
Pending == rec[ctx.session].thread # ctx.thread

\* next_thread_id
NextThread(s) ==
  IF rec[s].rows = {} THEN 0 ELSE (CHOOSE n \in rec[s].rows : \A x \in rec[s].rows : x <= n) + 1

\* _uncheckpointed_seed_target
SeedTarget(s, current) ==
  IF current \in rec[s].rows /\ ~Live(s, current) THEN current
  ELSE IF 0 \in rec[s].rows /\ ~Live(s, 0) THEN 0 ELSE NextThread(s)

\* filter_foreign_blocks
Stripping(context, providers) == [context EXCEPT !.private = @ \ providers]

\* strip_foreign_blocks: nothing is written for a thread without messages.
Stripped(g, providers) == IF g = NoGraph THEN g ELSE Stripping(g, providers)

\* What only a model itself may see: _foreign_block_types has the blocks of the provider that is
\* left, _reseed_foreign_block_types those of every other provider there is.
OwnBlocks(model) == {model}
Foreign(model) == Provider \ {model}

\* _clean_history_for_model
Cleaned(from, to) ==
  IF from = NoModel \/ from = to THEN graph
  ELSE [graph EXCEPT ![ctx.session][ctx.thread] = Stripped(@, OwnBlocks(from))]

\* capture_graph_values: what extends the cursor is appended; anything else replaces the context.
Captured(path, g, seen) ==
  IF g = NoGraph THEN path
  ELSE IF seen.said \subseteq g.said /\ seen.private \subseteq g.private
       THEN [said |-> path.said \union g.said, private |-> path.private \union (g.private \ seen.private)]
       ELSE g

\* capture_turn, recover_checkpoint
Capture(s, t) ==
  /\ rec' = [rec EXCEPT ![s].path = Captured(@, graph[s][t], cursor[s][t]), ![s].cut = FALSE]
  /\ cursor' = [cursor EXCEPT ![s][t] = IF graph[s][t] = NoGraph THEN @ ELSE graph[s][t]]

Begin(kind, to, pc, store) ==
  /\ op' = [kind |-> kind, pc |-> pc, to |-> to, ctx |-> ctx, rec |-> store] /\ failed' = FALSE

NothingRuns == op.kind = "none"
Settled == Accidents \/ ctx.history \in {NoModel, Model}
SwitchOver == op' = NoSwitch /\ failed' = FALSE
SwitchAborts == op' = NoSwitch /\ failed' = TRUE
GoesTo(pc) == op' = [op EXCEPT !.pc = pc] /\ UNCHANGED failed
Counts == UNCHANGED <<answersGiven, commands, crashes>>
AnyCommand == commands < MaxCommands /\ commands' = commands + 1 /\ UNCHANGED <<answersGiven, crashes>>

-----------------------------------------------------------------------------
(* _seed_ready_thread *)

\* delete_thread and aupdate_state, with the context for the model of now
SeedWrites ==
  /\ op.pc = "seed"
  /\ LET path == rec[ctx.session].path IN
     graph' = [graph EXCEPT ![ctx.session][ctx.thread] = Stripping(path, Foreign(Model))]
  /\ GoesTo("activate")
  /\ UNCHANGED <<rec, cursor, ctx, agentsOf>> /\ Counts

\* activate_thread, with the cursor at what was seeded
SeedActivates ==
  /\ op.pc = "activate"
  /\ rec' = [rec EXCEPT ![ctx.session].thread = ctx.thread,
                        ![ctx.session].rows = @ \union {ctx.thread}]
  /\ cursor' = [cursor EXCEPT ![ctx.session][ctx.thread] = graph[ctx.session][ctx.thread]]
  /\ GoesTo("announce")
  /\ UNCHANGED <<graph, ctx, agentsOf>> /\ Counts

\* its handler takes the checkpoint away again; then the command has to restore what it changed
Unseeded == [graph EXCEPT ![ctx.session][ctx.thread] = NoGraph]

\* bug: the thread of the session that was to be resumed is not given back
ForgetTarget == ctx' = op.ctx /\ UNCHANGED rec

\* resume's handler: the position of the target, and everything in the context, go back
RestoreTarget ==
  /\ rec' = [rec EXCEPT ![op.to].thread = op.rec[op.to].thread]
  /\ ctx' = op.ctx

\* fork's handler: delete_session
DeleteFork(g) ==
  /\ rec' = [rec EXCEPT ![ctx.session] = Unmade]
  /\ graph' = [g EXCEPT ![ctx.session] = [t \in Thread |-> NoGraph]]
  /\ cursor' = [cursor EXCEPT ![ctx.session] = [t \in Thread |-> Silence]]
  /\ ctx' = op.ctx

\* A seeding that fails: nothing has been activated.
SeedFails ==
  /\ op.pc \in {"seed", "activate"}
  /\ CASE op.kind = "resume" -> RestoreTarget /\ graph' = Unseeded /\ UNCHANGED cursor
       [] op.kind = "fork" -> DeleteFork(Unseeded)
       [] op.kind \in {"prompt", "rebuild"} ->
            \* the thread stays pending; a model of the prompt's own is given back
            /\ graph' = Unseeded /\ UNCHANGED <<rec, cursor>>
            /\ ctx' = IF op.to = NoModel THEN ctx
                      ELSE [ctx EXCEPT !.model = op.ctx.model, !.agent = op.ctx.agent,
                                       !.history = IF op.ctx.agent = NoModel THEN op.to ELSE @]
  /\ SwitchAborts
  /\ UNCHANGED agentsOf /\ Counts

\* ThreadSwitch is announced, and the command goes on after _seed_ready_thread.
SwitchAnnounced ==
  /\ op.pc = "announce"
  /\ \/ /\ op.kind = "prompt" /\ GoesTo("turn")
        /\ ctx' = IF op.ctx.agent = NoModel /\ op.to = NoModel THEN [ctx EXCEPT !.history = NoModel]
                  ELSE ctx
        /\ UNCHANGED agentsOf
     \/ op.kind = "rebuild" /\ SwitchOver /\ UNCHANGED <<ctx, agentsOf>>
     \/ /\ op.kind \in {"resume", "fork"} /\ SwitchOver /\ agentsOf' = ctx.session
        /\ ctx' = IF op.kind = "resume" THEN [ctx EXCEPT !.history = NoModel] ELSE ctx
  /\ UNCHANGED storeVars /\ Counts

\* A handler of ThreadSwitch raises: the thread is active, so nothing is taken back.
SwitchUnheard ==
  /\ op.pc = "announce"
  /\ SwitchAborts
  /\ ctx' = IF op.kind = "prompt" /\ op.to # NoModel
            THEN [ctx EXCEPT !.model = op.ctx.model, !.agent = op.ctx.agent,
                             !.history = IF op.ctx.agent = NoModel THEN op.to ELSE @]
            ELSE ctx
  /\ graph' = IF op.kind = "prompt" /\ op.to # NoModel /\ op.ctx.agent # NoModel
              THEN Cleaned(op.to, op.ctx.model) ELSE graph
  /\ UNCHANGED <<rec, cursor, agentsOf>> /\ Counts

-----------------------------------------------------------------------------
(* Prompts: ensure_agent, the turn, and submit_prompt with a model of its own. *)

AnyPrompt(own) ==
  /\ NothingRuns /\ answersGiven < MaxAnswers /\ own \in (Provider \ {Model}) \union {NoModel}
  /\ own # NoModel => Settled
  /\ answersGiven' = answersGiven + 1
  /\ Begin("prompt", own, IF own # NoModel \/ ctx.agent = NoModel THEN "build"
                          ELSE IF Pending THEN "seed" ELSE "turn", rec)
  /\ UNCHANGED <<storeVars, ctx, agentsOf, commands, crashes>>

\* ensure_agent's graph is ready: the history is cleaned unless it is seeded anyway.
Ensured(next) ==
  /\ graph' = IF Pending THEN graph ELSE Cleaned(ctx.history, Model)
  /\ ctx' = [ctx EXCEPT !.agent = Model,
                        !.history = IF Pending /\ next = "seed" THEN @ ELSE NoModel]
  /\ GoesTo(next)
  /\ UNCHANGED <<rec, cursor, agentsOf>>

PromptBuilt ==
  /\ op.kind = "prompt" /\ op.pc = "build" /\ op.to = NoModel
  /\ Ensured(IF Pending THEN "seed" ELSE "turn") /\ Counts

\* submit_prompt: history, configuration and agent are swapped for this prompt.
OwnBuilt ==
  /\ op.kind = "prompt" /\ op.pc = "build" /\ op.to # NoModel
  /\ graph' = IF Pending THEN graph
              ELSE Cleaned(IF ctx.history # NoModel THEN ctx.history ELSE Model, op.to)
  /\ ctx' = [ctx EXCEPT !.model = op.to, !.agent = op.to]
  /\ GoesTo(IF Pending THEN "seed" ELSE "turn")
  /\ UNCHANGED <<rec, cursor, agentsOf>> /\ Counts

\* build_agent fails. ensure_agent reports it; the others raise.
BuildFails ==
  /\ op.pc = "build" /\ op.kind # "resume"
  /\ SwitchAborts
  /\ UNCHANGED <<storeVars, ctx, agentsOf>> /\ Counts

\* The model is shown the history and answers.
ModelAnswers ==
  /\ op.pc = "turn"
  /\ graph' = [graph EXCEPT ![ctx.session][ctx.thread] =
                 IF @ = NoGraph THEN [said |-> {ctx.agent}, private |-> {ctx.agent}]
                 ELSE [said |-> @.said \union {ctx.agent}, private |-> @.private \union {ctx.agent}]]
  /\ GoesTo("capture")
  /\ UNCHANGED <<rec, cursor, ctx, agentsOf>> /\ Counts

\* bug: the history keeps what the other model has left
NotCleaned == graph

\* What submit_prompt's finally does with the history of the prompt's own model
GivenBack == Cleaned(op.to, op.ctx.model)

\* The turn's end, answersGiven or not: captured, and a model of its own is given back.
TurnEnds ==
  /\ op.pc \in {"turn", "capture"}
  /\ Capture(ctx.session, ctx.thread)
  /\ IF op.to = NoModel THEN UNCHANGED <<graph, ctx>>
     ELSE /\ graph' = IF op.ctx.agent # NoModel THEN GivenBack ELSE graph
          /\ ctx' = [ctx EXCEPT !.model = op.ctx.model, !.agent = op.ctx.agent,
                                !.history = IF op.ctx.agent = NoModel THEN op.to ELSE @]
  /\ SwitchOver
  /\ UNCHANGED agentsOf /\ Counts

\* rebuild, asked for by a plugin or a key
Rebuild ==
  /\ NothingRuns /\ ctx.agent # NoModel /\ AnyCommand
  /\ Begin("rebuild", NoModel, "build", rec)
  /\ UNCHANGED <<storeVars, ctx, agentsOf>>

Rebuilt ==
  /\ op.kind = "rebuild" /\ op.pc = "build"
  /\ ctx' = [ctx EXCEPT !.agent = Model]
  /\ IF Pending THEN GoesTo("seed") ELSE SwitchOver
  /\ UNCHANGED <<storeVars, agentsOf>> /\ Counts

-----------------------------------------------------------------------------
(* switch_model *)

ModelCommand(model) ==
  /\ NothingRuns /\ AnyCommand
  /\ Settled
  /\ Begin("model", model, "build", rec)
  /\ UNCHANGED <<storeVars, ctx, agentsOf>>

\* the history as the new model may see it, when the provider changes
ForModel == Cleaned(Model, op.to)

\* The row, the audit entry, and, if the provider changes, the history, its capture and the
\* thread's activation; capture knows no thread without a row.
ModelSwitched ==
  /\ op.kind = "model" /\ op.pc = "build"
  /\ Model # op.to => ctx.thread \in rec[ctx.session].rows
  /\ LET s == ctx.session
         t == ctx.thread
         g == ForModel[s][t] IN
     IF Model = op.to
     THEN rec' = [rec EXCEPT ![s].model = op.to] /\ UNCHANGED <<graph, cursor>>
     ELSE /\ graph' = ForModel
          /\ rec' = [rec EXCEPT ![s].model = op.to, ![s].path = Captured(@, g, cursor[s][t]),
                                ![s].thread = t]
          /\ cursor' = [cursor EXCEPT ![s][t] = IF g = NoGraph THEN Silence ELSE g]
  /\ ctx' = [ctx EXCEPT !.model = op.to, !.agent = op.to]
  /\ SwitchOver
  /\ UNCHANGED agentsOf /\ Counts

\* The handler takes row, entries and cursor back, and leaves the graph as it is by then.
ModelFails ==
  /\ op.kind = "model" /\ op.pc = "build"
  /\ graph' \in {graph, ForModel}
  /\ rec' = [rec EXCEPT ![ctx.session].model = Model]
  /\ SwitchAborts
  /\ UNCHANGED <<cursor, ctx, agentsOf>> /\ Counts

-----------------------------------------------------------------------------
(* new_session and fork *)

New ==
  /\ NothingRuns /\ AnyCommand /\ Settled /\ CanCreate
  /\ Begin("new", NoModel, "build", rec)
  /\ UNCHANGED <<storeVars, ctx, agentsOf>>

Renewed ==
  /\ op.kind = "new" /\ op.pc = "build"
  /\ rec' = [rec EXCEPT ![Fresh] = Created(Model)]
  /\ ctx' = [ctx EXCEPT !.session = Fresh, !.thread = 0, !.history = NoModel,
                        !.agent = IF @ = NoModel THEN @ ELSE Model]
  /\ agentsOf' = Fresh
  /\ SwitchOver
  /\ UNCHANGED <<graph, cursor>> /\ Counts

Fork ==
  /\ NothingRuns /\ AnyCommand /\ CanCreate
  /\ Begin("fork", NoModel, IF ctx.agent = NoModel THEN "build" ELSE "copy", rec)
  /\ UNCHANGED <<storeVars, ctx, agentsOf>>

ForkBuilt ==
  /\ op.kind = "fork" /\ op.pc = "build"
  /\ graph' = IF Pending THEN graph ELSE Cleaned(ctx.history, Model)
  /\ ctx' = [ctx EXCEPT !.agent = Model, !.history = NoModel]
  /\ op' = [op EXCEPT !.pc = "copy", !.ctx = ctx'] /\ UNCHANGED failed
  /\ UNCHANGED <<rec, cursor, agentsOf>> /\ Counts

\* The new session has the path, and no thread yet.
ForkCopies ==
  /\ op.kind = "fork" /\ op.pc = "copy"
  /\ rec' = [rec EXCEPT ![Fresh] = [Created(Model) EXCEPT !.path = rec[ctx.session].path,
                                                          !.thread = NoThread]]
  /\ ctx' = [ctx EXCEPT !.session = Fresh, !.thread = 0]
  /\ GoesTo("seed")
  /\ UNCHANGED <<graph, cursor, agentsOf>> /\ Counts

-----------------------------------------------------------------------------
(* resume *)

\* What a resume finds of a session: the path once its checkpoint has been recovered, and whether
\* its thread must be seeded anew, and into which.
FoundRow(s) ==
  IF Live(s, rec[s].thread)
  THEN [rec[s] EXCEPT !.path = Captured(@, graph[s][rec[s].thread], cursor[s][rec[s].thread])]
  ELSE rec[s]
Reseeds(s) == ~Live(s, rec[s].thread) \/ rec[s].cut
Target(s) ==
  IF ~Live(s, rec[s].thread) THEN SeedTarget(s, rec[s].thread)
  ELSE IF rec[s].cut THEN NextThread(s) ELSE rec[s].thread

RecoverCursor(s) ==
  cursor' = IF Live(s, rec[s].thread)
            THEN [cursor EXCEPT ![s][rec[s].thread] = graph[s][rec[s].thread]] ELSE cursor

\* Everything up to the first await; without an agent there is none.
Resume(s) ==
  /\ NothingRuns /\ AnyCommand /\ Settled /\ rec[s].made /\ Target(s) \in Thread
  /\ LET found == [rec EXCEPT ![s] = FoundRow(s)] IN
     /\ rec' = IF Reseeds(s) THEN [found EXCEPT ![s].thread = NoThread] ELSE found
     /\ ctx' = [ctx EXCEPT !.session = s, !.thread = Target(s), !.model = rec[s].model,
                           !.history = rec[s].model]
     /\ IF ctx.agent = NoModel
        THEN SwitchOver /\ agentsOf' = s
        ELSE Begin("resume", s, "build", found) /\ UNCHANGED agentsOf
  /\ RecoverCursor(s)
  /\ UNCHANGED graph

ResumeBuilt ==
  /\ op.kind = "resume" /\ op.pc = "build"
  /\ IF Pending
     THEN /\ ctx' = [ctx EXCEPT !.agent = Model] /\ GoesTo("seed")
          /\ UNCHANGED agentsOf
     ELSE /\ ctx' = [ctx EXCEPT !.agent = Model, !.history = NoModel]
          /\ SwitchOver /\ agentsOf' = ctx.session
  /\ UNCHANGED storeVars /\ Counts

ResumeFails ==
  /\ op.kind = "resume" /\ op.pc = "build"
  /\ RestoreTarget
  /\ SwitchAborts
  /\ UNCHANGED <<graph, cursor, agentsOf>> /\ Counts

-----------------------------------------------------------------------------
(* The program ends or dies, and is started again, in a new session or to resume one. *)

\* What a death leaves of a turn: a checkpoint that nobody has captured, perhaps inside a tool call.
LeftOpen(cut) ==
  IF op.pc = "capture" /\ cut THEN [rec EXCEPT ![ctx.session].cut = TRUE] ELSE rec

Restart(s, over, cut) ==
  /\ crashes < MaxCrashes /\ crashes' = crashes + 1
  /\ ~Accidents => over = NoModel /\ op.kind # "fork" /\ (op.kind = "prompt" => op.to = NoModel)
  /\ Settled
  /\ cut => op.pc = "capture"
  /\ rec[s].made /\ Target(s) \in Thread
  /\ LET left == LeftOpen(cut)
         again == left[s].cut \/ ~Live(s, rec[s].thread)
         live == Live(s, rec[s].thread) IN
     /\ rec' = [left EXCEPT ![s].path = FoundRow(s).path,
                            ![s].thread = IF again THEN NoThread ELSE @]
     /\ ctx' = [session |-> s, agent |-> NoModel, history |-> rec[s].model,
                model |-> IF over = NoModel THEN rec[s].model ELSE over,
                thread |-> IF live /\ again THEN NextThread(s) ELSE Target(s)]
     /\ ctx'.thread \in Thread
  /\ RecoverCursor(s)
  /\ agentsOf' = s /\ SwitchOver
  /\ UNCHANGED <<graph, answersGiven, commands>>

StartAnew ==
  /\ crashes < MaxCrashes /\ crashes' = crashes + 1 /\ NothingRuns /\ Settled /\ CanCreate
  /\ rec' = [rec EXCEPT ![Fresh] = Created(Model)]
  /\ ctx' = [session |-> Fresh, thread |-> 0, model |-> Model, agent |-> NoModel, history |-> NoModel]
  /\ agentsOf' = Fresh /\ SwitchOver
  /\ UNCHANGED <<graph, cursor, answersGiven, commands>>

SwitchNext ==
  \/ \E own \in Provider \union {NoModel} : AnyPrompt(own)
  \/ PromptBuilt \/ OwnBuilt \/ BuildFails \/ ModelAnswers \/ TurnEnds
  \/ SeedWrites \/ SeedActivates \/ SeedFails \/ SwitchAnnounced \/ SwitchUnheard
  \/ Rebuild \/ Rebuilt
  \/ \E model \in Provider : ModelCommand(model)
  \/ ModelSwitched \/ ModelFails
  \/ New \/ Renewed \/ Fork \/ ForkBuilt \/ ForkCopies
  \/ \E s \in SessionId : Resume(s)
  \/ ResumeBuilt \/ ResumeFails
  \/ \E s \in SessionId, over \in Provider \union {NoModel}, cut \in BOOLEAN : Restart(s, over, cut)
  \/ StartAnew

SwitchSpec == SwitchInit /\ [][SwitchNext]_switchVars

-----------------------------------------------------------------------------
Context == [said : SUBSET Provider, private : SUBSET Provider]

SwitchTypeOK ==
  /\ rec \in [SessionId -> [made : BOOLEAN, thread : Thread \union {NoThread}, rows : SUBSET Thread,
                          model : Provider \union {NoModel}, path : Context, cut : BOOLEAN]]
  /\ graph \in [SessionId -> [Thread -> Context \union {NoGraph}]]
  /\ ctx.session \in SessionId /\ ctx.thread \in Thread /\ ctx.model \in Provider
  /\ {ctx.agent, ctx.history} \subseteq Provider \union {NoModel}
  /\ agentsOf \in SessionId /\ failed \in BOOLEAN

\* No model is ever sent what is private to another provider ("provider-safe message history
\* cleanup", core/models.py:1).
HistoryFits ==
  op.pc = "turn" /\ Live(ctx.session, ctx.thread) =>
    graph[ctx.session][ctx.thread].private \subseteq {ctx.agent}

\* When a turn begins the graph has the conversation: nothing private to others, and everything
\* that the ledger's path has, whatever was switched, failed or restarted before.
HistoryReady ==
  /\ HistoryFits
  /\ op.pc = "turn" =>
       rec[ctx.session].path.said = IF Live(ctx.session, ctx.thread)
                                    THEN graph[ctx.session][ctx.thread].said ELSE {}

\* A switch that fails leaves context and store as they were, but for what a resume recovers and
\* the graph that /model may have stripped; or it has activated the thread and is over for the
\* store and the context (context.py 550-556, 747-772, 878-897).
SwitchUndone ==
  [][op.kind \in {"resume", "fork", "new", "model"} /\ op'.kind = "none" /\ failed' =>
       \/ ctx' = op.ctx /\ rec' = op.rec
       \/ /\ IF op.kind = "resume" THEN ctx'.session = op.to
             ELSE op.kind = "fork" /\ ctx'.session # op.ctx.session
          /\ ctx'.agent = ctx'.model /\ rec'[ctx'.session].thread = ctx'.thread
          /\ graph'[ctx'.session][ctx'.thread] # NoGraph]_switchVars
=============================================================================
