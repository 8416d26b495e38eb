---------------------------- MODULE AgentsScreen ----------------------------
(***************************************************************************)
(* The Agent Hub on the screen, and the view of a single worker            *)
(* (tui/overlays/hub.py, tui/runtime.py 937-1034, 1177-1200).  The hub     *)
(* asks the registry for its rows anew whenever it is drawn or a key is    *)
(* pressed, and finds the selected worker again upon events, at most four  *)
(* times a second.  Cancelling, reviving and sending begin when the loop   *)
(* comes to them.  A worker's view is built of its ledger and of what is   *)
(* still live on the screen, again at most four times a second unless an   *)
(* event forces it; what came in between is left to a task that sleeps.    *)
(* Moves to another session, which close the view, are left out.           *)
(***************************************************************************)
EXTENDS Integers, Sequences, SequencesExt, FiniteSets, FiniteSetsExt

CONSTANTS
  MaxWorkers,    \* bound: workers, numbered as they are spawned
  MaxNews,       \* bound: workers that are spawned and outputs of theirs, together
  MaxKeys,       \* bound: keys pressed
  Abandoned      \* the workers that the conversation may leave behind

ASSUME AgentsAssumption == {MaxWorkers, MaxNews, MaxKeys} \subseteq Nat

TheMain == 0
NoWorker == 0
Idle == [kind |-> "none", pc |-> "none", bound |-> NoWorker, on |-> NoWorker, exact |-> FALSE]
NoHit == [exact |-> FALSE, meant |-> NoWorker, reached |-> NoWorker]
NoView == [of |-> NoWorker, seen |-> {}, forced |-> FALSE]

VARIABLES
  worker,      \* each worker: its status, its parent, whether it is detached, and how many of its
               \* outputs were said, are in its ledger, and were written to the scrollback
  hubOpen, hubMode, treeMode, liveOnly,   \* the hub: open, its mode and order, filtered or not
  row,         \* index: the row that is highlighted, from 1
  chosen,      \* _selected_id
  mayRefresh,  \* the hub's last refresh is a quarter of a second ago
  shifted,     \* the rows have changed since the selection was last looked up
  act,         \* an action of the hub that was begun: whom it is for, and the row when it was
  hit,         \* while an action is with the registry: whom it was meant for, and whom it reached
  drilled,     \* _drilled_run_id
  view,        \* _drilled_frame: its worker, the outputs in it, whether a foreign event forced it
  mayRebuild,  \* the view's last refresh is a quarter of a second ago
  sleeping,    \* _drill_refresh_task
  sending,     \* a _send_to_drilled waits for the registry
  keys

hubKeys == <<hubOpen, hubMode, treeMode, liveOnly>>
rowVars == <<row, chosen, mayRefresh>>
viewVars == <<drilled, view, mayRebuild, sleeping, sending>>
agentsVars == <<worker, hubKeys, rowVars, shifted, act, hit, viewVars, keys>>

Workers == 1 .. MaxWorkers
Born == {r \in Workers : worker[r].status # "unborn"}
News == Cardinality(Born) + MapThenSumSet(LAMBDA r : worker[r].said, Workers)

\* AgentRegistry.list: attached, in the order in which they were spawned.
ListRows(w) == {r \in Workers : w[r].status # "unborn" /\ ~ w[r].gone}

\* A worker and those above it.
LineOf(w) ==
  LET line[r \in Workers] == {r} \union IF w[r].parent = TheMain THEN {} ELSE line[w[r].parent]
  IN  line

\* AgentRegistry.tree: each after its parent and what is below those spawned before it; a worker
\* whose parent is known but not listed is not reached.
TreeRows(w) == {r \in ListRows(w) : LineOf(w)[r] \subseteq ListRows(w)}
Precedes(x, r, line) ==
  /\ x # r
  /\ \/ line[x] \subseteq line[r]
     \/ ~ (line[r] \subseteq line[x]) /\ Min(line[x] \ line[r]) < Min(line[r] \ line[x])

InOrder(rows, Before(_, _)) ==
  [i \in 1 .. Cardinality(rows) |->
     CHOOSE r \in rows : Cardinality({x \in rows : Before(x, r)}) = i - 1]

\* filtered_runs
RowsOf(w, tree, live) ==
  LET Matching(rows) == {r \in rows : live => w[r].status = "running"}
      line == LineOf(w)
  IN  IF tree THEN InOrder(Matching(TreeRows(w)), LAMBDA x, r : Precedes(x, r, line))
      ELSE InOrder(Matching(ListRows(w)), LAMBDA x, r : x < r)
HubRows == RowsOf(worker, treeMode, liveOnly)
Shifts ==
  shifted' = (shifted \/ ((hubOpen \/ act # Idle) /\ RowsOf(worker', treeMode, liveOnly) # HubRows))

Clamp(i, rows) == Max({1, Min({i, Len(rows)})})
\* selected_run: the row is brought back among those there are, if any.
AtRow(i, rows) == IF rows = <<>> THEN NoWorker ELSE rows[Clamp(i, rows)]
Within(i, rows) == IF rows = <<>> THEN i ELSE Clamp(i, rows)

\* bug: the highlight is not moved to where the worker is now
RowStays(i, id, rows) ==
  [row |-> Clamp(i, rows), id |-> IF id \in Range(rows) THEN id ELSE AtRow(i, rows)]

\* _sync_selection
LookUp(i, id, rows) ==
  IF id # NoWorker /\ id \in Range(rows)
    THEN [row |-> CHOOSE k \in DOMAIN rows : rows[k] = id, id |-> id]
    ELSE [row |-> Clamp(i, rows), id |-> AtRow(i, rows)]

Selects(i, id, rows) ==
  /\ \E found \in {LookUp(i, id, rows)} : row' = found.row /\ chosen' = found.id
  /\ shifted' = FALSE

AgentsInit ==
  /\ worker \in [Workers -> [status : {"unborn", "parked"}, parent : {TheMain}, gone : {FALSE},
                             said : {0}, kept : {0}, written : {0}]]
  /\ \A r \in Workers : r > 1 => worker[r].status = "unborn"
  /\ hubOpen = FALSE /\ hubMode = "roster" /\ treeMode = FALSE /\ liveOnly = FALSE
  /\ row = 1 /\ chosen = NoWorker /\ mayRefresh = TRUE /\ shifted = FALSE
  /\ act = Idle /\ hit = NoHit
  /\ drilled = NoWorker /\ view = NoView /\ mayRebuild = TRUE /\ sleeping = FALSE
  /\ sending = FALSE
  /\ keys = 0
-----------------------------------------------------------------------------
(* Events: handle_presentation. *)

\* refresh_from_event of the hub, with the rows of now
HubHears ==
  IF hubOpen /\ mayRefresh
    THEN Selects(row, chosen, RowsOf(worker', treeMode, liveOnly)) /\ mayRefresh' = FALSE
    ELSE UNCHANGED rowVars /\ Shifts

\* What is in the ledger of a worker, and its blocks on the screen.
ShownOf(w, live) == 1 .. w.kept \union IF live THEN w.written + 1 .. w.said ELSE {}

\* _refresh_drilled_frame
Rebuilt(d, live, foreign) == [of |-> d, forced |-> foreign, seen |-> ShownOf(worker'[d], live)]

\* bug: an event that comes too early is left out
Drops(mine) == UNCHANGED sleeping

\* _schedule_drilled_refresh
LeavesToTask(mine) == sleeping' = (sleeping \/ mine)

\* An event of worker r, which forces the view, or not.
ViewHears(r, forces) ==
  /\ UNCHANGED <<drilled, sending>>
  /\ IF drilled = NoWorker THEN UNCHANGED <<view, mayRebuild, sleeping>>
     ELSE IF forces
       THEN view' = Rebuilt(drilled, FALSE, r # drilled) /\ mayRebuild' = FALSE /\ sleeping' = FALSE
     ELSE IF mayRebuild
       THEN view' = Rebuilt(drilled, TRUE, FALSE) /\ mayRebuild' = FALSE /\ UNCHANGED sleeping
     ELSE LeavesToTask(r = drilled) /\ UNCHANGED <<view, mayRebuild>>

Hear(r, forces) ==
  /\ HubHears /\ ViewHears(r, forces)
  /\ UNCHANGED <<hubKeys, act, hit, keys>>

\* AgentSpawned, told to the view whoever it is of
SpawnSeen(r, p) ==
  /\ worker[r].status = "unborn" /\ (\A x \in 1 .. r - 1 : x \in Born) /\ News < MaxNews
  /\ p = TheMain \/ (p \in Born /\ worker[p].status = "running" /\ ~ worker[p].gone)
  /\ worker' = [worker EXCEPT ![r].status = "running", ![r].parent = p]
  /\ Hear(r, FALSE)

\* A chunk of a worker's answer; events of others that force nothing do not reach the view.
Outputs(r) ==
  /\ worker[r].status = "running" /\ News < MaxNews
  /\ worker' = [worker EXCEPT ![r].said = @ + 1]
  /\ HubHears
  /\ IF r = drilled THEN ViewHears(r, FALSE) ELSE UNCHANGED viewVars
  /\ UNCHANGED <<hubKeys, act, hit, keys>>

\* The end of any turn settles every block that is on the screen, and a commit writes them
\* (at once here) to the scrollback.
AllWritten == [r \in Workers |-> [worker[r] EXCEPT !.written = worker[r].said]]

\* A worker's turn is captured, and its TurnEnd announced.
TurnKept(r) ==
  /\ worker[r].status = "running" /\ worker[r].kept # worker[r].said
  /\ worker' = [AllWritten EXCEPT ![r].kept = worker[r].said]
  /\ HubHears
  /\ IF r = drilled THEN ViewHears(r, TRUE) ELSE UNCHANGED viewVars
  /\ UNCHANGED <<hubKeys, act, hit, keys>>

MainTurnEnds ==
  /\ worker # AllWritten /\ worker' = AllWritten
  /\ HubHears /\ UNCHANGED <<hubKeys, act, hit, viewVars, keys>>

\* A worker that is between turns is done or parks; AgentStatus is told to the view of any worker,
\* unless the one that changed is detached.
Settles(r) ==
  /\ worker[r].status = "running" /\ worker[r].kept = worker[r].said
  /\ \E status \in {"done", "parked"} : worker' = [worker EXCEPT ![r].status = status]
  /\ IF worker[r].gone
       THEN Shifts /\ UNCHANGED <<hubKeys, rowVars, act, hit, viewVars, keys>>
       ELSE Hear(r, TRUE)

\* AgentStatus of a change that makes no difference here (queued, running, idle), AgentFinished
\* or AgentDelivered.
Tells(r) ==
  /\ r \in Born /\ ~ worker[r].gone /\ worker[r].kept = worker[r].said
  /\ UNCHANGED worker /\ Hear(r, TRUE)

\* The conversation leaves the entry behind by which the worker was spawned.
Detaches(r) ==
  /\ r \in Born \intersect Abandoned /\ ~ worker[r].gone
  /\ worker' = [worker EXCEPT ![r].gone = TRUE] /\ Shifts
  /\ UNCHANGED <<hubKeys, rowVars, act, hit, viewVars, keys>>

\* A quarter of a second passes.
TimePasses ==
  /\ ~ mayRefresh \/ ~ mayRebuild
  /\ mayRefresh' = TRUE /\ mayRebuild' = TRUE
  /\ UNCHANGED <<worker, hubKeys, row, chosen, shifted, act, hit, drilled, view, sleeping, sending,
                 keys>>

\* The task that slept: for the worker whose view is open by then.
TaskWakes ==
  /\ sleeping /\ sleeping' = FALSE
  /\ UNCHANGED worker
  /\ IF drilled = NoWorker THEN UNCHANGED <<view, mayRebuild>>
     ELSE view' = Rebuilt(drilled, TRUE, FALSE) /\ mayRebuild' = FALSE
  /\ UNCHANGED <<hubKeys, rowVars, shifted, act, hit, drilled, sending, keys>>

\* The hub is drawn, which reads the selected worker.
Drawn ==
  /\ hubOpen /\ row # Within(row, HubRows) /\ row' = Within(row, HubRows)
  /\ UNCHANGED <<worker, hubKeys, chosen, mayRefresh, shifted, act, hit, viewVars, keys>>
-----------------------------------------------------------------------------
(* Keys. *)

Key == keys < MaxKeys /\ keys' = keys + 1

\* A new overlay, over the main view or a worker's.
HubOpens ==
  /\ ~ hubOpen /\ act = Idle /\ Key
  /\ hubOpen' = TRUE /\ hubMode' = "roster" /\ treeMode' = FALSE /\ liveOnly' = FALSE
  /\ Selects(1, NoWorker, RowsOf(worker, FALSE, FALSE)) /\ mayRefresh' = TRUE
  /\ UNCHANGED <<worker, act, hit, viewVars>>

InRoster == hubOpen /\ hubMode = "roster" /\ Key

MovesRow(by) ==
  /\ InRoster
  /\ row' = Clamp(row + by, HubRows) /\ chosen' = AtRow(row', HubRows) /\ shifted' = FALSE
  /\ UNCHANGED <<worker, hubKeys, mayRefresh, act, hit, viewVars>>

\* _filter_changed: the first row of those that are left
Filters ==
  /\ InRoster /\ liveOnly' = ~ liveOnly
  /\ Selects(1, NoWorker, RowsOf(worker, treeMode, liveOnly'))
  /\ UNCHANGED <<worker, hubOpen, hubMode, treeMode, mayRefresh, act, hit, viewVars>>

\* toggle_tree: the worker of the row stays selected
TogglesTree ==
  /\ InRoster /\ treeMode' = ~ treeMode
  /\ Selects(Within(row, HubRows), AtRow(row, HubRows), RowsOf(worker, treeMode', liveOnly))
  /\ UNCHANGED <<worker, hubOpen, hubMode, liveOnly, mayRefresh, act, hit, viewVars>>

AsksForText ==
  /\ InRoster /\ AtRow(row, HubRows) # NoWorker /\ hubMode' = "message"
  /\ row' = Within(row, HubRows)
  /\ UNCHANGED <<worker, hubOpen, treeMode, liveOnly, chosen, mayRefresh, shifted, act, hit,
                 viewVars>>

ActionBegins(kind) ==
  act' = [kind |-> kind, pc |-> "begun", bound |-> AtRow(row, HubRows),
          on |-> AtRow(row, HubRows),
          exact |-> AtRow(row, HubRows) # NoWorker]

\* x and r give the action the worker of the row, m's Enter only the text.
Presses(kind) ==
  /\ hubOpen /\ act = Idle /\ Key
  /\ hubMode = IF kind = "message" THEN "message" ELSE "roster"
  /\ ActionBegins(kind)
  /\ row' = IF kind = "message" THEN row ELSE Within(row, HubRows)
  /\ UNCHANGED <<worker, hubKeys, chosen, mayRefresh, shifted, hit, viewVars>>

\* The overlay is gone, but for an action that still refers to it.
Closes ==
  /\ hubOpen' = FALSE /\ UNCHANGED hubMode
  /\ IF act = Idle
       THEN /\ treeMode' = FALSE /\ liveOnly' = FALSE
            /\ row' = 1 /\ chosen' = NoWorker /\ mayRefresh' = TRUE /\ shifted' = FALSE
       ELSE UNCHANGED <<treeMode, liveOnly, rowVars, shifted>>

Escapes ==
  /\ hubOpen /\ Key
  /\ IF hubMode = "roster" THEN Closes
     ELSE hubMode' = "roster" /\ UNCHANGED <<hubOpen, treeMode, liveOnly, rowVars, shifted>>
  /\ UNCHANGED <<worker, act, hit, viewVars>>

\* Enter: the overlay resolves to the worker of the row, and its view is opened at once.
DrillsIn ==
  /\ InRoster /\ Closes
  /\ \E r \in Workers :
       /\ r = AtRow(row, HubRows) /\ drilled' = r
       /\ view' = [of |-> r, seen |-> ShownOf(worker[r], TRUE), forced |-> FALSE]
  /\ mayRebuild' = FALSE
  /\ UNCHANGED <<worker, act, hit, sleeping, sending>>

\* bug: the task that sleeps is not cancelled, and what it was to refresh stays
KeepsFrame == UNCHANGED <<view, sleeping>>
LeavesFrame == view' = NoView /\ sleeping' = FALSE

LeavesAgent ==
  /\ ~ hubOpen /\ drilled # NoWorker /\ Key
  /\ drilled' = NoWorker /\ LeavesFrame
  /\ UNCHANGED <<worker, hubKeys, rowVars, shifted, act, hit, mayRebuild, sending>>
-----------------------------------------------------------------------------
(* Actions, from when the loop comes to them; one at a time, in the hub that began it. *)

\* bug: an action is for the worker that is selected by then
OfThen(a) == AtRow(row, HubRows)
Meant(a) ==
  IF a.kind = "message" \/ a.bound = NoWorker THEN AtRow(row, HubRows) ELSE a.bound

\* A message to a worker that is done is refused at once.
Allowed(kind, r) ==
  CASE kind \in {"cancel", "message"} -> worker[r].status # "done"
    [] kind = "revive" -> worker[r].status = "parked"

\* A worker and those below it.
Below(r) ==
  LET line[x \in Workers] ==
        {x} \union IF worker[x].parent = TheMain THEN {} ELSE line[worker[x].parent]
  IN  {x \in Born : r \in line[x]}

\* The workers once the registry was asked: who is parked ends or wakes; a turn is told to stop,
\* and its worker settles later.
Asked(kind, r) ==
  CASE kind = "cancel" ->
         [x \in Workers |-> IF x \in Below(r) /\ worker[x].status = "parked"
                             THEN [worker[x] EXCEPT !.status = "done"] ELSE worker[x]]
    [] kind \in {"revive", "message"} ->
         IF worker[r].status = "parked" THEN [worker EXCEPT ![r].status = "running"] ELSE worker

ActionGoes ==
  /\ act.pc = "begun"
  /\ LET r == Meant(act) IN
     IF r = NoWorker \/ ~ Allowed(act.kind, r)
       THEN act' = Idle /\ UNCHANGED <<worker, hit>>
       ELSE /\ act' = [act EXCEPT !.pc = "calling", !.bound = r]
            /\ worker' = Asked(act.kind, r)
            /\ hit' = IF act.kind = "message"
                      THEN [exact |-> ~ shifted, meant |-> chosen, reached |-> r]
                      ELSE [exact |-> act.exact, meant |-> act.on, reached |-> r]
  /\ IF act.kind = "message" \/ act.bound = NoWorker
       THEN row' = Within(row, HubRows) ELSE UNCHANGED row
  /\ Shifts
  /\ UNCHANGED <<hubKeys, chosen, mayRefresh, viewVars, keys>>

\* The registry has done it, or it failed there; the hub looks its selection up again, now and
\* then.
ActionReturns ==
  /\ act.pc = "calling" /\ act' = Idle /\ hit' = NoHit /\ UNCHANGED worker
  /\ \/ /\ hubMode' = IF act.kind = "message" THEN "roster" ELSE hubMode
        /\ HubHears
     \/ UNCHANGED <<hubMode, rowVars, shifted>>
  /\ UNCHANGED <<hubOpen, treeMode, liveOnly, viewVars, keys>>

\* A prompt in the view of a worker goes to that worker; when the registry has taken it, the view
\* of then is rebuilt.
PromptGoes ==
  /\ ~ hubOpen /\ drilled # NoWorker /\ ~ sending /\ Key
  /\ worker[drilled].status # "done" /\ worker' = Asked("message", drilled)
  /\ sending' = TRUE /\ Shifts
  /\ UNCHANGED <<hubKeys, rowVars, act, hit, drilled, view, mayRebuild, sleeping>>

PromptReturns ==
  /\ sending /\ sending' = FALSE /\ UNCHANGED worker
  /\ IF drilled = NoWorker THEN UNCHANGED <<view, mayRebuild>>
     ELSE view' = Rebuilt(drilled, TRUE, FALSE) /\ mayRebuild' = FALSE
  /\ UNCHANGED <<hubKeys, rowVars, shifted, act, hit, drilled, sleeping, keys>>

AgentsNext ==
  \/ \E r \in Workers :
       \/ \E p \in Workers \union {TheMain} : SpawnSeen(r, p)
       \/ Outputs(r) \/ TurnKept(r) \/ Settles(r) \/ Tells(r) \/ Detaches(r)
  \/ MainTurnEnds \/ TimePasses \/ TaskWakes \/ Drawn
  \/ HubOpens \/ \E by \in {-8, -1, 1, 8} : MovesRow(by)
  \/ Filters \/ TogglesTree \/ AsksForText \/ Escapes \/ DrillsIn \/ LeavesAgent
  \/ \E kind \in {"cancel", "revive", "message"} : Presses(kind)
  \/ ActionGoes \/ ActionReturns \/ PromptGoes \/ PromptReturns

AgentsSpec == AgentsInit /\ [][AgentsNext]_agentsVars
-----------------------------------------------------------------------------
AgentsTypeOK ==
  /\ worker \in [Workers ->
       [status : {"unborn", "parked", "running", "done"}, gone : BOOLEAN, parent : 0 .. MaxWorkers,
        said : 0 .. MaxNews, kept : 0 .. MaxNews, written : 0 .. MaxNews]]
  /\ hubOpen \in BOOLEAN /\ treeMode \in BOOLEAN /\ liveOnly \in BOOLEAN
  /\ hubMode \in {"roster", "message"}
  /\ row \in 1 .. MaxWorkers /\ chosen \in 0 .. MaxWorkers
  /\ mayRefresh \in BOOLEAN /\ shifted \in BOOLEAN
  /\ act.kind \in {"none", "cancel", "revive", "message"} /\ act.pc \in {"none", "begun", "calling"}
  /\ hit.meant \in 0 .. MaxWorkers /\ hit.reached \in 0 .. MaxWorkers
  /\ drilled \in 0 .. MaxWorkers /\ view.of \in 0 .. MaxWorkers
  /\ view.seen \subseteq 1 .. MaxNews
  /\ mayRebuild \in BOOLEAN /\ sleeping \in BOOLEAN /\ sending \in BOOLEAN /\ keys \in 0 .. MaxKeys

\* The highlighted row is that of the selected worker, however the rows have been filtered,
\* ordered and shortened, until they change again (hub.py 420-500).
SelectionIsKept ==
  hubOpen /\ ~ shifted => AtRow(row, HubRows) = chosen

\* A worker is cancelled or revived if its row was highlighted when the key was pressed, wherever
\* the highlight is when the action begins; a message goes to the selected worker
\* unless the rows have changed since the selection was looked up (hub.py 353-392, 502-555).
ActionsHitTheSelected == hit.exact => hit.meant = hit.reached

\* The view is of the worker it was opened for, or of none when it was left; and what the ledger
\* and the screen have of its worker is in it or will be without another event, unless it was last
\* rebuilt because of a change of another worker, which leaves out what is live.  (What the end of
\* another's turn has written to the scrollback is in neither until the worker's own turn ends:
\* transcript.py 452, runtime.py 951-1016, 1181-1200.)
ViewIsOfItsWorker ==
  /\ view.of = drilled /\ (drilled = NoWorker => ~ sleeping)
  /\ drilled # NoWorker =>
       /\ 1 .. worker[drilled].kept \subseteq view.seen
       /\ view.forced \/ sleeping \/ ShownOf(worker[drilled], TRUE) \subseteq view.seen

AgentsSound == SelectionIsKept /\ ActionsHitTheSelected /\ ViewIsOfItsWorker
=============================================================================
