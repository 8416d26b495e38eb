------------------------------ MODULE TaskCards ------------------------------
(***************************************************************************)
(* The cards of the transcript that show what a call of the task tool has  *)
(* the workers do (transcript.py).  A card is opened by the call, before a *)
(* run exists, with one placeholder row per item.  The runs then announce  *)
(* themselves, work, end and are delivered, each in its own time, and the  *)
(* call ends with a summary taken earlier.  None of these events names a   *)
(* row: a card finds it by run, by name, by position or by guess.  A run   *)
(* no call started (one that is revived, one of a review) is shown on a    *)
(* card of its own, if no card has a row to spare.  A card that is closed  *)
(* goes to the scrollback, and the transcript forgets whose card it was.   *)
(*                                                                         *)
(* One parent is looked at.  Queued and pending are one status, the final  *)
(* statuses two.  Registering, AgentSpawned and its row are one step, and  *)
(* so are the delivery and AgentDelivered.  Ctrl+L, which forgets every    *)
(* card, is left out.                                                      *)
(***************************************************************************)
EXTENDS Naturals, Sequences, FiniteSets, SequencesExt

CONSTANTS
  TaskCall,      \* calls of the task tool
  RowName,       \* names the model gives to items
  MaxItems,      \* bound: items of one call
  MaxTaskRuns,   \* bound: runs
  MaxOthers      \* bound: runs no call started

Unnamed == "task"   \* the row of an item without a name has the agent's type
NoOne == 0          \* the run of a placeholder, "pending:..."

VARIABLES
  items,      \* by call: the items' names and whether it waits for them
  outcomes,   \* by call: the run of each item that was tried, NoOne if it failed
  answer,     \* by call: the statuses and results its summary tells, once taken
  endsSeen,      \* the calls whose end the transcript has handled
  workers,    \* by run: its name, phase, and whether it is delivered
  cards,      \* the cards, in the order they were opened
  cardOfRun,  \* _agent_tasks
  cardOfCall, \* _tools
  aggregate,  \* _parent_tasks: the card for runs that found none
  strayed,    \* history: the cards a run of another call, or of none, was shown on
  overtaken,  \* history: the runs delivered before their call's end was handled
  forgotten   \* history: the runs whose card was released before they had told all

cardVars == <<items, outcomes, answer, endsSeen, workers, cards, cardOfRun, cardOfCall,
              aggregate, strayed, overtaken, forgotten>>

WorkerIds == DOMAIN workers
CallOf(r) == {c \in TaskCall : r \in Range(outcomes[c])}

CardInit ==
  /\ items = [c \in TaskCall |-> <<>>] /\ outcomes = [c \in TaskCall |-> <<>>]
  /\ answer = [c \in TaskCall |-> <<>>] /\ endsSeen = {}
  /\ workers = <<>> /\ cards = <<>> /\ cardOfRun = <<>>
  /\ cardOfCall = [c \in TaskCall |-> 0] /\ aggregate = 0
  /\ strayed = {} /\ overtaken = {} /\ forgotten = {}
-----------------------------------------------------------------------------
Placeholder(name) ==
  [run |-> NoOne, name |-> name, status |-> "pending", result |-> FALSE, delivered |-> FALSE]

FirstRow(rows, Test(_)) ==
  LET found == {i \in DOMAIN rows : Test(rows[i])}
  IN  IF found = {} THEN 0 ELSE CHOOSE i \in found : \A j \in found : i <= j

\* The first row that fits best: the run's own, a placeholder of that name, a
\* placeholder; 0 if the run needs a row of its own.
RowFor(rows, snap) ==
  LET Own(w) == w.run = snap.run
      Named(w) == w.run = NoOne /\ w.name = snap.name
      Spare(w) == w.run = NoOne
      Best == <<FirstRow(rows, Own), FirstRow(rows, Named), FirstRow(rows, Spare)>>
  IN  IF Best[1] # 0 THEN Best[1] ELSE IF Best[2] # 0 THEN Best[2] ELSE Best[3]

\* {**current, **value}: what a snapshot leaves out stays.
Overlaid(row, snap) ==
  [run |-> snap.run, name |-> snap.name,
   status |-> IF snap.status = "" THEN row.status ELSE snap.status,
   result |-> row.result \/ snap.result, delivered |-> row.delivered \/ snap.delivered]

\* As if the row a run guessed first stayed its own beside the one it is told.
StillHeld(rows, r, place, names) == rows

\* Another row of the run becomes a placeholder again when its place is told.
Vacated(rows, r, place, names) ==
  LET Other == {i \in DOMAIN rows : i # place /\ rows[i].run = r}
      Freed == IF Other = {} THEN 0 ELSE CHOOSE i \in Other : \A j \in Other : i <= j
  IN  IF place = 0 \/ Freed = 0 THEN rows
      ELSE [rows EXCEPT ![Freed] = Placeholder(IF Freed \in DOMAIN names THEN names[Freed]
                                               ELSE rows[Freed].name)]

WithSnapshot(rows, snap, place, names) ==
  LET free == Vacated(rows, snap.run, place, names)
      i == IF place # 0 THEN place ELSE RowFor(free, snap)
  IN  IF i = 0 THEN Append(free, Overlaid(Placeholder(snap.name), snap))
      ELSE [free EXCEPT ![i] = Overlaid(free[i], snap)]

\* _settle_task_if_complete
Settled(card) ==
  /\ card.complete
  /\ \A i \in DOMAIN card.rows :
       /\ card.rows[i].status \in {"done", "failed"} /\ card.rows[i].result
       /\ card.rows[i].delivered \/ card.rows[i].run = NoOne
Settle(card) == [card EXCEPT !.active = card.active /\ ~Settled(card)]

\* The first open card with a placeholder of that name, or with any.
SpareCard(name) ==
  LET Spare(k) == cards[k].active /\ \E i \in DOMAIN cards[k].rows :
                    cards[k].rows[i].run = NoOne
      Named(k) == cards[k].active /\ \E i \in DOMAIN cards[k].rows :
                    cards[k].rows[i].run = NoOne /\ cards[k].rows[i].name = name
      Lowest(S) == CHOOSE k \in S : \A j \in S : k <= j
      byName == {k \in DOMAIN cards : Named(k)}
      any == {k \in DOMAIN cards : Spare(k)}
  IN  IF byName # {} THEN Lowest(byName) ELSE IF any # {} THEN Lowest(any) ELSE 0

Known(r) == r \in DOMAIN cardOfRun /\ cardOfRun[r] # 0

\* _task_for_agent
CardFor(snap) ==
  LET spare == SpareCard(snap.name) IN
  IF Known(snap.run) THEN cardOfRun[snap.run]
  ELSE IF spare # 0 THEN spare
  ELSE IF aggregate # 0 /\ cards[aggregate].active THEN aggregate
  ELSE Len(cards) + 1

\* A lifecycle event of a run of the given calls (none, or one) is shown.
Show(snap, calls) ==
  LET k == CardFor(snap)
      new == k > Len(cards)
      all == IF new THEN Append(cards, [call |-> "", rows |-> <<>>, complete |-> TRUE,
                                        active |-> TRUE])
             ELSE cards
  IN  /\ aggregate' = IF new THEN k ELSE aggregate
      /\ cards' = IF ~all[k].active THEN all
                  ELSE [all EXCEPT ![k] =
                          Settle([@ EXCEPT !.rows = WithSnapshot(@, snap, 0, <<>>)])]
      /\ cardOfRun' = [r \in (DOMAIN cardOfRun) \union {snap.run} |->
                         IF r = snap.run
                         THEN IF all[k].active \/ Known(r) THEN k ELSE 0
                         ELSE cardOfRun[r]]
      /\ strayed' = IF (IF calls = {} THEN {""} ELSE calls) = {all[k].call} THEN strayed
                    ELSE strayed \union {k} \union {cardOfCall[c] : c \in calls}
-----------------------------------------------------------------------------
\* ToolCallStart of a task: the card with its placeholders.
OpenCard(c, names, waits) ==
  /\ items[c] = <<>>
  /\ items' = [items EXCEPT ![c] = [i \in DOMAIN names |-> [name |-> names[i],
                                                            blocking |-> waits[i]]]]
  /\ cards' = Append(cards, [call |-> c, complete |-> FALSE, active |-> TRUE,
                             rows |-> [i \in DOMAIN names |-> Placeholder(names[i])]])
  /\ cardOfCall' = [cardOfCall EXCEPT ![c] = Len(cards) + 1]
  /\ UNCHANGED <<outcomes, answer, endsSeen, workers, cardOfRun, aggregate, strayed, overtaken,
                 forgotten>>

\* _name: the item's own if no sibling has it, else one no row has.
RunName(name) ==
  IF name = Unnamed \/ \E r \in WorkerIds : workers[r].name = name THEN "another" ELSE name

Announced(r, name) ==
  [run |-> r, name |-> name, status |-> "pending", result |-> FALSE, delivered |-> FALSE]

\* The next item's run is registered and announced.
SpawnItem(c) ==
  LET i == Len(outcomes[c]) + 1
      r == Len(workers) + 1
  IN  /\ answer[c] = <<>> /\ i \in DOMAIN items[c] /\ r <= MaxTaskRuns
      /\ outcomes' = [outcomes EXCEPT ![c] = Append(@, r)]
      /\ workers' = Append(workers, [name |-> RunName(items[c][i].name), phase |-> "queued",
                                     delivered |-> FALSE])
      /\ Show(Announced(r, RunName(items[c][i].name)), {c})
      /\ UNCHANGED <<items, answer, endsSeen, cardOfCall, overtaken, forgotten>>

\* An unknown agent type, a bad schema, the limits on depth and live runs.
ItemFails(c) ==
  /\ answer[c] = <<>> /\ Len(outcomes[c]) < Len(items[c])
  /\ outcomes' = [outcomes EXCEPT ![c] = Append(@, NoOne)]
  /\ UNCHANGED <<items, answer, endsSeen, workers, cards, cardOfRun, cardOfCall, aggregate,
                 strayed, overtaken, forgotten>>

UncalledRuns == {r \in WorkerIds : CallOf(r) = {}}

SpawnOther ==
  LET r == Len(workers) + 1
  IN  /\ Cardinality(UncalledRuns) < MaxOthers /\ r <= MaxTaskRuns
      /\ workers' = Append(workers, [name |-> "another", phase |-> "queued",
                                     delivered |-> FALSE])
      /\ Show(Announced(r, "another"), {})
      /\ UNCHANGED <<items, outcomes, answer, endsSeen, cardOfCall, overtaken, forgotten>>

StatusOf(r) ==
  CASE workers[r].phase = "queued" -> "pending" [] workers[r].phase = "running" -> "running"
    [] OTHER -> "done"
Ended(r) == workers[r].phase \notin {"queued", "running"}
Unchanging == UNCHANGED <<items, outcomes, answer, endsSeen, cardOfCall, overtaken, forgotten>>

\* AgentStatus: running.
WorkerStarts(r) ==
  /\ workers[r].phase = "queued"
  /\ workers' = [workers EXCEPT ![r].phase = "running"]
  /\ Show([Announced(r, workers[r].name) EXCEPT !.status = "running"], CallOf(r))
  /\ Unchanging

\* The run is terminal, and can be delivered, before it says so.
WorkerEnds(r) ==
  /\ ~Ended(r)
  /\ workers' = [workers EXCEPT ![r].phase = "ended"]
  /\ UNCHANGED <<cards, cardOfRun, aggregate, strayed>> /\ Unchanging

\* AgentStatus: done.
TellEnd(r) ==
  /\ workers[r].phase = "ended"
  /\ workers' = [workers EXCEPT ![r].phase = "told"]
  /\ Show([Announced(r, workers[r].name) EXCEPT !.status = "done"], CallOf(r))
  /\ Unchanging

\* AgentFinished: the result, and no status.
TellResult(r) ==
  /\ workers[r].phase = "told"
  /\ workers' = [workers EXCEPT ![r].phase = "finished"]
  /\ Show([Announced(r, workers[r].name) EXCEPT !.status = "", !.result = TRUE], CallOf(r))
  /\ Unchanging

Job(r) == [run |-> r, name |-> workers[r].name, status |-> "done", result |-> TRUE,
           delivered |-> TRUE]

\* AgentDelivered: only a card that knows the run, and is open, shows it.
AfterDelivery(all, r) ==
  IF ~Known(r) \/ ~all[cardOfRun[r]].active THEN all
  ELSE [all EXCEPT ![cardOfRun[r]] =
          Settle([@ EXCEPT !.rows = WithSnapshot(@, Job(r), 0, <<>>)])]

DeliverWorker(r) ==
  /\ Ended(r) /\ ~workers[r].delivered
  /\ workers' = [workers EXCEPT ![r].delivered = TRUE]
  /\ cards' = AfterDelivery(cards, r)
  /\ overtaken' = overtaken \union (IF CallOf(r) \subseteq endsSeen THEN {} ELSE {r})
  /\ UNCHANGED <<items, outcomes, answer, endsSeen, cardOfRun, cardOfCall, aggregate, strayed,
                 forgotten>>

PlaceIn(seq, r) == CHOOSE i \in DOMAIN seq : seq[i] = r

Spawned(c) == SelectSeq(outcomes[c], LAMBDA r : r # NoOne)
Waited(c) == SelectSeq(outcomes[c], LAMBDA r : r # NoOne /\ Ended(r) /\
                                    items[c][PlaceIn(outcomes[c], r)].blocking)

\* task_call returns, when the runs it waits for have ended or the time is up: it
\* delivers those that have, and tells every run's status of now.
AnswerCall(c) ==
  LET done == Waited(c)
      fresh == SelectSeq(done, LAMBDA r : ~workers[r].delivered)
  IN  /\ answer[c] = <<>> /\ items[c] # <<>> /\ Len(outcomes[c]) = Len(items[c])
      /\ workers' = [r \in WorkerIds |-> IF r \in Range(fresh)
                                         THEN [workers[r] EXCEPT !.delivered = TRUE]
                                         ELSE workers[r]]
      /\ cards' = FoldLeft(AfterDelivery, cards, fresh)
      /\ answer' = [answer EXCEPT ![c] = <<[statuses |-> [r \in Range(Spawned(c)) |->
                                              StatusOf(r)], results |-> done]>>]
      /\ UNCHANGED <<items, outcomes, endsSeen, cardOfRun, cardOfCall, aggregate, strayed,
                     overtaken, forgotten>>

Failures(c) == {i \in DOMAIN outcomes[c] : outcomes[c][i] = NoOne}

\* _merge_task_result: the runs that were spawned get the places of the items that
\* did not fail, the results find their rows, the failed items' rows say so.
MergedRows(c, rows) ==
  LET names == [i \in DOMAIN items[c] |-> items[c][i].name]
      places == SetToSortSeq(DOMAIN rows \ Failures(c), <)
      Summary(r) == [Announced(r, workers[r].name) EXCEPT
                       !.status = answer[c][1].statuses[r]]
      Placed(w, r) == WithSnapshot(w, Summary(r), places[PlaceIn(Spawned(c), r)], names)
      Found(w, r) == WithSnapshot(w, Job(r), 0, <<>>)
      told == FoldLeft(Found, FoldLeft(Placed, rows, Spawned(c)), answer[c][1].results)
  IN  [i \in DOMAIN told |-> IF i \in Failures(c)
                             THEN [told[i] EXCEPT !.status = "failed", !.result = TRUE]
                             ELSE told[i]]

\* ToolCallEnd of the task.
EndCard(c) ==
  LET k == cardOfCall[c] IN
  /\ answer[c] # <<>> /\ c \notin endsSeen
  /\ endsSeen' = endsSeen \union {c}
  /\ cards' = [cards EXCEPT ![k] = Settle([@ EXCEPT !.complete = TRUE,
                                                    !.rows = MergedRows(c, @)])]
  /\ cardOfRun' = [r \in (DOMAIN cardOfRun) \union Range(Spawned(c)) |->
                     IF r \in Range(Spawned(c)) THEN k ELSE cardOfRun[r]]
  /\ overtaken' = overtaken \ Range(answer[c][1].results)
  /\ UNCHANGED <<items, outcomes, answer, workers, cardOfCall, aggregate, strayed, forgotten>>

\* bug: what is still open is forgotten too
ReleasesOpen(k) == TRUE

\* Only what was committed is released, and only what is closed is committed.
Committable(k) == ~cards[k].active

\* release_committed, once the card is in the scrollback: whose card it was is forgotten.
ReleaseCard(k) ==
  LET shown == {r \in DOMAIN cardOfRun : cardOfRun[r] = k} IN
  /\ Committable(k) /\ (shown # {} \/ aggregate = k)
  /\ cardOfRun' = [r \in DOMAIN cardOfRun |-> IF r \in shown THEN 0 ELSE cardOfRun[r]]
  /\ aggregate' = IF aggregate = k THEN 0 ELSE aggregate
  /\ forgotten' = forgotten \union {r \in shown : workers[r].phase # "finished"}
  /\ UNCHANGED <<items, outcomes, answer, endsSeen, workers, cards, cardOfCall, strayed,
                 overtaken>>

CardNext ==
  \/ \E k \in DOMAIN cards : ReleaseCard(k)
  \/ \E c \in TaskCall, n \in 1..MaxItems :
       \E names \in [1..n -> RowName \union {Unnamed}], waits \in [1..n -> BOOLEAN] :
         OpenCard(c, names, waits)
  \/ \E c \in TaskCall : SpawnItem(c) \/ ItemFails(c) \/ AnswerCall(c) \/ EndCard(c)
  \/ SpawnOther
  \/ \E r \in WorkerIds : \/ WorkerStarts(r) \/ WorkerEnds(r) \/ TellEnd(r) \/ TellResult(r)
                          \/ DeliverWorker(r)
-----------------------------------------------------------------------------
CardTypeOK ==
  /\ endsSeen \subseteq TaskCall /\ strayed \subseteq DOMAIN cards
  /\ overtaken \union forgotten \subseteq WorkerIds /\ DOMAIN cardOfRun \subseteq WorkerIds
  /\ aggregate \in 0..Len(cards)
  /\ \A k \in DOMAIN cards : \A i \in DOMAIN cards[k].rows :
       cards[k].rows[i].run \in WorkerIds \union {NoOne}

\* Once the end of a call was handled, row i of its card is the run of item i, or says
\* that item i failed, whatever rows the runs had guessed while it was open.
RowsAreItems ==
  \A c \in endsSeen :
    LET card == cards[cardOfCall[c]] IN
    cardOfCall[c] \notin strayed =>
      /\ Len(card.rows) = Len(items[c])
      /\ \A i \in DOMAIN items[c] :
           /\ card.rows[i].run = outcomes[c][i]
           /\ outcomes[c][i] = NoOne => card.rows[i].status = "failed"

RunsOf(k) ==
  IF cards[k].call = "" THEN {r \in DOMAIN cardOfRun : cardOfRun[r] = k}
  ELSE Range(outcomes[cards[k].call]) \ {NoOne}

\* A card closes when its call has ended and the last of its runs was delivered: not
\* before, with a run it shows undelivered, and not never, which would keep it floating
\* under the conversation with its spinner for the rest of the session.  Three cases
\* are left out: a run delivered by somebody else before the call's end is handled;
\* a card that took a run of another call, or of none, for one of its own; and the
\* card that a run opens whose own was closed and released before the run had told its end
\* and its result (the registry lets a run be delivered once it is terminal, before the
\* events say so).
CardsClose ==
  \A k \in DOMAIN cards \ strayed :
    RunsOf(k) \intersect (overtaken \union forgotten) = {} =>
      (cards[k].active <=> ~cards[k].complete \/ \E r \in RunsOf(k) : ~workers[r].delivered)

TaskCardsSound == RowsAreItems /\ CardsClose
=============================================================================
