----------------------------- MODULE SessionTree -----------------------------
(* One session of the terminal application (AppContext): its ledger, the graph *)
(* threads seeded from it, and the three tasks that move it: the submission in *)
(* hand ("fg"), a command dispatched beside it ("side") and the compaction     *)
(* that runs when the user is idle ("idle").  Background runs append their job *)
(* entries whenever one of these awaits.                                       *)
EXTENDS Ledger

CONSTANTS
  Worker,        \* background runs of the main agent
  AutoCompact,   \* compaction.enabled and tui.auto_compact
  Overlaps,      \* commands are given beside a submission in hand, and an idle
                 \* compaction goes on beside one and one begins beside it
  MaxMessages,   \* bound: messages the conversations hold
  MaxEntries,    \* bound: entries of the ledger
  MaxSubmissions,\* bound: turns and commands
  MaxCrashes     \* bound: times the program dies and is started with --resume

ASSUME BoundsAssumption ==
  /\ {MaxMessages, MaxEntries, MaxSubmissions, MaxCrashes} \subseteq Nat
  /\ {AutoCompact, Overlaps} \subseteq BOOLEAN
  /\ "none" \notin Worker

Task == {"fg", "side", "idle"}
Thread == 0 .. (2 * MaxSubmissions + MaxCrashes)
None == -1

VARIABLES
  entries,      \* the table of entries, in the order they were appended
  leaf,         \* sessions.leaf_id
  current,      \* sessions.current_thread: None while a thread is being seeded
  rows,         \* the rows of threads are 0 .. rows - 1
  cursor,       \* per thread: the messages its capture cursor has seen
  graph,        \* per thread: the messages of its checkpoint
  checkpoints,  \* the threads that have a checkpoint
  thread,       \* AppContext.thread_id
  op,           \* per task: what it does and how far it is
  known,        \* AppContext._idle_compaction is the task "idle"
  job,          \* per worker: _attached and _job_entry_id
  spoken,       \* messages written so far
  submitted,    \* turns and commands so far
  crashes       \* restarts so far

ledgerVars == <<entries, leaf>>
threadVars == <<current, rows, cursor, graph, checkpoints, thread>>
taskVars == <<op, known>>
boundVars == <<spoken, submitted, crashes>>
vars == <<ledgerVars, threadVars, taskVars, job, boundVars>>

Idle == [kind |-> "none", pc |-> "free", on |-> None, seed |-> <<>>, base |-> <<>>,
         tail |-> <<>>, summary |-> {}, first |-> 0, last |-> 0,
         prior |-> [leaf |-> 0, thread |-> None, current |-> None],
         cancel |-> FALSE]

Init ==
  /\ entries = <<>> /\ leaf = 0
  /\ current = 0 /\ rows = 1 /\ thread = 0
  /\ cursor = [t \in Thread |-> <<>>] /\ graph = [t \in Thread |-> <<>>]
  /\ checkpoints = {}
  /\ op = [p \in Task |-> Idle] /\ known = FALSE
  /\ job = [w \in Worker |-> [state |-> "unborn", entry |-> 0]]
  /\ spoken = 0 /\ submitted = 0 /\ crashes = 0

ReseedPending == current # thread
Free(p) == op[p].pc = "free"
Seeding(p) == op[p].pc \in {"reading", "writing", "activating"}
Prior == [leaf |-> leaf, thread |-> thread, current |-> current]

\* A command goes through the submission lock, or beside it when another submission
\* is in hand; nothing waits for an idle compaction.
MayStart(p, beside) ==
  /\ Free(p)
  /\ p = "fg" \/ (p = "side" /\ Overlaps /\ ~Free("fg"))
  /\ Overlaps \/ op["idle"].pc \in beside
  /\ submitted < MaxSubmissions

MayGoOn(p) == p = "idle" => Overlaps \/ Free("fg")

-------------------------------------------------------------------------------
(* Seeding a thread with the conversation at the leaf. *)

\* bug: what an earlier attempt left in the thread stays there.
SeedOverStale(p, record, es, at, t) ==
  /\ op' = [op EXCEPT ![p] = [record EXCEPT !.pc = "reading", !.on = t,
                                            !.seed = Context(es, at)]]
  /\ UNCHANGED <<checkpoints, graph>>

\* _seed_ready_thread up to its await, at leaf at of es: the context is built and
\* what is left of a checkpoint of that thread goes.
StartSeed(p, record, es, at, t) ==
  /\ op' = [op EXCEPT ![p] = [record EXCEPT !.pc = "reading", !.on = t,
                                            !.seed = Context(es, at)]]
  /\ checkpoints' = checkpoints \ {t}
  /\ graph' = [graph EXCEPT ![t] = <<>>]

\* aupdate_state puts the messages it does not know behind those it has read.
AddMessages(base, new) ==
  base \o Only(new, {m \in ToSet(new) : m.role = "summary" \/ ~Contains(base, m)})

SeedReads(p) ==
  /\ op[p].pc = "reading" /\ ~op[p].cancel
  /\ op' = [op EXCEPT ![p].pc = "writing", ![p].base = graph[op[p].on]]
  /\ UNCHANGED <<ledgerVars, threadVars, known, job, boundVars>>

SeedWrites(p) ==
  /\ op[p].pc = "writing" /\ ~op[p].cancel
  /\ graph' = [graph EXCEPT ![op[p].on] = AddMessages(op[p].base, op[p].seed)]
  /\ checkpoints' = checkpoints \cup {op[p].on}
  /\ op' = [op EXCEPT ![p].pc = "activating", ![p].base = <<>>]
  /\ UNCHANGED <<ledgerVars, current, rows, cursor, thread, known, job, boundVars>>

\* activate_thread, with the cursor at what the checkpoint holds by now.
SeedActivates(p) ==
  LET t == op[p].on
  IN  /\ op[p].pc = "activating" /\ ~op[p].cancel
      /\ cursor' = [cursor EXCEPT ![t] = IF t \in checkpoints THEN graph[t] ELSE op[p].seed]
      /\ rows' = Max({rows, t + 1})
      /\ current' = t
      /\ op' = [op EXCEPT ![p].pc = "announcing", ![p].seed = <<>>]
      /\ UNCHANGED <<ledgerVars, graph, checkpoints, thread, known, job, boundVars>>

\* bug: an entry is discarded whatever was appended behind it.
RestoreAnyway(o) == ReseedPending /\ o.prior.leaf <= Len(entries)

\* set_position with discard_entry_id, once per entry the operation appended, newest
\* first: an entry that is no longer the newest cannot be discarded, and the error
\* leaves everything where it is.
CanRestore(o) ==
  /\ ReseedPending
  /\ o.first = 0 \/ Len(entries) = o.last
  /\ o.prior.leaf <= Len(entries)

Rollback(o) ==
  IF o.kind # "turn" /\ CanRestore(o)
  THEN /\ entries' = IF o.first = 0 THEN entries ELSE SubSeq(entries, 1, o.first - 1)
       /\ leaf' = o.prior.leaf
       /\ current' = o.prior.current
       /\ thread' = o.prior.thread
  ELSE UNCHANGED <<ledgerVars, current, thread>>

\* The update raises, or the task is cancelled in it; a write under way then may
\* still land behind the delete.
SeedFails(p) ==
  LET o == op[p]
  IN  /\ Seeding(p)
      /\ \/ /\ graph' = [graph EXCEPT ![o.on] = <<>>]
            /\ checkpoints' = checkpoints \ {o.on}
         \/ /\ o.pc = "writing"
            /\ graph' = [graph EXCEPT ![o.on] = AddMessages(o.base, o.seed)]
            /\ checkpoints' = checkpoints \cup {o.on}
      /\ Rollback(o)
      /\ op' = [op EXCEPT ![p] = Idle]
      /\ UNCHANGED <<rows, cursor, known, job, boundVars>>

-------------------------------------------------------------------------------
(* Capture: what a graph holds and the ledger does not is appended. *)

\* bug: the cursor is a number of messages, and what is behind it is new.
CaptureByCount(ms, seen) ==
  [i \in 1 .. Len(ms) - Len(seen) |-> MessageEntry(ms[Len(seen) + i])]

Says(ms) == [i \in DOMAIN ms |-> MessageEntry(ms[i])]

\* What a conversation has from where messages begin.
SharedWith(live, ms) ==
  LET from == IF ms = <<>> THEN 0 ELSE SelectInSeq(live, LAMBDA m : m = Head(ms))
  IN  IF from = 0 THEN <<>> ELSE SubSeq(live, from, Len(live))

\* A summary and the messages after it: a compaction that keeps those it still shares
\* with the ledger.
CondensedEntries(summary, after) ==
  LET shared == SharedWith(Context(entries, leaf), after)
      keeps == shared # <<>> /\ IsPrefix(shared, after)
      kept == IF keeps THEN FirstKept(entries, leaf, Head(after)) ELSE NoMark
      rest == IF keeps THEN SubSeq(after, Len(shared) + 1, Len(after)) ELSE after
  IN  <<CompactionEntry(summary, kept)>> \o Says(rest)

\* capture_graph_values: the entries for messages ms of a graph whose cursor is at
\* seen.  A graph that did not just grow is recorded anew.
CaptureEntries(ms, seen) ==
  LET grown == IsPrefix(seen, ms)
      at == IF grown /\ seen # <<>> THEN 0
            ELSE SelectInSeq(ms, LAMBDA m : m.role = "summary")
  IN  CASE at # 0 -> CondensedEntries(ms[at], SubSeq(ms, at + 1, Len(ms)))
        [] at = 0 /\ ~grown -> <<CheckpointReset>> \o Says(ms)
        [] OTHER -> Says(SubSeq(ms, Len(seen) + 1, Len(ms)))

\* Ledger.capture, one transaction; a thread without a row cannot be captured.
Capture(t) ==
  LET new == CaptureEntries(graph[t], cursor[t])
  IN  IF t < rows
      THEN /\ Len(entries) + Len(new) <= MaxEntries
           /\ entries' = AppendMany(entries, leaf, new)
           /\ leaf' = IF new = <<>> THEN leaf ELSE Len(entries')
           /\ cursor' = [cursor EXCEPT ![t] = graph[t]]
      ELSE UNCHANGED <<ledgerVars, cursor>>

-------------------------------------------------------------------------------
(* Commands. *)

\* The thread an operation seeds: a switch that is still pending keeps its target.
NextThread == IF ReseedPending THEN thread ELSE rows

\* The leaf moves to at, of es, the session has no thread, and seeding begins.
Move(p, record, es, at) ==
  /\ Len(es) <= MaxEntries
  /\ entries' = es /\ leaf' = at
  /\ current' = None /\ thread' = NextThread
  /\ StartSeed(p, [record EXCEPT !.prior = Prior], es, at, NextThread)
  /\ UNCHANGED <<rows, cursor, known, job>>

Clear(p) ==
  LET es == Placed(entries, leaf, ResetBoundaryEntry)
  IN  /\ MayStart(p, {"free", "asleep"})
      /\ Move(p, [Idle EXCEPT !.kind = "clear", !.first = Len(es), !.last = Len(es)],
              es, Len(es))
      /\ submitted' = submitted + 1
      /\ UNCHANGED <<spoken, crashes>>

Branch(p, at) ==
  /\ MayStart(p, {"free", "asleep"})
  /\ Move(p, [Idle EXCEPT !.kind = "branch"], entries, at)
  /\ submitted' = submitted + 1
  /\ UNCHANGED <<spoken, crashes>>

\* The idle task, if AppContext knows one, is cancelled; the caller waits for its end.
CancelIdle(rest) ==
  /\ op' = [rest EXCEPT !["idle"].cancel = @ \/ (known /\ ~Free("idle"))]
  /\ known' = FALSE

Compact(p) ==
  /\ MayStart(p, {"free", "asleep", "summarising"})
  /\ CancelIdle([op EXCEPT ![p].kind = "compact", ![p].pc = "stopping"])
  /\ submitted' = submitted + 1
  /\ UNCHANGED <<ledgerVars, threadVars, job, spoken, crashes>>

\* _partition: where the part that is kept may begin.  Never inside the answers to a
\* call, and a last answer keeps its call.
Cuts(ms) ==
  LET starts == {i \in 2 .. Len(ms) : ms[i].role # "tool"}
      answered == ms # <<>> /\ Last(ms).role = "tool" /\ \E i \in starts : ms[i].role = "call"
  IN  IF answered THEN starts ELSE starts \cup {Len(ms) + 1}

\* The context is read and the model is asked for a summary.
Summarise(p) ==
  /\ \/ op[p].pc = "stopping" /\ ~op["idle"].cancel
     \/ p = "idle" /\ op[p].pc = "asleep" /\ ~op[p].cancel
  /\ MayGoOn(p)
  /\ LET ms == Context(entries, leaf)
     IN  \E cut \in Cuts(ms) :
           op' = [op EXCEPT ![p].pc = "summarising",
                            ![p].summary = Covered(SubSeq(ms, 1, cut - 1)),
                            ![p].tail = SubSeq(ms, cut, Len(ms))]
  /\ UNCHANGED <<ledgerVars, threadVars, known, job, boundVars>>

\* The summary is there: the compaction goes where the leaf is by now.  Messages to
\* keep that are not on the path are recorded again.
Summarised(p) ==
  LET o == op[p]
      kept == IF o.tail = <<>> THEN NoMark ELSE FirstKept(entries, leaf, Head(o.tail))
      again == IF kept = NoMark THEN Says(o.tail) ELSE <<>>
      es == AppendMany(entries, leaf,
                       <<CompactionEntry(SummaryMessage(o.summary), kept)>> \o again)
  IN  /\ o.pc = "summarising" /\ ~o.cancel /\ MayGoOn(p)
      /\ Move(p, [o EXCEPT !.first = Len(entries) + 1, !.last = Len(es),
                           !.summary = {}, !.tail = <<>>], es, Len(es))
      /\ UNCHANGED boundVars

\* The handlers of ThreadSwitch and of TurnStart put an end to the idle task; in the
\* idle task itself they only forget it.
Announce(p) ==
  /\ op[p].pc = "announcing" /\ ~op[p].cancel
  /\ IF p = "idle"
     THEN op' = [op EXCEPT ![p].pc = "announced"] /\ known' = FALSE
     ELSE CancelIdle([op EXCEPT ![p].pc = "announced"])
  /\ UNCHANGED <<ledgerVars, threadVars, job, boundVars>>

\* A command is done.  A compaction first stores the kept messages once more in the
\* thread of the moment and captures it.
CommandEnds(p) ==
  /\ op[p].pc = "announced" /\ ~op["idle"].cancel
  /\ op[p].kind # "turn"
  /\ IF op[p].kind = "compact" THEN Capture(thread) ELSE UNCHANGED <<ledgerVars, cursor>>
  /\ op' = [op EXCEPT ![p] = Idle]
  /\ UNCHANGED <<current, rows, graph, checkpoints, thread, known, job, boundVars>>

\* The task is cancelled, or its await raises, where nothing needs to be restored.
Stops(p) ==
  /\ op[p].pc \in {"asleep", "stopping", "summarising", "announcing", "announced"}
  /\ op' = [op EXCEPT ![p] = Idle]
  /\ UNCHANGED <<ledgerVars, threadVars, known, job, boundVars>>

-------------------------------------------------------------------------------
(* Turns. *)

\* run_turn: a pending switch is made good first.
StartTurn ==
  /\ MayStart("fg", {"free", "asleep", "summarising"})
  /\ spoken < MaxMessages
  /\ submitted' = submitted + 1
  /\ IF ReseedPending
     THEN StartSeed("fg", [Idle EXCEPT !.kind = "turn"], entries, leaf, thread)
     ELSE /\ op' = [op EXCEPT !["fg"] = [Idle EXCEPT !.kind = "turn", !.pc = "announcing"]]
          /\ UNCHANGED <<graph, checkpoints>>
  /\ UNCHANGED <<ledgerVars, current, rows, cursor, thread, known, job, spoken, crashes>>

\* A message reaches the checkpoint of thread t.
Say(t, m) ==
  /\ graph' = [graph EXCEPT ![t] = Append(@, m)]
  /\ checkpoints' = checkpoints \cup {t}
  /\ spoken' = spoken + 1

\* The stream begins, with the thread of the moment, and checkpoints the prompt.
TurnOpens ==
  /\ op["fg"].kind = "turn" /\ op["fg"].pc = "announced" /\ ~op["idle"].cancel
  /\ spoken < MaxMessages
  /\ Say(thread, TextMessage(spoken + 1))
  /\ op' = [op EXCEPT !["fg"].pc = "streaming", !["fg"].on = thread]
  /\ UNCHANGED <<ledgerVars, current, rows, cursor, thread, known, job, submitted, crashes>>

Streaming == op["fg"].pc = "streaming"
Asked == LET ms == graph[op["fg"].on] IN ms # <<>> /\ Last(ms).role = "call"

\* The tools answer, or the model speaks.
TurnSpeaks ==
  LET t == op["fg"].on
  IN  /\ Streaming /\ spoken < MaxMessages
      /\ IF Asked THEN Say(t, ToolMessage(spoken + 1, Last(graph[t]).id))
         ELSE \/ Say(t, TextMessage(spoken + 1))
              \/ Say(t, CallMessage(spoken + 1))
      /\ UNCHANGED <<ledgerVars, current, rows, cursor, thread, taskVars, job,
                     submitted, crashes>>

\* The graph compacts its own messages between two of its steps.
TurnCondenses ==
  LET t == op["fg"].on
  IN  /\ AutoCompact /\ Streaming /\ ~Asked
      /\ \E cut \in Cuts(graph[t]) :
           graph' = [graph EXCEPT ![t] =
                       <<SummaryMessage(Covered(SubSeq(@, 1, cut - 1)))>> \o
                       SubSeq(@, cut, Len(@))]
      /\ UNCHANGED <<ledgerVars, current, rows, cursor, checkpoints, thread, taskVars, job,
                     boundVars>>

\* The stream ends, fails or is interrupted.
TurnStops ==
  /\ Streaming
  /\ op' = [op EXCEPT !["fg"].pc = "capturing"]
  /\ UNCHANGED <<ledgerVars, threadVars, known, job, boundVars>>

\* capture_turn, of the thread of the moment.
TurnCaptures ==
  /\ op["fg"].pc = "capturing"
  /\ Capture(thread)
  /\ op' = [op EXCEPT !["fg"].pc = "closing"]
  /\ UNCHANGED <<current, rows, graph, checkpoints, thread, known, job, boundVars>>

\* The handler of TurnEnd lets an idle compaction wait for its time.
TurnEnds ==
  LET waits == AutoCompact /\ Free("idle")
  IN  /\ op["fg"].pc = "closing"
      /\ op' = [op EXCEPT !["fg"] = Idle,
                          !["idle"] = IF waits
                                      THEN [Idle EXCEPT !.kind = "compact", !.pc = "asleep"]
                                      ELSE @]
      /\ known' = (known \/ waits)
      /\ UNCHANGED <<ledgerVars, threadVars, job, boundVars>>

-------------------------------------------------------------------------------
(* Background runs and restarts. *)

\* bug: a run is never detached from a branch.
AlwaysOnPath(e) == e \in DOMAIN entries

OnPath(e) == Contains(Path(entries, leaf), e)

\* _persist_job: a run whose last entry the ledger has branched away from is
\* detached, any other appends its state where the leaf is.
PersistJob(w) ==
  /\ \/ job[w].state = "unborn" /\ Streaming
     \/ job[w].state = "attached"
  /\ IF job[w].entry # 0 /\ ~OnPath(job[w].entry)
     THEN /\ job' = [job EXCEPT ![w].state = "detached"]
          /\ UNCHANGED ledgerVars
     ELSE /\ Len(entries) < MaxEntries
          /\ entries' = Placed(entries, leaf, JobEntry(w))
          /\ leaf' = Len(entries')
          /\ job' = [job EXCEPT ![w] = [state |-> "attached", entry |-> Len(entries')]]
  /\ UNCHANGED <<threadVars, taskVars, boundVars>>

\* The last entry of a run on a path; 0 if it has none there.
LastJob(es, at, w) ==
  LET ids == Path(es, at)
      k == SelectLastInSeq(ids, LAMBDA i : es[i].job = w)
  IN  IF k = 0 THEN 0 ELSE ids[k]

\* _uncheckpointed_seed_target.
SeedTarget ==
  CASE current # None /\ current \notin checkpoints -> current
    [] (current = None \/ current \in checkpoints) /\ 0 \notin checkpoints -> 0
    [] OTHER -> rows

\* The program dies anywhere and is started with --resume: what its thread had
\* checkpointed is captured; without a checkpoint, or with calls nobody answered,
\* the session waits to be seeded anew.
Restart ==
  LET live == current # None /\ current \in checkpoints
  IN  /\ crashes < MaxCrashes
      /\ crashes' = crashes + 1
      /\ op' = [p \in Task |-> Idle] /\ known' = FALSE
      /\ IF live THEN Capture(current) ELSE UNCHANGED <<ledgerVars, cursor>>
      /\ IF live /\ ~Dangling(entries', leaf')
         THEN thread' = current /\ UNCHANGED current
         ELSE current' = None /\ thread' = IF live THEN rows ELSE SeedTarget
      /\ job' = [w \in Worker |->
                   LET e == LastJob(entries', leaf', w)
                   IN  IF e # 0 THEN [state |-> "attached", entry |-> e]
                       ELSE IF job[w].state = "unborn" THEN job[w]
                       ELSE [state |-> "detached", entry |-> 0]]
      /\ UNCHANGED <<rows, graph, checkpoints, spoken, submitted>>

-------------------------------------------------------------------------------
Next ==
  \/ \E p \in Task :
        \/ Clear(p) \/ Compact(p) \/ \E at \in DOMAIN entries : Branch(p, at)
        \/ Summarise(p) \/ Summarised(p)
        \/ SeedReads(p) \/ SeedWrites(p) \/ SeedActivates(p) \/ SeedFails(p)
        \/ Announce(p) \/ CommandEnds(p) \/ Stops(p)
  \/ StartTurn \/ TurnOpens \/ TurnSpeaks \/ TurnCondenses \/ TurnStops
  \/ TurnCaptures \/ TurnEnds
  \/ \E w \in Worker : PersistJob(w)
  \/ Restart

Spec == Init /\ [][Next]_vars

-------------------------------------------------------------------------------
(* Properties. *)

PCs == {"free", "stopping", "asleep", "summarising", "reading", "writing", "activating",
        "announcing", "announced", "streaming", "capturing", "closing"}

\* Types of the variables; the leaf, the marks and the runs point at entries that exist.
TypeOK ==
  /\ Len(entries) <= MaxEntries
  /\ \A i \in DOMAIN entries :
        /\ entries[i].parent \in 0 .. i - 1
        /\ entries[i].path = Append(Path(entries, entries[i].parent), i)
        /\ entries[i].kept \in NoMark .. i - 1
  /\ leaf \in 0 .. Len(entries)
  /\ {current, thread} \subseteq Thread \cup {None}
  /\ rows \in Thread /\ current < rows
  /\ checkpoints \subseteq Thread
  /\ \A p \in Task : op[p].pc \in PCs /\ (Free(p) <=> op[p] = Idle)
  /\ \A w \in Worker : /\ job[w].state \in {"unborn", "attached", "detached"}
                       /\ job[w].entry \in 0 .. Len(entries)

\* Nothing is under way but a compaction that has not touched anything yet.
Quiet == \A p \in Task : op[p].pc \in {"free", "asleep", "summarising"}

\* At rest, the checkpoint the next turn goes on from holds the conversation that the
\* ledger has at its leaf, whatever failed, crashed or was abandoned before.
ThreadMirrorsPath ==
  Quiet /\ ~ReseedPending => WithoutDangling(graph[thread]) = Context(entries, leaf)

\* At rest, everything said is in the ledger, on its own or in a summary.
NothingLost ==
  Quiet => 1 .. spoken \subseteq
             Covered([i \in DOMAIN entries |-> entries[i].msg])

\* At rest, what was said before a clear is not in the conversation after it.
ClearedStaysCleared ==
  LET ids == Path(entries, leaf)
      at == SelectLastInSeq(ids, LAMBDA i : entries[i].kind = "reset")
      before == Covered([k \in 1 .. at |-> entries[ids[k]].msg])
  IN  Quiet /\ at # 0 => (before \cap Covered(Context(entries, leaf))) \subseteq {0}

\* What the other tasks of the session rely on, without what the entries say: the tree
\* of the entries, and what each task would take back.
Tree(es) ==
  [i \in DOMAIN es |-> [of |-> {es[i].job} \ {"none"}, above |-> ToSet(es[i].path)]]

BatchOf(o) ==
  LET open == o.pc \in {"reading", "writing", "activating"} /\ o.kind # "turn"
  IN  [open |-> open,
       first |-> IF open THEN o.first ELSE 0,
       size |-> IF open /\ o.first # 0 THEN o.last - o.first + 1 ELSE 0,
       from |-> IF open THEN o.prior.leaf ELSE 0]

Batches(f) == [p \in Task |-> BatchOf(f[p])]
TreeSeen == Tree(entries)
BatchSeen == Batches(op)

Writers ==
  INSTANCE LedgerWriters
    WITH Writer <- Task, Batch <- MaxEntries, tree <- TreeSeen, batch <- BatchSeen

\* Seen from the tree alone, whatever turns, commands, captures, compactions, failures,
\* job entries and restarts do is a step of LedgerWriters, or leaves the tree alone.
WritersImplemented ==
  Writers!Init /\ [][UNCHANGED Writers!vars \/ Writers!Next]_vars

\* tests/test_tui.py:3350-3385: a clear or a compaction whose seeding fails restores
\* the position and the thread and deletes its own entry.
FailedResetRestores ==
  [][\A p \in Task :
       Seeding(p) /\ op[p].kind \in {"clear", "compact"} /\ op'[p] = Idle /\ crashes' = crashes
         => /\ leaf' = op[p].prior.leaf /\ thread' = op[p].prior.thread
            /\ current' = op[p].prior.current
            /\ Len(entries') < op[p].first]_vars
=============================================================================
