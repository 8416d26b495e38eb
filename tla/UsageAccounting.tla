-------------------------- MODULE UsageAccounting --------------------------
(***************************************************************************)
(* What the model requests of a program cost, and what its status line     *)
(* says of that (core/usage_store.py, builtin/usage.py).  A request is     *)
(* reported by the callback of the graph it is made in and by those it     *)
(* inherits, each of which writes its row in a thread of its own and then  *)
(* tells the plugin, which reads what the session cost in a thread and     *)
(* keeps what that answers.  Usage is a number of tokens, a price is one.  *)
(***************************************************************************)
EXTENDS Integers, FiniteSets, FiniteSetsExt

CONSTANTS
  MaxRequested,  \* bound: model requests, numbered as they are made
  MaxReporters,  \* bound: usage callbacks of a request, its graph's and those of the graphs around
  MaxReports,    \* bound: reports of all requests together
  UseSession,    \* bound: the sessions, numbered as they were made
  MaxUsed,       \* bound: tokens that a request reports
  MaxOccasions,  \* bound: events other than a recorded row upon which totals are read
  MaxLooks       \* bound: moves of the user to another session

ASSUME UseSessionAssumption == UseSession \subseteq Nat \ {0} /\ 1 \in UseSession

Unread == -1
NoParent == 0
NotAsked == [pc |-> "none", of |-> 0, read |-> Unread]

VARIABLES
  parentOf,      \* parent_session of a session, for a worker's and a fork's, or NoParent
  looking,       \* context.session_id
  cameFrom,      \* the session that a resume under way would go back to, or NoParent
  strayed,       \* a resume has gone back since the totals were last asked for
  request,       \* each request: its state, the session of its thread, the tokens it reported
  report,        \* what each callback has done with each request
  usageRow,      \* usage_requests: the row of a request, or {}
  refresh,       \* each refresh of the totals
  totals,        \* api.state: session_cost, and the session it was asked for
  overlapped,    \* the refresh that began last was not alone
  looks

userVars == <<looking, cameFrom, strayed>>
usageVars ==
  <<parentOf, userVars, request, report, usageRow, refresh, totals, overlapped, looks>>

Requested == 1 .. MaxRequested
Reporter == 1 .. MaxReporters
Occasions == (-MaxOccasions .. -1) \X {0}
Refresher == (Requested \X Reporter) \union Occasions
UnderWay(f) == refresh[f].pc = "reading"

\* report's family: the session, and those below it, workers and forks alike.
Family(s) ==
  {x \in UseSession : \A S \in SUBSET UseSession :
     s \in S /\ (\A y \in UseSession : parentOf[y] \in S => y \in S) => x \in S}

Spent(rows) == MapThenSumSet(LAMBDA r : r.used, rows)
Total(spent) == MapThenSumSet(LAMBDA q : spent[q], DOMAIN spent)
AllTotal == Total([q \in Requested |-> Spent(usageRow[q])])

\* bug: a session's total is of its own rows
OwnTotal(s) == Total([q \in Requested |-> Spent({r \in usageRow[q] : r.session = s})])

\* UsageStore.report
SessionTotal(s) ==
  Total([q \in Requested |-> Spent({r \in usageRow[q] : r.session \in Family(s)})])

UsageInit ==
  /\ parentOf \in [UseSession -> UseSession \union {NoParent}]
  /\ \A s \in UseSession : parentOf[s] < s
  /\ looking = 1 /\ cameFrom = NoParent /\ strayed = FALSE
  /\ request = [q \in Requested |-> [pc |-> "none", session |-> 0, used |-> 0, counts |-> TRUE]]
  /\ report = [q \in Requested |-> [k \in Reporter |-> "none"]]
  /\ usageRow = [q \in Requested |-> {}]
  /\ refresh = [f \in Refresher |-> NotAsked]
  /\ totals = [session |-> 0, of |-> 1] /\ overlapped = FALSE /\ looks = 0
-----------------------------------------------------------------------------
\* bus.emit: the plugin's handler takes the session of the moment and starts both reads.
Refreshes(f, of) ==
  /\ refresh' = [refresh EXCEPT ![f] = [NotAsked EXCEPT !.pc = "reading", !.of = of]]
  /\ overlapped' = \E g \in Refresher : UnderWay(g)
  /\ strayed' = FALSE

\* on_chat_model_start, of every callback there is: the request of a thread of that session.
RequestStarts(q, s, n) ==
  /\ request[q].pc = "none" /\ \A r \in 1 .. q - 1 : request[r].pc # "none"
  /\ Cardinality({c \in Requested \X Reporter : report[c[1]][c[2]] # "none"}) + n <= MaxReports
  /\ request' = [request EXCEPT ![q].pc = "streaming", ![q].session = s]
  /\ report' = [r \in Requested |-> [k \in Reporter |->
                  IF r = q /\ k <= n THEN "pending" ELSE report[r][k]]]
  /\ UNCHANGED <<parentOf, userVars, usageRow, refresh, totals, overlapped, looks>>

\* on_llm_end, or on_llm_error: the answer is there, a rule breaks it off (StreamInterrupt), or the
\* request fails, and what it had reported is not known any more.  Every callback pops its pending
\* entry, adds up what the chunks reported and has a thread write the row.
RequestEnds(q, used, counts) ==
  /\ request[q].pc = "streaming"
  /\ request' = [request EXCEPT ![q].pc = "over", ![q].used = used, ![q].counts = counts]
  /\ report' = [r \in Requested |-> [k \in Reporter |->
                  IF r = q /\ report[r][k] = "pending" THEN "writing" ELSE report[r][k]]]
  /\ UNCHANGED <<parentOf, userVars, usageRow, refresh, totals, overlapped, looks>>

RowOf(q) ==
  [session |-> request[q].session, used |-> IF request[q].counts THEN request[q].used ELSE 0]

\* bug: every callback's row is stored, in the session of the moment
AddRow(q) ==
  usageRow' = [usageRow EXCEPT ![q] = @ \union {[RowOf(q) EXCEPT !.session = looking]}]

\* record: INSERT OR IGNORE, with the session of the request's thread.
Record(q) == usageRow' = [usageRow EXCEPT ![q] = IF @ = {} THEN {RowOf(q)} ELSE @]

WritesRow(q, k) ==
  /\ report[q][k] = "writing" /\ Record(q)
  /\ report' = [report EXCEPT ![q][k] = "written"]
  /\ UNCHANGED <<parentOf, userVars, request, refresh, totals, overlapped, looks>>

\* UsageRecorded is emitted when the loop takes the callback up again.
Tells(q, k) ==
  /\ report[q][k] = "written" /\ report' = [report EXCEPT ![q][k] = "told"]
  /\ Refreshes(<<q, k>>, looking)
  /\ UNCHANGED <<parentOf, looking, cameFrom, request, usageRow, totals, looks>>

\* A turn begins or ends, or a thread is switched.
Occurs(f) ==
  /\ refresh[f].pc = "none" /\ Refreshes(f, looking)
  /\ UNCHANGED <<parentOf, looking, cameFrom, request, report, usageRow, totals, looks>>

\* The user resumes another session, which is the context's at once; then SessionSwitch is
\* announced, or the resume fails and nothing is.
MovesTo(s) ==
  /\ s \in UseSession \ {looking} /\ cameFrom = NoParent /\ looks < MaxLooks /\ looks' = looks + 1
  /\ looking' = s /\ cameFrom' = looking
  /\ UNCHANGED <<parentOf, strayed, request, report, usageRow, refresh, totals, overlapped>>

Arrives(f) ==
  /\ cameFrom # NoParent /\ cameFrom' = NoParent
  /\ refresh[f].pc = "none" /\ Refreshes(f, looking)
  /\ UNCHANGED <<parentOf, looking, request, report, usageRow, totals, looks>>

GoesBack ==
  /\ cameFrom # NoParent /\ cameFrom' = NoParent /\ looking' = cameFrom /\ strayed' = TRUE
  /\ UNCHANGED <<parentOf, request, report, usageRow, refresh, totals, overlapped, looks>>

\* report, in a thread; what the day cost is read beside it in the same way, of every session.
ReadsSession(f) ==
  /\ UnderWay(f) /\ refresh[f].read = Unread
  /\ refresh' = [refresh EXCEPT ![f].read = SessionTotal(refresh[f].of)]
  /\ UNCHANGED <<parentOf, userVars, request, report, usageRow, totals, overlapped, looks>>

\* gather has its answers: the total is kept, whatever other refreshes have kept meanwhile.
Keeps(f) ==
  /\ UnderWay(f) /\ refresh[f].read # Unread
  /\ totals' = [session |-> refresh[f].read, of |-> refresh[f].of]
  /\ refresh' = [refresh EXCEPT ![f] = [NotAsked EXCEPT !.pc = "kept"]]
  /\ UNCHANGED <<parentOf, userVars, request, report, usageRow, overlapped, looks>>

UsageNext ==
  \/ \E q \in Requested :
       \/ \E s \in UseSession, n \in Reporter : RequestStarts(q, s, n)
       \/ \E used \in 1 .. MaxUsed, counts \in BOOLEAN : RequestEnds(q, used, counts)
       \/ \E k \in Reporter : WritesRow(q, k) \/ Tells(q, k)
  \/ \E f \in Refresher : ReadsSession(f) \/ Keeps(f)
  \/ \E f \in Occasions : Occurs(f) \/ Arrives(f)
  \/ GoesBack \/ \E s \in UseSession : MovesTo(s)

UsageSpec == UsageInit /\ [][UsageNext]_usageVars
-----------------------------------------------------------------------------
UsageTypeOK ==
  /\ parentOf \in [UseSession -> UseSession \union {NoParent}]
  /\ looking \in UseSession /\ cameFrom \in UseSession \union {NoParent} /\ strayed \in BOOLEAN
  /\ request \in [Requested -> [pc : {"none", "streaming", "over"}, counts : BOOLEAN,
                              session : UseSession \union {0}, used : 0 .. MaxUsed]]
  /\ report \in [Requested -> [Reporter -> {"none", "pending", "writing", "written", "told"}]]
  /\ \A q \in Requested : usageRow[q] \subseteq [session : UseSession, used : 0 .. MaxUsed]
  /\ refresh \in [Refresher -> [pc : {"none", "reading", "kept"}, of : UseSession \union {0},
                                read : Int]]
  /\ totals \in [session : Nat, of : UseSession]
  /\ overlapped \in BOOLEAN /\ looks \in 0 .. MaxLooks

\* A request has one row, with all it reported, of the session in which it was made, wherever the
\* user is by then and however many callbacks report it (usage_store.py 220-276).
RowsAreOwn ==
  \A q \in Requested :
    (\E k \in Reporter : report[q][k] \in {"written", "told"}) =>
      \E r \in usageRow[q] :
        usageRow[q] = {r} /\ r.session = request[q].session
          /\ (request[q].counts => r.used = request[q].used)

\* So it counts once: the families of the sessions that are below no other share out what was
\* spent (usage_store.py 67-96).
CountedOnce ==
  /\ RowsAreOwn
  /\ AllTotal = MapThenSumSet(SessionTotal, {s \in UseSession : parentOf[s] = NoParent})

\* Once every row is told of, a refresh that ran alone has left the totals of the store, and,
\* unless a resume has gone back since, those of the session the user is in
\* (builtin/usage.py 18-29).
LoneRefreshCatchesUp ==
  (\A q \in Requested, k \in Reporter : report[q][k] # "written")
    /\ (\A f \in Refresher : ~ UnderWay(f)) /\ ~ overlapped =>
  /\ totals.session = SessionTotal(totals.of)
  /\ cameFrom = NoParent /\ ~ strayed => totals.of = looking

UsageSound == CountedOnce /\ LoneRefreshCatchesUp
=============================================================================
