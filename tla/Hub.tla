-------------------------------- MODULE Hub --------------------------------
(***************************************************************************)
(* The hub: mailboxes of agents, calls that wait for activity, and the     *)
(* delivery of results (agents.py 109-125, 790-944, 1398-1647,             *)
(* tools_agents.py 383-481, tui/runtime.py 1856-1869).                     *)
(*                                                                         *)
(* A call of the hub tool is a coroutine of the agent that makes it; an    *)
(* agent may have several, since the tools of one answer run side by side. *)
(* _notify never suspends: nobody holds the condition's lock across an     *)
(* await. So a change and its notification are one step.                   *)
(***************************************************************************)
EXTENDS Integers, FiniteSets, SequencesExt, FiniteSetsExt

CONSTANTS
  Peer,        \* the worker runs of the main agent
  User,        \* the main agent
  HubCall,     \* calls of the hub that may be in hand at once
  MailLimit,   \* _MESSAGE_QUEUE_LIMIT
  MaxPosts, MaxYields, MaxRestarts   \* bounds of the instance

ASSUME HubAssumption ==
  /\ IsFiniteSet(HubCall)
  /\ User \notin Peer /\ "system" \notin Peer \union {User}
  /\ MailLimit \in Nat /\ MailLimit >= 2

VARIABLES
  mail,       \* _mailboxes: a sequence of messages per agent
  waiters,    \* _activity_waiters
  call,       \* the hub calls in hand
  yields,     \* yield_count of each run
  ended,      \* the runs that are terminal
  delivered,  \* the runs with run.delivered
  recorded,   \* the runs with an agent_result entry in their own ledger
  jobEntry,   \* status of the last agent_job entry of each run in the parent's ledger
  claims,     \* how often deliver() has returned each run
  unannounced,\* the agents that lost a message and have not read a warning since
  posts, restarts

hubVars == <<mail, waiters, call, yields, ended, delivered, recorded, jobEntry, claims,
             unannounced, posts, restarts>>

HubAgent == Peer \union {User}
System == "system"
NoCall == [pc |-> "none", caller |-> User, op |-> "wait", peer |-> User, before |-> 0,
           woken |-> FALSE]

HubInit ==
  /\ mail = [a \in HubAgent |-> <<>>]
  /\ waiters = [a \in HubAgent |-> 0]
  /\ call = [c \in HubCall |-> NoCall]
  /\ yields = [p \in Peer |-> 0]
  /\ ended = {} /\ delivered = {} /\ recorded = {}
  /\ jobEntry = [p \in Peer |-> "live"]
  /\ claims = [p \in Peer |-> 0]
  /\ unannounced = {}
  /\ posts = 0 /\ restarts = 0

-----------------------------------------------------------------------------
(* Mailboxes. *)

IsWarning(m) == m = System

\* What is left of a mailbox when only the messages at these positions stay, in their order.
At(keep, k) == CHOOSE i \in keep : Cardinality({j \in keep : j < i}) = k - 1
Left(box, keep) == [k \in 1 .. Cardinality(keep) |-> box[At(keep, k)]]

NoWarnings(box) == Left(box, {i \in DOMAIN box : ~IsWarning(box[i])})
LastN(s, n) == SubSeq(s, 1 + Max({0, Len(s) - n}), Len(s))

\* bug: a mailbox that already holds a warning gets no new one
WarnOnce(box, m) ==
  IF Len(box) < MailLimit THEN Append(box, m)
  ELSE IF \E i \in DOMAIN box : IsWarning(box[i]) THEN Append(Tail(box), m)
       ELSE LastN(box, MailLimit - 2) \o <<System, m>>

\* _append_mailbox: a full mailbox loses its oldest messages and gets one warning.
\* A message is the agent it is from.
AppendMailbox(box, m) ==
  IF Len(box) < MailLimit THEN Append(box, m)
  ELSE LastN(NoWarnings(box), MailLimit - 2) \o <<System, m>>

-----------------------------------------------------------------------------
(* Waiting. *)

\* The condition a call waits for: ready() of wait_activity, complete() of wait_all.
Ready(cl, box, count, over, done) ==
  CASE cl.op = "wait" -> \/ box[cl.caller] # <<>>
                         \/ cl.caller = User /\ over \ done # {}
    [] cl.op = "send" -> \/ Contains(box[cl.caller], cl.peer)
                         \/ cl.peer # User /\ (count[cl.peer] > cl.before \/ cl.peer \in over)
    [] cl.op = "task" -> cl.peer \in over

Holds(c) == Ready(call[c], mail, yields, ended, delivered)

\* bug: only the callers that wait for a message are told
WakePosted(calls) ==
  [c \in HubCall |-> IF calls[c].pc = "waiting" /\ calls[c].op # "send"
                       THEN [calls[c] EXCEPT !.woken = TRUE] ELSE calls[c]]

\* _notify
Wake(calls) ==
  [c \in HubCall |-> IF calls[c].pc = "waiting" THEN [calls[c] EXCEPT !.woken = TRUE]
                                                ELSE calls[c]]

\* The calls an agent's _activity_waiters entry counts: reserve_activity_waiter, wait_activity.
Counted(cl) == cl.op \in {"wait", "send"} /\ cl.pc \in {"sending", "waiting"}

\* bug: a reservation is given back only where the wait itself ended
ReleaseWaits(cl) ==
  IF Counted(cl) /\ cl.pc = "waiting" THEN [waiters EXCEPT ![cl.caller] = @ - 1] ELSE waiters

\* release_activity_waiter, and the finally of wait_activity
Release(cl) ==
  IF Counted(cl) THEN [waiters EXCEPT ![cl.caller] = @ - 1] ELSE waiters

-----------------------------------------------------------------------------
(* Delivery. *)

\* deliver: the terminal runs among ids that nobody has claimed. The lock around it is never
\* contended, for there is no await in it.
Claimable(ids) == (ids \intersect ended) \ delivered

\* deliver marks what it claims, in the ledger and in memory, and only then tells.
Deliver(c, cl, ids, calls) ==
  LET got == Claimable(ids)
  IN  /\ delivered' = delivered \union got
      /\ jobEntry' = [p \in Peer |-> IF p \in got THEN "delivered" ELSE jobEntry[p]]
      /\ claims' = [p \in Peer |-> IF p \in got THEN claims[p] + 1 ELSE claims[p]]
      /\ call' = [calls EXCEPT ![c] = IF got = {} THEN NoCall
                                      ELSE [cl EXCEPT !.pc = "announcing"]]

\* drain_messages: all, or those of one sender
Drain(a) ==
  /\ mail' = [mail EXCEPT ![a] = <<>>]
  /\ unannounced' = unannounced \ {a}
DrainFrom(a, b) ==
  /\ mail' = [mail EXCEPT ![a] = Left(@, {i \in DOMAIN @ : @[i] # b})]
  /\ UNCHANGED unannounced

Jobs(a) == IF a = User THEN Peer ELSE {}

\* What a call does when its wait is over, for whatever reason.
Finish(c, cl) ==
  CASE cl.op = "wait" -> Drain(cl.caller) /\ Deliver(c, cl, Jobs(cl.caller), call)
    [] cl.op = "send" -> /\ DrainFrom(cl.caller, cl.peer)
                         /\ call' = [call EXCEPT ![c] = NoCall]
                         /\ UNCHANGED <<delivered, jobEntry, claims>>
    [] cl.op = "task" -> /\ Deliver(c, cl, {cl.peer}, call)
                         /\ UNCHANGED <<mail, unannounced>>

-----------------------------------------------------------------------------
(* The operations of hub_call, of the task tool, and of the runtime. *)

May(c, a) == call[c].pc = "none" /\ (a = User \/ a \notin ended)

\* op "send": with await, the reservation comes before the message.
Send(c, a, b, await) ==
  LET cl == [NoCall EXCEPT !.caller = a, !.op = "send", !.peer = b,
                           !.before = IF b = User THEN 0 ELSE yields[b]]
      counted == IF await THEN [waiters EXCEPT ![a] = @ + 1] ELSE waiters
      toMail == b = User \/ counted[b] > 0
  IN  /\ May(c, a) /\ posts < MaxPosts
      /\ posts' = posts + 1
      /\ \/ \* the recipient waits, or is the user's agent: its mailbox
            /\ toMail
            /\ mail' = [mail EXCEPT ![b] = AppendMailbox(@, a)]
            /\ unannounced' = IF Len(mail[b]) >= MailLimit THEN unannounced \union {b}
                                                            ELSE unannounced
            /\ waiters' = counted
            /\ call' = Wake(IF await THEN [call EXCEPT ![c] = [cl EXCEPT !.pc = "waiting"]]
                                     ELSE call)
         \/ \* it does not: a turn of its own (registry.send), which may await
            /\ ~toMail /\ b \notin ended
            /\ waiters' = counted
            /\ call' = Wake([call EXCEPT ![c] = [cl EXCEPT !.pc = IF await THEN "sending"
                                                                           ELSE "posting"]])
            /\ UNCHANGED <<mail, unannounced>>
         \/ \* registry.send refuses a run that is over
            /\ ~toMail /\ b \in ended
            /\ call' = Wake(call)
            /\ UNCHANGED <<mail, unannounced, waiters>>
      /\ UNCHANGED <<yields, ended, delivered, recorded, jobEntry, claims, restarts>>

\* registry.send has returned: the caller waits for the answer, if it asked for one.
Sent(c) ==
  /\ call[c].pc \in {"sending", "posting"}
  /\ call' = [call EXCEPT ![c] = IF @.pc = "posting" THEN NoCall
                                 ELSE [@ EXCEPT !.pc = "waiting", !.woken = Holds(c)]]
  /\ UNCHANGED <<mail, waiters, yields, ended, delivered, recorded, jobEntry, claims,
                 unannounced, posts, restarts>>

\* op "wait", and the task tool waiting for a blocking run
Waits(c, a, op, p) ==
  LET cl == [NoCall EXCEPT !.pc = "waiting", !.caller = a, !.op = op, !.peer = p]
  IN  /\ May(c, a)
      /\ op = "wait" => p = User
      /\ op = "task" => a = User /\ p # User
      /\ \/ /\ Ready(cl, mail, yields, ended, delivered)
            /\ Finish(c, cl)
            /\ UNCHANGED waiters
         \/ /\ ~Ready(cl, mail, yields, ended, delivered)
            /\ call' = [call EXCEPT ![c] = cl]
            /\ waiters' = IF Counted(cl) THEN [waiters EXCEPT ![a] = @ + 1] ELSE waiters
            /\ UNCHANGED <<mail, delivered, jobEntry, claims, unannounced>>
      /\ UNCHANGED <<yields, ended, recorded, posts, restarts>>

\* A notified waiter looks at its condition again.
Looks(c) ==
  /\ call[c].pc = "waiting" /\ call[c].woken
  /\ \/ /\ Holds(c)
        /\ Finish(c, call[c])
        /\ waiters' = Release(call[c])
     \/ /\ ~Holds(c)
        /\ call' = [call EXCEPT ![c].woken = FALSE]
        /\ UNCHANGED <<mail, waiters, delivered, jobEntry, claims, unannounced>>
  /\ UNCHANGED <<yields, ended, recorded, posts, restarts>>

\* The wait's own time limit: the call goes on as if it had been notified.
WaitTimesOut(c) ==
  /\ call[c].pc = "waiting"
  /\ Finish(c, call[c])
  /\ waiters' = Release(call[c])
  /\ UNCHANGED <<yields, ended, recorded, posts, restarts>>

\* The turn that makes the call is cancelled: only the finally blocks run.
CallCancelled(c) ==
  /\ call[c].pc # "none"
  /\ waiters' = Release(call[c])
  /\ call' = [call EXCEPT ![c] = NoCall]
  /\ UNCHANGED <<mail, yields, ended, delivered, recorded, jobEntry, claims, unannounced,
                 posts, restarts>>

\* op "inbox"
Inbox(a) ==
  /\ mail[a] # <<>> /\ Drain(a)
  /\ UNCHANGED <<waiters, call, yields, ended, delivered, recorded, jobEntry, claims, posts,
                 restarts>>

\* op "jobs", and _claim_agent_delivery of the runtime between two turns
ClaimsAll(c) ==
  /\ call[c].pc = "none" /\ ended \ delivered # {}
  /\ Deliver(c, NoCall, ended \ delivered, call)
  /\ UNCHANGED <<mail, waiters, yields, ended, recorded, unannounced, posts, restarts>>

\* AgentDelivered has been handled: deliver notifies and the claimed results are shown.
Announced(c) ==
  /\ call[c].pc = "announcing"
  /\ call' = Wake([call EXCEPT ![c] = NoCall])
  /\ UNCHANGED <<mail, waiters, yields, ended, delivered, recorded, jobEntry, claims,
                 unannounced, posts, restarts>>

-----------------------------------------------------------------------------
(* What runs do, and a restart of the program. *)

\* record_yield
RecordYield(p) ==
  /\ p \notin ended /\ yields[p] < MaxYields
  /\ yields' = [yields EXCEPT ![p] = @ + 1]
  /\ call' = Wake(call)
  /\ UNCHANGED <<mail, waiters, ended, delivered, recorded, jobEntry, claims, unannounced,
                 posts, restarts>>

\* _settle: the result in the child's ledger, the status, the job entry, the notification.
\* AgentRuns has what leads to it; here a run's calls are over before the run is.
RunEnds(p) ==
  /\ p \notin ended /\ \A c \in HubCall : call[c].pc # "none" => call[c].caller # p
  /\ recorded' = recorded \union {p}
  /\ ended' = ended \union {p}
  /\ jobEntry' = [jobEntry EXCEPT ![p] = "ended"]
  /\ call' = Wake(call)
  /\ UNCHANGED <<mail, waiters, yields, delivered, claims, unannounced, posts, restarts>>

\* bug: _hydrate_parent believes the job entry
HydrateJobs(results) ==
  /\ ended' = {p \in Peer : jobEntry[p] # "live"}
  /\ delivered' = {p \in Peer : jobEntry[p] = "delivered"}

\* _hydrate_parent: the result in the child's own ledger wins over the job entry.
Hydrate(results) ==
  /\ ended' = results \union {p \in Peer : jobEntry[p] # "live"}
  /\ delivered' = {p \in Peer : jobEntry[p] = "delivered"}

\* The program dies and starts again with --resume. Mailboxes and calls are in memory only.
\* The runs in half had written their result and not yet their job entry.
HubRestarts(half) ==
  /\ restarts < MaxRestarts /\ restarts' = restarts + 1
  /\ recorded' = recorded \union half
  /\ Hydrate(recorded')
  /\ mail' = [a \in HubAgent |-> <<>>]
  /\ waiters' = [a \in HubAgent |-> 0]
  /\ call' = [c \in HubCall |-> NoCall]
  /\ unannounced' = {}
  /\ UNCHANGED <<yields, jobEntry, claims, posts>>

HubNext ==
  \/ \E c \in HubCall :
       \/ \E a, b \in HubAgent, await \in BOOLEAN : Send(c, a, b, await)
       \/ \E a, p \in HubAgent, op \in {"wait", "task"} : Waits(c, a, op, p)
       \/ Sent(c) \/ Looks(c) \/ WaitTimesOut(c) \/ CallCancelled(c)
       \/ ClaimsAll(c) \/ Announced(c)
  \/ \E a \in HubAgent : Inbox(a)
  \/ \E p \in Peer : RecordYield(p) \/ RunEnds(p)
  \/ \E half \in SUBSET (Peer \ ended) : HubRestarts(half)

HubSpec == HubInit /\ [][HubNext]_hubVars

-----------------------------------------------------------------------------
(* Properties. *)

HubTypeOK ==
  /\ mail \in [HubAgent -> Seq(HubAgent \union {System})]
  /\ waiters \in [HubAgent -> Nat]
  /\ call \in [HubCall -> [pc : {"none", "sending", "posting", "waiting", "announcing"},
                           caller : HubAgent, op : {"wait", "send", "task"},
                           peer : HubAgent, before : Nat, woken : BOOLEAN]]
  /\ yields \in [Peer -> Nat]
  /\ ended \subseteq Peer /\ delivered \subseteq Peer /\ recorded \subseteq Peer
  /\ jobEntry \in [Peer -> {"live", "ended", "delivered"}]
  /\ claims \in [Peer -> Nat]
  /\ unannounced \subseteq HubAgent

\* A mailbox stays within its limit, and an agent that lost messages to the limit finds
\* exactly one warning in it until it has read that (agents.py 109-125).
DropsAnnounced ==
  \A a \in HubAgent :
    LET warnings == {i \in DOMAIN mail[a] : IsWarning(mail[a][i])}
    IN  /\ Len(mail[a]) <= MailLimit
        /\ Cardinality(warnings) = IF a \in unannounced THEN 1 ELSE 0

\* Nobody sleeps over what it waits for: a call whose condition holds has been notified since
\* it went to sleep. Messages, yields, ends of runs and deliveries all notify; the condition is
\* looked at by notified waiters only (agents.py 1046, 1552-1561, 1602-1639). And a message goes
\* to the mailbox alone only if a call of the recipient will look there: the count of waiters is
\* that of the calls that wait or are about to, on every way out of a call, with an answer, a
\* time limit, an error or a cancel (agents.py 1409, 1571-1587, 1629-1647).
WaitersServed ==
  /\ \A c \in HubCall : call[c].pc = "waiting" /\ Holds(c) => call[c].woken
  /\ \A a \in HubAgent :
       waiters[a] = Cardinality({c \in HubCall : call[c].caller = a /\ Counted(call[c])})

\* The result of a run is claimed at most once, by whichever of hub call, task tool and
\* notification comes first, and over restarts; and as long as it has not been claimed it can
\* be, also when the program died between the two entries that record it
\* (agents.py 877-900, 1497-1540).
EachResultOnce ==
  \A p \in Peer :
    /\ claims[p] <= 1
    /\ p \in recorded => (claims[p] = 0 <=> p \in Claimable(Peer))

\* What hub calls, mailboxes and results owe their users, together: no loss to the limit without
\* a word, nobody asleep over what it waits for, and every result once (agents.py 1398-1657).
HubSound == DropsAnnounced /\ WaitersServed /\ EachResultOnce
=============================================================================
