--------------------------- MODULE McpConnections ---------------------------
(***************************************************************************)
(* The manager of MCP servers, for one configured server                   *)
(* (extensibility/mcp.py 270-521, builtin/mcp.py 28-225): the loop that    *)
(* keeps a connection up, the calls of its tools, reload and close.        *)
(*                                                                         *)
(* Everything runs on one event loop; a step reaches from one await to the *)
(* next. Each load of the configuration makes a new Connection object,     *)
(* which a call that began on an older one still holds.                    *)
(***************************************************************************)
EXTENDS Naturals, FiniteSets

CONSTANTS
  ToolCall,     \* calls of the server's tool; each is made once
  MaxLoads,     \* bound: loads of the configuration
  MaxOutages    \* bound: how often the server goes away, and how often a connect fails by chance

ASSUME McpBounds == MaxLoads \in Nat /\ MaxOutages \in Nat

VARIABLES
  server,     \* the MCP server: "up" or "down"
  conn,       \* the Connection objects, by load
  inUse,      \* connections[name]: the load it came from, or 0
  manager,    \* "loading" (start), "open", "closing" (reload waits), "exiting", "closed"
  loads,      \* how many loads there were
  offered,    \* the load whose connection published the tools in the registry, or 0
  toolCall,   \* the calls: where each is, and on which connection
  outages, glitches

mcpVars == <<server, conn, inUse, manager, loads, offered, toolCall, outages, glitches>>

Load == 1 .. MaxLoads
Unused == [loop |-> "none", session |-> "none", ready |-> FALSE, reconnect |-> FALSE]

McpInit ==
  /\ server \in {"up", "down"}
  /\ conn = [n \in Load |-> Unused]
  /\ inUse = 0 /\ manager = "loading" /\ loads = 0 /\ offered = 0
  /\ toolCall = [c \in ToolCall |-> [pc |-> "none", on |-> 0]]
  /\ outages = 0 /\ glitches = 0

\* self.closed, which every loop looks at
ManagerClosed == manager \in {"closing", "exiting", "closed"}

\* The loops whose task is not over: each may have a transport, and a server process behind it.
Running == {n \in Load : conn[n].loop \notin {"none", "over"}}

-----------------------------------------------------------------------------
(* Loading, closing. *)

\* start: a server that is configured and enabled gets a connection. Its tools are published
\* at once when the cache has them, and its loop is started: connecting, reconnect cleared.
StartsLoop(cached) ==
  LET n == loads + 1
  IN  /\ manager = "loading" /\ loads < MaxLoads
      /\ conn' = [conn EXCEPT ![n].loop = "connecting"]
      /\ inUse' = n
      /\ offered' = IF cached THEN n ELSE offered
      /\ loads' = n /\ manager' = "open"
      /\ UNCHANGED <<server, toolCall, outages, glitches>>

\* start: the server is disabled, removed, or the configuration cannot be read.
StartsNothing ==
  /\ manager = "loading" /\ loads < MaxLoads
  /\ loads' = loads + 1 /\ manager' = "open"
  /\ UNCHANGED <<server, conn, inUse, offered, toolCall, outages, glitches>>

\* close, first half: the flag is set and every task is cancelled; a task that is
\* cancelled still has to leave its transport.
Shuts(to) ==
  /\ manager' = to
  /\ conn' = [n \in Load |-> IF n \in Running THEN [conn[n] EXCEPT !.loop = "leaving"] ELSE conn[n]]
  /\ UNCHANGED <<server, inUse, loads, offered, toolCall, outages, glitches>>

\* The command /mcp reload (or add, remove, enable, disable) waits for loaded, then closes.
ReloadBegins == manager = "open" /\ loads < MaxLoads /\ Shuts("closing")
AppExits ==
  /\ manager = "open" \/ (manager = "loading" /\ loads = 0)
  /\ Shuts("exiting")

\* bug: the cancelled tasks are not waited for
GathersNothing == TRUE

\* close, second half: gather
Gathered == Running = {}

\* reload goes on: the tools and connections are forgotten and start is called again.
Reloads ==
  /\ manager = "closing" /\ Gathered
  /\ manager' = "loading"
  /\ inUse' = 0 /\ offered' = 0
  /\ UNCHANGED <<server, conn, loads, toolCall, outages, glitches>>

Exits ==
  /\ manager = "exiting" /\ Gathered
  /\ manager' = "closed"
  /\ UNCHANGED <<server, conn, inUse, loads, offered, toolCall, outages, glitches>>

-----------------------------------------------------------------------------
(* The loop of a connection. *)

Loop(n, from, to) ==
  /\ conn[n].loop = from
  /\ conn' = [conn EXCEPT ![n] = to]
  /\ UNCHANGED <<server, inUse, manager, loads, toolCall, outages>>

\* The server answered and listed its tools: the session is there, reconnect is cleared (a
\* request made meanwhile with it) and the tools are published. Then the cache is written.
Connects(n) ==
  /\ server = "up"
  /\ Loop(n, "connecting", [loop |-> "saving", session |-> "live", ready |-> TRUE,
                            reconnect |-> FALSE])
  /\ offered' = n
  /\ UNCHANGED glitches

\* It did not answer, or not in time: no session, and a pause before the next attempt.
ConnectFails(n) ==
  /\ server = "down" \/ glitches < MaxOutages
  /\ glitches' = IF server = "down" THEN glitches ELSE glitches + 1
  /\ Loop(n, "connecting", [conn[n] EXCEPT !.loop = "pause", !.session = "none", !.ready = FALSE])
  /\ UNCHANGED offered

\* write_cache returns, in good or in bad order.
Saved(n) ==
  /\ Loop(n, "saving", [conn[n] EXCEPT !.loop = "up"])
  /\ UNCHANGED <<offered, glitches>>

\* bug: the loop waits for a request only
NeverPings(n) == FALSE

\* After 15 s without a request the server is sent a ping, which fails on a broken session.
PingFails(n) == conn[n].session = "broken"

\* The connection is given up, by request or because the ping failed; until its transport is
\* left the session is still the connection's and ready is set.
Drops(n) ==
  /\ conn[n].reconnect \/ PingFails(n)
  /\ Loop(n, "up", [conn[n] EXCEPT !.loop = "unwinding", !.session = "broken"])
  /\ UNCHANGED <<offered, glitches>>

Unwinds(n) ==
  /\ Loop(n, "unwinding", [conn[n] EXCEPT !.loop = "pause", !.session = "none", !.ready = FALSE])
  /\ UNCHANGED <<offered, glitches>>

\* After the delay, or at once when a request was made, the loop begins again.
Retries(n) ==
  /\ Loop(n, "pause", [conn[n] EXCEPT !.loop = "connecting", !.reconnect = FALSE])
  /\ UNCHANGED <<offered, glitches>>

\* A cancelled task leaves its transport and runs the finally.
Leaves(n) ==
  /\ Loop(n, "leaving", [conn[n] EXCEPT !.loop = "over", !.session = "none", !.ready = FALSE])
  /\ UNCHANGED <<offered, glitches>>

LoopStep(n) ==
  \/ Connects(n) \/ ConnectFails(n) \/ Saved(n) \/ Drops(n) \/ Unwinds(n) \/ Retries(n) \/ Leaves(n)

-----------------------------------------------------------------------------
(* The server. *)

GoesDown ==
  /\ server = "up" /\ outages < MaxOutages
  /\ server' = "down" /\ outages' = outages + 1
  /\ conn' = [n \in Load |-> IF conn[n].session = "live" THEN [conn[n] EXCEPT !.session = "broken"]
                                                         ELSE conn[n]]
  /\ UNCHANGED <<inUse, manager, loads, offered, toolCall, glitches>>

\* A server that comes back does not know the sessions it had.
ComesUp ==
  /\ server = "down" /\ server' = "up"
  /\ UNCHANGED <<conn, inUse, manager, loads, offered, toolCall, outages, glitches>>

-----------------------------------------------------------------------------
(* Calls of a tool. *)

Steps(c, from, to) ==
  /\ toolCall[c].pc = from /\ toolCall' = [toolCall EXCEPT ![c].pc = to]
  /\ UNCHANGED <<server, inUse, manager, loads, offered, outages, glitches>>

\* The call takes the connection of the moment; without one it says so and ends.
CallBegins(c) ==
  /\ toolCall[c].pc = "none"
  /\ toolCall' = [toolCall EXCEPT ![c] = IF inUse = 0 THEN [pc |-> "done", on |-> 0]
                                                        ELSE [pc |-> "waiting", on |-> inUse]]
  /\ UNCHANGED <<server, conn, inUse, manager, loads, offered, outages, glitches>>

\* ready is set: the call is woken, and looks at the session only when it runs.
CallWakes(c) ==
  /\ toolCall[c].pc = "waiting" /\ conn[toolCall[c].on].ready
  /\ Steps(c, "waiting", "woken") /\ UNCHANGED conn

\* It may find no session by then (an AttributeError): it fails, and asks for nothing.
CallRuns(c) ==
  /\ Steps(c, "woken", IF conn[toolCall[c].on].session = "none" THEN "done" ELSE "calling")
  /\ UNCHANGED conn

CallAnswered(c) ==
  /\ toolCall[c].pc = "calling" /\ conn[toolCall[c].on].session = "live"
  /\ Steps(c, "calling", "done") /\ UNCHANGED conn

\* The call times out, waiting or calling, or its session breaks: a reconnect is requested.
CallFails(c) ==
  /\ \E from \in {"waiting", "calling"} : Steps(c, from, "done")
  /\ conn' = [conn EXCEPT ![toolCall[c].on].reconnect = TRUE]

\* /mcp reconnect
ReconnectCommand ==
  /\ manager = "open" /\ inUse # 0 /\ ~conn[inUse].reconnect
  /\ conn' = [conn EXCEPT ![inUse].reconnect = TRUE]
  /\ UNCHANGED <<server, inUse, manager, loads, offered, toolCall, outages, glitches>>

McpNext ==
  \/ \E cached \in BOOLEAN : StartsLoop(cached)
  \/ StartsNothing \/ ReloadBegins \/ AppExits \/ Reloads \/ Exits
  \/ \E n \in Load : LoopStep(n)
  \/ GoesDown \/ ComesUp
  \/ \E c \in ToolCall :
       CallBegins(c) \/ CallWakes(c) \/ CallRuns(c) \/ CallAnswered(c) \/ CallFails(c)
  \/ ReconnectCommand

\* The event loop runs every task that can run. Nothing is assumed of the server, the calls
\* or the user.
McpFairness ==
  /\ \A n \in Load : WF_mcpVars(LoopStep(n))
  /\ WF_mcpVars(Reloads) /\ WF_mcpVars(Exits)

McpSpec == McpInit /\ [][McpNext]_mcpVars /\ McpFairness

-----------------------------------------------------------------------------
McpTypeOK ==
  /\ server \in {"up", "down"}
  /\ conn \in [Load -> [loop : {"none", "connecting", "saving", "up", "unwinding", "pause",
                                "leaving", "over"},
                        session : {"none", "live", "broken"}, ready : BOOLEAN,
                        reconnect : BOOLEAN]]
  /\ inUse \in 0 .. MaxLoads /\ loads \in 0 .. MaxLoads /\ offered \in 0 .. MaxLoads
  /\ manager \in {"loading", "open", "closing", "exiting", "closed"}
  /\ toolCall \in [ToolCall -> [pc : {"none", "waiting", "woken", "calling", "done"},
                                on : 0 .. MaxLoads]]
  /\ outages \in 0 .. MaxOutages /\ glitches \in 0 .. MaxOutages

\* A server never has two of our connections: a reload starts the new loop when the old one
\* has left its transport, and the tools on offer are those the connection in use published
\* (mcp.py 361-379, 500-521).
OneConnection ==
  /\ Cardinality(Running) <= 1
  /\ \A n \in Running : n = inUse
  /\ offered # 0 => offered = inUse

\* A server that is up in the end is connected again and again, whatever broke before and whether or
\* not anybody calls a tool: the ping notices a dead session, and every failure leads to
\* another attempt (mcp.py 380-471).
Reconnects ==
  <>[](server = "up" /\ manager = "open" /\ inUse # 0) =>
    []<>(inUse # 0 => conn[inUse].ready /\ conn[inUse].session = "live")
=============================================================================
