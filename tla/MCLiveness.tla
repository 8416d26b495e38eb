----------------------------- MODULE MCLiveness -----------------------------
(***************************************************************************)
(* What must go on for ever, or come to an end: worker runs, the prompt    *)
(* queue and an MCP connection, which share no state.  A behaviour is of   *)
(* one of them, chosen at its beginning, and the others rest in an initial *)
(* state, in which none of their fair actions is enabled.  Worker runs are *)
(* looked at in two scenarios; each only leaves out steps that nothing     *)
(* obliges anybody to take.                                                *)
(***************************************************************************)
EXTENDS AgentRuns, TurnQueue, McpConnections

VARIABLE part

liveVars == <<part, vars, queueVars, mcpVars>>

LiveInit ==
  /\ part \in {"single", "pair", "queue", "mcp"}
  /\ Init /\ QueueInit /\ McpInit
  /\ part # "mcp" => server = "up"

\* One run with everything that can happen to it.
Alone == \A r \in Run \ {CHOOSE x \in Run : TRUE} : status'[r] = None

\* A run and the run it spawns, to which nothing happens but what they do themselves: no text,
\* no revival, no abort but for the budget.
Undisturbed ==
  /\ \A r \in Run : abortReq'[r] \in {None, "budget"} /\ task'[r] <= 1 /\ attached'[r] = attached[r]
  /\ sent' = sent /\ shutdown' = shutdown

LiveNext ==
  /\ part' = part
  /\ \/ part = "single" /\ Next /\ Alone /\ UNCHANGED <<queueVars, mcpVars>>
     \/ part = "pair" /\ Next /\ Undisturbed /\ UNCHANGED <<queueVars, mcpVars>>
     \/ part = "queue" /\ QueueNext /\ UNCHANGED <<vars, mcpVars>>
     \/ part = "mcp" /\ McpNext /\ UNCHANGED <<vars, queueVars>>

LiveSpec == LiveInit /\ [][LiveNext]_liveVars /\ Fairness /\ QueueFairness /\ McpFairness
=============================================================================
