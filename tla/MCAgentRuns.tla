---------------------------- MODULE MCAgentRuns ----------------------------
(***************************************************************************)
(* Two scenarios of AgentRuns in one instance: one run with everything     *)
(* that can happen to it, and a run with the run it spawns, with one       *)
(* permit.  Each only leaves out steps that nobody is obliged to take.     *)
(***************************************************************************)
EXTENDS AgentRuns, TLC

VARIABLE scenario

\* Texts are interchangeable.
AnyText == Permutations(Msg)

Alone == \A r \in Run \ {CHOOSE x \in Run : TRUE} : status'[r] = None

\* No text, no branch, no revival, no shutdown and no time limit; cancels do come.
Pair ==
  /\ sent' = sent /\ shutdown' = shutdown
  /\ \A r \in Run : /\ task'[r] <= 1 /\ attached'[r] = attached[r]
                    /\ abortReq'[r] # "timeout"

ScenarioInit == Init /\ scenario \in {"single", "tree"}

ScenarioNext ==
  /\ Next /\ scenario' = scenario
  /\ scenario = "single" => Alone
  /\ scenario = "tree" => Pair

ScenarioSpec == ScenarioInit /\ [][ScenarioNext]_<<vars, scenario>>
============================================================================
