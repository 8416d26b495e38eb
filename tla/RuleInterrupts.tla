--------------------------- MODULE RuleInterrupts ---------------------------
(***************************************************************************)
(* Stream rules of one session (extensibility/stream_rules.py,             *)
(* extensibility/rules.py 177-330, builtin/rules.py 64-165,                *)
(* core/model_fallback.py): a rule whose condition the model's stream      *)
(* meets interrupts it and the model is asked again with a reminder, or    *)
(* the reminder waits for the end of the answer.                           *)
(*                                                                         *)
(* Conditions, scopes and the time allowed for matching are left out: any  *)
(* chunk may meet any rule.  The thread does not move within a turn.       *)
(***************************************************************************)
EXTENDS Integers, FiniteSets

CONSTANTS
  Rule,        \* the trusted rules
  RepeatGap,   \* the repeat policies of the instance: turns between two firings, or Once
  Once,
  MaxRuleTurns, MaxFailures, MaxForgets   \* bounds of the instance

ASSUME RuleAssumption == IsFiniteSet(Rule)

VARIABLES
  stage,      \* where the turn of the main agent is
  gap,        \* repeatMode and repeatGap
  attached,   \* the rules whose reminder is in the conversation, and rule_reminders
  pending,    \* RulesMiddleware.pending: reminders that wait for their delivery
  retry,      \* StreamRetry: the reminders the next attempt is given
  rejected,   \* ModelStreamMonitor.pending: a rule has interrupted the attempt
  inspected,  \* ModelStreamMonitor.inspected
  fired,      \* StreamRules.fired, of the rules in it; -1 for the others
  present,    \* StreamRules.current
  turnNo,     \* StreamRules.turn
  discovered, \* late discovery has replaced the session's StreamRules
  retries,    \* how often the turn's stream was broken off
  failures, forgets

ruleVars == <<stage, gap, attached, pending, retry, rejected, inspected, fired, present, turnNo,
              discovered, retries, failures, forgets>>

Unfired == [r \in Rule |-> -1]

RuleInit ==
  /\ stage = "idle" /\ gap \in RepeatGap
  /\ attached = {} /\ pending = {} /\ retry = {} /\ rejected = FALSE /\ inspected = FALSE
  /\ fired = Unfired /\ present = {} /\ turnNo = 0
  /\ discovered = FALSE /\ retries = 0 /\ failures = 0 /\ forgets = 0

-----------------------------------------------------------------------------
(* A turn. *)

\* bug: what has fired stays silent, whatever became of the conversation
FiredStay == fired

\* turn_start: of the rules that have fired those count whose reminder is still there; one that is
\* there and has not fired in this process counts from now.
StillReminded == [r \in Rule |-> IF r \notin attached THEN -1
                            ELSE IF fired[r] >= 0 THEN fired[r] ELSE turnNo]

RuleTurnStarts ==
  /\ stage = "idle" /\ turnNo < MaxRuleTurns
  /\ stage' = "before" /\ fired' = StillReminded /\ present' = {} /\ retries' = 0
  /\ UNCHANGED <<gap, attached, pending, retry, rejected, inspected, turnNo, discovered, failures,
                 forgets>>

\* abefore_model and the start of awrap_model_call: reminders left by a turn that was cut off
\* are delivered, and those of file rules that the tools' paths meet.
BeforeModel(byPath) ==
  /\ stage = "before"
  /\ attached' = attached \union pending \union byPath /\ pending' = {}
  /\ stage' = "model" /\ rejected' = FALSE /\ inspected' = FALSE
  /\ UNCHANGED <<gap, retry, fired, present, turnNo, discovered, retries, failures, forgets>>

\* StreamRules.inspect: the repeat policy, from the turn in which the rule fired last.
MayRepeat(r) ==
  \/ fired[r] < 0
  \/ gap # Once /\ turnNo - fired[r] >= gap

\* bug: the repeat policy alone decides
RepeatsInTurn(r) == MayRepeat(r)

\* StreamRules.inspect: once in a turn, and as its repeat policy says.
MayFire(r) == r \notin present /\ MayRepeat(r)

\* inspect: the rules that a message meets fire. All of their reminders go with the interrupt if
\* one of them interrupts, with those that wait; otherwise they wait.
Fires(met, interrupts) ==
  /\ met # {} /\ \A r \in met : MayFire(r)
  /\ fired' = [r \in Rule |-> IF r \in met THEN turnNo ELSE fired[r]]
  /\ present' = present \union met
  /\ IF interrupts THEN retry' = pending \union met /\ pending' = {}
                   ELSE pending' = pending \union met /\ UNCHANGED retry

\* RuleStreamCallback: a chunk of the stream
ChunkMeets(met, interrupts) ==
  /\ stage = "model" /\ ~rejected
  /\ Fires(met, interrupts)
  /\ rejected' = interrupts /\ inspected' = TRUE
  /\ UNCHANGED <<stage, gap, attached, turnNo, discovered, retries, failures, forgets>>

\* The provider fails and the fallback model is asked: a rule's interrupt is no such failure.
FallsBack ==
  /\ stage = "model" /\ ~rejected /\ failures < MaxFailures
  /\ failures' = failures + 1 /\ inspected' = FALSE
  /\ UNCHANGED <<stage, gap, attached, pending, retry, rejected, fired, present, turnNo, discovered,
                 retries, forgets>>

\* The model has answered. What was not inspected in chunks is now, before the answer counts.
ModelReturns(met, interrupts, calls) ==
  /\ stage = "model" /\ ~rejected
  /\ \/ met = {} /\ UNCHANGED <<fired, present, pending, retry>>
     \/ ~inspected /\ Fires(met, interrupts)
  /\ rejected' = (met # {} /\ interrupts)
  /\ stage' = IF rejected' THEN "model" ELSE IF calls THEN "tools" ELSE "answered"
  /\ UNCHANGED <<gap, attached, inspected, turnNo, discovered, retries, failures, forgets>>

\* intercepted_stream: the attempt has failed with the interrupt, nothing of it was committed, and
\* the graph goes on with the reminders.
AsksAgain ==
  /\ stage = "model" /\ rejected
  /\ attached' = attached \union retry /\ retry' = {}
  /\ stage' = "before" /\ retries' = retries + 1
  /\ UNCHANGED <<gap, pending, rejected, inspected, fired, present, turnNo, discovered, failures,
                 forgets>>

\* bug: what waited is dropped with the stream that has ended
DeliversNothing == attached

\* The stream ends, after the tools or with an answer: what waits is put in the conversation.
Delivers == attached \union pending

StreamSegmentEnds ==
  /\ stage \in {"tools", "answered"}
  /\ attached' = Delivers /\ pending' = {}
  /\ IF stage = "tools" THEN stage' = "before" /\ UNCHANGED turnNo
                        ELSE stage' = "idle" /\ turnNo' = turnNo + 1
  /\ UNCHANGED <<gap, retry, rejected, inspected, fired, present, discovered, retries, failures,
                 forgets>>

\* The turn is cancelled or fails, wherever it is, with the reminders it has in hand; what is being
\* delivered at the end of a stream may be lost.
TurnCutOff ==
  /\ stage # "idle"
  /\ stage' = "idle" /\ turnNo' = turnNo + 1 /\ retry' = {}
  /\ pending' \in {pending} \union (IF stage \in {"tools", "answered"} THEN {{}} ELSE {})
  /\ UNCHANGED <<gap, attached, rejected, inspected, fired, present, discovered, retries, failures,
                 forgets>>

-----------------------------------------------------------------------------
(* Between turns, and beside them. *)

\* /clear, a branch: the conversation loses reminders.
ConversationShrinks(keeps) ==
  /\ stage = "idle" /\ keeps # attached /\ forgets < MaxForgets
  /\ attached' = keeps /\ forgets' = forgets + 1
  /\ UNCHANGED <<stage, gap, pending, retry, rejected, inspected, fired, present, turnNo, discovered,
                 retries, failures>>

\* The program starts again with --resume.
RulesRestart ==
  /\ stage = "idle" /\ forgets < MaxForgets /\ forgets' = forgets + 1
  /\ pending' = {} /\ fired' = Unfired /\ present' = {} /\ turnNo' = 0 /\ discovered' = FALSE
  /\ retries' = 0
  /\ UNCHANGED <<stage, gap, attached, retry, rejected, inspected, failures>>

\* load: discovery ends late and drops the StreamRules of every session.
DiscoveryEnds ==
  /\ ~discovered /\ discovered' = TRUE
  /\ fired' = Unfired /\ present' = {} /\ turnNo' = 0
  /\ UNCHANGED <<stage, gap, attached, pending, retry, rejected, inspected, retries, failures,
                 forgets>>

RuleNext ==
  \/ RuleTurnStarts
  \/ \E met \in SUBSET Rule, interrupts, calls \in BOOLEAN :
       \/ ModelReturns(met, interrupts, calls)
       \/ ChunkMeets(met, interrupts)
       \/ BeforeModel(met) \/ ConversationShrinks(attached \ met)
  \/ FallsBack \/ AsksAgain \/ StreamSegmentEnds \/ TurnCutOff
  \/ RulesRestart \/ DiscoveryEnds

RuleSpec == RuleInit /\ [][RuleNext]_ruleVars

-----------------------------------------------------------------------------
RuleTypeOK ==
  /\ stage \in {"idle", "before", "model", "tools", "answered"}
  /\ attached \subseteq Rule /\ pending \subseteq Rule /\ retry \subseteq Rule /\ present \subseteq Rule
  /\ {rejected, inspected, discovered} \subseteq BOOLEAN
  /\ fired \in [Rule -> Int] /\ turnNo \in Nat /\ retries \in Nat

\* A rule keeps silent only where its reminder speaks: in a turn, what has fired and may not fire
\* again is in the conversation or on its way there, whichever way the turns before it ended and
\* whatever of the conversation was cleared or abandoned since (builtin/rules.py 108-130). And a
\* turn is broken off at most once for each rule, so that a model that cannot help itself is not
\* asked for ever (stream_rules.py 285-300); once more if discovery ends within the turn.
RulesSpeakOnce ==
  /\ stage # "idle" =>
       \A r \in Rule : fired[r] >= 0 /\ ~MayFire(r) => r \in attached \union pending \union retry
  /\ retries <= Cardinality(Rule) * (IF discovered THEN 2 ELSE 1)
=============================================================================
