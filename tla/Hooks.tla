------------------------------- MODULE Hooks -------------------------------
(***************************************************************************)
(* Declarative hooks: commands of the user or of a trusted project that    *)
(* run on events (extensibility/hooks.py, builtin/hooks.py).  The blocking *)
(* ones run one after the other before a tool call and may refuse it or    *)
(* rewrite its arguments; the others run beside everything and are waited  *)
(* for at the end of the program.  Compactions that a model call commits   *)
(* are events too, found by comparing the graph's state before and after.  *)
(***************************************************************************)
EXTENDS Integers, Sequences, FiniteSets, FiniteSetsExt, SequencesExt

CONSTANTS
  HookCall,      \* tool calls that a turn makes beside one another
  WriteCall,     \* those of tools that write files
  HookLists,     \* the lists of hooks looked at
  MaxMarks,      \* compactions in a behaviour
  MaxReruns      \* crashes while compactions are announced

\* A hook is of one event; it matches some calls always, and some once their arguments have been
\* rewritten (a regex looks at the whole payload).
HookShape == [event : {"before", "after", "end"}, always : SUBSET HookCall,
              onceRewritten : SUBSET HookCall, blocking : BOOLEAN]

ASSUME HooksAssumption ==
  /\ WriteCall \subseteq HookCall /\ {MaxMarks, MaxReruns} \subseteq Nat
  /\ \A list \in HookLists : list \in Seq(HookShape)

VARIABLES
  hookList,      \* cfg.hooks
  callStage,         \* per call: "new", "before", "tool", "after", "done" or "gone"
  at,            \* per call: the blocking hook that runs, while hooks run
  args,          \* per call: event.args, 0 as given or the hook that wrote them
  told,          \* per call: the args of the payload that hooks are sent
  refused,       \* per call: event.block_message is not empty
  ran,           \* per call: the args it was executed with, or NotRun
  verdicts,      \* per call: what the blocking hooks said, in time; for the properties
  background,       \* hooks in the background
  exitStage,       \* "no", the hook of AppExit that runs, "joining" or "left"
  awaited,       \* the background hooks that AppExit waits for
  marks,         \* compactions in the graph's state
  baseline,      \* those that were there before the model call
  node,          \* of the graph: "idle", "model", "after"
  announced,     \* per compaction, how often it was announced
  reruns

hookVars == <<hookList, callStage, at, args, told, refused, ran, verdicts, background, exitStage,
              awaited, marks, baseline, node, announced, reruns>>

NotRun == -1
HookIndex == DOMAIN hookList

-----------------------------------------------------------------------------
(* dispatch: hooks in the order of the list, those in the background       *)
(* started at once, up to the next one that is waited for.                 *)

HookMatches(i, event, c, payload) ==
  /\ hookList[i].event = event
  /\ c \in hookList[i].always \union (IF payload # 0 THEN hookList[i].onceRewritten ELSE {})

\* The next hook to be waited for, or the end of the list.
NextBlocking(event, c, payload, after) ==
  Min({i \in HookIndex : i > after /\ hookList[i].blocking /\ HookMatches(i, event, c, payload)}
        \union {Len(hookList) + 1})

\* The hooks that are started in the background on the way there.
Passed(event, c, payload, after) ==
  {[hook |-> i, call |-> c] : i \in
     {j \in HookIndex : /\ after < j /\ j < NextBlocking(event, c, payload, after)
                        /\ ~hookList[j].blocking /\ HookMatches(j, event, c, payload)}}

NoCalls == \A c \in HookCall : callStage[c] \in {"new", "done", "gone"}

Ended(i) == i = Len(hookList) + 1

\* A call c gets to the next hook of an event after the hook i, or past its hooks; then the
\* tool runs, or is done.
Dispatch(c, event, i, payload) ==
  LET next == NextBlocking(event, c, payload, i) IN
    /\ at' = [at EXCEPT ![c] = next]
    /\ background' = background \union Passed(event, c, payload, i)
    /\ callStage' = [callStage EXCEPT ![c] =
                   IF ~Ended(next) THEN event ELSE IF event = "before" THEN "tool" ELSE "done"]

-----------------------------------------------------------------------------
HookTypeOK ==
  /\ hookList \in HookLists
  /\ callStage \in [HookCall -> {"new", "before", "tool", "after", "done", "gone"}]
  /\ {args, told} \subseteq [HookCall -> HookIndex \union {0}]
  /\ refused \in [HookCall -> BOOLEAN]
  /\ ran \in [HookCall -> HookIndex \union {0, NotRun}]
  /\ awaited \subseteq background \union awaited /\ marks \subseteq 1 .. MaxMarks
  /\ baseline \subseteq marks /\ node \in {"idle", "model", "after"}

HookInit ==
  /\ hookList \in HookLists
  /\ callStage = [c \in HookCall |-> "new"] /\ at = [c \in HookCall |-> 0]
  /\ args = [c \in HookCall |-> 0] /\ told = args
  /\ refused = [c \in HookCall |-> FALSE] /\ ran = [c \in HookCall |-> NotRun]
  /\ verdicts = [c \in HookCall |-> <<>>]
  /\ background = {} /\ exitStage = "no" /\ awaited = {}
  /\ marks = {} /\ baseline = {} /\ node = "idle"
  /\ announced = [n \in 1 .. MaxMarks |-> 0] /\ reruns = 0

nodeVars == <<marks, baseline, node, announced, reruns>>

\* awrap_tool_call: ToolCallBefore is emitted.
BeginCall(c) ==
  /\ callStage[c] = "new" /\ node = "idle" /\ exitStage = "no"
  /\ Dispatch(c, "before", 0, told[c])
  /\ UNCHANGED <<hookList, args, told, refused, ran, verdicts, exitStage, awaited, nodeVars>>

\* What a blocking hook may come to: to pass (plain text, another exit code, a timeout, an
\* object that blocks with an empty message), to refuse (exit code 2, an object that blocks),
\* to rewrite, both, or an error, malformed output included.
Verdict == {"pass", "refuse", "rewrite", "both", "error"}
\* As it would be if an error were only reported.
RefusesByWord(v) == v \in {"refuse", "both"}
Refuses(v) == v \in {"refuse", "both", "error"}

\* The rewritten arguments are used for tools that write files only.
Rewrites(c, v) == v \in {"rewrite", "both"} /\ c \in WriteCall

\* As it would be if the payload kept the arguments of the start.
PayloadKept(c, i, v) == told[c]
PayloadAfter(c, i, v) == IF Rewrites(c, v) THEN i ELSE told[c]

\* execute: a blocking hook before a call has ended.  A refusal ends the list, and the call
\* has an error for its result.
FinishBefore(c, v) ==
  LET i == at[c]  payload == PayloadAfter(c, i, v) IN
    /\ callStage[c] = "before"
    /\ args' = [args EXCEPT ![c] = IF Rewrites(c, v) THEN i ELSE @]
    /\ told' = [told EXCEPT ![c] = payload]
    /\ refused' = [refused EXCEPT ![c] = Refuses(v)]
    /\ verdicts' = [verdicts EXCEPT ![c] = Append(@, [hook |-> i, saw |-> told[c], said |-> v])]
    /\ IF Refuses(v) THEN Dispatch(c, "after", 0, 0) ELSE Dispatch(c, "before", i, payload)
    /\ UNCHANGED <<hookList, ran, exitStage, awaited, nodeVars>>

\* The handler runs the tool, and ToolCallAfter is emitted.
RunTool(c) ==
  /\ callStage[c] = "tool"
  /\ ran' = [ran EXCEPT ![c] = IF c \in WriteCall THEN args[c] ELSE 0]
  /\ Dispatch(c, "after", 0, 0)
  /\ UNCHANGED <<hookList, args, told, refused, verdicts, exitStage, awaited, nodeVars>>

\* A blocking hook after a call can only warn.
FinishAfter(c) ==
  /\ callStage[c] = "after" /\ Dispatch(c, "after", at[c], 0)
  /\ UNCHANGED <<hookList, args, told, refused, ran, verdicts, exitStage, awaited, nodeVars>>

\* The turn is cancelled: hooks that were waited for are killed, and the calls end there.
CancelCalls ==
  /\ ~NoCalls
  /\ callStage' = [c \in HookCall |->
                    IF callStage[c] \in {"new", "done"} THEN callStage[c] ELSE "gone"]
  /\ UNCHANGED <<hookList, at, args, told, refused, ran, verdicts, background, exitStage, awaited,
                 nodeVars>>

\* A hook in the background ends, whatever it says.
FinishBackground ==
  /\ \E b \in background : background' = background \ {b}
  /\ UNCHANGED <<hookList, callStage, at, args, told, refused, ran, verdicts, exitStage, awaited,
                 nodeVars>>

-----------------------------------------------------------------------------
(* AppExit: hooks of the end of the session, then what runs beside.        *)

\* The hooks of the end are dispatched from hook i on; the last one leaves the join.
LeaveFrom(i) ==
  LET end(j) == hookList[j].event = "end"
      next == Min({j \in HookIndex : j > i /\ end(j) /\ hookList[j].blocking}
                    \union {Len(hookList) + 1})
      passed == {[hook |-> j, call |-> NotRun] : j \in
                   {k \in HookIndex : i < k /\ k < next /\ end(k) /\ ~hookList[k].blocking}}
  IN  /\ background' = background \union passed
      /\ exitStage' = IF Ended(next) THEN "joining" ELSE "ending"
      /\ at' = [c \in HookCall |-> next]
      /\ awaited' = IF Ended(next) THEN background' ELSE awaited

\* The turns have ended before.
BeginExit ==
  /\ exitStage = "no" /\ NoCalls /\ node = "idle" /\ LeaveFrom(0)
  /\ UNCHANGED <<hookList, callStage, args, told, refused, ran, verdicts, nodeVars>>

FinishEnd ==
  /\ exitStage = "ending" /\ LeaveFrom(at[CHOOSE c \in HookCall : TRUE])
  /\ UNCHANGED <<hookList, callStage, args, told, refused, ran, verdicts, nodeVars>>

Joined ==
  /\ exitStage = "joining" /\ awaited \intersect background = {} /\ exitStage' = "left"
  /\ UNCHANGED <<hookList, callStage, at, args, told, refused, ran, verdicts, background, awaited,
                 nodeVars>>

-----------------------------------------------------------------------------
(* HooksMiddleware around a model call, which tool calls follow.           *)

callVars == <<hookList, callStage, at, args, told, refused, ran, verdicts, background, exitStage,
              awaited>>

\* As it would be if only the first call of a thread noted what there is.
KeptBaseline == IF baseline = {} THEN marks ELSE baseline
\* abefore_model: before every call.
NewBaseline == marks

BeforeModelCall ==
  /\ node = "idle" /\ NoCalls /\ exitStage = "no"
  /\ node' = "model" /\ baseline' = NewBaseline
  /\ UNCHANGED <<callVars, marks, announced, reruns>>

\* The call may compact; what it found is committed with its answer, or not at all.
CallAnswers(compacts) ==
  /\ node = "model" /\ (compacts => Cardinality(marks) < MaxMarks)
  /\ marks' = IF compacts THEN marks \union {Cardinality(marks) + 1} ELSE marks
  /\ node' = "after"
  /\ UNCHANGED <<callVars, baseline, announced, reruns>>

CallBreaks ==
  /\ node = "model" /\ node' = "idle"
  /\ UNCHANGED <<callVars, marks, baseline, announced, reruns>>

\* aafter_model: the new ones are announced one by one, and the baseline is committed with it.
AfterModel(crashes) ==
  /\ node = "after" /\ (crashes => reruns < MaxReruns)
  /\ announced' = [n \in 1 .. MaxMarks |->
                     announced[n] + (IF n \in marks \ baseline THEN 1 ELSE 0)]
  /\ IF crashes THEN reruns' = reruns + 1 /\ UNCHANGED <<node, baseline>>
     ELSE node' = "idle" /\ baseline' = marks /\ reruns' = reruns
  /\ UNCHANGED <<callVars, marks>>

\* /compact between turns announces its own.
CompactByHand ==
  /\ node = "idle" /\ NoCalls /\ exitStage = "no" /\ Cardinality(marks) < MaxMarks
  /\ LET n == Cardinality(marks) + 1 IN
       marks' = marks \union {n} /\ announced' = [announced EXCEPT ![n] = 1]
  /\ UNCHANGED <<callVars, baseline, node, reruns>>

HookNext ==
  \/ \E c \in HookCall : BeginCall(c) \/ RunTool(c) \/ FinishAfter(c)
  \/ \E c \in HookCall, v \in Verdict : FinishBefore(c, v)
  \/ CancelCalls \/ FinishBackground \/ BeginExit \/ FinishEnd \/ Joined
  \/ BeforeModelCall \/ CallBreaks \/ CompactByHand
  \/ \E b \in BOOLEAN : CallAnswers(b) \/ AfterModel(b)

HookSpec == HookInit /\ [][HookNext]_hookVars

-----------------------------------------------------------------------------
(* Properties.                                                             *)

\* The arguments after the first n verdicts on a call.
ArgsAfter(c, n) ==
  LET writers == {k \in 1 .. n : Rewrites(c, verdicts[c][k].said)}
  IN  IF writers = {} THEN 0 ELSE verdicts[c][Max(writers)].hook

\* A tool that ran was asked of every blocking hook that matches it always, in their order, and
\* none refused it or failed; it ran with the last arguments that one wrote, and each hook was
\* sent those of the hooks before it (README.md:1176-1183).
ToolsObeyHooks ==
  \A c \in HookCall :
    LET said == verdicts[c]
        asked == {i \in HookIndex : /\ hookList[i].event = "before" /\ hookList[i].blocking
                                    /\ c \in hookList[i].always}
    IN  /\ \A k \in DOMAIN said : said[k].saw = ArgsAfter(c, k - 1)
        /\ \A k \in 1 .. Len(said) - 1 : said[k].hook < said[k + 1].hook
        /\ ran[c] # NotRun =>
             /\ ran[c] = ArgsAfter(c, Len(said))
             /\ asked \subseteq {said[k].hook : k \in DOMAIN said}
             /\ \A k \in DOMAIN said : said[k].said \notin {"refuse", "both", "error"}

\* No hook is left behind by the program.
HooksJoined == exitStage = "left" => background = {}

\* A compaction is announced by the end of the model call that committed it, and once unless
\* the program dies while it is announced (tests/test_compaction_hook_integration.py:22).
CompactionsAnnounced ==
  \A n \in 1 .. MaxMarks :
    /\ announced[n] <= 1 + reruns
    /\ n \in marks /\ node = "idle" => announced[n] >= 1

HooksSound == ToolsObeyHooks /\ HooksJoined /\ CompactionsAnnounced
=============================================================================
