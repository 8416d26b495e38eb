----------------------------- MODULE MCServices -----------------------------
(***************************************************************************)
(* The components that share no state with one another, in one instance:   *)
(* a behaviour begins by choosing the component it is of, and is then one  *)
(* of that component's specification, while the others rest in an initial  *)
(* state.  So the states are the sum of theirs, not the product.           *)
(***************************************************************************)
EXTENDS Hub, TurnQueue, Compaction, ShellSession, McpConnections, MemoryDocs, FileEdits,
        TokenSource, AdvisorLooks, RuleInterrupts, SessionSwitches, Plugins, Reviews, Settings,
        Hooks, Stores, Logins, FilePages, UsageAccounting

CONSTANT Part   \* the components that are looked at

VARIABLE part

\* Two processes, one of them with two threads that need a token.
ThreeThreads == {<<"p1", "t1">>, <<"p1", "t2">>, <<"p2", "t1">>}

\* What discovery may find: three plugins with requirements of each other, some of which do
\* not load; and two candidates, perhaps of one name, whose register makes up to two calls.
FoundPlugin(name, requires, fate, most) ==
  [name |-> name, requires |-> requires, fate |-> fate, calls |-> most]
CandidateLists ==
  {<<FoundPlugin("a", r1, f1, 0), FoundPlugin("b", r2, f2, 0),
     FoundPlugin("c", r3, "sound", 0)>> :
     r1 \in SUBSET {"b", "c"}, r2 \in SUBSET {"a", "c"}, r3 \in SUBSET {"a", "b"},
     f1, f2 \in {"sound", "broken", "disabled"}}
  \union {<<FoundPlugin("a", {}, f, 1), FoundPlugin(n, {}, "sound", 2)>> :
            f \in {"sound", "broken"}, n \in {"a", "b"}}

\* Diffs of up to four hunks in two directories, and smaller limits for the number of
\* reviewers.
SmallDiffs ==
  {{[top |-> t[i], changed |-> c[i], place |-> i] : i \in 1 .. n} :
     n \in 1 .. 4, t \in [1 .. 4 -> {1, 2}], c \in [1 .. 4 -> 0 .. 2]}
SmallLimits == <<1, 3, 5>>

\* A directory, one below it and one elsewhere, the files and the command lines with which the
\* layers contradict one another, and a role that is configured by way of another.
AtTop == <<"d1">>
Below == <<"d1", "sub">>
Elsewhere == <<"d3">>
SmallTree == {AtTop, Below, Elsewhere}
NoRole == [r \in Role |-> Unsaid]
SmallUsers ==
  {[model |-> Unsaid, cwd |-> Unsaid, trusts |-> {AtTop}, roles |-> NoRole],
   [model |-> <<"@slow", "u">>, cwd |-> Unsaid, trusts |-> {Elsewhere},
    roles |-> [NoRole EXCEPT !["@smol"] = <<"@slow">>]]}
SmallProjects ==
  {[d \in Dir |-> IF d = Below THEN p ELSE NoProject] : p \in
     [model : {<<"p">>}, cwd : {Unsaid, Elsewhere},
      roles : {NoRole, [NoRole EXCEPT !["@slow"] = <<"@smol", "p">>]}]}
SmallEnvirons ==
  {[model |-> m, cwd |-> c] : m \in {Unsaid, <<"p">>}, c \in {Unsaid, Below}}
PlainArgv == [model |-> Unsaid, role |-> Unsaid, cwd |-> Unsaid, trustAll |-> FALSE]
SmallArgvs ==
  {PlainArgv, [PlainArgv EXCEPT !.cwd = Elsewhere],
   [PlainArgv EXCEPT !.cwd = Below, !.trustAll = TRUE],
   [PlainArgv EXCEPT !.role = <<"@smol">>], [PlainArgv EXCEPT !.model = <<"u">>],
   [PlainArgv EXCEPT !.role = <<"@smol">>, !.model = <<"u">>]}
SmallOutages ==
  {[m \in ModelName |-> IF m = "u" THEN a ELSE "ready"] : a \in {"ready", "unknown"}}
StartDir == AtTop

\* Lists of hooks: two that are waited for before a write, one once it was rewritten, others
\* after it, beside it and at the end.
HookOf(e, b, a, o) ==
  [event |-> e, blocking |-> b, always |-> a, onceRewritten |-> o]
SmallHooks ==
  {<<HookOf("before", TRUE, {"w"}, {}), h, HookOf("end", FALSE, {}, {})>> :
     h \in {HookOf("before", TRUE, {"w"}, {}), HookOf("after", TRUE, {"w"}, {})}}
  \union
  {<<HookOf("before", FALSE, {"x"}, {}), HookOf("before", TRUE, {"w"}, {}),
     HookOf("before", TRUE, {}, {"w"}), HookOf("end", TRUE, {}, {})>>}

\* The sessions an old database may hold.
SmallOldStates == {Broken, NeverUsed, Lasting(0), Lasting(2)}

\* Lines that are empty, of narrow and of wide characters.
SmallLines == {<<0, 1>>, <<1, 1>>, <<4, 2>>}

\* The settings of a store without a replica.
LocalStore == [backend |-> "sqlite", url |-> TRUE, token |-> TRUE, first |-> FALSE,
               last |-> FALSE, memories |-> FALSE]

\* A login that may take any way, and another in a browser.
TheModes == [l \in LoginIds |->
  IF l = "one" THEN {"auto", "paste"} ELSE {"browser"}]

vars == <<part, hubVars, queueVars, compactVars, shellVars, mcpVars, memoryVars, fileVars,
          tokenVars, advisorVars, ruleVars, switchVars, pluginVars, reviewVars, settingVars,
         hookVars, openingVars, replicaVars, loginVars, pageVars, usageVars>>

\* The components that do not take part are in one initial state.
Resting ==
  /\ IF part = "mcp" THEN TRUE ELSE server = "up"
  /\ IF part = "rules" THEN TRUE ELSE gap = Once
  /\ IF part = "files" THEN TRUE ELSE disk = [i \in 1 .. MaxLen |-> CHOOSE l \in Line : TRUE]
  /\ IF part = "review" THEN TRUE ELSE hunks = CHOOSE d \in SmallDiffs : TRUE
  /\ IF part = "plugins" THEN TRUE ELSE unplaced = CHOOSE s \in CandidateLists : TRUE
  /\ IF part = "settings" THEN TRUE
     ELSE /\ user = CHOOSE u \in SmallUsers : TRUE
          /\ project = CHOOSE p \in SmallProjects : TRUE
          /\ environ = CHOOSE e \in SmallEnvirons : TRUE
          /\ known = CHOOSE o \in SmallOutages : TRUE
  /\ IF part = "hooks" THEN TRUE ELSE hookList = CHOOSE l \in SmallHooks : TRUE
  /\ IF part = "opening" THEN TRUE ELSE file = "none"
  /\ IF part = "replica" THEN TRUE ELSE settings = LocalStore /\ remote = {}
  /\ IF part = "pages" THEN TRUE ELSE text = NoText
  /\ IF part = "usage" THEN TRUE ELSE parentOf = [x \in UseSession |-> NoParent]
  /\ IF part = "logins" THEN TRUE ELSE mode = [l \in LoginIds |-> CHOOSE m \in ModesOf[l] : TRUE]

Init ==
  /\ part \in Part /\ Resting
  /\ HubInit /\ QueueInit /\ CompactInit /\ ShellInit /\ McpInit /\ MemoryInit /\ FileInit
  /\ TokenInit /\ AdvisorInit /\ RuleInit /\ SwitchInit /\ PluginInit
  /\ ReviewInit /\ SettingInit /\ HookInit /\ OpeningInit /\ ReplicaInit /\ LoginsInit
  /\ PagesInit /\ UsageInit

OthersRest ==
  /\ part' = part
  /\ part # "hub" => UNCHANGED hubVars
  /\ part # "queue" => UNCHANGED queueVars
  /\ part # "compaction" => UNCHANGED compactVars
  /\ part # "shell" => UNCHANGED shellVars
  /\ part # "mcp" => UNCHANGED mcpVars
  /\ part # "memory" => UNCHANGED memoryVars
  /\ part # "files" => UNCHANGED fileVars
  /\ part # "tokens" => UNCHANGED tokenVars
  /\ part # "advisor" => UNCHANGED advisorVars
  /\ part # "rules" => UNCHANGED ruleVars
  /\ part # "switches" => UNCHANGED switchVars
  /\ part # "plugins" => UNCHANGED pluginVars
  /\ part # "review" => UNCHANGED reviewVars
  /\ part # "settings" => UNCHANGED settingVars
  /\ part # "hooks" => UNCHANGED hookVars
  /\ part # "opening" => UNCHANGED openingVars
  /\ part # "replica" => UNCHANGED replicaVars
  /\ part # "logins" => UNCHANGED loginVars
  /\ part # "pages" => UNCHANGED pageVars
  /\ part # "usage" => UNCHANGED usageVars

Next ==
  \/ part = "hub" /\ HubNext /\ OthersRest
  \/ part = "queue" /\ QueueNext /\ OthersRest
  \/ part = "compaction" /\ CompactNext /\ OthersRest
  \/ part = "shell" /\ ShellNext /\ OthersRest
  \/ part = "mcp" /\ McpNext /\ OthersRest
  \/ part = "memory" /\ MemoryNext /\ OthersRest
  \/ part = "files" /\ FileNext /\ OthersRest
  \/ part = "tokens" /\ TokenNext /\ OthersRest
  \/ part = "advisor" /\ AdvisorNext /\ OthersRest
  \/ part = "rules" /\ RuleNext /\ OthersRest
  \/ part = "switches" /\ SwitchNext /\ OthersRest
  \/ part = "plugins" /\ PluginNext /\ OthersRest
  \/ part = "review" /\ ReviewNext /\ OthersRest
  \/ part = "settings" /\ SettingNext /\ OthersRest
  \/ part = "hooks" /\ HookNext /\ OthersRest
  \/ part = "opening" /\ OpeningNext /\ OthersRest
  \/ part = "replica" /\ ReplicaNext /\ OthersRest
  \/ part = "logins" /\ LoginsNext /\ OthersRest
  \/ part = "pages" /\ PagesNext /\ OthersRest
  \/ part = "usage" /\ UsageNext /\ OthersRest

Spec == Init /\ [][Next]_vars

TypeOK ==
  CASE part = "hub" -> HubTypeOK [] part = "queue" -> QueueTypeOK
    [] part = "compaction" -> CompactTypeOK [] part = "shell" -> ShellTypeOK
    [] part = "mcp" -> McpTypeOK [] part = "memory" -> MemoryTypeOK
    [] part = "files" -> FileTypeOK [] part = "tokens" -> TokenTypeOK
    [] part = "advisor" -> AdvisorTypeOK [] part = "rules" -> RuleTypeOK
    [] part = "switches" -> SwitchTypeOK
    [] part = "plugins" -> PluginTypeOK [] part = "review" -> ReviewTypeOK
    [] part = "settings" -> SettingTypeOK [] part = "hooks" -> HookTypeOK
    [] part = "opening" -> OpeningTypeOK [] part = "replica" -> ReplicaTypeOK
    [] part = "logins" -> LoginsTypeOK [] part = "pages" -> PagesTypeOK
    [] part = "usage" -> UsageTypeOK

\* An edit changes what its author has seen and nothing else, be it of a memory document, where
\* the closest is in force, or of a file by the tags of its lines or by what a read has
\* shown, and what was not shown can be (memory_store.py 402-641, hashline.py 195-260,
\* filesystem.py 90-349).
EditsSound == EditsBuildOnLatest /\ ClosestWins /\ EditsHitWhatWasShown /\ PagesSound

\* What is loaded is what is registered: plugins leave nothing behind when they fail, are passed
\* over for a cause only, the hooks of the user have the last word, and the built-in plugin that
\* counts what was spent counts every request once (loader.py 301-460, hooks.py 75-211,
\* usage_store.py 67-276, builtin/usage.py 18-54).
ExtensionsSound == RegistryIsOfTheLoaded /\ SkippedForCause /\ HooksSound /\ UsageSound
=============================================================================
