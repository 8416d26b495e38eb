------------------------------ MODULE Plugins ------------------------------
(***************************************************************************)
(* Plugin discovery's order, registration and rollback (core/loader.py     *)
(* 255-490, core/registry.py 163-580, core/plugin.py 78-355).              *)
(*                                                                         *)
(* register(api) is any sequence of calls of the plugin API that returns   *)
(* or raises.  A contribution is known by its kind, its key and the plugin *)
(* that made it; the lists are sets, their order being a function of them. *)
(***************************************************************************)
EXTENDS Integers, Sequences, FiniteSets, SequencesExt

CONSTANTS
  Discovered,       \* what discovery may find: sequences of candidates, by priority and name
  KeptStates,  \* the plugins the session has kept a state of
  MaxLater     \* bound: tools added and removed after the start

VARIABLES
  unplaced, ordered,    \* _order_candidates: still to be placed, placed
  entries, owners,     \* the registry's contributions; who has claimed each kind and key
  handlers, states,    \* the plugins with a bus handler; the plugins' states
  loaded, records,     \* loaded_names; the report
  running,             \* <<>>, or what load_plugins holds while register runs
  later

pluginVars == <<unplaced, ordered, entries, owners, handlers, states, loaded, records, running, later>>

Core == "<core>"
Free == "free"
FreshState == "new"
SavedState == "kept"

\* A candidate: its plugin's name, its requirements, whether the import has failed or the
\* configuration disables it, and how many calls its register may make.
CandidateNames == UNION {{s[i].name : i \in DOMAIN s} : s \in Discovered}
CandidateShape == [name : CandidateNames, requires : SUBSET STRING,
                   fate : {"sound", "broken", "disabled"}, calls : Nat]

\* Every list is one of candidates, none of which is called as the claim that nobody has.
ASSUME PluginsAssumption ==
  /\ Discovered \subseteq Seq(CandidateShape) /\ Free \notin CandidateNames /\ MaxLater \in Nat

\* The kinds of contribution, apart from prompt fragments, which nobody owns: those kept in
\* a dictionary, the sorted lists, the two matches of a renderer (a name or a predicate that
\* bears the name), and agent types.
Keyed == "keyed"
Listed == "listed"
ByName == "by name"
ByPredicate == "by predicate"
Subagent == "subagent"
AgentType == "agent type"
SlotKind == {Keyed, Listed, ByName, ByPredicate, Subagent, AgentType}
SlotKey == {"x", "core"}
Slot == SlotKind \X SlotKey
Entry == [slot : Slot, plugin : CandidateNames \union {Core}]

\* The keys the program itself claims at the start; builtin_agent_types also fills its own.
CoreOwners == [s \in Slot |-> IF s[1] \in {Keyed, AgentType} /\ s[2] = "core" THEN Core ELSE Free]
CoreEntries == {[slot |-> <<AgentType, "core">>, plugin |-> Core]}

PluginInit ==
  /\ unplaced \in Discovered /\ ordered = <<>>
  /\ owners = CoreOwners /\ entries = CoreEntries
  /\ handlers = {} /\ states = [p \in KeptStates |-> SavedState]
  /\ loaded = {} /\ records = <<>> /\ running = <<>> /\ later = 0

-----------------------------------------------------------------------------
(* The order. *)

NamesOf(candidates) == {candidates[i].name : i \in DOMAIN candidates}

\* bug: a requirement is not waited for
PlaceableAtOnce(i) == TRUE

\* Placeable when each requirement is absent from the candidates or already placed.
Placeable(i) ==
  unplaced[i].requires \intersect (NamesOf(unplaced) \union NamesOf(ordered)) \subseteq NamesOf(ordered)

\* _order_candidates: the first ready candidate is placed; when a cycle leaves none, the
\* rest is appended as it is.
Order ==
  /\ unplaced # <<>>
  /\ LET ready == {i \in DOMAIN unplaced : Placeable(i)}
         first == CHOOSE i \in ready : \A j \in ready : i <= j
     IN  IF ready = {}
           THEN ordered' = ordered \o unplaced /\ unplaced' = <<>>
           ELSE ordered' = Append(ordered, unplaced[first]) /\ unplaced' = RemoveAt(unplaced, first)
  /\ UNCHANGED <<entries, owners, handlers, states, loaded, records, running, later>>

-----------------------------------------------------------------------------
(* The loop of load_plugins. *)

\* The candidate the loop is at.
Candidate == ordered[Len(records) + 1]
AtLoop == unplaced = <<>> /\ running = <<>> /\ Len(records) < Len(ordered)
Report(status) == records' = Append(records, [name |-> Candidate.name, status |-> status])

\* A failed import, a disabled plugin and one that lacks a requirement are only reported.
PassOver ==
  /\ AtLoop
  /\ \/ Candidate.fate = "broken" /\ Report("failed")
     \/ Candidate.fate = "disabled" /\ Report("disabled")
     \/ Candidate.fate = "sound" /\ ~ Candidate.requires \subseteq loaded /\ Report("skipped")
  /\ UNCHANGED <<unplaced, ordered, entries, owners, handlers, states, loaded, running, later>>


\* Everything register may change is saved first; a plugin without a state gets one.
BeginRegister ==
  /\ AtLoop
  /\ Candidate.fate = "sound" /\ Candidate.requires \subseteq loaded
  /\ running' = <<[calls |-> Candidate.calls, entries |-> entries, owners |-> owners,
                   handlers |-> handlers, states |-> states]>>
  /\ states' = IF Candidate.name \in DOMAIN states THEN states
               ELSE [p \in DOMAIN states \union {Candidate.name} |->
                       IF p \in DOMAIN states THEN states[p] ELSE FreshState]
  /\ UNCHANGED <<unplaced, ordered, entries, owners, handlers, loaded, records, later>>

-----------------------------------------------------------------------------
(* The plugin API. *)

\* _claim: a key that is claimed is had with replace=True only.
MayClaim(slot, replace) == owners[slot] = Free \/ replace

\* What the entry displaces: in a dictionary what was there; in a list, with replace=True
\* only, the entries of the same key, which for a renderer matched by name are those of
\* predicates with that name as well.
Displaced(slot, replace) ==
  CASE slot[1] \in {Keyed, AgentType} -> {e \in entries : e.slot = slot}
    [] slot[1] = ByName /\ replace ->
         {e \in entries : e.slot \in {slot, <<ByPredicate, slot[2]>>}}
    [] OTHER -> IF replace THEN {e \in entries : e.slot = slot} ELSE {}

Contribution(slot, plugin) == [slot |-> slot, plugin |-> plugin]

\* One add_* call that claims its key.
Adds(plugin, slot, replace) ==
  /\ MayClaim(slot, replace)
  /\ owners' = [owners EXCEPT ![slot] = plugin]
  /\ entries' = (entries \ Displaced(slot, replace)) \union {Contribution(slot, plugin)}

\* add_subagent: the worker is listed, and its role is an agent type unless the program has
\* one of that name. The second claim may raise when the first has been made.
AddsSubagent(plugin, key, replace) ==
  LET worker == <<Subagent, key>>  role == <<AgentType, key>>
      listed == (entries \ Displaced(worker, replace)) \union {Contribution(worker, plugin)}
  IN  /\ MayClaim(worker, replace)
      /\ IF owners[role] = Core \/ ~ MayClaim(role, replace)
           THEN /\ owners' = [owners EXCEPT ![worker] = plugin]
                /\ entries' = listed
           ELSE /\ owners' = [owners EXCEPT ![worker] = plugin, ![role] = plugin]
                /\ entries' = (listed \ Displaced(role, replace)) \union {Contribution(role, plugin)}

Calling == running # <<>> /\ running[1].calls > 0
Called == running' = <<[running[1] EXCEPT !.calls = @ - 1]>>

\* A call that claims a key; one whose claim is refused raises, and the plugin may catch that.
Contribute ==
  /\ Calling /\ Called
  /\ \E key \in SlotKey, replace \in BOOLEAN :
       \/ \E kind \in SlotKind \ {Subagent} : Adds(Candidate.name, <<kind, key>>, replace)
       \/ AddsSubagent(Candidate.name, key, replace)
  /\ UNCHANGED <<unplaced, ordered, handlers, states, loaded, records, later>>

\* A handler on the bus, and the plugin's own use of its state.
Subscribe ==
  /\ Calling /\ Called
  /\ handlers' = handlers \union {Candidate.name}
  /\ UNCHANGED <<unplaced, ordered, entries, owners, states, loaded, records, later>>

WriteState ==
  /\ Calling /\ Called
  /\ states' = [states EXCEPT ![Candidate.name] = FreshState]
  /\ UNCHANGED <<unplaced, ordered, entries, owners, handlers, loaded, records, later>>

\* register returns.
Loads ==
  /\ running # <<>> /\ running' = <<>>
  /\ loaded' = loaded \union {Candidate.name}
  /\ Report("loaded")
  /\ UNCHANGED <<unplaced, ordered, entries, owners, handlers, states, later>>

\* bug: the claims and the plugin's state outlive the failure
RestoresContributions ==
  /\ entries' = running[1].entries /\ handlers' = running[1].handlers
  /\ UNCHANGED <<owners, states>>

\* _restore_registry, the bus and the state: as they were before register.
Restores ==
  /\ entries' = running[1].entries /\ owners' = running[1].owners
  /\ handlers' = running[1].handlers /\ states' = running[1].states

\* register raises.
Fails ==
  /\ running # <<>> /\ running' = <<>>
  /\ Restores
  /\ Report("failed")
  /\ UNCHANGED <<unplaced, ordered, loaded, later>>

-----------------------------------------------------------------------------
(* Later: tools that come and go, as those of MCP servers do. *)

Started == unplaced = <<>> /\ running = <<>> /\ Len(records) = Len(ordered)

AddTool(plugin) ==
  /\ Started /\ plugin \in loaded /\ later < MaxLater /\ later' = later + 1
  /\ \E replace \in BOOLEAN : Adds(plugin, <<Keyed, "x">>, replace)
  /\ UNCHANGED <<unplaced, ordered, handlers, states, loaded, records, running>>

\* remove_tool: only the owner removes a tool, and its claim goes with it.
RemoveTool(plugin) ==
  LET slot == <<Keyed, "x">> IN
  /\ Started /\ plugin \in loaded /\ later < MaxLater /\ later' = later + 1
  /\ owners[slot] = plugin
  /\ entries' = {e \in entries : e.slot # slot}
  /\ owners' = [owners EXCEPT ![slot] = Free]
  /\ UNCHANGED <<unplaced, ordered, handlers, states, loaded, records, running>>

PluginNext ==
  \/ Order \/ PassOver \/ BeginRegister \/ Contribute \/ Subscribe \/ WriteState \/ Loads \/ Fails
  \/ \E p \in CandidateNames : AddTool(p) \/ RemoveTool(p)

PluginSpec == PluginInit /\ [][PluginNext]_pluginVars

-----------------------------------------------------------------------------
PluginTypeOK ==
  /\ entries \subseteq Entry
  /\ DOMAIN owners = Slot /\ Range(owners) \subseteq CandidateNames \union {Core, Free}
  /\ handlers \subseteq CandidateNames /\ DOMAIN states \subseteq CandidateNames \union KeptStates
  /\ loaded \subseteq CandidateNames /\ Len(running) <= 1 /\ later \in 0 .. MaxLater

\* Between two plugins the registry is that of the plugins that have loaded: a contribution,
\* a handler and a state that was not kept belong to a loaded plugin, whoever has claimed a
\* key has the one contribution under it (except a predicate that a renderer's name has
\* displaced), and a plugin that did not load has not touched its kept state. This is what
\* loader.py's snapshots and the owners in registry.py are for: a register that fails half
\* way, having replaced what others made, leaves nothing behind and takes nothing away.
RegistryIsOfTheLoaded ==
  running = <<>> =>
    /\ \A e \in entries : e.plugin \in loaded \union {Core} /\ owners[e.slot] = e.plugin
    /\ \A s \in Slot : owners[s] \notin {Free, Core} /\ s[1] # ByPredicate =>
         Cardinality({e \in entries : e.slot = s}) = 1
    /\ handlers \subseteq loaded
    /\ DOMAIN states = loaded \union KeptStates
    /\ \A p \in KeptStates \ loaded : states[p] = SavedState

\* A plugin is skipped only for a requirement that has not loaded when all is done. It
\* would be wrong if _order_candidates placed it before what it requires. Two candidates of
\* one name are left aside: only the first is waited for.
SkippedForCause ==
  Started =>
    \A i \in DOMAIN records :
      /\ records[i].status = "skipped"
      /\ \A j, k \in DOMAIN ordered : ordered[j].name = ordered[k].name => j = k
      => ~ ordered[i].requires \subseteq loaded
=============================================================================
