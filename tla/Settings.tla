------------------------------ MODULE Settings ------------------------------
(***************************************************************************)
(* Where settings come from: defaults, the user's file, the file of a      *)
(* trusted project, the environment and the command line (core/config.py); *)
(* the model that a start gets by them, by way of roles (core/models.py);  *)
(* and what becomes of both when the user chooses a model, moves to a      *)
(* session of another directory and starts the program again.              *)
(***************************************************************************)
EXTENDS Integers, Sequences, FiniteSets, FiniteSetsExt, SequencesExt

CONSTANTS
  Dir, StartedIn,  \* directories as paths, and where the program is started
  Role, ModelName, \* names of roles ("@smol") and of models
  Users, Projects, Environs, Argvs,  \* the files, environments and command lines looked at
  Availabilities,                    \* "ready", "down" or "unknown" for every model
  MaxStarts, MaxMoves                \* starts, and choices and moves, in a behaviour

\* A path is a sequence of names, and a specification the names in the order of preference.
Unsaid == <<>>
Default == <<"default">>
SpecOf(names) == UNION {[1 .. n -> names] : n \in 1 .. 2}
MaySay(values) == values \union {Unsaid}

Specs == SpecOf(ModelName \union Role)
UserFile == [model : MaySay(Specs), cwd : MaySay(Dir), trusts : SUBSET Dir,
             roles : [Role -> MaySay(Specs)]]
ProjectFile == [model : MaySay(Specs), cwd : MaySay(Dir), roles : [Role -> MaySay(Specs)]]
Environment == [model : MaySay(Specs), cwd : MaySay(Dir)]
CommandLine == [model : MaySay(Specs), role : MaySay(Specs), cwd : MaySay(Dir),
                trustAll : BOOLEAN]

ASSUME SettingsAssumption ==
  /\ StartedIn \in Dir /\ {MaxStarts, MaxMoves} \subseteq Nat /\ Role \intersect ModelName = {}
  /\ Unsaid \notin Dir /\ Default[1] \in ModelName
  /\ Users \subseteq UserFile /\ \A p \in Projects : p \in [Dir -> ProjectFile]
  /\ Environs \subseteq Environment /\ Argvs \subseteq CommandLine

VARIABLES
  user,         \* the user's file: [core] model and cwd, [trust] dirs, [model_roles]
  project,      \* per directory its file, which has hooks too
  environ,
  known,        \* availability of the models
  sessions,     \* the sessions in their order: their directory and model
  here,         \* the one that the program is in
  cfg,          \* the Config of the program that runs, or Off
  argv,         \* its command line
  chosen,       \* the last model that /model saved, or Unsaid; for the properties
  startsLeft, movesLeft

settingVars == <<user, project, environ, known, sessions, here, cfg, argv, chosen, startsLeft,
                movesLeft>>

Off == [on |-> FALSE]

-----------------------------------------------------------------------------
(* load_config.                                                            *)

\* The first of several layers, highest first, that says something.
Highest(layers) == layers[Min({i \in DOMAIN layers : layers[i] # Unsaid})]

\* is_trusted_cwd: what lies in a directory that is trusted is trusted too.
Trusted(dir, args) == args.trustAll \/ \E t \in user.trusts : IsPrefix(t, dir)

\* Where a project's file is looked for.
TrustTarget(args) == Highest(<<args.cwd, environ.cwd, user.cwd, StartedIn>>)

NoProject == [model |-> Unsaid, cwd |-> Unsaid, roles |-> [r \in Role |-> Unsaid]]

\* As it would be if the trust that counts were that of the directory of the start.
ValuesIfLaunchTrusted(args) ==
  IF Trusted(StartedIn, args) THEN project[TrustTarget(args)] ELSE NoProject
\* Its values are merged if the user trusts the directory.
ProjectValues(args) ==
  IF Trusted(TrustTarget(args), args) THEN project[TrustTarget(args)] ELSE NoProject

IsRole(spec) == Len(spec) = 1 /\ spec[1] \in Role

\* The model but for the command line, and the working directory.
BaseModel(args) == Highest(<<environ.model, ProjectValues(args).model, user.model, Default>>)
WorkDir(args) ==
  Highest(<<args.cwd, environ.cwd, ProjectValues(args).cwd, user.cwd, TrustTarget(args)>>)
MergedRoles(args) ==
  [r \in Role |-> IF ProjectValues(args).roles[r] = Unsaid THEN user.roles[r]
                  ELSE ProjectValues(args).roles[r]]

Loaded(args) ==
  [on |-> TRUE,
   model |-> Highest(<<args.model, args.role, BaseModel(args)>>),
   roleDefault |-> IF IsRole(BaseModel(args)) THEN Default ELSE BaseModel(args),
   roles |-> MergedRoles(args),
   cwd |-> WorkDir(args), trust |-> Trusted(WorkDir(args), args),
   overridden |-> args.model # Unsaid \/ args.role # Unsaid,
   takesFrom |-> IF ProjectValues(args) = NoProject THEN {} ELSE {TrustTarget(args)}]

\* Command lines that are refused.
Conflicts(args) == args.model # Unsaid /\ args.role # Unsaid

-----------------------------------------------------------------------------
(* The model of a specification.                                           *)

Cycle == <<"cycle">>

\* As it would be if the main model stood for roles whatever it is.
ModelAsItIs(c) == c.model
\* What stands for a role that is not configured.
MainModel(c) == IF IsRole(c.model) THEN c.roleDefault ELSE c.model

\* expand_model_spec: the names of models that a specification stands for.
Together(parts) == IF Cycle \in Range(parts) THEN Cycle ELSE FlattenSeq(parts)
Expanded(spec, c) ==
  LET expand[name \in Role \union ModelName, seen \in SUBSET Role] ==
        LET stands == IF c.roles[name] # Unsaid THEN c.roles[name] ELSE MainModel(c)
        IN  IF name \in seen THEN Cycle
            ELSE IF name \notin Role THEN <<name>>
            ELSE Together([i \in DOMAIN stands |-> expand[stands[i], seen \union {name}]])
  IN  Together([i \in DOMAIN spec |-> expand[spec[i], {}]])

\* _resolve_one: a provider that is not available, or cannot build the model, is passed over.
Usable(name) == known[name] # "down"

\* _iter_available: the first that can be built; a name without a provider ends the search.
Resolved(spec, c) ==
  LET names == Expanded(spec, c)
      usable == {i \in DOMAIN names : Usable(names[i])}
  IN  IF names = Cycle THEN Unsaid
      ELSE IF usable = {} THEN Unsaid
      ELSE IF known[names[Min(usable)]] = "unknown" THEN Unsaid
      ELSE <<names[Min(usable)]>>

\* role_fallback_notices: the roles for which the main model stands.
Noticed(spec, c) ==
  LET noticed[name \in Role \union ModelName, visited \in SUBSET Role] ==
        IF name \in visited \/ name \notin Role THEN {}
        ELSE IF c.roles[name] = Unsaid THEN {name}
        ELSE UNION {noticed[n, visited \union {name}] : n \in Range(c.roles[name])}
  IN  UNION {noticed[name, {}] : name \in Range(spec)}

-----------------------------------------------------------------------------
SettingTypeOK ==
  /\ user \in UserFile
  /\ cfg.on => /\ cfg.model \in Specs /\ cfg.cwd \in Dir
               /\ {cfg.trust, cfg.overridden} \subseteq BOOLEAN
  /\ startsLeft \in 0 .. MaxStarts /\ movesLeft \in 0 .. MaxMoves

SettingInit ==
  /\ user \in Users /\ project \in Projects /\ environ \in Environs /\ known \in Availabilities
  /\ sessions = <<>> /\ here = 0 /\ cfg = Off /\ chosen = Unsaid
  /\ argv = CHOOSE args \in Argvs : TRUE
  /\ startsLeft = MaxStarts /\ movesLeft = MaxMoves

\* As it would be if the trust of the directory were not asked again.
WithOldTrust(session, c, args) ==
  [c EXCEPT !.cwd = session.cwd, !.model = IF c.overridden THEN @ ELSE session.model]
\* The configuration for a session that was saved: its directory, trusted or not, and its
\* model unless the command line names one.
OfSession(session, c, args) ==
  [c EXCEPT !.cwd = session.cwd, !.trust = Trusted(session.cwd, args),
            !.model = IF c.overridden THEN @ ELSE session.model]

\* main and _run_app: a session begins with what is configured, or --resume finds one again;
\* the model is not built before the first prompt.
StartProgram ==
  /\ ~cfg.on /\ startsLeft > 0 /\ startsLeft' = startsLeft - 1
  /\ \E args \in Argvs :
       /\ ~Conflicts(args) /\ argv' = args
       /\ \/ /\ cfg' = Loaded(args)
             /\ sessions' = Append(sessions, [cwd |-> cfg'.cwd, model |-> cfg'.model])
             /\ here' = Len(sessions')
          \/ /\ here' \in DOMAIN sessions
             /\ cfg' = OfSession(sessions[here'], Loaded(args), args)
             /\ sessions' = sessions
  /\ UNCHANGED <<user, project, environ, known, chosen, movesLeft>>

\* /resume: the agent is built first, and without it the user stays where he is.
MoveToSession ==
  /\ cfg.on /\ movesLeft > 0 /\ movesLeft' = movesLeft - 1
  /\ \E i \in DOMAIN sessions \ {here} :
       LET candidate == OfSession(sessions[i], cfg, argv) IN
         IF Resolved(candidate.model, candidate) = Unsaid THEN UNCHANGED <<cfg, here>>
         ELSE cfg' = candidate /\ here' = i
  /\ UNCHANGED <<user, project, environ, known, sessions, argv, chosen, startsLeft>>

\* save_core_value: the rest of the user's file stays as it is.
WithChoice(name) == [user EXCEPT !.model = <<name>>]

\* /model: the agent is built, the session remembers the model, and so does the user's file
\* (ModelSwitch); what stood for roles before does so still, or the model of before does.
ChooseModel ==
  /\ cfg.on /\ movesLeft > 0 /\ movesLeft' = movesLeft - 1
  /\ \E name \in ModelName \union Role :
       LET candidate == [cfg EXCEPT !.model = <<name>>,
                                    !.roleDefault = IF IsRole(cfg.model) THEN @ ELSE cfg.model]
       IN  /\ Resolved(<<name>>, candidate) # Unsaid
           /\ cfg' = candidate
           /\ sessions' = [sessions EXCEPT ![here].model = <<name>>]
           /\ user' = WithChoice(name)
           /\ chosen' = <<name>>
  /\ UNCHANGED <<project, environ, known, here, argv, startsLeft>>

StopProgram ==
  /\ cfg.on /\ cfg' = Off
  /\ UNCHANGED <<user, project, environ, known, sessions, here, argv, chosen, startsLeft,
                 movesLeft>>

SettingNext == StartProgram \/ MoveToSession \/ ChooseModel \/ StopProgram
SettingSpec == SettingInit /\ [][SettingNext]_settingVars

-----------------------------------------------------------------------------
(* Properties.                                                             *)

\* Nothing of a project is in force, at the start or after any move, unless the user trusts its
\* directory or has said so on the command line: neither its values and its hooks nor what
\* the components load where cfg.trust_cwd says so.
OnlyTheTrusted ==
  cfg.on => /\ cfg.trust => Trusted(cfg.cwd, argv)
            /\ \A d \in cfg.takesFrom : Trusted(d, argv)

\* A model that was chosen is the model of every later start, unless the command line, the
\* environment or a project that is trusted names another.
ChoiceKept ==
  chosen # Unsaid =>
    \A args \in Argvs : LET next == Loaded(args) IN
      \/ next.model = chosen
      \/ next.overridden \/ environ.model # Unsaid
      \/ \E d \in Dir : Trusted(d, args) /\ next.model = project[d].model

\* What is used never ends in a cycle of roles, unless the roles that are configured make one,
\* or the main model is a list that names a role; and each role that falls back on the main
\* model gets all of its names.
RolesResolve ==
  cfg.on =>
    \A spec \in {cfg.model} \union {<<r>> : r \in Role} :
      LET names == Expanded(spec, cfg)
          configured == {r \in Role : cfg.roles[r] # Unsaid}
          main == MainModel(cfg)
      IN  IF names = Cycle
          THEN \/ \E loop \in SUBSET configured : loop # {} /\
                    \A r \in loop : Range(cfg.roles[r]) \intersect loop # {}
               \/ ~IsRole(main) /\ Range(main) \intersect Role # {}
          ELSE Noticed(spec, cfg) # {} => Range(Expanded(main, cfg)) \subseteq Range(names)

\* Layers, trust and roles together.
SettingsSound == OnlyTheTrusted /\ ChoiceKept /\ RolesResolve
=============================================================================
