---------------------------- MODULE ShellSession ----------------------------
(***************************************************************************)
(* One bash process shared by the calls of a thread (core/tools/shell.py). *)
(*                                                                         *)
(* Every call runs in a worker thread and holds the session's lock from    *)
(* entry to return; close() runs in another thread and touches the process *)
(* once before it has the lock.  The script a call writes to bash runs the *)
(* command and then leaves three files: the directory, the variables and,  *)
(* last, the status the call polls for.                                    *)
(***************************************************************************)
EXTENDS Naturals, FiniteSets, SequencesExt

CONSTANTS
  ShellCall,   \* the calls of the bash tool; each is made once
  Nobody       \* the lock's holder when it is free; the owner of the state at the start

ASSUME NobodyIsNoCall == Nobody \notin ShellCall

VARIABLES
  bash,      \* per call: where it is, whether it is a background call, whether it was cancelled,
             \* and (history) whether it ended between reading the directory and the variables
  holder,    \* who holds the RLock
  shell,     \* self.process: is it there, which script it runs and how far, and the calls
             \* whose directory and whose variables it has
  cwd, env,  \* self.cwd, self.env: the call whose files they were last read from
  files,     \* per call: the status files its script has written
  job,       \* per background call: its process
  closing    \* close(): "open", "closed" (the flag is set), "waits" (killed once), "done"

shellVars == <<bash, holder, shell, cwd, env, files, job, closing>>

NoShell == [st |-> "none", by |-> Nobody, has |-> <<Nobody, Nobody>>]

ShellInit ==
  /\ bash = [c \in ShellCall |-> [pc |-> "none", background |-> FALSE, cancelled |-> FALSE,
                                torn |-> FALSE]]
  /\ holder = Nobody
  /\ shell = NoShell
  /\ cwd = Nobody /\ env = Nobody
  /\ files = [c \in ShellCall |-> {}]
  /\ job = [c \in ShellCall |-> "none"]
  /\ closing = "open"

Closed == closing # "open"

\* _kill: the whole process group, and the wait for it.
Killed(sh) == IF sh.st = "none" THEN sh ELSE [sh EXCEPT !.st = "dead"]

Goes(c, pc) == bash' = [bash EXCEPT ![c].pc = pc]

\* The finally removes the files, and the lock is given back.
Frees(c) == holder' = Nobody /\ files' = [files EXCEPT ![c] = {}]

\* run returns or raises.
Returns(c) == Goes(c, "done") /\ Frees(c)

-----------------------------------------------------------------------------
(* A call, up to the script. *)

\* abash: the call is handed to a worker thread.
Asks(c, background) ==
  /\ bash[c].pc = "none"
  /\ bash' = [bash EXCEPT ![c].pc = "line", ![c].background = background]
  /\ UNCHANGED <<holder, shell, cwd, env, files, job, closing>>

\* The coroutine of the call is cancelled: it sets the event and waits for the thread.
Cancel(c) ==
  /\ bash[c].pc \notin {"none", "done"} /\ ~bash[c].cancelled
  /\ bash' = [bash EXCEPT ![c].cancelled = TRUE]
  /\ UNCHANGED <<holder, shell, cwd, env, files, job, closing>>

\* _locked: the wait for the lock looks at the event every 50 ms and once more when it has it.
GivesUp(c) ==
  /\ bash[c].pc = "line" /\ bash[c].cancelled
  /\ Goes(c, "done")
  /\ UNCHANGED <<holder, shell, cwd, env, files, job, closing>>

\* bug: a call in line when the session closes is let in
AdmitsAll == TRUE

\* run, first thing under the lock
Admits == ~Closed

\* A background command is started and registered without the lock being given back.
\* Any call may end here: its directory does not exist, the job cannot be started.
Enter(c) ==
  /\ bash[c].pc = "line" /\ ~bash[c].cancelled /\ holder = Nobody
  /\ \/ Goes(c, "done") /\ UNCHANGED <<holder, job>>
     \/ /\ Admits /\ bash[c].background
        /\ Goes(c, "done") /\ job' = [job EXCEPT ![c] = "running"] /\ UNCHANGED holder
     \/ /\ Admits /\ ~bash[c].background
        /\ Goes(c, "entered") /\ holder' = c /\ UNCHANGED job
  /\ UNCHANGED <<shell, cwd, env, files, closing>>

\* _start looks at the flag again ...
ChecksOpen(c) ==
  /\ bash[c].pc = "entered"
  /\ IF Closed THEN Returns(c) ELSE Goes(c, "starting") /\ UNCHANGED <<holder, files>>
  /\ UNCHANGED <<shell, cwd, env, job, closing>>

NeedsStart == shell.st \in {"none", "dead"}

\* ... and starts a process where there is none alive, in the last known directory with the last
\* known variables; the directory may be gone.
Starts(c) ==
  /\ bash[c].pc = "starting"
  /\ \/ /\ shell' = IF NeedsStart THEN [st |-> "idle", by |-> Nobody, has |-> <<cwd, env>>]
                    ELSE shell
        /\ Goes(c, "writing") /\ UNCHANGED <<holder, files>>
     \/ NeedsStart /\ Returns(c) /\ UNCHANGED shell
  /\ UNCHANGED <<cwd, env, job, closing>>

\* The script is written; close() may have killed the process by now (a broken pipe).
WritesScript(c) ==
  /\ bash[c].pc = "writing"
  /\ IF shell.st = "dead"
       THEN Returns(c) /\ UNCHANGED shell
       ELSE /\ shell' = [shell EXCEPT !.st = "running", !.by = c]
            /\ Goes(c, "polling") /\ UNCHANGED <<holder, files>>
  /\ UNCHANGED <<cwd, env, job, closing>>

-----------------------------------------------------------------------------
(* The bash process. *)

\* The order in which the script leaves its files.
ScriptOrder == <<"cwd", "vars", "status">>

Written(c) == Cardinality(files[c])

\* The command ends and the next file is there; after the last one bash waits for input.
ScriptStep ==
  LET c == shell.by
      last == Written(c) + 1 = Len(ScriptOrder)
  IN  /\ shell.st = "running" /\ Written(c) < Len(ScriptOrder)
      /\ files' = [files EXCEPT ![c] = @ \union {ScriptOrder[Written(c) + 1]}]
      /\ shell' = [shell EXCEPT !.has = <<c, c>>, !.st = IF last THEN "idle" ELSE "running"]
      /\ UNCHANGED <<bash, holder, cwd, env, job, closing>>

\* The command ends the shell itself (exit, exec, a directory that cannot be entered), or what
\* an earlier one left in the background does.
ShellExits ==
  /\ shell.st \in {"idle", "running"}
  /\ shell' = Killed(shell)
  /\ UNCHANGED <<bash, holder, cwd, env, files, job, closing>>

-----------------------------------------------------------------------------
(* A call, from the script to its result. *)

\* bug: whatever file is there is read, also of a command that was killed in between
TakesWhatIsThere(c, f) == f \in files[c]

\* A file is read only where the status says that the script was run to its end.
Takes(c, f) == "status" \in files[c]

\* bug: except Exception, which a cancel is not
LeavesRunning(sh) == sh

\* except BaseException: _kill
OnException(sh) == Killed(sh)

\* self.cwd is assigned before the variables are parsed, which may fail.
Tears(c) == bash' = [bash EXCEPT ![c].pc = "done", ![c].torn = TRUE] /\ Frees(c)

\* What the files say is taken, the directory first and the variables next, and the result is
\* made; each may raise (a directory that is not text, no JSON, an artifact that cannot be
\* written), and what was assigned by then stays.
Collect(c, sh) ==
  /\ \/ /\ cwd' = IF Takes(c, "cwd") THEN c ELSE cwd
        /\ env' = IF Takes(c, "vars") THEN c ELSE env
        /\ shell' \in {sh, OnException(sh)}
        /\ Returns(c)
     \/ /\ Takes(c, "cwd")
        /\ shell' = OnException(sh) /\ Returns(c) /\ UNCHANGED <<cwd, env>>
     \/ /\ Takes(c, "cwd")
        /\ cwd' = c
        /\ shell' = OnException(sh) /\ Tears(c) /\ UNCHANGED env
  /\ UNCHANGED <<job, closing>>

\* The poll loop looks for the status first; it may appear before the tests that follow.
Finishes(c) == bash[c].pc = "polling" /\ "status" \in files[c] /\ Collect(c, shell)
SeesDeath(c) == bash[c].pc = "polling" /\ shell.st = "dead" /\ Collect(c, shell)
TimesOut(c) == bash[c].pc = "polling" /\ Collect(c, Killed(shell))

\* The loop sees the event and raises CancelledError.
BreaksOff(c) ==
  /\ bash[c].pc = "polling" /\ bash[c].cancelled
  /\ shell' = OnException(shell)
  /\ Returns(c)
  /\ UNCHANGED <<cwd, env, job, closing>>

-----------------------------------------------------------------------------
(* Background jobs and the end of the session. *)

\* A job ends by itself, is killed by _watch_job at its deadline, or by manage("kill").
JobEnds(c) ==
  /\ job[c] = "running"
  /\ job' = [job EXCEPT ![c] = "ended"]
  /\ UNCHANGED <<bash, holder, shell, cwd, env, files, closing>>

\* close: the flag is set and nothing else, by a thread that does not hold the lock,
CloseBegins ==
  /\ closing = "open"
  /\ closing' = "closed"
  /\ UNCHANGED <<bash, holder, shell, cwd, env, files, job>>

\* then whatever process it finds is killed,
CloseKills ==
  /\ closing = "closed"
  /\ closing' = "waits"
  /\ shell' = Killed(shell)
  /\ UNCHANGED <<bash, holder, cwd, env, files, job>>

\* and once more under the lock, with the jobs.
CloseEnds ==
  /\ closing = "waits" /\ holder = Nobody
  /\ closing' = "done"
  /\ shell' = NoShell
  /\ job' = [c \in ShellCall |-> IF job[c] = "running" THEN "ended" ELSE job[c]]
  /\ UNCHANGED <<bash, holder, cwd, env, files>>

ShellNext ==
  \/ \E c \in ShellCall :
       \/ \E background \in BOOLEAN : Asks(c, background)
       \/ Cancel(c) \/ GivesUp(c) \/ Enter(c) \/ ChecksOpen(c) \/ Starts(c) \/ WritesScript(c)
       \/ Finishes(c) \/ SeesDeath(c) \/ TimesOut(c) \/ BreaksOff(c)
       \/ JobEnds(c)
  \/ ScriptStep \/ ShellExits
  \/ CloseBegins \/ CloseKills \/ CloseEnds

ShellSpec == ShellInit /\ [][ShellNext]_shellVars

-----------------------------------------------------------------------------
ShellTypeOK ==
  /\ bash \in [ShellCall -> [pc : {"none", "line", "entered", "starting", "writing", "polling",
                                   "done"}, background : BOOLEAN, cancelled : BOOLEAN,
                            torn : BOOLEAN]]
  /\ holder \in ShellCall \union {Nobody}
  /\ shell \in [st : {"none", "idle", "running", "dead"}, by : ShellCall \union {Nobody},
                has : (ShellCall \union {Nobody}) \X (ShellCall \union {Nobody})]
  /\ cwd \in ShellCall \union {Nobody} /\ env \in ShellCall \union {Nobody}
  /\ files \in [ShellCall -> SUBSET Range(ScriptOrder)]
  /\ job \in [ShellCall -> {"none", "running", "ended"}]
  /\ closing \in {"open", "closed", "waits", "done"}

Torn == {c \in ShellCall : bash[c].torn}

\* Between two calls bash runs nothing: a command that was cancelled, timed out or broke off is
\* never still there when the next call writes its script.  A live bash has the directory and the
\* variables the session keeps: a restart goes on where the last completed command stopped,
\* however that command was left (shell.py 205-213, 336-369).  These are of one and the same
\* command, except where that command's variables could not be parsed after its directory had
\* been taken (353-354): then the directory is of it and the variables are older.  And once
\* close() has returned no process of the session is alive, whichever calls were in line,
\* starting or polling meanwhile (163-186, 283-284, 203-204).
NothingLeftRunning ==
  /\ holder = Nobody => /\ shell.st # "running"
                        /\ cwd = env \/ cwd \in Torn
                        /\ shell.st = "idle" => shell.has = <<cwd, env>>
  /\ closing = "done" => shell.st = "none" /\ \A c \in ShellCall : job[c] # "running"
=============================================================================
