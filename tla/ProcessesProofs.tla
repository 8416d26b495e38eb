--------------------------- MODULE ProcessesProofs ---------------------------
(***************************************************************************)
(* The processes the agent keeps: the shell of a thread, the servers       *)
(* behind the MCP connections, the hidden run of the advisor, and the      *)
(* commands of hooks; and the plugins that bring their own. Whatever the   *)
(* interleaving, no command is left running in the shell, a server has one *)
(* connection, the advisor's cursor passes nothing it was not told, tools  *)
(* obey the hooks, and the registry is that of the plugins that loaded.    *)
(***************************************************************************)
EXTENDS ShellSession, McpConnections, AdvisorLooks, Hooks, Plugins,
        WellFoundedInduction, FiniteSetTheorems, SequenceTheorems, TLAPS

-----------------------------------------------------------------------------
(* The shell: the inductive invariant. *)

\* What the script of a call may have left, in the order it writes.
Progress == {{}, {"cwd"}, {"cwd", "vars"}, {"cwd", "vars", "status"}}

InLock == {"entered", "starting", "writing", "polling"}

\* The lock is held by the one call between entry and return.
LockHeld == \A c \in ShellCall : bash[c].pc \in InLock <=> holder = c

\* Files are there only while their call polls, and in the script's order.
FilesPolled == \A c \in ShellCall : files[c] \in Progress /\ (bash[c].pc # "polling" => files[c] = {})

\* A script runs only under the call that wrote it and waits for it.
ScriptWatched ==
  shell.st = "running" => /\ shell.by \in ShellCall /\ holder = shell.by
                          /\ bash[shell.by].pc = "polling"
                          /\ "status" \notin files[shell.by]

\* A bash that waits for input has the directory and the variables the session keeps, or those
\* that the call that polls is about to read; what the session keeps is of one command, but for
\* one that ended between reading the two.
StateKnown ==
  /\ cwd = env \/ cwd \in Torn
  /\ shell.st = "idle" =>
       IF \E c \in ShellCall : bash[c].pc = "polling"
         THEN \A c \in ShellCall :
                bash[c].pc = "polling" => shell.has = <<c, c>> /\ "status" \in files[c]
         ELSE shell.has = <<cwd, env>>

\* After close nobody has the lock, and neither the shell nor a job is left.
ClosedForGood ==
  closing = "done" => /\ holder = Nobody /\ shell.st = "none"
                      /\ \A c \in ShellCall : job[c] # "running"

ShellInv ==
  ShellTypeOK /\ LockHeld /\ FilesPolled /\ ScriptWatched /\ StateKnown /\ ClosedForGood

-----------------------------------------------------------------------------
(* How the script's files are counted. *)

LEMMA FileNames == Range(ScriptOrder) = {"cwd", "vars", "status"}
BY DEF Range, ScriptOrder

LEMMA ProgressCount ==
  /\ Cardinality({}) = 0
  /\ Cardinality({"cwd"}) = 1
  /\ Cardinality({"cwd", "vars"}) = 2
  /\ Cardinality({"cwd", "vars", "status"}) = 3
<1>1. Cardinality({}) = 0 /\ IsFiniteSet({}) BY FS_EmptySet
<1>2. Cardinality({"cwd"}) = 1 /\ IsFiniteSet({"cwd"}) BY FS_Singleton
<1>3. Cardinality({"cwd"} \union {"vars"}) = 2 /\ IsFiniteSet({"cwd"} \union {"vars"})
  BY <1>2, FS_AddElement
<1>4. Cardinality(({"cwd"} \union {"vars"}) \union {"status"}) = 3 BY <1>3, FS_AddElement
<1>5. {"cwd"} \union {"vars"} = {"cwd", "vars"} OBVIOUS
<1>6. {"cwd", "vars"} \union {"status"} = {"cwd", "vars", "status"} OBVIOUS
<1> QED BY <1>1, <1>2, <1>3, <1>4, <1>5, <1>6

\* The next file of a script that has not written its status is the one the order names.
LEMMA NextFile ==
  ASSUME NEW c \in ShellCall, files[c] \in Progress, "status" \notin files[c]
  PROVE  LET more == files[c] \union {ScriptOrder[Written(c) + 1]}
         IN  more \in Progress /\ ("status" \in more <=> Written(c) + 1 = Len(ScriptOrder))
<1>1. CASE files[c] = {}
 <2>1. Written(c) = 0 BY <1>1, ProgressCount DEF Written
 <2> QED BY <1>1, <2>1 DEF ScriptOrder, Progress
<1>2. CASE files[c] = {"cwd"}
 <2>1. Written(c) = 1 BY <1>2, ProgressCount DEF Written
 <2> QED BY <1>2, <2>1 DEF ScriptOrder, Progress
<1>3. CASE files[c] = {"cwd", "vars"}
 <2>1. Written(c) = 2 BY <1>3, ProgressCount DEF Written
 <2> QED BY <1>3, <2>1 DEF ScriptOrder, Progress
<1> QED BY <1>1, <1>2, <1>3 DEF Progress

-----------------------------------------------------------------------------
(* The steps. *)

LEMMA ShellInitInv == ShellInit => ShellInv
BY NobodyIsNoCall, FileNames DEF ShellInit, ShellInv, ShellTypeOK, LockHeld, FilesPolled,
   ScriptWatched, StateKnown, ClosedForGood, NoShell, InLock, Progress

BashCall ==
  [pc : {"none", "line", "entered", "starting", "writing", "polling", "done"},
   background : BOOLEAN, cancelled : BOOLEAN, torn : BOOLEAN]

\* What bash is, and whose state it may have.
Owner == ShellCall \union {Nobody}
Shells ==
  [st : {"none", "idle", "running", "dead"}, by : Owner, has : Owner \X Owner]

\* Steps of a call that stays outside the lock.
LEMMA OutsideStep ==
  ASSUME ShellInv, NEW c \in ShellCall,
         \/ \E aside \in BOOLEAN : Asks(c, aside)
         \/ Cancel(c) \/ GivesUp(c) \/ JobEnds(c)
  PROVE  ShellInv'
<1>0. ShellTypeOK BY DEF ShellInv
<1>a. bash' \in [ShellCall -> BashCall]
 <2>1. bash \in [ShellCall -> BashCall] /\ bash[c] \in BashCall
   BY <1>0 DEF ShellTypeOK, BashCall
 <2>2. ASSUME NEW aside \in BOOLEAN, Asks(c, aside)
       PROVE  \E new \in BashCall : bash' = [bash EXCEPT ![c] = new]
  <3>1. bash' = [bash EXCEPT ![c] = [bash[c] EXCEPT !.pc = "line", !.background = aside]]
    BY <2>1, <2>2 DEF Asks
  <3>2. [bash[c] EXCEPT !.pc = "line", !.background = aside] \in BashCall
    BY <2>1, <2>2 DEF BashCall
  <3> QED BY <3>1, <3>2
 <2>3. ASSUME Cancel(c) \/ GivesUp(c)
       PROVE  \E new \in BashCall : bash' = [bash EXCEPT ![c] = new]
   BY <2>1, <2>3 DEF Cancel, GivesUp, Goes, BashCall
 <2>4. JobEnds(c) => bash' = bash BY DEF JobEnds
 <2> QED BY <2>1, <2>2, <2>3, <2>4
<1>b. job' \in [ShellCall -> {"none", "running", "ended"}]
  BY <1>0 DEF ShellTypeOK, Asks, Cancel, GivesUp, JobEnds
<1>1. ShellTypeOK'
  BY <1>0, <1>a, <1>b DEF ShellTypeOK, BashCall, Asks, Cancel, GivesUp, JobEnds
<1>2. \A d \in ShellCall : bash'[d].pc \in InLock \union {"polling"} => bash'[d].pc = bash[d].pc
  BY DEF ShellInv, ShellTypeOK, Asks, Cancel, GivesUp, JobEnds, Goes, InLock
<1>3. \A d \in ShellCall : bash[d].pc \in InLock \union {"polling"} => bash'[d].pc = bash[d].pc
  BY DEF ShellInv, ShellTypeOK, Asks, Cancel, GivesUp, JobEnds, Goes, InLock
<1>4. UNCHANGED <<holder, shell, cwd, env, files, closing>>
  BY DEF Asks, Cancel, GivesUp, JobEnds
<1>5. \A d \in ShellCall : job'[d] = "running" => job[d] = "running"
  BY DEF ShellInv, ShellTypeOK, Asks, Cancel, GivesUp, JobEnds
<1>6. LockHeld' /\ FilesPolled' BY <1>2, <1>3, <1>4 DEF ShellInv, LockHeld, FilesPolled
<1>c. \A d \in ShellCall : bash'[d].torn = bash[d].torn
  BY <1>0, SMTT(30) DEF ShellTypeOK, Asks, Cancel, GivesUp, JobEnds, Goes
<1>d. Torn' = Torn BY <1>c DEF Torn
<1>7. ScriptWatched' /\ StateKnown'
  BY <1>2, <1>3, <1>4, <1>d DEF ShellInv, ScriptWatched, StateKnown
<1>8. ClosedForGood' BY <1>4, <1>5 DEF ShellInv, ClosedForGood
<1> QED BY <1>1, <1>6, <1>7, <1>8 DEF ShellInv

LEMMA EnterStep ==
  ASSUME ShellInv, NEW c \in ShellCall, Enter(c)
  PROVE  ShellInv'
<1>1. ShellTypeOK' BY SMTT(30) DEF ShellInv, ShellTypeOK, Enter, Goes
<1>2. /\ bash[c].pc = "line" /\ holder = Nobody
      /\ bash'[c].pc \in {"done", "entered"}
      /\ bash'[c].pc = "entered" => holder' = c /\ closing = "open"
      /\ bash'[c].pc = "done" => holder' = Nobody
      /\ \A d \in ShellCall \ {c} : bash'[d] = bash[d]
      /\ \A d \in ShellCall : job'[d] # job[d] => closing = "open"
      /\ UNCHANGED <<shell, cwd, env, files, closing>>
  BY DEF ShellInv, ShellTypeOK, Enter, Goes, Admits, Closed
<1>3. LockHeld' /\ FilesPolled'
  BY <1>2, NobodyIsNoCall DEF ShellInv, LockHeld, FilesPolled, InLock
<1>4. \A d \in ShellCall : bash'[d].pc # "polling" /\ bash[d].pc # "polling"
  BY <1>2, NobodyIsNoCall DEF ShellInv, LockHeld, InLock
<1>a. Torn' = Torn BY DEF ShellInv, ShellTypeOK, Enter, Goes, Torn
<1>5. ScriptWatched' /\ StateKnown' BY <1>2, <1>4, <1>a DEF ShellInv, ScriptWatched, StateKnown
<1>6. ClosedForGood' BY <1>2 DEF ShellInv, ClosedForGood
<1> QED BY <1>1, <1>3, <1>5, <1>6 DEF ShellInv

\* What the end of a call leaves of the invariant once it has said what becomes of the shell.
LEMMA ReturnStep ==
  ASSUME ShellInv, NEW c \in ShellCall, bash[c].pc \in InLock, Returns(c) \/ Tears(c),
         shell' \in Shells, shell'.st # "running", cwd' \in Owner, env' \in Owner,
         cwd' = env' \/ cwd' \in Torn',
         shell'.st = "idle" => shell'.has = <<cwd', env'>>,
         UNCHANGED <<job, closing>>
  PROVE  ShellInv'
<1>a. bash' \in [ShellCall -> BashCall]
 <2>1. bash \in [ShellCall -> BashCall] BY DEF ShellInv, ShellTypeOK, BashCall
 <2>2. \E new \in BashCall : bash' = [bash EXCEPT ![c] = new]
  <3>1. [bash[c] EXCEPT !.pc = "done"] \in BashCall
        /\ [bash[c] EXCEPT !.pc = "done", !.torn = TRUE] \in BashCall
    BY <2>1 DEF BashCall
  <3>2. bash' \in {[bash EXCEPT ![c] = [bash[c] EXCEPT !.pc = "done"]],
                   [bash EXCEPT ![c] = [bash[c] EXCEPT !.pc = "done", !.torn = TRUE]]}
    BY <2>1 DEF Returns, Tears, Goes
  <3> QED BY <3>1, <3>2
 <2> QED BY <2>1, <2>2
<1>b. holder' = Nobody /\ files' = [files EXCEPT ![c] = {}]
  BY DEF Returns, Tears, Frees
<1>1. ShellTypeOK'
  BY <1>a, <1>b DEF ShellInv, ShellTypeOK, BashCall, Owner, Shells
<1>2. /\ holder = c /\ holder' = Nobody /\ bash'[c].pc = "done" /\ files'[c] = {}
      /\ \A d \in ShellCall \ {c} : bash'[d] = bash[d] /\ files'[d] = files[d]
  BY <1>b DEF ShellInv, ShellTypeOK, LockHeld, Returns, Tears, Goes
<1>3. LockHeld' BY <1>2, NobodyIsNoCall DEF ShellInv, LockHeld, InLock
<1>4. FilesPolled' BY <1>2 DEF ShellInv, FilesPolled, Progress
<1>5. \A d \in ShellCall : bash'[d].pc # "polling" BY <1>2 DEF ShellInv, LockHeld, InLock
<1>6. ScriptWatched' /\ StateKnown' BY <1>5 DEF ScriptWatched, StateKnown
<1>7. ClosedForGood' BY <1>2, NobodyIsNoCall DEF ShellInv, ClosedForGood
<1> QED BY <1>1, <1>3, <1>4, <1>6, <1>7 DEF ShellInv

\* A call under the lock goes on to the script, or returns because the session is closed.
LEMMA StartStep ==
  ASSUME ShellInv, NEW c \in ShellCall, ChecksOpen(c) \/ Starts(c) \/ WritesScript(c)
  PROVE  ShellInv'
<1>1. /\ bash[c].pc \in InLock \ {"polling"} /\ holder = c
      /\ \A d \in ShellCall \ {c} : bash[d].pc \notin InLock
      /\ \A d \in ShellCall : bash[d].pc # "polling"
  BY DEF ShellInv, LockHeld, InLock, ChecksOpen, Starts, WritesScript
<1>2. /\ shell.st # "running" /\ (shell.st = "idle" => shell.has = <<cwd, env>>)
      /\ cwd = env \/ cwd \in Torn
      /\ \A d \in ShellCall : files[d] = {}
      /\ closing # "done"
  BY <1>1, NobodyIsNoCall DEF ShellInv, ScriptWatched, StateKnown, FilesPolled, ClosedForGood
<1>3. CASE Returns(c) /\ UNCHANGED <<shell, cwd, env, job, closing>>
 <2>1. Torn' = Torn BY <1>3 DEF ShellInv, ShellTypeOK, Returns, Goes, Torn
 <2> QED BY <1>1, <1>2, <1>3, <2>1, ReturnStep DEF ShellInv, ShellTypeOK, Owner, Shells
<1>4. CASE /\ \/ Goes(c, "starting") /\ UNCHANGED shell
              \/ Goes(c, "writing") /\ shell' = shell
              \/ Goes(c, "writing") /\ shell' = [st |-> "idle", by |-> Nobody, has |-> <<cwd, env>>]
           /\ UNCHANGED <<holder, cwd, env, files, job, closing>>
 <2>1. ShellTypeOK' BY <1>4, SMTT(30) DEF ShellInv, ShellTypeOK, Goes
 <2>2. /\ bash'[c].pc \in {"starting", "writing"}
       /\ \A d \in ShellCall \ {c} : bash'[d] = bash[d]
       /\ Torn' = Torn
   BY <1>4, SMTT(30) DEF ShellInv, ShellTypeOK, Goes, Torn
 <2>3. shell'.st # "running" /\ (shell'.st = "idle" => shell'.has = <<cwd, env>>) BY <1>2, <1>4
 <2>4. LockHeld' /\ FilesPolled'
   BY <1>1, <1>2, <1>4, <2>2 DEF ShellInv, LockHeld, FilesPolled, InLock
 <2>5. \A d \in ShellCall : bash'[d].pc # "polling" BY <1>1, <2>2
 <2>6. ScriptWatched' /\ StateKnown' /\ ClosedForGood'
   BY <1>2, <1>4, <2>2, <2>3, <2>5 DEF ScriptWatched, StateKnown, ClosedForGood
 <2> QED BY <2>1, <2>4, <2>6 DEF ShellInv
<1>5. CASE /\ shell' = [shell EXCEPT !.st = "running", !.by = c]
           /\ Goes(c, "polling")
           /\ UNCHANGED <<holder, cwd, env, files, job, closing>>
 <2>1. ShellTypeOK' BY <1>5, ZenonT(40) DEF ShellInv, ShellTypeOK, Goes
 <2>2. /\ bash'[c].pc = "polling" /\ shell'.st = "running" /\ shell'.by = c
       /\ \A d \in ShellCall \ {c} : bash'[d] = bash[d]
       /\ Torn' = Torn
   BY <1>5 DEF ShellInv, ShellTypeOK, Goes, Torn
 <2>3. LockHeld' /\ FilesPolled'
   BY <1>1, <1>2, <1>5, <2>2 DEF ShellInv, LockHeld, FilesPolled, InLock
 <2>4. ScriptWatched' /\ StateKnown' /\ ClosedForGood'
   BY <1>1, <1>2, <1>5, <2>2 DEF ScriptWatched, StateKnown, ClosedForGood
 <2> QED BY <2>1, <2>3, <2>4 DEF ShellInv
<1> QED BY <1>3, <1>4, <1>5 DEF ChecksOpen, Starts, WritesScript, NeedsStart

\* The next file is there; after the status bash waits for input in the state of the call.
LEMMA ScriptStepInv == ShellInv /\ ScriptStep => ShellInv'
<1> SUFFICES ASSUME ShellInv, ScriptStep PROVE ShellInv' OBVIOUS
<1> DEFINE c == shell.by
           more == files[c] \union {ScriptOrder[Written(c) + 1]}
           last == Written(c) + 1 = Len(ScriptOrder)
<1>1. /\ c \in ShellCall /\ holder = c /\ bash[c].pc = "polling" /\ "status" \notin files[c]
      /\ files[c] \in Progress
      /\ \A d \in ShellCall \ {c} : bash[d].pc # "polling"
  BY DEF ScriptStep, ShellInv, ScriptWatched, FilesPolled, LockHeld, InLock
<1>2. more \in Progress /\ ("status" \in more <=> last) BY <1>1, NextFile
<1>3. /\ files' = [files EXCEPT ![c] = more]
      /\ shell' = [shell EXCEPT !.has = <<c, c>>, !.st = IF last THEN "idle" ELSE "running"]
      /\ UNCHANGED <<bash, holder, cwd, env, job, closing>>
  BY DEF ScriptStep
<1>4. more \in SUBSET Range(ScriptOrder) BY <1>2, FileNames DEF Progress
<1>5. /\ files'[c] = more /\ \A d \in ShellCall \ {c} : files'[d] = files[d]
      /\ shell'.has = <<c, c>> /\ shell'.by = c
      /\ shell'.st = IF last THEN "idle" ELSE "running"
  BY <1>1, <1>3 DEF ShellInv, ShellTypeOK
<1> HIDE DEF c, more, last
<1>6. ShellTypeOK' BY <1>1, <1>3, <1>4 DEF ShellInv, ShellTypeOK
<1>7. LockHeld' /\ FilesPolled'
  BY <1>1, <1>2, <1>3, <1>5 DEF ShellInv, LockHeld, FilesPolled
<1>8. ScriptWatched' /\ StateKnown'
  BY <1>1, <1>2, <1>3, <1>5 DEF ShellInv, ScriptWatched, StateKnown, Torn
<1>9. ClosedForGood' BY <1>1, <1>3, NobodyIsNoCall DEF ShellInv, ClosedForGood
<1> QED BY <1>6, <1>7, <1>8, <1>9 DEF ShellInv

\* A call that polls ends: with what the script left, or with the shell killed.
LEMMA PollStep ==
  ASSUME ShellInv, NEW c \in ShellCall,
         Finishes(c) \/ SeesDeath(c) \/ TimesOut(c) \/ BreaksOff(c)
  PROVE  ShellInv'
<1>1. bash[c].pc = "polling" /\ bash[c].pc \in InLock /\ holder = c
  BY DEF ShellInv, LockHeld, InLock, Finishes, SeesDeath, TimesOut, BreaksOff
<1>2. (Returns(c) \/ Tears(c)) /\ UNCHANGED <<job, closing>>
  BY DEF Finishes, SeesDeath, TimesOut, BreaksOff, Collect
<1>3. /\ shell \in Shells /\ cwd \in Owner /\ env \in Owner /\ c \in Owner
      /\ cwd = env \/ cwd \in Torn
  BY DEF ShellInv, ShellTypeOK, StateKnown, Owner, Shells
<1>4. \A sh \in Shells : Killed(sh) \in Shells /\ Killed(sh).st \notin {"running", "idle"}
  BY DEF Shells, Killed
<1>5. Returns(c) => Torn' = Torn
  BY DEF ShellInv, ShellTypeOK, Returns, Goes, Torn
<1>6. Tears(c) => c \in Torn'
  BY DEF ShellInv, ShellTypeOK, Tears, Torn
<1>7. ASSUME UNCHANGED <<cwd, env>>, Returns(c) PROVE cwd' = env' \/ cwd' \in Torn'
  BY <1>3, <1>5, <1>7
<1>8. ASSUME NEW sh \in Shells, Collect(c, sh),
             "status" \in files[c] => sh.st # "running" /\ (sh.st = "idle" => sh.has = <<c, c>>),
             "status" \notin files[c] => sh.st \notin {"running", "idle"}
      PROVE  ShellInv'
 <2>1. CASE Returns(c) /\ UNCHANGED <<cwd, env>> /\ shell' = OnException(sh)
   BY <1>1, <1>2, <1>3, <1>4, <1>7, <2>1, ReturnStep DEF OnException
 <2>2. CASE Tears(c) /\ cwd' = c /\ env' = env /\ shell' = OnException(sh)
   BY <1>1, <1>2, <1>3, <1>4, <1>6, <2>2, ReturnStep DEF OnException
 <2>3. CASE /\ cwd' = IF Takes(c, "cwd") THEN c ELSE cwd
            /\ env' = IF Takes(c, "vars") THEN c ELSE env
            /\ shell' \in {sh, OnException(sh)}
            /\ Returns(c)
  <3>1. CASE "status" \in files[c]
   <4>1. cwd' = c /\ env' = c BY <2>3, <3>1 DEF Takes
   <4>2. shell' \in Shells /\ shell'.st # "running" /\ (shell'.st = "idle" => shell'.has = <<c, c>>)
     BY <1>4, <1>8, <2>3, <3>1 DEF OnException
   <4> QED BY <1>1, <1>2, <1>3, <4>1, <4>2, ReturnStep
  <3>2. CASE "status" \notin files[c]
   <4>1. UNCHANGED <<cwd, env>> BY <2>3, <3>2 DEF Takes
   <4>2. shell' \in Shells /\ shell'.st \notin {"running", "idle"}
     BY <1>4, <1>8, <2>3, <3>2 DEF OnException
   <4> QED BY <1>1, <1>2, <1>3, <1>7, <2>3, <4>1, <4>2, ReturnStep
  <3> QED BY <3>1, <3>2
 <2> QED BY <1>8, <2>1, <2>2, <2>3 DEF Collect
<1>9. CASE BreaksOff(c)
  BY <1>1, <1>2, <1>3, <1>4, <1>7, <1>9, ReturnStep DEF BreaksOff, OnException
<1>10. CASE SeesDeath(c) \/ TimesOut(c)
 <2>1. PICK sh \in Shells : sh.st \notin {"running", "idle"} /\ Collect(c, sh)
   BY <1>3, <1>4, <1>10 DEF SeesDeath, TimesOut
 <2> QED BY <1>8, <2>1
<1>11. CASE Finishes(c)
 <2>1. "status" \in files[c] /\ Collect(c, shell) BY <1>11 DEF Finishes
 <2>2. shell.st # "running" BY <1>1, <2>1 DEF ShellInv, ScriptWatched
 <2>3. shell.st = "idle" => shell.has = <<c, c>> BY <1>1 DEF ShellInv, StateKnown
 <2> QED BY <1>3, <1>8, <2>1, <2>2, <2>3
<1> QED BY <1>9, <1>10, <1>11

\* The shell exits by itself or close() kills it, whoever holds the lock.
LEMMA KillStep ==
  ASSUME ShellInv, ShellExits \/ CloseBegins \/ CloseKills
  PROVE  ShellInv'
<1>1. /\ shell' \in {shell, Killed(shell)}
      /\ closing' # "done" \/ closing' = closing
      /\ UNCHANGED <<bash, holder, cwd, env, files, job>>
  BY DEF ShellExits, CloseBegins, CloseKills
<1>2. Killed(shell).st \in {"none", "dead"} /\ (shell.st = "none" => Killed(shell) = shell)
  BY DEF ShellInv, ShellTypeOK, Killed
<1>3. ShellTypeOK' BY DEF ShellInv, ShellTypeOK, ShellExits, CloseBegins, CloseKills, Killed
<1>4. LockHeld' /\ FilesPolled' BY <1>1 DEF ShellInv, LockHeld, FilesPolled
<1>5. ScriptWatched' /\ StateKnown'
  BY <1>1, <1>2 DEF ShellInv, ScriptWatched, StateKnown, Torn
<1>6. ClosedForGood' BY <1>1, <1>2 DEF ShellInv, ClosedForGood
<1> QED BY <1>3, <1>4, <1>5, <1>6 DEF ShellInv

LEMMA CloseStep == ShellInv /\ CloseEnds => ShellInv'
<1> SUFFICES ASSUME ShellInv, CloseEnds PROVE ShellInv' OBVIOUS
<1>1. ShellTypeOK' BY DEF ShellInv, ShellTypeOK, CloseEnds, NoShell
<1>2. LockHeld' /\ FilesPolled' BY DEF ShellInv, LockHeld, FilesPolled, CloseEnds
<1>3. ScriptWatched' /\ StateKnown'
  BY DEF ShellInv, StateKnown, ScriptWatched, CloseEnds, NoShell, Torn
<1>4. ClosedForGood' BY DEF CloseEnds, ClosedForGood, NoShell
<1> QED BY <1>1, <1>2, <1>3, <1>4 DEF ShellInv

LEMMA ShellStep == ShellInv /\ [ShellNext]_shellVars => ShellInv'
<1> SUFFICES ASSUME ShellInv, [ShellNext]_shellVars PROVE ShellInv' OBVIOUS
<1>1. ASSUME NEW c \in ShellCall,
             \/ \E aside \in BOOLEAN : Asks(c, aside)
             \/ Cancel(c) \/ GivesUp(c) \/ JobEnds(c)
      PROVE  ShellInv'
  BY <1>1, OutsideStep
<1>2. ASSUME NEW c \in ShellCall, Enter(c) PROVE ShellInv' BY <1>2, EnterStep
<1>3. ASSUME NEW c \in ShellCall, ChecksOpen(c) \/ Starts(c) \/ WritesScript(c) PROVE ShellInv'
  BY <1>3, StartStep
<1>4. ASSUME NEW c \in ShellCall, Finishes(c) \/ SeesDeath(c) \/ TimesOut(c) \/ BreaksOff(c)
      PROVE  ShellInv'
  BY <1>4, PollStep
<1>5. CASE UNCHANGED shellVars
  BY <1>5 DEF shellVars, ShellInv, ShellTypeOK, LockHeld, FilesPolled, ScriptWatched, StateKnown,
     ClosedForGood, Torn
<1> QED BY <1>1, <1>2, <1>3, <1>4, <1>5, ScriptStepInv, KillStep, CloseStep DEF ShellNext

\* In every interleaving of calls, cancellations, kills and the closing thread, nothing runs in
\* the shell between two calls, a bash that is alive has the directory and the variables that are
\* kept, these are of one command unless that command's variables could not be read, and after
\* close() no process is left (shell.py 163-213, 283-369).
THEOREM ShellLeavesNothing == ShellSpec => []NothingLeftRunning
<1>1. ShellInv => NothingLeftRunning
 <2> SUFFICES ASSUME ShellInv PROVE NothingLeftRunning OBVIOUS
 <2>1. holder = Nobody => \A c \in ShellCall : bash[c].pc # "polling"
   BY NobodyIsNoCall DEF ShellInv, LockHeld, InLock
 <2> QED
   BY <2>1, NobodyIsNoCall
      DEF ShellInv, ScriptWatched, StateKnown, ClosedForGood, NothingLeftRunning
<1> QED BY <1>1, ShellInitInv, ShellStep, PTL DEF ShellSpec

-----------------------------------------------------------------------------
(* MCP connections. *)

\* A loop that runs is that of the connection in use; while the manager closes every one of them
\* is on its way out, and a load begins only when none is left.
McpInv ==
  /\ McpTypeOK
  /\ \A n \in Running : n = inUse
  /\ manager = "loading" => Running = {} /\ inUse = 0 /\ offered = 0
  /\ manager \in {"closing", "exiting"} => \A n \in Running : conn[n].loop = "leaving"
  /\ offered # 0 => offered = inUse

\* What a connection may look like.
Connection ==
  [loop : {"none", "connecting", "saving", "up", "unwinding", "pause", "leaving", "over"},
   session : {"none", "live", "broken"}, ready : BOOLEAN, reconnect : BOOLEAN]

CallState == [pc : {"none", "waiting", "woken", "calling", "done"}, on : 0 .. MaxLoads]

LEMMA McpInitInv == McpInit => McpInv
BY McpBounds DEF McpInit, McpInv, McpTypeOK, Running, Unused, Load

\* Steps that neither start nor end a loop and leave the manager alone.
LEMMA SameLoops ==
  ASSUME McpInv, McpTypeOK', \A n \in Load : conn'[n].loop = conn[n].loop,
         UNCHANGED <<inUse, manager, offered>>
  PROVE  McpInv'
BY DEF McpInv, Running

LEMMA ManagerStep ==
  ASSUME McpInv,
         \/ \E cached \in BOOLEAN : StartsLoop(cached)
         \/ StartsNothing \/ ReloadBegins \/ AppExits \/ Reloads \/ Exits
  PROVE  McpInv'
<1>1. ASSUME NEW cached \in BOOLEAN, StartsLoop(cached) PROVE McpInv'
 <2>a. loads + 1 \in 1 .. MaxLoads BY <1>1, McpBounds DEF StartsLoop, McpInv, McpTypeOK
 <2>b. conn' \in [Load -> Connection]
   BY <1>1, <2>a DEF StartsLoop, McpInv, McpTypeOK, Load, Connection
 <2>c. inUse' \in 0 .. MaxLoads /\ loads' \in 0 .. MaxLoads /\ offered' \in 0 .. MaxLoads
   BY <1>1, <2>a, McpBounds DEF StartsLoop, McpInv, McpTypeOK
 <2>1. McpTypeOK' BY <1>1, <2>b, <2>c DEF StartsLoop, McpInv, McpTypeOK, Connection
 <2>2. loads + 1 \in Load /\ conn'[loads + 1].loop = "connecting"
       /\ \A n \in Load \ {loads + 1} : conn'[n] = conn[n]
   BY <1>1, McpBounds DEF StartsLoop, McpInv, McpTypeOK, Load
 <2>3. Running' = {loads + 1} BY <1>1, <2>2 DEF StartsLoop, McpInv, Running
 <2> QED BY <1>1, <2>1, <2>3 DEF StartsLoop, McpInv
<1>2. ASSUME StartsNothing PROVE McpInv'
  BY <1>2, McpBounds DEF StartsNothing, McpInv, McpTypeOK, Running
<1>3. ASSUME ReloadBegins \/ AppExits PROVE McpInv'
 <2>1. PICK to \in {"closing", "exiting"} : Shuts(to) BY <1>3 DEF ReloadBegins, AppExits
 <2>2. McpTypeOK' BY <2>1 DEF Shuts, McpInv, McpTypeOK, Running
 <2>3. Running' = Running /\ \A n \in Running : conn'[n].loop = "leaving"
   BY <2>1 DEF Shuts, McpInv, McpTypeOK, Running
 <2> QED BY <2>1, <2>2, <2>3 DEF Shuts, McpInv
<1>4. ASSUME Reloads \/ Exits PROVE McpInv'
  BY <1>4, McpBounds DEF Reloads, Exits, Gathered, McpInv, McpTypeOK, Running
<1> QED BY <1>1, <1>2, <1>3, <1>4

\* A loop goes from one await to the next; only its own connection changes.
LEMMA LoopStepInv ==
  ASSUME McpInv, NEW n \in Load, LoopStep(n)
  PROVE  McpInv'
<1>1. McpTypeOK'
 <2>1. \/ glitches' = glitches
       \/ glitches < MaxOutages /\ glitches' = glitches + 1
   BY DEF LoopStep, Loop, Connects, ConnectFails, Saved, Drops, Unwinds, Retries, Leaves
 <2>2. glitches' \in 0 .. MaxOutages BY <2>1, McpBounds DEF McpInv, McpTypeOK
 <2>3. conn' \in [Load -> Connection]
  <3>1. conn \in [Load -> Connection] /\ conn[n] \in Connection
    BY DEF McpInv, McpTypeOK, Connection
  <3>2. ASSUME Connects(n) \/ ConnectFails(n) \/ Saved(n) \/ Drops(n)
        PROVE  \E to \in Connection : conn' = [conn EXCEPT ![n] = to]
    BY <3>1, <3>2 DEF Loop, Connects, ConnectFails, Saved, Drops, Connection
  <3>3. ASSUME Unwinds(n) \/ Retries(n) \/ Leaves(n)
        PROVE  \E to \in Connection : conn' = [conn EXCEPT ![n] = to]
    BY <3>1, <3>3 DEF Loop, Unwinds, Retries, Leaves, Connection
  <3> QED BY <3>1, <3>2, <3>3 DEF LoopStep
 <2>4. offered' \in 0 .. MaxLoads
   BY McpBounds DEF LoopStep, Connects, ConnectFails, Saved, Drops, Unwinds, Retries,
      Leaves, McpInv, McpTypeOK, Load
 <2> QED
   BY <2>2, <2>3, <2>4 DEF LoopStep, Loop, Connects, ConnectFails, Saved, Drops, Unwinds, Retries,
      Leaves, McpInv, McpTypeOK, Connection
<1>2. n \in Running /\ \A m \in Load \ {n} : conn'[m] = conn[m]
  BY DEF LoopStep, Loop, Connects, ConnectFails, Saved, Drops, Unwinds, Retries, Leaves, Running,
     McpInv, McpTypeOK
<1>3. Running' \subseteq Running BY <1>2 DEF Running
<1>4. offered' \in {offered, n} /\ UNCHANGED <<inUse, manager>>
  BY DEF LoopStep, Loop, Connects, ConnectFails, Saved, Drops, Unwinds, Retries, Leaves
<1>5. n = inUse /\ manager # "loading" BY <1>2 DEF McpInv
<1>6. conn[n].loop = "leaving" => n \notin Running'
 <2>1. conn[n].loop = "leaving" => Leaves(n)
   BY DEF LoopStep, Loop, Connects, ConnectFails, Saved, Drops, Unwinds, Retries
 <2>2. Leaves(n) => conn'[n].loop = "over" BY DEF Leaves, Loop, McpInv, McpTypeOK
 <2> QED BY <2>1, <2>2 DEF Running
<1>7. manager \in {"closing", "exiting"} => \A m \in Running' : conn'[m].loop = "leaving"
  BY <1>2, <1>3, <1>6 DEF McpInv, Running
<1> QED BY <1>1, <1>3, <1>4, <1>5, <1>7 DEF McpInv

LEMMA ServerAndCallsStep ==
  ASSUME McpInv,
         \/ GoesDown \/ ComesUp \/ ReconnectCommand
         \/ \E c \in ToolCall :
              CallBegins(c) \/ CallWakes(c) \/ CallRuns(c) \/ CallAnswered(c) \/ CallFails(c)
  PROVE  McpInv'
<1>1. CASE GoesDown BY <1>1, McpBounds, SameLoops DEF GoesDown, McpInv, McpTypeOK
<1>2. CASE ComesUp BY <1>2, SameLoops DEF ComesUp, McpInv, McpTypeOK
<1>3. CASE ReconnectCommand
 <2>1. conn \in [Load -> Connection] /\ conn' = [conn EXCEPT ![inUse].reconnect = TRUE]
       /\ UNCHANGED <<server, inUse, manager, loads, offered, toolCall, outages, glitches>>
   BY <1>3 DEF ReconnectCommand, McpInv, McpTypeOK, Connection
 <2>2. inUse \in Load BY <1>3, McpBounds DEF ReconnectCommand, McpInv, McpTypeOK, Load
 <2>3. [conn[inUse] EXCEPT !.reconnect = TRUE] \in Connection BY <2>1, <2>2 DEF Connection
 <2>4. conn' = [conn EXCEPT ![inUse] = [conn[inUse] EXCEPT !.reconnect = TRUE]] BY <2>1
 <2>5. conn' \in [Load -> Connection] /\ \A n \in Load : conn'[n].loop = conn[n].loop
   BY <2>1, <2>2, <2>3, <2>4 DEF Connection
 <2> QED BY <2>1, <2>5, SameLoops DEF McpInv, McpTypeOK, Connection
<1>4. ASSUME NEW c \in ToolCall, CallBegins(c) \/ CallWakes(c) \/ CallRuns(c) \/ CallAnswered(c)
      PROVE  McpInv'
 <2>1. UNCHANGED <<server, conn, inUse, manager, loads, offered, outages, glitches>>
   BY <1>4 DEF CallBegins, CallWakes, CallRuns, CallAnswered, Steps
 <2>2. toolCall' \in [ToolCall -> CallState]
   BY <1>4 DEF CallBegins, CallWakes, CallRuns, CallAnswered, Steps, McpInv, McpTypeOK, CallState
 <2> QED BY <2>1, <2>2, SameLoops DEF McpInv, McpTypeOK, CallState
<1>5. ASSUME NEW c \in ToolCall, CallFails(c) PROVE McpInv'
 <2>1. \A n \in Load : conn'[n].loop = conn[n].loop BY <1>5 DEF CallFails, McpInv, McpTypeOK
 <2>a. conn' \in [Load -> Connection]
  <3> DEFINE n == toolCall[c].on
  <3>1. conn \in [Load -> Connection] /\ conn' = [conn EXCEPT ![n].reconnect = TRUE]
    BY <1>5 DEF CallFails, McpInv, McpTypeOK, Connection
  <3>2. CASE n \in Load
   <4>1. [conn[n] EXCEPT !.reconnect = TRUE] \in Connection
     BY <3>1, <3>2, ZenonT(40) DEF Connection
   <4>2. conn' = [conn EXCEPT ![n] = [conn[n] EXCEPT !.reconnect = TRUE]] BY <3>1
   <4> QED BY <3>1, <4>1, <4>2
  <3>3. CASE n \notin Load BY <3>1, <3>3
  <3> QED BY <3>2, <3>3
 <2>b. toolCall' \in [ToolCall -> CallState]
   BY <1>5 DEF CallFails, Steps, McpInv, McpTypeOK, CallState
 <2>2. McpTypeOK'
   BY <1>5, <2>a, <2>b DEF CallFails, Steps, McpInv, McpTypeOK, Connection, CallState
 <2> QED BY <1>5, <2>1, <2>2, SameLoops DEF CallFails, Steps
<1> QED BY <1>1, <1>2, <1>3, <1>4, <1>5

LEMMA McpStep == McpInv /\ [McpNext]_mcpVars => McpInv'
<1>1. McpInv /\ UNCHANGED mcpVars => McpInv' BY DEF mcpVars, McpInv, McpTypeOK, Running
<1> QED BY <1>1, ManagerStep, LoopStepInv, ServerAndCallsStep DEF McpNext

\* However loads, reloads, failures and calls interleave, at most one loop is connected to the
\* server, that of the connection in use, and the tools on offer are the ones it published
\* (mcp.py 361-379, 500-521).
THEOREM ServerHasOneConnection == McpSpec => []OneConnection
<1>1. McpInv => OneConnection
 <2> SUFFICES ASSUME McpInv PROVE OneConnection OBVIOUS
 <2>1. Running \subseteq {inUse} BY DEF McpInv
 <2>2. IsFiniteSet({inUse}) /\ Cardinality({inUse}) = 1 BY FS_Singleton
 <2>3. IsFiniteSet(Running) /\ Cardinality(Running) <= 1 BY <2>1, <2>2, FS_Subset
 <2> QED BY <2>3 DEF McpInv, OneConnection
<1> QED BY <1>1, McpInitInv, McpStep, PTL DEF McpSpec

-----------------------------------------------------------------------------
(* The advisor: the inductive invariant. NothingSkipped speaks of the       *)
(* moments between looks; a look moves the cursor and may be cut off        *)
(* anywhere, so the invariant follows what a look has yet to take back.     *)

Entries == SUBSET Nat
AdvisorRuns == [st : {"queued", "running", "idle", "parked", "over"}, inbox : Seq(Entries),
                doing : Entries, outbox : Seq(Entries), fits : BOOLEAN, ending : BOOLEAN]
Looks == [pc : {"none", "begun", "refitting", "reseeding", "replacing", "spawning", "busy",
                "advice", "announcing"},
          seen : Seq(Nat), prompt : Entries, target : Nat, before : Nat, own : BOOLEAN]

AdvisorTyped ==
  /\ transcript \in Seq(Nat) /\ turns \in Nat
  /\ run \in AdvisorRuns /\ look \in Looks
  /\ svc \in [cursor : Nat, mine : BOOLEAN, spawn : Entries]
  /\ answered \in Entries /\ excused \in Entries

\* Every number in use is that of a turn there has been, so that the next turn's is new.
NumbersAreOld ==
  /\ Range(transcript) \subseteq 1 .. turns /\ Range(look.seen) \subseteq 1 .. turns
  /\ svc.cursor <= turns /\ look.before <= turns /\ look.target <= turns

\* The cursor that is in force when the look is cut off.
Looked == IF look.pc \in {"replacing", "spawning", "busy", "advice"} THEN look.before ELSE svc.cursor

\* What the next advice can rely on: the service's own run was told, any other is not known.
Relied == IF svc.mine THEN answered \union excused ELSE excused

\* A cursor passes no entry that is neither heard nor excused; while the run is let go because it
\* does not fit, the cursor is about to be taken back.
CursorIsHeard == look.pc # "refitting" /\ (svc.mine => Alive) => Upto(Looked, transcript) \subseteq Relied

\* Where the cursor is to go, all that is new is in the prompt.
PromptIsWhole ==
  look.pc \in {"replacing", "spawning", "busy", "advice"} /\ (svc.mine => Alive) =>
    Upto(look.target, transcript) \ look.prompt \subseteq Relied

\* The transcript that a reseeding look has seen: what is left of it came first.
SeenCameFirst ==
  look.pc = "reseeding" => \A e \in Range(look.seen) : Upto(e, transcript) \subseteq Range(look.seen)

\* A task that spawns has no run beside it; a run is let go before another is made.
OneAdvisorRun ==
  /\ svc.spawn # {} => ~svc.mine /\ ~Alive
  /\ look.pc \in {"refitting", "reseeding", "replacing"} => ~svc.mine /\ svc.spawn = {}
  /\ look.pc \in {"busy", "advice", "announcing"} => svc.mine
  /\ look.pc = "spawning" /\ look.own /\ svc.spawn # {} => svc.spawn = look.prompt

\* The advice a look waits for can only be the one to its own prompt, or the prompt is excused.
OnlyPrompt ==
  /\ run.st # "running" => run.doing = {}
  /\ look.pc = "advice" =>
       /\ svc.cursor = look.target
       /\ \/ look.prompt \subseteq excused
          \/ /\ Range(run.inbox) \subseteq {look.prompt} /\ Range(run.outbox) \subseteq {look.prompt}
             /\ run.doing \in {{}, look.prompt}

AdvisorInv == /\ AdvisorTyped /\ NumbersAreOld /\ CursorIsHeard /\ PromptIsWhole
              /\ SeenCameFirst /\ OneAdvisorRun /\ OnlyPrompt

-----------------------------------------------------------------------------
(* What is passed when the transcript grows and shrinks. *)

LEMMA UptoIsThere ==
  ASSUME NEW path \in Seq(Nat), NEW e
  PROVE  Upto(e, path) \subseteq Range(path) /\ (e \notin Range(path) => Upto(e, path) = {})
<1>1. DOMAIN path = 1 .. Len(path) /\ Len(path) \in Nat OBVIOUS
<1>2. ASSUME NEW j \in DOMAIN path, NEW k \in j .. Len(path) PROVE k \in DOMAIN path BY <1>1
<1> QED BY <1>2 DEF Upto, Range

LEMMA UptoAppend ==
  ASSUME NEW path \in Seq(Nat), NEW x \in Nat, NEW e, e # x
  PROVE  Upto(e, Append(path, x)) = Upto(e, path)
<1> DEFINE longer == Append(path, x)
           n == Len(path)
           Behind(p) == {j \in DOMAIN p : \E k \in j .. Len(p) : p[k] = e}
<1>1. /\ n \in Nat /\ DOMAIN path = 1 .. n /\ Len(longer) = n + 1 /\ DOMAIN longer = 1 .. n + 1
      /\ longer[n + 1] = x /\ \A i \in 1 .. n : longer[i] = path[i]
  OBVIOUS
<1> HIDE DEF longer, n
<1>2. n = Len(path) BY DEF n
<1>3. Behind(longer) = Behind(path)
 <2>1. ASSUME NEW j \in 1 .. n + 1, NEW k \in j .. n + 1, longer[k] = e
       PROVE  j \in 1 .. n /\ k \in j .. n /\ path[k] = e
  <3>1. k # n + 1 BY <1>1, <2>1
  <3>2. k \in j .. n /\ k \in 1 .. n /\ j \in 1 .. n BY <1>1, <2>1, <3>1
  <3> QED BY <1>1, <2>1, <3>2
 <2>2. ASSUME NEW j \in 1 .. n, NEW k \in j .. n, path[k] = e
       PROVE  j \in 1 .. n + 1 /\ k \in j .. n + 1 /\ longer[k] = e
  <3>1. k \in j .. n + 1 /\ k \in 1 .. n /\ j \in 1 .. n + 1 BY <1>1, <2>2
  <3> QED BY <1>1, <2>2, <3>1
 <2> QED BY <1>1, <1>2, <2>1, <2>2
<1>4. \A j \in Behind(path) : longer[j] = path[j] BY <1>1, <1>2
<1>5. /\ Upto(e, longer) = {longer[j] : j \in Behind(longer)}
      /\ Upto(e, path) = {path[j] : j \in Behind(path)}
  BY DEF Upto
<1> HIDE DEF Behind
<1>6. Upto(e, longer) = Upto(e, path) BY <1>3, <1>4, <1>5
<1> QED BY <1>6 DEF longer

LEMMA UptoShrinks ==
  ASSUME NEW path \in Seq(Nat), NEW n \in 0 .. Len(path) - 1, NEW e
  PROVE  /\ SubSeq(path, 1, n) \in Seq(Nat)
         /\ Upto(e, SubSeq(path, 1, n)) \subseteq Upto(e, path)
         /\ Range(SubSeq(path, 1, n)) \subseteq Range(path)
<1> DEFINE s == SubSeq(path, 1, n)
<1>1. /\ s \in Seq(Nat) /\ Len(s) = n /\ DOMAIN s = 1 .. n /\ DOMAIN path = 1 .. Len(path)
      /\ Len(path) \in Nat /\ n \in Nat /\ n <= Len(path) /\ \A i \in 1 .. n : s[i] = path[i]
  OBVIOUS
<1> HIDE DEF s
<1>2. ASSUME NEW j \in 1 .. n, NEW k \in j .. n, s[k] = e
      PROVE  j \in DOMAIN path /\ k \in j .. Len(path) /\ path[k] = e
  BY <1>1, <1>2
<1>3. Upto(e, s) \subseteq Upto(e, path) BY <1>1, <1>2 DEF Upto
<1>4. Range(s) \subseteq Range(path) BY <1>1 DEF Range
<1> QED BY <1>1, <1>3, <1>4 DEF s

LEMMA AdvisorRanges ==
  ASSUME NEW S, NEW q \in Seq(S), NEW x \in S
  PROVE  /\ Range(Append(q, x)) = Range(q) \union {x}
         /\ q # <<>> => /\ Range(Tail(q)) \subseteq Range(q) /\ Head(q) \in Range(q)
                        /\ Last(q) \in Range(q) /\ Last(q) \in S
         /\ Range(q) \subseteq S
<1>1. /\ Len(q) \in Nat /\ DOMAIN q = 1 .. Len(q) /\ DOMAIN Append(q, x) = 1 .. Len(q) + 1
      /\ Append(q, x)[Len(q) + 1] = x /\ \A i \in 1 .. Len(q) : Append(q, x)[i] = q[i] /\ q[i] \in S
  OBVIOUS
<1>2. Range(Append(q, x)) = Range(q) \union {x}
 <2>1. Range(Append(q, x)) = {Append(q, x)[i] : i \in 1 .. Len(q) + 1} /\ Range(q) = {q[i] : i \in 1 .. Len(q)}
   BY <1>1 DEF Range
 <2> QED BY <1>1, <2>1
<1>3. ASSUME q # <<>>
      PROVE  Range(Tail(q)) \subseteq Range(q) /\ Head(q) \in Range(q) /\ Last(q) \in Range(q)
 <2>1. Len(q) >= 1 /\ Head(q) = q[1] /\ DOMAIN Tail(q) = 1 .. Len(q) - 1 BY <1>1, <1>3
 <2>2. \A i \in 1 .. Len(q) - 1 : Tail(q)[i] = q[i + 1] /\ i + 1 \in 1 .. Len(q)
   BY <1>1, <1>3, <2>1
 <2>3. Head(q) \in Range(q) /\ Last(q) \in Range(q) BY <1>1, <2>1 DEF Range, Last
 <2> QED BY <1>1, <2>1, <2>2, <2>3 DEF Range
<1>4. Range(q) \subseteq S BY <1>1 DEF Range
<1> QED BY <1>2, <1>3, <1>4

-----------------------------------------------------------------------------
(* A look that goes on with a prompt. *)

Services == [cursor : Nat, mine : BOOLEAN, spawn : Entries]

\* s and l are what the service and the look have become on the way to the run.
Ready(s, l) ==
  /\ s \in Services /\ l \in Looks
  /\ s.cursor <= turns /\ l.before <= turns /\ l.target <= turns /\ Range(l.seen) \subseteq 1 .. turns
  /\ (s.mine => Alive) /\ (s.spawn # {} => ~s.mine /\ ~Alive)
  /\ LET relied == IF s.mine THEN answered \union excused ELSE excused
     IN  Upto(l.before, transcript) \subseteq relied /\ Upto(l.target, transcript) \ l.prompt \subseteq relied

\* What such a step finds, and leaves alone.
Going ==
  /\ AdvisorTyped /\ Range(transcript) \subseteq 1 .. turns /\ (run.st # "running" => run.doing = {})
  /\ UNCHANGED <<transcript, turns, answered>>

LEMMA SendsStep ==
  ASSUME NEW s, NEW l, Ready(s, l), Going, Alive, run.st # "running", Sends(s, l)
  PROVE  AdvisorInv'
<1>1. /\ run' = [run EXCEPT !.outbox = <<>>, !.inbox = Append(@, l.prompt),
                            !.st = IF @ = "parked" THEN "idle" ELSE @]
      /\ svc' = [s EXCEPT !.mine = TRUE, !.cursor = l.target]
      /\ look' = [l EXCEPT !.pc = "advice"]
      /\ excused' = (IF run.st = "queued" \/ run.inbox # <<>> THEN excused \union l.prompt ELSE excused)
      /\ transcript' = transcript /\ turns' = turns /\ answered' = answered
  BY DEF Sends, Drained, Going
<1>2. /\ run \in AdvisorRuns /\ s \in Services /\ l \in Looks /\ l.prompt \in Entries
      /\ transcript \in Seq(Nat) /\ turns \in Nat /\ answered \in Entries /\ excused \in Entries
  BY DEF Going, AdvisorTyped, Ready, Looks
<1>3. /\ run'.st # "running" /\ run'.st # "over" /\ run'.doing = {} /\ run'.outbox = <<>>
      /\ run'.inbox = Append(run.inbox, l.prompt) /\ run' \in AdvisorRuns
 <2>1. /\ run.inbox \in Seq(Entries) /\ run.doing = {} /\ run.st \in {"queued", "idle", "parked"}
       /\ Append(run.inbox, l.prompt) \in Seq(Entries) /\ <<>> \in Seq(Entries)
   BY <1>2 DEF Going, Alive, AdvisorRuns
 <2>2. run' = [run EXCEPT !.outbox = <<>>, !.inbox = Append(run.inbox, l.prompt),
                          !.st = IF run.st = "parked" THEN "idle" ELSE run.st]
   BY <1>1, <1>2 DEF AdvisorRuns
 <2> QED BY <1>2, <2>1, <2>2 DEF AdvisorRuns
<1>4. /\ svc'.mine /\ svc'.cursor = l.target /\ svc'.spawn = s.spawn /\ svc' \in Services
      /\ look'.pc = "advice" /\ look'.prompt = l.prompt /\ look'.target = l.target
      /\ look'.before = l.before /\ look'.seen = l.seen /\ look'.own = l.own /\ look' \in Looks
  BY <1>1, <1>2 DEF Services, Looks
<1>5. AdvisorTyped' BY <1>1, <1>2, <1>3, <1>4 DEF AdvisorTyped, Services, Entries
<1>6. NumbersAreOld' BY <1>1, <1>4 DEF NumbersAreOld, Going, Ready
<1>7. excused \subseteq excused' /\ s.spawn = {} BY <1>1 DEF Ready
<1>8. CursorIsHeard' /\ PromptIsWhole'
  BY <1>1, <1>4, <1>7 DEF CursorIsHeard, PromptIsWhole, Looked, Relied, Ready
<1>9. SeenCameFirst' /\ OneAdvisorRun' BY <1>4, <1>7 DEF SeenCameFirst, OneAdvisorRun
<1>10. OnlyPrompt'
 <2>1. CASE run.st = "queued" \/ run.inbox # <<>> BY <1>1, <1>3, <1>4, <2>1 DEF OnlyPrompt
 <2>2. CASE run.inbox = <<>>
  <3>1. run'.inbox = <<l.prompt>> BY <1>3, <2>2
  <3>2. Range(<<l.prompt>>) = {l.prompt} /\ Range(<<>>) = {} BY DEF Range
  <3> QED BY <1>3, <1>4, <3>1, <3>2 DEF OnlyPrompt
 <2> QED BY <2>1, <2>2
<1> QED BY <1>5, <1>6, <1>8, <1>9, <1>10 DEF AdvisorInv

LEMMA WaitsStep ==
  ASSUME NEW s, NEW l, Ready(s, l), Going, UNCHANGED excused,
         run' \in AdvisorRuns, run'.st = run.st, run'.doing = run.doing,
         svc' \in Services, svc'.cursor = s.cursor, NEW pc \in {"busy", "spawning", "replacing"},
         look' \in Looks, look'.pc = pc, look'.prompt = l.prompt, look'.target = l.target,
         look'.before = l.before, look'.seen = l.seen,
         \/ pc = "busy" /\ svc'.mine /\ Alive /\ svc'.spawn = s.spawn
         \/ pc = "replacing" /\ ~svc'.mine /\ ~s.mine /\ svc'.spawn = {}
         \/ pc = "spawning" /\ ~svc'.mine /\ ~s.mine /\ ~Alive /\ (look'.own => svc'.spawn = l.prompt)
  PROVE  AdvisorInv'
<1>1. transcript' = transcript /\ turns' = turns /\ answered' = answered /\ excused' = excused
  BY DEF Going
<1>2. Alive' = Alive BY DEF Alive
<1>3. AdvisorTyped' /\ NumbersAreOld'
  BY <1>1 DEF AdvisorTyped, Services, NumbersAreOld, Going, Ready
<1>4. CursorIsHeard' /\ PromptIsWhole'
  BY <1>1, <1>2 DEF CursorIsHeard, PromptIsWhole, Looked, Relied, Ready
<1>5. SeenCameFirst' /\ OneAdvisorRun' /\ OnlyPrompt'
  BY <1>1, <1>2 DEF SeenCameFirst, OneAdvisorRun, OnlyPrompt, Going, Ready
<1> QED BY <1>3, <1>4, <1>5 DEF AdvisorInv

LEMMA UsesRunStep ==
  ASSUME NEW s, NEW l, Ready(s, l), Going, Alive, UsesRun(s, l)
  PROVE  AdvisorInv'
<1>1. CASE run.st = "running"
 <2>1. /\ svc' = [s EXCEPT !.mine = TRUE] /\ look' = [l EXCEPT !.pc = "busy"]
       /\ run' = run /\ excused' = excused
   BY <1>1 DEF UsesRun
 <2>2. s \in Services /\ l \in Looks /\ run \in AdvisorRuns
   BY DEF Ready, Going, AdvisorTyped
 <2>3. /\ svc' \in Services /\ svc'.mine /\ svc'.cursor = s.cursor /\ svc'.spawn = s.spawn
       /\ look' \in Looks /\ look'.pc = "busy" /\ look'.prompt = l.prompt /\ look'.target = l.target
       /\ look'.before = l.before /\ look'.seen = l.seen
   BY <2>1, <2>2 DEF Services, Looks
 <2> QED BY <2>1, <2>2, <2>3, WaitsStep
<1>2. CASE run.st # "running" BY <1>2, SendsStep DEF UsesRun
<1> QED BY <1>1, <1>2

LEMMA SpawnsStep ==
  ASSUME NEW s, NEW l, Ready(s, l), Going, ~Alive, Spawns(s, l)
  PROVE  AdvisorInv'
<1>1. /\ svc' = [s EXCEPT !.spawn = IF @ = {} THEN l.prompt ELSE @]
      /\ look' = [l EXCEPT !.pc = "spawning", !.own = (s.spawn = {})]
      /\ run' = run /\ excused' = excused
  BY DEF Spawns
<1>2. s \in Services /\ l \in Looks /\ run \in AdvisorRuns /\ ~s.mine
  BY DEF Ready, Going, AdvisorTyped
<1>3. /\ svc' \in Services /\ svc'.mine = s.mine /\ svc'.cursor = s.cursor
      /\ svc'.spawn = IF s.spawn = {} THEN l.prompt ELSE s.spawn
  BY <1>1, <1>2 DEF Services, Looks
<1>4. /\ look' \in Looks /\ look'.pc = "spawning" /\ look'.prompt = l.prompt /\ look'.target = l.target
      /\ look'.before = l.before /\ look'.seen = l.seen /\ look'.own = (s.spawn = {})
  BY <1>1, <1>2 DEF Looks
<1> QED BY <1>1, <1>2, <1>3, <1>4, WaitsStep

LEMMA ReadyRunStep ==
  ASSUME NEW s, NEW l, Ready(s, l), Going, ReadyRun(s, l)
  PROVE  AdvisorInv'
<1>1. CASE Alive /\ (s.mine \/ run.fits) BY <1>1, UsesRunStep DEF ReadyRun
<1>2. CASE Alive /\ ~s.mine /\ ~run.fits
 <2>1. Resets(s, [l EXCEPT !.pc = "replacing"]) BY <1>2 DEF ReadyRun
 <2>2. /\ svc' = [s EXCEPT !.mine = FALSE] /\ run' = [run EXCEPT !.ending = TRUE]
       /\ look' = [l EXCEPT !.pc = "replacing"] /\ excused' = excused
   BY <2>1 DEF Resets
 <2>3. s \in Services /\ l \in Looks /\ run \in AdvisorRuns /\ s.spawn = {}
   BY <1>2 DEF Ready, Going, AdvisorTyped
 <2>4. /\ svc' \in Services /\ ~svc'.mine /\ svc'.cursor = s.cursor /\ svc'.spawn = {}
       /\ run' \in AdvisorRuns /\ run'.st = run.st /\ run'.doing = run.doing
   BY <2>2, <2>3 DEF Services, AdvisorRuns
 <2>5. /\ look' \in Looks /\ look'.pc = "replacing" /\ look'.prompt = l.prompt
       /\ look'.target = l.target /\ look'.before = l.before /\ look'.seen = l.seen
   BY <2>2, <2>3 DEF Looks
 <2> QED BY <1>2, <2>2, <2>4, <2>5, WaitsStep
<1>3. CASE ~Alive BY <1>3, SpawnsStep DEF ReadyRun
<1> QED BY <1>1, <1>2, <1>3 DEF ReadyRun

LEMMA NoLookFacts ==
  /\ NoLook \in Looks /\ NoLook.pc = "none" /\ NoLook.seen = <<>> /\ Range(NoLook.seen) = {}
  /\ NoLook.before = 0 /\ NoLook.target = 0 /\ NoLook.prompt = {} /\ NoLook.own = FALSE
<1>1. <<>> \in Seq(Nat) /\ Range(<<>>) = {} BY DEF Range
<1> QED BY <1>1 DEF NoLook, Looks, Entries

\* No look is in hand, or one that has only begun; the cursor is in force.
LEMMA RestsStep ==
  ASSUME NEW pc \in {"none", "begun"}, look' = [NoLook EXCEPT !.pc = pc],
         AdvisorTyped', Range(transcript)' \subseteq 1 .. turns', svc'.cursor <= turns',
         svc'.spawn # {} => ~svc'.mine /\ ~Alive', run'.st # "running" => run'.doing = {},
         (svc'.mine => Alive') => Upto(svc'.cursor, transcript') \subseteq
                                    IF svc'.mine THEN answered' \union excused' ELSE excused'
  PROVE  AdvisorInv'
<1>1. /\ look'.pc = pc /\ look'.seen = <<>> /\ look'.before = 0 /\ look'.target = 0
      /\ Range(look'.seen) = {} /\ turns' \in Nat
  BY NoLookFacts DEF Looks, AdvisorTyped
<1>2. NumbersAreOld' BY <1>1 DEF NumbersAreOld
<1>3. CursorIsHeard' /\ PromptIsWhole'
  BY <1>1 DEF CursorIsHeard, PromptIsWhole, Looked, Relied
<1>4. SeenCameFirst' /\ OneAdvisorRun' /\ OnlyPrompt'
  BY <1>1 DEF SeenCameFirst, OneAdvisorRun, OnlyPrompt
<1> QED BY <1>2, <1>3, <1>4 DEF AdvisorInv

\* What a state the service goes on from must fulfil.
Known(s) ==
  /\ s \in Services /\ s.cursor <= turns
  /\ (s.mine => Alive) /\ (s.spawn # {} => ~s.mine /\ ~Alive)
  /\ Upto(s.cursor, transcript) \subseteq IF s.mine THEN answered \union excused ELSE excused

LEMMA LooksAtStep ==
  ASSUME NEW s, Known(s), Going, NEW path \in Seq(Nat), Range(path) \subseteq 1 .. turns,
         path = transcript \/ s.cursor = 0,
         \A e \in Range(path) : Upto(e, transcript) \subseteq Range(path), LooksAt(s, path)
  PROVE  AdvisorInv'
<1> DEFINE new == Delta(s.cursor, path)
<1>1. s \in Services /\ turns \in Nat /\ transcript \in Seq(Nat)
  BY DEF Known, Going, AdvisorTyped
<1>2. CASE new = {}
 <2>1. svc' = s /\ look' = NoLook /\ run' = run /\ excused' = excused BY <1>2 DEF LooksAt
 <2>2. transcript' = transcript /\ turns' = turns /\ answered' = answered BY DEF Going
 <2>3. AdvisorTyped' BY <1>1, <2>1, <2>2, NoLookFacts DEF Going, AdvisorTyped, Services
 <2>4. look' = [NoLook EXCEPT !.pc = "none"] BY <2>1 DEF NoLook
 <2> QED BY <2>1, <2>2, <2>3, <2>4, RestsStep DEF Known, Going, Alive
<1>3. CASE new # {}
 <2> DEFINE l == [NoLook EXCEPT !.prompt = new, !.target = Last(path), !.before = s.cursor]
 <2>1. ReadyRun(s, l) BY <1>3 DEF LooksAt
 <2>2. path # <<>> BY <1>3 DEF Delta, Range
 <2>3. Last(path) \in Range(path) /\ Last(path) \in Nat /\ Range(path) \subseteq Nat
   BY <2>2, AdvisorRanges
 <2>4. new \in Entries /\ s.cursor \in Nat BY <1>1, <2>3 DEF Delta, Entries, Services
 <2>5. /\ l \in Looks /\ l.prompt = new /\ l.target = Last(path) /\ l.before = s.cursor
       /\ l.seen = <<>> /\ Range(l.seen) = {}
   BY <2>3, <2>4, NoLookFacts DEF Looks
 <2>6. Upto(s.cursor, path) \subseteq Upto(s.cursor, transcript)
  <3>1. CASE path = transcript BY <3>1
  <3>2. CASE s.cursor = 0
   <4>1. 0 \notin Range(path) BY <1>1
   <4> QED BY <3>2, <4>1, UptoIsThere
  <3> QED BY <3>1, <3>2
 <2>7. Upto(l.target, transcript) \ l.prompt \subseteq Upto(s.cursor, transcript)
   BY <2>3, <2>5, <2>6 DEF Delta
 <2> HIDE DEF l
 <2>8. l.target <= turns BY <1>1, <2>3, <2>5
 <2>9. Ready(s, l) BY <2>5, <2>7, <2>8 DEF Ready, Known
 <2> QED BY <2>1, <2>9, ReadyRunStep
<1> QED BY <1>2, <1>3

LEMMA FindsPlaceStep ==
  ASSUME NEW s, Known(s), Going, FindsPlace(s)
  PROVE  AdvisorInv'
<1>1. s \in Services /\ turns \in Nat /\ transcript \in Seq(Nat) /\ run \in AdvisorRuns
  BY DEF Known, Going, AdvisorTyped
<1>2. \A e \in Range(transcript) : Upto(e, transcript) \subseteq Range(transcript)
  BY <1>1, UptoIsThere
<1>3. CASE s.cursor \in Range(transcript) \union {0}
  BY <1>1, <1>2, <1>3, LooksAtStep DEF FindsPlace, Going
<1>4. CASE s.cursor \notin Range(transcript) \union {0} /\ s.mine /\ Alive
 <2>1. Resets(s, [NoLook EXCEPT !.pc = "reseeding", !.seen = transcript])
   BY <1>4 DEF FindsPlace
 <2>2. /\ svc' = [s EXCEPT !.mine = FALSE] /\ run' = [run EXCEPT !.ending = TRUE] /\ excused' = excused
       /\ look' = [NoLook EXCEPT !.pc = "reseeding", !.seen = transcript]
       /\ transcript' = transcript /\ turns' = turns /\ answered' = answered
   BY <2>1 DEF Resets, Going
 <2>3. /\ svc' \in Services /\ ~svc'.mine /\ svc'.cursor = s.cursor /\ svc'.spawn = {}
       /\ run' \in AdvisorRuns /\ run'.st = run.st /\ run'.doing = run.doing
   BY <1>1, <1>4, <2>2 DEF Services, AdvisorRuns, Known
 <2>4. /\ look' \in Looks /\ look'.pc = "reseeding" /\ look'.seen = transcript
       /\ look'.before = 0 /\ look'.target = 0
   BY <1>1, <2>2, NoLookFacts DEF Looks
 <2>5. AdvisorTyped' /\ NumbersAreOld'
   BY <1>1, <2>2, <2>3, <2>4 DEF AdvisorTyped, Services, NumbersAreOld, Going, Known
 <2>6. Upto(s.cursor, transcript) = {} BY <1>1, <1>4, UptoIsThere
 <2>7. CursorIsHeard' /\ PromptIsWhole' /\ SeenCameFirst'
   BY <1>2, <2>2, <2>3, <2>4, <2>6 DEF CursorIsHeard, PromptIsWhole, Looked, SeenCameFirst
 <2>8. OneAdvisorRun' /\ OnlyPrompt' BY <2>3, <2>4 DEF OneAdvisorRun, OnlyPrompt, Going
 <2> QED BY <2>5, <2>7, <2>8 DEF AdvisorInv
<1>5. CASE s.cursor \notin Range(transcript) \union {0} /\ ~(s.mine /\ Alive)
 <2> DEFINE t == [s EXCEPT !.cursor = 0, !.mine = FALSE]
 <2>1. LooksAt(t, transcript) BY <1>5 DEF FindsPlace
 <2>2. t \in Services /\ t.cursor = 0 /\ ~t.mine /\ t.spawn = s.spawn BY <1>1 DEF Services
 <2>3. 0 \notin Range(transcript) BY <1>1 DEF Going
 <2>4. Upto(0, transcript) = {} BY <1>1, <2>3, UptoIsThere
 <2> HIDE DEF t
 <2>5. Known(t) BY <1>1, <2>2, <2>4 DEF Known
 <2> QED BY <1>1, <1>2, <2>1, <2>2, <2>5, LooksAtStep DEF Going
<1> QED BY <1>3, <1>4, <1>5

-----------------------------------------------------------------------------
(* Every step of the service. *)

LEMMA AdvisorStarts == AdvisorInit => AdvisorInv
<1> SUFFICES ASSUME AdvisorInit PROVE AdvisorInv OBVIOUS
<1>1. /\ <<>> \in Seq(Nat) /\ <<>> \in Seq(Entries) /\ Range(<<>>) = {} BY DEF Range
<1>2. /\ NoRun \in AdvisorRuns /\ NoRun.doing = {} /\ NewState \in Services
      /\ NewState.cursor = 0 /\ ~NewState.mine /\ NewState.spawn = {}
  BY <1>1 DEF NoRun, AdvisorRuns, NewState, Services, Entries
<1>3. AdvisorTyped
  BY <1>1, <1>2, NoLookFacts DEF AdvisorTyped, AdvisorInit, Services, Entries
<1>4. Upto(0, <<>>) = {} BY <1>1, UptoIsThere
<1>5. NumbersAreOld BY <1>1, <1>2, NoLookFacts DEF AdvisorInit, NumbersAreOld
<1>6. CursorIsHeard /\ PromptIsWhole
  BY <1>2, <1>4, NoLookFacts DEF AdvisorInit, CursorIsHeard, PromptIsWhole, Looked
<1>7. SeenCameFirst /\ OneAdvisorRun /\ OnlyPrompt
  BY <1>2, NoLookFacts DEF AdvisorInit, SeenCameFirst, OneAdvisorRun, OnlyPrompt
<1> QED BY <1>3, <1>5, <1>6, <1>7 DEF AdvisorInv

\* Only the transcript moves: new entries have new numbers, and fewer entries are passed by less.
LEMMA TranscriptStep ==
  ASSUME AdvisorInv, UNCHANGED <<run, svc, answered, excused>>, turns' \in Nat, turns <= turns',
         look' = look \/ (look.pc = "none" /\ look' = [NoLook EXCEPT !.pc = "begun"]),
         transcript' \in Seq(Nat), Range(transcript') \subseteq 1 .. turns',
         \A e \in 0 .. turns : Upto(e, transcript') \subseteq Upto(e, transcript)
  PROVE  AdvisorInv'
<1> USE DEF AdvisorInv
<1>1. /\ run' = run /\ svc' = svc /\ answered' = answered /\ excused' = excused
      /\ svc \in Services /\ turns \in Nat /\ look \in Looks
      /\ svc.cursor \in 0 .. turns /\ look.before \in 0 .. turns /\ look.target \in 0 .. turns
      /\ Range(look.seen) \subseteq 0 .. turns
  BY DEF AdvisorTyped, NumbersAreOld, Services, Looks
<1>2. CASE look' = look
 <2>1. AdvisorTyped' /\ NumbersAreOld' BY <1>1, <1>2 DEF AdvisorTyped, NumbersAreOld
 <2>2. Looked' = Looked /\ Relied' = Relied /\ Alive' = Alive /\ Looked \in 0 .. turns
   BY <1>1, <1>2 DEF Looked, Relied, Alive
 <2>3. CursorIsHeard' /\ PromptIsWhole' /\ SeenCameFirst'
  <3>1. CursorIsHeard' BY <1>1, <1>2, <2>2 DEF CursorIsHeard
  <3>2. PromptIsWhole' BY <1>1, <1>2, <2>2 DEF PromptIsWhole
  <3>3. SeenCameFirst' BY <1>1, <1>2 DEF SeenCameFirst
  <3> QED BY <3>1, <3>2, <3>3
 <2>4. OneAdvisorRun' /\ OnlyPrompt' BY <1>1, <1>2, <2>2 DEF OneAdvisorRun, OnlyPrompt
 <2> QED BY <2>1, <2>3, <2>4
<1>3. CASE look.pc = "none" /\ look' = [NoLook EXCEPT !.pc = "begun"]
 <2>1. look' \in Looks BY <1>3, NoLookFacts DEF Looks
 <2>2. AdvisorTyped' /\ svc'.cursor <= turns' BY <1>1, <2>1 DEF AdvisorTyped, Services
 <2>3. Upto(svc.cursor, transcript') \subseteq Upto(svc.cursor, transcript) BY <1>1
 <2>4. (svc.mine => Alive) => Upto(svc.cursor, transcript) \subseteq Relied
   BY <1>3 DEF CursorIsHeard, Looked
 <2> QED BY <1>1, <1>3, <2>2, <2>3, <2>4, RestsStep DEF Relied, OneAdvisorRun, OnlyPrompt, Alive
<1> QED BY <1>2, <1>3

LEMMA MainTurnStep == AdvisorInv /\ (MainTurnEnds \/ PathShrinks) => AdvisorInv'
<1> SUFFICES ASSUME AdvisorInv, MainTurnEnds \/ PathShrinks PROVE AdvisorInv' OBVIOUS
<1>1. transcript \in Seq(Nat) /\ turns \in Nat /\ Range(transcript) \subseteq 1 .. turns /\ look \in Looks
  BY DEF AdvisorInv, AdvisorTyped, NumbersAreOld
<1>2. CASE MainTurnEnds
 <2>1. /\ turns' = turns + 1 /\ transcript' = Append(transcript, turns + 1)
       /\ UNCHANGED <<run, svc, answered, excused>>
       /\ look' = look \/ (look.pc = "none" /\ look' = [NoLook EXCEPT !.pc = "begun"])
   BY <1>2 DEF MainTurnEnds
 <2>2. turns + 1 \in Nat /\ Range(transcript') = Range(transcript) \union {turns + 1}
   BY <1>1, <2>1, AdvisorRanges, SMTT(20)
 <2>3. \A e \in 0 .. turns : Upto(e, transcript') \subseteq Upto(e, transcript)
   BY <1>1, <2>1, <2>2, UptoAppend
 <2> QED BY <1>1, <2>1, <2>2, <2>3, TranscriptStep
<1>3. CASE PathShrinks
 <2>1. PICK k \in 0 .. Len(transcript) - 1 : transcript' = SubSeq(transcript, 1, k)
   BY <1>3 DEF PathShrinks
 <2>2. turns' = turns /\ look' = look /\ UNCHANGED <<run, svc, answered, excused>>
   BY <1>3 DEF PathShrinks
 <2>3. /\ transcript' \in Seq(Nat) /\ Range(transcript') \subseteq Range(transcript)
       /\ \A e \in 0 .. turns : Upto(e, transcript') \subseteq Upto(e, transcript)
   BY <1>1, <2>1, UptoShrinks
 <2>4. Range(transcript') \subseteq 1 .. turns' /\ turns' \in Nat /\ turns <= turns'
   BY <1>1, <2>2, <2>3
 <2> QED BY <2>2, <2>3, <2>4, TranscriptStep
<1> QED BY <1>2, <1>3

\* The run moves, and the service and the transcript stay.
LEMMA RunStep ==
  ASSUME AdvisorInv, UNCHANGED <<transcript, turns, svc, look, answered, excused>>,
         run' \in AdvisorRuns, Alive' => Alive, run'.st # "running" => run'.doing = {},
         Range(run'.inbox) \subseteq Range(run.inbox),
         Range(run'.outbox) \subseteq Range(run.outbox) \union ({run.doing} \ {{}}),
         run'.doing \in {{}, run.doing} \union Range(run.inbox)
  PROVE  AdvisorInv'
<1> USE DEF AdvisorInv
<1>1. /\ transcript' = transcript /\ turns' = turns /\ svc' = svc /\ look' = look
      /\ answered' = answered /\ excused' = excused
  OBVIOUS
<1>2. AdvisorTyped' /\ NumbersAreOld' BY <1>1 DEF AdvisorTyped, NumbersAreOld
<1>3. CursorIsHeard' /\ PromptIsWhole' /\ SeenCameFirst'
  BY <1>1 DEF CursorIsHeard, PromptIsWhole, SeenCameFirst, Looked, Relied
<1>4. OneAdvisorRun' BY <1>1 DEF OneAdvisorRun
<1>5. OnlyPrompt'
 <2>1. look.pc = "advice" => svc.cursor = look.target BY DEF OnlyPrompt
 <2>2. ASSUME look.pc = "advice", ~(look.prompt \subseteq excused)
       PROVE  /\ Range(run'.inbox) \subseteq {look.prompt} /\ Range(run'.outbox) \subseteq {look.prompt}
              /\ run'.doing \in {{}, look.prompt}
  <3>1. /\ Range(run.inbox) \subseteq {look.prompt} /\ Range(run.outbox) \subseteq {look.prompt}
        /\ run.doing \in {{}, look.prompt}
    BY <2>2 DEF OnlyPrompt
  <3> QED BY <3>1
 <2> QED BY <1>1, <2>1, <2>2 DEF OnlyPrompt
<1> QED BY <1>2, <1>3, <1>4, <1>5

LEMMA AdvisorRunStep ==
  AdvisorInv /\ (SettingsChange \/ TurnBegins \/ Advises \/ TurnIsOver \/ RunIsOver) => AdvisorInv'
<1> SUFFICES ASSUME AdvisorInv, SettingsChange \/ TurnBegins \/ Advises \/ TurnIsOver \/ RunIsOver
             PROVE  AdvisorInv'
  OBVIOUS
<1>1. /\ UNCHANGED <<transcript, turns, svc, look, answered, excused>>
      /\ run \in AdvisorRuns /\ (run.st # "running" => run.doing = {})
  BY DEF AdvisorInv, AdvisorTyped, OnlyPrompt, SettingsChange, TurnBegins, Advises, TurnIsOver, RunIsOver, Runs
<1>2. /\ run.inbox \in Seq(Entries) /\ run.outbox \in Seq(Entries) /\ run.doing \in Entries
      /\ <<>> \in Seq(Entries) /\ {} \in Entries /\ Range(<<>>) = {}
  BY <1>1 DEF AdvisorRuns, Range, Entries
<1>3. CASE SettingsChange
 <2>1. run' = [run EXCEPT !.fits = ~@] BY <1>3 DEF SettingsChange
 <2>2. /\ run' \in AdvisorRuns /\ run'.st = run.st /\ run'.inbox = run.inbox
       /\ run'.outbox = run.outbox /\ run'.doing = run.doing
   BY <1>1, <2>1 DEF AdvisorRuns
 <2> QED BY <1>1, <2>2, RunStep DEF Alive
<1>4. CASE TurnBegins
 <2>1. /\ Alive /\ run.inbox # <<>>
       /\ run' = [run EXCEPT !.st = "running", !.doing = Head(run.inbox), !.inbox = Tail(@)]
   BY <1>4 DEF TurnBegins, Runs
 <2>2. /\ Head(run.inbox) \in Entries /\ Tail(run.inbox) \in Seq(Entries)
       /\ Range(Tail(run.inbox)) \subseteq Range(run.inbox) /\ Head(run.inbox) \in Range(run.inbox)
   BY <1>2, <2>1, AdvisorRanges
 <2>3. /\ run' \in AdvisorRuns /\ run'.st = "running" /\ run'.inbox = Tail(run.inbox)
       /\ run'.outbox = run.outbox /\ run'.doing = Head(run.inbox)
   BY <1>1, <2>1, <2>2 DEF AdvisorRuns
 <2> QED BY <1>1, <2>1, <2>2, <2>3, RunStep
<1>5. CASE Advises
 <2>1. /\ Alive /\ run.st = "running" /\ run.doing # {}
       /\ run' = [run EXCEPT !.outbox = Append(@, run.doing), !.doing = {}]
   BY <1>5 DEF Advises, Runs
 <2>2. /\ Append(run.outbox, run.doing) \in Seq(Entries)
       /\ Range(Append(run.outbox, run.doing)) = Range(run.outbox) \union {run.doing}
   BY <1>2, AdvisorRanges
 <2>3. /\ run' \in AdvisorRuns /\ run'.st = run.st /\ run'.inbox = run.inbox
       /\ run'.outbox = Append(run.outbox, run.doing) /\ run'.doing = {}
   BY <1>1, <1>2, <2>1, <2>2 DEF AdvisorRuns
 <2> QED BY <1>1, <2>1, <2>2, <2>3, RunStep
<1>6. CASE TurnIsOver
 <2>1. Alive /\ run' = [run EXCEPT !.st = "idle", !.doing = {}] BY <1>6 DEF TurnIsOver, Runs
 <2>2. /\ run' \in AdvisorRuns /\ run'.inbox = run.inbox /\ run'.outbox = run.outbox /\ run'.doing = {}
   BY <1>1, <1>2, <2>1 DEF AdvisorRuns
 <2> QED BY <1>1, <2>1, <2>2, RunStep
<1>7. CASE RunIsOver
 <2>1. Alive /\ run' = [run EXCEPT !.st = "over", !.inbox = <<>>, !.doing = {}]
   BY <1>7 DEF RunIsOver, Runs
 <2>2. /\ run' \in AdvisorRuns /\ run'.inbox = <<>> /\ run'.outbox = run.outbox /\ run'.doing = {}
   BY <1>1, <1>2, <2>1 DEF AdvisorRuns
 <2> QED BY <1>1, <1>2, <2>1, <2>2, RunStep
<1> QED BY <1>3, <1>4, <1>5, <1>6, <1>7

\* While a look goes on, its state is one to go on from.
LEMMA GoingFacts ==
  ASSUME AdvisorInv, UNCHANGED <<transcript, turns, answered>>
  PROVE  /\ Going
         /\ look.pc \in {"none", "begun"} /\ (svc.mine => Alive) => Known(svc)
         /\ look.pc \in {"replacing", "spawning", "busy"} /\ (svc.mine => Alive) => Ready(svc, look)
         /\ svc \in Services /\ look \in Looks /\ run \in AdvisorRuns /\ turns \in Nat
<1> USE DEF AdvisorInv
<1>1. /\ svc \in Services /\ look \in Looks /\ run \in AdvisorRuns /\ turns \in Nat
      /\ svc.cursor <= turns /\ look.before <= turns /\ look.target <= turns
      /\ Range(look.seen) \subseteq 1 .. turns
  BY DEF AdvisorTyped, NumbersAreOld, Services
<1>2. Going BY DEF Going, NumbersAreOld, OnlyPrompt
<1>3. ASSUME look.pc \in {"none", "begun"}, svc.mine => Alive PROVE Known(svc)
  BY <1>1, <1>3 DEF Known, CursorIsHeard, Looked, Relied, OneAdvisorRun
<1>4. ASSUME look.pc \in {"replacing", "spawning", "busy"}, svc.mine => Alive PROVE Ready(svc, look)
  BY <1>1, <1>4 DEF Ready, CursorIsHeard, PromptIsWhole, Looked, Relied, OneAdvisorRun
<1> QED BY <1>1, <1>2, <1>3, <1>4

LEMMA FreshCursor ==
  ASSUME AdvisorInv
  PROVE  Upto(0, transcript) = {}
<1>1. transcript \in Seq(Nat) /\ turns \in Nat /\ Range(transcript) \subseteq 1 .. turns
  BY DEF AdvisorInv, AdvisorTyped, NumbersAreOld
<1>2. 0 \notin Range(transcript) BY <1>1
<1> QED BY <1>1, <1>2, UptoIsThere

LEMMA LookBeginsStep == AdvisorInv /\ LookBegins => AdvisorInv'
<1> SUFFICES ASSUME AdvisorInv, LookBegins PROVE AdvisorInv' OBVIOUS
<1>1. look.pc = "begun" /\ UNCHANGED <<transcript, turns, answered>> BY DEF LookBegins
<1>2. /\ Going /\ svc \in Services /\ look \in Looks /\ run \in AdvisorRuns /\ turns \in Nat
      /\ ((svc.mine => Alive) => Known(svc))
  BY <1>1, GoingFacts
<1>3. CASE ~svc.mine \/ (Alive /\ run.fits) BY <1>2, <1>3, FindsPlaceStep DEF LookBegins
<1>4. CASE svc.mine /\ ~Alive
 <2> DEFINE s == [svc EXCEPT !.mine = FALSE, !.cursor = 0]
 <2>1. FindsPlace(s) BY <1>4 DEF LookBegins
 <2>2. s \in Services /\ ~s.mine /\ s.cursor = 0 /\ s.spawn = svc.spawn BY <1>2 DEF Services
 <2> HIDE DEF s
 <2>3. Known(s) BY <1>2, <1>4, <2>2, FreshCursor DEF Known
 <2> QED BY <1>2, <2>1, <2>3, FindsPlaceStep
<1>5. CASE svc.mine /\ Alive /\ ~run.fits
 <2>1. Resets(svc, [look EXCEPT !.pc = "refitting"]) BY <1>5 DEF LookBegins
 <2>2. /\ svc' = [svc EXCEPT !.mine = FALSE] /\ run' = [run EXCEPT !.ending = TRUE]
       /\ look' = [look EXCEPT !.pc = "refitting"] /\ excused' = excused
       /\ transcript' = transcript /\ turns' = turns /\ answered' = answered
   BY <1>1, <2>1 DEF Resets
 <2>3. /\ svc' \in Services /\ ~svc'.mine /\ svc'.cursor = svc.cursor /\ svc'.spawn = svc.spawn
       /\ svc.spawn = {} /\ run' \in AdvisorRuns /\ run'.st = run.st /\ run'.doing = run.doing
   BY <1>2, <1>5, <2>2 DEF Services, AdvisorRuns, AdvisorInv, OneAdvisorRun
 <2>4. /\ look' \in Looks /\ look'.pc = "refitting" /\ look'.seen = look.seen
       /\ look'.before = look.before /\ look'.target = look.target
   BY <1>2, <2>2 DEF Looks
 <2>5. AdvisorTyped' /\ NumbersAreOld'
   BY <2>2, <2>3, <2>4 DEF AdvisorInv, AdvisorTyped, Services, NumbersAreOld
 <2>6. CursorIsHeard' /\ PromptIsWhole' /\ SeenCameFirst' /\ OneAdvisorRun' /\ OnlyPrompt'
   BY <2>2, <2>3, <2>4 DEF CursorIsHeard, PromptIsWhole, SeenCameFirst, OneAdvisorRun, OnlyPrompt, AdvisorInv
 <2> QED BY <2>5, <2>6 DEF AdvisorInv
<1> QED BY <1>3, <1>4, <1>5

LEMMA AfterResetStep == AdvisorInv /\ AfterReset => AdvisorInv'
<1> SUFFICES ASSUME AdvisorInv, AfterReset PROVE AdvisorInv' OBVIOUS
<1>1. ~Alive /\ UNCHANGED <<transcript, turns, answered>> BY DEF AfterReset
<1>2. /\ Going /\ svc \in Services /\ look \in Looks /\ turns \in Nat
      /\ (look.pc = "replacing" /\ ~svc.mine => Ready(svc, look))
  BY <1>1, GoingFacts
<1>3. look.pc \in {"refitting", "reseeding", "replacing"} /\ ~svc.mine
  BY DEF AfterReset, AdvisorInv, OneAdvisorRun
<1> DEFINE s == [svc EXCEPT !.cursor = 0]
<1>4. s \in Services /\ ~s.mine /\ s.cursor = 0 /\ s.spawn = svc.spawn
  BY <1>2, <1>3 DEF Services
<1>5. \/ look.pc = "refitting" /\ FindsPlace(s)
      \/ look.pc = "reseeding" /\ LooksAt(s, look.seen)
      \/ look.pc = "replacing" /\ Spawns(svc, look)
  BY DEF AfterReset
<1> HIDE DEF s
<1>6. Known(s) BY <1>1, <1>2, <1>4, FreshCursor DEF Known
<1>7. CASE look.pc = "refitting" /\ FindsPlace(s) BY <1>2, <1>6, <1>7, FindsPlaceStep
<1>8. CASE look.pc = "reseeding" /\ LooksAt(s, look.seen)
 <2>1. /\ look.seen \in Seq(Nat) /\ Range(look.seen) \subseteq 1 .. turns
       /\ \A e \in Range(look.seen) : Upto(e, transcript) \subseteq Range(look.seen)
   BY <1>2, <1>8 DEF AdvisorInv, NumbersAreOld, SeenCameFirst, Looks
 <2> QED BY <1>2, <1>4, <1>6, <1>8, <2>1, LooksAtStep
<1>9. CASE look.pc = "replacing" /\ Spawns(svc, look) BY <1>1, <1>2, <1>3, <1>9, SpawnsStep
<1> QED BY <1>5, <1>7, <1>8, <1>9

\* A look that is over: what it has taken back, or leaves, is in force.
LEMMA LookEndsStep ==
  ASSUME AdvisorInv, UNCHANGED <<transcript, turns, answered>>, run' \in AdvisorRuns,
         Alive' = Alive, run'.doing = run.doing, run'.st = run.st,
         look' = NoLook, svc' \in Services, svc'.mine = svc.mine,
         svc'.cursor = Looked, svc'.spawn \in {{}, svc.spawn},
         excused' = excused \/ (look.pc = "refitting" /\ excused' = excused \union Range(transcript)),
         look.pc = "refitting" => excused' = excused \union Range(transcript)
  PROVE  AdvisorInv'
<1> USE DEF AdvisorInv
<1>1. /\ transcript \in Seq(Nat) /\ turns \in Nat /\ look \in Looks /\ svc \in Services
      /\ excused \in Entries /\ answered \in Entries
      /\ transcript' = transcript /\ turns' = turns /\ answered' = answered
  BY DEF AdvisorTyped, Services
<1>2. Range(transcript) \subseteq Nat /\ Looked <= turns BY <1>1 DEF NumbersAreOld, Looked
<1>3. AdvisorTyped' /\ look' = [NoLook EXCEPT !.pc = "none"]
  BY <1>1, <1>2, NoLookFacts DEF AdvisorTyped, Services, Entries, NoLook
<1>4. ASSUME svc'.mine => Alive'
      PROVE  Upto(svc'.cursor, transcript') \subseteq IF svc'.mine THEN answered' \union excused' ELSE excused'
 <2>1. CASE look.pc = "refitting"
  <3>1. excused' = excused \union Range(transcript) /\ Upto(svc'.cursor, transcript) \subseteq Range(transcript)
    BY <1>1, <2>1, UptoIsThere
  <3> QED BY <1>1, <3>1
 <2>2. CASE look.pc # "refitting" BY <1>1, <1>4, <2>2 DEF CursorIsHeard, Relied
 <2> QED BY <2>1, <2>2
<1>5. Range(transcript)' \subseteq 1 .. turns' /\ svc'.cursor <= turns'
  BY <1>1, <1>2 DEF NumbersAreOld
<1>6. (svc'.spawn # {} => ~svc'.mine /\ ~Alive') /\ (run'.st # "running" => run'.doing = {})
  BY DEF OneAdvisorRun, OnlyPrompt
<1> QED BY <1>3, <1>4, <1>5, <1>6, RestsStep

\* The cursor when a look takes back what it did, and when it is cut off.
LEMMA TakenBack ==
  ASSUME AdvisorInv
  PROVE  LET back == [svc EXCEPT !.cursor = Restored(look)]
         IN  /\ back \in Services /\ back.mine = svc.mine /\ back.spawn = svc.spawn
             /\ back.cursor = look.before
<1>1. svc \in Services /\ look.before \in Nat
  BY DEF AdvisorInv, AdvisorTyped, Services, Looks
<1> QED BY <1>1 DEF Services, Restored

LEMMA GivesNothingStep ==
  ASSUME AdvisorInv, UNCHANGED <<transcript, turns, answered, excused, run>>, GivesNothing,
         look.pc \in {"replacing", "spawning", "busy", "advice"}
  PROVE  AdvisorInv'
<1>1. svc' = [svc EXCEPT !.cursor = Restored(look)] /\ look' = NoLook BY DEF GivesNothing
<1>2. svc' \in Services /\ svc'.mine = svc.mine /\ svc'.spawn = svc.spawn /\ svc'.cursor = Looked
  BY <1>1, TakenBack DEF Looked
<1>3. run' \in AdvisorRuns /\ run' = run BY DEF AdvisorInv, AdvisorTyped
<1> QED BY <1>1, <1>2, <1>3, LookEndsStep DEF Alive

LEMMA CutOffStep == AdvisorInv /\ (UserPrompts \/ AdvisorCloses \/ LookTimesOut \/ LookAnnounced) => AdvisorInv'
<1>1. ASSUME AdvisorInv, UserPrompts \/ AdvisorCloses PROVE AdvisorInv'
 <2>1. /\ UNCHANGED <<transcript, turns, answered, run>> /\ look' = NoLook
       /\ svc' = (IF look.pc \in {"replacing", "spawning", "busy", "advice"}
                   THEN [svc EXCEPT !.cursor = Restored(look)] ELSE svc)
       /\ excused' = (IF look.pc = "refitting" THEN excused \union Range(transcript) ELSE excused)
   BY <1>1 DEF UserPrompts, AdvisorCloses, Cancels
 <2>2. svc \in Services /\ run' \in AdvisorRuns /\ run' = run
   BY <1>1, <2>1 DEF AdvisorInv, AdvisorTyped, Services
 <2>3. svc' \in Services /\ svc'.mine = svc.mine /\ svc'.spawn = svc.spawn /\ svc'.cursor = Looked
   BY <1>1, <2>1, <2>2, TakenBack DEF Looked
 <2> QED BY <1>1, <2>1, <2>2, <2>3, LookEndsStep DEF Alive
<1>2. ASSUME AdvisorInv, LookTimesOut PROVE AdvisorInv'
  BY <1>2, GivesNothingStep DEF LookTimesOut
<1>3. ASSUME AdvisorInv, LookAnnounced PROVE AdvisorInv'
 <2>1. look.pc = "announcing" /\ look' = NoLook /\ UNCHANGED <<transcript, turns, run, svc, answered, excused>>
   BY <1>3 DEF LookAnnounced
 <2>2. svc' \in Services /\ svc' = svc /\ svc'.cursor = Looked /\ run' \in AdvisorRuns /\ run' = run
   BY <1>3, <2>1 DEF AdvisorInv, AdvisorTyped, Services, Looked
 <2> QED BY <1>3, <2>1, <2>2, LookEndsStep DEF Alive
<1> QED BY <1>1, <1>2, <1>3

LEMMA GetsRunStep == AdvisorInv /\ (GetsRun \/ RunIsIdle) => AdvisorInv'
<1>1. ASSUME AdvisorInv, GetsRun PROVE AdvisorInv'
 <2>1. look.pc = "spawning" /\ UNCHANGED <<transcript, turns, answered>> BY <1>1 DEF GetsRun
 <2>2. CASE Alive
  <3>1. UsesRun(svc, look) /\ Going /\ Ready(svc, look)
    BY <1>1, <2>1, <2>2, GoingFacts DEF GetsRun
  <3> QED BY <2>2, <3>1, UsesRunStep
 <2>3. CASE ~Alive BY <1>1, <2>1, <2>3, GivesNothingStep DEF GetsRun
 <2> QED BY <2>2, <2>3
<1>2. ASSUME AdvisorInv, RunIsIdle PROVE AdvisorInv'
 <2>1. /\ look.pc = "busy" /\ run.st = "idle" /\ Sends(svc, look)
       /\ UNCHANGED <<transcript, turns, answered>>
   BY <1>2 DEF RunIsIdle
 <2>2. Alive BY <2>1 DEF Alive
 <2>3. Going /\ Ready(svc, look) BY <1>2, <2>1, <2>2, GoingFacts
 <2> QED BY <2>1, <2>2, <2>3, SendsStep
<1> QED BY <1>1, <1>2

LEMMA SpawnFailsStep == AdvisorInv /\ SpawnFails => AdvisorInv'
<1> SUFFICES ASSUME AdvisorInv, SpawnFails PROVE AdvisorInv' OBVIOUS
<1>1. UNCHANGED <<transcript, turns, run, answered, excused>> /\ svc.spawn # {}
  BY DEF SpawnFails
<1>2. /\ svc \in Services /\ run' \in AdvisorRuns /\ run' = run /\ look \in Looks /\ look.before \in Nat
      /\ {} \in Entries
  BY <1>1 DEF AdvisorInv, AdvisorTyped, Services, Looks, Entries
<1>3. CASE look.pc = "spawning"
 <2>1. svc' = [svc EXCEPT !.spawn = {}, !.cursor = Restored(look)] /\ look' = NoLook
   BY <1>3 DEF SpawnFails
 <2>2. svc' \in Services /\ svc'.mine = svc.mine /\ svc'.spawn = {} /\ svc'.cursor = Looked
   BY <1>2, <1>3, <2>1 DEF Services, Restored, Looked
 <2> QED BY <1>1, <1>2, <1>3, <2>1, <2>2, LookEndsStep DEF Alive
<1>4. CASE look.pc # "spawning"
 <2>1. svc' = [svc EXCEPT !.spawn = {}] /\ look' = look BY <1>4 DEF SpawnFails
 <2>2. svc' \in Services /\ svc'.mine = svc.mine /\ svc'.spawn = {} /\ svc'.cursor = svc.cursor
   BY <1>2, <2>1 DEF Services
 <2>3. AdvisorTyped' /\ NumbersAreOld'
   BY <1>1, <1>2, <2>1, <2>2 DEF AdvisorInv, AdvisorTyped, NumbersAreOld, Services
 <2>4. Looked' = Looked /\ Relied' = Relied /\ Alive' = Alive
   BY <1>1, <2>1, <2>2 DEF Looked, Relied, Alive
 <2>5. CursorIsHeard' /\ PromptIsWhole' /\ SeenCameFirst'
   BY <1>1, <2>1, <2>2, <2>4 DEF AdvisorInv, CursorIsHeard, PromptIsWhole, SeenCameFirst
 <2>6. OneAdvisorRun' /\ OnlyPrompt'
   BY <1>1, <2>1, <2>2, <2>4 DEF AdvisorInv, OneAdvisorRun, OnlyPrompt
 <2> QED BY <2>3, <2>5, <2>6 DEF AdvisorInv
<1> QED BY <1>3, <1>4

LEMMA AdvisorClosedStep == AdvisorInv /\ AdvisorClosed => AdvisorInv'
<1> SUFFICES ASSUME AdvisorInv, AdvisorClosed PROVE AdvisorInv' OBVIOUS
<1>1. /\ UNCHANGED <<transcript, turns, look, answered, excused>> /\ svc' = [svc EXCEPT !.spawn = {}]
      /\ run' = (IF svc.mine THEN [run EXCEPT !.ending = TRUE] ELSE run)
  BY DEF AdvisorClosed
<1>2. svc \in Services /\ run \in AdvisorRuns /\ {} \in Entries
  BY DEF AdvisorInv, AdvisorTyped, Services, Entries
<1>3. /\ svc' \in Services /\ svc'.mine = svc.mine /\ svc'.spawn = {} /\ svc'.cursor = svc.cursor
      /\ run' \in AdvisorRuns /\ run'.st = run.st /\ run'.doing = run.doing /\ run'.inbox = run.inbox
      /\ run'.outbox = run.outbox
  BY <1>1, <1>2 DEF Services, AdvisorRuns
<1>4. AdvisorTyped' /\ NumbersAreOld'
  BY <1>1, <1>3 DEF AdvisorInv, AdvisorTyped, NumbersAreOld, Services
<1>5. Looked' = Looked /\ Relied' = Relied /\ Alive' = Alive
  BY <1>1, <1>3 DEF Looked, Relied, Alive
<1>6. CursorIsHeard' /\ PromptIsWhole' /\ SeenCameFirst'
  BY <1>1, <1>3, <1>5 DEF AdvisorInv, CursorIsHeard, PromptIsWhole, SeenCameFirst
<1>7. OneAdvisorRun' /\ OnlyPrompt'
  BY <1>1, <1>3, <1>5 DEF AdvisorInv, OneAdvisorRun, OnlyPrompt
<1> QED BY <1>4, <1>6, <1>7 DEF AdvisorInv

LEMMA SpawnEndsStep == AdvisorInv /\ SpawnEnds => AdvisorInv'
<1> SUFFICES ASSUME AdvisorInv, SpawnEnds PROVE AdvisorInv' OBVIOUS
<1> DEFINE s == [svc EXCEPT !.spawn = {}, !.mine = TRUE]
           mineOwn == look.pc = "spawning" /\ look.own
<1>1. /\ UNCHANGED <<transcript, turns, excused>> /\ svc.spawn # {} /\ answered' = {}
      /\ run' = [NoRun EXCEPT !.st = "queued", !.inbox = <<svc.spawn>>]
      /\ (mineOwn => svc' = [s EXCEPT !.cursor = look.target] /\ look' = [look EXCEPT !.pc = "advice"])
      /\ (~mineOwn => svc' = s /\ look' = look)
  BY DEF SpawnEnds
<1>2. /\ svc \in Services /\ run \in AdvisorRuns /\ look \in Looks /\ turns \in Nat
      /\ look.target \in Nat /\ svc.spawn \in Entries /\ ~svc.mine /\ ~Alive /\ {} \in Entries
      /\ <<svc.spawn>> \in Seq(Entries) /\ <<>> \in Seq(Entries)
      /\ Range(<<svc.spawn>>) = {svc.spawn} /\ Range(<<>>) = {}
  BY <1>1 DEF AdvisorInv, AdvisorTyped, Services, Looks, Entries, OneAdvisorRun, Range
<1>3. /\ run' \in AdvisorRuns /\ run'.st = "queued" /\ run'.inbox = <<svc.spawn>> /\ run'.doing = {}
      /\ run'.outbox = <<>> /\ Alive'
  BY <1>1, <1>2 DEF NoRun, AdvisorRuns, Alive
<1>4. s \in Services /\ s.mine /\ s.spawn = {} /\ s.cursor = svc.cursor BY <1>2 DEF Services
<1> HIDE DEF s
<1>5. /\ svc' \in Services /\ svc'.mine /\ svc'.spawn = {}
      /\ svc'.cursor = IF mineOwn THEN look.target ELSE svc.cursor
      /\ look' \in Looks /\ look'.seen = look.seen /\ look'.prompt = look.prompt
      /\ look'.before = look.before /\ look'.target = look.target /\ look'.own = look.own
      /\ look'.pc = IF mineOwn THEN "advice" ELSE look.pc
  BY <1>1, <1>2, <1>4 DEF Services, Looks
<1>6. AdvisorTyped' /\ NumbersAreOld'
  BY <1>1, <1>2, <1>3, <1>5 DEF AdvisorInv, AdvisorTyped, NumbersAreOld, Services
<1>7. look.pc \notin {"refitting", "reseeding", "replacing", "busy", "advice", "announcing"}
  BY <1>1, <1>2 DEF AdvisorInv, OneAdvisorRun
<1>8. Looked' = Looked /\ Relied = excused /\ excused \subseteq Relied'
  BY <1>1, <1>2, <1>5, <1>7 DEF Looked, Relied
<1>9. CursorIsHeard' /\ PromptIsWhole' /\ SeenCameFirst'
  BY <1>1, <1>2, <1>5, <1>7, <1>8 DEF AdvisorInv, CursorIsHeard, PromptIsWhole, SeenCameFirst
<1>10. OneAdvisorRun' /\ OnlyPrompt'
  BY <1>1, <1>2, <1>3, <1>5, <1>7 DEF AdvisorInv, OneAdvisorRun, OnlyPrompt
<1> QED BY <1>6, <1>9, <1>10 DEF AdvisorInv

LEMMA TakesAdviceStep == AdvisorInv /\ TakesAdvice => AdvisorInv'
<1> SUFFICES ASSUME AdvisorInv, TakesAdvice PROVE AdvisorInv' OBVIOUS
<1>1. look.pc = "advice" /\ UNCHANGED <<transcript, turns, excused>> BY DEF TakesAdvice
<1>2. CASE /\ run.outbox # <<>> /\ run' = [run EXCEPT !.outbox = Tail(@)]
           /\ answered' = answered \union Head(run.outbox) /\ look' = [look EXCEPT !.pc = "announcing"]
           /\ UNCHANGED svc
 <2>1. /\ svc \in Services /\ run \in AdvisorRuns /\ look \in Looks /\ answered \in Entries
       /\ run.outbox \in Seq(Entries) /\ svc' = svc /\ svc.mine /\ svc.cursor = look.target
   BY <1>1, <1>2 DEF AdvisorInv, AdvisorTyped, Services, AdvisorRuns, OneAdvisorRun, OnlyPrompt
 <2>2. /\ Head(run.outbox) \in Entries /\ Head(run.outbox) \in Range(run.outbox)
       /\ Tail(run.outbox) \in Seq(Entries)
   BY <1>2, <2>1, AdvisorRanges
 <2>3. /\ run' \in AdvisorRuns /\ run'.st = run.st /\ run'.doing = run.doing /\ Alive' = Alive
       /\ look' \in Looks /\ look'.pc = "announcing" /\ look'.seen = look.seen
       /\ look'.before = look.before /\ look'.target = look.target
   BY <1>2, <2>1, <2>2 DEF AdvisorRuns, Looks, Alive
 <2>4. AdvisorTyped' /\ NumbersAreOld'
   BY <1>1, <1>2, <2>1, <2>2, <2>3 DEF AdvisorInv, AdvisorTyped, NumbersAreOld, Services, Entries
 <2>5. CursorIsHeard'
  <3>1. SUFFICES ASSUME Alive PROVE Upto(look.target, transcript) \subseteq answered' \union excused
    BY <1>1, <2>1, <2>3 DEF CursorIsHeard, Looked, Relied
  <3>2. Upto(look.target, transcript) \ look.prompt \subseteq answered \union excused
    BY <1>1, <2>1, <3>1 DEF AdvisorInv, PromptIsWhole, Relied
  <3>3. look.prompt \subseteq excused \union Head(run.outbox)
    BY <1>1, <2>2 DEF AdvisorInv, OnlyPrompt
  <3> QED BY <1>2, <3>2, <3>3
 <2>6. PromptIsWhole' /\ SeenCameFirst' /\ OneAdvisorRun' /\ OnlyPrompt'
   BY <1>1, <2>1, <2>3 DEF AdvisorInv, PromptIsWhole, SeenCameFirst, OneAdvisorRun, OnlyPrompt
 <2> QED BY <2>4, <2>5, <2>6 DEF AdvisorInv
<1>3. CASE ~Alive /\ run.outbox = <<>> /\ GivesNothing /\ UNCHANGED <<run, answered>>
  BY <1>1, <1>3, GivesNothingStep
<1> QED BY <1>2, <1>3 DEF TakesAdvice

LEMMA AdvisorRestartsStep == AdvisorInv /\ AdvisorRestarts => AdvisorInv'
<1> SUFFICES ASSUME AdvisorInv, AdvisorRestarts PROVE AdvisorInv' OBVIOUS
<1>1. /\ UNCHANGED <<transcript, turns, answered, excused>> /\ svc' = NewState /\ look' = NoLook
      /\ run' = (IF Alive THEN [NoRun EXCEPT !.st = "parked", !.fits = run.fits] ELSE run)
  BY DEF AdvisorRestarts
<1>2. /\ run \in AdvisorRuns /\ <<>> \in Seq(Entries) /\ {} \in Entries /\ run.fits \in BOOLEAN
      /\ turns \in Nat /\ Range(transcript) \subseteq 1 .. turns /\ (run.st # "running" => run.doing = {})
  BY DEF AdvisorInv, AdvisorTyped, AdvisorRuns, Entries, NumbersAreOld, OnlyPrompt
<1>3. run' \in AdvisorRuns /\ (run'.st # "running" => run'.doing = {})
  BY <1>1, <1>2 DEF AdvisorRuns, NoRun, Alive
<1>4. svc' \in Services /\ svc'.cursor = 0 /\ ~svc'.mine /\ svc'.spawn = {}
  BY <1>1, <1>2 DEF NewState, Services
<1>5. AdvisorTyped' /\ look' = [NoLook EXCEPT !.pc = "none"]
  BY <1>1, <1>3, <1>4, NoLookFacts DEF AdvisorInv, AdvisorTyped, Services, NoLook
<1>6. Upto(svc'.cursor, transcript') = {}
 <2>1. svc'.cursor = 0 /\ transcript' = transcript BY <1>1, <1>4
 <2>2. Upto(0, transcript) = {} BY FreshCursor
 <2> QED BY <2>1, <2>2
<1>7. Range(transcript)' \subseteq 1 .. turns' /\ svc'.cursor <= turns' BY <1>1, <1>2, <1>4
<1>8. Upto(svc'.cursor, transcript') \subseteq excused' BY <1>6
<1> QED BY <1>3, <1>4, <1>5, <1>7, <1>8, RestsStep

LEMMA AdvisorStep == AdvisorInv /\ [AdvisorNext]_advisorVars => AdvisorInv'
<1>1. AdvisorInv /\ UNCHANGED advisorVars => AdvisorInv'
  BY DEF advisorVars, AdvisorInv, AdvisorTyped, NumbersAreOld, CursorIsHeard, PromptIsWhole, SeenCameFirst,
         OneAdvisorRun, OnlyPrompt, Looked, Relied, Alive
<1> QED
  BY <1>1, MainTurnStep, AdvisorRunStep, LookBeginsStep, AfterResetStep, CutOffStep, GetsRunStep, SpawnFailsStep,
     AdvisorClosedStep, SpawnEndsStep, TakesAdviceStep, AdvisorRestartsStep DEF AdvisorNext

\* Between looks the cursor of the advisor's own run passes nothing its advice was not taken for,
\* but for the two cases that are excused (advisor.py 225-261, 364-390), for any number of turns,
\* cuts, restarts and changes of settings.
THEOREM AdvisorMissesNothing == AdvisorSpec => []NothingSkipped
<1>1. AdvisorInv => NothingSkipped
  BY DEF AdvisorInv, CursorIsHeard, Looked, Relied, NothingSkipped
<1> QED BY <1>1, AdvisorStarts, AdvisorStep, PTL DEF AdvisorSpec

-----------------------------------------------------------------------------
(* Hooks: those of a tool call. *)

Stages == {"new", "before", "tool", "after", "done", "gone"}
Saying == [hook : Nat, saw : Nat, said : Verdict]

\* The blocking hooks that a call is always to be shown to.
MustAsk(c) == {i \in HookIndex : hookList[i].event = "before" /\ hookList[i].blocking
                                 /\ c \in hookList[i].always}
HeardOf(c) == {verdicts[c][k].hook : k \in DOMAIN verdicts[c]}
NoneRefused(c) == \A k \in DOMAIN verdicts[c] : ~Refuses(verdicts[c][k].said)

HookTyped ==
  /\ hookList \in HookLists /\ callStage \in [HookCall -> Stages] /\ at \in [HookCall -> Nat]
  /\ args \in [HookCall -> Nat] /\ told \in [HookCall -> Nat]
  /\ ran \in [HookCall -> Nat \union {NotRun}] /\ verdicts \in [HookCall -> Seq(Saying)]

\* What the payload says is what the verdicts so far have made of the arguments.
ToldIsWritten(c) ==
  /\ args[c] = told[c] /\ told[c] = ArgsAfter(c, Len(verdicts[c]))
  /\ c \notin WriteCall => told[c] = 0
  /\ \A k \in DOMAIN verdicts[c] : verdicts[c][k].saw = ArgsAfter(c, k - 1)

\* Hooks are asked in their order, and up to the one that runs none is left out.
AskedInOrder(c) ==
  /\ \A k \in 1 .. Len(verdicts[c]) - 1 : verdicts[c][k].hook < verdicts[c][k + 1].hook
  /\ callStage[c] \in {"new", "before", "tool"} => ran[c] = NotRun /\ NoneRefused(c)
  /\ callStage[c] = "new" => verdicts[c] = <<>>
  /\ callStage[c] = "after" => at[c] \in HookIndex
  /\ callStage[c] = "before" =>
       /\ at[c] \in HookIndex /\ \A k \in DOMAIN verdicts[c] : verdicts[c][k].hook < at[c]
       /\ \A i \in MustAsk(c) : i < at[c] => i \in HeardOf(c)
  /\ callStage[c] = "tool" => MustAsk(c) \subseteq HeardOf(c)

RanAsAllowed(c) ==
  ran[c] # NotRun => ran[c] = told[c] /\ MustAsk(c) \subseteq HeardOf(c) /\ NoneRefused(c)

CallIsSound(c) == ToldIsWritten(c) /\ AskedInOrder(c) /\ RanAsAllowed(c)

CallsInv == HookTyped /\ (\A c \in HookCall : CallIsSound(c)) /\ (exitStage # "no" => NoCalls)

LEMMA LeastIsThere ==
  ASSUME NEW S \in SUBSET Nat, S # {}
  PROVE  Min(S) \in S /\ \A x \in S : Min(S) <= x
<1> DEFINE R == {p \in Nat \X Nat : p[1] < p[2]}
<1>1. IsWellFoundedOn(R, Nat) BY NatLessThanWellFounded, Zenon DEF OpToRel
<1>2. PICK m \in S : \A k \in S : ~(<<k, m>> \in R)
 <2> HIDE DEF R
 <2> QED BY <1>1, WFMin
<1>3. ASSUME NEW k \in S PROVE m <= k
 <2>1. k \in Nat /\ m \in Nat /\ ~(<<k, m>> \in R) BY <1>2
 <2> QED BY <2>1
<1> QED BY <1>2, <1>3 DEF Min

LEMMA GreatestIsThere ==
  ASSUME NEW n \in Nat, NEW S \in SUBSET (1 .. n), S # {}
  PROVE  Max(S) \in S /\ \A x \in S : x <= Max(S)
<1> DEFINE T == {n - x : x \in S}
<1>1. T \in SUBSET Nat /\ T # {}
 <2>1. \A x \in S : x \in 1 .. n /\ n - x \in Nat OBVIOUS
 <2>2. T \subseteq Nat BY <2>1
 <2>3. PICK x \in S : TRUE OBVIOUS
 <2>4. n - x \in T BY <2>3
 <2> QED BY <2>2, <2>4
<1>2. Min(T) \in T /\ \A y \in T : Min(T) <= y BY <1>1, LeastIsThere
<1>3. PICK m \in S : Min(T) = n - m BY <1>2
<1>4. ASSUME NEW x \in S PROVE x <= m
 <2>1. n - x \in T /\ x \in 1 .. n /\ m \in 1 .. n BY <1>3
 <2>2. n - m <= n - x BY <1>2, <1>3, <2>1
 <2> QED BY <2>1, <2>2
<1> QED BY <1>4 DEF Max

LEMMA HooksAreListed ==
  ASSUME HookTyped
  PROVE  /\ Len(hookList) \in Nat /\ HookIndex = 1 .. Len(hookList)
         /\ \A i \in HookIndex : hookList[i] \in HookShape
BY HooksAssumption DEF HookTyped, HookIndex

\* The next hook comes later, and none that is always to be asked lies between.
LEMMA NextIsLater ==
  ASSUME HookTyped, NEW c \in HookCall, NEW event, NEW payload, NEW i \in 0 .. Len(hookList)
  PROVE  LET next == NextBlocking(event, c, payload, i) IN
         /\ next \in Nat /\ i < next /\ (~Ended(next) => next \in HookIndex)
         /\ event = "before" => \A j \in MustAsk(c) : i < j /\ j < next => FALSE
         /\ event = "before" /\ Ended(next) => \A j \in MustAsk(c) : j <= i
<1> DEFINE S == {j \in HookIndex : j > i /\ hookList[j].blocking /\ HookMatches(j, event, c, payload)}
                  \union {Len(hookList) + 1}
           next == NextBlocking(event, c, payload, i)
<1>1. S \in SUBSET Nat /\ S # {} /\ \A x \in S : i < x /\ (x # Len(hookList) + 1 => x \in HookIndex)
  BY HooksAreListed
<1>2. next = Min(S) BY DEF NextBlocking
<1>3. next \in S /\ \A x \in S : next <= x
 <2> HIDE DEF S, next
 <2> QED BY <1>1, <1>2, LeastIsThere
<1>4. event = "before" => \A j \in MustAsk(c) : i < j => j \in S BY DEF MustAsk, HookMatches
<1>5. \A j \in MustAsk(c) : j \in HookIndex /\ j \in Nat /\ j <= Len(hookList)
  BY HooksAreListed DEF MustAsk
<1>6. event = "before" => \A j \in MustAsk(c) : i < j => next <= j BY <1>3, <1>4
<1>7. next \in Nat /\ i < next /\ (next # Len(hookList) + 1 => next \in HookIndex)
  BY <1>1, <1>3
<1> HIDE DEF S, next
<1> QED BY <1>5, <1>6, <1>7, HooksAreListed DEF Ended, next

\* A verdict more: the arguments are those that it wrote, or those of before.
LEMMA ArgsMove ==
  ASSUME NEW c \in HookCall, HookTyped, NEW x \in Saying, NEW n \in Nat, n = Len(verdicts[c]),
         verdicts' = [verdicts EXCEPT ![c] = Append(@, x)]
  PROVE  /\ n \in Nat /\ Len(verdicts'[c]) = n + 1
         /\ verdicts'[c][n + 1] = x /\ \A k \in 1 .. n : verdicts'[c][k] = verdicts[c][k]
         /\ \A k \in 0 .. n : ArgsAfter(c, k)' = ArgsAfter(c, k)
         /\ ArgsAfter(c, n + 1)' = IF Rewrites(c, x.said) THEN x.hook ELSE ArgsAfter(c, n)
<1> DEFINE Writers(v, k) == {j \in 1 .. k : Rewrites(c, v[j].said)}
           After(v, k) == IF Writers(v, k) = {} THEN 0 ELSE v[Max(Writers(v, k))].hook
           old == verdicts[c]
           new == verdicts'[c]
<1>1. /\ n \in Nat /\ Len(new) = n + 1 /\ new[n + 1] = x /\ \A k \in 1 .. n : new[k] = old[k]
  BY DEF HookTyped
<1>2. \A k : ArgsAfter(c, k)' = After(new, k) /\ ArgsAfter(c, k) = After(old, k)
  BY DEF ArgsAfter, Rewrites
<1> HIDE DEF old, new
<1>3. ASSUME NEW k \in 0 .. n PROVE After(new, k) = After(old, k)
 <2>1. Writers(new, k) = Writers(old, k) BY <1>1
 <2>2. CASE Writers(old, k) = {} BY <2>1, <2>2
 <2>3. CASE Writers(old, k) # {}
  <3>1. k \in Nat /\ Writers(old, k) \in SUBSET (1 .. k) /\ \A j \in 1 .. k : j \in 1 .. n
    BY <1>1
  <3>2. Max(Writers(old, k)) \in Writers(old, k)
   <4> HIDE DEF Writers
   <4> QED BY <2>3, <3>1, GreatestIsThere
  <3>3. old[Max(Writers(old, k))] = new[Max(Writers(old, k))]
   <4>1. Max(Writers(old, k)) \in 1 .. n BY <3>1, <3>2
   <4> QED BY <1>1, <4>1
  <3> HIDE DEF Writers
  <3> QED BY <2>1, <3>3
 <2> QED BY <2>2, <2>3
<1>4. After(new, n + 1) = IF Rewrites(c, x.said) THEN x.hook ELSE After(old, n)
 <2>1. CASE Rewrites(c, x.said)
  <3>1. n + 1 \in Writers(new, n + 1) /\ n + 1 \in Nat BY <1>1, <2>1
  <3>2. /\ Max(Writers(new, n + 1)) \in Writers(new, n + 1)
        /\ \A j \in Writers(new, n + 1) : j <= Max(Writers(new, n + 1))
    BY <3>1, GreatestIsThere
  <3>3. Max(Writers(new, n + 1)) = n + 1 BY <1>1, <3>1, <3>2
  <3> QED BY <1>1, <2>1, <3>1, <3>3
 <2>2. CASE ~Rewrites(c, x.said)
  <3>1. Writers(new, n + 1) = Writers(new, n) BY <1>1, <2>2
  <3>2. After(new, n) = After(old, n)
   <4>1. n \in 0 .. n BY <1>1
   <4> HIDE DEF After
   <4> QED BY <1>3, <4>1
  <3> QED BY <2>2, <3>1, <3>2
 <2> QED BY <2>1, <2>2
<1>5. /\ \A k \in 0 .. n : ArgsAfter(c, k)' = ArgsAfter(c, k)
      /\ ArgsAfter(c, n + 1)' = IF Rewrites(c, x.said) THEN x.hook ELSE ArgsAfter(c, n)
 <2> HIDE DEF After
 <2> QED BY <1>2, <1>3, <1>4
<1> QED BY <1>1, <1>5 DEF old, new

\* A call that takes no part, but for a place in the list that it does not need.
LEMMA CallRests ==
  ASSUME NEW c \in HookCall, CallIsSound(c), hookList' = hookList,
         args'[c] = args[c], told'[c] = told[c], ran'[c] = ran[c], verdicts'[c] = verdicts[c],
         callStage'[c] = callStage[c] \/ callStage'[c] = "gone",
         callStage'[c] \in {"before", "after"} => at'[c] = at[c]
  PROVE  CallIsSound(c)'
<1>1. /\ \A k : ArgsAfter(c, k)' = ArgsAfter(c, k)
      /\ HeardOf(c)' = HeardOf(c) /\ (NoneRefused(c)' <=> NoneRefused(c))
      /\ MustAsk(c)' = MustAsk(c) /\ HookIndex' = HookIndex
  BY DEF ArgsAfter, HeardOf, NoneRefused, Rewrites, Refuses, MustAsk, HookIndex
<1>2. ToldIsWritten(c)' BY <1>1 DEF CallIsSound, ToldIsWritten
<1>3. AskedInOrder(c)' BY <1>1 DEF CallIsSound, AskedInOrder
<1>4. RanAsAllowed(c)' BY <1>1 DEF CallIsSound, RanAsAllowed
<1> QED BY <1>2, <1>3, <1>4 DEF CallIsSound

\* What a dispatch does to the stage of its call, and to the place.
LEMMA DispatchLands ==
  ASSUME HookTyped, NEW c \in HookCall, NEW event \in {"before", "after"}, NEW payload,
         NEW i \in 0 .. Len(hookList), Dispatch(c, event, i, payload)
  PROVE  /\ callStage' \in [HookCall -> Stages] /\ at' \in [HookCall -> Nat]
         /\ \A d \in HookCall : d # c => callStage'[d] = callStage[d] /\ at'[d] = at[d]
         /\ event = "after" => callStage'[c] \in {"after", "done"}
         /\ callStage'[c] = "after" => at'[c] \in HookIndex
         /\ event = "before" => callStage'[c] \in {"before", "tool"}
         /\ callStage'[c] = "before" =>
              /\ at'[c] \in HookIndex /\ i < at'[c] /\ at'[c] \in Nat
              /\ \A j \in MustAsk(c) : i < j => at'[c] <= j
         /\ callStage'[c] = "tool" => \A j \in MustAsk(c) : j <= i
<1> DEFINE next == NextBlocking(event, c, payload, i)
<1>1. /\ at' = [at EXCEPT ![c] = next]
      /\ callStage' = [callStage EXCEPT ![c] =
                         IF ~Ended(next) THEN event ELSE IF event = "before" THEN "tool" ELSE "done"]
  BY DEF Dispatch
<1>2. /\ next \in Nat /\ i < next /\ (~Ended(next) => next \in HookIndex)
      /\ event = "before" => \A j \in MustAsk(c) : i < j /\ j < next => FALSE
      /\ event = "before" /\ Ended(next) => \A j \in MustAsk(c) : j <= i
  BY NextIsLater
<1>3. \A j \in MustAsk(c) : j \in Nat BY HooksAreListed DEF MustAsk
<1> HIDE DEF next
<1>4. /\ at'[c] = next
      /\ callStage'[c] = IF ~Ended(next) THEN event ELSE IF event = "before" THEN "tool" ELSE "done"
      /\ \A d \in HookCall : d # c => callStage'[d] = callStage[d] /\ at'[d] = at[d]
  BY <1>1 DEF HookTyped
<1>5. callStage' \in [HookCall -> Stages] /\ at' \in [HookCall -> Nat]
  BY <1>1, <1>2 DEF HookTyped, Stages
<1>6. callStage'[c] = "before" => event = "before" /\ ~Ended(next) BY <1>4
<1>7. /\ callStage'[c] = "tool" => event = "before" /\ Ended(next)
      /\ callStage'[c] = "after" => ~Ended(next)
  BY <1>4
<1>8. ~Ended(next) /\ event = "before" => \A j \in MustAsk(c) : i < j => next <= j
  BY <1>2, <1>3
<1> QED BY <1>2, <1>4, <1>5, <1>6, <1>7, <1>8

\* The others rest, while a call moves.
LEMMA OthersRest ==
  ASSUME CallsInv, NEW c \in HookCall, hookList' = hookList, exitStage' = exitStage, ~NoCalls \/ exitStage = "no",
         HookTyped', CallIsSound(c)',
         \A d \in HookCall : d # c => /\ callStage'[d] = callStage[d] /\ at'[d] = at[d]
                                      /\ args'[d] = args[d] /\ told'[d] = told[d]
                                      /\ ran'[d] = ran[d] /\ verdicts'[d] = verdicts[d]
  PROVE  CallsInv'
<1>1. ASSUME NEW d \in HookCall, d # c PROVE CallIsSound(d)' BY <1>1, CallRests DEF CallsInv
<1>2. exitStage' = "no" BY DEF CallsInv
<1> QED BY <1>1, <1>2 DEF CallsInv

LEMMA BeginCallKeeps ==
  ASSUME CallsInv, NEW c \in HookCall, BeginCall(c) PROVE CallsInv'
<1> DEFINE i == 0
<1>1. /\ callStage[c] = "new" /\ exitStage = "no" /\ Dispatch(c, "before", 0, told[c])
      /\ UNCHANGED <<hookList, args, told, refused, ran, verdicts, exitStage, awaited, nodeVars>>
  BY DEF BeginCall
<1>2. HookTyped /\ CallIsSound(c) /\ 0 \in 0 .. Len(hookList) BY HooksAreListed DEF CallsInv
<1>3. /\ callStage' \in [HookCall -> Stages] /\ at' \in [HookCall -> Nat]
      /\ \A d \in HookCall : d # c => callStage'[d] = callStage[d] /\ at'[d] = at[d]
      /\ callStage'[c] \in {"before", "tool"}
      /\ callStage'[c] = "before" =>
           at'[c] \in HookIndex /\ at'[c] \in Nat /\ \A j \in MustAsk(c) : 0 < j => at'[c] <= j
      /\ callStage'[c] = "tool" => \A j \in MustAsk(c) : j <= 0
 <2> HIDE DEF Dispatch
 <2> QED BY <1>1, <1>2, DispatchLands
<1>4. HookTyped' BY <1>1, <1>2, <1>3 DEF HookTyped
<1>5. /\ \A k : ArgsAfter(c, k)' = ArgsAfter(c, k)
      /\ HeardOf(c)' = HeardOf(c) /\ (NoneRefused(c)' <=> NoneRefused(c))
      /\ MustAsk(c)' = MustAsk(c) /\ HookIndex' = HookIndex
  BY <1>1 DEF ArgsAfter, HeardOf, NoneRefused, Rewrites, Refuses, MustAsk, HookIndex
<1>6. verdicts[c] = <<>> /\ ran[c] = NotRun /\ NoneRefused(c)
  BY <1>1, <1>2 DEF CallIsSound, AskedInOrder
<1>7. \A j \in MustAsk(c) : j \in Nat /\ 0 < j BY <1>2, HooksAreListed DEF MustAsk
<1>8. ToldIsWritten(c)' BY <1>1, <1>2, <1>5 DEF CallIsSound, ToldIsWritten
<1>9. AskedInOrder(c)'
 <2>1. callStage'[c] = "before" => \A j \in MustAsk(c) : j < at'[c] => FALSE BY <1>3, <1>7
 <2>2. callStage'[c] = "tool" => MustAsk(c) = {} BY <1>3, <1>7
 <2>3. DOMAIN verdicts'[c] = {} /\ Len(verdicts'[c]) = 0 BY <1>1, <1>6
 <2> QED BY <1>1, <1>3, <1>5, <1>6, <2>1, <2>2, <2>3 DEF AskedInOrder
<1>10. RanAsAllowed(c)' BY <1>1, <1>6 DEF RanAsAllowed
<1> QED BY <1>1, <1>3, <1>4, <1>8, <1>9, <1>10, OthersRest DEF CallIsSound

LEMMA FinishBeforeKeeps ==
  ASSUME CallsInv, NEW c \in HookCall, NEW v \in Verdict, FinishBefore(c, v) PROVE CallsInv'
<1> DEFINE i == at[c]  payload == PayloadAfter(c, i, v)
<1>a. PICK x : x = [hook |-> i, saw |-> told[c], said |-> v] OBVIOUS
<1>1. /\ callStage[c] = "before"
      /\ args' = [args EXCEPT ![c] = IF Rewrites(c, v) THEN i ELSE @]
      /\ told' = [told EXCEPT ![c] = payload]
      /\ verdicts' = [verdicts EXCEPT ![c] = Append(@, x)]
      /\ IF Refuses(v) THEN Dispatch(c, "after", 0, 0) ELSE Dispatch(c, "before", i, payload)
      /\ UNCHANGED <<hookList, ran, exitStage, awaited, nodeVars>>
  BY <1>a DEF FinishBefore
<1>2. HookTyped /\ CallIsSound(c) /\ exitStage = "no" BY <1>1 DEF CallsInv, NoCalls
<1>3. /\ i \in 0 .. Len(hookList) /\ 0 \in 0 .. Len(hookList) /\ i \in HookIndex /\ i \in Nat
      /\ ran[c] = NotRun /\ NoneRefused(c)
      /\ \A k \in DOMAIN verdicts[c] : verdicts[c][k].hook < i
      /\ \A j \in MustAsk(c) : j < i => j \in HeardOf(c)
  BY <1>1, <1>2, HooksAreListed DEF CallIsSound, AskedInOrder
<1>4. x \in Saying BY <1>a, <1>2, <1>3 DEF Saying, HookTyped
<1>b. PICK n : n = Len(verdicts[c]) OBVIOUS
<1>c. n \in Nat /\ DOMAIN verdicts[c] = 1 .. n /\ \A k \in 1 .. n : verdicts[c][k] \in Saying
  BY <1>2, <1>b DEF HookTyped
<1>5. /\ n \in Nat /\ Len(verdicts'[c]) = n + 1
      /\ verdicts'[c][n + 1] = x /\ \A k \in 1 .. n : verdicts'[c][k] = verdicts[c][k]
      /\ \A k \in 0 .. n : ArgsAfter(c, k)' = ArgsAfter(c, k)
      /\ ArgsAfter(c, n + 1)' = IF Rewrites(c, x.said) THEN x.hook ELSE ArgsAfter(c, n)
 <2>1. /\ HookTyped /\ x \in Saying /\ n \in Nat /\ n = Len(verdicts[c])
       /\ verdicts' = [verdicts EXCEPT ![c] = Append(@, x)]
   BY <1>1, <1>2, <1>4, <1>b, <1>c
 <2> HIDE DEF i, payload
 <2> QED BY <2>1, ArgsMove, ZenonT(20)
<1>6. /\ \A d \in HookCall : d # c => args'[d] = args[d] /\ told'[d] = told[d] /\ verdicts'[d] = verdicts[d]
      /\ args'[c] = (IF Rewrites(c, v) THEN i ELSE args[c]) /\ told'[c] = payload
      /\ args' \in [HookCall -> Nat] /\ told' \in [HookCall -> Nat]
      /\ verdicts' \in [HookCall -> Seq(Saying)]
  BY <1>1, <1>2, <1>3, <1>4 DEF HookTyped, PayloadAfter
<1>7. /\ callStage' \in [HookCall -> Stages] /\ at' \in [HookCall -> Nat]
      /\ \A d \in HookCall : d # c => callStage'[d] = callStage[d] /\ at'[d] = at[d]
      /\ Refuses(v) => callStage'[c] \in {"after", "done"}
      /\ callStage'[c] = "after" => at'[c] \in HookIndex
      /\ ~Refuses(v) => callStage'[c] \in {"before", "tool"}
      /\ callStage'[c] = "before" =>
           at'[c] \in HookIndex /\ i < at'[c] /\ \A j \in MustAsk(c) : i < j => at'[c] <= j
      /\ callStage'[c] = "tool" => \A j \in MustAsk(c) : j <= i
 <2> HIDE DEF payload
 <2>1. CASE Refuses(v) BY <1>1, <1>2, <1>3, <2>1, DispatchLands
 <2>2. CASE ~Refuses(v) BY <1>1, <1>2, <1>3, <2>2, DispatchLands
 <2> QED BY <2>1, <2>2
<1>8. HookTyped' BY <1>1, <1>2, <1>6, <1>7 DEF HookTyped
<1>9. ToldIsWritten(c)'
 <2>1. /\ args[c] = told[c] /\ told[c] = ArgsAfter(c, n) /\ (c \notin WriteCall => told[c] = 0)
       /\ \A k \in 1 .. n : verdicts[c][k].saw = ArgsAfter(c, k - 1)
   BY <1>2, <1>b, <1>5 DEF CallIsSound, ToldIsWritten
 <2>2. args'[c] = told'[c] /\ told'[c] = IF Rewrites(c, v) THEN i ELSE told[c]
   BY <1>6, <2>1 DEF PayloadAfter
 <2>3. told'[c] = ArgsAfter(c, n + 1)' BY <1>5, <1>a, <2>1, <2>2
 <2>4. c \notin WriteCall => told'[c] = 0 BY <2>1, <2>2 DEF Rewrites
 <2>5. ASSUME NEW k \in 1 .. n + 1 PROVE verdicts'[c][k].saw = ArgsAfter(c, k - 1)'
  <3>1. CASE k = n + 1
   <4>1. n \in 0 .. n /\ k - 1 = n BY <1>5, <3>1
   <4>2. ArgsAfter(c, k - 1)' = ArgsAfter(c, n) BY <1>5, <4>1
   <4> QED BY <1>5, <1>a, <2>1, <3>1, <4>2
  <3>2. CASE k \in 1 .. n
   <4>1. k - 1 \in 0 .. n BY <1>5, <3>2
   <4>2. ArgsAfter(c, k - 1)' = ArgsAfter(c, k - 1) BY <1>5, <4>1
   <4> QED BY <1>5, <2>1, <3>2, <4>2
  <3> QED BY <1>5, <3>1, <3>2
 <2>6. DOMAIN verdicts'[c] = 1 .. n + 1 /\ Len(verdicts'[c]) = n + 1 BY <1>5, <1>6
 <2>7. PICK m : m = n + 1 OBVIOUS
 <2> QED BY <1>5, <2>2, <2>3, <2>4, <2>5, <2>6 DEF ToldIsWritten
<1>10. MustAsk(c)' = MustAsk(c) /\ HookIndex' = HookIndex BY <1>1 DEF MustAsk, HookIndex
<1>11. /\ \A j \in HeardOf(c) : j \in HeardOf(c)'
       /\ i \in HeardOf(c)'
       /\ NoneRefused(c)' <=> ~Refuses(v)
 <2>1. DOMAIN verdicts'[c] = 1 .. n + 1 /\ DOMAIN verdicts[c] = 1 .. n /\ n + 1 \in 1 .. n + 1
   BY <1>2, <1>5, <1>6, <1>b DEF HookTyped
 <2>2. \A k \in 1 .. n + 1 : k = n + 1 \/ k \in 1 .. n BY <1>5
 <2>3. \A k \in 1 .. n : k \in 1 .. n + 1 BY <1>5
 <2>4. NoneRefused(c)' <=> ~Refuses(v)
   BY <1>3, <1>5, <1>a, <2>1, <2>2, SMTT(30) DEF NoneRefused
 <2>5. HeardOf(c)' = {verdicts'[c][k].hook : k \in 1 .. n + 1} BY <2>1 DEF HeardOf
 <2>6. HeardOf(c) = {verdicts[c][k].hook : k \in 1 .. n} BY <2>1 DEF HeardOf
 <2>7. ASSUME NEW j \in HeardOf(c) PROVE j \in HeardOf(c)'
  <3>1. PICK k \in 1 .. n : j = verdicts[c][k].hook BY <2>6
  <3>2. k \in 1 .. n + 1 /\ verdicts'[c][k].hook = j BY <1>5, <2>3, <3>1
  <3> QED BY <2>5, <3>2
 <2>8. verdicts'[c][n + 1].hook = i BY <1>5, <1>a
 <2>9. i \in HeardOf(c)' BY <2>1, <2>5, <2>8
 <2> QED BY <2>4, <2>7, <2>9
<1>12. \A j \in MustAsk(c) : j \in Nat BY <1>2, HooksAreListed DEF MustAsk
<1>13. AskedInOrder(c)'
 <2>1. \A k \in 1 .. Len(verdicts'[c]) - 1 : verdicts'[c][k].hook < verdicts'[c][k + 1].hook
  <3>1. \A k \in 1 .. n - 1 : k \in 1 .. n /\ k + 1 \in 1 .. n /\ verdicts[c][k].hook < verdicts[c][k + 1].hook
    BY <1>2, <1>5, <1>b DEF CallIsSound, AskedInOrder
  <3>2. \A k \in 1 .. n : verdicts[c][k].hook < i BY <1>3, <1>c
  <3>3. \A k \in 1 .. n : k = n \/ k \in 1 .. n - 1 BY <1>5
  <3>4. ASSUME NEW k \in 1 .. n PROVE verdicts'[c][k].hook < verdicts'[c][k + 1].hook
   <4>1. CASE k = n BY <1>5, <1>a, <3>2, <4>1
   <4>2. CASE k \in 1 .. n - 1 BY <1>5, <3>1, <4>2
   <4> QED BY <3>3, <4>1, <4>2
  <3> QED BY <1>5, <3>4
 <2>2. callStage'[c] \in {"new", "before", "tool"} => ~Refuses(v) /\ callStage'[c] # "new"
   BY <1>7
 <2>3. ran'[c] = NotRun BY <1>1, <1>3
 <2>4. ASSUME callStage'[c] = "before"
       PROVE  /\ at'[c] \in HookIndex /\ \A k \in DOMAIN verdicts'[c] : verdicts'[c][k].hook < at'[c]
              /\ \A j \in MustAsk(c) : j < at'[c] => j \in HeardOf(c)'
  <3>1. at'[c] \in HookIndex /\ i < at'[c] /\ at'[c] \in Nat BY <1>7, <2>4
  <3>2. ASSUME NEW k \in DOMAIN verdicts'[c] PROVE verdicts'[c][k].hook < at'[c]
   <4>1. k \in 1 .. n + 1 /\ DOMAIN verdicts[c] = 1 .. n
     BY <1>2, <1>5, <1>6, <1>b DEF HookTyped
   <4>2. CASE k = n + 1
    <5>1. verdicts'[c][k] = x BY <1>5, <4>2
    <5>2. verdicts'[c][k].hook = i BY <1>a, <5>1
    <5> QED BY <3>1, <5>2
   <4>3. CASE k \in 1 .. n
    <5>1. verdicts[c][k].hook \in Nat /\ verdicts[c][k].hook < i
      BY <1>3, <1>c, <4>3 DEF Saying
    <5> QED
     <6>1. verdicts'[c][k] = verdicts[c][k] BY <1>5, <4>3
     <6>2. i \in Nat BY <1>3
     <6> HIDE DEF i
     <6> QED BY <3>1, <5>1, <6>1, <6>2
   <4>4. k = n + 1 \/ k \in 1 .. n BY <1>c, <4>1
   <4> QED BY <4>2, <4>3, <4>4
  <3>3. ASSUME NEW j \in MustAsk(c), j < at'[c] PROVE j \in HeardOf(c)'
   <4>1. j <= i BY <1>3, <1>7, <1>12, <2>4, <3>1, <3>3
   <4> QED BY <1>3, <1>11, <1>12, <4>1
  <3> QED BY <3>1, <3>2, <3>3
 <2>5. ASSUME callStage'[c] = "tool" PROVE MustAsk(c) \subseteq HeardOf(c)'
   BY <1>3, <1>7, <1>11, <1>12, <2>5
 <2> QED BY <1>7, <1>10, <1>11, <2>1, <2>2, <2>3, <2>4, <2>5 DEF AskedInOrder
<1>14. RanAsAllowed(c)' BY <1>1, <1>3 DEF RanAsAllowed
<1> QED BY <1>1, <1>2, <1>6, <1>7, <1>8, <1>9, <1>13, <1>14, OthersRest DEF CallIsSound

LEMMA RunToolKeeps ==
  ASSUME CallsInv, NEW c \in HookCall, RunTool(c) PROVE CallsInv'
<1>1. /\ callStage[c] = "tool" /\ Dispatch(c, "after", 0, 0)
      /\ ran' = [ran EXCEPT ![c] = IF c \in WriteCall THEN args[c] ELSE 0]
      /\ UNCHANGED <<hookList, args, told, refused, verdicts, exitStage, awaited, nodeVars>>
  BY DEF RunTool
<1>2. HookTyped /\ CallIsSound(c) /\ 0 \in 0 .. Len(hookList) /\ exitStage = "no"
  BY <1>1, HooksAreListed DEF CallsInv, NoCalls
<1>3. /\ callStage' \in [HookCall -> Stages] /\ at' \in [HookCall -> Nat]
      /\ \A d \in HookCall : d # c => callStage'[d] = callStage[d] /\ at'[d] = at[d]
      /\ callStage'[c] \in {"after", "done"} /\ (callStage'[c] = "after" => at'[c] \in HookIndex)
  BY <1>1, <1>2, DispatchLands
<1>4. args[c] = told[c] /\ (c \notin WriteCall => told[c] = 0) /\ args[c] \in Nat
  BY <1>2 DEF CallIsSound, ToldIsWritten, HookTyped
<1>5. /\ ran'[c] = told[c] /\ ran' \in [HookCall -> Nat \union {NotRun}]
      /\ \A d \in HookCall : d # c => ran'[d] = ran[d]
  BY <1>1, <1>2, <1>4 DEF HookTyped
<1>6. HookTyped' BY <1>1, <1>2, <1>3, <1>5 DEF HookTyped
<1>7. /\ \A k : ArgsAfter(c, k)' = ArgsAfter(c, k)
      /\ HeardOf(c)' = HeardOf(c) /\ (NoneRefused(c)' <=> NoneRefused(c))
      /\ MustAsk(c)' = MustAsk(c) /\ HookIndex' = HookIndex
  BY <1>1 DEF ArgsAfter, HeardOf, NoneRefused, Rewrites, Refuses, MustAsk, HookIndex
<1>8. ToldIsWritten(c)' BY <1>1, <1>2, <1>7 DEF CallIsSound, ToldIsWritten
<1>9. AskedInOrder(c)' /\ RanAsAllowed(c)'
 <2>1. /\ \A k \in 1 .. Len(verdicts[c]) - 1 : verdicts[c][k].hook < verdicts[c][k + 1].hook
       /\ MustAsk(c) \subseteq HeardOf(c) /\ NoneRefused(c)
   BY <1>1, <1>2 DEF CallIsSound, AskedInOrder
 <2> QED BY <1>1, <1>3, <1>5, <1>7, <2>1 DEF AskedInOrder, RanAsAllowed
<1> QED BY <1>1, <1>2, <1>3, <1>5, <1>6, <1>8, <1>9, OthersRest DEF CallIsSound

LEMMA FinishAfterKeeps ==
  ASSUME CallsInv, NEW c \in HookCall, FinishAfter(c) PROVE CallsInv'
<1>1. /\ callStage[c] = "after" /\ Dispatch(c, "after", at[c], 0)
      /\ UNCHANGED <<hookList, args, told, refused, ran, verdicts, exitStage, awaited, nodeVars>>
  BY DEF FinishAfter
<1>2. HookTyped /\ CallIsSound(c) /\ exitStage = "no" BY <1>1 DEF CallsInv, NoCalls
<1>3. at[c] \in 0 .. Len(hookList)
  BY <1>1, <1>2, HooksAreListed DEF CallIsSound, AskedInOrder
<1>4. /\ callStage' \in [HookCall -> Stages] /\ at' \in [HookCall -> Nat]
      /\ \A d \in HookCall : d # c => callStage'[d] = callStage[d] /\ at'[d] = at[d]
      /\ callStage'[c] \in {"after", "done"} /\ (callStage'[c] = "after" => at'[c] \in HookIndex)
  BY <1>1, <1>2, <1>3, DispatchLands
<1>5. HookTyped' BY <1>1, <1>2, <1>4 DEF HookTyped
<1>6. /\ \A k : ArgsAfter(c, k)' = ArgsAfter(c, k)
      /\ HeardOf(c)' = HeardOf(c) /\ (NoneRefused(c)' <=> NoneRefused(c))
      /\ MustAsk(c)' = MustAsk(c) /\ HookIndex' = HookIndex
  BY <1>1 DEF ArgsAfter, HeardOf, NoneRefused, Rewrites, Refuses, MustAsk, HookIndex
<1>7. ToldIsWritten(c)' BY <1>1, <1>2, <1>6 DEF CallIsSound, ToldIsWritten
<1>8. AskedInOrder(c)' BY <1>1, <1>2, <1>4, <1>6 DEF CallIsSound, AskedInOrder
<1>9. RanAsAllowed(c)' BY <1>1, <1>2, <1>6 DEF CallIsSound, RanAsAllowed
<1> QED BY <1>1, <1>2, <1>4, <1>5, <1>7, <1>8, <1>9, OthersRest DEF CallIsSound

LEMMA CancelKeeps ==
  ASSUME CallsInv, CancelCalls PROVE CallsInv'
<1>1. /\ callStage' = [c \in HookCall |->
                         IF callStage[c] \in {"new", "done"} THEN callStage[c] ELSE "gone"]
      /\ ~NoCalls /\ UNCHANGED <<hookList, at, args, told, ran, verdicts, exitStage>>
  BY DEF CancelCalls
<1>2. HookTyped' /\ exitStage' = "no" BY <1>1 DEF CallsInv, HookTyped, Stages
<1>3. ASSUME NEW c \in HookCall PROVE CallIsSound(c)'
 <2>1. callStage'[c] = callStage[c] \/ callStage'[c] = "gone" BY <1>1
 <2> QED BY <1>1, <2>1, CallRests DEF CallsInv
<1> QED BY <1>2, <1>3 DEF CallsInv

\* At the end no call runs, so that the places in the list are those of the end's own hooks.
LEMMA EndKeepsCalls ==
  ASSUME CallsInv, NoCalls, NEW i, LeaveFrom(i),
         UNCHANGED <<hookList, callStage, args, told, refused, ran, verdicts, nodeVars>>
  PROVE  CallsInv'
<1> DEFINE S == {j \in HookIndex : j > i /\ hookList[j].event = "end" /\ hookList[j].blocking}
                  \union {Len(hookList) + 1}
<1>1. at' = [c \in HookCall |-> Min(S)] BY DEF LeaveFrom
<1>2. Min(S) \in Nat
 <2>1. S \in SUBSET Nat /\ S # {} BY HooksAreListed DEF CallsInv
 <2> HIDE DEF S
 <2> QED BY <2>1, LeastIsThere
<1>3. HookTyped' BY <1>1, <1>2 DEF CallsInv, HookTyped
<1>4. ASSUME NEW c \in HookCall PROVE CallIsSound(c)'
 <2>1. callStage'[c] \notin {"before", "after"} BY DEF NoCalls
 <2> QED BY <2>1, CallRests DEF CallsInv
<1>5. NoCalls' BY DEF NoCalls
<1> QED BY <1>3, <1>4, <1>5 DEF CallsInv

\* Steps of the end, of the background and of the graph leave the calls alone.
LEMMA CallsRest ==
  ASSUME CallsInv, UNCHANGED <<hookList, callStage, at, args, told, ran, verdicts>>,
         exitStage' # "no" => exitStage # "no"
  PROVE  CallsInv'
<1>1. HookTyped' BY DEF CallsInv, HookTyped
<1>2. ASSUME NEW c \in HookCall PROVE CallIsSound(c)' BY CallRests DEF CallsInv
<1>3. NoCalls' <=> NoCalls BY DEF NoCalls
<1> QED BY <1>1, <1>2, <1>3 DEF CallsInv

LEMMA CallsKeep ==
  ASSUME CallsInv, [HookNext]_hookVars
  PROVE  CallsInv'
<1>1. ASSUME NEW c \in HookCall, BeginCall(c) \/ RunTool(c) \/ FinishAfter(c) PROVE CallsInv'
  BY <1>1, BeginCallKeeps, RunToolKeeps, FinishAfterKeeps
<1>2. ASSUME NEW c \in HookCall, NEW v \in Verdict, FinishBefore(c, v) PROVE CallsInv'
  BY <1>2, FinishBeforeKeeps
<1>3. CASE BeginExit BY <1>3, EndKeepsCalls DEF BeginExit
<1>4. CASE FinishEnd
 <2>1. NoCalls BY <1>4 DEF FinishEnd, CallsInv
 <2> QED BY <1>4, <2>1, EndKeepsCalls DEF FinishEnd
<1>5. CASE FinishBackground \/ Joined BY <1>5, CallsRest DEF FinishBackground, Joined
<1>6. CASE BeforeModelCall \/ CallBreaks \/ CompactByHand
  BY <1>6, CallsRest DEF BeforeModelCall, CallBreaks, CompactByHand, callVars
<1>7. ASSUME NEW b \in BOOLEAN, CallAnswers(b) \/ AfterModel(b) PROVE CallsInv'
  BY <1>7, CallsRest DEF CallAnswers, AfterModel, callVars
<1>8. CASE UNCHANGED hookVars BY <1>8, CallsRest DEF hookVars
<1> QED BY <1>1, <1>2, CancelKeeps, <1>3, <1>4, <1>5, <1>6, <1>7, <1>8 DEF HookNext

LEMMA CallsBegin == HookInit => CallsInv
<1> SUFFICES ASSUME HookInit PROVE CallsInv OBVIOUS
<1>1. HookTyped BY DEF HookInit, HookTyped, Stages
<1>2. ASSUME NEW c \in HookCall PROVE CallIsSound(c)
 <2>1. /\ verdicts[c] = <<>> /\ args[c] = 0 /\ told[c] = 0 /\ ran[c] = NotRun /\ callStage[c] = "new"
   BY DEF HookInit
 <2>2. ArgsAfter(c, 0) = 0 BY DEF ArgsAfter
 <2>3. DOMAIN verdicts[c] = {} /\ Len(verdicts[c]) = 0 BY <2>1
 <2>4. ToldIsWritten(c) BY <2>1, <2>2, <2>3 DEF ToldIsWritten
 <2>5. AskedInOrder(c) /\ RanAsAllowed(c)
   BY <2>1, <2>3 DEF AskedInOrder, RanAsAllowed, NoneRefused
 <2> QED BY <2>4, <2>5 DEF CallIsSound
<1> QED BY <1>1, <1>2 DEF CallsInv, HookInit

-----------------------------------------------------------------------------
(* Hooks: those that run beside, and the announcements. *)

\* What is awaited covers what runs, and nothing runs once it was.
ExitJoins ==
  /\ exitStage = "joining" => background \subseteq awaited
  /\ exitStage = "left" => background = {}

\* Between the model calls a compaction was announced once, and once more for every crash; one that
\* the call that is underway committed, only by the crashes.
MarksInv ==
  /\ reruns \in Nat /\ announced \in [1 .. MaxMarks -> Nat]
  /\ \E m \in 0 .. MaxMarks : marks = 1 .. m
  /\ baseline \subseteq marks /\ node \in {"idle", "model", "after"}
  /\ node = "model" => marks = baseline
  /\ \A n \in 1 .. MaxMarks :
       /\ n \notin marks => announced[n] = 0
       /\ n \in baseline \/ (n \in marks /\ node = "idle") =>
            1 <= announced[n] /\ announced[n] <= 1 + reruns
       /\ n \in marks \ baseline /\ node # "idle" => announced[n] <= reruns

LEMMA ExitKeeps ==
  ASSUME CallsInv, ExitJoins, [HookNext]_hookVars
  PROVE  ExitJoins'
<1>1. ASSUME NEW c \in HookCall, BeginCall(c) \/ RunTool(c) \/ FinishAfter(c) PROVE exitStage' = "no"
  BY <1>1 DEF BeginCall, RunTool, FinishAfter, CallsInv, NoCalls
<1>2. ASSUME NEW c \in HookCall, NEW v \in Verdict, FinishBefore(c, v) PROVE exitStage' = "no"
  BY <1>2 DEF FinishBefore, CallsInv, NoCalls
<1>3. CASE BeginExit \/ FinishEnd BY <1>3 DEF BeginExit, FinishEnd, LeaveFrom, ExitJoins
<1>4. CASE FinishBackground \/ Joined BY <1>4 DEF FinishBackground, Joined, ExitJoins
<1>5. CASE BeforeModelCall \/ CallBreaks \/ CompactByHand \/ CancelCalls
  BY <1>5 DEF BeforeModelCall, CallBreaks, CompactByHand, CancelCalls, callVars, ExitJoins
<1>6. ASSUME NEW b \in BOOLEAN, CallAnswers(b) \/ AfterModel(b) PROVE ExitJoins'
  BY <1>6 DEF CallAnswers, AfterModel, callVars, ExitJoins
<1>7. CASE UNCHANGED hookVars BY <1>7 DEF hookVars, ExitJoins
<1>8. exitStage' = "no" => ExitJoins' BY DEF ExitJoins
<1> QED BY <1>1, <1>2, <1>3, <1>4, <1>5, <1>6, <1>7, <1>8 DEF HookNext

LEMMA MarksKeep ==
  ASSUME MarksInv, [HookNext]_hookVars
  PROVE  MarksInv'
<1>1. PICK m \in 0 .. MaxMarks : marks = 1 .. m BY DEF MarksInv
<1>2. Cardinality(marks) = m /\ m \in Nat /\ MaxMarks \in Nat /\ m + 1 \notin marks
  BY <1>1, FS_Interval, HooksAssumption
<1>3. /\ reruns \in Nat /\ announced \in [1 .. MaxMarks -> Nat] /\ baseline \subseteq marks
      /\ node \in {"idle", "model", "after"} /\ (node = "model" => marks = baseline)
      /\ \A n \in 1 .. MaxMarks :
           /\ n \notin marks => announced[n] = 0
           /\ n \in baseline \/ (n \in marks /\ node = "idle") =>
                1 <= announced[n] /\ announced[n] <= 1 + reruns
           /\ n \in marks \ baseline /\ node # "idle" => announced[n] <= reruns
  BY DEF MarksInv
<1>4. CASE UNCHANGED nodeVars BY <1>4 DEF MarksInv, nodeVars
<1>5. ASSUME NEW c \in HookCall, BeginCall(c) \/ RunTool(c) \/ FinishAfter(c) PROVE UNCHANGED nodeVars
  BY <1>5 DEF BeginCall, RunTool, FinishAfter
<1>11. ASSUME NEW c \in HookCall, NEW v \in Verdict, FinishBefore(c, v) PROVE UNCHANGED nodeVars
  BY <1>11 DEF FinishBefore
<1>6. CASE BeforeModelCall \/ CallBreaks
 <2>1. /\ marks' = marks /\ announced' = announced /\ reruns' = reruns
       /\ baseline' = marks /\ node' \in {"idle", "model"}
       /\ baseline \subseteq marks /\ (node = "idle" \/ marks = baseline)
   BY <1>3, <1>6 DEF BeforeModelCall, CallBreaks, NewBaseline
 <2>2. \A n \in 1 .. MaxMarks : n \in marks => 1 <= announced[n] /\ announced[n] <= 1 + reruns
   BY <1>3, <2>1
 <2> QED BY <1>1, <1>3, <2>1, <2>2 DEF MarksInv
<1>7. ASSUME NEW b \in BOOLEAN, CallAnswers(b) PROVE MarksInv'
 <2>1. /\ node = "model" /\ node' = "after" /\ baseline' = baseline /\ announced' = announced
       /\ reruns' = reruns /\ (b => m < MaxMarks)
       /\ marks' = IF b THEN marks \union {m + 1} ELSE marks
   BY <1>2, <1>7 DEF CallAnswers
 <2>2. \E k \in 0 .. MaxMarks : marks' = 1 .. k
  <3>1. CASE b BY <1>1, <1>2, <2>1, <3>1
  <3>2. CASE ~b BY <1>1, <2>1, <3>2
  <3> QED BY <3>1, <3>2
 <2>3. ASSUME NEW n \in 1 .. MaxMarks
       PROVE  /\ n \notin marks' => announced[n] = 0
              /\ n \in baseline => 1 <= announced[n] /\ announced[n] <= 1 + reruns
              /\ n \in marks' \ baseline => announced[n] <= reruns
   BY <1>2, <1>3, <2>1
 <2> QED BY <1>3, <2>1, <2>2, <2>3 DEF MarksInv
<1>8. ASSUME NEW b \in BOOLEAN, AfterModel(b) PROVE MarksInv'
 <2>1. /\ node = "after" /\ marks' = marks
       /\ announced' = [n \in 1 .. MaxMarks |->
                          announced[n] + (IF n \in marks \ baseline THEN 1 ELSE 0)]
       /\ IF b THEN reruns' = reruns + 1 /\ node' = node /\ baseline' = baseline
          ELSE node' = "idle" /\ baseline' = marks /\ reruns' = reruns
   BY <1>8 DEF AfterModel
 <2>2. announced' \in [1 .. MaxMarks -> Nat] BY <1>3, <2>1
 <2>3. ASSUME NEW n \in 1 .. MaxMarks
       PROVE  /\ n \notin marks => announced'[n] = 0
              /\ n \in baseline => 1 <= announced'[n] /\ announced'[n] <= 1 + reruns
              /\ n \in marks \ baseline => 1 <= announced'[n] /\ announced'[n] <= 1 + reruns
   BY <1>3, <2>1
 <2>5. CASE b
  <3>1. reruns' = reruns + 1 /\ reruns' \in Nat /\ node' = "after" /\ baseline' = baseline
    BY <1>3, <2>1, <2>5
  <3>2. ASSUME NEW n \in 1 .. MaxMarks
        PROVE  /\ n \in baseline => 1 <= announced'[n] /\ announced'[n] <= 1 + reruns'
               /\ n \in marks \ baseline => announced'[n] <= reruns'
    BY <1>3, <2>2, <2>3, <3>1
  <3> QED BY <1>1, <1>3, <2>1, <2>2, <2>3, <3>1, <3>2 DEF MarksInv
 <2>6. CASE ~b BY <1>1, <1>3, <2>1, <2>2, <2>3, <2>6 DEF MarksInv
 <2> QED BY <2>5, <2>6
<1>9. CASE CompactByHand
 <2>1. /\ node = "idle" /\ node' = node /\ baseline' = baseline /\ reruns' = reruns /\ m < MaxMarks
       /\ marks' = marks \union {m + 1} /\ announced' = [announced EXCEPT ![m + 1] = 1]
   BY <1>2, <1>9 DEF CompactByHand
 <2>2. marks' = 1 .. m + 1 /\ m + 1 \in 0 .. MaxMarks /\ m + 1 \in 1 .. MaxMarks
   BY <1>1, <1>2, <2>1
 <2>3. /\ announced'[m + 1] = 1 /\ announced' \in [1 .. MaxMarks -> Nat]
       /\ \A n \in 1 .. MaxMarks : n # m + 1 => announced'[n] = announced[n]
   BY <1>3, <2>1, <2>2
 <2>4. ASSUME NEW n \in 1 .. MaxMarks
       PROVE  /\ n \notin marks' => announced'[n] = 0
              /\ n \in marks' => 1 <= announced'[n] /\ announced'[n] <= 1 + reruns
   BY <1>3, <2>1, <2>3
 <2> QED BY <1>3, <2>1, <2>2, <2>3, <2>4 DEF MarksInv
<1>10. CASE UNCHANGED hookVars BY <1>4, <1>10 DEF hookVars, nodeVars
<1>12. CASE CancelCalls \/ FinishBackground \/ BeginExit \/ FinishEnd \/ Joined
  BY <1>4, <1>12 DEF CancelCalls, FinishBackground, BeginExit, FinishEnd, Joined
<1> QED BY <1>4, <1>5, <1>6, <1>7, <1>8, <1>9, <1>10, <1>11, <1>12 DEF HookNext

\* For any number of calls that run beside one another, any lists of hooks, and any cancellation or
\* crash: no tool runs that a hook was not asked of or has refused, and it runs with the arguments the
\* hooks have left; no hook outlives the program; and compactions are announced
\* (extensibility/hooks.py, builtin/hooks.py).
THEOREM HooksAreObeyed == HookSpec => []HooksSound
<1>1. HookInit => CallsInv /\ ExitJoins /\ MarksInv
 <2> SUFFICES ASSUME HookInit PROVE ExitJoins /\ MarksInv BY CallsBegin
 <2>1. ExitJoins BY DEF HookInit, ExitJoins
 <2>2. marks = 1 .. 0 /\ 0 \in 0 .. MaxMarks BY HooksAssumption DEF HookInit
 <2> QED BY <2>1, <2>2 DEF HookInit, MarksInv
<1>2. CallsInv /\ ExitJoins /\ MarksInv /\ [HookNext]_hookVars => (CallsInv /\ ExitJoins /\ MarksInv)'
  BY CallsKeep, ExitKeeps, MarksKeep
<1>3. CallsInv /\ ExitJoins /\ MarksInv => HooksSound
 <2> SUFFICES ASSUME CallsInv, ExitJoins, MarksInv PROVE HooksSound OBVIOUS
 <2>1. HooksJoined BY DEF ExitJoins, HooksJoined
 <2>2. CompactionsAnnounced BY DEF MarksInv, CompactionsAnnounced
 <2>3. ToolsObeyHooks
  <3> SUFFICES ASSUME NEW c \in HookCall
               PROVE  /\ \A k \in DOMAIN verdicts[c] : verdicts[c][k].saw = ArgsAfter(c, k - 1)
                      /\ \A k \in 1 .. Len(verdicts[c]) - 1 : verdicts[c][k].hook < verdicts[c][k + 1].hook
                      /\ ran[c] # NotRun =>
                           /\ ran[c] = ArgsAfter(c, Len(verdicts[c]))
                           /\ MustAsk(c) \subseteq HeardOf(c)
                           /\ \A k \in DOMAIN verdicts[c] : verdicts[c][k].said \notin {"refuse", "both", "error"}
    BY DEF ToolsObeyHooks, MustAsk, HeardOf
  <3>1. ToldIsWritten(c) /\ AskedInOrder(c) /\ RanAsAllowed(c) BY DEF CallsInv, CallIsSound
  <3>2. NoneRefused(c) => \A k \in DOMAIN verdicts[c] : verdicts[c][k].said \notin {"refuse", "both", "error"}
    BY DEF NoneRefused, Refuses
  <3> QED BY <3>1, <3>2 DEF ToldIsWritten, AskedInOrder, RanAsAllowed
 <2> QED BY <2>1, <2>2, <2>3 DEF HooksSound
<1> QED BY <1>1, <1>2, <1>3, PTL DEF HookSpec

-----------------------------------------------------------------------------
(* Plugins: the registry. *)

Owned(L, es, os) == \A e \in es : e \in Entry /\ e.plugin \in L \union {Core} /\ os[e.slot] = e.plugin

Entered(es, os) ==
  \A s \in Slot : os[s] \notin {Free, Core} /\ s[1] # ByPredicate => Contribution(s, os[s]) \in es

\* A registry, a bus and states that are those of the plugins of L.
RegistryOf(L, es, os, hs, ss) ==
  /\ os \in [Slot -> CandidateNames \union {Core, Free}]
  /\ Owned(L, es, os) /\ Entered(es, os)
  /\ hs \subseteq L /\ DOMAIN ss = L \union KeptStates /\ ss = [p \in DOMAIN ss |-> ss[p]]
  /\ \A p \in KeptStates \ L : ss[p] = SavedState

Loading == IF running = <<>> THEN loaded ELSE loaded \union {Candidate.name}

Statuses == {"loaded", "failed", "disabled", "skipped"}

LoopIsTyped ==
  /\ unplaced \in Seq(CandidateShape) /\ ordered \in Seq(CandidateShape)
  /\ loaded \subseteq CandidateNames
  /\ records \in Seq([name : CandidateNames, status : Statuses]) /\ Len(records) <= Len(ordered)
  /\ unplaced # <<>> => records = <<>> /\ running = <<>>
  /\ running # <<>> =>
       /\ Len(records) < Len(ordered) /\ Candidate.requires \subseteq loaded
       /\ running = <<running[1]>>
       /\ running[1] = [calls |-> running[1].calls, entries |-> running[1].entries,
                        owners |-> running[1].owners, handlers |-> running[1].handlers,
                        states |-> running[1].states]

\* What is there belongs to what has loaded and what is loading, what is saved to what has loaded.
RegistryInv ==
  /\ RegistryOf(Loading, entries, owners, handlers, states)
  /\ running # <<>> => RegistryOf(loaded, running[1].entries, running[1].owners,
                                  running[1].handlers, running[1].states)

LEMMA CandidateIsOne ==
  ASSUME LoopIsTyped, Len(records) < Len(ordered)
  PROVE  /\ Len(records) + 1 \in DOMAIN ordered /\ Candidate \in CandidateShape
         /\ Candidate.name \in CandidateNames /\ Candidate.name # Free
<1>1. Len(records) + 1 \in DOMAIN ordered BY DEF LoopIsTyped
<1>2. ordered[Len(records) + 1] \in CandidateShape BY <1>1 DEF LoopIsTyped
<1> QED BY <1>1, <1>2, PluginsAssumption DEF Candidate, CandidateShape

\* A contribution that takes the place of those that are displaced.
LEMMA ClaimKeeps ==
  ASSUME NEW L, NEW plugin \in L \intersect CandidateNames, NEW slot \in Slot, NEW D,
         NEW es, NEW os, NEW hs, NEW ss, RegistryOf(L, es, os, hs, ss),
         \A e \in es : e.slot = slot => e \in D,
         \A e \in D : e.slot = slot \/ e.slot[1] = ByPredicate
  PROVE  RegistryOf(L, (es \ D) \union {Contribution(slot, plugin)}, [os EXCEPT ![slot] = plugin], hs, ss)
<1> DEFINE new == (es \ D) \union {Contribution(slot, plugin)}
           now == [os EXCEPT ![slot] = plugin]
<1>1. /\ os \in [Slot -> CandidateNames \union {Core, Free}]
      /\ Owned(L, es, os) /\ Entered(es, os)
  BY DEF RegistryOf
<1>2. /\ now \in [Slot -> CandidateNames \union {Core, Free}] /\ now[slot] = plugin
      /\ \A s \in Slot : s # slot => now[s] = os[s]
  BY <1>1
<1>3. /\ Contribution(slot, plugin) \in Entry /\ Contribution(slot, plugin).slot = slot
      /\ Contribution(slot, plugin).plugin = plugin
  BY DEF Contribution, Entry
<1> HIDE DEF now
<1>4. Owned(L, new, now)
 <2> SUFFICES ASSUME NEW e \in new
              PROVE  e \in Entry /\ e.plugin \in L \union {Core} /\ now[e.slot] = e.plugin
   BY DEF Owned
 <2>1. CASE e = Contribution(slot, plugin) BY <1>2, <1>3, <2>1
 <2>2. CASE e \in es /\ e.slot # slot
  <3>1. e \in Entry /\ e.plugin \in L \union {Core} /\ os[e.slot] = e.plugin
    BY <1>1, <2>2 DEF Owned
  <3> QED BY <1>2, <2>2, <3>1 DEF Entry
 <2> QED BY <2>1, <2>2
<1>5. Entered(new, now)
 <2> SUFFICES ASSUME NEW s \in Slot, now[s] \notin {Free, Core}, s[1] # ByPredicate
              PROVE  Contribution(s, now[s]) \in new
   BY DEF Entered
 <2>1. CASE s = slot BY <1>2, <2>1
 <2>2. CASE s # slot
  <3>1. Contribution(s, os[s]) \in es /\ now[s] = os[s] BY <1>1, <1>2, <2>2 DEF Entered
  <3>2. Contribution(s, os[s]) \notin D BY <2>2, <3>1 DEF Contribution
  <3> QED BY <3>1, <3>2
 <2> QED BY <2>1, <2>2
<1> QED BY <1>2, <1>4, <1>5 DEF RegistryOf, now

\* What a call displaces is what is under its key, and predicates.
LEMMA DisplacedFits ==
  ASSUME NEW L, L \subseteq CandidateNames, NEW slot \in Slot, NEW replace \in BOOLEAN,
         MayClaim(slot, replace), Owned(L, entries, owners)
  PROVE  /\ \A e \in entries : e.slot = slot => e \in Displaced(slot, replace)
         /\ \A e \in Displaced(slot, replace) : e.slot = slot \/ e.slot[1] = ByPredicate
<1>1. ~replace => owners[slot] = Free BY DEF MayClaim
<1>2. \A e \in entries : e.slot = slot => owners[slot] \in L \union {Core} BY DEF Owned
<1>3. Free \notin L \union {Core} BY PluginsAssumption DEF Free, Core
<1>4. ~replace => \A e \in entries : e.slot # slot BY <1>1, <1>2, <1>3
<1>5. slot[1] \in {Keyed, AgentType} => Displaced(slot, replace) = {e \in entries : e.slot = slot}
  BY DEF Displaced, Keyed, AgentType, ByName
<1>6. CASE slot[1] \in {Keyed, AgentType} BY <1>5, <1>6
<1>7. CASE slot[1] \notin {Keyed, AgentType}
 <2>1. CASE slot[1] = ByName /\ replace
  <3>1. Displaced(slot, replace) = {e \in entries : e.slot \in {slot, <<ByPredicate, slot[2]>>}}
    BY <2>1 DEF Displaced, Keyed, AgentType, ByName
  <3> QED BY <3>1
 <2>2. CASE ~(slot[1] = ByName /\ replace)
  <3>1. Displaced(slot, replace) = IF replace THEN {e \in entries : e.slot = slot} ELSE {}
    BY <1>7, <2>2 DEF Displaced
  <3> QED BY <1>4, <3>1
 <2> QED BY <2>1, <2>2
<1> QED BY <1>6, <1>7

LEMMA EntryIsContribution ==
  ASSUME NEW e \in Entry PROVE e = Contribution(e.slot, e.plugin)
BY DEF Entry, Contribution

\* A call of the API that claims a key leaves the registry one of the same plugins.
LEMMA AddsKeeps ==
  ASSUME NEW L, L \subseteq CandidateNames, NEW plugin \in L, NEW slot \in Slot, NEW replace \in BOOLEAN,
         NEW hs, NEW ss, RegistryOf(L, entries, owners, hs, ss), Adds(plugin, slot, replace)
  PROVE  RegistryOf(L, entries', owners', hs, ss)
<1>1. /\ MayClaim(slot, replace) /\ owners' = [owners EXCEPT ![slot] = plugin]
      /\ entries' = (entries \ Displaced(slot, replace)) \union {Contribution(slot, plugin)}
  BY DEF Adds
<1>2. Owned(L, entries, owners) BY DEF RegistryOf
<1>3. /\ \A e \in entries : e.slot = slot => e \in Displaced(slot, replace)
      /\ \A e \in Displaced(slot, replace) : e.slot = slot \/ e.slot[1] = ByPredicate
  BY <1>1, <1>2, DisplacedFits
<1>4. RegistryOf(L, (entries \ Displaced(slot, replace)) \union {Contribution(slot, plugin)},
                 [owners EXCEPT ![slot] = plugin], hs, ss)
  BY <1>3, ClaimKeeps
<1> QED BY <1>1, <1>4

LEMMA AddsSubagentKeeps ==
  ASSUME NEW L, L \subseteq CandidateNames, NEW plugin \in L, NEW key \in SlotKey, NEW replace \in BOOLEAN,
         NEW hs, NEW ss, RegistryOf(L, entries, owners, hs, ss), AddsSubagent(plugin, key, replace)
  PROVE  RegistryOf(L, entries', owners', hs, ss)
<1> DEFINE worker == <<Subagent, key>>  role == <<AgentType, key>>
           listed == (entries \ Displaced(worker, replace)) \union {Contribution(worker, plugin)}
           claimed == [owners EXCEPT ![worker] = plugin]
<1>1. worker \in Slot /\ role \in Slot /\ worker # role /\ role[1] = AgentType
  BY DEF Slot, SlotKind, Subagent, AgentType
<1>2. MayClaim(worker, replace) BY DEF AddsSubagent
<1>3. Owned(L, entries, owners) BY DEF RegistryOf
<1>4. RegistryOf(L, listed, claimed, hs, ss)
 <2>1. /\ \A e \in entries : e.slot = worker => e \in Displaced(worker, replace)
       /\ \A e \in Displaced(worker, replace) : e.slot = worker \/ e.slot[1] = ByPredicate
   BY <1>1, <1>2, <1>3, DisplacedFits
 <2> HIDE DEF worker
 <2> QED BY <1>1, <2>1, ClaimKeeps
<1>5. CASE owners[role] = Core \/ ~ MayClaim(role, replace)
 <2>1. entries' = listed /\ owners' = claimed BY <1>5 DEF AddsSubagent
 <2> QED BY <1>4, <2>1
<1>6. CASE ~(owners[role] = Core \/ ~ MayClaim(role, replace))
 <2>1. /\ owners' = [owners EXCEPT ![worker] = plugin, ![role] = plugin]
       /\ entries' = (listed \ Displaced(role, replace)) \union {Contribution(role, plugin)}
   BY <1>6 DEF AddsSubagent
 <2>2. Displaced(role, replace) = {e \in entries : e.slot = role}
   BY <1>1 DEF Displaced, Keyed, AgentType, ByName
 <2>3. /\ \A e \in listed : e.slot = role => e \in Displaced(role, replace)
       /\ \A e \in Displaced(role, replace) : e.slot = role \/ e.slot[1] = ByPredicate
   BY <1>1, <2>2 DEF Contribution
 <2>4. RegistryOf(L, (listed \ Displaced(role, replace)) \union {Contribution(role, plugin)},
                  [claimed EXCEPT ![role] = plugin], hs, ss)
  <3> HIDE DEF listed, claimed, role
  <3> QED BY <1>1, <1>4, <2>3, ClaimKeeps
 <2> QED BY <2>1, <2>4
<1> QED BY <1>5, <1>6

LEMMA RegistryRests ==
  ASSUME RegistryInv, UNCHANGED <<ordered, loaded, records, running, entries, owners, handlers, states>>
  PROVE  RegistryInv'
BY DEF RegistryInv, RegistryOf, Owned, Entered, Loading, Candidate

LEMMA CallKeeps ==
  ASSUME LoopIsTyped, Calling, Called,
         UNCHANGED <<unplaced, ordered, loaded, records>>
  PROVE  /\ LoopIsTyped' /\ running # <<>> /\ running' # <<>>
         /\ Loading = loaded \union {Candidate.name} /\ Loading' = Loading
         /\ Candidate.name \in Loading /\ Loading \subseteq CandidateNames
         /\ running'[1].entries = running[1].entries /\ running'[1].owners = running[1].owners
         /\ running'[1].handlers = running[1].handlers /\ running'[1].states = running[1].states
<1>1. running # <<>> /\ running' = <<[running[1] EXCEPT !.calls = @ - 1]>>
  BY DEF Calling, Called
<1>2. /\ running = <<running[1]>>
      /\ running[1] = [calls |-> running[1].calls, entries |-> running[1].entries,
                       owners |-> running[1].owners, handlers |-> running[1].handlers,
                       states |-> running[1].states]
      /\ Len(records) < Len(ordered)
  BY <1>1 DEF LoopIsTyped
<1>3. /\ running' = <<running'[1]>> /\ running' # <<>>
      /\ running'[1] = [calls |-> running'[1].calls, entries |-> running[1].entries,
                        owners |-> running[1].owners, handlers |-> running[1].handlers,
                        states |-> running[1].states]
  BY <1>1, <1>2
<1>4. Candidate' = Candidate BY DEF Candidate
<1>5. LoopIsTyped' BY <1>1, <1>3, <1>4 DEF LoopIsTyped
<1>6. Candidate.name \in CandidateNames /\ loaded \subseteq CandidateNames
  BY <1>2, CandidateIsOne DEF LoopIsTyped
<1>7. Loading = loaded \union {Candidate.name} /\ Loading' = loaded' \union {Candidate'.name}
  BY <1>1, <1>3 DEF Loading
<1> QED BY <1>1, <1>3, <1>4, <1>5, <1>6, <1>7

LEMMA RegisterKeeps ==
  ASSUME LoopIsTyped, RegistryInv, Contribute \/ Subscribe \/ WriteState
  PROVE  LoopIsTyped' /\ RegistryInv'
<1>1. Calling /\ Called /\ UNCHANGED <<unplaced, ordered, loaded, records>>
  BY DEF Contribute, Subscribe, WriteState
<1>2. /\ LoopIsTyped' /\ running # <<>> /\ running' # <<>>
      /\ Loading' = Loading
      /\ Candidate.name \in Loading /\ Loading \subseteq CandidateNames
      /\ running'[1].entries = running[1].entries /\ running'[1].owners = running[1].owners
      /\ running'[1].handlers = running[1].handlers /\ running'[1].states = running[1].states
  BY <1>1, CallKeeps
<1>3. /\ RegistryOf(Loading, entries, owners, handlers, states)
      /\ RegistryOf(loaded, running[1].entries, running[1].owners, running[1].handlers, running[1].states)
  BY <1>2 DEF RegistryInv
<1>4. RegistryOf(Loading, entries', owners', handlers', states')
 <2>1. CASE Contribute
  <3>1. handlers' = handlers /\ states' = states BY <2>1 DEF Contribute
  <3>2. PICK key \in SlotKey, replace \in BOOLEAN :
          \/ \E kind \in SlotKind \ {Subagent} : Adds(Candidate.name, <<kind, key>>, replace)
          \/ AddsSubagent(Candidate.name, key, replace)
    BY <2>1 DEF Contribute
  <3>3. CASE AddsSubagent(Candidate.name, key, replace)
    BY <1>2, <1>3, <3>1, <3>3, AddsSubagentKeeps
  <3>4. ASSUME NEW kind \in SlotKind \ {Subagent}, Adds(Candidate.name, <<kind, key>>, replace)
        PROVE  RegistryOf(Loading, entries', owners', handlers', states')
   <4>1. <<kind, key>> \in Slot BY DEF Slot
   <4> QED BY <1>2, <1>3, <3>1, <3>4, <4>1, AddsKeeps
  <3> QED BY <3>2, <3>3, <3>4
 <2>2. CASE Subscribe BY <1>2, <1>3, <2>2 DEF Subscribe, RegistryOf
 <2>3. CASE WriteState
  <3>1. /\ states' = [states EXCEPT ![Candidate.name] = FreshState]
        /\ entries' = entries /\ owners' = owners /\ handlers' = handlers
    BY <2>3 DEF WriteState
  <3>2. /\ DOMAIN states = Loading \union KeptStates /\ states = [p \in DOMAIN states |-> states[p]]
        /\ \A p \in KeptStates \ Loading : states[p] = SavedState
    BY <1>3 DEF RegistryOf
  <3>3. /\ DOMAIN states' = DOMAIN states /\ states' = [p \in DOMAIN states' |-> states'[p]]
        /\ \A p \in DOMAIN states : p # Candidate.name => states'[p] = states[p]
    BY <3>1, <3>2
  <3>4. \A p \in KeptStates \ Loading : states'[p] = SavedState BY <1>2, <3>2, <3>3
  <3> QED BY <1>3, <3>1, <3>2, <3>3, <3>4 DEF RegistryOf
 <2> QED BY <2>1, <2>2, <2>3
<1> QED BY <1>1, <1>2, <1>3, <1>4 DEF RegistryInv

\* One that is ready is placed, the first; or nobody is ready, and all are.
LEMMA OrderPlaces ==
  ASSUME LoopIsTyped, Order
  PROVE  \/ /\ \A i \in DOMAIN unplaced : ~Placeable(i)
            /\ ordered' = ordered \o unplaced /\ unplaced' = <<>>
         \/ \E i \in DOMAIN unplaced :
              Placeable(i) /\ ordered' = Append(ordered, unplaced[i]) /\ unplaced' = RemoveAt(unplaced, i)
<1> DEFINE ready == {i \in DOMAIN unplaced : Placeable(i)}
           first == CHOOSE i \in ready : \A j \in ready : i <= j
<1>1. IF ready = {}
      THEN ordered' = ordered \o unplaced /\ unplaced' = <<>>
      ELSE ordered' = Append(ordered, unplaced[first]) /\ unplaced' = RemoveAt(unplaced, first)
  BY DEF Order
<1>2. ready \subseteq Nat BY DEF LoopIsTyped
<1>3. first = Min(ready) BY DEF Min
<1>4. CASE ready # {}
 <2>1. first \in ready
  <3> HIDE DEF ready, first
  <3> QED BY <1>2, <1>3, <1>4, LeastIsThere
 <2> HIDE DEF first
 <2> QED BY <1>1, <1>4, <2>1
<1>5. CASE ready = {} BY <1>1, <1>5
<1> QED BY <1>4, <1>5

LEMMA OrderKeeps ==
  ASSUME LoopIsTyped, RegistryInv, Order
  PROVE  LoopIsTyped' /\ RegistryInv'
<1>1. /\ unplaced # <<>> /\ UNCHANGED <<entries, owners, handlers, states, loaded, records, running>>
  BY DEF Order
<1>2. records = <<>> /\ running = <<>> /\ unplaced \in Seq(CandidateShape) /\ ordered \in Seq(CandidateShape)
  BY <1>1 DEF LoopIsTyped
<1>3. unplaced' \in Seq(CandidateShape) /\ ordered' \in Seq(CandidateShape)
 <2>1. CASE ordered' = ordered \o unplaced /\ unplaced' = <<>> BY <1>2, <2>1
 <2>2. ASSUME NEW i \in DOMAIN unplaced, ordered' = Append(ordered, unplaced[i]), unplaced' = RemoveAt(unplaced, i)
       PROVE  unplaced' \in Seq(CandidateShape) /\ ordered' \in Seq(CandidateShape)
  <3>1. i \in 1 .. Len(unplaced) /\ Len(unplaced) \in Nat BY <1>2
  <3>2. SubSeq(unplaced, 1, i - 1) \in Seq(CandidateShape) /\ SubSeq(unplaced, i + 1, Len(unplaced)) \in Seq(CandidateShape)
    BY <1>2, <3>1
  <3> QED BY <1>2, <2>2, <3>2 DEF RemoveAt
 <2> QED BY <2>1, <2>2, OrderPlaces
<1>4. Len(records') <= Len(ordered') BY <1>1, <1>2, <1>3
<1>5. LoopIsTyped' BY <1>1, <1>2, <1>3, <1>4 DEF LoopIsTyped
<1>6. RegistryInv' BY <1>1, <1>2 DEF RegistryInv, Loading
<1> QED BY <1>5, <1>6

LEMMA LoopKeeps ==
  ASSUME LoopIsTyped, RegistryInv, PassOver \/ BeginRegister \/ Loads \/ Fails
  PROVE  LoopIsTyped' /\ RegistryInv'
<1>1. Len(records) < Len(ordered) /\ unplaced = <<>> /\ unplaced' = unplaced /\ ordered' = ordered
  BY DEF PassOver, BeginRegister, Loads, Fails, AtLoop, LoopIsTyped
<1>2. Candidate.name \in CandidateNames /\ Candidate.name # Free BY <1>1, CandidateIsOne
<1>3. ASSUME NEW status \in Statuses, Report(status)
      PROVE  /\ records' \in Seq([name : CandidateNames, status : Statuses])
             /\ Len(records') <= Len(ordered)
  BY <1>1, <1>2, <1>3 DEF Report, LoopIsTyped
<1>4. CASE PassOver
 <2>1. PICK status \in Statuses : Report(status) BY <1>4 DEF PassOver, Statuses
 <2>2. running = <<>> /\ UNCHANGED <<entries, owners, handlers, states, loaded, running>>
   BY <1>4 DEF PassOver, AtLoop
 <2>3. LoopIsTyped' BY <1>1, <1>3, <2>1, <2>2 DEF LoopIsTyped
 <2>4. RegistryInv' BY <2>2 DEF RegistryInv, Loading
 <2> QED BY <2>3, <2>4
<1>5. CASE BeginRegister
 <2> DEFINE p == Candidate.name
 <2>1. /\ running = <<>> /\ Candidate.requires \subseteq loaded
       /\ running' = <<[calls |-> Candidate.calls, entries |-> entries, owners |-> owners,
                        handlers |-> handlers, states |-> states]>>
       /\ states' = IF p \in DOMAIN states THEN states
                    ELSE [q \in DOMAIN states \union {p} |->
                            IF q \in DOMAIN states THEN states[q] ELSE FreshState]
       /\ UNCHANGED <<entries, owners, handlers, loaded, records>>
   BY <1>5 DEF BeginRegister, AtLoop
 <2>2. Candidate' = Candidate BY <1>1, <2>1 DEF Candidate
 <2>3. /\ running' # <<>> /\ running' = <<running'[1]>>
       /\ running'[1] = [calls |-> running'[1].calls, entries |-> entries, owners |-> owners,
                         handlers |-> handlers, states |-> states]
   BY <2>1
 <2>4. LoopIsTyped' BY <1>1, <2>1, <2>2, <2>3 DEF LoopIsTyped
 <2>5. RegistryOf(loaded, entries, owners, handlers, states)
   BY <2>1 DEF RegistryInv, Loading
 <2>6. Loading' = loaded \union {p} BY <2>1, <2>2, <2>3 DEF Loading
 <2> HIDE DEF p
 <2>7. /\ DOMAIN states = loaded \union KeptStates /\ states = [q \in DOMAIN states |-> states[q]]
       /\ \A q \in KeptStates \ loaded : states[q] = SavedState
   BY <2>5 DEF RegistryOf
 <2>8. /\ DOMAIN states' = (loaded \union {p}) \union KeptStates
       /\ states' = [q \in DOMAIN states' |-> states'[q]]
       /\ \A q \in KeptStates \ (loaded \union {p}) : states'[q] = SavedState
  <3>1. CASE p \in DOMAIN states BY <2>1, <2>7, <3>1
  <3>2. CASE p \notin DOMAIN states
   <4>1. states' = [q \in DOMAIN states \union {p} |-> IF q \in DOMAIN states THEN states[q] ELSE FreshState]
     BY <2>1, <3>2
   <4> QED BY <2>7, <4>1
  <3> QED BY <3>1, <3>2
 <2>9. RegistryOf(loaded \union {p}, entries, owners, handlers, states')
   BY <2>5, <2>8 DEF RegistryOf, Owned
 <2>10. RegistryInv' BY <2>1, <2>3, <2>5, <2>6, <2>9 DEF RegistryInv
 <2> QED BY <2>4, <2>10
<1>6. CASE Loads
 <2>1. /\ running # <<>> /\ running' = <<>> /\ loaded' = loaded \union {Candidate.name} /\ Report("loaded")
       /\ UNCHANGED <<entries, owners, handlers, states>>
   BY <1>6 DEF Loads
 <2>2. LoopIsTyped' BY <1>1, <1>2, <1>3, <2>1 DEF LoopIsTyped, Statuses
 <2>3. Loading = loaded' /\ Loading' = loaded' BY <2>1 DEF Loading
 <2>4. RegistryInv' BY <2>1, <2>3 DEF RegistryInv
 <2> QED BY <2>2, <2>4
<1>7. CASE Fails
 <2>1. /\ running # <<>> /\ running' = <<>> /\ loaded' = loaded /\ Report("failed")
       /\ entries' = running[1].entries /\ owners' = running[1].owners
       /\ handlers' = running[1].handlers /\ states' = running[1].states
   BY <1>7 DEF Fails, Restores
 <2>2. LoopIsTyped' BY <1>1, <1>3, <2>1 DEF LoopIsTyped, Statuses
 <2>3. RegistryInv' BY <2>1 DEF RegistryInv, Loading
 <2> QED BY <2>2, <2>3
<1> QED BY <1>4, <1>5, <1>6, <1>7

LEMMA ToolsKeep ==
  ASSUME LoopIsTyped, RegistryInv, NEW p \in CandidateNames, AddTool(p) \/ RemoveTool(p)
  PROVE  LoopIsTyped' /\ RegistryInv'
<1> DEFINE slot == <<Keyed, "x">>
<1>1. /\ p \in loaded /\ running = <<>> /\ slot \in Slot
      /\ UNCHANGED <<unplaced, ordered, handlers, states, loaded, records, running>>
  BY DEF AddTool, RemoveTool, Started, Slot, SlotKind, SlotKey
<1>2. LoopIsTyped' BY <1>1 DEF LoopIsTyped
<1>3. Loading = loaded /\ Loading' = loaded /\ loaded \subseteq CandidateNames
  BY <1>1 DEF Loading, LoopIsTyped
<1>4. RegistryOf(loaded, entries, owners, handlers, states) BY <1>3 DEF RegistryInv
<1>5. RegistryOf(loaded, entries', owners', handlers', states')
 <2>1. CASE AddTool(p)
  <3>1. PICK replace \in BOOLEAN : Adds(p, slot, replace) BY <2>1 DEF AddTool
  <3> HIDE DEF slot
  <3> QED BY <1>1, <1>3, <1>4, <3>1, AddsKeeps
 <2>2. CASE RemoveTool(p)
  <3>1. /\ entries' = {e \in entries : e.slot # slot}
        /\ owners' = [owners EXCEPT ![slot] = Free]
    BY <2>2 DEF RemoveTool
  <3>2. /\ owners \in [Slot -> CandidateNames \union {Core, Free}]
        /\ Owned(loaded, entries, owners) /\ Entered(entries, owners)
    BY <1>4 DEF RegistryOf
  <3> HIDE DEF slot
  <3>3. /\ owners' \in [Slot -> CandidateNames \union {Core, Free}] /\ owners'[slot] = Free
        /\ \A s \in Slot : s # slot => owners'[s] = owners[s]
    BY <1>1, <3>1, <3>2
  <3>4. Owned(loaded, entries', owners') BY <3>1, <3>2, <3>3 DEF Owned, Entry
  <3>5. Entered(entries', owners') BY <3>1, <3>2, <3>3 DEF Entered, Contribution
  <3> QED BY <1>1, <1>4, <3>3, <3>4, <3>5 DEF RegistryOf
 <2> QED BY <2>1, <2>2
<1>6. RegistryInv' BY <1>1, <1>3, <1>5 DEF RegistryInv
<1> QED BY <1>2, <1>6

LEMMA RegistryBegins == PluginInit => LoopIsTyped /\ RegistryInv
<1> SUFFICES ASSUME PluginInit PROVE LoopIsTyped /\ RegistryInv OBVIOUS
<1>1. LoopIsTyped BY PluginsAssumption DEF PluginInit, LoopIsTyped
<1>2. Loading = {} BY DEF PluginInit, Loading
<1>3. owners \in [Slot -> CandidateNames \union {Core, Free}] BY DEF PluginInit, CoreOwners
<1>4. Owned({}, entries, owners)
 <2>1. <<AgentType, "core">> \in Slot /\ CoreOwners[<<AgentType, "core">>] = Core
   BY DEF CoreOwners, Slot, SlotKind, SlotKey
 <2> QED BY <2>1 DEF PluginInit, Owned, CoreEntries, Entry
<1>5. Entered(entries, owners) BY DEF PluginInit, Entered, CoreOwners
<1>6. RegistryOf({}, entries, owners, handlers, states)
  BY <1>3, <1>4, <1>5 DEF PluginInit, RegistryOf
<1> QED BY <1>1, <1>2, <1>6 DEF RegistryInv, PluginInit

LEMMA RegistryKeeps ==
  ASSUME LoopIsTyped, RegistryInv, [PluginNext]_pluginVars
  PROVE  LoopIsTyped' /\ RegistryInv'
<1>1. CASE UNCHANGED pluginVars
 <2>1. LoopIsTyped' BY <1>1 DEF pluginVars, LoopIsTyped, Candidate
 <2>2. RegistryInv' BY <1>1, RegistryRests DEF pluginVars
 <2> QED BY <2>1, <2>2
<1> QED BY <1>1, OrderKeeps, LoopKeeps, RegisterKeeps, ToolsKeep DEF PluginNext

\* Whatever plugins there are, whatever their register calls and wherever it raises, the registry
\* between two of them is that of those that have loaded (loader.py 301-460, registry.py 163-580).
THEOREM RegistryStaysOwn == PluginSpec => []RegistryIsOfTheLoaded
<1>1. LoopIsTyped /\ RegistryInv => RegistryIsOfTheLoaded
 <2> SUFFICES ASSUME LoopIsTyped, RegistryInv, running = <<>> PROVE RegistryIsOfTheLoaded
   BY DEF RegistryIsOfTheLoaded
 <2>1. RegistryOf(loaded, entries, owners, handlers, states) BY DEF RegistryInv, Loading
 <2>2. ASSUME NEW s \in Slot, owners[s] \notin {Free, Core}, s[1] # ByPredicate
       PROVE  Cardinality({e \in entries : e.slot = s}) = 1
  <3>1. Contribution(s, owners[s]) \in entries BY <2>1, <2>2 DEF RegistryOf, Entered
  <3>2. \A e \in entries : e.slot = s => e = Contribution(s, owners[s])
    BY <2>1, EntryIsContribution DEF RegistryOf, Owned
  <3>3. {e \in entries : e.slot = s} = {Contribution(s, owners[s])}
    BY <3>1, <3>2 DEF Contribution
  <3> QED BY <3>3, FS_Singleton
 <2> QED BY <2>1, <2>2 DEF RegistryIsOfTheLoaded, RegistryOf, Owned
<1> QED BY <1>1, RegistryBegins, RegistryKeeps, PTL DEF PluginSpec

-----------------------------------------------------------------------------
(* Plugins: the order. *)

AllNames == NamesOf(unplaced) \union NamesOf(ordered)
Unique == \A j, k \in DOMAIN ordered : ordered[j].name = ordered[k].name => j = k

\* Up to k every candidate comes after what it requires of the others; those behind, which the cycles
\* left over, require one of themselves each.
Divided(k) ==
  /\ \A i \in 1 .. k : \A r \in ordered[i].requires \intersect AllNames :
       \E j \in 1 .. i - 1 : ordered[j].name = r
  /\ \A i \in k + 1 .. Len(ordered) :
       \E r \in ordered[i].requires : \E j \in k + 1 .. Len(ordered) : ordered[j].name = r
  /\ unplaced # <<>> => k = Len(ordered)

\* None of those behind has loaded; and who was skipped lacks one that has had its turn, or never
\* loads for being behind.
Excused(k) ==
  Unique =>
    /\ \A i \in DOMAIN records : i > k => records[i].status # "loaded"
    /\ \A i \in DOMAIN records : records[i].status = "skipped" =>
         \E r \in ordered[i].requires : r \notin loaded
           /\ \A j \in DOMAIN ordered : ordered[j].name = r => j <= Len(records) \/ j > k

LoadedAreRecorded ==
  \A p \in loaded : \E j \in DOMAIN records : records[j].status = "loaded" /\ ordered[j].name = p

OrderInv == LoadedAreRecorded /\ \E k \in 0 .. Len(ordered) : Divided(k) /\ Excused(k)

LEMMA RemoveAtTakes ==
  ASSUME NEW S, NEW s \in Seq(S), NEW i \in DOMAIN s
  PROVE  \A m \in DOMAIN RemoveAt(s, i) : \E l \in DOMAIN s : RemoveAt(s, i)[m] = s[l]
<1> DEFINE a == SubSeq(s, 1, i - 1)  b == SubSeq(s, i + 1, Len(s))
<1>1. i \in 1 .. Len(s) /\ Len(s) \in Nat /\ RemoveAt(s, i) = a \o b BY DEF RemoveAt
<1>2. /\ a \in Seq(S) /\ Len(a) = i - 1 /\ \A m \in 1 .. i - 1 : a[m] = s[m]
      /\ b \in Seq(S) /\ Len(b) = Len(s) - i /\ \A m \in 1 .. Len(s) - i : b[m] = s[i + m]
 <2>1. i - 1 \in 0 .. Len(s) /\ i + 1 \in 1 .. Len(s) + 1 BY <1>1
 <2>2. a \in Seq(S) /\ Len(a) = i - 1 /\ \A m \in 1 .. i - 1 : a[m] = s[m] BY <1>1, <2>1
 <2>3. b \in Seq(S) /\ Len(b) = Len(s) - i BY <1>1, <2>1
 <2>4. ASSUME NEW m \in 1 .. Len(s) - i PROVE b[m] = s[i + m]
  <3>1. m \in Int /\ i \in Int /\ i + 1 \in Int /\ Len(s) \in Int BY <1>1
  <3>2. b[m] = s[(i + 1) + m - 1]
   <4>1. \A l \in i + 1 .. Len(s) : s[l] \in S BY <1>1
   <4>2. \A l \in 1 .. Len(s) - (i + 1) + 1 : SubSeq(s, i + 1, Len(s))[l] = s[(i + 1) + l - 1]
    <5> HIDE DEF a, b
    <5>1. PICK lo \in Int, hi \in Int : lo = i + 1 /\ hi = Len(s) BY <3>1
    <5>2. \A l \in lo .. hi : s[l] \in S BY <4>1, <5>1
    <5>3. \A l \in 1 .. hi - lo + 1 : SubSeq(s, lo, hi)[l] = s[lo + l - 1]
      BY <5>2, SubSeqProperties
    <5> QED BY <5>1, <5>3
   <4>3. m \in 1 .. Len(s) - (i + 1) + 1 BY <3>1
   <4> QED BY <4>2, <4>3
  <3>3. (i + 1) + m - 1 = i + m BY <3>1
  <3> QED BY <3>2, <3>3
 <2> QED BY <2>2, <2>3, <2>4
<1> HIDE DEF a, b
<1>3. /\ a \o b \in Seq(S) /\ Len(a \o b) = Len(a) + Len(b)
      /\ \A m \in 1 .. Len(a) + Len(b) : (a \o b)[m] = IF m <= Len(a) THEN a[m] ELSE b[m - Len(a)]
 <2>1. \A s1, s2 \in Seq(S) :
         /\ s1 \o s2 \in Seq(S) /\ Len(s1 \o s2) = Len(s1) + Len(s2)
         /\ \A m \in 1 .. Len(s1) + Len(s2) :
              (s1 \o s2)[m] = IF m <= Len(s1) THEN s1[m] ELSE s2[m - Len(s1)]
   BY ConcatProperties, Zenon
 <2> QED BY <1>2, <2>1, Zenon
<1>4. DOMAIN (a \o b) = 1 .. Len(s) - 1 /\ DOMAIN s = 1 .. Len(s)
  BY <1>1, <1>2, <1>3, SMTT(30)
<1>5. PICK c : c = a \o b OBVIOUS
<1>6. ASSUME NEW m \in 1 .. Len(s) - 1 PROVE \E l \in 1 .. Len(s) : c[m] = s[l]
 <2>1. m \in 1 .. Len(a) + Len(b) /\ m \in Nat /\ Len(a) \in Nat /\ Len(b) \in Nat
   BY <1>1, <1>2, SMTT(30)
 <2>2. CASE m <= Len(a)
  <3>1. m \in 1 .. i - 1 /\ c[m] = a[m] /\ m \in 1 .. Len(s)
    BY <1>1, <1>2, <1>3, <1>5, <2>1, <2>2, SMTT(30)
  <3> QED BY <1>2, <3>1
 <2>3. CASE ~(m <= Len(a))
  <3>1. c[m] = b[m - Len(a)] BY <1>3, <1>5, <2>1, <2>3
  <3>2. m - Len(a) \in 1 .. Len(b) BY <2>1, <2>3
  <3>3. PICK l \in 1 .. Len(b) : l = m - Len(a) BY <3>2
  <3>4. l \in 1 .. Len(s) - i /\ b[l] = s[i + l] BY <1>2, <3>3
  <3>5. i + l \in 1 .. Len(s) BY <1>1, <3>4
  <3> QED BY <3>1, <3>3, <3>4, <3>5
 <2> QED BY <2>2, <2>3
<1> QED BY <1>1, <1>4, <1>5, <1>6

LEMMA OrderDivides ==
  ASSUME LoopIsTyped, OrderInv, Order
  PROVE  OrderInv'
<1>1. /\ unplaced # <<>> /\ records = <<>> /\ loaded' = loaded /\ records' = records
      /\ unplaced \in Seq(CandidateShape) /\ ordered \in Seq(CandidateShape)
  BY DEF Order, LoopIsTyped
<1>2. loaded = {} /\ LoadedAreRecorded' BY <1>1 DEF OrderInv, LoadedAreRecorded
<1>3. \A k : Excused(k)' BY <1>1 DEF Excused
<1>4. PICK k \in 0 .. Len(ordered) : Divided(k) BY DEF OrderInv
<1>5. k = Len(ordered) /\ k \in Nat
        /\ \A i \in 1 .. k : \A r \in ordered[i].requires \intersect AllNames :
             \E j \in 1 .. i - 1 : ordered[j].name = r
  BY <1>1, <1>4 DEF Divided
<1>6. ASSUME \A i \in DOMAIN unplaced : ~Placeable(i), ordered' = ordered \o unplaced, unplaced' = <<>>
      PROVE  Divided(k)' /\ k \in 0 .. Len(ordered')
 <2>1. /\ Len(ordered') = k + Len(unplaced) /\ Len(unplaced) \in Nat
       /\ \A i \in 1 .. k : ordered'[i] = ordered[i]
       /\ \A i \in 1 .. Len(unplaced) : ordered'[k + i] = unplaced[i]
   BY <1>1, <1>5, <1>6
 <2>2. AllNames' \subseteq AllNames
  <3> SUFFICES ASSUME NEW i \in 1 .. k + Len(unplaced) PROVE ordered'[i].name \in AllNames
    BY <1>1, <1>6, <2>1 DEF AllNames, NamesOf
  <3>1. CASE i <= k BY <1>1, <1>5, <2>1, <3>1 DEF AllNames, NamesOf
  <3>2. CASE i > k
   <4>1. i - k \in 1 .. Len(unplaced) /\ ordered'[k + (i - k)] = unplaced[i - k]
     BY <1>5, <2>1, <3>2
   <4>2. PICK l \in 1 .. Len(unplaced) : ordered'[i].name = unplaced[l].name
    <5>1. k + (i - k) = i BY <1>5
    <5> QED BY <4>1, <5>1
   <4> QED BY <1>1, <4>2 DEF AllNames, NamesOf
  <3> QED BY <1>5, <2>1, <3>1, <3>2
 <2>3. ASSUME NEW i \in 1 .. k, NEW r \in ordered'[i].requires \intersect AllNames'
       PROVE  \E j \in 1 .. i - 1 : ordered'[j].name = r
  <3>1. r \in ordered[i].requires \intersect AllNames BY <2>1, <2>2
  <3>2. PICK j \in 1 .. i - 1 : ordered[j].name = r BY <1>5, <3>1
  <3> QED BY <1>5, <2>1, <3>2, SMTT(30)
 <2>4. ASSUME NEW i \in k + 1 .. Len(ordered')
       PROVE  \E r \in ordered'[i].requires : \E j \in k + 1 .. Len(ordered') : ordered'[j].name = r
  <3>1. i - k \in 1 .. Len(unplaced) /\ i - k \in DOMAIN unplaced /\ ordered'[i] = unplaced[i - k]
    BY <1>1, <1>5, <2>1
  <3>2. PICK r \in unplaced[i - k].requires : r \in AllNames /\ r \notin NamesOf(ordered)
    BY <1>6, <3>1 DEF Placeable, AllNames
  <3>3. PICK m \in 1 .. Len(unplaced) : unplaced[m].name = r
    BY <1>1, <3>2 DEF AllNames, NamesOf
  <3>4. k + m \in k + 1 .. Len(ordered') /\ ordered'[k + m].name = r BY <1>5, <2>1, <3>3
  <3> QED BY <3>1, <3>2, <3>4
 <2> QED BY <1>5, <1>6, <2>1, <2>3, <2>4 DEF Divided
<1>7. ASSUME NEW n \in DOMAIN unplaced, Placeable(n), ordered' = Append(ordered, unplaced[n]),
             unplaced' = RemoveAt(unplaced, n)
      PROVE  \E l \in 0 .. Len(ordered') : Divided(l)'
 <2>1. /\ Len(ordered') = k + 1 /\ ordered'[k + 1] = unplaced[n]
       /\ \A i \in 1 .. k : ordered'[i] = ordered[i]
   BY <1>1, <1>5, <1>7
 <2>2. AllNames' \subseteq AllNames
  <3>1. \A i \in 1 .. k + 1 : ordered'[i].name \in AllNames
    BY <1>1, <1>5, <1>7, <2>1 DEF AllNames, NamesOf
  <3>2. \A m \in DOMAIN unplaced' : \E l \in DOMAIN unplaced : unplaced'[m] = unplaced[l]
    BY <1>1, <1>7, RemoveAtTakes
  <3>3. \A m \in DOMAIN unplaced' : unplaced'[m].name \in AllNames
    BY <3>2 DEF AllNames, NamesOf
  <3>4. DOMAIN ordered' = 1 .. k + 1 BY <1>1, <1>5, <1>7
  <3> QED BY <3>1, <3>3, <3>4 DEF AllNames, NamesOf
 <2>3. ASSUME NEW i \in 1 .. k + 1, NEW r \in ordered'[i].requires \intersect AllNames'
       PROVE  \E j \in 1 .. i - 1 : ordered'[j].name = r
  <3>1. CASE i \in 1 .. k
   <4>1. r \in ordered[i].requires \intersect AllNames BY <2>1, <2>2, <3>1
   <4>2. PICK j \in 1 .. i - 1 : ordered[j].name = r BY <1>5, <3>1, <4>1
   <4> QED BY <1>5, <2>1, <3>1, <4>2
  <3>2. CASE i = k + 1
   <4>1. r \in NamesOf(ordered) BY <1>7, <2>1, <2>2, <3>2 DEF Placeable, AllNames
   <4>2. PICK j \in 1 .. k : ordered[j].name = r BY <1>1, <1>5, <4>1 DEF NamesOf
   <4> QED BY <1>5, <2>1, <3>2, <4>2
  <3> QED BY <1>5, <3>1, <3>2
 <2>4. Divided(k + 1)' BY <1>5, <2>1, <2>3 DEF Divided
 <2> QED BY <1>5, <2>1, <2>4
<1>8. \E l \in 0 .. Len(ordered') : Divided(l)' BY <1>6, <1>7, OrderPlaces
<1> QED BY <1>2, <1>3, <1>8 DEF OrderInv

\* A turn of the loop is recorded: what it takes to go on.
LEMMA TurnDivides ==
  ASSUME LoopIsTyped, OrderInv, Len(records) < Len(ordered), NEW status \in Statuses, Report(status),
         UNCHANGED <<unplaced, ordered>>,
         loaded' = IF status = "loaded" THEN loaded \union {Candidate.name} ELSE loaded,
         status = "loaded" => Candidate.requires \subseteq loaded,
         status = "skipped" => ~(Candidate.requires \subseteq loaded)
  PROVE  OrderInv'
<1>1. PICK n : n = Len(records) + 1 OBVIOUS
<1>2. /\ n \in Nat /\ n \in 1 .. Len(ordered) /\ Len(ordered) \in Nat /\ Candidate = ordered[n]
      /\ DOMAIN records = 1 .. n - 1 /\ DOMAIN ordered = 1 .. Len(ordered)
      /\ DOMAIN records' = 1 .. n /\ Len(records') = n /\ Len(records) = n - 1
      /\ records'[n].status = status /\ \A i \in 1 .. n - 1 : records'[i] = records[i]
  BY <1>1 DEF LoopIsTyped, Report, Candidate
<1>3. LoadedAreRecorded'
 <2> SUFFICES ASSUME NEW p \in loaded'
              PROVE  \E j \in 1 .. n : records'[j].status = "loaded" /\ ordered[j].name = p
   BY <1>2 DEF LoadedAreRecorded
 <2>1. CASE p \in loaded
  <3>1. PICK j \in 1 .. n - 1 : records[j].status = "loaded" /\ ordered[j].name = p
    BY <1>2, <2>1 DEF OrderInv, LoadedAreRecorded
  <3> QED BY <1>2, <3>1
 <2>2. CASE p \notin loaded BY <1>2, <2>2
 <2> QED BY <2>1, <2>2
<1>4. PICK k \in 0 .. Len(ordered) : Divided(k) /\ Excused(k) BY DEF OrderInv
<1>5. Divided(k)' BY <1>4 DEF Divided, AllNames
<1>6. ASSUME Unique
      PROVE  /\ \A i \in DOMAIN records : i > k => records[i].status # "loaded"
             /\ n > k => status # "loaded"
 <2>1. \A i \in DOMAIN records : i > k => records[i].status # "loaded"
   BY <1>4, <1>6 DEF Excused
 <2>2. ASSUME n > k, status = "loaded" PROVE FALSE
  <3>1. n \in k + 1 .. Len(ordered) BY <1>2, <2>2
  <3>2. PICK r \in ordered[n].requires : \E j \in k + 1 .. Len(ordered) : ordered[j].name = r
    BY <1>4, <3>1 DEF Divided
  <3>3. PICK j \in k + 1 .. Len(ordered) : ordered[j].name = r BY <3>2
  <3>4. r \in loaded BY <1>2, <2>2, <3>2
  <3>5. PICK l \in DOMAIN records : records[l].status = "loaded" /\ ordered[l].name = r
    BY <3>4 DEF OrderInv, LoadedAreRecorded
  <3>6. l = j BY <1>2, <1>6, <3>3, <3>5 DEF Unique
  <3> QED BY <1>2, <2>1, <3>3, <3>5, <3>6
 <2> QED BY <2>1, <2>2
<1>7. ASSUME Unique, NEW i \in 1 .. n - 1, records[i].status = "skipped"
      PROVE  \E r \in ordered[i].requires : r \notin loaded'
               /\ \A j \in DOMAIN ordered : ordered[j].name = r => j <= n \/ j > k
 <2>1. PICK r \in ordered[i].requires : r \notin loaded
         /\ \A j \in DOMAIN ordered : ordered[j].name = r => j <= Len(records) \/ j > k
   BY <1>2, <1>4, <1>7 DEF Excused
 <2>2. status = "loaded" => r # Candidate.name
  <3> SUFFICES ASSUME status = "loaded", r = ordered[n].name PROVE FALSE BY <1>2
  <3>1. n <= n - 1 \/ n > k BY <1>2, <2>1
  <3> QED BY <1>2, <1>6, <1>7, <3>1
 <2>3. r \notin loaded' BY <2>1, <2>2
 <2>4. \A j \in DOMAIN ordered : ordered[j].name = r => j <= n \/ j > k BY <1>2, <2>1
 <2> QED BY <2>3, <2>4
<1>8. ASSUME Unique, status = "skipped"
      PROVE  \E r \in ordered[n].requires : r \notin loaded'
               /\ \A j \in DOMAIN ordered : ordered[j].name = r => j <= n \/ j > k
 <2>1. PICK r \in ordered[n].requires : r \notin loaded BY <1>2, <1>8
 <2>2. ASSUME NEW j \in DOMAIN ordered, ordered[j].name = r, ~(j > k) PROVE j <= n
  <3>1. CASE n <= k
   <4>1. r \in AllNames /\ n \in 1 .. k BY <1>2, <2>2, <3>1 DEF AllNames, NamesOf
   <4>2. PICK l \in 1 .. n - 1 : ordered[l].name = r BY <1>4, <2>1, <4>1 DEF Divided
   <4>3. l = j BY <1>2, <1>8, <2>2, <4>2 DEF Unique
   <4> QED BY <1>2, <4>2, <4>3
  <3>2. CASE ~(n <= k) BY <1>2, <2>2, <3>2
  <3> QED BY <3>1, <3>2
 <2>3. loaded' = loaded BY <1>8
 <2> QED BY <2>1, <2>2, <2>3
<1>9. Excused(k)'
 <2> SUFFICES ASSUME Unique
              PROVE  /\ \A i \in 1 .. n : i > k => records'[i].status # "loaded"
                     /\ \A i \in 1 .. n : records'[i].status = "skipped" =>
                          \E r \in ordered[i].requires : r \notin loaded'
                            /\ \A j \in DOMAIN ordered : ordered[j].name = r => j <= n \/ j > k
   BY <1>2 DEF Excused, Unique
 <2>1. ASSUME NEW i \in 1 .. n, i > k PROVE records'[i].status # "loaded"
  <3>1. i = n \/ i \in 1 .. n - 1 BY <1>2
  <3> QED BY <1>2, <1>6, <2>1, <3>1
 <2>2. ASSUME NEW i \in 1 .. n, records'[i].status = "skipped"
       PROVE  \E r \in ordered[i].requires : r \notin loaded'
                /\ \A j \in DOMAIN ordered : ordered[j].name = r => j <= n \/ j > k
  <3>1. i = n \/ i \in 1 .. n - 1 BY <1>2
  <3> QED BY <1>2, <1>7, <1>8, <2>2, <3>1
 <2> QED BY <2>1, <2>2
<1> QED BY <1>3, <1>4, <1>5, <1>9 DEF OrderInv

LEMMA OrderRests ==
  ASSUME OrderInv, UNCHANGED <<unplaced, ordered, loaded, records>>
  PROVE  OrderInv'
<1>1. PICK k \in 0 .. Len(ordered) : Divided(k) /\ Excused(k) BY DEF OrderInv
<1>2. Divided(k)' /\ Excused(k)' BY <1>1, SMTT(30) DEF Divided, Excused, AllNames, Unique
<1>3. LoadedAreRecorded' BY DEF OrderInv, LoadedAreRecorded
<1> QED BY <1>2, <1>3 DEF OrderInv

LEMMA OrderInvKeeps ==
  ASSUME LoopIsTyped, OrderInv, [PluginNext]_pluginVars
  PROVE  OrderInv'
<1>1. CASE PassOver
 <2>1. AtLoop /\ UNCHANGED <<unplaced, ordered, loaded>> BY <1>1 DEF PassOver
 <2>2. PICK status \in Statuses : Report(status) /\ status # "loaded"
                                  /\ (status = "skipped" => ~(Candidate.requires \subseteq loaded))
   BY <1>1 DEF PassOver, Statuses
 <2> QED BY <2>1, <2>2, TurnDivides DEF AtLoop
<1>2. CASE Loads
 <2>1. /\ running # <<>> /\ Report("loaded") /\ loaded' = loaded \union {Candidate.name}
       /\ UNCHANGED <<unplaced, ordered>>
   BY <1>2 DEF Loads
 <2>2. Len(records) < Len(ordered) /\ Candidate.requires \subseteq loaded /\ "loaded" \in Statuses
   BY <2>1 DEF LoopIsTyped, Statuses
 <2> QED BY <2>1, <2>2, TurnDivides
<1>3. CASE Fails
 <2>1. running # <<>> /\ Report("failed") /\ UNCHANGED <<unplaced, ordered, loaded>>
   BY <1>3 DEF Fails
 <2>2. Len(records) < Len(ordered) /\ "failed" \in Statuses
   BY <2>1 DEF LoopIsTyped, Statuses
 <2> QED BY <2>1, <2>2, TurnDivides
<1>4. CASE BeginRegister \/ Contribute \/ Subscribe \/ WriteState
  BY <1>4, OrderRests DEF BeginRegister, Contribute, Subscribe, WriteState
<1>5. ASSUME NEW p \in CandidateNames, AddTool(p) \/ RemoveTool(p) PROVE OrderInv'
  BY <1>5, OrderRests DEF AddTool, RemoveTool
<1>6. CASE UNCHANGED pluginVars BY <1>6, OrderRests DEF pluginVars
<1> QED BY <1>1, <1>2, <1>3, <1>4, <1>5, <1>6, OrderDivides DEF PluginNext

\* Whatever the plugins require of one another, cycles included: one is skipped only for what has not
\* loaded when all is done (loader.py 255-300).
THEOREM SkipsHaveCause == PluginSpec => []SkippedForCause
<1>1. PluginInit => LoopIsTyped /\ RegistryInv /\ OrderInv
 <2> SUFFICES ASSUME PluginInit PROVE OrderInv BY RegistryBegins
 <2>1. ordered = <<>> /\ records = <<>> /\ loaded = {} BY DEF PluginInit
 <2>2. Len(ordered) = 0 /\ 0 \in 0 .. Len(ordered) BY <2>1
 <2>3. Divided(0) /\ Excused(0) /\ LoadedAreRecorded
   BY <2>1, <2>2 DEF Divided, Excused, LoadedAreRecorded
 <2> QED BY <2>2, <2>3 DEF OrderInv
<1>2. LoopIsTyped /\ RegistryInv /\ OrderInv /\ [PluginNext]_pluginVars =>
        (LoopIsTyped /\ RegistryInv /\ OrderInv)'
  BY RegistryKeeps, OrderInvKeeps
<1>3. OrderInv => SkippedForCause
 <2> SUFFICES ASSUME OrderInv, NEW i \in DOMAIN records, records[i].status = "skipped", Unique
              PROVE  ~(ordered[i].requires \subseteq loaded)
   BY DEF SkippedForCause, Unique
 <2> QED BY DEF OrderInv, Excused
<1> QED BY <1>1, <1>2, <1>3, PTL DEF PluginSpec
=============================================================================
