------------------------------- MODULE Logins -------------------------------
(***************************************************************************)
(* Logging in to a provider (auth.py OAuthPKCEFlow and OAuthDeviceFlow,    *)
(* provider_codex.py, the login commands): through a browser that is sent  *)
(* back to a port of this machine, by pasting what the browser was sent    *)
(* back with, or by a device code that is polled for.                      *)
(*                                                                         *)
(* The logins of one machine, of one program or of several, share the port *)
(* and the stored credential.  Each is a command, which may be cancelled,  *)
(* and a thread that works for it.  The provider is external: it gives the *)
(* browser of a login a code of that login once the user has approved it,  *)
(* and grants a token for a code only to the login the code is of.         *)
(***************************************************************************)
EXTENDS Naturals, Functions

CONSTANTS
  LoginIds,      \* logins of this machine
  ModesOf,       \* the modes each may be asked for
  BaseInterval,  \* the least interval between polls
  Backoff,       \* what a complaint adds to it
  Timeout,       \* how long a device login is polled for
  MaxRequests    \* bound: requests the browsers send to the port

ASSUME IntervalAssumption == BaseInterval \in Nat \ {0} /\ Backoff \in Nat /\ Timeout \in Nat

None == "none"

VARIABLES
  mode,       \* what the login was asked for, or went on with
  caller,     \* the command: "ready", "awaiting", "cancelling", "storing", "stored", "done",
              \* "failed", "cancelled"
  thread,       \* the thread: "idle", "listening", "closing", "pasting", "exchanging", "asking",
              \* "sleeping", "polling", "granted", or how it failed: "no browser", "timed out",
              \* "stopped", "refused"
  port,       \* the login that listens on the port, or None
  backlog,    \* requests that reached the port and were not accepted
  serving,   \* accepted requests: <<the login whose server accepted it, the request>>
  code,       \* the login the code in hand is of, or None
  pasted,     \* the code in hand was pasted without the state it came with
  assured,       \* logins whose browser was shown that authentication is complete
  approved,   \* logins the user approved at the provider
  stop,       \* cancel_event
  poll,       \* the device login's times: the interval, what is left until the deadline and
              \* of the wait, and the time since the last answer
  askedFor,     \* the interval the provider has asked for so far
  stored,     \* the login the stored credential is of, or None
  modelOurs,      \* the model in use is one of this provider
  requests

browserVars == <<port, backlog, serving, assured, requests>>
deviceVars == <<stop, poll, askedFor>>
loginVars == <<mode, caller, thread, code, pasted, approved, stored, modelOurs, browserVars,
               deviceVars>>

NoPoll == [interval |-> 0, left |-> 0, rest |-> 0, since |-> 0]
\* What a browser asks the port for: the address with the code and the state of a login; or
\* None, another address, or no code.
Requests == LoginIds \cup {None}
LoginFailures == {"no browser", "timed out", "stopped", "refused"}

LoginsInit ==
  /\ mode \in {m \in [LoginIds -> UNION Range(ModesOf)] :
              \A l \in LoginIds : m[l] \in ModesOf[l]}
  /\ caller = [l \in LoginIds |-> "ready"] /\ thread = [l \in LoginIds |-> "idle"]
  /\ port = None /\ backlog = {} /\ serving = {} /\ assured = {} /\ approved = {}
  /\ code = [l \in LoginIds |-> None] /\ pasted = {} /\ stop = {} /\ stored = None
  /\ poll = [l \in LoginIds |-> NoPoll]
  /\ askedFor = [l \in LoginIds |-> 0] /\ modelOurs = FALSE /\ requests = 0

Becomes(l, stage) == thread' = [thread EXCEPT ![l] = stage]
LessOf(a, b) == IF a < b THEN a ELSE b
MoreOf(a, b) == IF a < b THEN b ELSE a
-----------------------------------------------------------------------------
\* _login and _run_login: the flow is chosen by the mode; "auto" is the browser where there is
\* a display, and the device flow elsewhere.
BeginLogin(l) ==
  /\ caller[l] = "ready"
  /\ caller' = [caller EXCEPT ![l] = "awaiting"]
  /\ \/ mode[l] \in {"auto", "browser"} /\ Becomes(l, "opening") /\ UNCHANGED mode
     \/ mode[l] = "paste" /\ Becomes(l, "pasting") /\ UNCHANGED mode
     \/ /\ mode[l] \in {"auto", "device"} /\ Becomes(l, "asking")
        /\ mode' = [mode EXCEPT ![l] = "device"]
  /\ UNCHANGED <<code, pasted, approved, stored, modelOurs, browserVars,
                 deviceVars>>

\* The command is assured what became of the thread.  A browser that did not open sends "auto" to
\* the device flow.
WorkerReturns(l) ==
  /\ caller[l] = "awaiting"
  /\ \/ /\ thread[l] = "no browser" /\ mode[l] = "auto"
        /\ Becomes(l, "asking") /\ mode' = [mode EXCEPT ![l] = "device"] /\ UNCHANGED caller
     \/ /\ thread[l] \in LoginFailures /\ (thread[l] = "no browser" => mode[l] # "auto")
        /\ caller' = [caller EXCEPT ![l] = "failed"] /\ UNCHANGED <<thread, mode>>
     \/ /\ thread[l] = "granted"
        /\ \E outcome \in {"storing", "failed"} : caller' = [caller EXCEPT ![l] = outcome]
        /\ UNCHANGED <<thread, mode>>
  /\ UNCHANGED <<code, pasted, approved, stored, modelOurs, browserVars,
                 deviceVars>>

\* The credential is made of the answer and kept.
StoreCredential(l) ==
  /\ caller[l] = "storing"
  /\ stored' = l /\ caller' = [caller EXCEPT ![l] = "stored"]
  /\ UNCHANGED <<mode, thread, code, pasted, approved, modelOurs, browserVars,
                 deviceVars>>

\* _after_login: unless a model of this provider is in use, one is switched to, or not, if the
\* switch fails; a program that was started to log in ends.
AfterLogin(l) ==
  /\ caller[l] = "stored"
  /\ caller' = [caller EXCEPT ![l] = "done"] /\ modelOurs' \in {modelOurs, TRUE}
  /\ UNCHANGED <<mode, thread, code, pasted, approved, stored, browserVars, deviceVars>>

\* The command is cancelled: a device flow is assured and waited for, unless the wait is cancelled
\* too; the thread of another flow goes on by itself.
CancelLogin(l) ==
  /\ \/ /\ caller[l] = "awaiting"
        /\ caller' = [caller EXCEPT ![l] =
                         IF mode[l] = "device" THEN "cancelling" ELSE "cancelled"]
        /\ stop' = IF mode[l] = "device" THEN stop \cup {l} ELSE stop
     \/ /\ caller[l] = "cancelling" /\ caller' = [caller EXCEPT ![l] = "cancelled"]
        /\ UNCHANGED stop
  /\ UNCHANGED <<mode, thread, code, pasted, approved, stored, modelOurs, browserVars, poll,
                 askedFor>>

CancelEnds(l) ==
  /\ caller[l] = "cancelling" /\ thread[l] \in LoginFailures \cup {"granted"}
  /\ caller' = [caller EXCEPT ![l] = "cancelled"]
  /\ UNCHANGED <<mode, thread, code, pasted, approved, stored, modelOurs, browserVars,
                 deviceVars>>

LogOut ==
  /\ stored # None /\ stored' = None
  /\ UNCHANGED <<mode, caller, thread, code, pasted, approved, modelOurs, browserVars,
                 deviceVars>>
-----------------------------------------------------------------------------
\* authorize: the port is taken, or in use, and then the code is pasted; the browser is opened.
OpenServer(l) ==
  /\ thread[l] = "opening"
  /\ IF port = None
       THEN \/ port' = l /\ Becomes(l, "listening")
            \/ UNCHANGED port /\ Becomes(l, "no browser")
       ELSE UNCHANGED port /\ (Becomes(l, "pasting") \/ Becomes(l, "no browser"))
  /\ UNCHANGED <<mode, caller, code, pasted, approved, stored, modelOurs, backlog, serving,
                 assured, requests, deviceVars>>

\* The user approves a login whose address was opened or printed.
Approve(l) ==
  /\ mode[l] # "device" /\ thread[l] \notin {"idle", "opening"} /\ l \notin approved
  /\ approved' = approved \cup {l}
  /\ UNCHANGED <<mode, caller, thread, code, pasted, stored, modelOurs, browserVars,
                 deviceVars>>

\* The browser of an approved login is sent back, or another request comes; while nobody
\* listens it is refused.
BrowserAsks(r) ==
  /\ port # None /\ requests < MaxRequests /\ r \notin backlog
  /\ r \in approved \cup {None}
  /\ requests' = requests + 1 /\ backlog' = backlog \cup {r}
  /\ UNCHANGED <<mode, caller, thread, code, pasted, approved, stored, modelOurs, port, serving,
                 assured, deviceVars>>

\* handle_request: the request is given to a thread of its own.
AcceptRequest(l, r) ==
  /\ thread[l] = "listening" /\ r \in backlog
  /\ backlog' = backlog \ {r} /\ serving' = serving \cup {<<l, r>>}
  /\ UNCHANGED <<mode, caller, thread, code, pasted, approved, stored, modelOurs, port, assured,
                 requests, deviceVars>>

\* do_GET: the right address, with the state of this login, and with a code.
AnyState(l, r) == r # None
IsAnswer(l, r) == r = l

HandleRequest(l, r) ==
  /\ <<l, r>> \in serving
  /\ serving' = serving \ {<<l, r>>}
  /\ IF IsAnswer(l, r)
       THEN /\ assured' = assured \cup {r}
            /\ code' = [code EXCEPT ![l] = r]
       ELSE UNCHANGED <<assured, code>>
  /\ UNCHANGED <<mode, caller, thread, pasted, approved, stored, modelOurs, port, backlog,
                 requests, deviceVars>>

\* The loop ends when a callback is there, or when two minutes have gone by.  The server is
\* closed; its threads are not waited for.
CloseServer(l) ==
  /\ thread[l] = "listening"
  /\ port' = None /\ backlog' = {}
  /\ Becomes(l, IF code[l] # None THEN "exchanging" ELSE "late")
  /\ UNCHANGED <<mode, caller, code, pasted, approved, stored, modelOurs, serving, assured,
                 requests, deviceVars>>

\* result.get("code"): a callback handled since the loop ended still counts.
LookAgain(l) ==
  /\ thread[l] = "late"
  /\ Becomes(l, IF code[l] # None THEN "exchanging" ELSE "timed out")
  /\ UNCHANGED <<mode, caller, code, pasted, approved, stored, modelOurs, browserVars,
                 deviceVars>>

\* parse_paste: an address or a code with its state, which must be this login's; or a code
\* alone, which may be any.  A text without a code is refused.
Paste(l) ==
  /\ thread[l] = "pasting"
  /\ \/ \E q \in approved, withState \in BOOLEAN :
          IF withState /\ q # l
            THEN Becomes(l, "refused") /\ UNCHANGED <<code, pasted>>
            ELSE /\ code' = [code EXCEPT ![l] = q] /\ Becomes(l, "exchanging")
                 /\ pasted' = IF withState THEN pasted ELSE pasted \cup {l}
     \/ Becomes(l, "refused") /\ UNCHANGED <<code, pasted>>
  /\ UNCHANGED <<mode, caller, approved, stored, modelOurs, browserVars,
                 deviceVars>>

\* exchange: the token is granted for a code of this login, and may be refused for any.
Exchange(l) ==
  /\ thread[l] = "exchanging"
  /\ \/ code[l] = l /\ Becomes(l, "granted")
     \/ Becomes(l, "refused")
  /\ UNCHANGED <<mode, caller, code, pasted, approved, stored, modelOurs, browserVars,
                 deviceVars>>
-----------------------------------------------------------------------------
\* The wait before the next poll: the interval, or what is left of the time.
Asleep(p) == [p EXCEPT !.rest = LessOf(p.interval, p.left), !.since = 0]

\* The loop is left; its times are forgotten.
PollingEnds(l, stage) ==
  /\ Becomes(l, stage)
  /\ poll' = [poll EXCEPT ![l] = NoPoll] /\ askedFor' = [askedFor EXCEPT ![l] = 0]

\* The loop begins again, now that the provider has asked for an interval, or the time is over.
NextRound(l, p, asked) ==
  IF p.left > 0
    THEN /\ Becomes(l, "sleeping") /\ poll' = [poll EXCEPT ![l] = Asleep(p)]
         /\ askedFor' = [askedFor EXCEPT ![l] = asked]
    ELSE PollingEnds(l, "timed out")

\* The device code is asked for; an answer without one, or none, ends the login.
AskForCode(l) ==
  /\ thread[l] = "asking"
  /\ \/ \E asked \in {0, BaseInterval + 1} :
          NextRound(l, [poll[l] EXCEPT !.interval = MoreOf(BaseInterval, asked),
                                       !.left = Timeout], asked)
     \/ Becomes(l, "refused") /\ UNCHANGED <<poll, askedFor>>
  /\ UNCHANGED <<mode, caller, code, pasted, approved, stored, modelOurs, browserVars, stop>>

\* The wait ends by the event or by the time; no poll is sent once the deadline has passed.
StillTime(l) == poll[l].left > 0

SleepEnds(l) ==
  /\ thread[l] = "sleeping"
  /\ \/ l \in stop /\ PollingEnds(l, "stopped")
     \/ /\ l \notin stop /\ poll[l].rest = 0
        /\ IF StillTime(l)
             THEN Becomes(l, "polling") /\ UNCHANGED <<poll, askedFor>>
             ELSE PollingEnds(l, "timed out")
  /\ UNCHANGED <<mode, caller, code, pasted, approved, stored, modelOurs, browserVars, stop>>

\* The answer: the code; not yet; too fast, or the service in trouble, which makes the interval
\* longer; or anything else, which ends the login.
Slower(p) == [p EXCEPT !.interval = @ + Backoff]

PollAnswered(l) ==
  /\ thread[l] = "polling"
  /\ \/ code' = [code EXCEPT ![l] = l] /\ PollingEnds(l, "exchanging")
     \/ NextRound(l, poll[l], askedFor[l]) /\ UNCHANGED code
     \/ NextRound(l, Slower(poll[l]), askedFor[l] + Backoff) /\ UNCHANGED code
     \/ PollingEnds(l, "refused") /\ UNCHANGED code
  /\ UNCHANGED <<mode, caller, pasted, approved, stored, modelOurs, browserVars, stop>>

Decrement(n) == IF n > 0 THEN n - 1 ELSE 0

TimePasses ==
  /\ \E l \in LoginIds : poll[l].left > 0
  /\ poll' = [l \in LoginIds |->
       [poll[l] EXCEPT !.left = Decrement(@), !.rest = Decrement(@),
                       !.since = IF thread[l] = "sleeping" THEN @ + 1 ELSE @]]
  /\ UNCHANGED <<mode, caller, thread, code, pasted, approved, stored, modelOurs, browserVars,
                 stop, askedFor>>
-----------------------------------------------------------------------------
LoginsNext ==
  \/ \E l \in LoginIds :
       \/ BeginLogin(l) \/ WorkerReturns(l) \/ StoreCredential(l) \/ AfterLogin(l)
       \/ CancelLogin(l) \/ CancelEnds(l) \/ OpenServer(l) \/ Approve(l) \/ CloseServer(l)
       \/ LookAgain(l) \/ Paste(l) \/ Exchange(l) \/ AskForCode(l) \/ SleepEnds(l)
        \/ PollAnswered(l)
       \/ \E r \in Requests : AcceptRequest(l, r) \/ HandleRequest(l, r)
  \/ \E r \in Requests : BrowserAsks(r)
  \/ LogOut \/ TimePasses

LoginsSpec == LoginsInit /\ [][LoginsNext]_loginVars
-----------------------------------------------------------------------------
LoginsTypeOK ==
  /\ mode \in [LoginIds -> {"auto", "browser", "paste", "device"}]
  /\ caller \in [LoginIds -> {"ready", "awaiting", "cancelling", "storing", "stored", "done",
                              "failed", "cancelled"}]
  /\ thread \in [LoginIds -> {"idle", "opening", "listening", "late", "pasting", "exchanging",
                            "asking", "sleeping", "polling", "granted"} \cup LoginFailures]
  /\ port \in LoginIds \cup {None} /\ backlog \subseteq Requests
  /\ serving \subseteq LoginIds \X Requests /\ code \in [LoginIds -> LoginIds \cup {None}]
  /\ pasted \subseteq LoginIds /\ assured \subseteq LoginIds /\ approved \subseteq LoginIds
  /\ stop \subseteq LoginIds /\ stored \in LoginIds \cup {None} /\ modelOurs \in BOOLEAN
  /\ poll \in [LoginIds -> [interval : Nat, left : 0..Timeout, rest : Nat, since : Nat]]
  /\ askedFor \in [LoginIds -> Nat] /\ requests \in 0..MaxRequests

\* A login has another login's code in hand only if the user pasted it without its state, and
\* a browser that was assured that authentication is complete has brought its login its own code,
\* whichever login of the machine listened on the port.
CodesAreOwn ==
  /\ \A l \in LoginIds : code[l] \notin {None, l} => l \in pasted
  /\ \A l \in assured : code[l] = l

\* The provider is polled no earlier after an answer than it has asked for, by its interval and
\* by every complaint since, and the last, shorter wait before the deadline polls nothing.
PollsSpaced == \A l \in LoginIds : thread[l] = "polling" => poll[l].since >= askedFor[l]

\* The credential kept is one of a login that went through, with a code of its own, and was
\* never cancelled, whatever its thread brought later; and the port is free unless a thread
\* listens on it.
LeavesNothing ==
  /\ stored # None => caller[stored] \in {"stored", "done"} /\ code[stored] = stored
  /\ port # None => thread[port] = "listening"

LoginsSound == CodesAreOwn /\ PollsSpaced /\ LeavesNothing
=============================================================================
