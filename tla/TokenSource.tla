----------------------------- MODULE TokenSource -----------------------------
(***************************************************************************)
(* One provider's OAuth credential: the store that processes share, and    *)
(* the refresh of its access token (core/auth.py 40-147, 475-565,          *)
(* builtin/provider_codex.py 331-390).                                     *)
(*                                                                         *)
(* Threads call get_token; those of one process share a refresh lock.      *)
(* Each access to the store is atomic, under a file lock of all processes. *)
(* The authorization server spends a refresh token at its use and answers  *)
(* with the next one, or leaves it valid.                                  *)
(***************************************************************************)
EXTENDS Naturals, FiniteSets

CONSTANTS
  Asker,         \* the threads that ask for a token: pairs of a process and a thread of it
  MaxLogins, MaxAccess, MaxDeaths   \* bounds of the instance

ASSUME TokenBounds == MaxLogins \in Nat /\ MaxAccess \in Nat

VARIABLES
  cred,       \* the stored credential: <<>>, or a record in a sequence
  valid,      \* at the server: the refresh token of each login it accepts
  asker,      \* the calls of get_token
  unexpired,      \* the access tokens that are good for five more minutes
  logins, accesses, deaths,
  wanted,     \* the login the user wants: the newest, or 0 after a logout
  forfeited   \* logins whose refresh token was spent with nobody left to store the next

tokenVars == <<cred, valid, asker, unexpired, logins, accesses, deaths, wanted, forfeited>>

TokenLogin == 1 .. MaxLogins
Process == {a[1] : a \in Asker}
Credential == [login : TokenLogin, refresh : 0 .. MaxAccess, access : 1 .. MaxAccess]
Idle == [pc |-> "idle", copy |-> <<>>, next |-> <<>>]

TokenInit ==
  /\ cred = <<>>
  /\ valid = [l \in TokenLogin |-> 0]
  /\ asker = [a \in Asker |-> Idle]
  /\ unexpired = {}
  /\ logins = 0 /\ accesses = 0 /\ deaths = 0
  /\ wanted = 0 /\ forfeited = {}

-----------------------------------------------------------------------------
(* The store. *)

\* bug: the write does not look at what is there
SetAnyway(expected, replacement) == cred' = replacement

\* compare_and_set: only what the caller has read is replaced, or removed.
CompareAndSet(expected, replacement) ==
  cred' = IF cred = expected THEN replacement ELSE cred

\* login: the flow of the browser or the device has ended with tokens. A login may come
\* without a refresh token (0).
Login(refreshable) ==
  LET n == logins + 1
      access == accesses + 1
  IN  /\ logins < MaxLogins /\ accesses < MaxAccess
      /\ cred' = <<[login |-> n, refresh |-> IF refreshable THEN access ELSE 0, access |-> access]>>
      /\ valid' = [valid EXCEPT ![n] = IF refreshable THEN access ELSE 0]
      /\ unexpired' = unexpired \union {access}
      /\ logins' = n /\ accesses' = access /\ wanted' = n
      /\ UNCHANGED <<asker, deaths, forfeited>>

\* logout; the server is not told.
Logout ==
  /\ cred # <<>>
  /\ cred' = <<>> /\ wanted' = 0
  /\ UNCHANGED <<valid, asker, unexpired, logins, accesses, deaths, forfeited>>

\* Time passes.
Expires ==
  /\ unexpired # {} /\ unexpired' = {}
  /\ UNCHANGED <<cred, valid, asker, logins, accesses, deaths, wanted, forfeited>>

-----------------------------------------------------------------------------
(* get_token. *)

NeedsRefresh(c) == c[1].access \notin unexpired

Moves(a, pc) == asker' = [asker EXCEPT ![a].pc = pc]
Answered(a) == asker' = [asker EXCEPT ![a] = Idle]

\* The first look at the store: not logged in, a good token, or a refresh.
AsksToken(a) ==
  /\ asker[a].pc = "idle" /\ cred # <<>> /\ NeedsRefresh(cred)
  /\ Moves(a, "line")
  /\ UNCHANGED <<cred, valid, unexpired, logins, accesses, deaths, wanted, forfeited>>

\* bug: a lock for each caller
LockOfCaller(a) == TRUE

\* _token_lock: one refresh at a time in a process, for each store and provider.
LockFree(a) == \A b \in Asker : b[1] = a[1] => asker[b].pc \in {"idle", "line"}

\* Under the lock the store is read again: the refresh may have been done by now.
TakesRefreshLock(a) ==
  /\ asker[a].pc = "line" /\ LockFree(a)
  /\ IF cred = <<>> \/ (cred # <<>> /\ (~NeedsRefresh(cred) \/ cred[1].refresh = 0))
       THEN Answered(a)
       ELSE asker' = [asker EXCEPT ![a] = [pc |-> "asking", copy |-> cred, next |-> <<>>]]
  /\ UNCHANGED <<cred, valid, unexpired, logins, accesses, deaths, wanted, forfeited>>

\* Another process refreshes the same login as a: it holds what a has read, or has stored its
\* successor since. Only one of the two answers can be stored then.
RefreshedTwice(a) ==
  \/ cred # asker[a].copy /\ cred # <<>> /\ cred[1].login = asker[a].copy[1].login
  \/ \E b \in Asker : /\ b[1] # a[1] /\ asker[b].copy = asker[a].copy
                      /\ asker[b].pc \in {"asking", "granted"}

\* The server accepts the refresh token, and may spend it. The answer may get lost, or carry no
\* access token.
ServerGrants(a, rotates, lost) ==
  LET old == asker[a].copy[1]
      access == accesses + 1
      refresh == IF rotates THEN access ELSE old.refresh
  IN  /\ asker[a].pc = "asking" /\ valid[old.login] = old.refresh /\ accesses < MaxAccess
      /\ accesses' = access
      /\ unexpired' = unexpired \union {access}
      /\ valid' = [valid EXCEPT ![old.login] = refresh]
      /\ forfeited' = IF rotates /\ (lost \/ RefreshedTwice(a)) THEN forfeited \union {old.login}
                                                               ELSE forfeited
      /\ asker' = [asker EXCEPT ![a] =
           IF lost THEN Idle
           ELSE [@ EXCEPT !.pc = "granted",
                          !.next = <<[old EXCEPT !.refresh = refresh, !.access = access]>>]]
      /\ UNCHANGED <<cred, logins, deaths, wanted>>

\* It refuses for good: 401, or 400 with invalid_grant.
ServerRefuses(a) ==
  /\ asker[a].pc = "asking" /\ valid[asker[a].copy[1].login] # asker[a].copy[1].refresh
  /\ Moves(a, "refused")
  /\ forfeited' = IF RefreshedTwice(a) THEN forfeited \union {asker[a].copy[1].login} ELSE forfeited
  /\ UNCHANGED <<cred, valid, unexpired, logins, accesses, deaths, wanted>>

\* No answer, or one that is not about the token (429, 5xx): the error is raised.
ServerFails(a) ==
  /\ asker[a].pc = "asking"
  /\ Answered(a)
  /\ UNCHANGED <<cred, valid, unexpired, logins, accesses, deaths, wanted, forfeited>>

\* What was answered is stored, or the refused credential removed, if the store still has what
\* was read. Otherwise a reads once more and takes what it finds.
Stores(a) ==
  /\ asker[a].pc \in {"granted", "refused"}
  /\ CompareAndSet(asker[a].copy, asker[a].next)
  /\ IF cred = asker[a].copy THEN Answered(a) ELSE Moves(a, "rereads")
  /\ UNCHANGED <<valid, unexpired, logins, accesses, deaths, wanted, forfeited>>

Rereads(a) ==
  /\ asker[a].pc = "rereads"
  /\ Answered(a)
  /\ UNCHANGED <<cred, valid, unexpired, logins, accesses, deaths, wanted, forfeited>>

\* A process dies with whatever its threads had in hand.
Dies(p) ==
  /\ deaths < MaxDeaths /\ deaths' = deaths + 1
  /\ asker' = [a \in Asker |-> IF a[1] = p THEN Idle ELSE asker[a]]
  /\ forfeited' = forfeited \union
       {asker[a].copy[1].login : a \in {b \in Asker : b[1] = p /\ asker[b].pc = "granted"}}
  /\ UNCHANGED <<cred, valid, unexpired, logins, accesses, wanted>>

TokenNext ==
  \/ \E refreshable \in BOOLEAN : Login(refreshable)
  \/ Logout \/ Expires
  \/ \E a \in Asker :
       \/ AsksToken(a) \/ TakesRefreshLock(a)
       \/ \E rotates, lost \in BOOLEAN : ServerGrants(a, rotates, lost)
       \/ ServerRefuses(a) \/ ServerFails(a) \/ Stores(a) \/ Rereads(a)
  \/ \E p \in Process : Dies(p)

TokenSpec == TokenInit /\ [][TokenNext]_tokenVars

-----------------------------------------------------------------------------
TokenTypeOK ==
  /\ cred = <<>> \/ cred \in {<<c>> : c \in Credential}
  /\ valid \in [TokenLogin -> 0 .. MaxAccess]
  /\ asker \in [Asker -> [pc : {"idle", "line", "asking", "granted", "refused", "rereads"},
                          copy : {<<>>} \union {<<c>> : c \in Credential},
                          next : {<<>>} \union {<<c>> : c \in Credential}]]
  /\ unexpired \subseteq 1 .. MaxAccess
  /\ wanted \in 0 .. logins /\ forfeited \subseteq TokenLogin

\* A refresh, however late its answer, undoes neither a logout nor a newer login; and a user who
\* is logged in stays so with a refresh token the server accepts, or one that a thread is about
\* to store, unless that token was spent with nobody left to keep the next one: an answer that
\* got lost, a process that died, or two processes that spent the same one. The threads of one
\* process never do that to each other (auth.py 132-147, 513-565).
LoginKept ==
  /\ wanted = 0 => cred = <<>>
  /\ cred # <<>> => cred[1].login = wanted
  /\ wanted \notin forfeited \union {0} =>
       /\ cred # <<>>
       /\ \/ cred[1].refresh \in {0, valid[wanted]}
          \/ \E a \in Asker : /\ asker[a].pc = "granted" /\ asker[a].copy = cred
                              /\ asker[a].next[1].refresh = valid[wanted]
=============================================================================
