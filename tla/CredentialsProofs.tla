-------------------------- MODULE CredentialsProofs --------------------------
(***************************************************************************)
(* The stored credential.  Under concurrent refreshes, whatever threads,   *)
(* processes and the authorization server do, a login that was not         *)
(* forfeited can be refreshed; and whatever logins of one machine run at   *)
(* once, the credential kept is that of a login that went through.  And    *)
(* the settings: what is in force is the user's or of a project he trusts. *)
(* And line edits: they hit what was shown under their tag.                *)
(***************************************************************************)
EXTENDS TokenSource, Logins, Settings, FileEdits, FiniteSetTheorems, SequenceTheorems,
        WellFoundedInduction, TLAPS

\* What the store or a thread may hold.
Stored == {<<c>> : c \in Credential}
Slot == {<<>>} \union Stored

\* A thread has a copy of the credential and the server's answer is out, or not stored yet.
Holds == {"asking", "granted", "refused"}

\* A thread has the refresh lock of its process.
Outside == Holds \union {"rereads"}

AskerState == [pc : {"idle", "line", "asking", "granted", "refused", "rereads"},
               copy : Slot, next : Slot]

Typed ==
  /\ cred \in Slot
  /\ valid \in [TokenLogin -> 0 .. MaxAccess]
  /\ asker \in [Asker -> AskerState]
  /\ unexpired \subseteq 1 .. MaxAccess
  /\ logins \in 0 .. MaxLogins /\ accesses \in 0 .. MaxAccess
  /\ wanted \in 0 .. logins /\ forfeited \subseteq TokenLogin

\* The store has the wanted login's credential or none.
OfWanted == (wanted = 0 => cred = <<>>) /\ (cred # <<>> => cred[1].login = wanted)

\* What a thread has in hand: a copy that can be refreshed, and its successor once granted.
Hands ==
  \A a \in Asker :
    /\ asker[a].pc \in Holds => asker[a].copy \in Stored /\ asker[a].copy[1].refresh # 0
    /\ asker[a].pc = "granted" => /\ asker[a].next \in Stored
                                  /\ asker[a].next[1].login = asker[a].copy[1].login
    /\ asker[a].pc \in {"asking", "refused"} => asker[a].next = <<>>

\* Access tokens tell credentials apart: what the server has granted is nowhere but in the hand
\* of the one thread it was granted to.
Dated ==
  /\ cred # <<>> => cred[1].access <= accesses
  /\ \A a \in Asker : asker[a].pc \in Holds => asker[a].copy[1].access <= accesses
  /\ \A a \in Asker : asker[a].pc = "granted" => asker[a].next[1].access <= accesses
Unshared ==
  \A a \in Asker : asker[a].pc = "granted" =>
    /\ cred # <<>> => cred[1].access # asker[a].next[1].access
    /\ \A b \in Asker : /\ asker[b].pc \in Holds =>
                             asker[b].copy[1].access # asker[a].next[1].access
                        /\ asker[b].pc = "granted" /\ b # a =>
                             asker[b].next[1].access # asker[a].next[1].access

\* The refresh lock.
OneOfProcess ==
  \A a, b \in Asker : a # b /\ a[1] = b[1] => ~(asker[a].pc \in Outside /\ asker[b].pc \in Outside)

\* A refusal that will remove the stored credential is of a login that was forfeited.
RefusedForfeits ==
  \A a \in Asker : asker[a].pc = "refused" /\ asker[a].copy = cred => wanted \in forfeited

\* The stored refresh token is the valid one, or a thread has the valid one for it; and every
\* thread that will replace the stored credential has the valid one.
Refreshable ==
  wanted \notin forfeited \union {0} =>
    /\ cred # <<>>
    /\ \/ cred[1].refresh \in {0, valid[wanted]}
       \/ \E a \in Asker : asker[a].pc = "granted" /\ asker[a].copy = cred
    /\ \A a \in Asker : asker[a].pc = "granted" /\ asker[a].copy = cred =>
                          asker[a].next[1].refresh = valid[wanted]

TokenInv ==
  /\ Typed /\ OfWanted /\ Hands /\ Dated /\ Unshared /\ OneOfProcess /\ RefusedForfeits
  /\ Refreshable

-----------------------------------------------------------------------------
LEMMA StoredFacts ==
  ASSUME NEW x \in Stored
  PROVE  /\ x # <<>> /\ x \in Slot /\ x[1] \in Credential
         /\ x[1].login \in TokenLogin /\ x[1].refresh \in 0 .. MaxAccess
         /\ x[1].access \in 1 .. MaxAccess
BY DEF Stored, Slot, Credential

LEMMA SlotFacts == ASSUME NEW x \in Slot, x # <<>> PROVE x \in Stored
BY DEF Slot

LEMMA IdleState == Idle \in AskerState /\ Idle.pc = "idle"
BY DEF Idle, AskerState, Slot

LEMMA TokenInitInv == TokenInit => TokenInv
<1> SUFFICES ASSUME TokenInit PROVE TokenInv OBVIOUS
<1>1. Typed BY IdleState, TokenBounds DEF TokenInit, Typed, Slot
<1>2. \A a \in Asker : asker[a].pc = "idle" BY IdleState DEF TokenInit
<1> QED
  BY <1>1, <1>2 DEF TokenInit, TokenInv, OfWanted, Hands, Dated, Unshared, OneOfProcess,
     RefusedForfeits, Refreshable, Holds, Outside

-----------------------------------------------------------------------------
(* The user. *)

LEMMA LoginStep == ASSUME TokenInv, NEW refreshable \in BOOLEAN, Login(refreshable)
                   PROVE  TokenInv'
<1> DEFINE n == logins + 1
           access == accesses + 1
           refresh == IF refreshable THEN access ELSE 0
           new == <<[login |-> n, refresh |-> refresh, access |-> access]>>
<1>1. Typed /\ logins < MaxLogins /\ accesses < MaxAccess BY DEF TokenInv, Login
<1>2. n \in TokenLogin /\ access \in 1 .. MaxAccess /\ refresh \in 0 .. MaxAccess
  BY <1>1, TokenBounds DEF Typed, TokenLogin
<1>3. new \in Stored /\ new[1].access = access /\ new[1].login = n /\ new[1].refresh = refresh
  BY <1>2 DEF Stored, Credential
<1>4. /\ cred' = new /\ valid' = [valid EXCEPT ![n] = refresh]
      /\ unexpired' = unexpired \union {access}
      /\ logins' = n /\ accesses' = access /\ wanted' = n
      /\ UNCHANGED <<asker, deaths, forfeited>>
  BY DEF Login
<1>5. valid'[n] = refresh BY <1>1, <1>2, <1>4 DEF Typed
<1> HIDE DEF new, refresh
<1>6. Typed'
 <2>1. n \in Nat /\ n <= MaxLogins /\ access \in Nat /\ access <= MaxAccess
   BY <1>2 DEF TokenLogin
 <2>2. valid' \in [TokenLogin -> 0 .. MaxAccess] BY <1>1, <1>2, <1>4 DEF Typed
 <2>3. cred' \in Slot /\ unexpired' \subseteq 1 .. MaxAccess
   BY <1>1, <1>2, <1>3, <1>4 DEF Typed, Slot
 <2>4. /\ asker' \in [Asker -> AskerState]
       /\ forfeited' \subseteq TokenLogin
   BY <1>1, <1>4 DEF Typed
 <2> HIDE DEF n, access
 <2> QED BY <1>4, <2>1, <2>2, <2>3, <2>4, TokenBounds DEF Typed
<1>7. n # 0 /\ access \in Nat /\ accesses \in Nat /\ accesses < access
  BY <1>1, <1>2 DEF Typed, TokenLogin
<1>8. \A a \in Asker : asker[a].pc \in Holds =>
        asker[a].copy[1].access \in Nat /\ asker[a].copy[1].access < access
 <2> SUFFICES ASSUME NEW a \in Asker, asker[a].pc \in Holds
              PROVE  asker[a].copy[1].access \in Nat /\ asker[a].copy[1].access < access
   OBVIOUS
 <2>1. asker[a].copy[1].access <= accesses /\ asker[a].copy[1].access \in Nat
   BY StoredFacts DEF TokenInv, Dated, Hands
 <2> QED BY <1>7, <2>1
<1>9. \A a \in Asker : asker[a].pc = "granted" =>
        asker[a].next[1].access \in Nat /\ asker[a].next[1].access < access
 <2> SUFFICES ASSUME NEW a \in Asker, asker[a].pc = "granted"
              PROVE  asker[a].next[1].access \in Nat /\ asker[a].next[1].access < access
   OBVIOUS
 <2>1. asker[a].next[1].access <= accesses /\ asker[a].next[1].access \in Nat
   BY StoredFacts DEF TokenInv, Dated, Hands
 <2> QED BY <1>7, <2>1
<1>10. \A a \in Asker : asker[a].pc \in Holds => asker[a].copy # new BY <1>3, <1>7, <1>8
<1>11. OfWanted' BY <1>3, <1>4, <1>7, StoredFacts DEF OfWanted
<1>12. Hands' /\ OneOfProcess' BY <1>4 DEF TokenInv, Hands, OneOfProcess
<1>13. Dated'
 <2>1. \A x \in Nat : x < access => x <= access BY <1>7
 <2> QED BY <1>3, <1>4, <1>7, <1>8, <1>9, <2>1 DEF Dated, Holds
<1>14. Unshared' BY <1>3, <1>4, <1>7, <1>9 DEF TokenInv, Unshared
<1>15. RefusedForfeits' /\ Refreshable'
  BY <1>3, <1>4, <1>5, <1>10, StoredFacts DEF RefusedForfeits, Refreshable, Holds
<1> QED BY <1>6, <1>11, <1>12, <1>13, <1>14, <1>15 DEF TokenInv

LEMMA LogoutStep == ASSUME TokenInv, Logout PROVE TokenInv'
<1>1. cred' = <<>> /\ wanted' = 0
      /\ UNCHANGED <<valid, asker, unexpired, logins, accesses, deaths, forfeited>>
  BY DEF Logout
<1>2. Typed' BY <1>1 DEF TokenInv, Typed, Slot
<1>3. \A a \in Asker : asker[a].pc \in Holds => asker[a].copy # <<>>
  BY StoredFacts DEF TokenInv, Hands
<1>4. Hands' /\ Dated' /\ Unshared' /\ OneOfProcess'
  BY <1>1 DEF TokenInv, Hands, Dated, Unshared, OneOfProcess
<1>5. OfWanted' /\ RefusedForfeits' /\ Refreshable'
  BY <1>1, <1>3 DEF OfWanted, RefusedForfeits, Refreshable, Holds
<1> QED BY <1>2, <1>4, <1>5 DEF TokenInv

LEMMA ExpiresStep == ASSUME TokenInv, Expires \/ UNCHANGED tokenVars PROVE TokenInv'
<1>1. UNCHANGED <<cred, valid, asker, logins, accesses, wanted, forfeited>>
      /\ unexpired' \subseteq unexpired
  BY DEF Expires, tokenVars
<1>2. Typed' BY <1>1 DEF TokenInv, Typed
<1> QED
  BY <1>1, <1>2 DEF TokenInv, OfWanted, Hands, Dated, Unshared, OneOfProcess, RefusedForfeits,
     Refreshable

-----------------------------------------------------------------------------
(* A thread that asks for a token. *)

\* A thread with no grant in hand lets go of what it has, or joins the line.
LEMMA StepsBack ==
  ASSUME TokenInv, NEW a \in Asker, asker[a].pc # "granted", NEW state \in AskerState,
         state.pc \in {"idle", "line"}, asker' = [asker EXCEPT ![a] = state],
         UNCHANGED <<cred, valid, unexpired, logins, accesses, deaths, wanted, forfeited>>
  PROVE  TokenInv'
<1>1. /\ asker'[a] = state /\ \A b \in Asker \ {a} : asker'[b] = asker[b]
      /\ asker' \in [Asker -> AskerState]
  BY DEF TokenInv, Typed
<1>2. Typed' BY <1>1 DEF TokenInv, Typed
<1>3. \A b \in Asker : asker'[b].pc \in Outside => b # a /\ asker'[b] = asker[b]
  BY <1>1 DEF Outside, Holds
<1>4. \A b \in Asker : asker[b].pc = "granted" => asker'[b] = asker[b] BY <1>1
<1>5. OfWanted' /\ Hands' /\ Dated'
  BY <1>3 DEF TokenInv, OfWanted, Hands, Dated, Outside, Holds
<1>6. Unshared' BY <1>3 DEF TokenInv, Unshared, Outside, Holds
<1>7. OneOfProcess' /\ RefusedForfeits'
  BY <1>3 DEF TokenInv, OneOfProcess, RefusedForfeits, Outside, Holds
<1>8. Refreshable' BY <1>3, <1>4 DEF TokenInv, Refreshable, Outside, Holds
<1> QED BY <1>2, <1>5, <1>6, <1>7, <1>8 DEF TokenInv

LEMMA LineStep ==
  ASSUME TokenInv, NEW a \in Asker, AsksToken(a) \/ ServerFails(a) \/ Rereads(a)
  PROVE  TokenInv'
<1>1. asker[a] \in AskerState /\ asker[a].pc # "granted"
  BY DEF TokenInv, Typed, AsksToken, ServerFails, Rereads
<1>2. UNCHANGED <<cred, valid, unexpired, logins, accesses, deaths, wanted, forfeited>>
  BY DEF AsksToken, ServerFails, Rereads
<1>3. CASE AsksToken(a)
 <2> DEFINE state == [asker[a] EXCEPT !.pc = "line"]
 <2>1. asker' = [asker EXCEPT ![a] = state] /\ state \in AskerState /\ state.pc = "line"
   BY <1>1, <1>3 DEF AsksToken, Moves, AskerState
 <2> QED BY <1>1, <1>2, <2>1, StepsBack
<1>4. CASE ServerFails(a) \/ Rereads(a)
  BY <1>1, <1>2, <1>4, IdleState, StepsBack DEF ServerFails, Rereads, Answered
<1> QED BY <1>3, <1>4

\* Under the lock: the store is read again.
LEMMA LockStep == ASSUME TokenInv, NEW a \in Asker, TakesRefreshLock(a) PROVE TokenInv'
<1>1. asker[a].pc = "line" /\ LockFree(a)
      /\ UNCHANGED <<cred, valid, unexpired, logins, accesses, deaths, wanted, forfeited>>
  BY DEF TakesRefreshLock
<1>2. CASE Answered(a) BY <1>1, <1>2, IdleState, StepsBack DEF Answered
<1>3. CASE /\ cred # <<>> /\ cred[1].refresh # 0
           /\ asker' = [asker EXCEPT ![a] = [pc |-> "asking", copy |-> cred, next |-> <<>>]]
 <2>1. /\ asker'[a] = [pc |-> "asking", copy |-> cred, next |-> <<>>]
       /\ \A b \in Asker \ {a} : asker'[b] = asker[b]
   BY <1>3 DEF TokenInv, Typed
 <2>2. cred \in Stored /\ cred \in Slot /\ <<>> \in Slot
   BY <1>3, SlotFacts DEF TokenInv, Typed, Slot
 <2>3. Typed' BY <1>1, <1>3, <2>2 DEF TokenInv, Typed, AskerState
 <2>4. \A b \in Asker : asker'[b].pc = "granted" <=> asker[b].pc = "granted" BY <1>1, <2>1
 <2>5. OfWanted' /\ Hands' BY <1>1, <1>3, <2>1, <2>2 DEF TokenInv, OfWanted, Hands, Holds
 <2>6. Dated' BY <1>1, <1>3, <2>1 DEF TokenInv, Dated, Holds
 <2>7. Unshared' BY <1>1, <1>3, <2>1 DEF TokenInv, Unshared, Holds
 <2>8. OneOfProcess'
  <3>1. \A b \in Asker \ {a} : b[1] = a[1] => asker'[b].pc \notin Outside
    BY <1>1, <2>1 DEF LockFree, Outside, Holds
  <3> QED BY <2>1, <3>1 DEF TokenInv, OneOfProcess
 <2>9. RefusedForfeits' /\ Refreshable'
   BY <1>1, <2>1, <2>4 DEF TokenInv, RefusedForfeits, Refreshable
 <2> QED BY <2>3, <2>5, <2>6, <2>7, <2>8, <2>9 DEF TokenInv
<1> QED BY <1>2, <1>3 DEF TakesRefreshLock

\* Two threads with a copy of the stored credential are of different processes.
LEMMA OtherProcess ==
  ASSUME TokenInv, NEW a \in Asker, NEW b \in Asker, a # b, asker[a].pc \in Outside,
         asker[b].pc \in Outside
  PROVE  b[1] # a[1]
BY DEF TokenInv, OneOfProcess

LEMMA GrantStep ==
  ASSUME TokenInv, NEW a \in Asker, NEW rotates \in BOOLEAN, NEW lost \in BOOLEAN,
         ServerGrants(a, rotates, lost)
  PROVE  TokenInv'
<1> DEFINE old == asker[a].copy[1]
           access == accesses + 1
           refresh == IF rotates THEN access ELSE old.refresh
           new == <<[old EXCEPT !.refresh = refresh, !.access = access]>>
<1>1. /\ asker[a].pc = "asking" /\ valid[old.login] = old.refresh /\ accesses < MaxAccess
      /\ accesses' = access /\ unexpired' = unexpired \union {access}
      /\ valid' = [valid EXCEPT ![old.login] = refresh]
      /\ forfeited' = IF rotates /\ (lost \/ RefreshedTwice(a)) THEN forfeited \union {old.login}
                                                                ELSE forfeited
      /\ asker' = [asker EXCEPT ![a] = IF lost THEN Idle
                                       ELSE [@ EXCEPT !.pc = "granted", !.next = new]]
      /\ UNCHANGED <<cred, logins, deaths, wanted>>
  BY DEF ServerGrants
<1>2. Typed /\ asker[a] \in AskerState /\ asker[a].copy \in Stored /\ old \in Credential
  BY <1>1, StoredFacts DEF TokenInv, Typed, Hands, Holds
<1>3. /\ old.login \in TokenLogin /\ old.refresh \in 0 .. MaxAccess
      /\ access \in 1 .. MaxAccess /\ refresh \in 0 .. MaxAccess
      /\ access \in Nat /\ accesses \in Nat /\ accesses < access
  BY <1>1, <1>2, StoredFacts, TokenBounds DEF Typed
<1>4. /\ new \in Stored /\ new \in Slot /\ new[1].access = access /\ new[1].refresh = refresh
      /\ new[1].login = old.login
 <2>1. [old EXCEPT !.refresh = refresh, !.access = access] \in Credential
   BY <1>2, <1>3 DEF Credential
 <2> QED BY <1>2, <2>1 DEF Stored, Slot, Credential
<1> DEFINE state == IF lost THEN Idle ELSE [asker[a] EXCEPT !.pc = "granted", !.next = new]
<1> HIDE DEF new, refresh
<1>5. /\ state \in AskerState
      /\ lost => state.pc = "idle"
      /\ ~lost => state.pc = "granted" /\ state.copy = asker[a].copy /\ state.next = new
  BY <1>2, <1>4, IdleState DEF AskerState
<1>6. asker' = [asker EXCEPT ![a] = state] BY <1>1
<1> HIDE DEF state
<1>7. asker'[a] = state /\ \A b \in Asker \ {a} : asker'[b] = asker[b]
  BY <1>2, <1>6 DEF Typed
<1>8. valid'[old.login] = refresh /\ \A l \in TokenLogin \ {old.login} : valid'[l] = valid[l]
  BY <1>1, <1>2, <1>3 DEF Typed
<1>9. Typed' BY <1>1, <1>2, <1>3, <1>5, <1>6 DEF Typed
<1>10. OfWanted' BY <1>1 DEF TokenInv, OfWanted
<1>11. Hands' BY <1>2, <1>4, <1>5, <1>7, <1>1 DEF TokenInv, Hands, Holds
<1>12. \A b \in Asker : asker[b].pc \in Holds =>
        asker[b].copy[1].access \in Nat /\ asker[b].copy[1].access < access
 <2> SUFFICES ASSUME NEW b \in Asker, asker[b].pc \in Holds
              PROVE  asker[b].copy[1].access \in Nat /\ asker[b].copy[1].access < access
   OBVIOUS
 <2>1. asker[b].copy[1].access <= accesses /\ asker[b].copy[1].access \in Nat
   BY StoredFacts DEF TokenInv, Dated, Hands
 <2> QED BY <1>3, <2>1
<1>13. \A b \in Asker : asker[b].pc = "granted" =>
        asker[b].next[1].access \in Nat /\ asker[b].next[1].access < access
 <2> SUFFICES ASSUME NEW b \in Asker, asker[b].pc = "granted"
              PROVE  asker[b].next[1].access \in Nat /\ asker[b].next[1].access < access
   OBVIOUS
 <2>1. asker[b].next[1].access <= accesses /\ asker[b].next[1].access \in Nat
   BY StoredFacts DEF TokenInv, Dated, Hands
 <2> QED BY <1>3, <2>1
<1>14. cred # <<>> => cred[1].access \in Nat /\ cred[1].access < access
 <2> SUFFICES ASSUME cred # <<>> PROVE cred[1].access \in Nat /\ cred[1].access < access
   OBVIOUS
 <2>1. cred[1].access <= accesses /\ cred[1].access \in Nat
   BY <1>2, SlotFacts, StoredFacts DEF TokenInv, Dated, Typed
 <2> QED BY <1>3, <2>1
<1> HIDE DEF access
<1>15. Dated'
 <2>1. \A x \in Nat : x < access => x <= access BY <1>3
 <2>2. accesses' = access /\ access <= access BY <1>1, <1>3
 <2>3. (cred' # <<>> => cred'[1].access <= accesses') BY <1>1, <1>14, <2>1, <2>2
 <2>4. \A b \in Asker : asker'[b].pc \in Holds => asker'[b].copy[1].access <= accesses'
   BY <1>1, <1>5, <1>7, <1>12, <2>1, <2>2 DEF Holds
 <2>5. \A b \in Asker : asker'[b].pc = "granted" => asker'[b].next[1].access <= accesses'
   BY <1>4, <1>5, <1>7, <1>13, <2>1, <2>2
 <2> QED BY <2>3, <2>4, <2>5 DEF Dated
<1>16. Unshared'
  BY <1>1, <1>3, <1>4, <1>5, <1>7, <1>12, <1>13, <1>14 DEF TokenInv, Unshared, Holds
<1>17. OneOfProcess' BY <1>1, <1>5, <1>7 DEF TokenInv, OneOfProcess, Outside, Holds
<1>18. RefusedForfeits' BY <1>1, <1>5, <1>7 DEF TokenInv, RefusedForfeits
<1>19. Refreshable'
 <2> SUFFICES ASSUME wanted \notin forfeited' \union {0}
              PROVE  /\ cred # <<>>
                     /\ \/ cred[1].refresh \in {0, valid'[wanted]}
                        \/ \E b \in Asker : asker'[b].pc = "granted" /\ asker'[b].copy = cred
                     /\ \A b \in Asker : asker'[b].pc = "granted" /\ asker'[b].copy = cred =>
                                           asker'[b].next[1].refresh = valid'[wanted]
   BY <1>1 DEF Refreshable
 <2>1. /\ wanted \notin forfeited \union {0} /\ cred # <<>> /\ wanted \in TokenLogin
       /\ cred[1].login = wanted
   BY <1>1, SlotFacts, StoredFacts DEF TokenInv, Refreshable, OfWanted, Typed
 <2>2. \A b \in Asker : asker[b].pc = "granted" => asker'[b] = asker[b] BY <1>1, <1>7
 <2>3. \A b \in Asker : asker'[b].pc = "granted" =>
         b = a \/ (b # a /\ asker[b].pc = "granted" /\ asker'[b] = asker[b])
   BY <1>7
 <2>4. CASE old.login # wanted
  <3>1. valid'[wanted] = valid[wanted] BY <1>8, <2>1, <2>4
  <3>2. asker[a].copy # cred BY <2>1, <2>4
  <3> QED BY <1>5, <1>7, <2>1, <2>2, <2>3, <3>1, <3>2 DEF TokenInv, Refreshable
 <2>5. CASE old.login = wanted /\ ~rotates
  <3>1. valid'[wanted] = valid[wanted] /\ refresh = valid[wanted]
    BY <1>1, <1>8, <2>5 DEF refresh
  <3> QED BY <1>4, <1>5, <1>7, <2>1, <2>2, <2>3, <3>1 DEF TokenInv, Refreshable
 <2>6. CASE old.login = wanted /\ rotates
  <3>1. ~lost /\ ~RefreshedTwice(a) BY <1>1, <2>6
  <3>2. asker[a].copy = cred BY <2>1, <2>6, <3>1 DEF RefreshedTwice
  <3>3. \A b \in Asker \ {a} : ~(asker[b].pc = "granted" /\ asker[b].copy = cred)
   <4> SUFFICES ASSUME NEW b \in Asker, b # a, asker[b].pc = "granted", asker[b].copy = cred
                PROVE  FALSE
     OBVIOUS
   <4>1. b[1] # a[1] BY <1>1, OtherProcess DEF Outside, Holds
   <4> QED BY <3>1, <3>2, <4>1 DEF RefreshedTwice
  <3>4. valid'[wanted] = refresh BY <1>8, <2>6
  <3> QED BY <1>4, <1>5, <1>7, <2>1, <2>3, <3>1, <3>2, <3>3, <3>4
 <2> QED BY <2>4, <2>5, <2>6
<1> QED BY <1>9, <1>10, <1>11, <1>15, <1>16, <1>17, <1>18, <1>19 DEF TokenInv

\* A refusal of the stored refresh token: another process has spent it.
LEMMA RefuseStep == ASSUME TokenInv, NEW a \in Asker, ServerRefuses(a) PROVE TokenInv'
<1> DEFINE old == asker[a].copy[1]
<1>1. /\ asker[a].pc = "asking" /\ valid[old.login] # old.refresh
      /\ asker' = [asker EXCEPT ![a].pc = "refused"]
      /\ forfeited' = IF RefreshedTwice(a) THEN forfeited \union {old.login} ELSE forfeited
      /\ UNCHANGED <<cred, valid, unexpired, logins, accesses, deaths, wanted>>
  BY DEF ServerRefuses, Moves
<1>2. Typed /\ asker[a] \in AskerState /\ asker[a].copy \in Stored /\ old.login \in TokenLogin
      /\ old.refresh # 0
  BY <1>1, StoredFacts DEF TokenInv, Typed, Hands, Holds
<1>3. /\ asker'[a] = [asker[a] EXCEPT !.pc = "refused"]
      /\ asker'[a].pc = "refused"
      /\ asker'[a].copy = asker[a].copy /\ asker'[a].next = asker[a].next
      /\ asker' \in [Asker -> AskerState]
      /\ \A b \in Asker \ {a} : asker'[b] = asker[b]
  BY <1>1, <1>2 DEF Typed, AskerState
<1>4. Typed' BY <1>1, <1>2, <1>3 DEF Typed
<1>5. OfWanted' /\ Hands' BY <1>1, <1>3 DEF TokenInv, OfWanted, Hands, Holds
<1>6. Dated' BY <1>1, <1>3 DEF TokenInv, Dated, Holds
<1>7. Unshared' BY <1>1, <1>3 DEF TokenInv, Unshared, Holds
<1>8. OneOfProcess' BY <1>1, <1>3 DEF TokenInv, OneOfProcess, Outside, Holds
<1>9. RefusedForfeits'
 <2>1. asker[a].copy = cred => wanted \in forfeited'
  <3> SUFFICES ASSUME asker[a].copy = cred, wanted \notin forfeited PROVE wanted \in forfeited'
    BY <1>1
  <3>1. cred # <<>> /\ old.login = wanted /\ wanted # 0
    BY <1>2, StoredFacts DEF TokenInv, OfWanted
  <3>2. cred[1].refresh \notin {0, valid[wanted]} BY <1>1, <1>2, <3>1
  <3>3. PICK b \in Asker : asker[b].pc = "granted" /\ asker[b].copy = cred
    BY <3>1, <3>2 DEF TokenInv, Refreshable
  <3>4. b[1] # a[1] BY <1>1, <3>3, OtherProcess DEF Outside, Holds
  <3>5. RefreshedTwice(a) BY <3>3, <3>4 DEF RefreshedTwice
  <3> QED BY <1>1, <3>1, <3>5
 <2> QED BY <1>1, <1>3, <2>1 DEF TokenInv, RefusedForfeits
<1>10. Refreshable'
 <2>1. \A b \in Asker : asker'[b].pc = "granted" \/ asker[b].pc = "granted" => asker'[b] = asker[b]
   BY <1>1, <1>3
 <2> QED BY <1>1, <2>1 DEF TokenInv, Refreshable
<1> QED BY <1>4, <1>5, <1>6, <1>7, <1>8, <1>9, <1>10 DEF TokenInv

-----------------------------------------------------------------------------
(* The answer is stored. *)

LEMMA StoreStep == ASSUME TokenInv, NEW a \in Asker, Stores(a) PROVE TokenInv'
<1>1. /\ asker[a].pc \in {"granted", "refused"}
      /\ cred' = IF cred = asker[a].copy THEN asker[a].next ELSE cred
      /\ IF cred = asker[a].copy THEN asker' = [asker EXCEPT ![a] = Idle]
                                 ELSE asker' = [asker EXCEPT ![a].pc = "rereads"]
      /\ UNCHANGED <<valid, unexpired, logins, accesses, deaths, wanted, forfeited>>
  BY DEF Stores, CompareAndSet, Answered, Moves
<1>2. /\ Typed /\ asker[a] \in AskerState /\ asker[a].copy \in Stored /\ asker[a].copy # <<>>
      /\ asker[a].next \in Slot
  BY <1>1, StoredFacts DEF TokenInv, Typed, Hands, Holds, AskerState
<1>3. /\ asker'[a].pc \in {"idle", "rereads"} /\ asker' \in [Asker -> AskerState]
      /\ \A b \in Asker \ {a} : asker'[b] = asker[b]
  BY <1>1, <1>2, IdleState DEF Typed, AskerState
<1>4. \A b \in Asker : asker'[b].pc \in Holds => b # a /\ asker'[b] = asker[b]
  BY <1>3 DEF Holds
<1>5. Typed' BY <1>1, <1>2, <1>3 DEF Typed
<1>6. Hands' BY <1>4 DEF TokenInv, Hands, Holds
<1>7. OneOfProcess' BY <1>1, <1>3 DEF TokenInv, OneOfProcess, Outside, Holds
<1>8. CASE cred # asker[a].copy
 <2>1. UNCHANGED <<cred, valid, wanted, forfeited, accesses>> BY <1>1, <1>8
 <2>2. \A b \in Asker : asker[b].pc \in Holds /\ asker[b].copy = cred => asker'[b] = asker[b]
   BY <1>3, <1>8
 <2>3. OfWanted' /\ Dated' /\ RefusedForfeits'
   BY <1>4, <2>1 DEF TokenInv, OfWanted, Dated, RefusedForfeits, Holds
 <2>4. Unshared' BY <1>4, <2>1 DEF TokenInv, Unshared, Holds
 <2>5. Refreshable' BY <1>4, <2>1, <2>2 DEF TokenInv, Refreshable, Holds
 <2> QED BY <1>5, <1>6, <1>7, <2>3, <2>4, <2>5 DEF TokenInv
<1>9. CASE cred = asker[a].copy /\ asker[a].pc = "refused"
 <2>1. cred' = <<>> /\ wanted \in forfeited
   BY <1>1, <1>9 DEF TokenInv, Hands, RefusedForfeits
 <2>2. \A b \in Asker : asker'[b].pc \in Holds => asker'[b].copy # <<>>
   BY <1>6, StoredFacts DEF Hands
 <2>3. OfWanted' /\ Dated' /\ RefusedForfeits' /\ Refreshable'
   BY <1>1, <1>4, <2>1, <2>2 DEF TokenInv, OfWanted, Dated, RefusedForfeits, Refreshable, Holds
 <2>4. Unshared' BY <1>4, <2>1 DEF TokenInv, Unshared, Holds
 <2> QED BY <1>5, <1>6, <1>7, <2>3, <2>4 DEF TokenInv
<1>10. CASE cred = asker[a].copy /\ asker[a].pc = "granted"
 <2>1. /\ cred' = asker[a].next /\ asker[a].next \in Stored /\ cred' # <<>>
       /\ asker[a].next[1].login = wanted /\ wanted # 0
   BY <1>1, <1>2, <1>10, StoredFacts DEF TokenInv, Hands, OfWanted
 <2>2. \A b \in Asker : asker'[b].pc \in Holds =>
         asker'[b].copy[1].access # asker[a].next[1].access
   BY <1>4, <1>10 DEF TokenInv, Unshared
 <2>3. \A b \in Asker : asker'[b].pc \in Holds => asker'[b].copy # cred' BY <2>1, <2>2
 <2>4. OfWanted' BY <1>1, <2>1 DEF OfWanted
 <2>5. Dated' BY <1>1, <1>4, <1>10, <2>1 DEF TokenInv, Dated, Holds
 <2>6. Unshared' BY <1>4, <1>10, <2>1 DEF TokenInv, Unshared, Holds
 <2>7. RefusedForfeits' BY <2>3 DEF RefusedForfeits, Holds
 <2>8. Refreshable'
  <3>1. wanted \notin forfeited => asker[a].next[1].refresh = valid[wanted]
    BY <1>10, <2>1 DEF TokenInv, Refreshable
  <3> QED BY <1>1, <2>1, <2>3, <3>1 DEF Refreshable, Holds
 <2> QED BY <1>5, <1>6, <1>7, <2>4, <2>5, <2>6, <2>7, <2>8 DEF TokenInv
<1> QED BY <1>1, <1>8, <1>9, <1>10

\* A process dies: what its threads were granted is forfeited.
LEMMA DeathStep == ASSUME TokenInv, NEW p \in Process, Dies(p) PROVE TokenInv'
<1> DEFINE theirs == {b \in Asker : b[1] = p /\ asker[b].pc = "granted"}
<1>1. /\ asker' = [a \in Asker |-> IF a[1] = p THEN Idle ELSE asker[a]]
      /\ forfeited' = forfeited \union {asker[a].copy[1].login : a \in theirs}
      /\ UNCHANGED <<cred, valid, unexpired, logins, accesses, wanted>>
  BY DEF Dies
<1>2. \A a \in theirs : asker[a].copy[1].login \in TokenLogin
  BY StoredFacts DEF TokenInv, Hands, Holds
<1>3. Typed' BY <1>1, <1>2, IdleState DEF TokenInv, Typed
<1>4. \A a \in Asker : asker'[a].pc \in Outside => a[1] # p /\ asker'[a] = asker[a]
  BY <1>1, IdleState DEF Outside, Holds
<1>5. OfWanted' /\ Hands' /\ Dated'
  BY <1>1, <1>4 DEF TokenInv, OfWanted, Hands, Dated, Outside, Holds
<1>6. Unshared' BY <1>1, <1>4 DEF TokenInv, Unshared, Outside, Holds
<1>7. OneOfProcess' /\ RefusedForfeits'
  BY <1>1, <1>4 DEF TokenInv, OneOfProcess, RefusedForfeits, Outside, Holds
<1>8. Refreshable'
 <2>1. wanted \notin forfeited' \union {0} => wanted \notin forfeited \union {0} BY <1>1
 <2>2. ASSUME wanted \notin forfeited' \union {0}, NEW a \in Asker, asker[a].pc = "granted",
              asker[a].copy = cred
       PROVE  asker'[a] = asker[a]
  <3>1. cred # <<>> /\ asker[a].copy[1].login = wanted
    BY <2>1, <2>2 DEF TokenInv, Refreshable, OfWanted
  <3>2. a[1] # p BY <1>1, <2>2, <3>1
  <3> QED BY <1>1, <3>2
 <2> QED BY <1>1, <1>4, <2>1, <2>2 DEF TokenInv, Refreshable, Outside, Holds
<1> QED BY <1>3, <1>5, <1>6, <1>7, <1>8 DEF TokenInv

LEMMA TokenStep == TokenInv /\ [TokenNext]_tokenVars => TokenInv'
BY LoginStep, LogoutStep, ExpiresStep, LineStep, LockStep, GrantStep, RefuseStep, StoreStep,
   DeathStep
   DEF TokenNext

\* For any number of processes, threads, logins and refreshes, in every interleaving of theirs
\* with logouts, lost answers and deaths: a late answer undoes neither a logout nor a newer login,
\* and a login that was not forfeited keeps a refresh token that the server accepts, stored or
\* in the hand of the thread that is about to store it (auth.py 132-147, 513-565).
THEOREM LoginIsKept == TokenSpec => []LoginKept
<1>1. TokenInv => LoginKept BY DEF TokenInv, OfWanted, Refreshable, LoginKept
<1> QED BY <1>1, TokenInitInv, TokenStep, PTL DEF TokenSpec
-----------------------------------------------------------------------------
(* Logging in. *)

Threads == {"idle", "opening", "listening", "late", "pasting", "exchanging", "asking",
            "sleeping", "polling", "granted"} \cup LoginFailures
Callers == {"ready", "awaiting", "cancelling", "storing", "stored", "done", "failed", "cancelled"}
Times == [interval : Nat, left : Nat, rest : Nat, since : Nat]

LoginStates ==
  /\ caller \in [LoginIds -> Callers] /\ thread \in [LoginIds -> Threads]
  /\ code \in [LoginIds -> LoginIds \cup {None}]
  /\ poll \in [LoginIds -> Times] /\ askedFor \in [LoginIds -> Nat]
  /\ approved \subseteq LoginIds /\ assured \subseteq LoginIds

\* A login whose server has taken a request, or whose browser was shown the end, pastes no more.
WasServed(l) == l \in assured \/ \E r \in Requests : <<l, r>> \in serving
AfterServing == {"listening", "late", "exchanging", "granted", "timed out", "refused"}

\* The code in the hand of a login, and how far the login is with it.
CodeIsOwn(l) ==
  /\ caller[l] = "ready" => thread[l] = "idle"
  /\ caller[l] \in {"storing", "stored", "done"} => thread[l] = "granted"
  /\ thread[l] = "granted" => code[l] = l
  /\ code[l] \notin {None, l} => l \in pasted
  /\ l \in assured => code[l] = l
  /\ WasServed(l) => thread[l] \in AfterServing

\* The wait before a poll is the interval, or all that is left.
WaitIsLong(l) ==
  /\ thread[l] \in {"sleeping", "polling"} => poll[l].interval >= askedFor[l]
  /\ thread[l] = "sleeping" => \/ poll[l].since + poll[l].rest >= poll[l].interval
                               \/ poll[l].rest = poll[l].left
  /\ thread[l] = "polling" => poll[l].since >= askedFor[l]

\* What all logins share.
SharedIsOwned ==
  /\ port \in LoginIds \cup {None} /\ stored \in LoginIds \cup {None}
  /\ port # None => thread[port] = "listening"
  /\ stored # None => caller[stored] \in {"stored", "done"}

LoginsInv ==
  /\ LoginStates /\ SharedIsOwned
  /\ \A l \in LoginIds : CodeIsOwn(l) /\ WaitIsLong(l)

LEMMA LoginsStart == LoginsInit => LoginsInv
<1> SUFFICES ASSUME LoginsInit PROVE LoginsInv OBVIOUS
<1>1. LoginStates
 <2>1. NoPoll \in Times BY DEF NoPoll, Times
 <2> QED BY <2>1 DEF LoginsInit, LoginStates, Callers, Threads
<1>2. SharedIsOwned BY DEF LoginsInit, SharedIsOwned
<1>3. \A l \in LoginIds : CodeIsOwn(l) /\ WaitIsLong(l)
  BY DEF LoginsInit, CodeIsOwn, WaitIsLong, WasServed
<1> QED BY <1>1, <1>2, <1>3 DEF LoginsInv

\* What a step on one login leaves of another.
OthersRest(l) ==
  \A m \in LoginIds \ {l} :
    /\ caller'[m] = caller[m] /\ thread'[m] = thread[m] /\ code'[m] = code[m]
    /\ poll'[m] = poll[m] /\ askedFor'[m] = askedFor[m]
    /\ m \in pasted' <=> m \in pasted
    /\ m \in assured' <=> m \in assured
    /\ \A r \in Requests : <<m, r>> \in serving' <=> <<m, r>> \in serving

LEMMA OneLoginStep ==
  ASSUME LoginsInv, LoginStates', SharedIsOwned', NEW l \in LoginIds, OthersRest(l),
         CodeIsOwn(l)', WaitIsLong(l)'
  PROVE  LoginsInv'
<1>1. ASSUME NEW m \in LoginIds, m # l PROVE CodeIsOwn(m)' /\ WaitIsLong(m)'
 <2>1. CodeIsOwn(m) /\ WaitIsLong(m) BY DEF LoginsInv
 <2>2. /\ caller'[m] = caller[m] /\ thread'[m] = thread[m] /\ code'[m] = code[m]
       /\ poll'[m] = poll[m] /\ askedFor'[m] = askedFor[m]
       /\ m \in pasted' <=> m \in pasted
       /\ m \in assured' <=> m \in assured
       /\ \A r \in Requests : <<m, r>> \in serving' <=> <<m, r>> \in serving
   BY <1>1 DEF OthersRest
 <2> QED BY <2>1, <2>2 DEF CodeIsOwn, WaitIsLong, WasServed
<1> QED BY <1>1 DEF LoginsInv

LEMMA CommandSteps ==
  ASSUME LoginsInv, NEW l \in LoginIds,
         \/ BeginLogin(l) \/ WorkerReturns(l) \/ StoreCredential(l) \/ AfterLogin(l)
         \/ CancelLogin(l) \/ CancelEnds(l)
  PROVE  LoginsInv'
<1> USE DEF browserVars, deviceVars
<1>0. LoginStates /\ SharedIsOwned /\ CodeIsOwn(l) /\ WaitIsLong(l) BY DEF LoginsInv
<1>1. CASE BeginLogin(l)
 <2>1. LoginStates' BY <1>0, <1>1 DEF BeginLogin, Becomes, LoginStates, Callers, Threads
 <2>2. OthersRest(l) BY <1>0, <1>1 DEF BeginLogin, Becomes, LoginStates, OthersRest
 <2>3. CodeIsOwn(l)' /\ WaitIsLong(l)' /\ SharedIsOwned'
   BY <1>0, <1>1
      DEF BeginLogin, Becomes, LoginStates, CodeIsOwn, WaitIsLong, SharedIsOwned, WasServed,
          AfterServing
 <2> QED BY <2>1, <2>2, <2>3, OneLoginStep
<1>2. CASE WorkerReturns(l)
 <2>1. LoginStates' BY <1>0, <1>2 DEF WorkerReturns, Becomes, LoginStates, Callers, Threads
 <2>2. OthersRest(l) BY <1>0, <1>2 DEF WorkerReturns, Becomes, LoginStates, OthersRest
 <2>3. CodeIsOwn(l)' /\ WaitIsLong(l)' /\ SharedIsOwned'
   BY <1>0, <1>2
      DEF WorkerReturns, Becomes, LoginStates, CodeIsOwn, WaitIsLong, SharedIsOwned, WasServed,
          AfterServing
 <2> QED BY <2>1, <2>2, <2>3, OneLoginStep
<1>3. CASE StoreCredential(l)
 <2>1. LoginStates' BY <1>0, <1>3 DEF StoreCredential, LoginStates, Callers
 <2>2. OthersRest(l) BY <1>0, <1>3 DEF StoreCredential, LoginStates, OthersRest
 <2>3. CodeIsOwn(l)' /\ WaitIsLong(l)' /\ SharedIsOwned'
   BY <1>0, <1>3
      DEF StoreCredential, LoginStates, CodeIsOwn, WaitIsLong, SharedIsOwned, WasServed
 <2> QED BY <2>1, <2>2, <2>3, OneLoginStep
<1>4. CASE AfterLogin(l)
 <2>1. LoginStates' BY <1>0, <1>4 DEF AfterLogin, LoginStates, Callers
 <2>2. OthersRest(l) BY <1>0, <1>4 DEF AfterLogin, LoginStates, OthersRest
 <2>3. CodeIsOwn(l)' /\ WaitIsLong(l)' /\ SharedIsOwned'
   BY <1>0, <1>4
      DEF AfterLogin, LoginStates, CodeIsOwn, WaitIsLong, SharedIsOwned, WasServed
 <2> QED BY <2>1, <2>2, <2>3, OneLoginStep
<1>5. CASE CancelLogin(l)
 <2>1. LoginStates' BY <1>0, <1>5 DEF CancelLogin, LoginStates, Callers
 <2>2. OthersRest(l) BY <1>0, <1>5 DEF CancelLogin, LoginStates, OthersRest
 <2>3. CodeIsOwn(l)' /\ WaitIsLong(l)' /\ SharedIsOwned'
   BY <1>0, <1>5
      DEF CancelLogin, LoginStates, CodeIsOwn, WaitIsLong, SharedIsOwned, WasServed
 <2> QED BY <2>1, <2>2, <2>3, OneLoginStep
<1>6. CASE CancelEnds(l)
 <2>1. LoginStates' BY <1>0, <1>6 DEF CancelEnds, LoginStates, Callers
 <2>2. OthersRest(l) BY <1>0, <1>6 DEF CancelEnds, LoginStates, OthersRest
 <2>3. CodeIsOwn(l)' /\ WaitIsLong(l)' /\ SharedIsOwned'
   BY <1>0, <1>6
      DEF CancelEnds, LoginStates, CodeIsOwn, WaitIsLong, SharedIsOwned, WasServed
 <2> QED BY <2>1, <2>2, <2>3, OneLoginStep
<1> QED BY <1>1, <1>2, <1>3, <1>4, <1>5, <1>6

LEMMA BrowserSteps ==
  ASSUME LoginsInv, NEW l \in LoginIds,
         \/ OpenServer(l) \/ CloseServer(l) \/ LookAgain(l) \/ Paste(l) \/ Exchange(l)
         \/ \E r \in Requests : AcceptRequest(l, r) \/ HandleRequest(l, r)
  PROVE  LoginsInv'
<1> USE DEF browserVars, deviceVars
<1>0. LoginStates /\ SharedIsOwned /\ CodeIsOwn(l) /\ WaitIsLong(l) BY DEF LoginsInv
<1>1. CASE OpenServer(l)
 <2>1. LoginStates'
   BY <1>0, <1>1 DEF OpenServer, Becomes, LoginStates, Threads, LoginFailures
 <2>2. OthersRest(l) BY <1>0, <1>1 DEF OpenServer, Becomes, LoginStates, OthersRest
 <2>3. SharedIsOwned' BY <1>0, <1>1 DEF OpenServer, Becomes, LoginStates, SharedIsOwned
 <2>4. CodeIsOwn(l)' /\ WaitIsLong(l)'
   BY <1>0, <1>1
      DEF OpenServer, Becomes, LoginStates, CodeIsOwn, WaitIsLong, WasServed, AfterServing
 <2> QED BY <2>1, <2>2, <2>3, <2>4, OneLoginStep
<1>2. CASE CloseServer(l)
 <2>1. LoginStates' BY <1>0, <1>2 DEF CloseServer, Becomes, LoginStates, Threads
 <2>2. OthersRest(l) BY <1>0, <1>2 DEF CloseServer, Becomes, LoginStates, OthersRest
 <2>3. CodeIsOwn(l)' /\ WaitIsLong(l)' /\ SharedIsOwned'
   BY <1>0, <1>2
      DEF CloseServer, Becomes, LoginStates, CodeIsOwn, WaitIsLong, SharedIsOwned, WasServed,
          AfterServing
 <2> QED BY <2>1, <2>2, <2>3, OneLoginStep
<1>3. CASE LookAgain(l)
 <2>1. LoginStates'
   BY <1>0, <1>3 DEF LookAgain, Becomes, LoginStates, Threads, LoginFailures
 <2>2. OthersRest(l) BY <1>0, <1>3 DEF LookAgain, Becomes, LoginStates, OthersRest
 <2>3. CodeIsOwn(l)' /\ WaitIsLong(l)' /\ SharedIsOwned'
   BY <1>0, <1>3
      DEF LookAgain, Becomes, LoginStates, CodeIsOwn, WaitIsLong, SharedIsOwned, WasServed,
          AfterServing
 <2> QED BY <2>1, <2>2, <2>3, OneLoginStep
<1>4. CASE Paste(l)
 <2>1. thread[l] = "pasting" /\ ~WasServed(l)
   BY <1>0, <1>4 DEF Paste, CodeIsOwn, AfterServing
 <2>2. \/ Becomes(l, "refused") /\ UNCHANGED <<code, pasted>>
       \/ /\ Becomes(l, "exchanging")
          /\ \E q \in approved, withState \in BOOLEAN :
               /\ withState => q = l
               /\ code' = [code EXCEPT ![l] = q]
               /\ pasted' = IF withState THEN pasted ELSE pasted \cup {l}
   BY <1>4 DEF Paste
 <2>3. CASE Becomes(l, "refused") /\ UNCHANGED <<code, pasted>>
  <3>1. LoginStates'
    BY <1>0, <1>4, <2>3 DEF Paste, Becomes, LoginStates, Threads, LoginFailures
  <3>2. OthersRest(l) BY <1>0, <1>4, <2>3 DEF Paste, Becomes, LoginStates, OthersRest
  <3>3. CodeIsOwn(l)' /\ WaitIsLong(l)' /\ SharedIsOwned'
    BY <1>0, <1>4, <2>1, <2>3
       DEF Paste, Becomes, LoginStates, CodeIsOwn, WaitIsLong, SharedIsOwned, WasServed,
           AfterServing
  <3> QED BY <3>1, <3>2, <3>3, OneLoginStep
 <2>4. ASSUME NEW q \in approved, NEW withState \in BOOLEAN, Becomes(l, "exchanging"),
              withState => q = l, code' = [code EXCEPT ![l] = q],
              pasted' = IF withState THEN pasted ELSE pasted \cup {l}
       PROVE  LoginsInv'
  <3>1. LoginStates'
   <4>1. q \in LoginIds BY <2>4 DEF LoginsInv, LoginStates
   <4> QED BY <1>0, <1>4, <2>4, <4>1 DEF Paste, Becomes, LoginStates, Threads
  <3>2. OthersRest(l) BY <1>0, <1>4, <2>4 DEF Paste, Becomes, LoginStates, OthersRest
  <3>3. SharedIsOwned'
    BY <1>0, <1>4, <2>1, <2>4 DEF Paste, Becomes, LoginStates, SharedIsOwned
  <3>4. CodeIsOwn(l)' /\ WaitIsLong(l)'
    BY <1>0, <1>4, <2>1, <2>4
       DEF Paste, Becomes, LoginStates, CodeIsOwn, WaitIsLong, WasServed, AfterServing
  <3> QED BY <3>1, <3>2, <3>3, <3>4, OneLoginStep
 <2> QED BY <2>2, <2>3, <2>4
<1>5. CASE Exchange(l)
 <2>1. LoginStates' BY <1>0, <1>5 DEF Exchange, Becomes, LoginStates, Threads, LoginFailures
 <2>2. OthersRest(l) BY <1>0, <1>5 DEF Exchange, Becomes, LoginStates, OthersRest
 <2>3. CodeIsOwn(l)' /\ WaitIsLong(l)' /\ SharedIsOwned'
   BY <1>0, <1>5
      DEF Exchange, Becomes, LoginStates, CodeIsOwn, WaitIsLong, SharedIsOwned, WasServed,
          AfterServing
 <2> QED BY <2>1, <2>2, <2>3, OneLoginStep
<1>6. ASSUME NEW r \in Requests, AcceptRequest(l, r) PROVE LoginsInv'
 <2>1. LoginStates' /\ SharedIsOwned'
   BY <1>0, <1>6 DEF AcceptRequest, LoginStates, SharedIsOwned
 <2>2. OthersRest(l) BY <1>0, <1>6 DEF AcceptRequest, OthersRest
 <2>3. CodeIsOwn(l)' /\ WaitIsLong(l)'
   BY <1>0, <1>6 DEF AcceptRequest, CodeIsOwn, WaitIsLong, WasServed, AfterServing
 <2> QED BY <2>1, <2>2, <2>3, OneLoginStep
<1>7. ASSUME NEW r \in Requests, HandleRequest(l, r) PROVE LoginsInv'
 <2>1. LoginStates' /\ SharedIsOwned'
   BY <1>0, <1>7 DEF HandleRequest, IsAnswer, LoginStates, SharedIsOwned
 <2>2. OthersRest(l) BY <1>0, <1>7 DEF HandleRequest, IsAnswer, LoginStates, OthersRest
 <2>3. WasServed(l) /\ (code'[l] = l \/ (code'[l] = code[l] /\ assured' = assured))
   BY <1>0, <1>7 DEF HandleRequest, IsAnswer, LoginStates, WasServed
 <2>4. CodeIsOwn(l)' /\ WaitIsLong(l)'
   BY <1>0, <1>7, <2>3 DEF HandleRequest, CodeIsOwn, WaitIsLong, WasServed
 <2> QED BY <2>1, <2>2, <2>4, OneLoginStep
<1> QED BY <1>1, <1>2, <1>3, <1>4, <1>5, <1>6, <1>7

\* Where the polling loop goes on, and where it ends.
LEMMA RoundBegins ==
  ASSUME LoginStates, NEW l \in LoginIds, NEW p \in Times, NEW asked \in Nat,
         p.interval >= asked, NextRound(l, p, asked)
  PROVE  /\ poll' \in [LoginIds -> Times] /\ askedFor' \in [LoginIds -> Nat]
         /\ thread' \in [LoginIds -> Threads] /\ thread'[l] \in {"sleeping", "timed out"}
         /\ WaitIsLong(l)'
         /\ \A m \in LoginIds \ {l} : /\ poll'[m] = poll[m] /\ askedFor'[m] = askedFor[m]
                                      /\ thread'[m] = thread[m]
<1>1. Asleep(p) \in Times /\ NoPoll \in Times BY DEF Asleep, LessOf, Times, NoPoll
<1>2. CASE p.left > 0
 <2>1. /\ thread' = [thread EXCEPT ![l] = "sleeping"] /\ poll' = [poll EXCEPT ![l] = Asleep(p)]
       /\ askedFor' = [askedFor EXCEPT ![l] = asked]
   BY <1>2 DEF NextRound, Becomes
 <2>2. /\ Asleep(p).interval = p.interval /\ Asleep(p).left = p.left /\ Asleep(p).since = 0
       /\ Asleep(p).rest \in {p.interval, p.left}
   BY DEF Asleep, LessOf, Times
 <2>3. p.interval \in Nat /\ p.left \in Nat BY DEF Times
 <2>4. WaitIsLong(l)' BY <2>1, <2>2, <2>3 DEF WaitIsLong, LoginStates
 <2> QED BY <1>1, <2>1, <2>4 DEF LoginStates, Threads
<1>3. CASE ~(p.left > 0)
 <2>1. /\ thread' = [thread EXCEPT ![l] = "timed out"] /\ poll' = [poll EXCEPT ![l] = NoPoll]
       /\ askedFor' = [askedFor EXCEPT ![l] = 0]
   BY <1>3 DEF NextRound, PollingEnds, Becomes
 <2> QED BY <1>1, <2>1 DEF LoginStates, Threads, LoginFailures, WaitIsLong
<1> QED BY <1>2, <1>3

LEMMA RoundEnds ==
  ASSUME LoginStates, NEW l \in LoginIds, NEW stage \in Threads \ {"sleeping", "polling"},
         PollingEnds(l, stage)
  PROVE  /\ poll' \in [LoginIds -> Times] /\ askedFor' \in [LoginIds -> Nat]
         /\ thread' \in [LoginIds -> Threads] /\ thread'[l] = stage /\ WaitIsLong(l)'
         /\ \A m \in LoginIds \ {l} : /\ poll'[m] = poll[m] /\ askedFor'[m] = askedFor[m]
                                      /\ thread'[m] = thread[m]
<1>1. NoPoll \in Times BY DEF NoPoll, Times
<1> QED BY <1>1 DEF PollingEnds, Becomes, LoginStates, WaitIsLong

\* What a step of the polling loop does, whichever it is.
PollGoesOn(l) ==
  /\ poll' \in [LoginIds -> Times] /\ askedFor' \in [LoginIds -> Nat]
  /\ thread' \in [LoginIds -> Threads] /\ WaitIsLong(l)'
  /\ thread'[l] \in {"sleeping", "polling", "exchanging"} \cup LoginFailures
  /\ \A m \in LoginIds \ {l} : /\ poll'[m] = poll[m] /\ askedFor'[m] = askedFor[m]
                               /\ thread'[m] = thread[m]

\* A device login never had a server, so nothing it was served can be lost.
LEMMA DeviceSteps ==
  ASSUME LoginsInv, NEW l \in LoginIds, AskForCode(l) \/ SleepEnds(l) \/ PollAnswered(l)
  PROVE  LoginsInv'
<1> USE DEF browserVars
<1>0. LoginStates /\ SharedIsOwned /\ CodeIsOwn(l) /\ WaitIsLong(l) BY DEF LoginsInv
<1>1. /\ thread[l] \in {"asking", "sleeping", "polling"}
      /\ caller' = caller /\ pasted' = pasted /\ approved' = approved /\ stored' = stored
      /\ port' = port /\ assured' = assured /\ serving' = serving
      /\ code' = code \/ code' = [code EXCEPT ![l] = l]
  BY DEF AskForCode, SleepEnds, PollAnswered
<1>2. poll[l] \in Times /\ askedFor[l] \in Nat BY <1>0 DEF LoginStates
<1>3. PollGoesOn(l)
 <2>1. ASSUME NEW p \in Times, NEW asked \in Nat, p.interval >= asked, NextRound(l, p, asked)
       PROVE  PollGoesOn(l)
   BY <1>0, <2>1, RoundBegins DEF LoginFailures, PollGoesOn
 <2>2. ASSUME NEW stage \in {"exchanging", "refused", "stopped", "timed out"},
              PollingEnds(l, stage)
       PROVE  PollGoesOn(l)
  <3>1. stage \in Threads \ {"sleeping", "polling"} BY DEF Threads, LoginFailures
  <3> QED BY <1>0, <2>2, <3>1, RoundEnds DEF LoginFailures, PollGoesOn
 <2>3. ASSUME NEW stage \in {"polling", "refused"}, Becomes(l, stage),
              UNCHANGED <<poll, askedFor>>, stage = "polling" => poll[l].since >= askedFor[l],
              WaitIsLong(l), stage = "polling" => thread[l] = "sleeping"
       PROVE  PollGoesOn(l)
   BY <1>0, <2>3 DEF Becomes, LoginStates, Threads, LoginFailures, WaitIsLong, PollGoesOn
 <2>4. CASE AskForCode(l)
  <3>1. CASE Becomes(l, "refused") /\ UNCHANGED <<poll, askedFor>> BY <1>0, <2>3, <3>1
  <3>2. ASSUME NEW asked \in {0, BaseInterval + 1},
               NextRound(l, [poll[l] EXCEPT !.interval = MoreOf(BaseInterval, asked),
                                            !.left = Timeout], asked)
        PROVE  PollGoesOn(l)
   <4> DEFINE p == [poll[l] EXCEPT !.interval = MoreOf(BaseInterval, asked),
                                   !.left = Timeout]
   <4>1. asked \in Nat /\ MoreOf(BaseInterval, asked) \in Nat
         /\ MoreOf(BaseInterval, asked) >= asked
     BY IntervalAssumption DEF MoreOf
   <4>2. p \in Times /\ p.interval = MoreOf(BaseInterval, asked)
     BY <1>2, <4>1, IntervalAssumption DEF Times
   <4>3. NextRound(l, p, asked) BY <3>2
   <4> HIDE DEF p
   <4> QED BY <2>1, <4>1, <4>2, <4>3
  <3> QED BY <2>4, <3>1, <3>2 DEF AskForCode
 <2>5. CASE SleepEnds(l)
  <3>1. CASE PollingEnds(l, "stopped") \/ PollingEnds(l, "timed out") BY <2>2, <3>1
  <3>2. CASE /\ poll[l].rest = 0 /\ poll[l].left > 0 /\ Becomes(l, "polling")
             /\ UNCHANGED <<poll, askedFor>>
   <4>1. thread[l] = "sleeping" BY <2>5 DEF SleepEnds
   <4>2. poll[l].since >= askedFor[l] BY <1>0, <1>2, <3>2, <4>1 DEF WaitIsLong, Times
   <4> QED BY <1>0, <2>3, <3>2, <4>1, <4>2
  <3> QED BY <2>5, <3>1, <3>2 DEF SleepEnds, StillTime
 <2>6. CASE PollAnswered(l)
  <3>1. poll[l].interval >= askedFor[l] BY <1>0, <2>6 DEF PollAnswered, WaitIsLong
  <3>2. CASE PollingEnds(l, "exchanging") \/ PollingEnds(l, "refused") BY <2>2, <3>2
  <3>3. CASE NextRound(l, poll[l], askedFor[l]) BY <1>2, <2>1, <3>1, <3>3
  <3>4. CASE NextRound(l, Slower(poll[l]), askedFor[l] + Backoff)
   <4>1. /\ Slower(poll[l]) \in Times
         /\ Slower(poll[l]).interval = poll[l].interval + Backoff
         /\ askedFor[l] + Backoff \in Nat
     BY <1>2, IntervalAssumption DEF Slower, Times
   <4>2. poll[l].interval \in Nat /\ Backoff \in Nat BY <1>2, IntervalAssumption DEF Times
   <4>3. Slower(poll[l]).interval >= askedFor[l] + Backoff BY <1>2, <3>1, <4>1, <4>2
   <4> QED BY <2>1, <3>4, <4>1, <4>3
  <3> QED BY <2>6, <3>2, <3>3, <3>4 DEF PollAnswered
 <2> QED BY <2>4, <2>5, <2>6
<1>4. LoginStates' BY <1>0, <1>1, <1>3 DEF LoginStates, PollGoesOn
<1>5. OthersRest(l) BY <1>0, <1>1, <1>3 DEF OthersRest, LoginStates, PollGoesOn
<1>6. SharedIsOwned' BY <1>0, <1>1, <1>3 DEF SharedIsOwned, PollGoesOn
<1>7. CodeIsOwn(l)'
 <2>1. ~WasServed(l) /\ caller[l] \notin {"ready", "storing", "stored", "done"}
   BY <1>0, <1>1 DEF CodeIsOwn, AfterServing
 <2>2. thread'[l] # "granted" BY <1>3 DEF LoginFailures, PollGoesOn
 <2> QED BY <1>0, <1>1, <2>1, <2>2 DEF CodeIsOwn, WasServed, LoginStates
<1> QED BY <1>0, <1>3, <1>4, <1>5, <1>6, <1>7, OneLoginStep DEF PollGoesOn

\* The user, the browsers, and time.
LEMMA OutsideSteps ==
  ASSUME LoginsInv,
         \/ \E l \in LoginIds : Approve(l)
         \/ \E r \in Requests : BrowserAsks(r)
         \/ LogOut \/ UNCHANGED loginVars
  PROVE  LoginsInv'
<1> USE DEF browserVars, deviceVars
<1>1. /\ caller' = caller /\ thread' = thread /\ code' = code /\ pasted' = pasted
      /\ poll' = poll /\ askedFor' = askedFor /\ serving' = serving /\ assured' = assured
      /\ port' = port /\ stored' \in {stored, None} /\ approved' \subseteq LoginIds
  BY DEF LoginsInv, LoginStates, Approve, BrowserAsks, LogOut, loginVars
<1>2. LoginStates' /\ SharedIsOwned' BY <1>1 DEF LoginsInv, LoginStates, SharedIsOwned
<1>3. \A l \in LoginIds : CodeIsOwn(l)' /\ WaitIsLong(l)'
  BY <1>1 DEF LoginsInv, CodeIsOwn, WaitIsLong, WasServed
<1> QED BY <1>2, <1>3 DEF LoginsInv

\* A wait and the time that is left shrink together, and what a wait loses the login has waited.
LEMMA TimeStep == ASSUME LoginsInv, TimePasses PROVE LoginsInv'
<1> USE DEF browserVars
<1>0. LoginStates /\ SharedIsOwned BY DEF LoginsInv
<1>1. /\ caller' = caller /\ thread' = thread /\ code' = code /\ pasted' = pasted
      /\ askedFor' = askedFor /\ serving' = serving /\ assured' = assured
      /\ port' = port /\ stored' = stored /\ approved' = approved
  BY DEF TimePasses
<1>2. ASSUME NEW l \in LoginIds
      PROVE  /\ poll'[l] \in Times /\ poll'[l].interval = poll[l].interval
             /\ poll'[l].rest = Decrement(poll[l].rest)
             /\ poll'[l].left = Decrement(poll[l].left)
             /\ poll'[l].since = IF thread[l] = "sleeping" THEN poll[l].since + 1
                                                           ELSE poll[l].since
 <2>1. poll[l] \in Times BY <1>0 DEF LoginStates
 <2>2. poll'[l] = [poll[l] EXCEPT !.left = Decrement(@), !.rest = Decrement(@),
                                  !.since = IF thread[l] = "sleeping" THEN @ + 1 ELSE @]
   BY DEF TimePasses
 <2>3. /\ poll[l].rest \in Nat /\ poll[l].left \in Nat /\ poll[l].since \in Nat
       /\ poll[l].interval \in Nat
   BY <2>1 DEF Times
 <2>4. /\ Decrement(poll[l].rest) \in Nat /\ Decrement(poll[l].left) \in Nat
       /\ (IF thread[l] = "sleeping" THEN poll[l].since + 1 ELSE poll[l].since) \in Nat
   BY <2>3 DEF Decrement
 <2> QED BY <2>1, <2>2, <2>4 DEF Times
<1>3. poll' \in [LoginIds -> Times]
 <2>1. poll' = [l \in LoginIds |-> poll'[l]] BY DEF TimePasses
 <2> QED BY <1>2, <2>1
<1>4. LoginStates' /\ SharedIsOwned' BY <1>0, <1>1, <1>3 DEF LoginStates, SharedIsOwned
<1>5. ASSUME NEW l \in LoginIds PROVE CodeIsOwn(l)' /\ WaitIsLong(l)'
 <2>1. CodeIsOwn(l)' BY <1>1 DEF LoginsInv, CodeIsOwn, WasServed
 <2>2. /\ poll[l].interval \in Nat /\ poll[l].rest \in Nat /\ poll[l].left \in Nat
       /\ poll[l].since \in Nat /\ askedFor[l] \in Nat
   BY <1>0 DEF LoginStates, Times
 <2>3. WaitIsLong(l) BY DEF LoginsInv
 <2>4. WaitIsLong(l)' BY <1>1, <1>2, <2>2, <2>3 DEF WaitIsLong, Decrement
 <2> QED BY <2>1, <2>4
<1> QED BY <1>4, <1>5 DEF LoginsInv

LEMMA LoginsStep == LoginsInv /\ [LoginsNext]_loginVars => LoginsInv'
<1> SUFFICES ASSUME LoginsInv, [LoginsNext]_loginVars PROVE LoginsInv' OBVIOUS
<1>1. ASSUME NEW l \in LoginIds, NEW r \in Requests, AcceptRequest(l, r) \/ HandleRequest(l, r)
      PROVE  LoginsInv'
  BY <1>1, BrowserSteps
<1> QED BY <1>1, CommandSteps, BrowserSteps, DeviceSteps, OutsideSteps, TimeStep DEF LoginsNext

\* The browser that saw the end of an authentication brought its login its own code, and the
\* stored credential is that of a login that went through with a code of its own, however many
\* logins of the machine share the port, the clipboard and the store, and whenever their commands
\* are cancelled; no poll is sent before the interval the provider asked for.  (OAuthPKCEFlow and
\* OAuthDeviceFlow of auth.py, the login commands.)
THEOREM LoginsAreOwn == LoginsSpec => []LoginsSound
<1>1. LoginsInv => LoginsSound
 <2> SUFFICES ASSUME LoginsInv PROVE LoginsSound OBVIOUS
 <2>1. CodesAreOwn
  <3>1. \A l \in assured : code[l] = l BY DEF LoginsInv, LoginStates, CodeIsOwn
  <3> QED BY <3>1 DEF LoginsInv, CodeIsOwn, CodesAreOwn
 <2>2. PollsSpaced BY DEF LoginsInv, WaitIsLong, PollsSpaced
 <2>3. LeavesNothing BY DEF LoginsInv, SharedIsOwned, CodeIsOwn, LeavesNothing
 <2> QED BY <2>1, <2>2, <2>3 DEF LoginsSound
<1> QED BY <1>1, LoginsStart, LoginsStep, PTL DEF LoginsSpec
-----------------------------------------------------------------------------
(* Settings: layers, trust and the model that was chosen.                  *)

\* The layer that counts is the first that says something (config.py 749-783).
LEMMA HighestIs ==
  ASSUME NEW layers, NEW n \in Nat, DOMAIN layers = 1 .. n, NEW i \in 1 .. n,
         layers[i] # Unsaid, \A j \in 1 .. i - 1 : layers[j] = Unsaid
  PROVE  Highest(layers) = layers[i]
<1> DEFINE S == {k \in DOMAIN layers : layers[k] # Unsaid}
<1>1. i \in S /\ S \subseteq Int /\ \A y \in S : i <= y OBVIOUS
<1>2. \A x \in S : (\A y \in S : x <= y) => x = i BY <1>1
<1> HIDE DEF S
<1>3. Min(S) = i BY <1>1, <1>2 DEF Min
<1> QED BY <1>3 DEF Highest, S

\* Of three, four and five layers, of which the last says something.
LEMMA OfThree ==
  ASSUME NEW a, NEW b, NEW c, c # Unsaid
  PROVE  Highest(<<a, b, c>>) = IF a # Unsaid THEN a ELSE IF b # Unsaid THEN b ELSE c
<1> DEFINE L == <<a, b, c>>
<1>1. DOMAIN L = 1 .. 3 /\ L[1] = a /\ L[2] = b /\ L[3] = c OBVIOUS
<1> HIDE DEF L
<1>2. CASE a # Unsaid
 <2>1. 1 \in 1 .. 3 /\ \A j \in 1 .. 1 - 1 : L[j] = Unsaid OBVIOUS
 <2> QED BY <1>1, <1>2, <2>1, HighestIs DEF L
<1>3. CASE a = Unsaid /\ b # Unsaid
 <2>1. 2 \in 1 .. 3 /\ \A j \in 1 .. 2 - 1 : L[j] = Unsaid BY <1>1, <1>3
 <2> QED BY <1>1, <1>3, <2>1, HighestIs DEF L
<1>4. CASE a = Unsaid /\ b = Unsaid
 <2>1. 3 \in 1 .. 3 /\ \A j \in 1 .. 3 - 1 : L[j] = Unsaid BY <1>1, <1>4
 <2> QED BY <1>1, <1>4, <2>1, HighestIs DEF L
<1> QED BY <1>2, <1>3, <1>4

LEMMA OfFour ==
  ASSUME NEW a, NEW b, NEW c, NEW d, d # Unsaid
  PROVE  Highest(<<a, b, c, d>>) =
           IF a # Unsaid THEN a ELSE IF b # Unsaid THEN b ELSE IF c # Unsaid THEN c ELSE d
<1> DEFINE L == <<a, b, c, d>>
<1>1. DOMAIN L = 1 .. 4 /\ L[1] = a /\ L[2] = b /\ L[3] = c /\ L[4] = d OBVIOUS
<1> HIDE DEF L
<1>2. CASE a # Unsaid
 <2>1. 1 \in 1 .. 4 /\ \A j \in 1 .. 1 - 1 : L[j] = Unsaid OBVIOUS
 <2> QED BY <1>1, <1>2, <2>1, HighestIs DEF L
<1>3. CASE a = Unsaid /\ b # Unsaid
 <2>1. 2 \in 1 .. 4 /\ \A j \in 1 .. 2 - 1 : L[j] = Unsaid BY <1>1, <1>3
 <2> QED BY <1>1, <1>3, <2>1, HighestIs DEF L
<1>4. CASE a = Unsaid /\ b = Unsaid /\ c # Unsaid
 <2>1. 3 \in 1 .. 4 /\ \A j \in 1 .. 3 - 1 : L[j] = Unsaid BY <1>1, <1>4
 <2> QED BY <1>1, <1>4, <2>1, HighestIs DEF L
<1>5. CASE a = Unsaid /\ b = Unsaid /\ c = Unsaid
 <2>1. 4 \in 1 .. 4 /\ \A j \in 1 .. 4 - 1 : L[j] = Unsaid BY <1>1, <1>5
 <2> QED BY <1>1, <1>5, <2>1, HighestIs DEF L
<1> QED BY <1>2, <1>3, <1>4, <1>5

LEMMA OfFive ==
  ASSUME NEW a, NEW b, NEW c, NEW d, NEW e, e # Unsaid
  PROVE  Highest(<<a, b, c, d, e>>) =
           IF a # Unsaid THEN a ELSE IF b # Unsaid THEN b
           ELSE IF c # Unsaid THEN c ELSE IF d # Unsaid THEN d ELSE e
<1> DEFINE L == <<a, b, c, d, e>>
<1>1. DOMAIN L = 1 .. 5 /\ L[1] = a /\ L[2] = b /\ L[3] = c /\ L[4] = d /\ L[5] = e OBVIOUS
<1> HIDE DEF L
<1>2. CASE a # Unsaid
 <2>1. 1 \in 1 .. 5 /\ \A j \in 1 .. 1 - 1 : L[j] = Unsaid OBVIOUS
 <2> QED BY <1>1, <1>2, <2>1, HighestIs DEF L
<1>3. CASE a = Unsaid /\ b # Unsaid
 <2>1. 2 \in 1 .. 5 /\ \A j \in 1 .. 2 - 1 : L[j] = Unsaid BY <1>1, <1>3
 <2> QED BY <1>1, <1>3, <2>1, HighestIs DEF L
<1>4. CASE a = Unsaid /\ b = Unsaid /\ c # Unsaid
 <2>1. 3 \in 1 .. 5 /\ \A j \in 1 .. 3 - 1 : L[j] = Unsaid BY <1>1, <1>4
 <2> QED BY <1>1, <1>4, <2>1, HighestIs DEF L
<1>5. CASE a = Unsaid /\ b = Unsaid /\ c = Unsaid /\ d # Unsaid
 <2>1. 4 \in 1 .. 5 /\ \A j \in 1 .. 4 - 1 : L[j] = Unsaid BY <1>1, <1>5
 <2> QED BY <1>1, <1>5, <2>1, HighestIs, ZenonT(40) DEF L
<1>6. CASE a = Unsaid /\ b = Unsaid /\ c = Unsaid /\ d = Unsaid
 <2>1. 5 \in 1 .. 5 /\ \A j \in 1 .. 5 - 1 : L[j] = Unsaid BY <1>1, <1>6
 <2> QED BY <1>1, <1>6, <2>1, HighestIs DEF L
<1> QED BY <1>2, <1>3, <1>4, <1>5, <1>6

\* A program's configuration while it runs, and the sessions that are on record.
Configs == [on : {TRUE}, model : Specs, roleDefault : Specs, roles : [Role -> MaySay(Specs)],
            cwd : Dir, trust : BOOLEAN, overridden : BOOLEAN, takesFrom : SUBSET Dir]
SavedSession == [cwd : Dir, model : Specs]

LayersTyped ==
  user \in UserFile /\ project \in [Dir -> ProjectFile] /\ environ \in Environment

SettingsTyped ==
  /\ LayersTyped
  /\ sessions \in Seq(SavedSession) /\ chosen \in MaySay(Specs)
  /\ cfg = Off \/ (cfg \in Configs /\ argv \in CommandLine)

\* The choice that was saved last is what the user's file says.
ChoiceIsSaved == chosen # Unsaid => user.model = chosen

SettingsInv == SettingsTyped /\ OnlyTheTrusted /\ ChoiceIsSaved

LEMMA NamesAreSpecs ==
  ASSUME NEW name \in ModelName \union Role
  PROVE  <<name>> \in Specs /\ <<name>> # Unsaid
BY DEF Specs, SpecOf, Unsaid

LEMMA DefaultIsSpec ==
  Default \in Specs /\ Default # Unsaid
<1>1. Default = <<Default[1]>> /\ Default[1] \in ModelName BY SettingsAssumption DEF Default
<1> QED BY <1>1, NamesAreSpecs

\* A project's values are of the directory that is looked at, which the user trusts, or none.
LEMMA ProjectIsTrusted ==
  ASSUME LayersTyped, NEW args \in CommandLine
  PROVE  /\ TrustTarget(args) \in Dir
         /\ ProjectValues(args) \in ProjectFile
         /\ ProjectValues(args) # NoProject =>
              /\ Trusted(TrustTarget(args), args)
              /\ ProjectValues(args) = project[TrustTarget(args)]
<1>1. TrustTarget(args) \in Dir
 <2>1. /\ args.cwd \in MaySay(Dir) /\ environ.cwd \in MaySay(Dir) /\ user.cwd \in MaySay(Dir)
       /\ StartedIn \in Dir /\ StartedIn # Unsaid
   BY SettingsAssumption DEF LayersTyped, CommandLine, Environment, UserFile
 <2>2. TrustTarget(args) =
         IF args.cwd # Unsaid THEN args.cwd ELSE IF environ.cwd # Unsaid THEN environ.cwd
         ELSE IF user.cwd # Unsaid THEN user.cwd ELSE StartedIn
   BY <2>1, OfFour DEF TrustTarget
 <2> QED BY <2>1, <2>2 DEF MaySay
<1>2. NoProject \in ProjectFile BY DEF NoProject, ProjectFile, MaySay
<1>3. project[TrustTarget(args)] \in ProjectFile BY <1>1 DEF LayersTyped
<1> QED BY <1>1, <1>2, <1>3 DEF ProjectValues

\* What a start loads, with its model and its trust.
LEMMA LoadedIs ==
  ASSUME LayersTyped, NEW args \in CommandLine
  PROVE  /\ Loaded(args) \in Configs
         /\ Loaded(args).trust = Trusted(Loaded(args).cwd, args)
         /\ \A d \in Loaded(args).takesFrom : Trusted(d, args)
         /\ Loaded(args).overridden = (args.model # Unsaid \/ args.role # Unsaid)
         /\ ~Loaded(args).overridden /\ environ.model = Unsaid =>
              Loaded(args).model =
                IF ProjectValues(args).model # Unsaid THEN ProjectValues(args).model
                ELSE IF user.model # Unsaid THEN user.model ELSE Default
<1> DEFINE P == ProjectValues(args)
           W == WorkDir(args)
           B == BaseModel(args)
           M == Highest(<<args.model, args.role, B>>)
<1>1. /\ TrustTarget(args) \in Dir /\ TrustTarget(args) # Unsaid
      /\ P \in ProjectFile
      /\ P # NoProject => Trusted(TrustTarget(args), args)
  BY ProjectIsTrusted, SettingsAssumption
<1>2. /\ args.cwd \in MaySay(Dir) /\ environ.cwd \in MaySay(Dir) /\ user.cwd \in MaySay(Dir)
      /\ args.model \in MaySay(Specs) /\ args.role \in MaySay(Specs)
      /\ environ.model \in MaySay(Specs) /\ user.model \in MaySay(Specs)
      /\ user.roles \in [Role -> MaySay(Specs)] /\ args.trustAll \in BOOLEAN
  BY DEF LayersTyped, CommandLine, Environment, UserFile
<1>3. P.model \in MaySay(Specs) /\ P.cwd \in MaySay(Dir) /\ P.roles \in [Role -> MaySay(Specs)]
  BY <1>1 DEF ProjectFile
<1>4. W \in Dir
 <2>1. W = IF args.cwd # Unsaid THEN args.cwd ELSE IF environ.cwd # Unsaid THEN environ.cwd
           ELSE IF P.cwd # Unsaid THEN P.cwd ELSE IF user.cwd # Unsaid THEN user.cwd
           ELSE TrustTarget(args)
   BY <1>1, OfFive DEF WorkDir
 <2> HIDE DEF P, W
 <2> QED BY <1>1, <1>2, <1>3, <2>1 DEF MaySay
<1>5. B = IF environ.model # Unsaid THEN environ.model
          ELSE IF P.model # Unsaid THEN P.model
          ELSE IF user.model # Unsaid THEN user.model ELSE Default
  BY DefaultIsSpec, OfFour DEF BaseModel
<1>6. B \in Specs /\ B # Unsaid
 <2> HIDE DEF B, P
 <2> QED BY <1>2, <1>3, <1>5, DefaultIsSpec DEF MaySay
<1>7. M = IF args.model # Unsaid THEN args.model ELSE IF args.role # Unsaid THEN args.role ELSE B
 <2> HIDE DEF B
 <2> QED BY <1>6, OfThree
<1>8. M \in Specs
 <2> HIDE DEF B, M
 <2> QED BY <1>2, <1>6, <1>7 DEF MaySay
<1>9. MergedRoles(args) \in [Role -> MaySay(Specs)] BY <1>2, <1>3 DEF MergedRoles
<1>10. Trusted(W, args) \in BOOLEAN BY <1>2 DEF Trusted
<1> DEFINE O == (args.model # Unsaid \/ args.role # Unsaid)
           T == IF P = NoProject THEN {} ELSE {TrustTarget(args)}
           R == IF IsRole(B) THEN Default ELSE B
           G == MergedRoles(args)
           U == Trusted(W, args)
<1>11. Loaded(args) = [on |-> TRUE, model |-> M, roleDefault |-> R, roles |-> G, cwd |-> W,
                       trust |-> U, overridden |-> O, takesFrom |-> T]
  BY DEF Loaded
<1>12. /\ T \in SUBSET Dir /\ \A d \in T : Trusted(d, args)
       /\ R \in Specs /\ O \in BOOLEAN
  BY <1>1, <1>6, DefaultIsSpec
<1> HIDE DEF M, B, W, P, O, T, R, G, U
<1>13. Loaded(args) \in Configs BY <1>4, <1>8, <1>9, <1>10, <1>11, <1>12 DEF Configs, G, U
<1>14. /\ Loaded(args).trust = U /\ Loaded(args).cwd = W /\ Loaded(args).takesFrom = T
       /\ Loaded(args).overridden = O /\ Loaded(args).model = M
  BY <1>11
<1> QED BY <1>5, <1>7, <1>12, <1>13, <1>14 DEF U, P, O

\* A session's configuration asks anew whether its directory is trusted.
LEMMA OfSessionIs ==
  ASSUME NEW session \in SavedSession, NEW c \in Configs, NEW args \in CommandLine
  PROVE  /\ OfSession(session, c, args) \in Configs
         /\ OfSession(session, c, args).cwd = session.cwd
         /\ OfSession(session, c, args).trust = Trusted(session.cwd, args)
         /\ OfSession(session, c, args).takesFrom = c.takesFrom
<1>1. PICK U : U = Trusted(session.cwd, args) OBVIOUS
<1>2. U \in BOOLEAN BY <1>1 DEF Trusted, CommandLine
<1>3. OfSession(session, c, args) =
        [c EXCEPT !.cwd = session.cwd, !.trust = U,
                  !.model = IF c.overridden THEN @ ELSE session.model]
  BY <1>1 DEF OfSession
<1>4. session.cwd \in Dir /\ session.model \in Specs BY DEF SavedSession
<1> QED BY <1>1, <1>2, <1>3, <1>4 DEF Configs

LEMMA SettingsBegin ==
  SettingInit => SettingsInv
BY SettingsAssumption DEF SettingInit, SettingsInv, SettingsTyped, LayersTyped, OnlyTheTrusted,
   ChoiceIsSaved, Off, MaySay

LEMMA SettingsStep ==
  SettingsInv /\ [SettingNext]_settingVars => SettingsInv'
<1> SUFFICES ASSUME SettingsInv, [SettingNext]_settingVars
             PROVE  SettingsInv'
  OBVIOUS
<1> USE DEF SettingsInv
<1>a. SettingsTyped /\ LayersTyped BY DEF SettingsTyped
<1>1. CASE StartProgram
 <2>1. PICK args \in Argvs :
         /\ argv' = args
         /\ \/ /\ cfg' = Loaded(args)
               /\ sessions' = Append(sessions, [cwd |-> cfg'.cwd, model |-> cfg'.model])
            \/ /\ here' \in DOMAIN sessions /\ sessions' = sessions
               /\ cfg' = OfSession(sessions[here'], Loaded(args), args)
   BY <1>1 DEF StartProgram
 <2>2. args \in CommandLine BY SettingsAssumption
 <2>3. UNCHANGED <<user, project, environ, chosen>> BY <1>1 DEF StartProgram
 <2>4. /\ Loaded(args) \in Configs
       /\ Loaded(args).trust = Trusted(Loaded(args).cwd, args)
       /\ \A d \in Loaded(args).takesFrom : Trusted(d, args)
   BY <1>a, <2>2, LoadedIs
 <2>5. /\ cfg' \in Configs /\ sessions' \in Seq(SavedSession)
       /\ cfg'.trust => Trusted(cfg'.cwd, args)
       /\ \A d \in cfg'.takesFrom : Trusted(d, args)
  <3>1. CASE /\ cfg' = Loaded(args)
             /\ sessions' = Append(sessions, [cwd |-> cfg'.cwd, model |-> cfg'.model])
   <4>1. [cwd |-> cfg'.cwd, model |-> cfg'.model] \in SavedSession
     BY <2>4, <3>1 DEF Configs, SavedSession
   <4> QED BY <1>a, <2>4, <3>1, <4>1 DEF SettingsTyped
  <3>2. CASE /\ here' \in DOMAIN sessions /\ sessions' = sessions
             /\ cfg' = OfSession(sessions[here'], Loaded(args), args)
   <4>1. PICK s : s = sessions[here'] OBVIOUS
   <4>2. s \in SavedSession BY <1>a, <3>2, <4>1 DEF SettingsTyped
   <4> QED BY <1>a, <2>2, <2>4, <3>2, <4>1, <4>2, OfSessionIs DEF SettingsTyped
  <3> QED BY <2>1, <3>1, <3>2
 <2>6. \A d : Trusted(d, argv)' = Trusted(d, args) BY <2>1, <2>3 DEF Trusted
 <2>7. OnlyTheTrusted' BY <2>5, <2>6 DEF OnlyTheTrusted
 <2> QED BY <1>a, <2>1, <2>2, <2>3, <2>5, <2>7 DEF SettingsTyped, LayersTyped, ChoiceIsSaved
<1>2. CASE MoveToSession
 <2>1. UNCHANGED <<user, project, environ, chosen, sessions, argv>> /\ cfg.on
   BY <1>2 DEF MoveToSession
 <2>2. cfg \in Configs /\ argv \in CommandLine BY <1>a, <2>1 DEF SettingsTyped, Off
 <2>3. cfg' = cfg \/ \E i \in DOMAIN sessions : cfg' = OfSession(sessions[i], cfg, argv)
   BY <1>2 DEF MoveToSession
 <2>4. \A d : Trusted(d, argv)' = Trusted(d, argv) BY <2>1 DEF Trusted
 <2>5. CASE cfg' = cfg
   BY <1>a, <2>1, <2>4, <2>5 DEF SettingsTyped, LayersTyped, ChoiceIsSaved, OnlyTheTrusted
 <2>6. CASE \E i \in DOMAIN sessions : cfg' = OfSession(sessions[i], cfg, argv)
  <3>1. PICK i \in DOMAIN sessions : cfg' = OfSession(sessions[i], cfg, argv) BY <2>6
  <3>2. sessions[i] \in SavedSession BY <1>a, <3>1 DEF SettingsTyped
  <3>3. /\ cfg' \in Configs /\ cfg'.trust = Trusted(cfg'.cwd, argv)
        /\ cfg'.takesFrom = cfg.takesFrom
    BY <2>2, <3>1, <3>2, OfSessionIs
  <3>4. OnlyTheTrusted' BY <2>1, <2>4, <3>3 DEF OnlyTheTrusted
  <3> QED BY <1>a, <2>1, <2>2, <3>3, <3>4 DEF SettingsTyped, LayersTyped, ChoiceIsSaved
 <2> QED BY <2>3, <2>5, <2>6
<1>3. CASE ChooseModel
 <2>1. UNCHANGED <<project, environ, argv>> /\ cfg.on BY <1>3 DEF ChooseModel
 <2>2. cfg \in Configs /\ argv \in CommandLine BY <1>a, <2>1 DEF SettingsTyped, Off
 <2>3. PICK name \in ModelName \union Role :
         /\ cfg' = [cfg EXCEPT !.model = <<name>>,
                               !.roleDefault = IF IsRole(cfg.model) THEN @ ELSE cfg.model]
         /\ sessions' = [sessions EXCEPT ![here].model = <<name>>]
         /\ user' = WithChoice(name) /\ chosen' = <<name>>
   BY <1>3 DEF ChooseModel
 <2>4. PICK spec : spec = <<name>> OBVIOUS
 <2>5. spec \in Specs BY <2>4, NamesAreSpecs
 <2>6. /\ user' \in UserFile /\ user'.model = spec /\ user'.trusts = user.trusts
   BY <1>a, <2>3, <2>4, <2>5 DEF WithChoice, UserFile, LayersTyped, MaySay
 <2>7. cfg' \in Configs /\ cfg'.cwd = cfg.cwd /\ cfg'.trust = cfg.trust
       /\ cfg'.takesFrom = cfg.takesFrom
  <3>1. PICK D : D = IF IsRole(cfg.model) THEN cfg.roleDefault ELSE cfg.model OBVIOUS
  <3>2. D \in Specs BY <2>2, <3>1 DEF Configs
  <3>3. cfg' = [cfg EXCEPT !.model = spec, !.roleDefault = D] BY <2>3, <2>4, <3>1
  <3> QED BY <2>2, <2>5, <3>2, <3>3 DEF Configs
 <2>8. sessions' \in Seq(SavedSession)
  <3>1. \A i \in DOMAIN sessions : sessions[i] \in SavedSession BY <1>a DEF SettingsTyped
  <3>2. sessions' = [i \in DOMAIN sessions |->
                       IF i = here THEN [sessions[i] EXCEPT !.model = spec] ELSE sessions[i]]
    BY <1>a, <2>3, <2>4 DEF SettingsTyped
  <3>3. \A i \in DOMAIN sessions : sessions'[i] \in SavedSession
    BY <2>5, <3>1, <3>2 DEF SavedSession
  <3>4. DOMAIN sessions = 1 .. Len(sessions) /\ Len(sessions) \in Nat
    BY <1>a DEF SettingsTyped
  <3>5. sessions' \in [1 .. Len(sessions) -> SavedSession] BY <3>2, <3>3, <3>4
  <3> QED BY <3>4, <3>5
 <2>9. \A d : Trusted(d, argv)' = Trusted(d, argv) BY <2>1, <2>6 DEF Trusted
 <2>10. OnlyTheTrusted' BY <2>1, <2>7, <2>9 DEF OnlyTheTrusted
 <2> QED
   BY <1>a, <2>1, <2>2, <2>3, <2>4, <2>5, <2>6, <2>7, <2>8, <2>10
      DEF SettingsTyped, LayersTyped, ChoiceIsSaved, MaySay
<1>4. CASE StopProgram
 <2>1. cfg' = Off /\ UNCHANGED <<user, project, environ, sessions, chosen>>
   BY <1>4 DEF StopProgram
 <2> QED BY <1>a, <2>1 DEF SettingsTyped, LayersTyped, OnlyTheTrusted, ChoiceIsSaved, Off
<1>5. CASE UNCHANGED settingVars
  BY <1>a, <1>5 DEF settingVars, SettingsTyped, LayersTyped, OnlyTheTrusted, ChoiceIsSaved, Trusted
<1> QED BY <1>1, <1>2, <1>3, <1>4, <1>5 DEF SettingNext

\* What the user has chosen counts unless something above it speaks.
LEMMA ChoiceCounts ==
  SettingsInv => ChoiceKept
<1> SUFFICES ASSUME SettingsInv, chosen # Unsaid, NEW args \in Argvs,
                    ~Loaded(args).overridden, environ.model = Unsaid,
                    Loaded(args).model # chosen
             PROVE  \E d \in Dir : Trusted(d, args) /\ Loaded(args).model = project[d].model
  BY DEF ChoiceKept
<1>1. LayersTyped /\ args \in CommandLine /\ user.model = chosen
  BY SettingsAssumption DEF SettingsInv, SettingsTyped, ChoiceIsSaved
<1>2. Loaded(args).model = IF ProjectValues(args).model # Unsaid THEN ProjectValues(args).model
                           ELSE IF user.model # Unsaid THEN user.model ELSE Default
  BY <1>1, LoadedIs
<1>3. ProjectValues(args).model # Unsaid /\ Loaded(args).model = ProjectValues(args).model
  BY <1>1, <1>2
<1>4. ProjectValues(args) # NoProject BY <1>3 DEF NoProject
<1> QED BY <1>1, <1>3, <1>4, ProjectIsTrusted

\* For any files, environments and command lines, whatever is chosen, resumed and started again:
\* nothing of a project is in force in a directory that the user does not trust, and a model that
\* was chosen is that of every later start but where the command line, the environment or a
\* trusted project names another (config.py 671-822, context.py 665-680,
\* commands_model.py 93-140).
THEOREM SettingsAreTheUsers == SettingSpec => [](OnlyTheTrusted /\ ChoiceKept)
<1>1. SettingSpec => []SettingsInv BY SettingsBegin, SettingsStep, PTL DEF SettingSpec
<1>2. SettingsInv => OnlyTheTrusted /\ ChoiceKept BY ChoiceCounts DEF SettingsInv
<1> QED BY <1>1, <1>2, PTL

-----------------------------------------------------------------------------
(* Lines that match. *)

Matches(f, a, b, q) == UNION {Around(f, q, s) : s \in Longest(a, b, q)}
MatchFcn(a, b) == CHOOSE f : f = [q \in Area |-> Matches(f, a, b, q)]

LEMMA MatchingIsMatchFcn ==
  \A a, b : Matching(a, b) = MatchFcn(a, b)[<<1, Len(a), 1, Len(b)>>]
BY DEF Matching, MatchFcn, Matches

\* A measure of areas that is never negative.
Extent(q) == MaxLen + 1 + q[2] - q[1]

LEMMA Extents ==
  ASSUME NEW q \in Area
  PROVE  /\ q[1] \in 1 .. MaxLen + 1 /\ q[2] \in 0 .. MaxLen
         /\ q[3] \in 1 .. MaxLen + 1 /\ q[4] \in 0 .. MaxLen
         /\ q = <<q[1], q[2], q[3], q[4]>>
         /\ Extent(q) \in Nat /\ Extent(q) < 2 * MaxLen + 2 /\ MaxLen \in Nat
<1>1. MaxLen \in Nat BY FileAssumption
<1>2. /\ q[1] \in 1 .. MaxLen + 1 /\ q[2] \in 0 .. MaxLen
      /\ q[3] \in 1 .. MaxLen + 1 /\ q[4] \in 0 .. MaxLen
      /\ q = <<q[1], q[2], q[3], q[4]>>
  BY DEF Area
<1> QED BY <1>1, <1>2 DEF Extent

LEMMA BlocksAre ==
  ASSUME NEW a, NEW b, NEW q \in Area, NEW s \in Longest(a, b, q)
  PROVE  /\ s[1] \in q[1] .. q[2] /\ s[2] \in q[3] .. q[4] /\ s[3] \in 1 .. MaxLen
         /\ s[1] + s[3] - 1 <= q[2] /\ s[2] + s[3] - 1 <= q[4]
         /\ \A d \in 0 .. s[3] - 1 : a[s[1] + d] = b[s[2] + d]
<1>1. /\ s \in (q[1] .. q[2]) \X (q[3] .. q[4]) \X (1 .. MaxLen)
      /\ s[1] + s[3] - 1 <= q[2] /\ s[2] + s[3] - 1 <= q[4]
      /\ Block(a, b, s[1], s[2], s[3])
  BY DEF Longest
<1> QED BY <1>1 DEF Block

\* What is before a block and what is after it are smaller areas.
LEMMA AreasBeside ==
  ASSUME NEW a, NEW b, NEW q \in Area, NEW s \in Longest(a, b, q)
  PROVE  LET before == <<q[1], s[1] - 1, q[3], s[2] - 1>>
             after == <<s[1] + s[3], q[2], s[2] + s[3], q[4]>>
         IN  /\ before \in Area /\ Extent(before) < Extent(q)
             /\ after \in Area /\ Extent(after) < Extent(q)
<1>1. /\ s[1] \in q[1] .. q[2] /\ s[2] \in q[3] .. q[4] /\ s[3] \in 1 .. MaxLen
      /\ s[1] + s[3] - 1 <= q[2] /\ s[2] + s[3] - 1 <= q[4]
  BY BlocksAre
<1>2. /\ q[1] \in 1 .. MaxLen + 1 /\ q[2] \in 0 .. MaxLen
      /\ q[3] \in 1 .. MaxLen + 1 /\ q[4] \in 0 .. MaxLen /\ MaxLen \in Nat
  BY Extents
<1>3. /\ s[1] - 1 \in 0 .. MaxLen /\ s[2] - 1 \in 0 .. MaxLen
      /\ s[1] + s[3] \in 1 .. MaxLen + 1 /\ s[2] + s[3] \in 1 .. MaxLen + 1
  BY <1>1, <1>2
<1>4. /\ <<q[1], s[1] - 1, q[3], s[2] - 1>> \in Area
      /\ <<s[1] + s[3], q[2], s[2] + s[3], q[4]>> \in Area
  BY <1>2, <1>3 DEF Area
<1>5. MaxLen + 1 + (s[1] - 1) - q[1] < MaxLen + 1 + q[2] - q[1] BY <1>1, <1>2
<1>6. MaxLen + 1 + q[2] - (s[1] + s[3]) < MaxLen + 1 + q[2] - q[1] BY <1>1, <1>2
<1>7. /\ Extent(<<q[1], s[1] - 1, q[3], s[2] - 1>>) = MaxLen + 1 + (s[1] - 1) - q[1]
      /\ Extent(<<s[1] + s[3], q[2], s[2] + s[3], q[4]>>) = MaxLen + 1 + q[2] - (s[1] + s[3])
      /\ Extent(q) = MaxLen + 1 + q[2] - q[1]
  BY DEF Extent
<1> QED BY <1>4, <1>5, <1>6, <1>7

\* What matches in an area depends on smaller areas only.
LEMMA SmallerDecide ==
  ASSUME NEW a, NEW b, NEW q \in Area, NEW f, NEW g,
         \A r \in Area : Extent(r) < Extent(q) => f[r] = g[r]
  PROVE  Matches(f, a, b, q) = Matches(g, a, b, q)
<1>1. ASSUME NEW s \in Longest(a, b, q) PROVE Around(f, q, s) = Around(g, q, s)
  BY AreasBeside DEF Around
<1> QED BY <1>1 DEF Matches

DecidedBelow(f, n, a, b) ==
  \A q \in Area : Extent(q) < n => f[q] = Matches(f, a, b, q)

LEMMA OneMore ==
  ASSUME NEW a, NEW b, NEW n \in Nat, NEW f, DecidedBelow(f, n, a, b)
  PROVE  DecidedBelow([q \in Area |-> Matches(f, a, b, q)], n + 1, a, b)
<1> DEFINE h == [q \in Area |-> Matches(f, a, b, q)]
<1> SUFFICES ASSUME NEW q \in Area, Extent(q) < n + 1 PROVE h[q] = Matches(h, a, b, q)
  BY DEF DecidedBelow
<1>1. ASSUME NEW r \in Area, Extent(r) < Extent(q) PROVE f[r] = h[r]
 <2>1. Extent(r) < n BY <1>1, Extents
 <2> QED BY <2>1 DEF DecidedBelow
<1>2. h[q] = Matches(f, a, b, q) OBVIOUS
<1>3. \A r \in Area : Extent(r) < Extent(q) => f[r] = h[r] BY <1>1
<1> HIDE DEF h
<1>4. Matches(f, a, b, q) = Matches(h, a, b, q) BY <1>3, SmallerDecide
<1> QED BY <1>2, <1>4

\* Of natural numbers there is a least.
LEMMA LeastOfThem ==
  ASSUME NEW T \in SUBSET Nat, T # {}
  PROVE  \E n \in T : \A k \in T : n <= k
<1> DEFINE R == {p \in Nat \X Nat : p[1] < p[2]}
<1>1. IsWellFoundedOn(R, Nat) BY NatLessThanWellFounded, Zenon DEF OpToRel
<1>2. PICK n \in T : \A k \in T : ~(<<k, n>> \in R)
 <2> HIDE DEF R
 <2> QED BY <1>1, WFMin
<1>3. ASSUME NEW k \in T PROVE n <= k
 <2>1. k \in Nat /\ n \in Nat /\ ~(<<k, n>> \in R) BY <1>2
 <2> QED BY <2>1
<1> QED BY <1>2, <1>3

LEMMA AllAreDecided ==
  ASSUME NEW a, NEW b
  PROVE  \A n \in Nat : \E f : DecidedBelow(f, n, a, b)
<1> DEFINE Bad == {n \in Nat : ~\E f : DecidedBelow(f, n, a, b)}
<1> SUFFICES ASSUME Bad # {} PROVE FALSE OBVIOUS
<1>1. PICK n \in Bad : \A k \in Bad : n <= k BY LeastOfThem
<1>2. n # 0
 <2>1. ASSUME NEW f PROVE DecidedBelow(f, 0, a, b) BY Extents DEF DecidedBelow
 <2> QED BY <2>1
<1>3. n - 1 \in Nat /\ n - 1 + 1 = n BY <1>2
<1>4. n - 1 \notin Bad BY <1>1, <1>3
<1>5. PICK f : DecidedBelow(f, n - 1, a, b) BY <1>3, <1>4
<1>6. DecidedBelow([q \in Area |-> Matches(f, a, b, q)], n, a, b) BY <1>3, <1>5, OneMore
<1> QED BY <1>6

LEMMA MatchFcnIs ==
  ASSUME NEW a, NEW b
  PROVE  \A q \in Area : MatchFcn(a, b)[q] = Matches(MatchFcn(a, b), a, b, q)
<1>1. 2 * MaxLen + 2 \in Nat BY FileAssumption
<1>2. PICK f : DecidedBelow(f, 2 * MaxLen + 2, a, b) BY <1>1, AllAreDecided
<1> DEFINE h == [q \in Area |-> Matches(f, a, b, q)]
<1>3. \A q \in Area : f[q] = Matches(f, a, b, q) BY <1>2, Extents DEF DecidedBelow
<1>4. \A q \in Area : f[q] = h[q] BY <1>3
<1>5. ASSUME NEW q \in Area PROVE Matches(f, a, b, q) = Matches(h, a, b, q)
 <2> HIDE DEF h
 <2> QED BY <1>4, SmallerDecide
<1>6. h = [q \in Area |-> Matches(h, a, b, q)]
 <2> DEFINE g == [q \in Area |-> Matches(h, a, b, q)]
 <2>1. \A q \in Area : g[q] = h[q] BY <1>5
 <2> QED BY <1>5
<1>7. \E g : g = [q \in Area |-> Matches(g, a, b, q)] BY <1>6
<1>8. MatchFcn(a, b) = [q \in Area |-> Matches(MatchFcn(a, b), a, b, q)]
  BY <1>7 DEF MatchFcn
<1> QED BY <1>8

\* Every pair is of two lines of the area with one text.
Paired(p, a, b, q) ==
  p = <<p[1], p[2]>> /\ p[1] \in q[1] .. q[2] /\ p[2] \in q[3] .. q[4] /\ a[p[1]] = b[p[2]]

LEMMA PairsAre ==
  ASSUME NEW a, NEW b, NEW q \in Area
  PROVE  \A p \in MatchFcn(a, b)[q] : Paired(p, a, b, q)
<1> DEFINE M == MatchFcn(a, b)
           Bad == {n \in Nat : \E r \in Area : Extent(r) = n /\ \E p \in M[r] : ~Paired(p, a, b, r)}
<1>1. Bad = {}
 <2> SUFFICES ASSUME Bad # {} PROVE FALSE OBVIOUS
 <2>1. PICK n \in Bad : \A k \in Bad : n <= k BY LeastOfThem
 <2>a. PICK r \in Area : Extent(r) = n /\ \E p \in M[r] : ~Paired(p, a, b, r) BY <2>1
 <2>2. PICK p \in M[r] : Extent(r) = n /\ ~Paired(p, a, b, r) BY <2>a
 <2>3. ASSUME NEW t \in Area, Extent(t) < n PROVE \A x \in M[t] : Paired(x, a, b, t)
  <3>1. Extent(t) \in Nat /\ n \in Nat BY Extents
  <3>2. Extent(t) \notin Bad BY <2>1, <2>3, <3>1
  <3> QED BY <3>1, <3>2
 <2>4. M[r] = Matches(M, a, b, r) BY MatchFcnIs
 <2> HIDE DEF M, Bad
 <2>5. PICK s \in Longest(a, b, r) : p \in Around(M, r, s) BY <2>2, <2>4 DEF Matches
 <2>6. /\ s[1] \in r[1] .. r[2] /\ s[2] \in r[3] .. r[4] /\ s[3] \in 1 .. MaxLen
       /\ s[1] + s[3] - 1 <= r[2] /\ s[2] + s[3] - 1 <= r[4]
       /\ \A d \in 0 .. s[3] - 1 : a[s[1] + d] = b[s[2] + d]
   BY BlocksAre
 <2>7. /\ r[1] \in Int /\ r[2] \in Int /\ r[3] \in Int /\ r[4] \in Int
       /\ s[1] \in Int /\ s[2] \in Int /\ s[3] \in Int
   BY <2>6, Extents
 <2>8. CASE \E d \in 0 .. s[3] - 1 : p = <<s[1] + d, s[2] + d>>
  <3>1. PICK d \in 0 .. s[3] - 1 : p = <<s[1] + d, s[2] + d>> BY <2>8
  <3>2. p[1] = s[1] + d /\ p[2] = s[2] + d /\ p = <<p[1], p[2]>> BY <3>1
  <3>3. s[1] + d \in r[1] .. r[2] /\ s[2] + d \in r[3] .. r[4] BY <2>6, <2>7
  <3> QED BY <2>2, <2>6, <3>2, <3>3 DEF Paired
 <2>9. CASE p \in M[<<r[1], s[1] - 1, r[3], s[2] - 1>>]
  <3> DEFINE t == <<r[1], s[1] - 1, r[3], s[2] - 1>>
  <3>1. t \in Area /\ Extent(t) < n BY <2>2, AreasBeside
  <3>2. t[1] = r[1] /\ t[2] = s[1] - 1 /\ t[3] = r[3] /\ t[4] = s[2] - 1 OBVIOUS
  <3> HIDE DEF t
  <3>3. Paired(p, a, b, t) BY <2>3, <2>9, <3>1 DEF t
  <3>4. p[1] \in r[1] .. r[2] /\ p[2] \in r[3] .. r[4] BY <2>6, <2>7, <3>2, <3>3 DEF Paired
  <3> QED BY <2>2, <3>3, <3>4 DEF Paired
 <2>10. CASE p \in M[<<s[1] + s[3], r[2], s[2] + s[3], r[4]>>]
  <3> DEFINE t == <<s[1] + s[3], r[2], s[2] + s[3], r[4]>>
  <3>1. t \in Area /\ Extent(t) < n BY <2>2, AreasBeside
  <3>2. t[1] = s[1] + s[3] /\ t[2] = r[2] /\ t[3] = s[2] + s[3] /\ t[4] = r[4] OBVIOUS
  <3> HIDE DEF t
  <3>3. Paired(p, a, b, t) BY <2>3, <2>10, <3>1 DEF t
  <3>4. p[1] \in r[1] .. r[2] /\ p[2] \in r[3] .. r[4]
    BY <2>6, <2>7, <3>2, <3>3, Extents DEF Paired
  <3> QED BY <2>2, <3>3, <3>4 DEF Paired
 <2> QED BY <2>5, <2>8, <2>9, <2>10 DEF Around
<1>2. Extent(q) \in Nat BY Extents
<1> QED BY <1>1, <1>2

Text == {t \in Seq(Line) : Len(t) <= MaxLen}

LEMMA MatchingPairs ==
  ASSUME NEW a \in Text, NEW b \in Text, NEW p \in Matching(a, b)
  PROVE  /\ p = <<p[1], p[2]>> /\ p[1] \in 1 .. Len(a) /\ p[2] \in 1 .. Len(b)
         /\ a[p[1]] = b[p[2]]
<1> DEFINE q == <<1, Len(a), 1, Len(b)>>
<1>1. Len(a) \in 0 .. MaxLen /\ Len(b) \in 0 .. MaxLen /\ 1 \in 1 .. MaxLen + 1
  BY FileAssumption DEF Text
<1>2. q \in Area BY <1>1 DEF Area
<1>3. p \in MatchFcn(a, b)[q] BY MatchingIsMatchFcn
<1>4. q[1] = 1 /\ q[2] = Len(a) /\ q[3] = 1 /\ q[4] = Len(b) OBVIOUS
<1> HIDE DEF q
<1>5. Paired(p, a, b, q) BY <1>2, <1>3, PairsAre
<1> QED BY <1>4, <1>5 DEF Paired

-----------------------------------------------------------------------------
(* Hunks. *)

HunkShape == [first : Int, last : Int, body : Seq(Line), anchors : SUBSET Nat]

\* A hunk that is within a text of n lines.
Within(h, n) ==
  /\ h \in HunkShape /\ 1 <= h.first /\ h.first <= n + 1
  /\ h.first - 1 <= h.last /\ h.last <= n

More(h) == Len(h.body) - (h.last - h.first + 1)

LEMMA JoinIs ==
  ASSUME NEW x \in Seq(Line), NEW y \in Seq(Line)
  PROVE  /\ x \o y \in Seq(Line) /\ Len(x \o y) = Len(x) + Len(y)
         /\ \A i \in 1 .. Len(x) : (x \o y)[i] = x[i]
         /\ \A i \in 1 .. Len(y) : (x \o y)[Len(x) + i] = y[i]
<1>1. Len(x) \in Nat /\ Len(y) \in Nat BY LenProperties
<1>2. /\ x \o y \in Seq(Line) /\ Len(x \o y) = Len(x) + Len(y)
      /\ \A i \in 1 .. Len(x) + Len(y) :
           (x \o y)[i] = IF i <= Len(x) THEN x[i] ELSE y[i - Len(x)]
  BY ConcatProperties
<1>3. ASSUME NEW i \in 1 .. Len(y) PROVE (x \o y)[Len(x) + i] = y[i]
 <2>1. Len(x) + i \in 1 .. Len(x) + Len(y) /\ ~(Len(x) + i <= Len(x)) /\ Len(x) + i - Len(x) = i
   BY <1>1
 <2> QED BY <1>2, <2>1
<1>4. ASSUME NEW i \in 1 .. Len(x) PROVE (x \o y)[i] = x[i]
 <2>1. i \in 1 .. Len(x) + Len(y) /\ i <= Len(x) BY <1>1
 <2> QED BY <1>2, <2>1
<1> QED BY <1>2, <1>3, <1>4

LEMMA SpliceIs ==
  ASSUME NEW t \in Seq(Line), NEW h, Within(h, Len(t))
  PROVE  /\ Splice(t, h) \in Seq(Line) /\ More(h) \in Int
         /\ Len(Splice(t, h)) = Len(t) + More(h) /\ Len(t) + More(h) >= h.first - 1
         /\ \A n \in 1 .. Len(t) : n < h.first => Splice(t, h)[n] = t[n]
         /\ \A n \in 1 .. Len(t) : h.last < n =>
              n + More(h) \in 1 .. Len(Splice(t, h)) /\ Splice(t, h)[n + More(h)] = t[n]
<1>1. /\ h.first \in Int /\ h.last \in Int /\ h.body \in Seq(Line) /\ 1 <= h.first
      /\ h.first <= Len(t) + 1 /\ h.first - 1 <= h.last /\ h.last <= Len(t)
  BY DEF Within, HunkShape
<1>2. PICK k \in Nat : k = h.first - 1 BY <1>1
<1>3. PICK l \in Nat : l = h.last BY <1>1
<1>4. PICK n \in Nat : n = Len(t) BY LenProperties
<1>5. PICK m \in Nat : m = Len(h.body) BY <1>1, LenProperties
<1>6. k <= n /\ k <= l /\ l <= n BY <1>1, <1>2, <1>3, <1>4
<1> DEFINE x == SubSeq(t, 1, k)
           z == SubSeq(t, l + 1, n)
<1>7. x \in Seq(Line) /\ Len(x) = k /\ \A i \in 1 .. k : x[i] = t[i] BY <1>4, <1>6
<1>8. z \in Seq(Line) /\ Len(z) = n - l /\ \A i \in 1 .. n - l : z[i] = t[l + i]
  BY <1>4, <1>6
<1>9. Splice(t, h) = x \o h.body \o z BY <1>2, <1>3, <1>4 DEF Splice
<1> HIDE DEF x, z
<1>10. /\ x \o h.body \in Seq(Line) /\ Len(x \o h.body) = k + m
       /\ \A i \in 1 .. k : (x \o h.body)[i] = t[i]
  BY <1>1, <1>5, <1>7, JoinIs
<1> DEFINE y == x \o h.body
<1> HIDE DEF y
<1>11. /\ y \o z \in Seq(Line) /\ Len(y \o z) = k + m + (n - l)
       /\ \A i \in 1 .. k : (y \o z)[i] = t[i]
       /\ \A i \in 1 .. n - l : (y \o z)[k + m + i] = t[l + i]
 <2>1. y \in Seq(Line) /\ Len(y) = k + m /\ \A i \in 1 .. k : y[i] = t[i] BY <1>10 DEF y
 <2>2. /\ y \o z \in Seq(Line) /\ Len(y \o z) = Len(y) + Len(z)
       /\ \A i \in 1 .. Len(y) : (y \o z)[i] = y[i]
       /\ \A i \in 1 .. Len(z) : (y \o z)[Len(y) + i] = z[i]
   BY <1>8, <2>1, JoinIs
 <2>3. \A i \in 1 .. k : i \in 1 .. Len(y) BY <1>5, <2>1
 <2> QED BY <1>8, <2>1, <2>2, <2>3
<1>12. More(h) = m - (l - k) /\ More(h) \in Int BY <1>1, <1>2, <1>3, <1>5, SMTT(30) DEF More
<1>13. ASSUME NEW i \in 1 .. n, l < i
       PROVE  /\ i + More(h) \in 1 .. k + m + (n - l)
              /\ (y \o z)[i + More(h)] = t[i]
 <2>1. PICK j \in 1 .. n - l : i = l + j BY <1>6, <1>13
 <2>2. i + More(h) = k + m + j BY <1>6, <1>12, <2>1
 <2> QED BY <1>6, <1>11, <2>1, <2>2
<1> QED
 <2>1. Splice(t, h) = y \o z BY <1>9 DEF y
 <2> DEFINE r == y \o z
 <2> HIDE DEF r
 <2>2. /\ r \in Seq(Line) /\ Len(r) = k + m + (n - l) /\ \A i \in 1 .. k : r[i] = t[i]
       /\ \A i \in 1 .. n : l < i => i + More(h) \in 1 .. Len(r) /\ r[i + More(h)] = t[i]
   BY <1>11, <1>13 DEF r
 <2>3. Len(r) = n + More(h) /\ n + More(h) >= h.first - 1
   BY <1>2, <1>6, <1>12, <2>2, SMTT(30)
 <2>4. \A i \in 1 .. n : i < h.first => i \in 1 .. k BY <1>1, <1>2
 <2> QED BY <1>3, <1>4, <1>12, <2>1, <2>2, <2>3, <2>4 DEF r

\* Two hunks, the later one first: the earlier one is where it was, and each line that neither
\* names is moved by what the hunks before it add.
LEMMA SpliceTwice ==
  ASSUME NEW t \in Seq(Line), NEW g, NEW h, Within(g, Len(t)), Within(h, Len(t)),
         Disjoint(g, h), g.first > h.first
  PROVE  /\ Splice(Splice(t, g), h) \in Seq(Line)
         /\ \A n \in 1 .. Len(t) :
              ~(g.first <= n /\ n <= g.last) /\ ~(h.first <= n /\ n <= h.last) =>
                Splice(Splice(t, g), h)[n + Growth(g, n) + Growth(h, n)] = t[n]
<1>1. /\ g.first \in Int /\ g.last \in Int /\ h.first \in Int /\ h.last \in Int
      /\ 1 <= h.first /\ g.first <= Len(t) + 1
      /\ h.first - 1 <= h.last /\ g.first - 1 <= g.last /\ h \in HunkShape /\ Len(t) \in Nat
  BY LenProperties DEF Within, HunkShape
<1>2. h.last < g.first BY <1>1 DEF Disjoint
<1> DEFINE u == Splice(t, g)
<1>3. /\ u \in Seq(Line) /\ More(g) \in Int /\ Len(u) = Len(t) + More(g) /\ Len(u) >= g.first - 1
      /\ \A n \in 1 .. Len(t) : n < g.first => u[n] = t[n]
      /\ \A n \in 1 .. Len(t) : g.last < n =>
           n + More(g) \in 1 .. Len(u) /\ u[n + More(g)] = t[n]
  BY SpliceIs
<1> HIDE DEF u
<1>4. Len(u) \in Nat BY <1>3, LenProperties
<1>5. Within(h, Len(u)) BY <1>1, <1>2, <1>3, <1>4 DEF Within
<1> DEFINE v == Splice(u, h)
<1>6. /\ v \in Seq(Line) /\ More(h) \in Int
      /\ \A n \in 1 .. Len(u) : n < h.first => v[n] = u[n]
      /\ \A n \in 1 .. Len(u) : h.last < n => v[n + More(h)] = u[n]
  BY <1>3, <1>5, SpliceIs
<1> HIDE DEF v
<1>7. ASSUME NEW n \in 1 .. Len(t),
             ~(g.first <= n /\ n <= g.last), ~(h.first <= n /\ n <= h.last)
      PROVE  v[n + Growth(g, n) + Growth(h, n)] = t[n]
 <2>1. n \in Int /\ 1 <= n /\ n <= Len(t) BY <1>1
 <2>2. CASE n < h.first
  <3>1. Growth(g, n) = 0 /\ Growth(h, n) = 0 BY <1>1, <2>1, <2>2 DEF Growth
  <3>2. n < g.first /\ n \in 1 .. Len(u) BY <1>1, <1>3, <1>4, <2>1, <2>2
  <3>3. v[n] = t[n] BY <1>3, <1>6, <2>2, <3>2
  <3> QED BY <2>1, <3>1, <3>3
 <2>3. CASE h.last < n /\ n < g.first
  <3>1. Growth(g, n) = 0 /\ Growth(h, n) = More(h) BY <1>1, <2>1, <2>3 DEF Growth, More
  <3>2. n \in 1 .. Len(u) BY <1>1, <1>3, <1>4, <2>1, <2>3
  <3>3. v[n + More(h)] = t[n] BY <1>3, <1>6, <2>3, <3>2
  <3> QED BY <1>6, <2>1, <3>1, <3>3
 <2>4. CASE g.last < n
  <3>1. Growth(g, n) = More(g) /\ Growth(h, n) = More(h)
    BY <1>1, <1>2, <2>1, <2>4 DEF Growth, More
  <3>2. n + More(g) \in 1 .. Len(u) /\ u[n + More(g)] = t[n] BY <1>3, <2>4
  <3>3. h.last < n + More(g)
   <4>1. Len(g.body) \in Nat BY LenProperties DEF Within, HunkShape
   <4> QED BY <1>1, <1>2, <2>1, <2>4, <4>1, SMTT(30) DEF More
  <3>4. v[n + More(g) + More(h)] = t[n] BY <1>6, <3>2, <3>3
  <3> QED BY <3>1, <3>4
 <2> QED BY <1>1, <1>7, <2>1, <2>2, <2>3, <2>4
<1> QED BY <1>6, <1>7 DEF u, v

\* What the property says of the lines that no hunk names.
OthersStay(t, u, hs) ==
  \A n \in DOMAIN t :
    \/ \E h \in hs : h.first <= n /\ n <= h.last
    \/ \A g, h \in hs : hs = {g, h} =>
         LET by == IF g = h THEN Growth(g, n) ELSE Growth(g, n) + Growth(h, n)
         IN  u[n + by] = t[n]

LEMMA ApplyKeepsOthers ==
  ASSUME NEW t \in Seq(Line), NEW g, NEW h, Within(g, Len(t)), Within(h, Len(t)),
         g = h \/ Disjoint(g, h)
  PROVE  Apply(t, g, h) \in Seq(Line) /\ OthersStay(t, Apply(t, g, h), {g, h})
<1>1. g.first \in Int /\ h.first \in Int /\ DOMAIN t = 1 .. Len(t) /\ Len(t) \in Nat
  BY LenProperties DEF Within, HunkShape
<1>2. CASE g = h
 <2>1. Apply(t, g, h) = Splice(t, g) BY <1>1, <1>2 DEF Apply
 <2>2. /\ Splice(t, g) \in Seq(Line) /\ More(g) \in Int
       /\ \A n \in 1 .. Len(t) : n < g.first => Splice(t, g)[n] = t[n]
       /\ \A n \in 1 .. Len(t) : g.last < n => Splice(t, g)[n + More(g)] = t[n]
   BY SpliceIs
 <2>3. g.last \in Int /\ g.first - 1 <= g.last BY DEF Within, HunkShape
 <2>4. ASSUME NEW n \in DOMAIN t, ~(g.first <= n /\ n <= g.last)
       PROVE  Splice(t, g)[n + Growth(g, n)] = t[n]
  <3>1. n \in 1 .. Len(t) /\ n \in Int BY <1>1
  <3>2. CASE n < g.first
   <4>1. Growth(g, n) = 0 BY <1>1, <3>1, <3>2 DEF Growth
   <4> QED BY <2>2, <3>1, <3>2, <4>1
  <3>3. CASE g.last < n
   <4>1. Growth(g, n) = More(g) BY <1>1, <2>3, <3>1, <3>3 DEF Growth, More
   <4> QED BY <2>2, <3>1, <3>3, <4>1
  <3> QED BY <1>1, <2>3, <2>4, <3>1, <3>2, <3>3
 <2>5. OthersStay(t, Splice(t, g), {g, h}) BY <1>2, <2>4 DEF OthersStay
 <2> QED BY <2>1, <2>2, <2>5
<1>3. ASSUME NEW x, NEW y, {x, y} = {g, h}, Disjoint(x, y), x.first > y.first,
             Within(x, Len(t)), Within(y, Len(t)), Apply(t, g, h) = Splice(Splice(t, x), y)
      PROVE  Apply(t, g, h) \in Seq(Line) /\ OthersStay(t, Apply(t, g, h), {g, h})
 <2> DEFINE u == Splice(Splice(t, x), y)
 <2>1. /\ u \in Seq(Line)
       /\ \A n \in 1 .. Len(t) :
            ~(x.first <= n /\ n <= x.last) /\ ~(y.first <= n /\ n <= y.last) =>
              u[n + Growth(x, n) + Growth(y, n)] = t[n]
   BY <1>3, SpliceTwice
 <2> HIDE DEF u
 <2>2. x # y BY <1>3 DEF Disjoint
 <2>3. ASSUME NEW n \in DOMAIN t, ~\E k \in {g, h} : k.first <= n /\ n <= k.last,
              NEW a \in {g, h}, NEW b \in {g, h}, {g, h} = {a, b}
       PROVE  a # b /\ u[n + (Growth(a, n) + Growth(b, n))] = t[n]
  <3>1. (a = x /\ b = y) \/ (a = y /\ b = x) BY <1>3, <2>2, <2>3
  <3>2. u[n + Growth(x, n) + Growth(y, n)] = t[n] BY <1>1, <1>3, <2>1, <2>3
  <3>3. n \in Int /\ Growth(x, n) \in Int /\ Growth(y, n) \in Int
   <4>1. ASSUME NEW k, Within(k, Len(t)) PROVE Growth(k, n) \in Int
    <5>1. k.first \in Int /\ k.last \in Int /\ Len(k.body) \in Nat
      BY <4>1, LenProperties DEF Within, HunkShape
    <5> QED BY <5>1 DEF Growth
   <4> QED BY <1>1, <1>3, <4>1
  <3>4. /\ n + Growth(x, n) + Growth(y, n) = n + (Growth(x, n) + Growth(y, n))
        /\ n + Growth(x, n) + Growth(y, n) = n + (Growth(y, n) + Growth(x, n))
    BY <3>3
  <3> QED BY <2>2, <3>1, <3>2, <3>4
 <2>4. OthersStay(t, u, {g, h}) BY <2>3 DEF OthersStay
 <2> QED BY <1>3, <2>1, <2>4 DEF u
<1>4. CASE g # h /\ g.first > h.first
 <2>1. Apply(t, g, h) = Splice(Splice(t, g), h) BY <1>1, <1>4 DEF Apply
 <2> QED BY <1>3, <1>4, <2>1
<1>5. CASE g # h /\ g.first < h.first
 <2>1. Apply(t, g, h) = Splice(Splice(t, h), g) BY <1>1, <1>5 DEF Apply
 <2>2. Disjoint(h, g) /\ {h, g} = {g, h} /\ h.first > g.first BY <1>1, <1>5 DEF Disjoint
 <2> QED BY <1>3, <2>1, <2>2
<1> QED BY <1>1, <1>2, <1>4, <1>5 DEF Disjoint

LEMMA TextIs ==
  ASSUME NEW t \in Text
  PROVE  /\ t \in Seq(Line) /\ Len(t) \in Nat /\ DOMAIN t = 1 .. Len(t) /\ t \in [1 .. Len(t) -> Line]
         /\ Len(t) <= MaxLen
BY LenProperties DEF Text

\* The anchors of a hunk: the lines of its range, or the line before or after which it inserts.
Anchored(h, n) ==
  /\ h.anchors \subseteq 1 .. n
  /\ \A k \in h.anchors : h.first - 1 <= k /\ k <= h.last + 1
  /\ h.anchors # {} =>
       \/ h.first \in h.anchors /\ h.last \in h.anchors
       \/ h.first \in h.anchors /\ h.last = h.first - 1
       \/ h.last \in h.anchors /\ h.last = h.first - 1

LEMMA HunkIs ==
  ASSUME NEW i \in Int, NEW j \in Int, NEW body \in Seq(Line), NEW anchors \in SUBSET Nat
  PROVE  /\ Hunk(i, j, body, anchors) \in HunkShape
         /\ Hunk(i, j, body, anchors).first = i /\ Hunk(i, j, body, anchors).last = j
         /\ Hunk(i, j, body, anchors).anchors = anchors
BY DEF Hunk, HunkShape

LEMMA PutsAre ==
  ASSUME NEW i \in Int, NEW j \in Int, NEW anchors \in SUBSET Nat, NEW h \in PutHunks(i, j, anchors)
  PROVE  h \in HunkShape /\ h.first = i /\ h.last = j /\ h.anchors = anchors
<1>1. PICK l \in Line : h = Hunk(i, j, <<l>>, anchors) BY DEF PutHunks
<1>2. PICK body \in Seq(Line) : body = <<l>>
 <2>1. <<l>> \in Seq(Line) OBVIOUS
 <2> QED BY <2>1, Zenon
<1>3. h = Hunk(i, j, body, anchors) BY <1>1, <1>2
<1> QED BY <1>3, HunkIs

LEMMA HunksAreWithin ==
  ASSUME NEW n \in Nat, NEW h \in Hunks(n)
  PROVE  Within(h, n) /\ Anchored(h, n)
<1>1. ASSUME NEW r \in Ranges(n), h \in PutHunks(r[1], r[2], r[1] .. r[2]) \union {CutHunk(r[1], r[2])}
      PROVE  Within(h, n) /\ Anchored(h, n)
 <2>1. /\ r[1] \in Int /\ r[2] \in Int /\ 1 <= r[1] /\ r[1] <= r[2] /\ r[2] <= n
       /\ r[1] .. r[2] \in SUBSET Nat
   BY DEF Ranges
 <2>2. PICK none \in Seq(Line) : none = <<>>
  <3>1. <<>> \in Seq(Line) OBVIOUS
  <3> QED BY <3>1, Zenon
 <2>3. h \in HunkShape /\ h.first = r[1] /\ h.last = r[2] /\ h.anchors = r[1] .. r[2]
  <3>1. CASE h \in PutHunks(r[1], r[2], r[1] .. r[2]) BY <2>1, <3>1, PutsAre
  <3>2. CASE h = CutHunk(r[1], r[2])
   <4>1. h = Hunk(r[1], r[2], none, r[1] .. r[2]) BY <2>2, <3>2 DEF CutHunk
   <4> QED BY <2>1, <4>1, HunkIs
  <3> QED BY <1>1, <3>1, <3>2
 <2> QED BY <2>1, <2>3 DEF Within, Anchored
<1>2. ASSUME NEW i \in 2 .. n, h \in PutHunks(i, i - 1, {i}) PROVE Within(h, n) /\ Anchored(h, n)
 <2>1. i \in Int /\ i - 1 \in Int /\ 2 <= i /\ i <= n /\ {i} \in SUBSET Nat OBVIOUS
 <2>2. h \in HunkShape /\ h.first = i /\ h.last = i - 1 /\ h.anchors = {i}
   BY <1>2, <2>1, PutsAre
 <2> QED BY <2>1, <2>2 DEF Within, Anchored
<1>3. ASSUME NEW i \in 1 .. n, h \in PutHunks(i + 1, i, {i}) PROVE Within(h, n) /\ Anchored(h, n)
 <2>1. i \in Int /\ i + 1 \in Int /\ 1 <= i /\ i <= n /\ {i} \in SUBSET Nat OBVIOUS
 <2>2. h \in HunkShape /\ h.first = i + 1 /\ h.last = i /\ h.anchors = {i}
   BY <1>3, <2>1, PutsAre
 <2> QED BY <2>1, <2>2 DEF Within, Anchored
<1>4. ASSUME NEW i \in Int, NEW j \in Int, j = i - 1, 1 <= i, i <= n + 1, h \in PutHunks(i, j, {})
      PROVE  Within(h, n) /\ Anchored(h, n)
 <2>1. PICK none \in SUBSET Nat : none = {} OBVIOUS
 <2>2. h \in PutHunks(i, j, none) BY <1>4, <2>1
 <2>3. h \in HunkShape /\ h.first = i /\ h.last = j /\ h.anchors = {} BY <2>1, <2>2, PutsAre
 <2> QED BY <1>4, <2>3 DEF Within, Anchored
<1>5. \/ \E r \in Ranges(n) : h \in PutHunks(r[1], r[2], r[1] .. r[2]) \union {CutHunk(r[1], r[2])}
      \/ \E i \in 2 .. n : h \in PutHunks(i, i - 1, {i})
      \/ \E i \in 1 .. n : h \in PutHunks(i + 1, i, {i})
      \/ h \in PutHunks(1, 0, {}) \/ h \in PutHunks(n + 1, n, {})
  BY DEF Hunks
<1>6. /\ 1 \in Int /\ 0 \in Int /\ n + 1 \in Int /\ n \in Int /\ 0 = 1 - 1 /\ n = n + 1 - 1
      /\ 1 <= 1 /\ 1 <= n + 1 /\ n + 1 <= n + 1
  OBVIOUS
<1>7. CASE h \in PutHunks(1, 0, {}) BY <1>4, <1>6, <1>7
<1>8. CASE h \in PutHunks(n + 1, n, {}) BY <1>4, <1>6, <1>8
<1> QED BY <1>1, <1>2, <1>3, <1>5, <1>7, <1>8

LEMMA MovedIs ==
  ASSUME NEW h \in HunkShape, NEW by \in Int
  PROVE  /\ Moved(h, by) \in HunkShape
         /\ Moved(h, by).first = h.first + by /\ Moved(h, by).last = h.last + by
<1>a. h = [first |-> h.first, last |-> h.last, body |-> h.body, anchors |-> h.anchors]
      /\ h.first \in Int /\ h.last \in Int /\ h.body \in Seq(Line) /\ h.anchors \in SUBSET Nat
  BY DEF HunkShape
<1>b. PICK g : g = [h EXCEPT !.first = h.first + by] OBVIOUS
<1>c. g = [first |-> h.first + by, last |-> h.last, body |-> h.body, anchors |-> h.anchors]
  BY <1>a, <1>b
<1>d. Moved(h, by) = [g EXCEPT !.last = h.last + by] BY <1>a, <1>b DEF Moved
<1>1. Moved(h, by) = [first |-> h.first + by, last |-> h.last + by, body |-> h.body,
                      anchors |-> h.anchors]
  BY <1>c, <1>d
<1> QED BY <1>1, <1>a DEF HunkShape

LEMMA PositionIs ==
  ASSUME NEW old \in Text, NEW new \in Text, NEW k, Found(old, new, k)
  PROVE  Position(old, new, k) \in 1 .. Len(new) /\ new[Position(old, new, k)] = old[k]
<1>1. PICK p \in Matching(old, new) : p[1] = k BY DEF Found
<1>2. p = <<k, p[2]>> /\ p[2] \in 1 .. Len(new) BY <1>1, MatchingPairs
<1>3. DOMAIN new = 1 .. Len(new) BY TextIs
<1>4. p[2] \in DOMAIN new /\ <<k, p[2]>> \in Matching(old, new) BY <1>1, <1>2, <1>3
<1> DEFINE j == Position(old, new, k)
<1>5. j \in DOMAIN new /\ <<k, j>> \in Matching(old, new) BY <1>4 DEF Position
<1> HIDE DEF j
<1>6. old[<<k, j>>[1]] = new[<<k, j>>[2]] BY <1>5, MatchingPairs
<1> QED BY <1>3, <1>5, <1>6 DEF j

\* A hunk that can be recovered is moved to where its lines are.
LEMMA RecoveredIsWithin ==
  ASSUME NEW old \in Text, NEW new \in Text, NEW h \in Hunks(Len(old)), Recoverable(old, new, h)
  PROVE  Within(Moved(h, Shift(old, new, h)), Len(new))
<1>1. /\ Within(h, Len(old)) /\ Anchored(h, Len(old)) /\ Len(old) \in Nat /\ Len(new) \in Nat
  BY HunksAreWithin, TextIs
<1>2. /\ h \in HunkShape /\ h.first \in Int /\ h.last \in Int /\ h.first - 1 <= h.last
      /\ h.anchors \subseteq 1 .. Len(old) /\ h.anchors # {}
  BY <1>1 DEF Within, HunkShape, Anchored, Recoverable
<1> DEFINE Pos(k) == Position(old, new, k)
           c == CHOOSE k \in h.anchors : TRUE
           by == Shift(old, new, h)
<1>3. \A k \in h.anchors : Pos(k) \in 1 .. Len(new) /\ k \in Int
  BY <1>2, PositionIs DEF Recoverable
<1>4. c \in h.anchors BY <1>2
<1>5. by = Pos(c) - c BY DEF Shift
<1>6. \A k \in h.anchors : Pos(k) - Pos(c) = k - c BY <1>4 DEF Recoverable
<1> HIDE DEF c, Pos, by
<1>7. by \in Int /\ \A k \in h.anchors : k + by \in 1 .. Len(new)
 <2>1. c \in Int /\ Pos(c) \in Int BY <1>1, <1>3, <1>4
 <2>2. ASSUME NEW k \in h.anchors PROVE k + by = Pos(k) /\ k + by \in 1 .. Len(new)
  <3>1. k \in Int /\ Pos(k) \in Int /\ Pos(k) \in 1 .. Len(new) BY <1>1, <1>3
  <3> QED BY <1>5, <1>6, <2>1, <3>1, SMTT(30)
 <2> QED BY <1>5, <2>1, <2>2
<1>8. 1 <= h.first + by /\ h.first + by <= Len(new) + 1 /\ h.last + by <= Len(new)
 <2>1. CASE h.first \in h.anchors /\ h.last \in h.anchors
   BY <1>1, <1>2, <1>7, <2>1, SMTT(30)
 <2>2. CASE h.first \in h.anchors /\ h.last = h.first - 1
   BY <1>1, <1>2, <1>7, <2>2, SMTT(30)
 <2>3. CASE h.last \in h.anchors /\ h.last = h.first - 1 BY <1>1, <1>2, <1>7, <2>3, SMTT(30)
 <2> QED BY <1>1, <1>2, <2>1, <2>2, <2>3 DEF Anchored
<1>9. Within(Moved(h, by), Len(new))
 <2>1. /\ Moved(h, by) \in HunkShape /\ Moved(h, by).first = h.first + by
       /\ Moved(h, by).last = h.last + by
   BY <1>2, <1>7, MovedIs
 <2>2. h.first + by - 1 <= h.last + by BY <1>2, <1>7
 <2> DEFINE m == Moved(h, by)
 <2> HIDE DEF m
 <2>3. m \in HunkShape /\ m.first = h.first + by /\ m.last = h.last + by BY <2>1 DEF m
 <2>4. Within(m, Len(new)) BY <1>1, <1>2, <1>7, <1>8, <2>2, <2>3 DEF Within
 <2> QED BY <2>4 DEF m
<1> QED BY <1>9 DEF by

-----------------------------------------------------------------------------
(* The inductive invariant: what is remembered of a tag was shown under it. *)

SnapshotShape == [tag : Tag, content : Text, seen : SUBSET Nat]

\* A snapshot's lines that were seen were shown under its tag, and a tag that is not ambiguous
\* has stood for this content only.
Remembered(s) ==
  /\ s.seen \subseteq DOMAIN s.content
  /\ \A n \in s.seen : <<n, s.content[n]>> \in shown[s.tag]
  /\ s.tag \notin ambiguous => firstSeen[s.tag] = {s.content}

\* What was shown under a tag that is not ambiguous is of the one content it has stood for.
ShownOfFirst(t) ==
  t \notin ambiguous =>
    \A x \in shown[t] : \E c \in firstSeen[t] : x[1] \in DOMAIN c /\ x = <<x[1], c[x[1]]>>

TagsInv ==
  /\ disk \in Text
  /\ snapshots \in Seq(SnapshotShape)
  /\ firstSeen \in [Tag -> SUBSET Text] /\ ambiguous \subseteq Tag
  /\ shown \in [Tag -> SUBSET (Nat \X Line)]
  /\ \A t \in Tag : \A c, d \in firstSeen[t] : c = d
  /\ \A i \in DOMAIN snapshots : Remembered(snapshots[i])
  /\ \A t \in Tag : ShownOfFirst(t)

HitsShown(p) ==
  \A x \in p.hits : {t \in Line : <<x[1], t>> \in shown[p.tag]} = {p.original[x[2]]}

Planned(p) ==
  /\ p.updated \in Text /\ p.seen \subseteq DOMAIN p.updated
  /\ HitsShown(p) /\ OthersStay(p.original, p.updated, p.hunks)

FileInv == TagsInv /\ (plan # NoPlan => Planned(plan))

LEMMA TagOfIsTag == \A t \in Text : TagOf(t) \in Tag
<1> SUFFICES ASSUME NEW t \in Text PROVE TagOf(t) \in Tag OBVIOUS
<1>1. PICK n \in Nat : n = Len(t) BY TextIs
<1>2. n % 2 \in 0 .. 1 OBVIOUS
<1> QED BY <1>1, <1>2 DEF TagOf, Tag

\* The snapshots afterwards are the new one and some of those before.
LEMMA NoOtherSnapshots ==
  ASSUME NEW content \in Text, NEW seen \in SUBSET Nat, snapshots \in Seq(SnapshotShape),
         Remember(content, seen)
  PROVE  LET s == [tag |-> TagOf(content), content |-> content, seen |-> seen]
         IN  snapshots' \in Seq({snapshots[i] : i \in DOMAIN snapshots} \union {s})
<1> DEFINE R == {snapshots[i] : i \in DOMAIN snapshots}
           s == [tag |-> TagOf(content), content |-> content, seen |-> seen]
           same == {i \in DOMAIN snapshots : snapshots[i].content = content}
           all == Append(Others(content), s)
<1>1. DOMAIN snapshots = 1 .. Len(snapshots) /\ Len(snapshots) \in Nat BY LenProperties
<1>2. snapshots \in Seq(R) BY <1>1
<1>3. snapshots' = Trimmed(all) BY DEF Remember
<1>4. Others(content) = IF same = {} THEN snapshots
                        ELSE RemoveAt(snapshots, CHOOSE i \in same : TRUE)
  BY DEF Others
<1> HIDE DEF R, s
<1>5. Others(content) \in Seq(R)
 <2>1. CASE same = {} BY <1>2, <1>4, <2>1
 <2>2. CASE same # {}
  <3>1. PICK i \in same : i = CHOOSE j \in same : TRUE BY <2>2
  <3>2. i \in 1 .. Len(snapshots) /\ Others(content) = RemoveAt(snapshots, i)
    BY <1>1, <1>4, <2>2, <3>1
  <3>3. SubSeq(snapshots, 1, i - 1) \in Seq(R) BY <1>1, <1>2, <3>2
  <3>4. SubSeq(snapshots, i + 1, Len(snapshots)) \in Seq(R) BY <1>1, <1>2, <3>2
  <3> QED BY <3>2, <3>3, <3>4, ConcatProperties DEF RemoveAt
 <2> QED BY <2>1, <2>2
<1>6. all \in Seq(R \union {s})
 <2>1. Others(content) \in Seq(R \union {s}) BY <1>5
 <2> QED BY <2>1
<1>7. all # <<>> BY <1>5
<1> HIDE DEF all
<1>8. Tail(all) \in Seq(R \union {s}) BY <1>6, <1>7
<1> QED BY <1>3, <1>6, <1>8 DEF Trimmed, R, s

LEMMA RememberKeeps ==
  ASSUME NEW content \in Text, NEW seen \in SUBSET Nat, seen \subseteq DOMAIN content,
         TagsInv, Remember(content, seen), disk' \in Text
  PROVE  TagsInv'
<1> DEFINE tag == TagOf(content)
           s == [tag |-> tag, content |-> content, seen |-> seen]
<1>1. tag \in Tag BY TagOfIsTag
<1>2. /\ firstSeen' = [firstSeen EXCEPT ![tag] = IF @ = {} THEN {content} ELSE @]
      /\ ambiguous' = IF Ambiguous(tag, content) THEN ambiguous \union {tag} ELSE ambiguous
      /\ shown' = [shown EXCEPT ![tag] = @ \union {<<n, content[n]>> : n \in seen}]
  BY DEF Remember
<1>3. /\ firstSeen \in [Tag -> SUBSET Text] /\ ambiguous \subseteq Tag
      /\ shown \in [Tag -> SUBSET (Nat \X Line)]
      /\ \A t \in Tag : \A c, d \in firstSeen[t] : c = d
  BY DEF TagsInv
<1>4. DOMAIN content = 1 .. Len(content) /\ content \in [1 .. Len(content) -> Line]
  BY TextIs
<1> HIDE DEF tag
<1>5. /\ \A t \in Tag : shown[t] \subseteq shown'[t]
      /\ shown'[tag] = shown[tag] \union {<<n, content[n]>> : n \in seen}
      /\ \A t \in Tag \ {tag} : shown'[t] = shown[t]
  BY <1>1, <1>2, <1>3
<1>6. /\ firstSeen'[tag] = IF firstSeen[tag] = {} THEN {content} ELSE firstSeen[tag]
      /\ \A t \in Tag \ {tag} : firstSeen'[t] = firstSeen[t]
  BY <1>1, <1>2, <1>3
<1>7. shown' \in [Tag -> SUBSET (Nat \X Line)]
 <2>1. {<<n, content[n]>> : n \in seen} \subseteq Nat \X Line BY <1>4
 <2> QED BY <1>1, <1>2, <1>3, <2>1
<1>8. firstSeen' \in [Tag -> SUBSET Text] /\ ambiguous' \subseteq Tag BY <1>1, <1>2, <1>3
<1>9. ambiguous \subseteq ambiguous'
      /\ (tag \notin ambiguous' => tag \notin ambiguous /\ firstSeen[tag] \subseteq {content})
  BY <1>2 DEF Ambiguous
<1>10. tag \notin ambiguous' => firstSeen'[tag] = {content} BY <1>6, <1>9
<1>11. \A t \in Tag : firstSeen[t] # {} => firstSeen'[t] = firstSeen[t] BY <1>6
<1>12. \A t \in Tag : \A c, d \in firstSeen'[t] : c = d BY <1>1, <1>3, <1>6
<1>13. snapshots \in Seq(SnapshotShape) /\ \A i \in DOMAIN snapshots :
         snapshots[i] \in SnapshotShape /\ Remembered(snapshots[i])
  BY LenProperties, ElementOfSeq DEF TagsInv
<1>14. snapshots' \in Seq({snapshots[i] : i \in DOMAIN snapshots} \union {s})
  BY <1>13, NoOtherSnapshots DEF tag
<1>15. s \in SnapshotShape BY <1>1 DEF SnapshotShape
<1>16. \A i \in DOMAIN snapshots' :
         snapshots'[i] = s \/ \E j \in DOMAIN snapshots : snapshots'[i] = snapshots[j]
  BY <1>14, LenProperties, ElementOfSeq
<1>17. snapshots' \in Seq(SnapshotShape)
 <2>1. {snapshots[i] : i \in DOMAIN snapshots} \union {s} \subseteq SnapshotShape
   BY <1>13, <1>15
 <2> QED BY <1>14, <2>1
<1>18. ASSUME NEW i \in DOMAIN snapshots' PROVE Remembered(snapshots[i])'
 <2>1. CASE snapshots'[i] = s
  <3>1. /\ s.seen = seen /\ s.content = content /\ s.tag = tag OBVIOUS
  <3> HIDE DEF s
  <3>2. \A n \in seen : <<n, content[n]>> \in shown'[tag] BY <1>5
  <3> QED BY <1>10, <2>1, <3>1, <3>2 DEF Remembered
 <2>2. ASSUME NEW j \in DOMAIN snapshots, snapshots'[i] = snapshots[j]
       PROVE  Remembered(snapshots[i])'
  <3>1. PICK o : o = snapshots[j] /\ o \in SnapshotShape /\ Remembered(o) BY <1>13
  <3>2. o.tag \in Tag BY <3>1 DEF SnapshotShape
  <3>3. \A n \in o.seen : <<n, o.content[n]>> \in shown'[o.tag]
    BY <1>5, <3>1, <3>2 DEF Remembered
  <3>4. o.tag \notin ambiguous' => firstSeen'[o.tag] = {o.content}
    BY <1>9, <1>11, <3>1, <3>2 DEF Remembered
  <3>5. snapshots'[i] = o BY <2>2, <3>1
  <3> QED BY <3>1, <3>3, <3>4, <3>5 DEF Remembered
 <2> QED BY <1>16, <2>1, <2>2
<1>19. ASSUME NEW t \in Tag PROVE ShownOfFirst(t)'
 <2> SUFFICES ASSUME t \notin ambiguous', NEW x \in shown'[t]
              PROVE  \E c \in firstSeen'[t] : x[1] \in DOMAIN c /\ x = <<x[1], c[x[1]]>>
   BY DEF ShownOfFirst
 <2>1. CASE x \in shown[t]
  <3>1. t \notin ambiguous /\ ShownOfFirst(t) BY <1>9 DEF TagsInv
  <3>2. PICK c \in firstSeen[t] : x[1] \in DOMAIN c /\ x = <<x[1], c[x[1]]>>
    BY <2>1, <3>1 DEF ShownOfFirst
  <3>3. c \in firstSeen'[t] BY <1>11, <3>2
  <3> QED BY <3>2, <3>3
 <2>2. CASE x \notin shown[t]
  <3>1. t = tag BY <1>5, <2>2
  <3>2. PICK n \in seen : x = <<n, content[n]>> BY <1>5, <2>2, <3>1
  <3>3. x[1] = n /\ x = <<x[1], content[x[1]]>> /\ n \in DOMAIN content BY <3>2
  <3>4. content \in firstSeen'[t] BY <1>10, <3>1
  <3> QED BY <3>3, <3>4
 <2> QED BY <2>1, <2>2
<1> QED BY <1>7, <1>8, <1>12, <1>17, <1>18, <1>19 DEF TagsInv

\* A hunk in the file as it is, and where the line k of the snapshot is in it.
PlacedAt(old, h) == IF old = disk THEN h ELSE Moved(h, Shift(old, disk, h))
PlaceOf(old, k) == IF old = disk THEN k ELSE Position(old, disk, k)

\* The hunks that an edit may have of this snapshot.
UsableOf(snapshot) ==
  {h \in Hunks(Len(snapshot.content)) :
     /\ h.anchors \subseteq snapshot.seen
     /\ (snapshot.content = disk \/ Recoverable(snapshot.content, disk, h))}

PlanOf(tag, snapshot, g, h) ==
  [tag |-> tag, original |-> disk,
   updated |-> Apply(disk, PlacedAt(snapshot.content, g), PlacedAt(snapshot.content, h)),
   hunks |-> {PlacedAt(snapshot.content, g), PlacedAt(snapshot.content, h)},
   seen |-> NewSeen(snapshot, disk,
                    Apply(disk, PlacedAt(snapshot.content, g), PlacedAt(snapshot.content, h))),
   hits |-> {<<k, PlaceOf(snapshot.content, k)>> : k \in g.anchors \union h.anchors}]

LEMMA EditIs ==
  ASSUME NEW tag, Edit(tag)
  PROVE  /\ tag \notin ambiguous /\ Candidates(tag) # {}
         /\ \E i \in Candidates(tag) : \E g, h \in UsableOf(snapshots[i]) :
              LET old == snapshots[i].content
              IN  /\ g = h \/ Disjoint(PlacedAt(old, g), PlacedAt(old, h))
                  /\ Len(Apply(disk, PlacedAt(old, g), PlacedAt(old, h))) <= MaxLen
                  /\ plan' = PlanOf(tag, snapshots[i], g, h)
         /\ UNCHANGED <<disk, snapshots, firstSeen, ambiguous, shown>>
<1>1. tag \notin ambiguous /\ Cardinality(Candidates(tag)) = 1
      /\ UNCHANGED <<disk, snapshots, firstSeen, ambiguous, shown>>
  BY DEF Edit
<1>2. Candidates(tag) # {}
 <2>1. Cardinality({}) = 0 BY FS_EmptySet
 <2> QED BY <1>1, <2>1
<1> DEFINE i == CHOOSE j \in Candidates(tag) : TRUE
<1>3. i \in Candidates(tag) BY <1>2
<1>4. \E g, h \in UsableOf(snapshots[i]) :
        LET old == snapshots[i].content
        IN  /\ g = h \/ Disjoint(PlacedAt(old, g), PlacedAt(old, h))
            /\ Len(Apply(disk, PlacedAt(old, g), PlacedAt(old, h))) <= MaxLen
            /\ plan' = PlanOf(tag, snapshots[i], g, h)
  BY DEF Edit, UsableOf, PlanOf, PlacedAt, PlaceOf
<1> HIDE DEF i
<1> QED BY <1>1, <1>2, <1>3, <1>4

\* A hunk that may be used is within the file where it is placed, and its lines have the texts
\* that the snapshot has.
LEMMA UsableIs ==
  ASSUME NEW snapshot \in SnapshotShape, disk \in Text, NEW h \in UsableOf(snapshot)
  PROVE  LET old == snapshot.content
         IN  /\ Within(PlacedAt(old, h), Len(disk))
             /\ \A k \in h.anchors : k \in snapshot.seen /\ disk[PlaceOf(old, k)] = old[k]
<1> DEFINE old == snapshot.content
<1>1. old \in Text BY DEF SnapshotShape
<1>2. h \in Hunks(Len(old)) /\ h.anchors \subseteq snapshot.seen
      /\ (old = disk \/ Recoverable(old, disk, h))
  BY DEF UsableOf
<1>3. Len(old) \in Nat BY <1>1, TextIs
<1> HIDE DEF old
<1>4. CASE old = disk
 <2>1. Within(h, Len(disk)) BY <1>2, <1>3, <1>4, HunksAreWithin
 <2> QED BY <1>2, <1>4, <2>1 DEF PlacedAt, PlaceOf, old
<1>5. CASE old # disk
 <2>1. Recoverable(old, disk, h) BY <1>2, <1>5
 <2>2. Within(Moved(h, Shift(old, disk, h)), Len(disk))
   BY <1>1, <1>2, <2>1, RecoveredIsWithin
 <2>3. \A k \in h.anchors : disk[Position(old, disk, k)] = old[k]
   BY <1>1, <2>1, PositionIs DEF Recoverable
 <2> QED BY <1>2, <1>5, <2>2, <2>3 DEF PlacedAt, PlaceOf, old
<1> QED BY <1>4, <1>5

\* Lines of the result that need no reading are lines of the result.
LEMMA NewSeenIs ==
  ASSUME NEW snapshot \in SnapshotShape, NEW original, NEW updated \in Text
  PROVE  NewSeen(snapshot, original, updated) \subseteq DOMAIN updated
<1>1. snapshot.content \in Text /\ DOMAIN updated = 1 .. Len(updated)
  BY TextIs DEF SnapshotShape
<1>2. \A q \in Matching(snapshot.content, updated) : q[2] \in 1 .. Len(updated)
  BY <1>1, MatchingPairs
<1> QED BY <1>1, <1>2 DEF NewSeen

LEMMA EditPlans ==
  ASSUME NEW tag \in Tag, TagsInv, Edit(tag)
  PROVE  Planned(plan') /\ shown' = shown
<1>1. /\ tag \notin ambiguous /\ shown' = shown
      /\ \E i \in Candidates(tag) : \E g, h \in UsableOf(snapshots[i]) :
           LET old == snapshots[i].content
           IN  /\ g = h \/ Disjoint(PlacedAt(old, g), PlacedAt(old, h))
               /\ Len(Apply(disk, PlacedAt(old, g), PlacedAt(old, h))) <= MaxLen
               /\ plan' = PlanOf(tag, snapshots[i], g, h)
  BY EditIs
<1>2. PICK i \in Candidates(tag) : \E g, h \in UsableOf(snapshots[i]) :
           LET old == snapshots[i].content
           IN  /\ g = h \/ Disjoint(PlacedAt(old, g), PlacedAt(old, h))
               /\ Len(Apply(disk, PlacedAt(old, g), PlacedAt(old, h))) <= MaxLen
               /\ plan' = PlanOf(tag, snapshots[i], g, h)
  BY <1>1
<1>3. i \in DOMAIN snapshots /\ snapshots[i].tag = tag BY DEF Candidates
<1>4. PICK s \in SnapshotShape : s = snapshots[i] /\ Remembered(s)
 <2>1. snapshots[i] \in SnapshotShape BY <1>3, LenProperties, ElementOfSeq DEF TagsInv
 <2>2. Remembered(snapshots[i]) BY <1>3 DEF TagsInv
 <2> QED BY <2>1, <2>2
<1>5. PICK old \in Text : old = s.content BY DEF SnapshotShape
<1>6. PICK g \in UsableOf(s), h \in UsableOf(s) :
        /\ g = h \/ Disjoint(PlacedAt(old, g), PlacedAt(old, h))
        /\ Len(Apply(disk, PlacedAt(old, g), PlacedAt(old, h))) <= MaxLen
        /\ plan' = PlanOf(tag, s, g, h)
  BY <1>2, <1>4, <1>5
<1>7. disk \in Text BY DEF TagsInv
<1>8. /\ Within(PlacedAt(old, g), Len(disk)) /\ Within(PlacedAt(old, h), Len(disk))
      /\ \A k \in g.anchors \union h.anchors :
           k \in s.seen /\ disk[PlaceOf(old, k)] = old[k]
  BY <1>5, <1>6, <1>7, UsableIs
<1>9. PICK u : u = Apply(disk, PlacedAt(old, g), PlacedAt(old, h)) OBVIOUS
<1>10. u \in Seq(Line) /\ OthersStay(disk, u, {PlacedAt(old, g), PlacedAt(old, h)})
 <2>1. PlacedAt(old, g) = PlacedAt(old, h) \/ Disjoint(PlacedAt(old, g), PlacedAt(old, h))
   BY <1>6
 <2>2. disk \in Seq(Line) BY <1>7, TextIs
 <2> QED BY <1>8, <1>9, <2>1, <2>2, ApplyKeepsOthers
<1>11. u \in Text BY <1>6, <1>9, <1>10 DEF Text
<1>12. NewSeen(s, disk, u) \subseteq DOMAIN u BY <1>11, NewSeenIs
<1> DEFINE hits == {<<k, PlaceOf(old, k)>> : k \in g.anchors \union h.anchors}
<1>13. plan' = [tag |-> tag, original |-> disk, updated |-> u,
                hunks |-> {PlacedAt(old, g), PlacedAt(old, h)},
                seen |-> NewSeen(s, disk, u), hits |-> hits]
  BY <1>5, <1>6, <1>9 DEF PlanOf
<1>14. \A x \in hits : {l \in Line : <<x[1], l>> \in shown[tag]} = {disk[x[2]]}
 <2> SUFFICES ASSUME NEW k \in g.anchors \union h.anchors
              PROVE  {l \in Line : <<k, l>> \in shown[tag]} = {disk[PlaceOf(old, k)]}
   OBVIOUS
 <2>1. k \in s.seen /\ disk[PlaceOf(old, k)] = old[k] BY <1>8
 <2>2. k \in DOMAIN old /\ <<k, old[k]>> \in shown[tag] /\ firstSeen[tag] = {old}
   BY <1>1, <1>3, <1>4, <1>5, <2>1 DEF Remembered
 <2>3. old[k] \in Line BY <2>2, TextIs
 <2>4. ASSUME NEW l \in Line, <<k, l>> \in shown[tag] PROVE l = old[k]
  <3>1. ShownOfFirst(tag) BY DEF TagsInv
  <3>2. PICK c \in firstSeen[tag] : <<k, l>> = <<<<k, l>>[1], c[<<k, l>>[1]]>>
    BY <1>1, <2>4, <3>1 DEF ShownOfFirst
  <3>3. c = old BY <2>2
  <3> QED BY <3>2, <3>3
 <2> QED BY <2>1, <2>2, <2>3, <2>4
<1> HIDE DEF hits
<1>15. HitsShown(plan') BY <1>13, <1>14 DEF HitsShown
<1>16. Planned(plan') BY <1>10, <1>11, <1>12, <1>13, <1>15 DEF Planned
<1> QED BY <1>1, <1>16

LEMMA FileStep == FileInv /\ [FileNext]_fileVars => FileInv'
<1> SUFFICES ASSUME FileInv, [FileNext]_fileVars PROVE FileInv' OBVIOUS
<1>1. ASSUME NEW first \in 1 .. MaxLen, NEW last \in 1 .. MaxLen, Read(first, last)
      PROVE  FileInv'
 <2>1. /\ plan = NoPlan /\ plan' = plan /\ disk' = disk /\ disk \in Text
       /\ last <= Len(disk) /\ Remember(disk, (first .. last) \union SeenOf(disk))
   BY <1>1 DEF Read, FileInv, TagsInv
 <2>2. DOMAIN disk = 1 .. Len(disk) /\ Len(disk) \in Nat BY <2>1, TextIs
 <2>3. SeenOf(disk) \subseteq DOMAIN disk BY DEF FileInv, TagsInv, SeenOf, Remembered
 <2>4. (first .. last) \union SeenOf(disk) \subseteq DOMAIN disk
  <3>1. first .. last \subseteq 1 .. Len(disk) BY <2>1, <2>2
  <3> QED BY <2>2, <2>3, <3>1
 <2>5. (first .. last) \union SeenOf(disk) \in SUBSET Nat BY <2>2, <2>4
 <2>6. TagsInv' BY <2>1, <2>4, <2>5, RememberKeeps DEF FileInv
 <2> QED BY <2>1, <2>6 DEF FileInv
<1>2. ASSUME NEW tag \in Tag, Edit(tag) PROVE FileInv'
 <2>1. TagsInv BY DEF FileInv
 <2>2. Planned(plan') /\ shown' = shown BY <1>2, <2>1, EditPlans
 <2>3. UNCHANGED <<disk, snapshots, firstSeen, ambiguous, shown>> BY <1>2, EditIs
 <2>4. TagsInv' BY <2>1, <2>3 DEF TagsInv, Remembered, ShownOfFirst
 <2>5. Planned(plan)' BY <2>2 DEF Planned, HitsShown
 <2> QED BY <2>4, <2>5 DEF FileInv
<1>3. CASE Write
 <2>1. /\ plan # NoPlan /\ disk' = plan.updated /\ plan' = NoPlan
       /\ Remember(plan.updated, plan.seen) /\ TagsInv /\ Planned(plan)
   BY <1>3 DEF Write, FileInv
 <2>2. plan.updated \in Text /\ plan.seen \subseteq DOMAIN plan.updated BY <2>1 DEF Planned
 <2>3. plan.seen \in SUBSET Nat BY <2>2, TextIs
 <2>4. TagsInv' BY <2>1, <2>2, <2>3, RememberKeeps
 <2> QED BY <2>1, <2>4 DEF FileInv
<1>4. ASSUME NEW content \in Content, ElsewhereWritten(content) PROVE FileInv'
 <2>1. disk' = content /\ UNCHANGED <<snapshots, firstSeen, ambiguous, shown, plan>>
   BY <1>4 DEF ElsewhereWritten
 <2>2. content \in Text
  <3>1. PICK n \in 0 .. MaxLen : content \in [1 .. n -> Line] BY DEF Content
  <3>2. n \in Nat /\ n <= MaxLen BY FileAssumption
  <3> QED BY <3>1, <3>2 DEF Text
 <2>3. TagsInv' BY <2>1, <2>2 DEF FileInv, TagsInv, Remembered, ShownOfFirst
 <2>4. plan' # NoPlan => Planned(plan)' BY <2>1 DEF FileInv, Planned, HitsShown
 <2> QED BY <2>3, <2>4 DEF FileInv
<1>5. CASE UNCHANGED fileVars
  BY <1>5 DEF fileVars, FileInv, TagsInv, Remembered, ShownOfFirst, Planned, HitsShown
<1> QED BY <1>1, <1>2, <1>3, <1>4, <1>5 DEF FileNext

LEMMA FileBegins == FileInit => FileInv
<1> SUFFICES ASSUME FileInit PROVE FileInv OBVIOUS
<1>1. disk \in Text
 <2>1. PICK n \in 0 .. MaxLen : disk \in [1 .. n -> Line] BY DEF FileInit, Content
 <2>2. n \in Nat /\ n <= MaxLen BY FileAssumption
 <2> QED BY <2>1, <2>2 DEF Text
<1>2. /\ snapshots = <<>> /\ firstSeen = [t \in Tag |-> {}] /\ ambiguous = {}
      /\ shown = [t \in Tag |-> {}] /\ plan = NoPlan
  BY DEF FileInit
<1>3. snapshots \in Seq(SnapshotShape) /\ DOMAIN snapshots = {} BY <1>2
<1>4. firstSeen \in [Tag -> SUBSET Text] /\ shown \in [Tag -> SUBSET (Nat \X Line)] BY <1>2
<1>5. \A t \in Tag : firstSeen[t] = {} /\ shown[t] = {} BY <1>2
<1> QED BY <1>1, <1>2, <1>3, <1>4, <1>5 DEF FileInv, TagsInv, ShownOfFirst

\* An edit touches no line but those it names, and each of these has the one text that the model
\* was given for its number under the tag of the edit, for any lines, contents, shared tags, size
\* of the cache and writers (hashline.py 194-214, 263-284, 305-389).
THEOREM EditsHitTheShown == FileSpec => []EditsHitWhatWasShown
<1>1. FileInv => EditsHitWhatWasShown
  BY DEF FileInv, Planned, HitsShown, OthersStay, EditsHitWhatWasShown
<1> QED BY <1>1, FileBegins, FileStep, PTL DEF FileSpec
=============================================================================
