------------------------------ MODULE HubProofs ------------------------------
(***************************************************************************)
(* What the hub owes its users, for any number of agents, calls, messages  *)
(* and restarts: a mailbox that loses messages says so, nobody sleeps over *)
(* what it waits for, and every result is claimed once; and a command that *)
(* uses workers, /review, passes none of them over.  And reading a file in *)
(* pages: what a read leaves is what it showed.                            *)
(***************************************************************************)
EXTENDS Hub, Reviews, FilePages, FiniteSetTheorems, SequenceTheorems, TLAPS

-----------------------------------------------------------------------------
(* The messages that are left of a mailbox. *)

LEMMA CountedInterval ==
  ASSUME NEW n \in Nat
  PROVE  /\ IsFiniteSet(1 .. n) /\ Cardinality(1 .. n) = n
         /\ IsFiniteSet(0 .. n - 1) /\ Cardinality(0 .. n - 1) = n
<1>1. 1 \in Int /\ n \in Int /\ 0 \in Int /\ n - 1 \in Int OBVIOUS
<1>2. IsFiniteSet(1 .. n) /\ Cardinality(1 .. n) = IF 1 > n THEN 0 ELSE n - 1 + 1
  BY <1>1, FS_Interval
<1>3. IsFiniteSet(0 .. n - 1) /\ Cardinality(0 .. n - 1) = IF 0 > n - 1 THEN 0 ELSE n - 1 - 0 + 1
  BY <1>1, FS_Interval
<1> QED BY <1>2, <1>3

Below(keep, i) == Cardinality({j \in keep : j < i})

\* Of two positions the later one has more of the kept ones before it.
LEMMA LaterIsHigher ==
  ASSUME NEW keep \in SUBSET Nat, IsFiniteSet(keep), NEW i \in keep, NEW j \in Nat, i < j
  PROVE  Below(keep, i) \in Nat /\ Below(keep, j) \in Nat /\ Below(keep, i) < Below(keep, j)
<1> DEFINE A == {x \in keep : x < i}
           B == {x \in keep : x < j}
<1>1. IsFiniteSet(A) /\ IsFiniteSet(B) BY FS_Subset
<1>2. Cardinality(A) \in Nat /\ Cardinality(B) \in Nat BY <1>1, FS_CardinalityType
<1>3. i \notin A OBVIOUS
<1> HIDE DEF A
<1>4. IsFiniteSet(A \union {i}) /\ Cardinality(A \union {i}) = Cardinality(A) + 1
  BY <1>1, <1>3, FS_AddElement
<1>5. A \union {i} \subseteq B
 <2> SUFFICES ASSUME NEW x \in A \union {i} PROVE x \in keep /\ x < j OBVIOUS
 <2>1. x \in keep /\ i \in Nat /\ x \in Nat /\ (x = i \/ x < i) BY DEF A
 <2> QED BY <2>1
<1> HIDE DEF B
<1>6. Cardinality(A \union {i}) <= Cardinality(B) BY <1>1, <1>5, FS_Subset
<1> QED BY <1>2, <1>4, <1>6 DEF Below, A, B

LEMMA BelowAll ==
  ASSUME NEW keep \in SUBSET Nat, IsFiniteSet(keep), NEW i \in keep
  PROVE  Below(keep, i) \in 0 .. Cardinality(keep) - 1
<1> DEFINE A == {x \in keep : x < i}
<1>1. IsFiniteSet(A) /\ Cardinality(A) \in Nat /\ i \notin A
  BY FS_Subset, FS_CardinalityType
<1> HIDE DEF A
<1>2. IsFiniteSet(A \union {i}) /\ Cardinality(A \union {i}) = Cardinality(A) + 1
  BY <1>1, FS_AddElement
<1>3. A \union {i} \subseteq keep BY DEF A
<1>4. Cardinality(A \union {i}) <= Cardinality(keep) /\ Cardinality(keep) \in Nat
  BY <1>3, FS_Subset, FS_CardinalityType
<1> QED BY <1>1, <1>2, <1>4 DEF Below, A

\* The k-th of the kept positions exists: counting them is one-to-one.
LEMMA AtIsKept ==
  ASSUME NEW keep \in SUBSET Nat, IsFiniteSet(keep), NEW k \in 1 .. Cardinality(keep)
  PROVE  At(keep, k) \in keep /\ Below(keep, At(keep, k)) = k - 1
<1> DEFINE n == Cardinality(keep)
           f == [i \in keep |-> Below(keep, i)]
           T == 0 .. n - 1
<1>1. n \in Nat BY FS_CardinalityType
<1>2. f \in [keep -> T] BY BelowAll
<1>3. \A i, j \in keep : f[i] = f[j] => i = j
 <2> SUFFICES ASSUME NEW i \in keep, NEW j \in keep, i # j PROVE f[i] # f[j] OBVIOUS
 <2>1. CASE i < j BY <2>1, LaterIsHigher
 <2>2. CASE j < i BY <2>2, LaterIsHigher
 <2> QED BY <2>1, <2>2
<1>4. IsFiniteSet(T) /\ Cardinality(T) = n BY <1>1, CountedInterval
<1> HIDE DEF f, T
<1>5. f \in Injection(keep, T) BY <1>2, <1>3 DEF Injection, IsInjective
<1>6. f \in Surjection(keep, T) BY <1>4, <1>5, FS_Injection
<1>7. k - 1 \in T BY <1>1 DEF T
<1>8. PICK i \in keep : f[i] = k - 1 BY <1>6, <1>7 DEF Surjection
<1>9. Cardinality({j \in keep : j < i}) = k - 1 BY <1>8 DEF f, Below
<1> QED BY <1>9 DEF At, Below

\* Every kept position is the k-th for one k.
LEMMA EachHasItsPlace ==
  ASSUME NEW keep \in SUBSET Nat, IsFiniteSet(keep), NEW i \in keep
  PROVE  LET k == Below(keep, i) + 1
         IN  /\ k \in 1 .. Cardinality(keep)
             /\ At(keep, k) = i
             /\ \A l \in 1 .. Cardinality(keep) : At(keep, l) = i => l = k
<1> DEFINE k == Below(keep, i) + 1
<1>1. Cardinality(keep) \in Nat /\ Below(keep, i) \in 0 .. Cardinality(keep) - 1
  BY FS_CardinalityType, BelowAll
<1>2. k \in 1 .. Cardinality(keep) /\ k - 1 = Below(keep, i) BY <1>1
<1>3. At(keep, k) \in keep /\ Below(keep, At(keep, k)) = k - 1 BY <1>2, AtIsKept
<1>4. At(keep, k) = i
 <2> SUFFICES ASSUME At(keep, k) # i PROVE FALSE OBVIOUS
 <2> DEFINE h == At(keep, k)
 <2>1. h \in keep /\ h \in Nat /\ i \in Nat /\ Below(keep, h) = Below(keep, i) /\ h # i
   BY <1>2, <1>3
 <2> HIDE DEF h
 <2>2. CASE h < i BY <2>1, <2>2, LaterIsHigher
 <2>3. CASE i < h BY <2>1, <2>3, LaterIsHigher
 <2> QED BY <2>1, <2>2, <2>3
<1>5. ASSUME NEW l \in 1 .. Cardinality(keep), At(keep, l) = i PROVE l = k
  BY <1>1, <1>5, AtIsKept
<1> QED BY <1>2, <1>4, <1>5

LEMMA LeftFacts ==
  ASSUME NEW S, NEW box \in Seq(S), NEW keep \in SUBSET (DOMAIN box)
  PROVE  /\ Left(box, keep) \in Seq(S)
         /\ Len(Left(box, keep)) = Cardinality(keep)
         /\ Cardinality(keep) \in Nat /\ Cardinality(keep) <= Len(box)
         /\ IsFiniteSet(keep) /\ keep \in SUBSET Nat
         /\ DOMAIN Left(box, keep) = 1 .. Cardinality(keep)
         /\ \A k \in 1 .. Cardinality(keep) :
              At(keep, k) \in keep /\ Left(box, keep)[k] = box[At(keep, k)]
<1>1. Len(box) \in Nat /\ DOMAIN box = 1 .. Len(box) BY LenProperties
<1>2. IsFiniteSet(1 .. Len(box)) /\ Cardinality(1 .. Len(box)) = Len(box)
  BY <1>1, CountedInterval
<1>3. IsFiniteSet(keep) /\ Cardinality(keep) <= Len(box) BY <1>1, <1>2, FS_Subset
<1>4. Cardinality(keep) \in Nat BY <1>3, FS_CardinalityType
<1>5. keep \in SUBSET Nat BY <1>1
<1>6. \A k \in 1 .. Cardinality(keep) : At(keep, k) \in keep BY <1>3, <1>5, AtIsKept
<1>7. \A k \in 1 .. Cardinality(keep) : box[At(keep, k)] \in S BY <1>1, <1>6, ElementOfSeq
<1> DEFINE n == Cardinality(keep)
           e(k) == box[At(keep, k)]
<1>8. [k \in 1 .. n |-> e(k)] \in Seq(S)
 <2>1. \A k \in 1 .. n : e(k) \in S BY <1>7
 <2>2. n \in Nat BY <1>4
 <2> HIDE DEF n, e
 <2> QED BY <2>1, <2>2
<1>9. Left(box, keep) = [k \in 1 .. n |-> e(k)] BY DEF Left
<1>10. Left(box, keep) \in Seq(S) /\ DOMAIN Left(box, keep) = 1 .. n BY <1>8, <1>9
<1>11. Len(Left(box, keep)) = n BY <1>4, <1>10, LenProperties
<1> QED BY <1>3, <1>4, <1>5, <1>6, <1>9, <1>10, <1>11

-----------------------------------------------------------------------------
(* Warnings in a mailbox. *)

Message == HubAgent \union {System}
NoWarning(box) == \A i \in DOMAIN box : ~IsWarning(box[i])
OneWarning(box) ==
  \E i \in DOMAIN box : \A j \in DOMAIN box : IsWarning(box[j]) <=> j = i

LEMMA AgentsDoNotWarn == \A a \in HubAgent : ~IsWarning(a)
BY HubAssumption DEF HubAgent, IsWarning, System

\* Reading the messages of one sender leaves the rest, the warning with it.
LEMMA DrainKeepsWarnings ==
  ASSUME NEW box \in Seq(Message), NEW b \in HubAgent
  PROVE  LET left == Left(box, {i \in DOMAIN box : box[i] # b})
         IN  /\ left \in Seq(Message) /\ Len(left) <= Len(box)
             /\ NoWarning(box) => NoWarning(left)
             /\ OneWarning(box) => OneWarning(left)
             /\ left # <<>> => box # <<>>
             /\ \A x : Contains(left, x) => Contains(box, x)
<1> DEFINE keep == {i \in DOMAIN box : box[i] # b}
           left == Left(box, keep)
           n == Cardinality(keep)
<1>1. keep \in SUBSET (DOMAIN box) OBVIOUS
<1>2. DOMAIN box = 1 .. Len(box) /\ Len(box) \in Nat BY LenProperties
<1>3. \A i \in DOMAIN box : IsWarning(box[i]) => i \in keep BY AgentsDoNotWarn
<1> HIDE DEF keep
<1>4. /\ left \in Seq(Message) /\ Len(left) = n /\ n \in Nat /\ n <= Len(box)
      /\ IsFiniteSet(keep) /\ keep \in SUBSET Nat /\ DOMAIN left = 1 .. n
      /\ \A k \in 1 .. n : At(keep, k) \in keep /\ left[k] = box[At(keep, k)]
  BY <1>1, LeftFacts
<1> HIDE DEF left, n
<1>5. NoWarning(box) => NoWarning(left) BY <1>1, <1>4 DEF NoWarning
<1>6. OneWarning(box) => OneWarning(left)
 <2> SUFFICES ASSUME NEW i \in DOMAIN box, \A j \in DOMAIN box : IsWarning(box[j]) <=> j = i
              PROVE  OneWarning(left)
   BY DEF OneWarning
 <2>1. i \in keep BY <1>3
 <2> DEFINE k == Below(keep, i) + 1
 <2>2. /\ k \in 1 .. n /\ At(keep, k) = i
       /\ \A l \in 1 .. n : At(keep, l) = i => l = k
   BY <1>4, <2>1, EachHasItsPlace DEF n
 <2> HIDE DEF k
 <2>3. \A l \in DOMAIN left : IsWarning(left[l]) <=> l = k BY <1>1, <1>4, <2>2
 <2> QED BY <1>4, <2>2, <2>3 DEF OneWarning
<1>7. left # <<>> => box # <<>>
 <2>1. box = <<>> => Len(box) = 0 BY EmptySeq
 <2>2. Len(left) = 0 => left = <<>> BY <1>4, EmptySeq
 <2> QED BY <1>2, <1>4, <2>1, <2>2
<1>8. \A x : Contains(left, x) => Contains(box, x) BY <1>1, <1>2, <1>4 DEF Contains
<1> QED BY <1>4, <1>5, <1>6, <1>7, <1>8 DEF left, keep

\* The last n messages: no more than n, and messages of the mailbox.
LEMMA LastKeeps ==
  ASSUME NEW S, NEW s \in Seq(S), NEW n \in Nat
  PROVE  /\ LastN(s, n) \in Seq(S) /\ Len(LastN(s, n)) <= n
         /\ \A i \in 1 .. Len(LastN(s, n)) : \E j \in 1 .. Len(s) : LastN(s, n)[i] = s[j]
<1> DEFINE from == 1 + Max({0, Len(s) - n})
<1>1. Len(s) \in Nat /\ \A i \in 1 .. Len(s) : s[i] \in S BY LenProperties, ElementOfSeq
<1>2. from \in Nat /\ from >= 1 /\ Len(s) - from + 1 <= n
 <2>1. Max({0, Len(s) - n}) = IF Len(s) - n >= 0 THEN Len(s) - n ELSE 0 BY <1>1 DEF Max
 <2> QED BY <1>1, <2>1
<1>3. LastN(s, n) = SubSeq(s, from, Len(s)) BY DEF LastN
<1> HIDE DEF from
<1> DEFINE t == SubSeq(s, from, Len(s))
<1>4. /\ t \in Seq(S)
      /\ Len(t) = IF from <= Len(s) THEN Len(s) - from + 1 ELSE 0
      /\ \A i \in 1 .. Len(s) - from + 1 : t[i] = s[from + i - 1]
 <2>1. from \in Int /\ Len(s) \in Int /\ \A i \in from .. Len(s) : s[i] \in S BY <1>1, <1>2
 <2>2. t \in Seq(S) /\ \A i \in 1 .. Len(s) - from + 1 : t[i] = s[from + i - 1]
   BY <2>1, SubSeqProperties
 <2>3. Len(t) = IF from <= Len(s) THEN Len(s) - from + 1 ELSE 0 BY <2>1, SubSeqProperties
 <2> QED BY <2>2, <2>3
<1> HIDE DEF t
<1>5. Len(t) <= n BY <1>1, <1>2, <1>4
<1>6. ASSUME NEW i \in 1 .. Len(t) PROVE \E j \in 1 .. Len(s) : t[i] = s[j]
 <2>1. i \in 1 .. Len(s) - from + 1 /\ from + i - 1 \in 1 .. Len(s)
   BY <1>1, <1>2, <1>4, <1>6
 <2> QED BY <1>4, <2>1
<1> QED BY <1>3, <1>4, <1>5, <1>6 DEF t

\* Quiet messages, a warning and one more message: exactly one warning.
LEMMA OneIsWarned ==
  ASSUME NEW t \in Seq(Message), \A i \in 1 .. Len(t) : ~IsWarning(t[i]),
         NEW m \in Message, ~IsWarning(m)
  PROVE  LET new == t \o <<System, m>>
         IN  new \in Seq(Message) /\ Len(new) = Len(t) + 2 /\ OneWarning(new)
<1> DEFINE two == <<System, m>>
           new == t \o two
           n == Len(t)
<1>1. n \in Nat BY LenProperties
<1>2. two \in Seq(Message) /\ Len(two) = 2 /\ two[1] = System /\ two[2] = m BY DEF Message
<1> HIDE DEF two
<1>3. /\ new \in Seq(Message) /\ Len(new) = n + Len(two)
      /\ \A i \in 1 .. n + Len(two) : new[i] = IF i <= n THEN t[i] ELSE two[i - n]
  BY <1>2, ConcatProperties
<1>4. Len(new) = n + 2 /\ DOMAIN new = 1 .. n + 2
 <2>1. DOMAIN new = 1 .. Len(new) BY <1>3, LenProperties
 <2> QED BY <1>1, <1>2, <1>3, <2>1
<1> HIDE DEF new
<1>5. \A i \in 1 .. n : new[i] = t[i] BY <1>1, <1>2, <1>3
<1>6. new[n + 1] = two[1] /\ new[n + 2] = two[2] BY <1>1, <1>2, <1>3
<1> HIDE DEF n
<1>7. ASSUME NEW j \in DOMAIN new PROVE IsWarning(new[j]) <=> j = n + 1
 <2>1. CASE j \in 1 .. n BY <1>1, <1>5, <2>1 DEF n
 <2>2. CASE j = n + 1 BY <1>2, <1>6, <2>2 DEF IsWarning
 <2>3. CASE j = n + 2 BY <1>1, <1>2, <1>6, <2>3
 <2> QED BY <1>1, <1>4, <1>7, <2>1, <2>2, <2>3
<1>8. n + 1 \in DOMAIN new BY <1>1, <1>4
<1>9. OneWarning(new) BY <1>7, <1>8 DEF OneWarning
<1> QED BY <1>3, <1>4, <1>9 DEF new, two, n

\* A mailbox below its limit takes the message; a full one makes room and has one warning then.
LEMMA AppendSound ==
  ASSUME NEW box \in Seq(Message), Len(box) <= MailLimit, NEW m \in HubAgent
  PROVE  LET new == AppendMailbox(box, m)
         IN  /\ new \in Seq(Message) /\ Len(new) <= MailLimit
             /\ Len(box) < MailLimit => /\ NoWarning(box) => NoWarning(new)
                                        /\ OneWarning(box) => OneWarning(new)
             /\ Len(box) >= MailLimit => OneWarning(new)
<1>1. Len(box) \in Nat /\ DOMAIN box = 1 .. Len(box) /\ m \in Message /\ ~IsWarning(m)
      /\ MailLimit \in Nat /\ MailLimit >= 2
  BY LenProperties, AgentsDoNotWarn, HubAssumption DEF Message
<1>2. CASE Len(box) < MailLimit
 <2> DEFINE new == Append(box, m)
 <2>1. /\ new \in Seq(Message) /\ Len(new) = Len(box) + 1
       /\ \A i \in 1 .. Len(box) : new[i] = box[i]
       /\ new[Len(box) + 1] = m
   BY <1>1, AppendProperties
 <2> HIDE DEF new
 <2>2. DOMAIN new = 1 .. Len(box) + 1 BY <2>1, LenProperties
 <2>3. NoWarning(box) => NoWarning(new) BY <1>1, <2>1, <2>2 DEF NoWarning
 <2>4. OneWarning(box) => OneWarning(new)
  <3> SUFFICES ASSUME NEW i \in DOMAIN box, \A j \in DOMAIN box : IsWarning(box[j]) <=> j = i
               PROVE  OneWarning(new)
    BY DEF OneWarning
  <3>1. i \in DOMAIN new /\ i # Len(box) + 1 BY <1>1, <2>2
  <3>2. \A j \in DOMAIN new : IsWarning(new[j]) <=> j = i BY <1>1, <2>1, <2>2, <3>1
  <3> QED BY <3>1, <3>2 DEF OneWarning
 <2> QED BY <1>1, <1>2, <2>1, <2>3, <2>4 DEF AppendMailbox, new
<1>3. CASE ~(Len(box) < MailLimit)
 <2> DEFINE quiet == NoWarnings(box)
            last == LastN(quiet, MailLimit - 2)
            keep == {i \in DOMAIN box : ~IsWarning(box[i])}
 <2>1. quiet \in Seq(Message) /\ \A k \in 1 .. Len(quiet) : ~IsWarning(quiet[k])
  <3>1. keep \in SUBSET (DOMAIN box) OBVIOUS
  <3>2. quiet = Left(box, keep) BY DEF NoWarnings
  <3>3. \A i \in keep : ~IsWarning(box[i]) OBVIOUS
  <3> HIDE DEF keep, quiet
  <3> QED BY <3>1, <3>2, <3>3, LeftFacts
 <2> HIDE DEF quiet
 <2>2. /\ last \in Seq(Message) /\ Len(last) <= MailLimit - 2
       /\ \A i \in 1 .. Len(last) : \E j \in 1 .. Len(quiet) : last[i] = quiet[j]
  <3>1. MailLimit - 2 \in Nat BY <1>1
  <3> QED BY <2>1, <3>1, LastKeeps
 <2> HIDE DEF last
 <2>3. \A i \in 1 .. Len(last) : ~IsWarning(last[i]) BY <2>1, <2>2
 <2> DEFINE new == last \o <<System, m>>
 <2>4. new \in Seq(Message) /\ Len(new) = Len(last) + 2 /\ OneWarning(new)
   BY <1>1, <2>2, <2>3, OneIsWarned
 <2>5. AppendMailbox(box, m) = new BY <1>3 DEF AppendMailbox, last, quiet
 <2>6. Len(last) \in Nat BY <2>2, LenProperties
 <2> HIDE DEF new
 <2> QED BY <1>1, <1>3, <2>2, <2>4, <2>5, <2>6
<1> QED BY <1>2, <1>3

-----------------------------------------------------------------------------
(* The inductive invariant, part by part. *)

CallState == [pc : {"none", "sending", "posting", "waiting", "announcing"},
              caller : HubAgent, op : {"wait", "send", "task"},
              peer : HubAgent, before : Nat, woken : BOOLEAN]

\* An agent that lost messages has one warning, any other has none.
Mailboxes ==
  /\ mail \in [HubAgent -> Seq(Message)] /\ unannounced \subseteq HubAgent
  /\ \A a \in HubAgent :
       /\ Len(mail[a]) <= MailLimit
       /\ a \in unannounced => OneWarning(mail[a])
       /\ a \notin unannounced => NoWarning(mail[a])

\* Nobody sleeps over a condition that holds.
Calls ==
  /\ call \in [HubCall -> CallState] /\ yields \in [Peer -> Nat]
  /\ \A c \in HubCall : call[c].pc = "waiting" /\ Holds(c) => call[c].woken

\* The counts of waiters are those of the calls.
Of(calls, a) == {c \in HubCall : calls[c].caller = a /\ Counted(calls[c])}
Agree(count, calls) ==
  count \in [HubAgent -> Nat] /\ \A a \in HubAgent : count[a] = Cardinality(Of(calls, a))

\* What is recorded is over, and what is delivered has been claimed once.
JobStatus == {"live", "ended", "delivered"}
Results ==
  /\ ended \subseteq Peer /\ recorded = ended /\ delivered \subseteq Peer
  /\ jobEntry \in [Peer -> JobStatus] /\ claims \in [Peer -> Nat]
  /\ \A p \in Peer : /\ jobEntry[p] # "live" => p \in ended
                     /\ p \in delivered <=> jobEntry[p] = "delivered"
                     /\ claims[p] = IF p \in delivered THEN 1 ELSE 0

HubInv == Mailboxes /\ Calls /\ Agree(waiters, call) /\ Results

-----------------------------------------------------------------------------
(* The counts. *)

LEMMA SameWaiters ==
  ASSUME NEW count, NEW calls, NEW calls2, Agree(count, calls),
         \A c \in HubCall : /\ Counted(calls2[c]) <=> Counted(calls[c])
                            /\ Counted(calls[c]) => calls2[c].caller = calls[c].caller
  PROVE  Agree(count, calls2)
<1>1. ASSUME NEW a \in HubAgent PROVE Of(calls2, a) = Of(calls, a) BY <1>1 DEF Of
<1> QED BY <1>1 DEF Agree

LEMMA WaitersAreFinite == \A calls, a : IsFiniteSet(Of(calls, a))
BY HubAssumption, FS_Subset DEF Of

LEMMA OneMoreWaits ==
  ASSUME NEW count, NEW calls, NEW calls2, Agree(count, calls),
         NEW c \in HubCall, NEW a \in HubAgent,
         ~Counted(calls[c]), Counted(calls2[c]), calls2[c].caller = a,
         \A d \in HubCall \ {c} : calls2[d] = calls[d]
  PROVE  Agree([count EXCEPT ![a] = @ + 1], calls2)
<1>1. Of(calls2, a) = Of(calls, a) \union {c} /\ c \notin Of(calls, a) BY DEF Of
<1>2. ASSUME NEW b \in HubAgent, b # a PROVE Of(calls2, b) = Of(calls, b) BY <1>2 DEF Of
<1>3. Cardinality(Of(calls2, a)) = Cardinality(Of(calls, a)) + 1
  BY <1>1, WaitersAreFinite, FS_AddElement, ZenonT(40)
<1>4. count \in [HubAgent -> Nat] /\ \A b \in HubAgent : count[b] = Cardinality(Of(calls, b))
  BY DEF Agree
<1> DEFINE count2 == [count EXCEPT ![a] = @ + 1]
<1>5. count2 \in [HubAgent -> Nat] /\ count2[a] = count[a] + 1
      /\ \A b \in HubAgent : b # a => count2[b] = count[b]
  BY <1>4
<1> HIDE DEF count2
<1>6. \A b \in HubAgent : count2[b] = Cardinality(Of(calls2, b)) BY <1>2, <1>3, <1>4, <1>5
<1> QED BY <1>5, <1>6 DEF Agree, count2

LEMMA OneLessWaits ==
  ASSUME NEW count, NEW calls, NEW calls2, Agree(count, calls),
         NEW c \in HubCall, NEW a \in HubAgent,
         Counted(calls[c]), ~Counted(calls2[c]), calls[c].caller = a,
         \A d \in HubCall \ {c} : calls2[d] = calls[d]
  PROVE  Agree([count EXCEPT ![a] = @ - 1], calls2)
<1>1. Of(calls2, a) = Of(calls, a) \ {c} /\ c \in Of(calls, a) BY DEF Of
<1>2. ASSUME NEW b \in HubAgent, b # a PROVE Of(calls2, b) = Of(calls, b) BY <1>2 DEF Of
<1>3. Cardinality(Of(calls2, a)) = Cardinality(Of(calls, a)) - 1
 <2>1. IsFiniteSet(Of(calls, a)) BY WaitersAreFinite
 <2>2. Cardinality(Of(calls, a) \ {c}) = Cardinality(Of(calls, a)) - 1
   BY <1>1, <2>1, FS_RemoveElement
 <2> QED BY <1>1, <2>2
<1>4. Cardinality(Of(calls2, a)) \in Nat BY WaitersAreFinite, FS_CardinalityType
<1>5. count \in [HubAgent -> Nat] /\ \A b \in HubAgent : count[b] = Cardinality(Of(calls, b))
  BY DEF Agree
<1> DEFINE count2 == [count EXCEPT ![a] = @ - 1]
<1>6. count[a] - 1 \in Nat BY <1>3, <1>4, <1>5
<1>7. count2 \in [HubAgent -> Nat] /\ count2[a] = count[a] - 1
      /\ \A b \in HubAgent : b # a => count2[b] = count[b]
  BY <1>5, <1>6
<1> HIDE DEF count2
<1>8. \A b \in HubAgent : count2[b] = Cardinality(Of(calls2, b)) BY <1>2, <1>3, <1>5, <1>7
<1> QED BY <1>7, <1>8 DEF Agree, count2

-----------------------------------------------------------------------------
(* Waking, reading and claiming. *)

LEMMA NoCallIsCall == NoCall \in CallState /\ ~Counted(NoCall) /\ NoCall.pc = "none"
BY DEF NoCall, CallState, Counted, HubAgent

\* A notification wakes every sleeper and changes nothing else.
LEMMA WakeWakes ==
  ASSUME NEW calls \in [HubCall -> CallState]
  PROVE  /\ Wake(calls) \in [HubCall -> CallState]
         /\ \A c \in HubCall : /\ Counted(Wake(calls)[c]) <=> Counted(calls[c])
                               /\ Wake(calls)[c].caller = calls[c].caller
                               /\ Wake(calls)[c].pc = "waiting" => Wake(calls)[c].woken
<1>1. ASSUME NEW c \in HubCall
      PROVE  /\ Wake(calls)[c] \in CallState
             /\ Counted(Wake(calls)[c]) <=> Counted(calls[c])
             /\ Wake(calls)[c].caller = calls[c].caller
             /\ Wake(calls)[c].pc = "waiting" => Wake(calls)[c].woken
 <2> DEFINE cl == calls[c]
            up == [cl EXCEPT !.woken = TRUE]
 <2>1. cl \in CallState OBVIOUS
 <2>2. Wake(calls)[c] = IF cl.pc = "waiting" THEN up ELSE cl BY DEF Wake
 <2> HIDE DEF cl
 <2>3. /\ up \in CallState /\ up.woken = TRUE /\ up.pc = cl.pc
       /\ up.caller = cl.caller /\ up.op = cl.op
   BY <2>1 DEF CallState
 <2> HIDE DEF up
 <2> QED BY <2>1, <2>2, <2>3 DEF Counted, cl
<1> QED BY <1>1 DEF Wake

\* Mailboxes that were read: nothing new in them, and the warning goes with its mailbox only.
MailRead ==
  /\ mail' \in [HubAgent -> Seq(Message)] /\ unannounced' \subseteq unannounced
  /\ \A a \in HubAgent :
       /\ Len(mail'[a]) <= Len(mail[a])
       /\ mail'[a] # <<>> => mail[a] # <<>>
       /\ \A x : Contains(mail'[a], x) => Contains(mail[a], x)
       /\ OneWarning(mail[a]) => OneWarning(mail'[a]) \/ a \notin unannounced'
       /\ NoWarning(mail[a]) => NoWarning(mail'[a])
       /\ a \in unannounced \ unannounced' => NoWarning(mail'[a])

LEMMA ReadIsKept ==
  ASSUME Mailboxes, MailRead
  PROVE  Mailboxes'
<1>1. \A a \in HubAgent : Len(mail[a]) \in Nat /\ Len(mail'[a]) \in Nat
  BY LenProperties DEF Mailboxes, MailRead
<1>2. ASSUME NEW a \in HubAgent
      PROVE  /\ Len(mail'[a]) <= MailLimit
             /\ a \in unannounced' => OneWarning(mail'[a])
             /\ a \notin unannounced' => NoWarning(mail'[a])
 <2>1. Len(mail'[a]) <= MailLimit BY <1>1, HubAssumption DEF Mailboxes, MailRead
 <2>2. a \in unannounced' => OneWarning(mail'[a]) BY DEF Mailboxes, MailRead
 <2>3. a \notin unannounced' => NoWarning(mail'[a]) BY DEF Mailboxes, MailRead
 <2> QED BY <2>1, <2>2, <2>3
<1> QED BY <1>2 DEF Mailboxes, MailRead, NoWarning, OneWarning

LEMMA DrainReads ==
  ASSUME Mailboxes, NEW a \in HubAgent, Drain(a)
  PROVE  MailRead
<1>1. mail' = [mail EXCEPT ![a] = <<>>] /\ unannounced' = unannounced \ {a} BY DEF Drain
<1>2. mail \in [HubAgent -> Seq(Message)] /\ <<>> \in Seq(Message) BY EmptySeq DEF Mailboxes
<1>3. mail' \in [HubAgent -> Seq(Message)] BY <1>1, <1>2
<1>4. ASSUME NEW b \in HubAgent
      PROVE  /\ Len(mail'[b]) <= Len(mail[b])
             /\ mail'[b] # <<>> => mail[b] # <<>>
             /\ \A x : Contains(mail'[b], x) => Contains(mail[b], x)
             /\ OneWarning(mail[b]) => OneWarning(mail'[b]) \/ b \notin unannounced'
             /\ NoWarning(mail[b]) => NoWarning(mail'[b])
             /\ b \in unannounced \ unannounced' => NoWarning(mail'[b])
 <2>1. CASE b # a
  <3>1. mail'[b] = mail[b] /\ (b \in unannounced <=> b \in unannounced') BY <1>1, <1>2, <2>1
  <3>2. Len(mail[b]) \in Nat BY <1>2, LenProperties
  <3> QED BY <3>1, <3>2
 <2>2. CASE b = a
  <3>1. mail'[b] = <<>> /\ b \notin unannounced' BY <1>1, <1>2, <2>2
  <3>2. Len(mail[b]) \in Nat /\ Len(<<>>) = 0 /\ DOMAIN <<>> = {}
    BY <1>2, LenProperties, EmptySeq
  <3>3. NoWarning(<<>>) /\ \A x : ~Contains(<<>>, x) BY <3>2 DEF NoWarning, Contains
  <3> QED BY <3>1, <3>2, <3>3
 <2> QED BY <2>1, <2>2
<1> QED BY <1>1, <1>3, <1>4 DEF MailRead

LEMMA DrainFromReads ==
  ASSUME Mailboxes, NEW a \in HubAgent, NEW b \in HubAgent, DrainFrom(a, b)
  PROVE  MailRead
<1> DEFINE left == Left(mail[a], {i \in DOMAIN mail[a] : mail[a][i] # b})
<1>1. mail \in [HubAgent -> Seq(Message)] BY DEF Mailboxes
<1>2. mail' = [mail EXCEPT ![a] = left] /\ unannounced' = unannounced BY <1>1 DEF DrainFrom
<1>3. /\ left \in Seq(Message) /\ Len(left) <= Len(mail[a])
      /\ NoWarning(mail[a]) => NoWarning(left)
      /\ OneWarning(mail[a]) => OneWarning(left)
      /\ left # <<>> => mail[a] # <<>>
      /\ \A x : Contains(left, x) => Contains(mail[a], x)
  BY <1>1, DrainKeepsWarnings
<1> HIDE DEF left
<1>4. mail' \in [HubAgent -> Seq(Message)] /\ mail'[a] = left
      /\ \A d \in HubAgent : d # a => mail'[d] = mail[d]
  BY <1>1, <1>2, <1>3
<1>5. \A d \in HubAgent : Len(mail[d]) \in Nat BY <1>1, LenProperties
<1>6. \A d \in HubAgent : Len(mail'[d]) <= Len(mail[d]) BY <1>3, <1>4, <1>5
<1> QED BY <1>2, <1>3, <1>4, <1>6 DEF MailRead

LEMMA UnreadIsRead == ASSUME Mailboxes, UNCHANGED <<mail, unannounced>> PROVE MailRead
<1>1. \A a \in HubAgent : Len(mail[a]) \in Nat BY LenProperties DEF Mailboxes
<1> QED BY <1>1 DEF Mailboxes, MailRead

\* Reading a mailbox and claiming results make no sleeper's condition true.
LEMMA ReadyFalls ==
  ASSUME MailRead, NEW cl \in CallState, NEW done,
         delivered \subseteq done, Ready(cl, mail', yields, ended, done)
  PROVE  Ready(cl, mail, yields, ended, delivered)
<1>1. cl.caller \in HubAgent /\ cl.op \in {"wait", "send", "task"} BY DEF CallState
<1>2. CASE cl.op = "wait"
 <2>1. mail'[cl.caller] # <<>> \/ (cl.caller = User /\ ended \ done # {}) BY <1>2 DEF Ready
 <2>2. mail[cl.caller] # <<>> \/ (cl.caller = User /\ ended \ delivered # {})
   BY <1>1, <2>1 DEF MailRead
 <2> QED BY <1>2, <2>2 DEF Ready
<1>3. CASE cl.op = "send"
 <2>1. \/ Contains(mail'[cl.caller], cl.peer)
       \/ cl.peer # User /\ (yields[cl.peer] > cl.before \/ cl.peer \in ended)
   BY <1>3 DEF Ready
 <2>2. \/ Contains(mail[cl.caller], cl.peer)
       \/ cl.peer # User /\ (yields[cl.peer] > cl.before \/ cl.peer \in ended)
   BY <1>1, <2>1 DEF MailRead
 <2> QED BY <1>3, <2>2 DEF Ready
<1>4. CASE cl.op = "task" BY <1>4 DEF Ready
<1> QED BY <1>1, <1>2, <1>3, <1>4

\* So a step that only reads, claims and takes a call on keeps the sleepers' promise.
LEMMA SleepersKeep ==
  ASSUME Calls, MailRead, delivered \subseteq delivered', UNCHANGED <<yields, ended>>,
         NEW c \in HubCall, NEW new \in CallState, call' = [call EXCEPT ![c] = new],
         new.pc = "waiting" => ~Ready(new, mail, yields, ended, delivered)
  PROVE  Calls'
<1>1. call \in [HubCall -> CallState] /\ yields \in [Peer -> Nat] BY DEF Calls
<1>2. call' \in [HubCall -> CallState] /\ call'[c] = new
      /\ \A d \in HubCall : d # c => call'[d] = call[d]
  BY <1>1
<1>3. ASSUME NEW d \in HubCall, call'[d].pc = "waiting",
             Ready(call'[d], mail', yields, ended, delivered')
      PROVE  call'[d].woken
 <2>1. call'[d] \in CallState BY <1>2
 <2>2. Ready(call'[d], mail, yields, ended, delivered) BY <1>3, <2>1, ReadyFalls
 <2>3. d # c BY <1>2, <1>3, <2>2
 <2> QED BY <1>2, <1>3, <2>2, <2>3 DEF Calls, Holds
<1> QED BY <1>1, <1>2, <1>3 DEF Calls, Holds

\* Runs that nobody had claimed are claimed.
Claims(got) ==
  /\ delivered' = delivered \union got
  /\ jobEntry' = [p \in Peer |-> IF p \in got THEN "delivered" ELSE jobEntry[p]]
  /\ claims' = [p \in Peer |-> IF p \in got THEN claims[p] + 1 ELSE claims[p]]

LEMMA ClaimedOnce ==
  ASSUME Results, NEW got \in SUBSET (ended \ delivered), Claims(got),
         UNCHANGED <<ended, recorded>>
  PROVE  Results'
<1>1. /\ ended \subseteq Peer /\ recorded = ended /\ delivered \subseteq Peer
      /\ jobEntry \in [Peer -> JobStatus] /\ claims \in [Peer -> Nat]
  BY DEF Results
<1>2. jobEntry' \in [Peer -> JobStatus] /\ claims' \in [Peer -> Nat]
  BY <1>1 DEF Claims, JobStatus
<1>3. ASSUME NEW p \in Peer
      PROVE  /\ jobEntry'[p] # "live" => p \in ended'
             /\ p \in delivered' <=> jobEntry'[p] = "delivered"
             /\ claims'[p] = IF p \in delivered' THEN 1 ELSE 0
 <2>1. /\ jobEntry[p] # "live" => p \in ended
       /\ p \in delivered <=> jobEntry[p] = "delivered"
       /\ claims[p] = IF p \in delivered THEN 1 ELSE 0
   BY DEF Results
 <2>2. CASE p \in got BY <2>1, <2>2 DEF Claims
 <2>3. CASE p \notin got BY <2>1, <2>3 DEF Claims
 <2> QED BY <2>2, <2>3
<1> QED BY <1>1, <1>2, <1>3 DEF Results, Claims

LEMMA NothingClaimed ==
  ASSUME Results, UNCHANGED <<delivered, jobEntry, claims>>
  PROVE  Claims({})
BY DEF Results, Claims

LEMMA DeliverClaims ==
  ASSUME NEW c \in HubCall, NEW cl \in CallState, NEW ids, NEW calls, Deliver(c, cl, ids, calls)
  PROVE  /\ \E got \in SUBSET (ended \ delivered) : Claims(got)
         /\ \E new \in CallState : /\ new.pc \in {"none", "announcing"}
                                   /\ call' = [calls EXCEPT ![c] = new]
<1>1. Claims(Claimable(ids)) /\ Claimable(ids) \subseteq ended \ delivered
  BY DEF Deliver, Claims, Claimable
<1>2. [cl EXCEPT !.pc = "announcing"] \in CallState
      /\ [cl EXCEPT !.pc = "announcing"].pc = "announcing"
  BY DEF CallState
<1>3. \/ call' = [calls EXCEPT ![c] = NoCall]
      \/ call' = [calls EXCEPT ![c] = [cl EXCEPT !.pc = "announcing"]]
  BY DEF Deliver
<1> QED BY <1>1, <1>2, <1>3, NoCallIsCall

\* What the end of a wait does, for whatever reason it ends.
LEMMA FinishEffect ==
  ASSUME HubInv, NEW c \in HubCall, NEW cl \in CallState, Finish(c, cl)
  PROVE  /\ MailRead
         /\ \E got \in SUBSET (ended \ delivered) : Claims(got)
         /\ \E new \in CallState : /\ new.pc \in {"none", "announcing"}
                                   /\ call' = [call EXCEPT ![c] = new]
<1>1. Mailboxes /\ Results /\ cl.caller \in HubAgent /\ cl.peer \in HubAgent
      /\ cl.op \in {"wait", "send", "task"}
  BY DEF HubInv, CallState
<1>2. CASE cl.op = "wait"
 <2>1. Drain(cl.caller) /\ Deliver(c, cl, Jobs(cl.caller), call) BY <1>2 DEF Finish
 <2> QED BY <1>1, <2>1, DrainReads, DeliverClaims
<1>3. CASE cl.op = "send"
 <2>1. /\ DrainFrom(cl.caller, cl.peer)
       /\ call' = [call EXCEPT ![c] = NoCall]
       /\ UNCHANGED <<delivered, jobEntry, claims>>
   BY <1>3 DEF Finish
 <2> QED BY <1>1, <2>1, DrainFromReads, NothingClaimed, NoCallIsCall
<1>4. CASE cl.op = "task"
 <2>1. Deliver(c, cl, {cl.peer}, call) /\ UNCHANGED <<mail, unannounced>> BY <1>4 DEF Finish
 <2> QED BY <1>1, <2>1, UnreadIsRead, DeliverClaims
<1> QED BY <1>1, <1>2, <1>3, <1>4

\* So it keeps every part but the count, and its call is counted no longer.
LEMMA FinishKeeps ==
  ASSUME HubInv, NEW c \in HubCall, NEW cl \in CallState, Finish(c, cl),
         UNCHANGED <<yields, ended, recorded>>
  PROVE  /\ Mailboxes' /\ Calls' /\ Results'
         /\ ~Counted(call'[c]) /\ \A d \in HubCall \ {c} : call'[d] = call[d]
<1>1. MailRead BY FinishEffect
<1>2. PICK got \in SUBSET (ended \ delivered) : Claims(got) BY FinishEffect
<1>3. PICK new \in CallState : /\ new.pc \in {"none", "announcing"}
                               /\ call' = [call EXCEPT ![c] = new]
  BY FinishEffect
<1>4. Mailboxes /\ Calls /\ Results BY DEF HubInv
<1>5. Mailboxes' BY <1>1, <1>4, ReadIsKept
<1>6. Results' BY <1>2, <1>4, ClaimedOnce
<1>7. Calls' BY <1>1, <1>2, <1>3, <1>4, SleepersKeep DEF Claims
<1>8. call'[c] = new /\ \A d \in HubCall \ {c} : call'[d] = call[d] BY <1>3, <1>4 DEF Calls
<1> QED BY <1>3, <1>5, <1>6, <1>7, <1>8 DEF Counted

-----------------------------------------------------------------------------
(* The actions. *)


LEMMA FreshMailboxes ==
  LET empty == [a \in HubAgent |-> <<>>]
  IN  /\ empty \in [HubAgent -> Seq(Message)]
      /\ \A a \in HubAgent : Len(empty[a]) <= MailLimit /\ NoWarning(empty[a])
<1>1. <<>> \in Seq(Message) /\ Len(<<>>) = 0 /\ DOMAIN <<>> = {} BY EmptySeq
<1> QED BY <1>1, HubAssumption DEF NoWarning

LEMMA FreshCounts ==
  Agree([a \in HubAgent |-> 0], [c \in HubCall |-> NoCall])
<1>1. ASSUME NEW a \in HubAgent PROVE Of([c \in HubCall |-> NoCall], a) = {}
  BY NoCallIsCall DEF Of
<1> QED BY <1>1, FS_EmptySet DEF Agree

\* A step that notifies keeps the sleepers' promise, and the counts of the calls it wakes.
LEMMA NotifyKeeps ==
  ASSUME NEW calls \in [HubCall -> CallState], call' = Wake(calls),
         Agree(waiters', calls), yields' \in [Peer -> Nat]
  PROVE  Calls' /\ Agree(waiters, call)'
<1>1. /\ call' \in [HubCall -> CallState]
      /\ \A c \in HubCall : /\ Counted(call'[c]) <=> Counted(calls[c])
                            /\ call'[c].caller = calls[c].caller
                            /\ call'[c].pc = "waiting" => call'[c].woken
  BY WakeWakes
<1>2. Agree(waiters', call') BY <1>1, SameWaiters
<1> QED BY <1>1, <1>2 DEF Calls, Agree, Of, Counted

LEMMA SendKeeps ==
  ASSUME HubInv, NEW c \in HubCall, NEW a \in HubAgent, NEW b \in HubAgent,
         NEW await \in BOOLEAN, Send(c, a, b, await)
  PROVE  HubInv'
<1> DEFINE cl == [NoCall EXCEPT !.caller = a, !.op = "send", !.peer = b,
                                !.before = IF b = User THEN 0 ELSE yields[b]]
           waiting == [cl EXCEPT !.pc = "waiting"]
           turn == [cl EXCEPT !.pc = IF await THEN "sending" ELSE "posting"]
           counted == IF await THEN [waiters EXCEPT ![a] = @ + 1] ELSE waiters
<1>1. Mailboxes /\ Calls /\ Agree(waiters, call) /\ Results BY DEF HubInv
<1>2. UNCHANGED <<yields, ended, delivered, recorded, jobEntry, claims>> /\ call[c].pc = "none"
  BY DEF Send, May
<1>3. \/ /\ mail' = [mail EXCEPT ![b] = AppendMailbox(@, a)]
         /\ unannounced' = IF Len(mail[b]) >= MailLimit THEN unannounced \union {b}
                                                         ELSE unannounced
         /\ waiters' = counted
         /\ call' = Wake(IF await THEN [call EXCEPT ![c] = waiting] ELSE call)
      \/ /\ waiters' = counted /\ call' = Wake([call EXCEPT ![c] = turn])
         /\ UNCHANGED <<mail, unannounced>>
      \/ /\ call' = Wake(call) /\ UNCHANGED <<mail, unannounced, waiters>>
  BY DEF Send
<1>4. cl \in CallState /\ cl.caller = a /\ cl.op = "send"
 <2>1. yields \in [Peer -> Nat] /\ (b # User => b \in Peer) BY <1>1 DEF Calls, HubAgent
 <2>2. (IF b = User THEN 0 ELSE yields[b]) \in Nat BY <2>1
 <2> QED BY <2>2 DEF NoCall, CallState, HubAgent
<1>5. /\ waiting \in CallState /\ Counted(waiting) /\ waiting.caller = a
      /\ turn \in CallState /\ turn.caller = a /\ (Counted(turn) <=> await)
  BY <1>4, ZenonT(40) DEF CallState, Counted
<1>6. call \in [HubCall -> CallState] /\ ~Counted(call[c]) BY <1>1, <1>2 DEF Calls, Counted
<1> HIDE DEF cl, waiting, turn
<1>7. Results' BY <1>1, <1>2 DEF Results
<1>8. Mailboxes'
 <2>1. CASE UNCHANGED <<mail, unannounced>> BY <1>1, <2>1 DEF Mailboxes
 <2>2. CASE /\ mail' = [mail EXCEPT ![b] = AppendMailbox(@, a)]
            /\ unannounced' = IF Len(mail[b]) >= MailLimit THEN unannounced \union {b}
                                                            ELSE unannounced
  <3> DEFINE new == AppendMailbox(mail[b], a)
  <3>1. mail \in [HubAgent -> Seq(Message)] /\ Len(mail[b]) <= MailLimit
    BY <1>1 DEF Mailboxes
  <3>2. /\ new \in Seq(Message) /\ Len(new) <= MailLimit
        /\ Len(mail[b]) < MailLimit => /\ NoWarning(mail[b]) => NoWarning(new)
                                       /\ OneWarning(mail[b]) => OneWarning(new)
        /\ Len(mail[b]) >= MailLimit => OneWarning(new)
    BY <3>1, AppendSound
  <3>3. mail' = [mail EXCEPT ![b] = new] BY <2>2
  <3> HIDE DEF new
  <3>4. /\ mail' \in [HubAgent -> Seq(Message)] /\ mail'[b] = new
        /\ \A d \in HubAgent : d # b => mail'[d] = mail[d]
    BY <3>1, <3>2, <3>3
  <3>5. unannounced' \subseteq HubAgent /\ \A d \in HubAgent \ {b} :
                                             d \in unannounced' <=> d \in unannounced
    BY <1>1, <2>2 DEF Mailboxes
  <3>6. /\ b \in unannounced' => OneWarning(new)
        /\ b \notin unannounced' => NoWarning(new)
   <4>1. Len(mail[b]) \in Nat /\ MailLimit \in Nat BY <3>1, LenProperties, HubAssumption
   <4>2. CASE Len(mail[b]) >= MailLimit BY <2>2, <3>2, <4>2
   <4>3. CASE Len(mail[b]) < MailLimit
    <5>1. unannounced' = unannounced BY <2>2, <4>1, <4>3
    <5>2. /\ b \in unannounced => OneWarning(mail[b])
          /\ b \notin unannounced => NoWarning(mail[b])
      BY <1>1 DEF Mailboxes
    <5> QED BY <3>2, <4>3, <5>1, <5>2
   <4> QED BY <4>1, <4>2, <4>3
  <3>7. \A d \in HubAgent : /\ Len(mail'[d]) <= MailLimit
                            /\ d \in unannounced' => OneWarning(mail'[d])
                            /\ d \notin unannounced' => NoWarning(mail'[d])
    BY <1>1, <3>2, <3>4, <3>5, <3>6 DEF Mailboxes
  <3> QED BY <3>4, <3>5, <3>7 DEF Mailboxes, OneWarning, NoWarning
 <2> QED BY <1>3, <2>1, <2>2
<1>9. \E calls \in [HubCall -> CallState] : Agree(waiters', calls) /\ call' = Wake(calls)
 <2>1. ASSUME NEW new \in CallState, ~Counted(new)
       PROVE  [call EXCEPT ![c] = new] \in [HubCall -> CallState]
              /\ Agree(waiters, [call EXCEPT ![c] = new])
  <3> DEFINE calls == [call EXCEPT ![c] = new]
  <3>1. calls \in [HubCall -> CallState] /\ calls[c] = new
        /\ \A d \in HubCall : d # c => calls[d] = call[d]
    BY <1>6
  <3> HIDE DEF calls
  <3>2. \A d \in HubCall : /\ Counted(calls[d]) <=> Counted(call[d])
                           /\ Counted(call[d]) => calls[d].caller = call[d].caller
    BY <1>6, <2>1, <3>1
  <3>3. Agree(waiters, calls) BY <1>1, <3>2, SameWaiters
  <3> QED BY <3>1, <3>3 DEF calls
 <2>2. ASSUME NEW new \in CallState, Counted(new), new.caller = a
       PROVE  [call EXCEPT ![c] = new] \in [HubCall -> CallState]
              /\ Agree([waiters EXCEPT ![a] = @ + 1], [call EXCEPT ![c] = new])
  <3> DEFINE calls == [call EXCEPT ![c] = new]
  <3>1. calls \in [HubCall -> CallState] /\ calls[c] = new
        /\ \A d \in HubCall : d # c => calls[d] = call[d]
    BY <1>6
  <3> HIDE DEF calls
  <3>2. Agree([waiters EXCEPT ![a] = @ + 1], calls) BY <1>1, <1>6, <2>2, <3>1, OneMoreWaits
  <3> QED BY <3>1, <3>2 DEF calls
 <2>3. CASE await /\ waiters' = counted /\ call' = Wake([call EXCEPT ![c] = waiting])
   BY <1>5, <2>2, <2>3
 <2>4. CASE await /\ waiters' = counted /\ call' = Wake([call EXCEPT ![c] = turn])
   BY <1>5, <2>2, <2>4
 <2>5. CASE ~await /\ waiters' = counted /\ call' = Wake([call EXCEPT ![c] = turn])
   BY <1>5, <2>1, <2>5
 <2>6. CASE waiters' = waiters /\ call' = Wake(call) BY <1>1, <1>6, <2>6
 <2> QED BY <1>3, <2>3, <2>4, <2>5, <2>6
<1> QED BY <1>1, <1>2, <1>7, <1>8, <1>9, NotifyKeeps DEF HubInv, Calls

LEMMA SentKeeps ==
  ASSUME HubInv, NEW c \in HubCall, Sent(c)
  PROVE  HubInv'
<1> DEFINE up == [call[c] EXCEPT !.pc = "waiting", !.woken = Holds(c)]
           new == IF call[c].pc = "posting" THEN NoCall ELSE up
<1>1. Mailboxes /\ Calls /\ Agree(waiters, call) /\ Results BY DEF HubInv
<1>2. /\ call[c].pc \in {"sending", "posting"} /\ call' = [call EXCEPT ![c] = new]
      /\ UNCHANGED <<mail, waiters, yields, ended, delivered, recorded, jobEntry, claims,
                     unannounced>>
  BY DEF Sent
<1>3. call \in [HubCall -> CallState] /\ call[c] \in CallState BY <1>1 DEF Calls
<1>4. Holds(c) \in BOOLEAN
 <2>1. CASE call[c].op = "wait" BY <2>1 DEF Holds, Ready
 <2>2. CASE call[c].op = "send" BY <2>2 DEF Holds, Ready, Contains
 <2>3. CASE call[c].op = "task" BY <2>3 DEF Holds, Ready
 <2> QED BY <1>3, <2>1, <2>2, <2>3 DEF CallState
<1>5. /\ up \in CallState /\ up.pc = "waiting" /\ up.woken = Holds(c) /\ up.caller = call[c].caller
      /\ up.op = call[c].op /\ up.peer = call[c].peer /\ up.before = call[c].before
  BY <1>3, <1>4 DEF CallState
<1> HIDE DEF up
<1>6. new \in CallState /\ (call[c].pc = "posting" => new = NoCall)
      /\ (call[c].pc # "posting" => new = up)
  BY <1>5, NoCallIsCall
<1> HIDE DEF new
<1>7. call' \in [HubCall -> CallState] /\ call'[c] = new
      /\ \A d \in HubCall : d # c => call'[d] = call[d]
  BY <1>2, <1>3, <1>6
<1>8. ASSUME NEW d \in HubCall, call'[d].pc = "waiting",
             Ready(call'[d], mail, yields, ended, delivered)
      PROVE  call'[d].woken
 <2>1. CASE d # c BY <1>1, <1>7, <1>8, <2>1 DEF Calls, Holds
 <2>2. CASE d = c
  <3>1. call'[c] = up BY <1>6, <1>7, <1>8, <2>2, NoCallIsCall
  <3>2. Ready(up, mail, yields, ended, delivered) => Holds(c) BY <1>5 DEF Holds, Ready
  <3> QED BY <1>5, <1>8, <2>2, <3>1, <3>2
 <2> QED BY <2>1, <2>2
<1>9. Calls' BY <1>1, <1>2, <1>7, <1>8 DEF Calls, Holds
<1>10. \A d \in HubCall : /\ Counted(call'[d]) <=> Counted(call[d])
                          /\ Counted(call[d]) => call'[d].caller = call[d].caller
  BY <1>2, <1>5, <1>6, <1>7, NoCallIsCall DEF Counted
<1>11. Agree(waiters, call') BY <1>1, <1>10, SameWaiters
<1>12. Mailboxes' /\ Results' /\ Agree(waiters, call)'
  BY <1>1, <1>2, <1>11 DEF Mailboxes, Results, Agree, Of, Counted, NoWarning, OneWarning
<1> QED BY <1>9, <1>12 DEF HubInv

LEMMA WaitsKeeps ==
  ASSUME HubInv, NEW c \in HubCall, NEW a \in HubAgent, NEW p \in HubAgent,
         NEW op \in {"wait", "task"}, Waits(c, a, op, p)
  PROVE  HubInv'
<1> DEFINE cl == [NoCall EXCEPT !.pc = "waiting", !.caller = a, !.op = op, !.peer = p]
<1>1. Mailboxes /\ Calls /\ Agree(waiters, call) /\ Results BY DEF HubInv
<1>2. /\ call[c].pc = "none" /\ UNCHANGED <<yields, ended, recorded>>
      /\ \/ Finish(c, cl) /\ UNCHANGED waiters
         \/ /\ ~Ready(cl, mail, yields, ended, delivered)
            /\ call' = [call EXCEPT ![c] = cl]
            /\ waiters' = IF Counted(cl) THEN [waiters EXCEPT ![a] = @ + 1] ELSE waiters
            /\ UNCHANGED <<mail, delivered, jobEntry, claims, unannounced>>
  BY DEF Waits, May
<1>3. cl \in CallState /\ cl.caller = a BY DEF NoCall, CallState, HubAgent
<1> HIDE DEF cl
<1>4. call \in [HubCall -> CallState] /\ ~Counted(call[c]) BY <1>1, <1>2 DEF Calls, Counted
<1>5. CASE Finish(c, cl) /\ UNCHANGED waiters
 <2>1. /\ Mailboxes' /\ Calls' /\ Results'
       /\ ~Counted(call'[c]) /\ \A d \in HubCall \ {c} : call'[d] = call[d]
   BY <1>2, <1>3, <1>5, FinishKeeps
 <2>2. Agree(waiters, call') BY <1>1, <1>4, <2>1, SameWaiters
 <2>3. Agree(waiters, call)' BY <1>5, <2>2 DEF Agree, Of, Counted
 <2> QED BY <2>1, <2>3 DEF HubInv
<1>6. CASE /\ ~Ready(cl, mail, yields, ended, delivered)
           /\ call' = [call EXCEPT ![c] = cl]
           /\ waiters' = IF Counted(cl) THEN [waiters EXCEPT ![a] = @ + 1] ELSE waiters
           /\ UNCHANGED <<mail, delivered, jobEntry, claims, unannounced>>
 <2>1. MailRead BY <1>1, <1>6, UnreadIsRead
 <2>2. Calls' BY <1>1, <1>2, <1>3, <1>6, <2>1, SleepersKeep
 <2>3. call'[c] = cl /\ \A d \in HubCall \ {c} : call'[d] = call[d] BY <1>4, <1>6
 <2>4. Agree(waiters', call')
  <3>1. CASE Counted(cl)
   <4>1. Agree([waiters EXCEPT ![a] = @ + 1], call')
     BY <1>1, <1>3, <1>4, <2>3, <3>1, OneMoreWaits
   <4> QED BY <1>6, <3>1, <4>1
  <3>2. CASE ~Counted(cl) BY <1>1, <1>4, <1>6, <2>3, <3>2, SameWaiters
  <3> QED BY <3>1, <3>2
 <2>5. Mailboxes' /\ Results' /\ Agree(waiters, call)'
   BY <1>1, <1>2, <1>6, <2>4
      DEF Mailboxes, Results, Agree, Of, Counted, NoWarning, OneWarning
 <2> QED BY <2>2, <2>5 DEF HubInv
<1> QED BY <1>2, <1>5, <1>6

\* The end of a wait that was slept through: notified, timed out or cancelled.
LEMMA ReleaseAgrees ==
  ASSUME HubInv, NEW c \in HubCall, waiters' = Release(call[c]),
         ~Counted(call'[c]), \A d \in HubCall \ {c} : call'[d] = call[d]
  PROVE  Agree(waiters, call)'
<1>1. Agree(waiters, call) /\ call[c].caller \in HubAgent BY DEF HubInv, Calls, CallState
<1>2. CASE Counted(call[c])
 <2>1. waiters' = [waiters EXCEPT ![call[c].caller] = @ - 1] BY <1>2 DEF Release
 <2>2. Agree([waiters EXCEPT ![call[c].caller] = @ - 1], call') BY <1>1, <1>2, OneLessWaits
 <2>3. Agree(waiters', call') BY <2>1, <2>2
 <2> QED BY <2>3 DEF Agree, Of, Counted
<1>3. CASE ~Counted(call[c])
 <2>1. waiters' = waiters BY <1>3 DEF Release
 <2>2. Agree(waiters', call') BY <1>1, <1>3, <2>1, SameWaiters
 <2> QED BY <2>2 DEF Agree, Of, Counted
<1> QED BY <1>2, <1>3

LEMMA EndedWaitKeeps ==
  ASSUME HubInv, NEW c \in HubCall, Finish(c, call[c]), waiters' = Release(call[c]),
         UNCHANGED <<yields, ended, recorded>>
  PROVE  HubInv'
<1>1. call[c] \in CallState BY DEF HubInv, Calls
<1>2. /\ Mailboxes' /\ Calls' /\ Results'
      /\ ~Counted(call'[c]) /\ \A d \in HubCall \ {c} : call'[d] = call[d]
  BY <1>1, FinishKeeps
<1> QED BY <1>2, ReleaseAgrees DEF HubInv

LEMMA LooksKeeps ==
  ASSUME HubInv, NEW c \in HubCall, Looks(c)
  PROVE  HubInv'
<1> DEFINE new == [call[c] EXCEPT !.woken = FALSE]
<1>1. Mailboxes /\ Calls /\ Agree(waiters, call) /\ Results BY DEF HubInv
<1>2. /\ UNCHANGED <<yields, ended, recorded>>
      /\ \/ Finish(c, call[c]) /\ waiters' = Release(call[c])
         \/ /\ ~Holds(c) /\ call' = [call EXCEPT ![c] = new]
            /\ UNCHANGED <<mail, waiters, delivered, jobEntry, claims, unannounced>>
  BY DEF Looks
<1>3. CASE Finish(c, call[c]) /\ waiters' = Release(call[c]) BY <1>2, <1>3, EndedWaitKeeps
<1>4. CASE /\ ~Holds(c) /\ call' = [call EXCEPT ![c] = new]
           /\ UNCHANGED <<mail, waiters, delivered, jobEntry, claims, unannounced>>
 <2>1. call \in [HubCall -> CallState] /\ call[c] \in CallState BY <1>1 DEF Calls
 <2>2. /\ new \in CallState /\ new.pc = call[c].pc /\ new.op = call[c].op
       /\ new.caller = call[c].caller /\ new.peer = call[c].peer
       /\ new.before = call[c].before
   BY <2>1 DEF CallState
 <2> HIDE DEF new
 <2>3. ~Ready(new, mail, yields, ended, delivered) BY <1>4, <2>2 DEF Holds, Ready
 <2>4. MailRead BY <1>1, <1>4, UnreadIsRead
 <2>5. Calls' BY <1>1, <1>2, <1>4, <2>2, <2>3, <2>4, SleepersKeep
 <2>6. \A d \in HubCall : /\ Counted(call'[d]) <=> Counted(call[d])
                          /\ Counted(call[d]) => call'[d].caller = call[d].caller
   BY <1>4, <2>1, <2>2 DEF Counted
 <2>7. Agree(waiters, call') BY <1>1, <2>6, SameWaiters
 <2>8. Mailboxes' /\ Results' /\ Agree(waiters, call)'
   BY <1>1, <1>2, <1>4, <2>7
      DEF Mailboxes, Results, Agree, Of, Counted, NoWarning, OneWarning
 <2> QED BY <2>5, <2>8 DEF HubInv
<1> QED BY <1>2, <1>3, <1>4

LEMMA CancelKeeps ==
  ASSUME HubInv, NEW c \in HubCall, CallCancelled(c)
  PROVE  HubInv'
<1>1. Mailboxes /\ Calls /\ Agree(waiters, call) /\ Results BY DEF HubInv
<1>2. /\ waiters' = Release(call[c]) /\ call' = [call EXCEPT ![c] = NoCall]
      /\ UNCHANGED <<mail, yields, ended, delivered, recorded, jobEntry, claims, unannounced>>
  BY DEF CallCancelled
<1>3. call'[c] = NoCall /\ \A d \in HubCall \ {c} : call'[d] = call[d]
  BY <1>1, <1>2 DEF Calls
<1>4. MailRead BY <1>1, <1>2, UnreadIsRead
<1>5. Calls' BY <1>1, <1>2, <1>4, SleepersKeep, NoCallIsCall
<1>6. Agree(waiters, call)' BY <1>2, <1>3, ReleaseAgrees, NoCallIsCall
<1>7. Mailboxes' /\ Results' BY <1>1, <1>2 DEF Mailboxes, Results, NoWarning, OneWarning
<1> QED BY <1>5, <1>6, <1>7 DEF HubInv

LEMMA ClaimsAllKeeps ==
  ASSUME HubInv, NEW c \in HubCall, ClaimsAll(c)
  PROVE  HubInv'
<1>1. Mailboxes /\ Calls /\ Agree(waiters, call) /\ Results BY DEF HubInv
<1>2. /\ call[c].pc = "none" /\ Deliver(c, NoCall, ended \ delivered, call)
      /\ UNCHANGED <<mail, waiters, yields, ended, recorded, unannounced>>
  BY DEF ClaimsAll
<1>3. PICK got \in SUBSET (ended \ delivered) : Claims(got)
  BY <1>2, DeliverClaims, NoCallIsCall
<1>4. PICK new \in CallState : /\ new.pc \in {"none", "announcing"}
                               /\ call' = [call EXCEPT ![c] = new]
  BY <1>2, DeliverClaims, NoCallIsCall
<1>5. MailRead BY <1>1, <1>2, UnreadIsRead
<1>6. Calls' BY <1>1, <1>2, <1>3, <1>4, <1>5, SleepersKeep DEF Claims
<1>7. Results' BY <1>1, <1>2, <1>3, ClaimedOnce
<1>8. \A d \in HubCall : /\ Counted(call'[d]) <=> Counted(call[d])
                         /\ Counted(call[d]) => call'[d].caller = call[d].caller
  BY <1>1, <1>2, <1>4 DEF Calls, Counted
<1>9. Agree(waiters, call') BY <1>1, <1>8, SameWaiters
<1>10. Mailboxes' /\ Agree(waiters, call)'
  BY <1>1, <1>2, <1>9 DEF Mailboxes, Agree, Of, Counted, NoWarning, OneWarning
<1> QED BY <1>6, <1>7, <1>10 DEF HubInv

LEMMA InboxKeeps ==
  ASSUME HubInv, NEW a \in HubAgent, Inbox(a)
  PROVE  HubInv'
<1>1. Mailboxes /\ Calls /\ Agree(waiters, call) /\ Results BY DEF HubInv
<1>2. /\ Drain(a)
      /\ UNCHANGED <<waiters, call, yields, ended, delivered, recorded, jobEntry, claims>>
  BY DEF Inbox
<1>3. MailRead BY <1>1, <1>2, DrainReads
<1>4. Mailboxes' BY <1>1, <1>3, ReadIsKept
<1>5. ASSUME NEW c \in HubCall, call[c].pc = "waiting",
             Ready(call[c], mail', yields, ended, delivered)
      PROVE  call[c].woken
 <2>1. call[c] \in CallState BY <1>1 DEF Calls
 <2>2. Holds(c) BY <1>3, <1>5, <2>1, ReadyFalls DEF Holds
 <2> QED BY <1>1, <1>5, <2>2 DEF Calls
<1>6. Calls' /\ Results' /\ Agree(waiters, call)'
  BY <1>1, <1>2, <1>5 DEF Calls, Holds, Results, Agree, Of, Counted
<1> QED BY <1>4, <1>6 DEF HubInv

\* Steps that change no mailbox and no count, and notify.
LEMMA AnnouncedKeeps ==
  ASSUME HubInv, NEW c \in HubCall, Announced(c)
  PROVE  HubInv'
<1> DEFINE calls == [call EXCEPT ![c] = NoCall]
<1>1. Mailboxes /\ Calls /\ Agree(waiters, call) /\ Results BY DEF HubInv
<1>2. /\ call[c].pc = "announcing" /\ call' = Wake(calls)
      /\ UNCHANGED <<mail, waiters, yields, ended, delivered, recorded, jobEntry, claims,
                     unannounced>>
  BY DEF Announced
<1>3. calls \in [HubCall -> CallState] /\ calls[c] = NoCall
      /\ \A d \in HubCall : d # c => calls[d] = call[d]
  BY <1>1, NoCallIsCall DEF Calls
<1> HIDE DEF calls
<1>4. \A d \in HubCall : /\ Counted(calls[d]) <=> Counted(call[d])
                         /\ Counted(call[d]) => calls[d].caller = call[d].caller
  BY <1>2, <1>3, NoCallIsCall DEF Counted
<1>5. Agree(waiters, calls) BY <1>1, <1>4, SameWaiters
<1>6. Calls' /\ Agree(waiters, call)' BY <1>1, <1>2, <1>3, <1>5, NotifyKeeps DEF Calls
<1>7. Mailboxes' /\ Results' BY <1>1, <1>2 DEF Mailboxes, Results, NoWarning, OneWarning
<1> QED BY <1>6, <1>7 DEF HubInv

LEMMA YieldKeeps ==
  ASSUME HubInv, NEW p \in Peer, RecordYield(p)
  PROVE  HubInv'
<1>1. Mailboxes /\ Calls /\ Agree(waiters, call) /\ Results BY DEF HubInv
<1>2. /\ yields' = [yields EXCEPT ![p] = @ + 1] /\ call' = Wake(call)
      /\ UNCHANGED <<mail, waiters, ended, delivered, recorded, jobEntry, claims, unannounced>>
  BY DEF RecordYield
<1>3. yields' \in [Peer -> Nat] /\ call \in [HubCall -> CallState] BY <1>1, <1>2 DEF Calls
<1>4. Calls' /\ Agree(waiters, call)' BY <1>1, <1>2, <1>3, NotifyKeeps
<1>5. Mailboxes' /\ Results' BY <1>1, <1>2 DEF Mailboxes, Results, NoWarning, OneWarning
<1> QED BY <1>4, <1>5 DEF HubInv

LEMMA EndKeeps ==
  ASSUME HubInv, NEW p \in Peer, RunEnds(p)
  PROVE  HubInv'
<1>1. Mailboxes /\ Calls /\ Agree(waiters, call) /\ Results BY DEF HubInv
<1>2. /\ p \notin ended /\ recorded' = recorded \union {p} /\ ended' = ended \union {p}
      /\ jobEntry' = [jobEntry EXCEPT ![p] = "ended"] /\ call' = Wake(call)
      /\ UNCHANGED <<mail, waiters, yields, delivered, claims, unannounced>>
  BY DEF RunEnds
<1>3. Calls' /\ Agree(waiters, call)' BY <1>1, <1>2, NotifyKeeps DEF Calls
<1>4. Mailboxes' BY <1>1, <1>2 DEF Mailboxes, NoWarning, OneWarning
<1>5. Results'
 <2>1. p \notin delivered BY <1>1, <1>2 DEF Results
 <2>2. jobEntry' \in [Peer -> JobStatus] BY <1>1, <1>2 DEF Results, JobStatus
 <2>3. \A q \in Peer : jobEntry'[q] = IF q = p THEN "ended" ELSE jobEntry[q]
   BY <1>1, <1>2 DEF Results
 <2> QED BY <1>1, <1>2, <2>1, <2>2, <2>3 DEF Results
<1> QED BY <1>3, <1>4, <1>5 DEF HubInv

\* After a restart nobody waits, the mailboxes are empty, and the ledgers say what is over.
LEMMA RestartKeeps ==
  ASSUME HubInv, NEW half \in SUBSET (Peer \ ended), HubRestarts(half)
  PROVE  HubInv'
<1>1. Calls /\ Results BY DEF HubInv
<1>2. /\ recorded' = recorded \union half /\ Hydrate(recorded')
      /\ mail' = [a \in HubAgent |-> <<>>] /\ waiters' = [a \in HubAgent |-> 0]
      /\ call' = [c \in HubCall |-> NoCall] /\ unannounced' = {}
      /\ UNCHANGED <<yields, jobEntry, claims>>
  BY DEF HubRestarts
<1>3. Mailboxes' BY <1>2, FreshMailboxes DEF Mailboxes, NoWarning, OneWarning
<1>4. Calls' BY <1>1, <1>2, NoCallIsCall DEF Calls
<1>5. Agree(waiters, call)' BY <1>2, FreshCounts DEF Agree, Of, Counted
<1>6. Results'
 <2>1. ended' = recorded' BY <1>1, <1>2 DEF Hydrate, Results
 <2>2. delivered' = delivered BY <1>1, <1>2 DEF Hydrate, Results
 <2> QED BY <1>1, <1>2, <2>1, <2>2 DEF Results
<1> QED BY <1>3, <1>4, <1>5, <1>6 DEF HubInv

-----------------------------------------------------------------------------
(* The theorem. *)

LEMMA HubStarts == HubInit => HubInv
<1> SUFFICES ASSUME HubInit PROVE HubInv OBVIOUS
<1>1. Mailboxes BY FreshMailboxes DEF HubInit, Mailboxes
<1>2. Calls BY NoCallIsCall DEF HubInit, Calls
<1>3. Agree(waiters, call) BY FreshCounts DEF HubInit
<1>4. Results BY DEF HubInit, Results, JobStatus
<1> QED BY <1>1, <1>2, <1>3, <1>4 DEF HubInv

LEMMA HubStep == HubInv /\ [HubNext]_hubVars => HubInv'
<1> SUFFICES ASSUME HubInv, [HubNext]_hubVars PROVE HubInv' OBVIOUS
<1>1. CASE \E c \in HubCall, a, b \in HubAgent, await \in BOOLEAN : Send(c, a, b, await)
  BY <1>1, SendKeeps
<1>2. CASE \E c \in HubCall, a, p \in HubAgent, op \in {"wait", "task"} : Waits(c, a, op, p)
  BY <1>2, WaitsKeeps
<1>3. CASE \E c \in HubCall : Sent(c) BY <1>3, SentKeeps
<1>4. CASE \E c \in HubCall : Looks(c) BY <1>4, LooksKeeps
<1>5. CASE \E c \in HubCall : WaitTimesOut(c) BY <1>5, EndedWaitKeeps DEF WaitTimesOut
<1>6. CASE \E c \in HubCall : CallCancelled(c) BY <1>6, CancelKeeps
<1>7. CASE \E c \in HubCall : ClaimsAll(c) BY <1>7, ClaimsAllKeeps
<1>8. CASE \E c \in HubCall : Announced(c) BY <1>8, AnnouncedKeeps
<1>9. CASE \E a \in HubAgent : Inbox(a) BY <1>9, InboxKeeps
<1>10. CASE \E p \in Peer : RecordYield(p) BY <1>10, YieldKeeps
<1>11. CASE \E p \in Peer : RunEnds(p) BY <1>11, EndKeeps
<1>12. CASE \E half \in SUBSET (Peer \ ended) : HubRestarts(half) BY <1>12, RestartKeeps
<1>13. CASE UNCHANGED hubVars
  BY <1>13 DEF hubVars, HubInv, Mailboxes, Calls, Holds, Results, Agree, Of, Counted,
               NoWarning, OneWarning
<1> QED
  BY <1>1, <1>2, <1>3, <1>4, <1>5, <1>6, <1>7, <1>8, <1>9, <1>10, <1>11, <1>12, <1>13
     DEF HubNext

LEMMA InvIsSound == HubInv => HubSound
<1> SUFFICES ASSUME HubInv PROVE HubSound OBVIOUS
<1>1. DropsAnnounced
 <2> SUFFICES ASSUME NEW a \in HubAgent
              PROVE  LET warnings == {i \in DOMAIN mail[a] : IsWarning(mail[a][i])}
                     IN  /\ Len(mail[a]) <= MailLimit
                         /\ Cardinality(warnings) = IF a \in unannounced THEN 1 ELSE 0
   BY DEF DropsAnnounced
 <2> DEFINE warnings == {i \in DOMAIN mail[a] : IsWarning(mail[a][i])}
 <2>1. /\ Len(mail[a]) <= MailLimit
       /\ a \in unannounced => OneWarning(mail[a])
       /\ a \notin unannounced => NoWarning(mail[a])
   BY DEF HubInv, Mailboxes
 <2>2. CASE a \in unannounced
  <3>1. PICK i \in DOMAIN mail[a] : \A j \in DOMAIN mail[a] : IsWarning(mail[a][j]) <=> j = i
    BY <2>1, <2>2 DEF OneWarning
  <3>2. warnings = {i} BY <3>1
  <3>3. Cardinality(warnings) = 1 BY <3>2, FS_Singleton
  <3> QED BY <2>1, <2>2, <3>3
 <2>3. CASE a \notin unannounced
  <3>1. warnings = {} BY <2>1, <2>3 DEF NoWarning
  <3>2. Cardinality(warnings) = 0 BY <3>1, FS_EmptySet
  <3> QED BY <2>1, <2>3, <3>2
 <2> QED BY <2>2, <2>3
<1>2. WaitersServed BY DEF HubInv, WaitersServed, Calls, Agree, Of
<1>3. EachResultOnce BY DEF HubInv, EachResultOnce, Results, Claimable
<1> QED BY <1>1, <1>2, <1>3 DEF HubSound

\* Whatever agents send, wait for and yield, whatever is cancelled or times out, and however often
\* the program dies: mailboxes announce what they lost, nobody sleeps over a condition that
\* holds, the counts of waiters are right, and each result is claimed once
\* (agents.py 109-125, 790-944, 1398-1647).
THEOREM HubIsSound == HubSpec => []HubSound
<1>1. HubSpec => []HubInv BY HubStarts, HubStep, PTL DEF HubSpec
<1> QED BY <1>1, InvIsSound, PTL

-----------------------------------------------------------------------------
(* The reviewers of a diff: the inductive invariant. *)

ReviewStages == {"partition", "spawning", "waiting", "cancelling", "stopping", "delivering", "over"}

ReviewTyped ==
  /\ reviewStage \in ReviewStages /\ aborted \in BOOLEAN /\ gaveUp \in BOOLEAN
  /\ reviewer \in [DOMAIN reviewer -> RunState] /\ IsFiniteSet(DOMAIN reviewer)
  /\ bins = [b \in DOMAIN bins |-> bins[b]] /\ IsFiniteSet(DOMAIN bins)
  /\ reviewStage = "partition" => reviewer = <<>>

\* Once the spawns have been waited for no reviewer can start.
SpawnsAreOver == reviewStage \in ReviewStages \ {"partition", "spawning"} => BatchDone

\* A reviewer that was made and never started has raised in its spawn.
UnstartedRaised == (\E r \in DOMAIN reviewer : reviewer[r] = "unstarted") => gaveUp

\* Whose end is to be heard is over, and that is everyone unless a wait has expired.
EndsAreKnown ==
  reviewStage \in {"delivering", "over"} =>
    /\ \A r \in terminal : r \in DOMAIN reviewer /\ reviewer[r] \in Over
    /\ ~gaveUp => Spawned = terminal

EndsAreHeard == reviewStage = "over" /\ ~gaveUp => terminal \subseteq heard

\* The verdict is final.
VerdictIsFounded ==
  merged.overall = "correct" => reviewStage = "over" /\ \A r \in DOMAIN reviewer : reviewer[r] = Clean

ReviewInv == /\ ReviewTyped /\ SpawnsAreOver /\ UnstartedRaised /\ EndsAreKnown /\ EndsAreHeard
             /\ VerdictIsFounded

LEMMA ReviewStarts == ReviewInit => ReviewInv
<1> SUFFICES ASSUME ReviewInit PROVE ReviewInv OBVIOUS
<1>1. IsFiniteSet(Bins(hunks))
 <2> DEFINE most == Fanout(MapThenSumSet(Changed, hunks))
            n == IF most < Cardinality(hunks) THEN most ELSE Cardinality(hunks)
 <2>1. Cardinality(hunks) \in Nat BY DiffsAssumption, FS_CardinalityType DEF ReviewInit
 <2>2. most \in {1, 2, 4, 8} BY DEF Fanout
 <2>3. n \in Int BY <2>1, <2>2
 <2> HIDE DEF n
 <2>4. IsFiniteSet(1 .. n) BY <2>3, FS_Interval
 <2> QED BY <2>4 DEF Bins, n
<1>2. DOMAIN bins = Bins(hunks) /\ bins = [b \in DOMAIN bins |-> bins[b]] BY DEF ReviewInit
<1>3. DOMAIN reviewer = {} /\ reviewer \in [DOMAIN reviewer -> RunState] BY DEF ReviewInit
<1>4. ReviewTyped BY <1>1, <1>2, <1>3, FS_EmptySet DEF ReviewTyped, ReviewInit, ReviewStages
<1>5. SpawnsAreOver /\ UnstartedRaised /\ EndsAreKnown /\ EndsAreHeard /\ VerdictIsFounded
  BY <1>3 DEF ReviewInit, SpawnsAreOver, UnstartedRaised, EndsAreKnown, EndsAreHeard, VerdictIsFounded, NoReview
<1> QED BY <1>4, <1>5 DEF ReviewInv

LEMMA PartitionStep == ReviewInv /\ (PlaceHunk \/ Fill \/ Launch) => ReviewInv'
<1> SUFFICES ASSUME ReviewInv, PlaceHunk \/ Fill \/ Launch PROVE ReviewInv' OBVIOUS
<1>1. CASE PlaceHunk \/ Fill
 <2>1. /\ UNCHANGED <<reviewStage, reviewer, terminal, heard, aborted, gaveUp, merged>>
       /\ DOMAIN bins' = DOMAIN bins /\ bins' = [b \in DOMAIN bins' |-> bins'[b]]
   BY <1>1 DEF PlaceHunk, Fill, Fills, ReviewInv, ReviewTyped
 <2>2. ReviewTyped' BY <2>1 DEF ReviewInv, ReviewTyped
 <2> QED
   BY <2>1, <2>2 DEF ReviewInv, SpawnsAreOver, UnstartedRaised, EndsAreKnown, EndsAreHeard, VerdictIsFounded,
                     BatchDone, Spawned
<1>2. CASE Launch
 <2>1. /\ reviewStage' = "spawning" /\ reviewer' = [b \in DOMAIN bins |-> "asked"] /\ bins' = <<>>
       /\ reviewStage = "partition"
       /\ UNCHANGED <<terminal, heard, aborted, gaveUp, merged>>
   BY <1>2 DEF Launch
 <2>2. /\ DOMAIN reviewer' = DOMAIN bins /\ reviewer' \in [DOMAIN reviewer' -> RunState]
       /\ DOMAIN bins' = {} /\ bins' = [b \in DOMAIN bins' |-> bins'[b]]
   BY <2>1 DEF RunState
 <2>3. ReviewTyped' BY <2>1, <2>2, FS_EmptySet DEF ReviewInv, ReviewTyped, ReviewStages
 <2> QED
   BY <2>1, <2>2, <2>3 DEF ReviewInv, SpawnsAreOver, UnstartedRaised, EndsAreKnown, EndsAreHeard, VerdictIsFounded
<1> QED BY <1>1, <1>2

\* A reviewer moves on; one that is over does not.
LEMMA ReviewerStep ==
  ASSUME ReviewInv, NEW r \in DOMAIN reviewer,
         Refused(r) \/ Registers(r) \/ ReviewerStarts(r) \/ SpawnRaises(r) \/ ReviewerEnds(r) \/ ReviewerStops(r)
  PROVE  ReviewInv'
<1>1. PICK from, to :
        /\ RunMoves(r, from, to)
        /\ \/ from = {"asked"} /\ to \in {"refused", "registered"}
           \/ from = {"registered"} /\ to = "running"
           \/ from = {"registered"} /\ to = "unstarted" /\ gaveUp'
           \/ from = {"running", "stopping"} /\ to \in Over
           \/ from = {"running"} /\ to \in Over
           \/ from = {"stopping"} /\ to \in Over
        /\ gaveUp' = gaveUp \/ gaveUp' = TRUE
  BY DEF Refused, Registers, ReviewerStarts, SpawnRaises, ReviewerEnds, ReviewerStops, Over
<1>2. /\ reviewer[r] \in from /\ reviewer' = [reviewer EXCEPT ![r] = to]
      /\ UNCHANGED <<bins, reviewStage, terminal, heard, aborted, merged>>
  BY <1>1 DEF RunMoves
<1>3. to \in RunState /\ reviewer \in [DOMAIN reviewer -> RunState]
  BY <1>1 DEF ReviewInv, ReviewTyped, RunState, Over
<1>4. /\ DOMAIN reviewer' = DOMAIN reviewer /\ reviewer' \in [DOMAIN reviewer' -> RunState]
      /\ reviewer'[r] = to /\ \A x \in DOMAIN reviewer : x # r => reviewer'[x] = reviewer[x]
  BY <1>2, <1>3
<1>5. reviewer # <<>> BY <1>3
<1>6. ReviewTyped' BY <1>1, <1>2, <1>4, <1>5 DEF ReviewInv, ReviewTyped
<1>7. reviewer[r] \notin Over /\ reviewer[r] # Clean
  BY <1>1, <1>2 DEF Over, Output, Clean, Flagged, Partial, Garbage
<1>8. SpawnsAreOver'
  BY <1>1, <1>2, <1>4 DEF ReviewInv, SpawnsAreOver, BatchDone, Over, Output, Clean, Flagged, Partial, Garbage
<1>9. UnstartedRaised'
  BY <1>1, <1>2, <1>4 DEF ReviewInv, UnstartedRaised, Over, Output, Clean, Flagged, Partial, Garbage
<1>10. EndsAreKnown' /\ EndsAreHeard'
 <2>1. ASSUME reviewStage \in {"delivering", "over"}
       PROVE  /\ Spawned' = Spawned /\ r \notin terminal
              /\ (from = {"registered"} => FALSE) /\ (from = {"asked"} => FALSE)
  <3>1. reviewer[r] \notin {"asked", "registered"}
    BY <2>1 DEF ReviewInv, SpawnsAreOver, BatchDone, ReviewStages
  <3>2. to \in Over /\ reviewer[r] \in {"running", "stopping"} BY <1>1, <1>2, <3>1
  <3>3. Spawned' = Spawned BY <1>4, <3>2 DEF Spawned
  <3>4. r \notin terminal BY <1>7, <2>1 DEF ReviewInv, EndsAreKnown
  <3> QED BY <1>2, <3>1, <3>3, <3>4
 <2> QED BY <1>1, <1>2, <1>4, <2>1 DEF ReviewInv, EndsAreKnown, EndsAreHeard
<1>11. VerdictIsFounded' BY <1>2, <1>4, <1>7 DEF ReviewInv, VerdictIsFounded
<1> QED BY <1>6, <1>8, <1>9, <1>10, <1>11 DEF ReviewInv

LEMMA StagesStep ==
  ReviewInv /\ (BatchEnds \/ WaitEnds \/ Cancelled \/ CancelBatch \/ CancelUnsettled \/ StopEnds) => ReviewInv'
<1> SUFFICES ASSUME ReviewInv,
                    BatchEnds \/ WaitEnds \/ Cancelled \/ CancelBatch \/ CancelUnsettled \/ StopEnds
             PROVE  ReviewInv'
  OBVIOUS
<1> USE DEF ReviewStages
<1>1. /\ reviewer \in [DOMAIN reviewer -> RunState] /\ IsFiniteSet(DOMAIN reviewer)
      /\ bins = [b \in DOMAIN bins |-> bins[b]] /\ IsFiniteSet(DOMAIN bins)
  BY DEF ReviewInv, ReviewTyped
<1>2. merged.overall # "correct"
  BY DEF ReviewInv, VerdictIsFounded, BatchEnds, WaitEnds, Cancelled, CancelBatch, CancelUnsettled, StopEnds
<1>3. CASE BatchEnds \/ WaitEnds \/ Cancelled
 <2>1. /\ UNCHANGED <<reviewer, bins, terminal, heard, merged>> /\ gaveUp' \in BOOLEAN /\ (gaveUp => gaveUp')
       /\ aborted' \in BOOLEAN
       /\ reviewStage' = "spawning" \/ (reviewStage' \in {"waiting", "cancelling"} /\ BatchDone)
   BY <1>3 DEF BatchEnds, WaitEnds, Cancelled, Aborts, StageBecomes, ReviewInv, ReviewTyped, SpawnsAreOver
 <2>2. ReviewTyped' BY <1>1, <2>1 DEF ReviewTyped
 <2> QED
   BY <1>2, <2>1, <2>2 DEF ReviewInv, SpawnsAreOver, UnstartedRaised, EndsAreKnown, EndsAreHeard, VerdictIsFounded,
                           BatchDone
<1>4. CASE CancelBatch
 <2>1. /\ reviewStage' = "cancelling" /\ gaveUp' = TRUE /\ UNCHANGED <<bins, terminal, heard, aborted, merged>>
       /\ reviewer' = [r \in DOMAIN reviewer |->
                   CASE reviewer[r] = "asked" -> "refused"
                     [] reviewer[r] = "registered" -> "unstarted" [] OTHER -> reviewer[r]]
   BY <1>4 DEF CancelBatch, StageBecomes
 <2>2. /\ DOMAIN reviewer' = DOMAIN reviewer /\ reviewer' \in [DOMAIN reviewer' -> RunState]
       /\ \A r \in DOMAIN reviewer : reviewer'[r] \notin {"asked", "registered"}
   BY <1>1, <2>1 DEF RunState
 <2>3. ReviewTyped' BY <1>1, <2>1, <2>2 DEF ReviewInv, ReviewTyped
 <2> QED
   BY <1>2, <2>1, <2>2, <2>3 DEF ReviewInv, SpawnsAreOver, UnstartedRaised, EndsAreKnown, EndsAreHeard,
                                 VerdictIsFounded, BatchDone
<1>5. CASE CancelUnsettled
 <2>1. /\ reviewStage' = "stopping" /\ reviewStage = "cancelling"
       /\ UNCHANGED <<bins, terminal, heard, aborted, merged, gaveUp>>
       /\ reviewer' = [r \in DOMAIN reviewer |-> IF r \in Unsettled THEN "stopping" ELSE reviewer[r]]
   BY <1>5 DEF CancelUnsettled, StageBecomes
 <2>2. /\ DOMAIN reviewer' = DOMAIN reviewer /\ reviewer' \in [DOMAIN reviewer' -> RunState]
       /\ \A r \in DOMAIN reviewer : reviewer'[r] = "stopping" \/ reviewer'[r] = reviewer[r]
   BY <1>1, <2>1 DEF RunState
 <2>3. ReviewTyped' BY <1>1, <2>1, <2>2 DEF ReviewInv, ReviewTyped
 <2> QED
   BY <1>2, <2>1, <2>2, <2>3 DEF ReviewInv, SpawnsAreOver, UnstartedRaised, EndsAreKnown, EndsAreHeard,
                                 VerdictIsFounded, BatchDone
<1>6. CASE StopEnds
 <2>1. /\ reviewStage' = "delivering" /\ reviewStage = "stopping" /\ terminal' = Spawned \ Unsettled
       /\ gaveUp' = (gaveUp \/ Unsettled # {})
       /\ UNCHANGED <<bins, reviewer, heard, aborted, merged>>
   BY <1>6 DEF StopEnds
 <2>2. ReviewTyped' BY <1>1, <2>1 DEF ReviewInv, ReviewTyped
 <2>3. EndsAreKnown' BY <2>1 DEF EndsAreKnown, Spawned, Unsettled
 <2> QED
   BY <1>2, <2>1, <2>2, <2>3 DEF ReviewInv, SpawnsAreOver, UnstartedRaised, EndsAreHeard, VerdictIsFounded,
                                 BatchDone
<1> QED BY <1>3, <1>4, <1>5, <1>6

\* A verdict without failures has a clean review of everyone.
LEMMA CleanVerdict ==
  ASSUME IsFiniteSet(DOMAIN reviewer), \A r \in terminal : r \in DOMAIN reviewer, Merged.overall = "correct"
  PROVE  \A r \in DOMAIN reviewer : reviewer[r] = Clean
<1> DEFINE results == {r \in terminal : reviewer[r] \in Output}
           poor == {r \in results : reviewer[r] \in {Garbage, Partial}}
           missing == DOMAIN reviewer \ results
<1>1. IsFiniteSet(missing) /\ IsFiniteSet(results) /\ IsFiniteSet(poor)
 <2>1. results \subseteq DOMAIN reviewer /\ poor \subseteq DOMAIN reviewer /\ missing \subseteq DOMAIN reviewer
   OBVIOUS
 <2> QED BY <2>1, FS_Subset
<1> HIDE DEF missing, poor
<1>2. Cardinality(missing) \in Nat /\ Cardinality(poor) \in Nat BY <1>1, FS_CardinalityType
<1>3. /\ ~(Cardinality(missing) + Cardinality(poor) > 0)
      /\ \A r \in results : reviewer[r] # Garbage => reviewer[r] # Flagged
  BY DEF Merged, Failures, missing, poor
<1>4. missing = {} /\ poor = {} BY <1>1, <1>2, <1>3, FS_EmptySet
<1> QED BY <1>3, <1>4 DEF missing, poor, Output

LEMMA DeliverStep == ReviewInv /\ DeliverReviews => ReviewInv'
<1> SUFFICES ASSUME ReviewInv, DeliverReviews PROVE ReviewInv' OBVIOUS
<1>1. /\ reviewStage = "delivering" /\ reviewStage' = "over"
      /\ UNCHANGED <<hunks, bins, preferred, reviewer, terminal, aborted>>
      /\ \/ heard' = heard \union terminal /\ gaveUp' = gaveUp
         \/ gaveUp' = TRUE /\ heard' = heard
      /\ merged' = (IF aborted THEN merged ELSE Merged)
  BY DEF DeliverReviews
<1>2. ReviewTyped' BY <1>1 DEF ReviewInv, ReviewTyped, ReviewStages
<1>3. SpawnsAreOver' /\ UnstartedRaised' /\ EndsAreKnown' /\ EndsAreHeard'
  BY <1>1 DEF ReviewInv, SpawnsAreOver, UnstartedRaised, EndsAreKnown, EndsAreHeard, BatchDone, Spawned, ReviewStages
<1>4. VerdictIsFounded'
 <2>1. SUFFICES ASSUME merged'.overall = "correct" PROVE \A r \in DOMAIN reviewer : reviewer[r] = Clean
   BY <1>1 DEF VerdictIsFounded
 <2>2. merged' = Merged BY <1>1, <2>1 DEF ReviewInv, VerdictIsFounded
 <2> QED BY <1>1, <2>1, <2>2, CleanVerdict DEF ReviewInv, ReviewTyped, EndsAreKnown
<1> QED BY <1>2, <1>3, <1>4 DEF ReviewInv

\* A review that calls a change correct has a clean review of every chunk, and one that has ended
\* leaves no reviewer behind or unheard, unless a wait has expired or a call has raised
\* (commands_review.py 376-491, 857-998): for any diff and any number of reviewers.
THEOREM ReviewersAreAccounted == ReviewSpec => []ReviewersAccounted
<1>1. ReviewInv /\ [ReviewNext]_reviewVars => ReviewInv'
 <2>1. ReviewInv /\ UNCHANGED reviewVars => ReviewInv'
   BY DEF reviewVars, ReviewInv, ReviewTyped, SpawnsAreOver, UnstartedRaised, EndsAreKnown, EndsAreHeard,
          VerdictIsFounded, BatchDone, Spawned
 <2> QED BY <2>1, PartitionStep, ReviewerStep, StagesStep, DeliverStep DEF ReviewNext
<1>2. ReviewInv => ReviewersAccounted
 <2> SUFFICES ASSUME ReviewInv PROVE ReviewersAccounted OBVIOUS
 <2>1. merged.overall = "correct" => \A r \in DOMAIN reviewer : reviewer[r] = Clean
   BY DEF ReviewInv, VerdictIsFounded
 <2>2. ASSUME reviewStage = "over", ~gaveUp, NEW r \in DOMAIN reviewer, reviewer[r] # "refused"
       PROVE  reviewer[r] \in Over /\ r \in heard
  <3>1. reviewer[r] \in RunState \ {"asked", "registered", "unstarted", "refused"}
    BY <2>2 DEF ReviewInv, ReviewTyped, SpawnsAreOver, UnstartedRaised, BatchDone, ReviewStages
  <3>2. r \in Spawned BY <3>1 DEF Spawned, RunState
  <3> QED BY <2>2, <3>2 DEF ReviewInv, EndsAreKnown, EndsAreHeard
 <2> QED BY <2>1, <2>2 DEF ReviewersAccounted
<1> QED BY <1>1, <1>2, ReviewStarts, PTL DEF ReviewSpec

-----------------------------------------------------------------------------
(* Reading in pages: what is known was shown, and a hint is a selector. *)

Lines == Seq(LineKind)

LEMMA LeastOfTwo ==
  ASSUME NEW a \in Int, NEW b \in Int
  PROVE  /\ LeastOf({a, b}) \in {a, b} /\ LeastOf({a, b}) <= a /\ LeastOf({a, b}) <= b
         /\ MostOf({a, b}) \in {a, b} /\ MostOf({a, b}) >= a /\ MostOf({a, b}) >= b
<1>1. \E n \in {a, b} : \A k \in {a, b} : n <= k OBVIOUS
<1>2. \E n \in {a, b} : \A k \in {a, b} : n >= k OBVIOUS
<1>3. LeastOf({a, b}) \in {a, b} /\ \A k \in {a, b} : LeastOf({a, b}) <= k
  BY <1>1 DEF LeastOf
<1>4. MostOf({a, b}) \in {a, b} /\ \A k \in {a, b} : MostOf({a, b}) >= k BY <1>2 DEF MostOf
<1> QED BY <1>3, <1>4

\* The numbers in order are numbers of the set, each less than the next.
LEMMA NumbersAscend ==
  ASSUME NEW S \in SUBSET Nat, IsFiniteSet(S)
  PROVE  /\ Ascending(S) \in Seq(S) /\ Len(Ascending(S)) = Cardinality(S) /\ Cardinality(S) \in Nat
         /\ \A i, j \in 1 .. Cardinality(S) : i < j => Ascending(S)[i] < Ascending(S)[j]
<1>1. Cardinality(S) \in Nat BY FS_CardinalityType
<1>2. Ascending(S) = [i \in 1 .. Cardinality(S) |-> At(S, i)] BY DEF Ascending, At
<1>3. \A i \in 1 .. Cardinality(S) : At(S, i) \in S /\ Below(S, At(S, i)) = i - 1
  BY AtIsKept
<1>4. Ascending(S) \in [1 .. Cardinality(S) -> S] BY <1>2, <1>3
<1>5. ASSUME NEW i \in 1 .. Cardinality(S), NEW j \in 1 .. Cardinality(S), i < j
      PROVE  At(S, i) < At(S, j)
 <2>1. PICK a \in Nat : a = At(S, i) BY <1>3
 <2>2. PICK b \in Nat : b = At(S, j) BY <1>3
 <2>3. a \in S /\ b \in S /\ Below(S, a) = i - 1 /\ Below(S, b) = j - 1 BY <1>3, <2>1, <2>2
 <2>4. i \in Int /\ j \in Int BY <1>1
 <2>5. CASE b < a
  <3>1. Below(S, b) < Below(S, a) BY <2>3, <2>5, LaterIsHigher
  <3> QED BY <1>5, <2>3, <2>4, <3>1
 <2>6. CASE a = b BY <1>5, <2>3, <2>4, <2>6
 <2> QED BY <2>1, <2>2, <2>5, <2>6
<1> QED BY <1>1, <1>2, <1>4, <1>5

\* A range without an end is a selector, and one with an end that is not before its beginning.
LEMMA FormsOfHints ==
  /\ \A n : \A f \in Onward(n).forms : ~NotASelector(f)
  /\ \A n \in Int, k \in Int :
       1 <= k /\ n <= k => \A f \in FromTo(n, k).forms : ~NotASelector(f)
<1>1. ASSUME NEW n PROVE \A f \in Onward(n).forms : ~NotASelector(f)
 <2>1. Onward(n).forms = {[op |-> "", n |-> n, k |-> 0]} BY DEF Onward
 <2>2. [op |-> "", n |-> n, k |-> 0].op = "" OBVIOUS
 <2>3. \A f : f.op = "" => ~NotASelector(f) BY DEF NotASelector
 <2> QED BY <2>1, <2>2, <2>3
<1>2. ASSUME NEW n \in Int, NEW k \in Int, 1 <= k, n <= k
      PROVE  \A f \in FromTo(n, k).forms : ~NotASelector(f)
 <2>1. FromTo(n, k).forms = {[op |-> "-", n |-> n, k |-> k]} BY DEF FromTo
 <2>2. [op |-> "-", n |-> n, k |-> k].n = n /\ [op |-> "-", n |-> n, k |-> k].k = k OBVIOUS
 <2>3. \A f : f.n = n /\ f.k = k => ~NotASelector(f) BY <1>2 DEF NotASelector
 <2> QED BY <2>1, <2>2, <2>3
<1> QED BY <1>1, <1>2

AllSelectors(hs) == \A h \in hs : \A f \in h.forms : ~NotASelector(f)

\* What lies between the first lines and the last ones begins after those and ends before these.
LEMMA MiddleIsARange ==
  ASSUME NEW S \in SUBSET (Nat \ {0}), IsFiniteSet(S), NEW lines, NEW gutter
  PROVE  AllSelectors(Bounded(lines, Ascending(S), gutter).hints)
<1> DEFINE N == Ascending(S)
           n == Cardinality(S)
           kept == HeadAndTail(N)
           middle == Len(N) - Len(kept.head) - Len(kept.tail)
<1>1. /\ N \in Seq(S) /\ Len(N) = n /\ n \in Nat /\ \A i \in 1 .. n : N[i] \in S
      /\ \A i, j \in 1 .. n : i < j => N[i] < N[j]
  BY NumbersAscend, ElementOfSeq
<1>2. HeadLines \in Nat \ {0} /\ TailLines \in Nat \ {0} BY PagesAssumption
<1>a. HeadLines \in Int /\ n \in Int /\ n - TailLines \in Int BY <1>1, <1>2
<1>3. PICK h \in Nat : h = LeastOf({HeadLines, n}) /\ h \in {HeadLines, n} /\ h <= HeadLines /\ h <= n
 <2> HIDE DEF n
 <2>1. /\ LeastOf({HeadLines, n}) \in {HeadLines, n}
       /\ LeastOf({HeadLines, n}) <= HeadLines /\ LeastOf({HeadLines, n}) <= n
   BY <1>a, LeastOfTwo
 <2> QED BY <1>1, <1>2, <2>1
<1>4. PICK t \in Int : /\ t = MostOf({HeadLines, n - TailLines}) /\ t \in {HeadLines, n - TailLines}
                       /\ t >= HeadLines /\ t >= n - TailLines
 <2> DEFINE m == n - TailLines
 <2> HIDE DEF n, m
 <2>1. MostOf({HeadLines, m}) \in {HeadLines, m} /\ MostOf({HeadLines, m}) >= HeadLines
       /\ MostOf({HeadLines, m}) >= m /\ m \in Int
   BY <1>a, LeastOfTwo DEF m
 <2>2. MostOf({HeadLines, m}) \in Int BY <1>a, <2>1
 <2> QED BY <2>1, <2>2 DEF m
<1>5. kept.head = SubSeq(N, 1, h) /\ kept.tail = SubSeq(N, t + 1, n)
  BY <1>1, <1>3, <1>4 DEF HeadAndTail
<1> HIDE DEF N, n, kept
<1>6. Len(kept.head) = h /\ (h > 0 => Last(kept.head) = N[h]) BY <1>1, <1>3, <1>5 DEF Last
<1>7. Len(kept.tail) = (IF t < n THEN n - t ELSE 0) /\ (t < n => Head(kept.tail) = N[t + 1])
  BY <1>1, <1>2, <1>4, <1>5, SMTT(30)
<1>8. ASSUME middle # 0
      PROVE  /\ Last(kept.head) + 1 \in Int /\ Head(kept.tail) - 1 \in Int
             /\ Head(kept.tail) - 1 >= 1 /\ Last(kept.head) + 1 <= Head(kept.tail) - 1
 <2>1. h = HeadLines /\ HeadLines < n /\ t = n - TailLines /\ h < t /\ t < n
   BY <1>1, <1>2, <1>3, <1>4, <1>6, <1>7, <1>8, SMTT(30)
 <2>2. Last(kept.head) = N[h] /\ Head(kept.tail) = N[t + 1] BY <1>2, <1>6, <1>7, <2>1
 <2>3. h \in 1 .. n /\ h + 1 \in 1 .. n /\ t + 1 \in 1 .. n /\ h < h + 1 /\ h + 1 < t + 1
   BY <1>1, <1>2, <2>1
 <2>4. N[h] < N[h + 1] /\ N[h + 1] < N[t + 1] BY <1>1, <2>3
 <2>5. N[h] \in Nat \ {0} /\ N[h + 1] \in Nat \ {0} /\ N[t + 1] \in Nat \ {0} BY <1>1, <2>3
 <2> QED BY <2>2, <2>4, <2>5
<1>9. Bounded(lines, N, gutter).hints =
        IF middle = 0 THEN {} ELSE {FromTo(Last(kept.head) + 1, Head(kept.tail) - 1)}
  BY DEF Bounded, kept
<1>10. CASE middle = 0 BY <1>9, <1>10 DEF AllSelectors, N
<1>11. CASE middle # 0
 <2> HIDE DEF middle
 <2>1. AllSelectors({FromTo(Last(kept.head) + 1, Head(kept.tail) - 1)})
   BY <1>8, <1>11, FormsOfHints DEF AllSelectors
 <2> QED BY <1>9, <1>11, <2>1 DEF N
<1> QED BY <1>10, <1>11

LEMMA AnswersHints ==
  ASSUME NEW lines \in Lines, NEW sel
  PROVE  AllSelectors(Answer(lines, sel).hints)
<1> DEFINE total == Len(lines)
           wanted == WantedLines(sel, total) \cap 1 .. total
           gutter == IF sel.raw THEN 0 ELSE Gutter
           cut == Bounded(lines, Ascending(wanted), gutter)
<1>1. total \in Nat BY DEF Lines
<1>2. wanted \in SUBSET (Nat \ {0}) /\ IsFiniteSet(wanted)
 <2>1. IsFiniteSet(1 .. total) BY <1>1, CountedInterval
 <2>2. wanted \subseteq 1 .. total OBVIOUS
 <2> HIDE DEF wanted
 <2>3. IsFiniteSet(wanted) BY <2>1, <2>2, FS_Subset
 <2>4. 1 .. total \subseteq Nat \ {0} BY <1>1
 <2> QED BY <2>2, <2>3, <2>4
<1>3. AllSelectors(cut.hints)
 <2> HIDE DEF wanted, gutter
 <2> QED BY <1>2, MiddleIsARange
<1>4. \A n : AllSelectors({Onward(n)}) BY FormsOfHints DEF AllSelectors
<1>5. \A n, k : AllSelectors(Continuation(n, k)) BY <1>4 DEF Continuation
<1>6. AllSelectors({}) BY DEF AllSelectors
<1>7. CASE wanted = {}
 <2>1. Answer(lines, sel).hints = IF total = 0 THEN {} ELSE {Onward(1)} BY <1>7 DEF Answer
 <2> QED BY <1>4, <1>6, <2>1
<1>8. CASE wanted # {}
 <2>1. PICK n, k : Answer(lines, sel).hints \subseteq cut.hints \union Continuation(n, k)
  <3> DEFINE n == Last(Ascending(wanted))
  <3>1. Answer(lines, sel).hints \subseteq cut.hints \union Continuation(n, total)
    BY <1>8 DEF Answer
  <3> QED BY <3>1
 <2> HIDE DEF cut
 <2> QED BY <1>3, <1>5, <2>1 DEF AllSelectors
<1> QED BY <1>7, <1>8

\* A read has a record with what the file it has open holds.
ARead(p) ==
  /\ p = [sel |-> p.sel, digest |-> p.digest, of |-> p.of, held |-> p.held]
  /\ p.held \in Lines

PagesInv ==
  /\ text \in Lines
  /\ pass # NoText => ARead(pass[1])
  /\ editing # NoText => editing[1] \in Lines
  /\ KnownWasShown

LEMMA FirstOfOne == \A x : <<x>> # NoText /\ <<x>>[1] = x
BY DEF NoText

LEMMA KnownKept ==
  ASSUME KnownWasShown,
         \/ UNCHANGED knownText /\ UNCHANGED shownOf
         \/ \E lines : knownText' = <<[of |-> lines, how |-> "written"]>>,
         UNCHANGED hints
  PROVE  KnownWasShown'
<1>1. \A h \in hints' : \A f \in h.forms : ~NotASelector(f) BY DEF KnownWasShown
<1>2. CASE UNCHANGED knownText /\ UNCHANGED shownOf BY <1>1, <1>2 DEF KnownWasShown
<1>3. CASE \E lines : knownText' = <<[of |-> lines, how |-> "written"]>>
 <2>1. PICK lines : knownText' = <<[of |-> lines, how |-> "written"]>> BY <1>3
 <2>2. knownText'[1] = [of |-> lines, how |-> "written"] BY <2>1
 <2>3. knownText'[1].how # "read" BY <2>2
 <2> QED BY <1>1, <2>3 DEF KnownWasShown
<1> QED BY <1>2, <1>3

LEMMA RewordingsAreLines == text \in Lines => Rewordings \subseteq Lines
<1> SUFFICES ASSUME text \in Lines, NEW lines \in Rewordings PROVE lines \in Lines OBVIOUS
<1>1. CASE \E l \in LineKind : lines = Append(text, l) BY <1>1 DEF Lines
<1>2. CASE text # <<>> /\ lines = Front(text) BY <1>2 DEF Lines, Front
<1> QED BY <1>1, <1>2 DEF Rewordings

\* Another file takes the place of the one before, or somebody writes into it.
LEMMA SecondPassKeeps == PagesInv /\ SecondPass => PagesInv'
<1> SUFFICES ASSUME PagesInv, SecondPass PROVE PagesInv' OBVIOUS
<1> DEFINE p == pass[1]
           answer == Answer(p.held, p.sel)
<1>1. pass # NoText /\ pass' = NoText /\ text' = text /\ editing' = editing /\ ARead(p)
  BY DEF SecondPass, PagesInv
<1>2. AllSelectors(answer.hints) BY <1>1, AnswersHints DEF ARead
<1>3. AllSelectors(hints) BY DEF PagesInv, KnownWasShown, AllSelectors
<1>4. CASE p.held # p.digest
 <2>1. UNCHANGED <<knownText, shownOf, hints>> BY <1>4 DEF SecondPass
 <2> QED BY <1>1, <2>1, KnownKept DEF PagesInv
<1>5. CASE p.held = p.digest
 <2>1. knownText' = <<[of |-> p.digest, how |-> "read"]>> /\ shownOf' = <<p.held>>
   BY <1>5 DEF SecondPass
 <2>2. hints' \subseteq hints \union answer.hints BY <1>5 DEF SecondPass
 <2>3. AllSelectors(hints')
  <3> HIDE DEF answer
  <3> QED BY <1>2, <1>3, <2>2 DEF AllSelectors
 <2>4. knownText'[1].of = p.digest BY <2>1
 <2> QED BY <1>1, <1>5, <2>1, <2>3, <2>4 DEF PagesInv, KnownWasShown, AllSelectors
<1> QED BY <1>4, <1>5

LEMMA PagesStep == PagesInv /\ [PagesNext]_pageVars => PagesInv'
<1> SUFFICES ASSUME PagesInv, [PagesNext]_pageVars PROVE PagesInv' OBVIOUS
<1>1. ASSUME NEW sel \in FirstAsked \cup hints, FirstPass(sel) PROVE PagesInv'
 <2>1. /\ pass' = <<[sel |-> sel, digest |-> text, of |-> inode, held |-> text]>>
       /\ UNCHANGED <<text, editing, knownText, shownOf, hints>>
   BY <1>1 DEF FirstPass
 <2>2. ARead([sel |-> sel, digest |-> text, of |-> inode, held |-> text])
   BY DEF ARead, PagesInv
 <2>3. ARead(pass'[1]) BY <2>1, <2>2
 <2>4. KnownWasShown' BY <2>1, KnownKept DEF PagesInv
 <2> QED BY <2>1, <2>3, <2>4 DEF PagesInv
<1>2. CASE SecondPass BY <1>2, SecondPassKeeps
<1>3. CASE EditChecks
 <2>1. editing' = <<text>> /\ UNCHANGED <<text, pass, knownText, shownOf, hints>>
   BY <1>3 DEF EditChecks
 <2>2. KnownWasShown' BY <2>1, KnownKept DEF PagesInv
 <2> QED BY <2>1, <2>2 DEF PagesInv
<1>4. CASE EditWrites
 <2>1. PICK l \in LineKind : WritesText(Append(editing[1], l)) BY <1>4 DEF EditWrites
 <2>2. /\ editing # NoText /\ editing' = NoText /\ pass' = pass /\ UNCHANGED <<shownOf, hints>>
       /\ text' = Append(editing[1], l)
       /\ knownText' = <<[of |-> Append(editing[1], l), how |-> "written"]>>
   BY <1>4, <2>1 DEF EditWrites, WritesText, Replaces
 <2>3. text' \in Lines BY <2>2 DEF PagesInv, Lines
 <2>4. KnownWasShown' BY <2>2, KnownKept DEF PagesInv
 <2> QED BY <2>2, <2>3, <2>4 DEF PagesInv
<1>5. CASE WriteFile
 <2>1. PICK lines \in Rewordings : WritesText(lines) BY <1>5 DEF WriteFile
 <2>2. /\ pass' = pass /\ UNCHANGED <<editing, shownOf, hints>> /\ text' = lines
       /\ knownText' = <<[of |-> lines, how |-> "written"]>>
   BY <1>5, <2>1 DEF WriteFile, WritesText, Replaces
 <2>3. text' \in Lines BY <2>1, <2>2, RewordingsAreLines DEF PagesInv
 <2>4. KnownWasShown' BY <2>2, KnownKept DEF PagesInv
 <2> QED BY <2>2, <2>3, <2>4 DEF PagesInv
<1>6. CASE OthersReplace
 <2>1. text' \in Rewordings /\ pass' = pass /\ UNCHANGED <<editing, knownText, shownOf, hints>>
   BY <1>6 DEF OthersReplace, Replaces
 <2>2. KnownWasShown' BY <2>1, KnownKept DEF PagesInv
 <2> QED BY <2>1, <2>2, RewordingsAreLines DEF PagesInv
<1>7. CASE OthersWriteInto
 <2>1. /\ text' \in Rewordings /\ UNCHANGED <<editing, knownText, shownOf, hints>>
       /\ pass' \in {pass, <<[pass[1] EXCEPT !.held = text']>>}
       /\ pass' # pass => pass # NoText
   BY <1>7 DEF OthersWriteInto
 <2>2. KnownWasShown' /\ text' \in Lines BY <2>1, KnownKept, RewordingsAreLines DEF PagesInv
 <2>3. ASSUME pass # NoText PROVE ARead([pass[1] EXCEPT !.held = text'])
  <3>1. PICK p : p = pass[1] /\ ARead(p) BY <2>3 DEF PagesInv
  <3>2. [p EXCEPT !.held = text'] =
          [sel |-> p.sel, digest |-> p.digest, of |-> p.of, held |-> text']
    BY <3>1 DEF ARead
  <3>3. ARead([sel |-> p.sel, digest |-> p.digest, of |-> p.of, held |-> text'])
    BY <2>2 DEF ARead
  <3> QED BY <3>1, <3>2, <3>3
 <2>4. pass' # NoText => ARead(pass'[1])
  <3>1. CASE pass' = pass BY <3>1 DEF PagesInv
  <3>2. CASE pass' # pass
   <4>1. pass' = <<[pass[1] EXCEPT !.held = text']>> /\ ARead([pass[1] EXCEPT !.held = text'])
     BY <2>1, <2>3, <3>2
   <4> QED BY <4>1, FirstOfOne
  <3> QED BY <3>1, <3>2
 <2> QED BY <2>1, <2>2, <2>4 DEF PagesInv
<1>8. CASE UNCHANGED pageVars
 <2>1. UNCHANGED <<text, pass, editing, knownText, shownOf, hints>> BY <1>8 DEF pageVars
 <2>2. KnownWasShown' BY <2>1, KnownKept DEF PagesInv
 <2> QED BY <2>1, <2>2 DEF PagesInv
<1> QED BY <1>1, <1>2, <1>3, <1>4, <1>5, <1>6, <1>7, <1>8 DEF PagesNext

LEMMA PagesBegin == PagesInit => PagesInv
<1> SUFFICES ASSUME PagesInit PROVE PagesInv OBVIOUS
<1>1. text \in Lines
 <2>1. PICK n \in 0 .. MaxLines : text \in [1 .. n -> LineKind] BY DEF PagesInit, SmallTexts
 <2>2. n \in Nat BY PagesAssumption
 <2> QED BY <2>1, <2>2 DEF Lines
<1>2. KnownWasShown BY DEF PagesInit, KnownWasShown
<1> QED BY <1>1, <1>2 DEF PagesInit, PagesInv

\* What a read has left as the text to be edited is what its answer showed, and no hint of an
\* answer is a selector that would be refused, for any files, selectors, budgets and writers
\* (filesystem.py 90-167, 205-311).
THEOREM ReadsShowWhatTheyLeave == PagesSpec => []KnownWasShown
<1>1. PagesInv => KnownWasShown BY DEF PagesInv
<1> QED BY <1>1, PagesBegin, PagesStep, PTL DEF PagesSpec
=============================================================================
