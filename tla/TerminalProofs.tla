---------------------------- MODULE TerminalProofs ----------------------------
(***************************************************************************)
(* The terminal: frames are whole and are painted again whatever the pump  *)
(* and the terminal do, no tool runs that nobody approved, however         *)
(* overlays, cancellations and turns interleave, the agents hub acts on    *)
(* the worker its cursor shows, whatever the workers publish meanwhile,    *)
(* and the status line tells of the session in use, whatever is read for   *)
(* others.                                                                 *)
(***************************************************************************)
EXTENDS Approvals, TerminalOutput, AgentsScreen, StatusLine, SequenceTheorems, FiniteSetTheorems,
        TLAPS

-----------------------------------------------------------------------------
(* Approvals: an inquiry. *)

InquiryShape ==
  [stage : {"ask", "waiting", "shown"}, actions : Seq(Tool), allowed : SUBSET Tool,
   changed : BOOLEAN, decisions : Seq({"approve", "reject"}),
   said : Seq({"approve", "always", "no"}), known : SUBSET Tool]

\* A name that the handler lets pass was allowed before, or the user has said so in this inquiry.
AllowedFor(a) ==
  \A t \in a.allowed : \/ t \in a.known
                       \/ \E j \in DOMAIN a.said : a.said[j] = "always" /\ a.actions[j] = t

\* What NothingUnapproved says of one inquiry.
ApprovedFor(a) ==
  \A i \in DOMAIN a.decisions : a.decisions[i] = "approve" =>
    \/ a.said[i] \in {"approve", "always"}
    \/ a.actions[i] \in a.known
    \/ \E j \in 1 .. i - 1 : a.said[j] = "always" /\ a.actions[j] = a.actions[i]

\* An inquiry is in order: one answer for each decision, and it waits for one that is left.
Sound(a) ==
  /\ a \in InquiryShape
  /\ Len(a.said) = Len(a.decisions) /\ Len(a.decisions) <= Len(a.actions)
  /\ a.stage # "ask" => Remaining(a)
  /\ AllowedFor(a) /\ ApprovedFor(a)

InquiriesSound ==
  /\ DOMAIN inquiry = Host /\ always \subseteq Tool
  /\ \A h \in Host : inquiry[h] = Unraised \/ Sound(inquiry[h])

\* An answer that the user gave, and a name that was allowed, make a decision that is in order.
LEMMA DecidedIsSound ==
  ASSUME NEW a, Sound(a), Remaining(a), NEW said \in {"approve", "always", "no"},
         NEW choice \in {"approve", "always", "reject"},
         choice = "always" => said = "always",
         choice = "approve" => said = "approve" \/ a.actions[Len(a.decisions) + 1] \in a.allowed
  PROVE  Sound(Decided(a, said, choice)) /\ Decided(a, said, choice).stage = "ask"
<1> DEFINE b == Decided(a, said, choice)
           decision == IF choice = "always" THEN "approve" ELSE choice
<1>1. PICK n \in Nat : n = Len(a.decisions) BY DEF Sound, InquiryShape
<1>2. /\ a.actions \in Seq(Tool) /\ Len(a.actions) \in Nat /\ n + 1 \in 1 .. Len(a.actions)
      /\ a.decisions \in Seq({"approve", "reject"}) /\ DOMAIN a.decisions = 1 .. n
      /\ a.said \in Seq({"approve", "always", "no"}) /\ Len(a.said) = n /\ DOMAIN a.said = 1 .. n
      /\ a.allowed \subseteq Tool /\ a.known \subseteq Tool
  BY <1>1 DEF Sound, InquiryShape, Remaining
<1>3. /\ b.stage = "ask" /\ b.actions = a.actions /\ b.known = a.known
      /\ b.decisions = Append(a.decisions, decision) /\ b.said = Append(a.said, said)
      /\ b.allowed = IF choice = "always" THEN a.allowed \union {a.actions[n + 1]} ELSE a.allowed
  BY <1>1 DEF Decided, Sound, InquiryShape
<1>4. b \in InquiryShape
 <2>1. a.actions[n + 1] \in Tool BY <1>2
 <2>2. b.allowed \subseteq Tool BY <1>2, <1>3, <2>1
 <2>3. b.decisions \in Seq({"approve", "reject"}) /\ b.said \in Seq({"approve", "always", "no"})
   BY <1>2, <1>3
 <2>4. b = [a EXCEPT !.stage = "ask", !.allowed = b.allowed, !.changed = b.changed,
                     !.decisions = b.decisions, !.said = b.said]
   BY DEF Decided, Sound, InquiryShape
 <2>5. b.changed = (a.changed \/ choice = "always") /\ b.changed \in BOOLEAN
   BY DEF Decided, Sound, InquiryShape
 <2> HIDE DEF b
 <2> QED BY <2>2, <2>3, <2>4, <2>5 DEF Sound, InquiryShape
<1> HIDE DEF b
<1>5. /\ Len(b.decisions) = n + 1 /\ DOMAIN b.decisions = 1 .. n + 1
      /\ Len(b.said) = n + 1 /\ DOMAIN b.said = 1 .. n + 1
      /\ b.decisions[n + 1] = decision /\ b.said[n + 1] = said
      /\ \A i \in 1 .. n : b.decisions[i] = a.decisions[i] /\ b.said[i] = a.said[i]
  BY <1>1, <1>2, <1>3
<1>6. AllowedFor(b)
 <2> SUFFICES ASSUME NEW t \in b.allowed, t \notin b.known
              PROVE  \E j \in 1 .. n + 1 : b.said[j] = "always" /\ b.actions[j] = t
   BY <1>5 DEF AllowedFor
 <2>1. CASE t \in a.allowed
  <3>1. PICK j \in 1 .. n : a.said[j] = "always" /\ a.actions[j] = t
    BY <1>2, <1>3, <2>1 DEF Sound, AllowedFor
  <3>2. j \in 1 .. n + 1 OBVIOUS
  <3> QED BY <1>3, <1>5, <3>1, <3>2
 <2>2. CASE t \notin a.allowed
  <3>1. t = a.actions[n + 1] /\ choice = "always" /\ said = "always" BY <1>3, <2>2
  <3>2. n + 1 \in 1 .. n + 1 OBVIOUS
  <3> QED BY <1>3, <1>5, <3>1, <3>2
 <2> QED BY <2>1, <2>2
<1>7. ApprovedFor(b)
 <2> SUFFICES ASSUME NEW i \in 1 .. n + 1, b.decisions[i] = "approve",
                     b.said[i] \notin {"approve", "always"}, b.actions[i] \notin b.known
              PROVE  \E j \in 1 .. i - 1 : b.said[j] = "always" /\ b.actions[j] = b.actions[i]
   BY <1>5 DEF ApprovedFor
 <2>1. CASE i \in 1 .. n
  <3>1. PICK j \in 1 .. i - 1 : a.said[j] = "always" /\ a.actions[j] = a.actions[i]
    BY <1>2, <1>3, <1>5, <2>1 DEF Sound, ApprovedFor
  <3>2. j \in 1 .. n BY <2>1
  <3> QED BY <1>3, <1>5, <3>1, <3>2
 <2>2. CASE i = n + 1
  <3>1. a.actions[n + 1] \in a.allowed /\ a.actions[n + 1] \notin a.known
    BY <1>1, <1>3, <1>5, <2>2
  <3>2. PICK j \in 1 .. n : a.said[j] = "always" /\ a.actions[j] = a.actions[n + 1]
    BY <1>2, <3>1 DEF Sound, AllowedFor
  <3>3. j \in 1 .. i - 1 BY <2>2
  <3> QED BY <1>3, <1>5, <2>2, <3>2, <3>3
 <2> QED BY <2>1, <2>2
<1>8. Len(b.actions) \in Nat /\ n + 1 <= Len(b.actions) BY <1>2, <1>3
<1>9. Sound(b) BY <1>3, <1>4, <1>5, <1>6, <1>7, <1>8 DEF Sound
<1> QED BY <1>3, <1>9 DEF b

LEMMA AnswerIsSound ==
  ASSUME InquiriesSound, NEW h \in Host, Sound(inquiry[h]), Remaining(inquiry[h]),
         NEW answer \in Answer, Answered(h, answer)
  PROVE  /\ inquiry' = [inquiry EXCEPT ![h] = inquiry'[h]]
         /\ Sound(inquiry'[h]) /\ inquiry'[h].stage = "ask"
<1>1. inquiry' = [inquiry EXCEPT ![h] = Decided(inquiry[h], Said(answer), ChoiceOf(answer))]
  BY DEF Answered
<1>2. inquiry'[h] = Decided(inquiry[h], Said(answer), ChoiceOf(answer))
  BY <1>1 DEF InquiriesSound
<1>3. /\ Said(answer) \in {"approve", "always", "no"}
      /\ ChoiceOf(answer) \in {"approve", "always", "reject"}
      /\ ChoiceOf(answer) \in {"approve", "always"} => Said(answer) = ChoiceOf(answer)
  BY DEF Answer, Said, ChoiceOf
<1>4. PICK a, said, choice : a = inquiry[h] /\ said = Said(answer) /\ choice = ChoiceOf(answer)
  OBVIOUS
<1>5. Sound(Decided(a, said, choice)) /\ Decided(a, said, choice).stage = "ask"
 <2>1. /\ said \in {"approve", "always", "no"} /\ choice \in {"approve", "always", "reject"}
       /\ choice = "always" => said = "always"
       /\ choice = "approve" => said = "approve"
   BY <1>3, <1>4
 <2>2. Sound(a) /\ Remaining(a) BY <1>4
 <2> QED BY <2>1, <2>2, DecidedIsSound
<1>6. PICK x : x = Decided(a, said, choice) OBVIOUS
<1>7. inquiry' = [inquiry EXCEPT ![h] = x] /\ inquiry'[h] = x BY <1>1, <1>2, <1>4, <1>6
<1> QED BY <1>5, <1>6, <1>7

-----------------------------------------------------------------------------
(* The queue for the overlay lock: an approval waits in one place. *)

Overlay == Host \union {"picker"}
Once(q) == \A i, j \in DOMAIN q : q[i] = q[j] /\ q[i] \in Host => i = j

OverlaysSound ==
  /\ shown \subseteq Overlay /\ overlayQueue \in Seq(Overlay) /\ stopping \in BOOLEAN
  /\ OneOverlay /\ Once(overlayQueue)

LEMMA QueueGrows ==
  ASSUME NEW q \in Seq(Overlay), Once(q), NEW x \in Overlay, x \in Host => x \notin ToSet(q)
  PROVE  /\ Append(q, x) \in Seq(Overlay) /\ Once(Append(q, x))
         /\ ToSet(Append(q, x)) = ToSet(q) \union {x}
<1> DEFINE r == Append(q, x)
<1>1. PICK n \in Nat : n = Len(q) OBVIOUS
<1>2. /\ r \in Seq(Overlay) /\ DOMAIN r = 1 .. n + 1 /\ DOMAIN q = 1 .. n /\ r[n + 1] = x
      /\ \A i \in 1 .. n : r[i] = q[i]
  BY <1>1
<1> HIDE DEF r
<1>3. \A i \in 1 .. n + 1 : i = n + 1 \/ i \in 1 .. n OBVIOUS
<1>4. ToSet(r) = ToSet(q) \union {x}
 <2>1. \A i \in 1 .. n : i \in 1 .. n + 1 OBVIOUS
 <2>2. n + 1 \in 1 .. n + 1 OBVIOUS
 <2>3. ASSUME NEW y PROVE y \in ToSet(r) <=> y \in ToSet(q) \union {x}
   BY <1>2, <1>3, <2>1, <2>2 DEF ToSet
 <2> QED BY <2>3
<1>5. ASSUME NEW i \in 1 .. n + 1, NEW j \in 1 .. n + 1, r[i] = r[j], r[i] \in Host PROVE i = j
 <2>1. CASE i \in 1 .. n /\ j \in 1 .. n BY <1>2, <1>5, <2>1 DEF Once
 <2>2. CASE i \in 1 .. n /\ j = n + 1 BY <1>2, <1>5, <2>2 DEF ToSet
 <2>3. CASE i = n + 1 /\ j \in 1 .. n BY <1>2, <1>5, <2>3 DEF ToSet
 <2> QED BY <1>3, <2>1, <2>2, <2>3
<1> QED BY <1>2, <1>4, <1>5 DEF Once, r

\* r is q without its place i.
IsWithout(r, q, i) ==
  /\ r \in Seq(Overlay) /\ Len(r) = Len(q) - 1
  /\ \A m \in DOMAIN r : r[m] = q[IF m < i THEN m ELSE m + 1]

LEMMA QueueShrinks ==
  ASSUME NEW q \in Seq(Overlay), Once(q), NEW i \in DOMAIN q, NEW r, IsWithout(r, q, i)
  PROVE  /\ r \in Seq(Overlay) /\ Once(r)
         /\ \A x \in Host : x \in ToSet(r) <=> x \in ToSet(q) /\ x # q[i]
<1>1. PICK n \in Nat : n = Len(q) OBVIOUS
<1>2. /\ DOMAIN q = 1 .. n /\ i \in 1 .. n /\ r \in Seq(Overlay) /\ DOMAIN r = 1 .. n - 1
      /\ \A m \in 1 .. n - 1 : r[m] = q[IF m < i THEN m ELSE m + 1]
  BY <1>1 DEF IsWithout
<1>3. \A m \in 1 .. n - 1 : (IF m < i THEN m ELSE m + 1) \in 1 .. n /\ (IF m < i THEN m ELSE m + 1) # i
  BY <1>2
<1>4. \A l, m \in 1 .. n - 1 : (IF m < i THEN m ELSE m + 1) = (IF l < i THEN l ELSE l + 1) => m = l
  BY <1>2
<1>5. ASSUME NEW m \in 1 .. n - 1, NEW l \in 1 .. n - 1, r[m] = r[l], r[m] \in Host PROVE m = l
 <2>1. (IF m < i THEN m ELSE m + 1) = (IF l < i THEN l ELSE l + 1)
   BY <1>2, <1>3, <1>5 DEF Once
 <2> QED BY <1>4, <2>1
<1>6. ASSUME NEW x \in Host, x \in ToSet(r) PROVE x \in ToSet(q) /\ x # q[i]
 <2>1. PICK m \in 1 .. n - 1 : x = r[m] BY <1>2, <1>6 DEF ToSet
 <2>2. PICK k \in 1 .. n : x = q[k] /\ k # i BY <1>2, <1>3, <2>1
 <2> QED BY <1>2, <2>2 DEF ToSet, Once
<1>7. ASSUME NEW x \in Host, x \in ToSet(q), x # q[i] PROVE x \in ToSet(r)
 <2>1. PICK k \in 1 .. n : x = q[k] /\ k # i BY <1>2, <1>7 DEF ToSet
 <2>2. CASE k < i
  <3>1. k \in 1 .. n - 1 /\ r[k] = q[k] BY <1>2, <2>2
  <3> QED BY <1>2, <2>1, <3>1 DEF ToSet
 <2>3. CASE k > i
  <3>1. PICK m \in 1 .. n - 1 : m + 1 = k /\ ~(m < i)
   <4>1. k - 1 \in 1 .. n - 1 /\ (k - 1) + 1 = k /\ ~(k - 1 < i) BY <1>2, <2>3
   <4> QED BY <4>1
  <3>2. r[m] = q[k] BY <1>2, <3>1
  <3> QED BY <1>2, <2>1, <3>2 DEF ToSet
 <2> QED BY <1>2, <2>1, <2>2, <2>3
<1> QED BY <1>2, <1>5, <1>6, <1>7 DEF Once

LEMMA TailIsWithout ==
  ASSUME NEW q \in Seq(Overlay), q # <<>>
  PROVE  1 \in DOMAIN q /\ Head(q) = q[1] /\ Head(q) \in Overlay /\ IsWithout(Tail(q), q, 1)
<1>1. PICK n \in Nat : n = Len(q) OBVIOUS
<1>2. n >= 1 /\ DOMAIN q = 1 .. n /\ Tail(q) \in Seq(Overlay) /\ Len(Tail(q)) = n - 1 /\ Head(q) = q[1]
  BY <1>1
<1>3. \A m \in 1 .. n - 1 : Tail(q)[m] = q[m + 1] /\ ~(m < 1) BY <1>1, <1>2
<1>4. 1 \in 1 .. n /\ \A m \in 1 .. n : q[m] \in Overlay BY <1>1, <1>2
<1>5. DOMAIN Tail(q) = 1 .. n - 1 BY <1>2
<1> QED BY <1>1, <1>2, <1>3, <1>4, <1>5 DEF IsWithout

LEMMA RemovedIsWithout ==
  ASSUME NEW q \in Seq(Overlay), NEW i \in DOMAIN q
  PROVE  IsWithout(RemoveAt(q, i), q, i)
<1>1. PICK n \in Nat, lo \in Int, hi \in Int : n = Len(q) /\ lo = i + 1 /\ hi = i - 1
  OBVIOUS
<1>2. DOMAIN q = 1 .. n /\ i \in 1 .. n /\ \A m \in 1 .. n : q[m] \in Overlay BY <1>1
<1>3. PICK a, b : a = SubSeq(q, 1, hi) /\ b = SubSeq(q, lo, n) OBVIOUS
<1>a. ASSUME NEW k \in Int, NEW l \in Int, \A m \in k .. l : q[m] \in Overlay
      PROVE  /\ SubSeq(q, k, l) \in Seq(Overlay)
             /\ Len(SubSeq(q, k, l)) = IF k <= l THEN l - k + 1 ELSE 0
             /\ \A m \in 1 .. l - k + 1 : SubSeq(q, k, l)[m] = q[k + m - 1]
  BY <1>a, SubSeqProperties, SMTT(30)
<1>b. 1 \in Int /\ (\A m \in 1 .. hi : q[m] \in Overlay) /\ (\A m \in lo .. n : q[m] \in Overlay)
  BY <1>1, <1>2
<1>4. /\ a \in Seq(Overlay) /\ Len(a) = IF 1 <= hi THEN hi - 1 + 1 ELSE 0
      /\ \A m \in 1 .. hi - 1 + 1 : a[m] = q[1 + m - 1]
  BY <1>3, <1>a, <1>b, Zenon
<1>c. n \in Int BY <1>1
<1>5. /\ b \in Seq(Overlay) /\ Len(b) = IF lo <= n THEN n - lo + 1 ELSE 0
      /\ \A m \in 1 .. n - lo + 1 : b[m] = q[lo + m - 1]
  BY <1>3, <1>a, <1>b, <1>c, Zenon
<1>6. Len(a) = i - 1 /\ Len(b) = n - i BY <1>1, <1>2, <1>4, <1>5
<1>7. /\ a \o b \in Seq(Overlay) /\ Len(a \o b) = Len(a) + Len(b)
      /\ \A m \in 1 .. Len(a) + Len(b) : (a \o b)[m] = IF m <= Len(a) THEN a[m] ELSE b[m - Len(a)]
 <2>1. \A s1, s2 \in Seq(Overlay) :
         /\ s1 \o s2 \in Seq(Overlay) /\ Len(s1 \o s2) = Len(s1) + Len(s2)
         /\ \A m \in 1 .. Len(s1) + Len(s2) :
              (s1 \o s2)[m] = IF m <= Len(s1) THEN s1[m] ELSE s2[m - Len(s1)]
   BY ConcatProperties, Zenon
 <2> QED BY <1>4, <1>5, <2>1, Zenon
<1>8. RemoveAt(q, i) = a \o b BY <1>1, <1>3 DEF RemoveAt
<1>9. PICK c : c = a \o b OBVIOUS
<1>10. c \in Seq(Overlay) /\ Len(c) = n - 1 /\ DOMAIN c = 1 .. n - 1
  BY <1>2, <1>6, <1>7, <1>9
<1>11. ASSUME NEW m \in 1 .. n - 1 PROVE c[m] = q[IF m < i THEN m ELSE m + 1]
 <2>1. m \in 1 .. Len(a) + Len(b) BY <1>2, <1>6
 <2>2. CASE m < i
  <3>1. m <= Len(a) /\ m \in 1 .. hi - 1 + 1 /\ 1 + m - 1 = m BY <1>1, <1>2, <1>6, <2>2
  <3>2. c[m] = a[m] BY <1>7, <1>9, <2>1, <3>1
  <3> QED BY <1>4, <2>2, <3>1, <3>2
 <2>3. CASE ~(m < i)
  <3>a. ~(m <= Len(a)) BY <1>2, <1>6, <2>3
  <3>1. c[m] = b[m - Len(a)] BY <1>7, <1>9, <2>1, <3>a
  <3>2. PICK l \in 1 .. n - lo + 1 : l = m - Len(a) BY <1>1, <1>2, <1>6, <2>3, SMTT(30)
  <3>3. lo + l - 1 = m + 1
   <4>1. i \in Int /\ m \in Int /\ lo = i + 1 /\ l = m - (i - 1) BY <1>1, <1>2, <1>6, <3>2
   <4>2. \A x, y \in Int : (x + 1) + (y - (x - 1)) - 1 = y + 1 OBVIOUS
   <4> QED BY <4>1, <4>2, Zenon
  <3> QED BY <1>5, <2>3, <3>1, <3>2, <3>3
 <2> QED BY <2>2, <2>3
<1> QED BY <1>1, <1>8, <1>9, <1>10, <1>11 DEF IsWithout

-----------------------------------------------------------------------------
(* The steps of approvals. *)

LEMMA OneChanges ==
  ASSUME InquiriesSound, NEW h \in Host, NEW x, inquiry' = [inquiry EXCEPT ![h] = x],
         x = Unraised \/ Sound(x), always' \subseteq Tool
  PROVE  InquiriesSound'
<1>1. DOMAIN inquiry' = Host /\ inquiry'[h] = x /\ \A g \in Host : g # h => inquiry'[g] = inquiry[g]
  BY DEF InquiriesSound
<1>2. \A g \in Host : inquiry'[g] = Unraised \/ Sound(inquiry'[g])
  BY <1>1 DEF InquiriesSound
<1> QED BY <1>1, <1>2 DEF InquiriesSound, Sound, AllowedFor, ApprovedFor, Remaining

\* Who is in the lock's queue, or has the overlay, waits for an answer.
LEMMA WaiterIsSound ==
  ASSUME InquiriesSound, OverlaysSound, NEW h \in Host, h \in shown \/ h \in ToSet(overlayQueue)
  PROVE  Sound(inquiry[h]) /\ Remaining(inquiry[h]) /\ inquiry[h].stage \in {"waiting", "shown"}
<1>1. inquiry[h].stage \in {"waiting", "shown"} BY DEF OverlaysSound, OneOverlay
<1>2. inquiry[h] # Unraised BY <1>1 DEF Unraised
<1> QED BY <1>1, <1>2 DEF InquiriesSound, Sound

LEMMA AskerIsSound ==
  ASSUME InquiriesSound, NEW h \in Host, inquiry[h].stage \in {"ask", "waiting", "shown"}
  PROVE  Sound(inquiry[h]) /\ inquiry[h].stage # "none" /\ (inquiry[h].stage # "ask" => Remaining(inquiry[h]))
<1>1. inquiry[h] # Unraised BY DEF Unraised
<1> QED BY <1>1 DEF InquiriesSound, Sound

LEMMA StageIsSound ==
  ASSUME NEW a, Sound(a), Remaining(a), NEW s \in {"waiting", "shown"}
  PROVE  Sound([a EXCEPT !.stage = s]) /\ [a EXCEPT !.stage = s].stage = s
<1> DEFINE b == [a EXCEPT !.stage = s]
<1>1. /\ b.stage = s /\ b.actions = a.actions /\ b.allowed = a.allowed /\ b.known = a.known
      /\ b.decisions = a.decisions /\ b.said = a.said /\ b \in InquiryShape
  BY DEF Sound, InquiryShape
<1> HIDE DEF b
<1>2. Sound(b) BY <1>1 DEF Sound, AllowedFor, ApprovedFor, Remaining
<1> QED BY <1>1, <1>2 DEF b

\* A new inquiry is in order.
LEMMA RaisedIsSound ==
  ASSUME NEW n \in 1 .. MaxActions, NEW actions \in [1 .. n -> Tool], always \subseteq Tool,
         NEW x, x = [stage |-> "ask", actions |-> actions, allowed |-> always, changed |-> FALSE,
                     decisions |-> <<>>, said |-> <<>>, known |-> always]
  PROVE  Sound(x) /\ x.stage = "ask"
<1>1. n \in Nat BY ApprovalAssumption
<1>2. actions \in Seq(Tool) /\ Len(actions) = n BY <1>1
<1>3. x \in InquiryShape /\ x.stage = "ask" /\ x.allowed = x.known /\ x.decisions = <<>> /\ x.said = <<>>
      /\ x.actions = actions
  BY <1>2 DEF InquiryShape
<1> QED BY <1>1, <1>2, <1>3 DEF Sound, AllowedFor, ApprovedFor

LEMMA InquiryStep ==
  ASSUME InquiriesSound, OverlaysSound, [ApprovalNext]_approvalVars
  PROVE  InquiriesSound'
<1>1. ASSUME NEW h \in Host, Raise(h) PROVE InquiriesSound'
 <2>1. PICK n \in 1 .. MaxActions : \E actions \in [1 .. n -> Tool] :
         inquiry' = [inquiry EXCEPT ![h] =
           [stage |-> "ask", actions |-> actions, allowed |-> always, changed |-> FALSE,
            decisions |-> <<>>, said |-> <<>>, known |-> always]]
   BY <1>1 DEF Raise
 <2>a. PICK actions \in [1 .. n -> Tool] :
         inquiry' = [inquiry EXCEPT ![h] =
           [stage |-> "ask", actions |-> actions, allowed |-> always, changed |-> FALSE,
            decisions |-> <<>>, said |-> <<>>, known |-> always]]
   BY <2>1
 <2>2. PICK x : x = [stage |-> "ask", actions |-> actions, allowed |-> always, changed |-> FALSE,
                     decisions |-> <<>>, said |-> <<>>, known |-> always]
   OBVIOUS
 <2>3. Sound(x) BY <2>2, RaisedIsSound DEF InquiriesSound
 <2>4. always' \subseteq Tool BY <1>1 DEF Raise, InquiriesSound
 <2> QED BY <2>a, <2>2, <2>3, <2>4, OneChanges
<1>2. ASSUME NEW h \in Host, PassAllowed(h) PROVE InquiriesSound'
 <2>1. Sound(inquiry[h]) /\ Remaining(inquiry[h])
       /\ inquiry[h].actions[Len(inquiry[h].decisions) + 1] \in inquiry[h].allowed
       /\ inquiry' = [inquiry EXCEPT ![h] = Decided(@, "no", "approve")]
       /\ always' = always
   BY <1>2, AskerIsSound DEF PassAllowed
 <2>2. PICK x : x = Decided(inquiry[h], "no", "approve") OBVIOUS
 <2>3. Sound(x) BY <2>1, <2>2, DecidedIsSound
 <2> QED BY <2>1, <2>2, <2>3, OneChanges DEF InquiriesSound
<1>3. ASSUME NEW h \in Host, Sound(inquiry[h]), Remaining(inquiry[h]), NEW answer \in Answer,
             Answered(h, answer), always' = always
      PROVE  InquiriesSound'
 <2>1. PICK x : x = inquiry'[h] OBVIOUS
 <2>2. inquiry' = [inquiry EXCEPT ![h] = x] /\ Sound(x) BY <1>3, <2>1, AnswerIsSound
 <2> QED BY <1>3, <2>2, OneChanges DEF InquiriesSound
<1>4. "nothing" \in Answer BY DEF Answer
<1>5. ASSUME NEW h \in Host, Sound(inquiry[h]), Remaining(inquiry[h]), NEW s \in {"waiting", "shown"},
             inquiry' = [inquiry EXCEPT ![h].stage = s], always' = always
      PROVE  InquiriesSound'
 <2>1. PICK x : x = [inquiry[h] EXCEPT !.stage = s] OBVIOUS
 <2>2. Sound(x) /\ inquiry' = [inquiry EXCEPT ![h] = x] BY <1>5, <2>1, StageIsSound
 <2> QED BY <1>5, <2>2, OneChanges DEF InquiriesSound
<1>6. ASSUME NEW h \in Host, Prompt(h) PROVE InquiriesSound'
 <2>1. Sound(inquiry[h]) /\ Remaining(inquiry[h]) /\ always' = always
   BY <1>6, AskerIsSound DEF Prompt
 <2>2. inquiry' = [inquiry EXCEPT ![h].stage = "waiting"] \/ Answered(h, "nothing")
   BY <1>6 DEF Prompt
 <2> QED BY <1>3, <1>4, <1>5, <2>1, <2>2
<1>7. ASSUME NEW h \in Host, CancelTurn(h) PROVE InquiriesSound'
 <2>1. Sound(inquiry[h]) /\ Remaining(inquiry[h]) /\ always' = always /\ Answered(h, "nothing")
   BY <1>7, AskerIsSound DEF CancelTurn
 <2> QED BY <1>3, <1>4, <2>1
<1>8. ASSUME NEW h \in Host, Unresolved(h) \/ Resume(h) PROVE InquiriesSound'
 <2>1. Sound(inquiry[h]) /\ inquiry' = [inquiry EXCEPT ![h] = Unraised]
   BY <1>8, AskerIsSound DEF Unresolved, Resume
 <2>2. always' = always \/ always' = inquiry[h].allowed BY <1>8 DEF Unresolved, Resume
 <2>3. always' \subseteq Tool BY <2>1, <2>2 DEF Sound, InquiryShape, InquiriesSound
 <2> QED BY <2>1, <2>3, OneChanges
<1>9. ASSUME inquiry' = inquiry, always' \subseteq Tool PROVE InquiriesSound'
  BY <1>9 DEF InquiriesSound, Sound, AllowedFor, ApprovedFor, Remaining
<1>10. CASE OpenPicker \/ MoveSession \/ UNCHANGED approvalVars
  BY <1>9, <1>10 DEF OpenPicker, MoveSession, approvalVars, InquiriesSound
<1>11. CASE TakeLock
 <2>1. PICK who : who = Head(overlayQueue) OBVIOUS
 <2>2. who \in ToSet(overlayQueue) /\ always' = always
   BY <1>11, <2>1, TailIsWithout DEF TakeLock, OverlaysSound, ToSet
 <2>3. CASE who \notin Host
  <3>1. inquiry' = inquiry BY <1>11, <2>1, <2>3 DEF TakeLock
  <3> QED BY <1>9, <2>2, <3>1 DEF InquiriesSound
 <2>4. CASE who \in Host
  <3>1. Sound(inquiry[who]) /\ Remaining(inquiry[who]) BY <2>2, <2>4, WaiterIsSound
  <3>2. inquiry' = [inquiry EXCEPT ![who].stage = "shown"] \/ Answered(who, "nothing")
    BY <1>11, <2>1, <2>4 DEF TakeLock
  <3> QED BY <1>3, <1>4, <1>5, <2>2, <2>4, <3>1, <3>2
 <2> QED BY <2>3, <2>4
<1>12. CASE PressKey
 <2>1. PICK who \in shown, answer \in Answer :
         /\ IF who \in Host THEN Answered(who, answer) ELSE UNCHANGED inquiry
         /\ always' = always
   BY <1>12 DEF PressKey
 <2>2. CASE who \in Host BY <1>3, <2>1, <2>2, WaiterIsSound
 <2>3. CASE who \notin Host BY <1>9, <2>1, <2>3 DEF InquiriesSound
 <2> QED BY <2>2, <2>3
<1>13. CASE ShutDown
 <2>1. /\ inquiry' = [h \in Host |-> IF h \in shown THEN Decided(inquiry[h], "no", ChoiceOf("nothing"))
                                     ELSE inquiry[h]]
       /\ always' = always
   BY <1>13 DEF ShutDown
 <2>2. ASSUME NEW h \in Host PROVE inquiry'[h] = Unraised \/ Sound(inquiry'[h])
  <3>1. CASE h \in shown
   <4>1. Sound(inquiry[h]) /\ Remaining(inquiry[h]) /\ ChoiceOf("nothing") = "reject"
     BY <3>1, WaiterIsSound DEF ChoiceOf
   <4>2. Sound(Decided(inquiry[h], "no", "reject")) BY <4>1, DecidedIsSound
   <4> QED BY <2>1, <3>1, <4>1, <4>2
  <3>2. CASE h \notin shown BY <2>1, <3>2 DEF InquiriesSound
  <3> QED BY <3>1, <3>2
 <2> QED BY <2>1, <2>2 DEF InquiriesSound, Sound, AllowedFor, ApprovedFor, Remaining
<1> QED BY <1>1, <1>2, <1>6, <1>7, <1>8, <1>10, <1>11, <1>12, <1>13 DEF ApprovalNext

-----------------------------------------------------------------------------
(* The steps of overlays. *)

AtRest(h) == inquiry[h].stage \notin {"waiting", "shown"}
OthersStay(h) == \A g \in Host : g # h => inquiry'[g] = inquiry[g]

\* An inquiry that is not about an overlay moves.
LEMMA RestKeeps ==
  ASSUME OverlaysSound, NEW h \in Host, OthersStay(h), AtRest(h), AtRest(h)',
         UNCHANGED <<shown, overlayQueue, stopping>>
  PROVE  OverlaysSound'
<1>1. \A g \in Host : (inquiry'[g].stage = "shown" <=> inquiry[g].stage = "shown")
                   /\ (inquiry'[g].stage = "waiting" <=> inquiry[g].stage = "waiting")
  BY DEF OthersStay, AtRest
<1> QED BY <1>1 DEF OverlaysSound, OneOverlay, Once

LEMMA OverlayStep ==
  ASSUME InquiriesSound, OverlaysSound, [ApprovalNext]_approvalVars
  PROVE  OverlaysSound'
<1>a. "nothing" \in Answer BY DEF Answer
<1>b. ASSUME NEW h \in Host, NEW x, inquiry' = [inquiry EXCEPT ![h] = x]
      PROVE  OthersStay(h) /\ inquiry'[h] = x
  BY <1>b DEF OthersStay, InquiriesSound
<1>c. ASSUME NEW h \in Host, NEW answer \in Answer, Answered(h, answer),
             Sound(inquiry[h]), Remaining(inquiry[h])
      PROVE  OthersStay(h) /\ inquiry'[h].stage = "ask"
 <2>1. PICK x : x = inquiry'[h] OBVIOUS
 <2>2. inquiry' = [inquiry EXCEPT ![h] = x] /\ x.stage = "ask" BY <1>c, <2>1, AnswerIsSound
 <2> QED BY <1>b, <2>1, <2>2
<1>1. ASSUME NEW h \in Host, Raise(h) PROVE OverlaysSound'
 <2>0. PICK x : inquiry' = [inquiry EXCEPT ![h] = x] /\ x.stage = "ask"
  <3>1. PICK n \in 1 .. MaxActions : \E actions \in [1 .. n -> Tool] :
          inquiry' = [inquiry EXCEPT ![h] =
            [stage |-> "ask", actions |-> actions, allowed |-> always, changed |-> FALSE,
             decisions |-> <<>>, said |-> <<>>, known |-> always]]
    BY <1>1 DEF Raise
  <3>2. PICK actions \in [1 .. n -> Tool] :
          inquiry' = [inquiry EXCEPT ![h] =
            [stage |-> "ask", actions |-> actions, allowed |-> always, changed |-> FALSE,
             decisions |-> <<>>, said |-> <<>>, known |-> always]]
    BY <3>1
  <3>3. PICK x : x = [stage |-> "ask", actions |-> actions, allowed |-> always, changed |-> FALSE,
                     decisions |-> <<>>, said |-> <<>>, known |-> always]
    OBVIOUS
  <3>4. x.stage = "ask" BY <3>3
  <3> QED BY <3>2, <3>3, <3>4
 <2>1. OthersStay(h) /\ inquiry'[h].stage = "ask" BY <1>b, <2>0
 <2>2. AtRest(h) /\ AtRest(h)' BY <1>1, <2>1 DEF Raise, AtRest, Unraised
 <2> QED BY <1>1, <2>1, <2>2, RestKeeps DEF Raise
<1>2. ASSUME NEW h \in Host, PassAllowed(h) PROVE OverlaysSound'
 <2>1. Sound(inquiry[h]) /\ Remaining(inquiry[h]) /\ inquiry[h].stage = "ask"
       /\ inquiry[h].actions[Len(inquiry[h].decisions) + 1] \in inquiry[h].allowed
       /\ inquiry' = [inquiry EXCEPT ![h] = Decided(inquiry[h], "no", "approve")]
       /\ UNCHANGED <<shown, overlayQueue, stopping>>
   BY <1>2, AskerIsSound DEF PassAllowed
 <2>2. Decided(inquiry[h], "no", "approve").stage = "ask" BY <2>1, DecidedIsSound
 <2>3. OthersStay(h) /\ AtRest(h) /\ AtRest(h)' BY <1>b, <2>1, <2>2 DEF AtRest
 <2> QED BY <2>1, <2>3, RestKeeps
<1>3. ASSUME NEW h \in Host, Prompt(h) PROVE OverlaysSound'
 <2>1. Sound(inquiry[h]) /\ Remaining(inquiry[h]) /\ inquiry[h].stage = "ask" /\ stopping' = stopping
   BY <1>3, AskerIsSound DEF Prompt
 <2>2. CASE Answered(h, "nothing") /\ UNCHANGED <<shown, overlayQueue>>
  <3>1. OthersStay(h) /\ AtRest(h) /\ AtRest(h)' BY <1>a, <1>c, <2>1, <2>2 DEF AtRest
  <3> QED BY <2>1, <2>2, <3>1, RestKeeps
 <2>3. CASE /\ inquiry' = [inquiry EXCEPT ![h].stage = "waiting"]
            /\ overlayQueue' = Append(overlayQueue, h) /\ shown' = shown
  <3>1. h \notin shown /\ h \notin ToSet(overlayQueue) BY <2>1 DEF OverlaysSound, OneOverlay
  <3>2. OthersStay(h) /\ inquiry'[h].stage = "waiting" BY <1>b, <2>1, <2>3, StageIsSound
  <3>3. /\ overlayQueue' \in Seq(Overlay) /\ Once(overlayQueue')
        /\ ToSet(overlayQueue') = ToSet(overlayQueue) \union {h}
    BY <2>3, <3>1, QueueGrows DEF OverlaysSound, Overlay
  <3>4. ASSUME NEW g \in Host PROVE /\ inquiry'[g].stage = "shown" <=> g \in shown'
                                    /\ inquiry'[g].stage = "waiting" <=> g \in ToSet(overlayQueue')
   <4>1. CASE g = h BY <2>3, <3>1, <3>2, <3>3, <4>1
   <4>2. CASE g # h BY <2>3, <3>2, <3>3, <4>2 DEF OthersStay, OverlaysSound, OneOverlay
   <4> QED BY <4>1, <4>2
  <3> QED BY <2>1, <2>3, <3>3, <3>4 DEF OverlaysSound, OneOverlay, Once
 <2> QED BY <1>3, <2>2, <2>3 DEF Prompt
<1>4. ASSUME NEW h \in Host, CancelTurn(h) PROVE OverlaysSound'
 <2>1. Sound(inquiry[h]) /\ Remaining(inquiry[h]) /\ stopping' = stopping /\ Answered(h, "nothing")
   BY <1>4, AskerIsSound DEF CancelTurn
 <2>2. OthersStay(h) /\ inquiry'[h].stage = "ask" BY <1>a, <1>c, <2>1
 <2>3. CASE inquiry[h].stage = "shown" /\ shown' = shown \ {h} /\ overlayQueue' = overlayQueue
  <3>1. \A g \in Host : /\ inquiry'[g].stage = "shown" <=> g \in shown'
                        /\ inquiry'[g].stage = "waiting" <=> g \in ToSet(overlayQueue')
    BY <2>2, <2>3 DEF OthersStay, OverlaysSound, OneOverlay
  <3> QED BY <2>1, <2>3, <3>1 DEF OverlaysSound, OneOverlay, Once
 <2>4. CASE inquiry[h].stage = "waiting" /\ shown' = shown
  <3>1. PICK i \in DOMAIN overlayQueue : overlayQueue[i] = h /\ overlayQueue' = RemoveAt(overlayQueue, i)
    BY <1>4, <2>4 DEF CancelTurn
  <3>2. /\ overlayQueue' \in Seq(Overlay) /\ Once(overlayQueue')
        /\ \A x \in Host : x \in ToSet(overlayQueue') <=> x \in ToSet(overlayQueue) /\ x # h
   <4>1. PICK r : r = RemoveAt(overlayQueue, i) OBVIOUS
   <4>2. IsWithout(r, overlayQueue, i) BY <4>1, RemovedIsWithout DEF OverlaysSound
   <4>3. r \in Seq(Overlay) /\ Once(r) /\ \A x \in Host : x \in ToSet(r) <=> x \in ToSet(overlayQueue) /\ x # h
     BY <3>1, <4>2, QueueShrinks DEF OverlaysSound
   <4> QED BY <3>1, <4>1, <4>3
  <3>3. \A g \in Host : /\ inquiry'[g].stage = "shown" <=> g \in shown'
                        /\ inquiry'[g].stage = "waiting" <=> g \in ToSet(overlayQueue')
    BY <2>2, <2>4, <3>2 DEF OthersStay, OverlaysSound, OneOverlay
  <3> QED BY <2>1, <2>4, <3>2, <3>3 DEF OverlaysSound, OneOverlay, Once
 <2> QED BY <1>4, <2>3, <2>4 DEF CancelTurn
<1>5. ASSUME NEW h \in Host, Unresolved(h) \/ Resume(h) PROVE OverlaysSound'
 <2>1. inquiry[h].stage = "ask" /\ inquiry' = [inquiry EXCEPT ![h] = Unraised]
       /\ UNCHANGED <<shown, overlayQueue, stopping>>
   BY <1>5 DEF Unresolved, Resume
 <2>a. PICK x : x = Unraised OBVIOUS
 <2>b. OthersStay(h) /\ inquiry'[h] = x BY <1>b, <2>1, <2>a
 <2>2. OthersStay(h) /\ AtRest(h) /\ AtRest(h)' BY <2>1, <2>a, <2>b DEF AtRest, Unraised
 <2> QED BY <2>1, <2>2, RestKeeps
<1>6. CASE OpenPicker
 <2>1. /\ UNCHANGED <<inquiry, shown, stopping>> /\ overlayQueue' = Append(overlayQueue, "picker")
       /\ "picker" \in Overlay /\ "picker" \notin Host
   BY <1>6, ApprovalAssumption DEF OpenPicker, Overlay
 <2>2. /\ overlayQueue' \in Seq(Overlay) /\ Once(overlayQueue')
       /\ ToSet(overlayQueue') = ToSet(overlayQueue) \union {"picker"}
   BY <2>1, QueueGrows DEF OverlaysSound
 <2>3. \A g \in Host : g \in ToSet(overlayQueue') <=> g \in ToSet(overlayQueue)
   BY <2>1, <2>2
 <2> QED BY <2>1, <2>2, <2>3 DEF OverlaysSound, OneOverlay, Once
<1>7. CASE MoveSession \/ UNCHANGED approvalVars
  BY <1>7 DEF MoveSession, approvalVars, OverlaysSound, OneOverlay, Once
<1>8. CASE TakeLock
 <2>1. PICK who : who = Head(overlayQueue) OBVIOUS
 <2>2. PICK r : r = Tail(overlayQueue) OBVIOUS
 <2>3. overlayQueue # <<>> /\ overlayQueue' = r /\ shown = {} /\ stopping' = stopping
   BY <1>8, <2>2 DEF TakeLock, LockFree
 <2>4. 1 \in DOMAIN overlayQueue /\ overlayQueue[1] = who /\ who \in Overlay /\ IsWithout(r, overlayQueue, 1)
   BY <2>1, <2>2, <2>3, TailIsWithout DEF OverlaysSound
 <2>5. /\ r \in Seq(Overlay) /\ Once(r)
       /\ \A x \in Host : x \in ToSet(r) <=> x \in ToSet(overlayQueue) /\ x # who
   BY <2>4, QueueShrinks DEF OverlaysSound
 <2>6. who \in ToSet(overlayQueue) BY <2>4 DEF ToSet
 <2>7. CASE who \notin Host
  <3>1. inquiry' = inquiry /\ shown' = (IF stopping THEN shown ELSE {who})
    BY <1>8, <2>1, <2>3, <2>7 DEF TakeLock
  <3>2. \A g \in Host : /\ inquiry'[g].stage = "shown" <=> g \in shown'
                        /\ inquiry'[g].stage = "waiting" <=> g \in ToSet(overlayQueue')
    BY <2>3, <2>5, <2>7, <3>1 DEF OverlaysSound, OneOverlay
  <3> QED BY <2>3, <2>4, <2>5, <3>1, <3>2 DEF OverlaysSound, OneOverlay, Once
 <2>8. CASE who \in Host
  <3>1. Sound(inquiry[who]) /\ Remaining(inquiry[who]) BY <2>6, <2>8, WaiterIsSound
  <3>2. CASE stopping
   <4>1. shown' = {} /\ Answered(who, "nothing")
     BY <1>8, <2>1, <2>3, <2>8, <3>2 DEF TakeLock
   <4>2. OthersStay(who) /\ inquiry'[who].stage = "ask" BY <1>a, <1>c, <2>8, <3>1, <4>1
   <4>3. \A g \in Host : /\ inquiry'[g].stage = "shown" <=> g \in shown'
                         /\ inquiry'[g].stage = "waiting" <=> g \in ToSet(overlayQueue')
     BY <2>3, <2>5, <4>1, <4>2 DEF OthersStay, OverlaysSound, OneOverlay
   <4> QED BY <2>3, <2>5, <4>1, <4>3 DEF OverlaysSound, OneOverlay, Once
  <3>3. CASE ~stopping
   <4>1. shown' = {who} /\ inquiry' = [inquiry EXCEPT ![who].stage = "shown"]
     BY <1>8, <2>1, <2>3, <2>8, <3>3 DEF TakeLock
   <4>2. OthersStay(who) /\ inquiry'[who].stage = "shown"
     BY <1>b, <2>8, <3>1, <4>1, StageIsSound
   <4>3. \A g \in Host : /\ inquiry'[g].stage = "shown" <=> g \in shown'
                         /\ inquiry'[g].stage = "waiting" <=> g \in ToSet(overlayQueue')
     BY <2>3, <2>5, <4>1, <4>2 DEF OthersStay, OverlaysSound, OneOverlay
   <4> QED BY <2>3, <2>4, <2>5, <3>3, <4>1, <4>3 DEF OverlaysSound, OneOverlay, Once
  <3> QED BY <3>2, <3>3
 <2> QED BY <2>7, <2>8
<1>9. CASE PressKey
 <2>1. PICK who \in shown, answer \in Answer :
         /\ shown' = shown \ {who} /\ UNCHANGED <<overlayQueue, stopping>>
         /\ IF who \in Host THEN Answered(who, answer) ELSE UNCHANGED inquiry
   BY <1>9 DEF PressKey
 <2>2. CASE who \in Host
  <3>1. OthersStay(who) /\ inquiry'[who].stage = "ask" /\ inquiry[who].stage = "shown"
    BY <1>c, <2>1, <2>2, WaiterIsSound DEF OverlaysSound, OneOverlay
  <3>2. \A g \in Host : /\ inquiry'[g].stage = "shown" <=> g \in shown'
                        /\ inquiry'[g].stage = "waiting" <=> g \in ToSet(overlayQueue')
    BY <2>1, <3>1 DEF OthersStay, OverlaysSound, OneOverlay
  <3> QED BY <2>1, <3>2 DEF OverlaysSound, OneOverlay, Once
 <2>3. CASE who \notin Host BY <2>1, <2>3 DEF OverlaysSound, OneOverlay, Once
 <2> QED BY <2>2, <2>3
<1>10. CASE ShutDown
 <2>1. /\ inquiry' = [h \in Host |-> IF h \in shown THEN Decided(inquiry[h], "no", "reject") ELSE inquiry[h]]
       /\ shown' = {} /\ overlayQueue' = overlayQueue /\ stopping' = TRUE
   BY <1>10 DEF ShutDown, ChoiceOf
 <2>2. ASSUME NEW g \in Host PROVE /\ inquiry'[g].stage = "shown" <=> g \in shown'
                                   /\ inquiry'[g].stage = "waiting" <=> g \in ToSet(overlayQueue')
  <3>1. CASE g \in shown
   <4>1. Sound(inquiry[g]) /\ Remaining(inquiry[g]) /\ g \notin ToSet(overlayQueue)
     BY <3>1, WaiterIsSound DEF OverlaysSound, OneOverlay
   <4>2. Decided(inquiry[g], "no", "reject").stage = "ask" BY <4>1, DecidedIsSound
   <4> QED BY <2>1, <3>1, <4>1, <4>2
  <3>2. CASE g \notin shown BY <2>1, <3>2 DEF OverlaysSound, OneOverlay
  <3> QED BY <3>1, <3>2
 <2> QED BY <2>1, <2>2 DEF OverlaysSound, OneOverlay, Once
<1> QED BY <1>1, <1>2, <1>3, <1>4, <1>5, <1>6, <1>7, <1>8, <1>9, <1>10 DEF ApprovalNext

\* Whatever turns ask at once, whoever cancels, fails, moves or closes, and for any number of actions: a
\* tool runs only with the user's word for it, and one overlay at a time has the keys
\* (approval_prompt.py 53-105, overlays/base.py, runtime.py).
THEOREM ApprovalsFailClosed == ApprovalSpec => []ApprovalsSound
<1>1. ApprovalInit => InquiriesSound /\ OverlaysSound
 <2> SUFFICES ASSUME ApprovalInit PROVE InquiriesSound /\ OverlaysSound OBVIOUS
 <2>1. \A h \in Host : inquiry[h] = Unraised /\ inquiry[h].stage = "none"
   BY DEF ApprovalInit, Unraised
 <2>2. ToSet(overlayQueue) = {} /\ overlayQueue \in Seq(Overlay) /\ Once(overlayQueue)
   BY DEF ApprovalInit, ToSet, Once
 <2> QED BY <2>1, <2>2 DEF ApprovalInit, InquiriesSound, OverlaysSound, OneOverlay
<1>2. InquiriesSound /\ OverlaysSound => ApprovalsSound
 <2> SUFFICES ASSUME InquiriesSound, OverlaysSound PROVE NothingUnapproved
   BY DEF ApprovalsSound, OverlaysSound
 <2> QED BY DEF NothingUnapproved, InquiriesSound, Sound, ApprovedFor
<1>3. InquiriesSound /\ OverlaysSound /\ [ApprovalNext]_approvalVars => (InquiriesSound /\ OverlaysSound)'
  BY InquiryStep, OverlayStep
<1> QED BY <1>1, <1>2, <1>3, PTL DEF ApprovalSpec

-----------------------------------------------------------------------------
(* The output. *)

PumpShape == [waiting : Int, counted : Int, failed : BOOLEAN]

OutputTyped ==
  /\ pump \in PumpShape
  /\ bracket \in {"open", "closed"} /\ frameDepth \in {0, 1}
  /\ frameSync \in BOOLEAN /\ wanted \in BOOLEAN /\ detected \in BOOLEAN /\ buffered \in BOOLEAN
  /\ stale \in BOOLEAN /\ skipped \in BOOLEAN /\ scheduled \in BOOLEAN
  /\ commit \in {"no", "waits", "begun", "erased", "printed", "painted"}

\* A frame is open from begin_frame to end_frame of the commit in hand.
FrameIsOpen ==
  /\ frameDepth = 1 <=> commit \in {"begun", "erased", "printed", "painted"}
  /\ frameSync => frameDepth = 1

\* The probe ends only with the application or with the pump.
ProbeRuns == Running /\ ~pump.failed => probe = "on"

OutputInv == OutputTyped /\ FrameIsOpen /\ ProbeRuns /\ TransactionsWhole /\ PaintsRecovered

\* What a write does to a pump that works, and to one that has failed.
LEMMA Hands ==
  ASSUME pump \in PumpShape, NEW b, Handed(b)
  PROVE  /\ pump' \in PumpShape /\ pump'.failed = pump.failed
         /\ bracket' = IF pump.failed THEN bracket ELSE b
<1>1. CASE pump.failed BY <1>1 DEF Handed
<1>2. CASE ~pump.failed
 <2>1. pump' = [pump EXCEPT !.waiting = @ + 1, !.counted = @ + 1] /\ bracket' = b
   BY <1>2 DEF Handed
 <2>2. pump.waiting + 1 \in Int /\ pump.counted + 1 \in Int BY DEF PumpShape
 <2>3. pump' = [waiting |-> pump.waiting + 1, counted |-> pump.counted + 1, failed |-> pump.failed]
   BY <2>1 DEF PumpShape
 <2> QED BY <1>2, <2>1, <2>2, <2>3 DEF PumpShape
<1> QED BY <1>1, <1>2

LEMMA FlushHands ==
  ASSUME pump \in PumpShape, Handed(Flushed)
  PROVE  /\ pump' \in PumpShape /\ pump'.failed = pump.failed
         /\ bracket' = bracket \/ (frameDepth = 0 /\ bracket' = "closed")
<1>1. PICK b : b = Flushed OBVIOUS
<1>2. Handed(b) BY <1>1
<1>3. pump' \in PumpShape /\ pump'.failed = pump.failed /\ (bracket' = bracket \/ bracket' = b)
  BY <1>2, Hands
<1> QED BY <1>1, <1>3 DEF Flushed

LEMMA OutputStep == OutputInv /\ [OutputNext]_outputVars => OutputInv'
<1> SUFFICES ASSUME OutputInv, [OutputNext]_outputVars PROVE OutputInv' OBVIOUS
<1>1. OutputTyped /\ pump \in PumpShape BY DEF OutputInv, OutputTyped
<1>2. CASE Changes
  BY <1>2 DEF Changes, OutputInv, OutputTyped, FrameIsOpen, ProbeRuns,
     TransactionsWhole, PaintsRecovered, Running
<1>4. CASE Buffers
  BY <1>4 DEF Buffers, OutputInv, OutputTyped, FrameIsOpen, ProbeRuns,
     TransactionsWhole, PaintsRecovered, Running
<1>6. CASE SetEnabled
  BY <1>6 DEF SetEnabled, OutputInv, OutputTyped, FrameIsOpen, ProbeRuns,
     TransactionsWhole, PaintsRecovered, Running
<1>7. CASE CommitAsked
  BY <1>7 DEF CommitAsked, OutputInv, OutputTyped, FrameIsOpen, ProbeRuns,
     TransactionsWhole, PaintsRecovered, Running
<1>8. CASE CommitGivenUp
  BY <1>8 DEF CommitGivenUp, OutputInv, OutputTyped, FrameIsOpen, ProbeRuns,
     TransactionsWhole, PaintsRecovered, Running
<1>17. CASE AppStops
  BY <1>17, ZenonT(40) DEF AppStops, OutputInv, OutputTyped, FrameIsOpen, ProbeRuns,
     TransactionsWhole, PaintsRecovered, Running
<1>19. CASE UNCHANGED outputVars
  BY <1>19 DEF outputVars, OutputInv, OutputTyped, FrameIsOpen, ProbeRuns,
     TransactionsWhole, PaintsRecovered, Running
<1>5. ASSUME NEW answer \in BOOLEAN, Reports(answer) PROVE OutputInv'
  BY <1>5 DEF Reports, OutputInv, OutputTyped, FrameIsOpen, ProbeRuns,
     TransactionsWhole, PaintsRecovered, Running
<1>3. CASE Redraw
 <2>1. /\ scheduled' = FALSE /\ UNCHANGED <<frameDepth, frameSync, wanted, detected, commit, probe, closing>>
       /\ Repaints(InTerminal)
   BY <1>3 DEF Redraw
 <2>2. CASE pump.counted > Skips
  <3>1. skipped' = TRUE /\ UNCHANGED <<pump, bracket, stale, buffered>>
    BY <2>1, <2>2 DEF Repaints, SkipsRedraw
  <3> QED
    BY <2>1, <3>1, ZenonT(40) DEF OutputInv, OutputTyped, FrameIsOpen, ProbeRuns,
       TransactionsWhole, PaintsRecovered, Running
 <2>3. CASE ~(pump.counted > Skips) /\ InTerminal
  <3>1. skipped' = FALSE /\ UNCHANGED <<pump, bracket, stale, buffered>>
    BY <2>1, <2>3 DEF Repaints
  <3> QED
    BY <2>1, <2>3, <3>1 DEF InTerminal, OutputInv, OutputTyped, FrameIsOpen, ProbeRuns,
       TransactionsWhole, PaintsRecovered, Running
 <2>4. CASE ~(pump.counted > Skips) /\ ~InTerminal
  <3>1. skipped' = FALSE /\ stale' = FALSE /\ buffered' = FALSE /\ Handed(Flushed)
    BY <2>1, <2>4 DEF Repaints
  <3>2. /\ pump' \in PumpShape /\ pump'.failed = pump.failed
        /\ bracket' = bracket \/ (frameDepth = 0 /\ bracket' = "closed")
    BY <1>1, <3>1, FlushHands
  <3> QED
   <4>1. OutputTyped' BY <2>1, <3>1, <3>2 DEF OutputInv, OutputTyped
   <4>2. FrameIsOpen' /\ ProbeRuns'
     BY <2>1, <3>1, <3>2 DEF OutputInv, OutputTyped, FrameIsOpen, ProbeRuns, Running
   <4>3. TransactionsWhole'
     BY <2>1, <3>1, <3>2 DEF OutputInv, OutputTyped, FrameIsOpen, TransactionsWhole
   <4>4. PaintsRecovered'
     BY <2>1, <3>1, <3>2 DEF OutputInv, OutputTyped, FrameIsOpen, ProbeRuns, PaintsRecovered, Running
   <4> QED BY <4>1, <4>2, <4>3, <4>4 DEF OutputInv
 <2> QED BY <2>2, <2>3, <2>4
<1>9. CASE BeginFrame
 <2>1. /\ commit = "waits" /\ commit' = "begun" /\ frameDepth' = frameDepth + 1
       /\ frameSync' = Synchronized /\ buffered' = FALSE
       /\ UNCHANGED <<wanted, detected, stale, skipped, scheduled, probe, closing>>
       /\ IF Synchronized THEN Handed("open")
          ELSE IF buffered THEN Handed(Flushed) ELSE UNCHANGED <<pump, bracket>>
   BY <1>9 DEF BeginFrame
 <2>2. frameDepth = 0 /\ frameDepth' = 1 /\ Synchronized \in BOOLEAN
   BY <2>1 DEF OutputInv, FrameIsOpen, OutputTyped, Synchronized
 <2>3. CASE Synchronized
  <3>1. /\ pump' \in PumpShape /\ pump'.failed = pump.failed
        /\ bracket' = IF pump.failed THEN bracket ELSE "open"
    BY <1>1, <2>1, <2>3, Hands
  <3> QED
   <4>1. OutputTyped' BY <2>1, <2>2, <2>3, <3>1 DEF OutputInv, OutputTyped
   <4>2. FrameIsOpen' /\ ProbeRuns'
     BY <2>1, <2>2, <2>3, <3>1 DEF OutputInv, OutputTyped, FrameIsOpen, ProbeRuns, Running
   <4>3. TransactionsWhole'
     BY <2>1, <2>2, <2>3, <3>1 DEF OutputInv, OutputTyped, FrameIsOpen, TransactionsWhole
   <4>4. PaintsRecovered'
     BY <2>1, <2>2, <2>3, <3>1 DEF OutputInv, OutputTyped, FrameIsOpen, ProbeRuns, PaintsRecovered, Running
   <4> QED BY <4>1, <4>2, <4>3, <4>4 DEF OutputInv
 <2>4. CASE ~Synchronized
  <3>1. /\ pump' \in PumpShape /\ pump'.failed = pump.failed
        /\ bracket' = bracket \/ bracket' = "closed"
    BY <1>1, <2>1, <2>4, FlushHands
  <3> QED
    BY <2>1, <2>2, <2>4, <3>1 DEF OutputInv, OutputTyped, FrameIsOpen, ProbeRuns,
       TransactionsWhole, PaintsRecovered, Running
 <2> QED BY <2>3, <2>4
<1>10. CASE Erases
 <2>1. /\ commit = "begun" /\ commit' = "erased"
       /\ UNCHANGED <<frameDepth, frameSync, wanted, detected, skipped, scheduled, probe, closing>>
       /\ IF Running THEN stale' = TRUE /\ buffered' = FALSE /\ Handed(Flushed)
          ELSE UNCHANGED <<pump, bracket, stale, buffered>>
   BY <1>10 DEF Erases
 <2>0. frameDepth = 1 BY <2>1 DEF OutputInv, FrameIsOpen
 <2>2. /\ pump' \in PumpShape /\ pump'.failed = pump.failed /\ bracket' = bracket
       /\ stale' \in BOOLEAN /\ buffered' \in BOOLEAN
  <3>1. CASE Running
   <4>1. stale' = TRUE /\ buffered' = FALSE /\ Handed(Flushed) BY <2>1, <3>1
   <4>2. /\ pump' \in PumpShape /\ pump'.failed = pump.failed
         /\ bracket' = bracket \/ (frameDepth = 0 /\ bracket' = "closed")
     BY <1>1, <4>1, FlushHands
   <4>3. bracket' = bracket BY <2>0, <4>2
   <4> QED BY <4>1, <4>2, <4>3
  <3>2. CASE ~Running BY <1>1, <2>1, <3>2 DEF OutputTyped
  <3> QED BY <3>1, <3>2
 <2> QED
   BY <2>1, <2>2 DEF OutputInv, OutputTyped, FrameIsOpen, ProbeRuns,
      TransactionsWhole, PaintsRecovered, Running
<1>11. CASE PrintsBlocks
 <2>1. /\ commit = "erased" /\ commit' = "printed" /\ Handed(bracket)
       /\ UNCHANGED <<frameDepth, frameSync, wanted, detected, buffered, stale, skipped, scheduled, probe, closing>>
   BY <1>11 DEF PrintsBlocks
 <2>2. PICK b : b = bracket OBVIOUS
 <2>3. pump' \in PumpShape /\ pump'.failed = pump.failed /\ bracket' = bracket
   BY <1>1, <2>1, <2>2, Hands
 <2> QED
   BY <2>1, <2>3 DEF OutputInv, OutputTyped, FrameIsOpen, ProbeRuns,
      TransactionsWhole, PaintsRecovered, Running
<1>12. CASE RestoresFrame
 <2>1. /\ commit = "printed" /\ commit' = "painted"
       /\ UNCHANGED <<frameDepth, frameSync, wanted, detected, scheduled, probe, closing>>
       /\ IF Running THEN Repaints(FALSE) ELSE UNCHANGED <<pump, bracket, stale, buffered, skipped>>
   BY <1>12 DEF RestoresFrame
 <2>2. CASE ~Running
   BY <2>1, <2>2 DEF OutputInv, OutputTyped, FrameIsOpen, ProbeRuns,
      TransactionsWhole, PaintsRecovered, Running
 <2>3. CASE Running /\ pump.counted > Skips
  <3>1. skipped' = TRUE /\ UNCHANGED <<pump, bracket, stale, buffered>>
    BY <2>1, <2>3 DEF Repaints, SkipsRedraw
  <3> QED
    BY <2>1, <3>1 DEF OutputInv, OutputTyped, FrameIsOpen, ProbeRuns,
       TransactionsWhole, PaintsRecovered, Running
 <2>4. CASE Running /\ ~(pump.counted > Skips)
  <3>1. skipped' = FALSE /\ stale' = FALSE /\ buffered' = FALSE /\ Handed(Flushed)
    BY <2>1, <2>4 DEF Repaints
  <3>2. pump' \in PumpShape /\ pump'.failed = pump.failed /\ bracket' = bracket
    BY <1>1, <2>1, <3>1, FlushHands DEF OutputInv, FrameIsOpen
  <3> QED
    BY <2>1, <3>1, <3>2 DEF OutputInv, OutputTyped, FrameIsOpen, ProbeRuns,
       TransactionsWhole, PaintsRecovered, Running
 <2> QED BY <2>2, <2>3, <2>4
<1>13. CASE EndFrame
 <2>1. /\ commit = "painted" /\ commit' = "no" /\ frameDepth' = frameDepth - 1
       /\ frameSync' = FALSE /\ buffered' = FALSE
       /\ scheduled' = (scheduled \/ (frameDepth = 1 /\ skipped))
       /\ UNCHANGED <<wanted, detected, stale, skipped, probe, closing>>
       /\ IF frameSync THEN Handed("closed")
          ELSE IF buffered THEN Handed(Flushed) ELSE UNCHANGED <<pump, bracket>>
   BY <1>13 DEF EndFrame, ClosesUpdate
 <2>2. frameDepth = 1 /\ frameDepth' = 0 BY <2>1 DEF OutputInv, FrameIsOpen, OutputTyped
 <2>3. /\ pump' \in PumpShape /\ pump'.failed = pump.failed
       /\ ~frameSync => bracket' = bracket
       /\ frameSync => bracket' = (IF pump.failed THEN bracket ELSE "closed")
   BY <1>1, <2>1, <2>2, Hands, FlushHands
 <2> QED
  <3>1. OutputTyped' BY <2>1, <2>2, <2>3 DEF OutputInv, OutputTyped
  <3>2. FrameIsOpen' /\ ProbeRuns'
    BY <2>1, <2>2, <2>3 DEF OutputInv, OutputTyped, FrameIsOpen, ProbeRuns, Running
  <3>3. TransactionsWhole'
    BY <2>1, <2>2, <2>3 DEF OutputInv, OutputTyped, FrameIsOpen, TransactionsWhole
  <3>4. PaintsRecovered'
    BY <2>1, <2>2, <2>3 DEF OutputInv, OutputTyped, FrameIsOpen, ProbeRuns, PaintsRecovered, Running
  <3> QED BY <3>1, <3>2, <3>3, <3>4 DEF OutputInv
<1>14. CASE PumpWrites
 <2>1. /\ pump' = [pump EXCEPT !.waiting = @ - 1, !.counted = @ - 1]
       /\ UNCHANGED <<bracket, frameDepth, frameSync, wanted, detected, buffered, stale, skipped, scheduled, commit, probe, closing>>
   BY <1>14 DEF PumpWrites
 <2>2. pump' = [waiting |-> pump.waiting - 1, counted |-> pump.counted - 1, failed |-> pump.failed]
   BY <1>1, <2>1 DEF PumpShape
 <2>3. pump' \in PumpShape /\ pump'.failed = pump.failed BY <1>1, <2>2 DEF PumpShape
 <2> QED
   BY <2>1, <2>3 DEF OutputInv, OutputTyped, FrameIsOpen, ProbeRuns,
      TransactionsWhole, PaintsRecovered, Running
<1>15. CASE PumpFails
 <2>1. /\ pump' = [waiting |-> pump.waiting - 1, counted |-> 0, failed |-> TRUE]
       /\ UNCHANGED <<bracket, frameDepth, frameSync, wanted, detected, buffered, stale, skipped, scheduled, commit, probe, closing>>
   BY <1>15 DEF PumpFails
 <2>2. pump' \in PumpShape /\ pump'.failed BY <1>1, <2>1 DEF PumpShape
 <2> QED
   BY <2>1, <2>2 DEF OutputInv, OutputTyped, FrameIsOpen, ProbeRuns,
      TransactionsWhole, PaintsRecovered, Running
<1>16. CASE ProbeTick
 <2>1. /\ UNCHANGED <<pump, bracket, frameDepth, frameSync, wanted, detected, buffered, stale, skipped, commit>>
       /\ probe = "on"
   BY <1>16 DEF ProbeTick
 <2>2. CASE pump.failed
  <3>1. scheduled' = scheduled BY <1>16, <2>2 DEF ProbeTick
  <3> QED
    BY <2>1, <2>2, <3>1 DEF OutputInv, OutputTyped, FrameIsOpen, ProbeRuns,
       TransactionsWhole, PaintsRecovered, Running
 <2>3. CASE ~pump.failed
  <3>1. probe' = probe /\ closing' = closing /\ scheduled' \in BOOLEAN /\ (scheduled => scheduled')
    BY <1>1, <1>16, <2>3 DEF ProbeTick, OutputTyped
  <3> QED
    BY <2>1, <3>1 DEF OutputInv, OutputTyped, FrameIsOpen, ProbeRuns,
       TransactionsWhole, PaintsRecovered, Running
 <2> QED BY <2>2, <2>3
<1>18. CASE CloseOutput
 <2>1. /\ commit = "no" /\ closing' = "closed" /\ buffered' = FALSE /\ Handed("closed")
       /\ UNCHANGED <<frameDepth, frameSync, wanted, detected, stale, skipped, scheduled, commit>>
   BY <1>18 DEF CloseOutput
 <2>2. /\ pump' \in PumpShape /\ pump'.failed = pump.failed
       /\ bracket' = bracket \/ bracket' = "closed"
   BY <1>1, <2>1, Hands
 <2> QED
   BY <2>1, <2>2 DEF OutputInv, OutputTyped, FrameIsOpen, ProbeRuns,
      TransactionsWhole, PaintsRecovered, Running
<1> QED
  BY <1>2, <1>3, <1>4, <1>5, <1>6, <1>7, <1>8, <1>9, <1>10, <1>11, <1>12, <1>13, <1>14, <1>15, <1>16, <1>17, <1>18, <1>19 DEF OutputNext

\* Whatever the terminal answers, however slowly its pump writes and wherever writing fails: a
\* synchronized update is open exactly from begin_frame to end_frame, and a screen that shows
\* something old will be painted again (tui/runtime.py 113-178, 251-417, 2287-2301).
THEOREM FramesAreWhole == OutputSpec => []OutputSound
<1>1. OutputInit => OutputInv
 <2> SUFFICES ASSUME OutputInit PROVE OutputInv OBVIOUS
 <2>1. pump \in PumpShape /\ ~pump.failed BY DEF OutputInit, PumpShape
 <2>2. OutputTyped BY <2>1 DEF OutputInit, OutputTyped
 <2>3. FrameIsOpen /\ ProbeRuns BY DEF OutputInit, FrameIsOpen, ProbeRuns
 <2>4. TransactionsWhole /\ PaintsRecovered
   BY DEF OutputInit, TransactionsWhole, PaintsRecovered
 <2> QED BY <2>2, <2>3, <2>4 DEF OutputInv
<1>2. OutputInv => OutputSound BY DEF OutputInv, OutputSound
<1> QED BY <1>1, <1>2, OutputStep, PTL DEF OutputSpec

-----------------------------------------------------------------------------
(* The hub: rows and the selected one. *)

\* What a list of rows is, whatever is in them.
IsRows(rows) ==
  Len(rows) \in Nat /\ DOMAIN rows = 1 .. Len(rows) /\ (rows # <<>> => Len(rows) >= 1)

LEMMA FunctionIsRows ==
  ASSUME NEW n \in Nat, NEW f, f = [i \in 1 .. n |-> f[i]]
  PROVE  IsRows(f)
<1> DEFINE S == {f[i] : i \in 1 .. n}
<1>1. f \in [1 .. n -> S] OBVIOUS
<1>2. f \in Seq(S) BY <1>1, SeqDef
<1> HIDE DEF S
<1>3. Len(f) \in Nat /\ DOMAIN f = 1 .. Len(f) BY <1>2
<1>4. f # <<>> => Len(f) >= 1 BY <1>2, <1>3
<1> QED BY <1>3, <1>4 DEF IsRows

\* The rows of the hub are rows, filtered or not, as a list and as a tree.
LEMMA RowsAreRows ==
  ASSUME NEW w, NEW tree, NEW live
  PROVE  IsRows(RowsOf(w, tree, live))
<1>1. \A S \in SUBSET Workers : Cardinality(S) \in Nat
 <2>1. IsFiniteSet(Workers) BY AgentsAssumption, FS_Interval DEF Workers
 <2>2. \A S \in SUBSET Workers : IsFiniteSet(S) BY <2>1, FS_Subset
 <2> QED BY <2>2, FS_CardinalityType
<1> DEFINE told(rows) == {r \in rows : live => w[r].status = "running"}
<1>2. told(TreeRows(w)) \in SUBSET Workers /\ told(ListRows(w)) \in SUBSET Workers
  BY DEF TreeRows, ListRows
<1>3. PICK line : line = LineOf(w) OBVIOUS
<1>4. CASE tree
 <2>1. PICK S \in SUBSET Workers : S = told(TreeRows(w)) BY <1>2
 <2>2. PICK n \in Nat : n = Cardinality(S) BY <1>1
 <2>3. RowsOf(w, tree, live) =
         [i \in 1 .. n |-> CHOOSE r \in S : Cardinality({x \in S : Precedes(x, r, line)}) = i - 1]
   BY <1>3, <1>4, <2>1, <2>2 DEF RowsOf, InOrder
 <2> QED BY <2>3, FunctionIsRows
<1>5. CASE ~tree
 <2>1. PICK S \in SUBSET Workers : S = told(ListRows(w)) BY <1>2
 <2>2. PICK n \in Nat : n = Cardinality(S) BY <1>1
 <2>3. RowsOf(w, tree, live) =
         [i \in 1 .. n |-> CHOOSE r \in S : Cardinality({x \in S : x < r}) = i - 1]
   BY <1>5, <2>1, <2>2 DEF RowsOf, InOrder
 <2> QED BY <2>3, FunctionIsRows
<1> QED BY <1>4, <1>5

LEMMA ClampIs ==
  ASSUME NEW i \in Int, NEW rows, Len(rows) \in Nat
  PROVE  Clamp(i, rows) = IF i < 1 \/ Len(rows) < 1 THEN 1
                          ELSE IF i > Len(rows) THEN Len(rows) ELSE i
<1>1. \A a, b \in Int : Min({a, b}) = IF a <= b THEN a ELSE b BY DEF Min
<1>2. \A a, b \in Int : Max({a, b}) = IF a >= b THEN a ELSE b BY DEF Max
<1> QED BY <1>1, <1>2 DEF Clamp

\* A row stays the row it is when it is brought back among those there are.
LEMMA WithinIsAt ==
  ASSUME NEW i \in Int, NEW rows, IsRows(rows)
  PROVE  /\ Within(i, rows) \in Int /\ AtRow(Within(i, rows), rows) = AtRow(i, rows)
         /\ Clamp(i, rows) \in Int /\ AtRow(Clamp(i, rows), rows) = AtRow(i, rows)
<1>1. PICK k \in Int : k = Clamp(i, rows) /\ Clamp(k, rows) = k BY ClampIs DEF IsRows
<1> QED BY <1>1 DEF Within, AtRow

\* The row that is looked up is that of the worker that is selected.
LEMMA LookUpIsAt ==
  ASSUME NEW i \in Int, NEW id, NEW rows, IsRows(rows)
  PROVE  /\ LookUp(i, id, rows).row \in Int
         /\ AtRow(LookUp(i, id, rows).row, rows) = LookUp(i, id, rows).id
<1>1. CASE id # NoWorker /\ id \in Range(rows)
 <2>1. PICK k \in DOMAIN rows : rows[k] = id /\ LookUp(i, id, rows) = [row |-> k, id |-> id]
   BY <1>1 DEF LookUp, Range
 <2>2. k \in Int /\ Clamp(k, rows) = k /\ rows # <<>> BY <2>1, ClampIs DEF IsRows
 <2> QED BY <2>1, <2>2 DEF AtRow
<1>2. CASE ~(id # NoWorker /\ id \in Range(rows))
 <2>1. LookUp(i, id, rows) = [row |-> Clamp(i, rows), id |-> AtRow(i, rows)]
   BY <1>2 DEF LookUp
 <2> QED BY <2>1, WithinIsAt
<1> QED BY <1>1, <1>2

\* While there is a hub, or an action that refers to it, the row is that of the selected worker.
RowIsKept == (hubOpen \/ act # Idle) /\ ~shifted => AtRow(row, HubRows) = chosen

ActShape ==
  /\ act = [kind |-> act.kind, pc |-> act.pc, bound |-> act.bound, on |-> act.on,
            exact |-> act.exact]
  /\ act.kind \in {"none", "cancel", "revive", "message"}
  /\ act.pc \in {"none", "begun", "calling"} /\ (act.pc # "none" => act.kind # "none")

\* An action of x or r is for the worker whose row was highlighted.
ActIsBound ==
  act.exact /\ act.kind # "message" => act.bound = act.on /\ act.bound # NoWorker

SelectionInv ==
  row \in Int /\ RowIsKept /\ ActShape /\ ActIsBound /\ ActionsHitTheSelected

LEMMA HubIsRows == IsRows(HubRows)
BY RowsAreRows DEF HubRows

\* The selection is looked up again.
LEMMA SelectsKeeps ==
  ASSUME NEW i \in Int, NEW id, NEW rows, IsRows(rows), Selects(i, id, rows), HubRows' = rows
  PROVE  RowIsKept' /\ row' \in Int
<1>1. row' = LookUp(i, id, rows).row /\ chosen' = LookUp(i, id, rows).id BY DEF Selects
<1> QED BY <1>1, LookUpIsAt DEF RowIsKept

\* The rows may have changed, which is noted, and the highlight has not.
LEMMA ShiftsKeeps ==
  ASSUME RowIsKept, Shifts, treeMode' = treeMode, liveOnly' = liveOnly, chosen' = chosen,
         (hubOpen' \/ act' # Idle) => (hubOpen \/ act # Idle),
         AtRow(row', HubRows) = AtRow(row, HubRows)
  PROVE  RowIsKept'
<1> SUFFICES ASSUME hubOpen' \/ act' # Idle, ~shifted'
             PROVE  AtRow(row', HubRows') = chosen'
  BY DEF RowIsKept
<1>1. ~shifted /\ RowsOf(worker', treeMode, liveOnly) = HubRows BY DEF Shifts
<1>2. HubRows' = HubRows BY <1>1 DEF HubRows
<1> QED BY <1>1, <1>2 DEF RowIsKept

\* An event is heard.
LEMMA HubHearsKeeps ==
  ASSUME row \in Int, RowIsKept, HubHears, UNCHANGED <<hubOpen, treeMode, liveOnly>>,
         act' # Idle => act # Idle
  PROVE  RowIsKept' /\ row' \in Int
<1>1. CASE hubOpen /\ mayRefresh
 <2>1. PICK rows, i, id : rows = RowsOf(worker', treeMode, liveOnly) /\ i = row /\ id = chosen
   OBVIOUS
 <2>2. IsRows(rows) /\ HubRows' = rows /\ Selects(i, id, rows)
   BY <1>1, <2>1, RowsAreRows DEF HubRows, HubHears
 <2> QED BY <2>1, <2>2, SelectsKeeps
<1>2. CASE ~(hubOpen /\ mayRefresh)
 <2>1. UNCHANGED rowVars /\ Shifts BY <1>2 DEF HubHears
 <2> QED BY <2>1, ShiftsKeeps DEF rowVars
<1> QED BY <1>1, <1>2

LEMMA SelectionStep ==
  SelectionInv /\ [AgentsNext]_agentsVars => SelectionInv'
<1> SUFFICES ASSUME SelectionInv, [AgentsNext]_agentsVars
             PROVE  SelectionInv'
  OBVIOUS
<1>0. row \in Int /\ RowIsKept /\ ActShape /\ ActIsBound /\ ActionsHitTheSelected
  BY DEF SelectionInv
<1>h. PICK rows : rows = HubRows /\ IsRows(rows) BY HubIsRows
<1>s. ASSUME UNCHANGED <<act, hit>>, RowIsKept', row' \in Int
      PROVE  SelectionInv'
  BY <1>0, <1>s DEF SelectionInv, ActShape, ActIsBound, ActionsHitTheSelected
<1>k. ASSUME UNCHANGED <<act, hit, hubKeys>>, HubHears
      PROVE  SelectionInv'
 <2>1. RowIsKept' /\ row' \in Int BY <1>0, <1>k, HubHearsKeeps DEF hubKeys
 <2> QED BY <1>s, <1>k, <2>1
<1>m. ASSUME UNCHANGED <<act, hit, hubKeys, rowVars>>, Shifts
      PROVE  SelectionInv'
 <2>1. RowIsKept' /\ row' \in Int BY <1>0, <1>m, ShiftsKeeps DEF hubKeys, rowVars
 <2> QED BY <1>s, <1>m, <2>1
<1>n. ASSUME UNCHANGED <<worker, act, hit, hubKeys, rowVars, shifted>>
      PROVE  SelectionInv'
 <2>1. RowIsKept' /\ row' \in Int BY <1>0, <1>n DEF RowIsKept, HubRows, hubKeys, rowVars
 <2> QED BY <1>s, <1>n, <2>1
<1>1. CASE \E r \in Workers : \E p \in Workers \union {TheMain} : SpawnSeen(r, p)
  BY <1>1, <1>k DEF SpawnSeen, Hear
<1>2. CASE \E r \in Workers : Outputs(r) \/ TurnKept(r) \/ Tells(r)
  BY <1>2, <1>k DEF Outputs, TurnKept, Tells, Hear
<1>3. CASE \E r \in Workers : Settles(r)
 <2>1. PICK r \in Workers : Settles(r) BY <1>3
 <2>2. CASE worker[r].gone BY <1>m, <2>1, <2>2 DEF Settles
 <2>3. CASE ~worker[r].gone BY <1>k, <2>1, <2>3 DEF Settles, Hear
 <2> QED BY <2>2, <2>3
<1>4. CASE \E r \in Workers : Detaches(r) BY <1>4, <1>m DEF Detaches
<1>5. CASE MainTurnEnds BY <1>5, <1>k DEF MainTurnEnds
<1>6. CASE TimePasses
 <2>1. UNCHANGED <<worker, hubKeys, row, chosen, shifted, act, hit>> BY <1>6 DEF TimePasses
 <2>2. RowIsKept' /\ row' \in Int BY <1>0, <2>1 DEF RowIsKept, HubRows, hubKeys
 <2> QED BY <1>s, <2>1, <2>2
<1>7. CASE TaskWakes \/ LeavesAgent \/ PromptReturns
  BY <1>7, <1>n DEF TaskWakes, LeavesAgent, PromptReturns
<1>8. CASE Drawn
 <2>1. /\ row' = Within(row, rows)
       /\ UNCHANGED <<worker, hubKeys, chosen, shifted, act, hit>>
   BY <1>8, <1>h DEF Drawn
 <2>2. PICK i \in Int : i = row BY <1>0
 <2>3. row' \in Int /\ AtRow(row', rows) = AtRow(row, rows) BY <1>h, <2>1, <2>2, WithinIsAt
 <2>4. RowIsKept' BY <1>0, <1>h, <2>1, <2>3 DEF RowIsKept, HubRows, hubKeys
 <2> QED BY <1>s, <2>1, <2>3, <2>4
<1>9. CASE HubOpens
 <2>1. PICK rs : rs = RowsOf(worker, FALSE, FALSE) /\ IsRows(rs) BY RowsAreRows
 <2>a. worker' = worker /\ treeMode' = FALSE /\ liveOnly' = FALSE BY <1>9 DEF HubOpens
 <2>2. Selects(1, NoWorker, rs) /\ HubRows' = rs
  <3>1. HubRows' = RowsOf(worker', treeMode', liveOnly') BY DEF HubRows
  <3>2. HubRows' = RowsOf(worker, FALSE, FALSE) BY <2>a, <3>1, Zenon
  <3>3. Selects(1, NoWorker, RowsOf(worker, FALSE, FALSE)) BY <1>9 DEF HubOpens
  <3>4. Selects(1, NoWorker, rs) BY <2>1, <3>3, Zenon
  <3> QED BY <2>1, <3>2, <3>4, Zenon
 <2>3. RowIsKept' /\ row' \in Int
  <3>1. PICK i \in Int, id \in {NoWorker} : i = 1 /\ Selects(i, id, rs) BY <2>2
  <3> QED BY <2>1, <2>2, <3>1, SelectsKeeps
 <2> QED BY <1>9, <1>s, <2>3 DEF HubOpens
<1>10. CASE \E by \in {-8, -1, 1, 8} : MovesRow(by)
 <2>1. PICK by \in {-8, -1, 1, 8} : MovesRow(by) BY <1>10
 <2>2. PICK i \in Int : i = row + by BY <1>0
 <2>3. /\ row' = Clamp(i, rows) /\ chosen' = AtRow(row', rows)
       /\ UNCHANGED <<worker, hubKeys, act, hit>>
   BY <1>h, <2>1, <2>2 DEF MovesRow
 <2>4. row' \in Int BY <1>h, <2>3, WithinIsAt
 <2>5. RowIsKept' BY <1>h, <2>3 DEF RowIsKept, HubRows, hubKeys
 <2> QED BY <1>s, <2>3, <2>4, <2>5
<1>11. CASE Filters
 <2>1. PICK rs : rs = RowsOf(worker, treeMode, liveOnly') /\ IsRows(rs) BY RowsAreRows
 <2>2. Selects(1, NoWorker, rs) /\ HubRows' = rs BY <1>11, <2>1 DEF Filters, HubRows
 <2>3. RowIsKept' /\ row' \in Int BY <2>1, <2>2, SelectsKeeps
 <2> QED BY <1>11, <1>s, <2>3 DEF Filters
<1>12. CASE TogglesTree
 <2>1. PICK rs : rs = RowsOf(worker, treeMode', liveOnly) /\ IsRows(rs) BY RowsAreRows
 <2>2. PICK i \in Int : i = Within(row, HubRows) BY <1>0, <1>h, WithinIsAt
 <2>3. PICK id : id = AtRow(row, HubRows) OBVIOUS
 <2>4. Selects(i, id, rs) /\ HubRows' = rs
   BY <1>12, <2>1, <2>2, <2>3 DEF TogglesTree, HubRows
 <2>5. RowIsKept' /\ row' \in Int BY <2>1, <2>4, SelectsKeeps
 <2> QED BY <1>12, <1>s, <2>5 DEF TogglesTree
<1>13. CASE AsksForText
 <2>1. /\ row' = Within(row, rows) /\ hubOpen' = hubOpen /\ treeMode' = treeMode
       /\ UNCHANGED <<worker, liveOnly, chosen, shifted, act, hit>>
   BY <1>13, <1>h DEF AsksForText
 <2>2. row' \in Int /\ AtRow(row', rows) = AtRow(row, rows) BY <1>0, <1>h, <2>1, WithinIsAt
 <2>3. RowIsKept' BY <1>0, <1>h, <2>1, <2>2 DEF RowIsKept, HubRows
 <2> QED BY <1>s, <2>1, <2>2, <2>3
<1>14. CASE \E kind \in {"cancel", "revive", "message"} : Presses(kind)
 <2>1. PICK kind \in {"cancel", "revive", "message"} : Presses(kind) BY <1>14
 <2>2. /\ hubOpen /\ row' = (IF kind = "message" THEN row ELSE Within(row, rows))
       /\ UNCHANGED <<worker, hubKeys, chosen, shifted, hit>>
   BY <1>h, <2>1 DEF Presses
 <2>3. PICK a : a = AtRow(row, HubRows) OBVIOUS
 <2>4. act' = [kind |-> kind, pc |-> "begun", bound |-> a, on |-> a, exact |-> a # NoWorker]
   BY <2>1, <2>3 DEF Presses, ActionBegins
 <2>5. row' \in Int /\ AtRow(row', rows) = AtRow(row, rows) BY <1>0, <1>h, <2>2, WithinIsAt
 <2>6. RowIsKept' BY <1>0, <1>h, <2>2, <2>5 DEF RowIsKept, HubRows, hubKeys
 <2>7. ActShape' /\ ActIsBound' BY <2>4 DEF ActShape, ActIsBound
 <2>8. ActionsHitTheSelected' BY <1>0, <2>2 DEF ActionsHitTheSelected
 <2> QED BY <2>5, <2>6, <2>7, <2>8 DEF SelectionInv
<1>15. CASE Escapes \/ DrillsIn
 <2>1. UNCHANGED <<worker, act, hit>> BY <1>15 DEF Escapes, DrillsIn
 <2>2. Closes \/ UNCHANGED <<hubOpen, treeMode, liveOnly, rowVars, shifted>>
   BY <1>15 DEF Escapes, DrillsIn
 <2>3. CASE Closes BY <1>0, <1>s, <2>1, <2>3 DEF Closes, RowIsKept, HubRows, rowVars
 <2>4. CASE UNCHANGED <<hubOpen, treeMode, liveOnly, rowVars, shifted>>
   BY <1>0, <1>s, <2>1, <2>4 DEF RowIsKept, HubRows, rowVars
 <2> QED BY <2>2, <2>3, <2>4
<1>16. CASE ActionGoes
 <2>1. PICK r : r = Meant(act) OBVIOUS
 <2>2. /\ act.pc = "begun" /\ Shifts /\ UNCHANGED <<hubKeys, chosen>>
       /\ row' = (IF act.kind = "message" \/ act.bound = NoWorker THEN Within(row, rows) ELSE row)
   BY <1>16, <1>h DEF ActionGoes
 <2>3. row' \in Int /\ AtRow(row', rows) = AtRow(row, rows) BY <1>0, <1>h, <2>2, WithinIsAt
 <2>4. act # Idle BY <2>2 DEF Idle
 <2>5. RowIsKept' BY <1>0, <1>h, <2>2, <2>3, <2>4, ShiftsKeeps DEF hubKeys
 <2>6. CASE act' = Idle /\ hit' = hit
   BY <1>0, <2>3, <2>5, <2>6 DEF SelectionInv, ActShape, ActIsBound, ActionsHitTheSelected, Idle
 <2>7. CASE /\ act' = [act EXCEPT !.pc = "calling", !.bound = r]
            /\ r # NoWorker
            /\ hit' = IF act.kind = "message"
                      THEN [exact |-> ~ shifted, meant |-> chosen, reached |-> r]
                      ELSE [exact |-> act.exact, meant |-> act.on, reached |-> r]
  <3>1. act' = [kind |-> act.kind, pc |-> "calling", bound |-> r, on |-> act.on,
                exact |-> act.exact]
    BY <1>0, <2>7 DEF ActShape
  <3>2. act.kind # "message" /\ act.exact => r = act.on BY <1>0, <2>1 DEF Meant, ActIsBound
  <3>3. act.kind = "message" /\ ~shifted => r = chosen
    BY <1>0, <2>1, <2>4 DEF Meant, RowIsKept
  <3>4. ActShape' /\ ActIsBound' BY <1>0, <2>2, <2>7, <3>1, <3>2 DEF ActShape, ActIsBound
  <3>5. ActionsHitTheSelected' BY <2>7, <3>2, <3>3 DEF ActionsHitTheSelected
  <3> QED BY <2>3, <2>5, <3>4, <3>5 DEF SelectionInv
 <2> QED BY <1>16, <2>1, <2>6, <2>7 DEF ActionGoes
<1>17. CASE ActionReturns
 <2>1. /\ act' = Idle /\ hit' = NoHit /\ UNCHANGED worker
       /\ UNCHANGED <<hubOpen, treeMode, liveOnly>>
       /\ (HubHears \/ UNCHANGED <<hubMode, rowVars, shifted>>)
   BY <1>17 DEF ActionReturns
 <2>2. RowIsKept' /\ row' \in Int
  <3>1. CASE UNCHANGED <<hubMode, rowVars, shifted>>
    BY <1>0, <2>1, <3>1 DEF RowIsKept, HubRows, rowVars
  <3>2. CASE HubHears BY <1>0, <2>1, <3>2, HubHearsKeeps
  <3> QED BY <2>1, <3>1, <3>2
 <2>3. ActShape' /\ ActIsBound' /\ ActionsHitTheSelected'
   BY <2>1 DEF ActShape, ActIsBound, ActionsHitTheSelected, Idle, NoHit
 <2> QED BY <2>2, <2>3 DEF SelectionInv
<1>18. CASE PromptGoes BY <1>18, <1>m DEF PromptGoes
<1>19. CASE UNCHANGED agentsVars BY <1>19, <1>n DEF agentsVars
<1> QED BY <1>1, <1>2, <1>3, <1>4, <1>5, <1>6, <1>7, <1>8, <1>9, <1>10, <1>11, <1>12, <1>13, <1>14,
<1>15, <1>16, <1>17, <1>18, <1>19 DEF AgentsNext

-----------------------------------------------------------------------------
(* The view of a worker. *)

Kinds == {"cancel", "revive", "message"}
WorkerRows ==
  [status : {"unborn", "parked", "running", "done"}, parent : 0 .. MaxWorkers, gone : BOOLEAN,
   said : Nat, kept : Nat, written : Nat]

ViewInv ==
  /\ worker \in [Workers -> WorkerRows] /\ drilled \in Workers \union {NoWorker}
  /\ ActShape /\ sleeping \in BOOLEAN /\ view.forced \in BOOLEAN
  /\ ViewIsOfItsWorker

\* What was said, kept and written of each worker is as it was.
SameTold(w) ==
  \A r \in Workers : /\ w[r].said = worker[r].said /\ w[r].kept = worker[r].kept
                     /\ w[r].written = worker[r].written

\* What the registry is asked for changes how workers are, not what they have said.
LEMMA AskedKeeps ==
  ASSUME worker \in [Workers -> WorkerRows], NEW kind \in Kinds, NEW r
  PROVE  Asked(kind, r) \in [Workers -> WorkerRows] /\ SameTold(Asked(kind, r))
<1>1. \A x \in Workers : \A s \in {"done", "running"} :
        /\ [worker[x] EXCEPT !.status = s] \in WorkerRows
        /\ [worker[x] EXCEPT !.status = s].said = worker[x].said
        /\ [worker[x] EXCEPT !.status = s].kept = worker[x].kept
        /\ [worker[x] EXCEPT !.status = s].written = worker[x].written
  BY DEF WorkerRows
<1>2. CASE kind = "cancel"
 <2>1. PICK B : B = Below(r) OBVIOUS
 <2>2. Asked(kind, r) =
         [x \in Workers |-> IF x \in B /\ worker[x].status = "parked"
                            THEN [worker[x] EXCEPT !.status = "done"] ELSE worker[x]]
   BY <1>2, <2>1 DEF Asked
 <2> QED BY <1>1, <2>2 DEF SameTold
<1>3. CASE kind # "cancel"
 <2>1. Asked(kind, r) = IF worker[r].status = "parked"
                        THEN [worker EXCEPT ![r].status = "running"] ELSE worker
   BY <1>3 DEF Asked, Kinds
 <2>2. CASE r \in Workers BY <1>1, <2>1, <2>2 DEF SameTold
 <2>3. CASE r \notin Workers BY <2>1, <2>3 DEF SameTold
 <2> QED BY <2>2, <2>3
<1> QED BY <1>2, <1>3

\* A worker's view is as it was, and so is what there is of the worker, or less.
LEMMA ViewStays ==
  ASSUME ViewIsOfItsWorker, UNCHANGED <<drilled, view, sleeping>>,
         drilled # NoWorker => /\ worker'[drilled].kept = worker[drilled].kept
                               /\ ShownOf(worker'[drilled], TRUE) \subseteq ShownOf(worker[drilled], TRUE)
  PROVE  ViewIsOfItsWorker'
BY DEF ViewIsOfItsWorker

LEMMA SameToldSameShown ==
  ASSUME SameTold(worker'), NEW r \in Workers
  PROVE  ShownOf(worker'[r], TRUE) = ShownOf(worker[r], TRUE) /\ worker'[r].kept = worker[r].kept
BY DEF SameTold, ShownOf

\* A view that was rebuilt has what is kept, and what is live unless it was left out.
LEMMA ViewRebuilt ==
  ASSUME NEW live \in BOOLEAN, NEW foreign \in BOOLEAN, drilled # NoWorker,
         UNCHANGED drilled, view' = Rebuilt(drilled, live, foreign),
         foreign \/ live \/ ShownOf(worker'[drilled], TRUE) \subseteq 1 .. worker'[drilled].kept
  PROVE  ViewIsOfItsWorker' /\ view'.forced \in BOOLEAN
<1>1. /\ view'.of = drilled /\ view'.forced = foreign
      /\ view'.seen = ShownOf(worker'[drilled], live)
  BY DEF Rebuilt
<1>2. 1 .. worker'[drilled].kept \subseteq ShownOf(worker'[drilled], live) BY DEF ShownOf
<1>3. foreign \/ ShownOf(worker'[drilled], TRUE) \subseteq ShownOf(worker'[drilled], live)
  BY <1>2
<1> QED BY <1>1, <1>2, <1>3 DEF ViewIsOfItsWorker

\* An event of a worker reaches the view that is open.
LEMMA ViewHearsKeeps ==
  ASSUME NEW r \in Workers, NEW forces \in BOOLEAN, ViewInv, ViewHears(r, forces),
         ~forces => \A x \in Workers : worker'[x].kept = worker[x].kept,
         ~forces => \A x \in Workers \ {r} : ShownOf(worker'[x], TRUE) \subseteq ShownOf(worker[x], TRUE),
         forces => ShownOf(worker'[r], TRUE) \subseteq 1 .. worker'[r].kept
  PROVE  /\ ViewIsOfItsWorker' /\ drilled' = drilled
         /\ sleeping' \in BOOLEAN /\ view'.forced \in BOOLEAN
<1>1. drilled' = drilled /\ drilled \in Workers \union {NoWorker} /\ sleeping \in BOOLEAN
      /\ view.forced \in BOOLEAN /\ ViewIsOfItsWorker
  BY DEF ViewHears, ViewInv
<1>2. CASE drilled = NoWorker
 <2>1. UNCHANGED <<view, sleeping>> BY <1>2 DEF ViewHears
 <2> QED BY <1>1, <1>2, <2>1, ViewStays
<1>3. CASE drilled # NoWorker /\ forces
 <2>1. view' = Rebuilt(drilled, FALSE, r # drilled) /\ sleeping' = FALSE
   BY <1>3 DEF ViewHears
 <2>2. PICK foreign \in BOOLEAN : foreign = (r # drilled) OBVIOUS
 <2>3. view' = Rebuilt(drilled, FALSE, foreign) BY <2>1, <2>2
 <2> QED BY <1>1, <1>3, <2>1, <2>2, <2>3, ViewRebuilt
<1>4. CASE drilled # NoWorker /\ ~forces /\ mayRebuild
 <2>1. view' = Rebuilt(drilled, TRUE, FALSE) /\ sleeping' = sleeping BY <1>4 DEF ViewHears
 <2> QED BY <1>1, <1>4, <2>1, ViewRebuilt
<1>5. CASE drilled # NoWorker /\ ~forces /\ ~mayRebuild
 <2>1. UNCHANGED view /\ sleeping' = (sleeping \/ r = drilled)
   BY <1>5 DEF ViewHears, LeavesToTask
 <2>2. CASE r = drilled BY <1>1, <1>5, <2>1, <2>2 DEF ViewIsOfItsWorker
 <2>3. CASE r # drilled
  <3>1. sleeping' = sleeping BY <1>1, <2>1, <2>3
  <3> QED BY <1>1, <1>5, <2>1, <2>3, <3>1, ViewStays
 <2> QED BY <2>2, <2>3
<1> QED BY <1>2, <1>3, <1>4, <1>5

LEMMA ViewStep ==
  ViewInv /\ [AgentsNext]_agentsVars => ViewInv'
<1> SUFFICES ASSUME ViewInv, [AgentsNext]_agentsVars
             PROVE  ViewInv'
  OBVIOUS
<1>0. /\ worker \in [Workers -> WorkerRows] /\ drilled \in Workers \union {NoWorker}
      /\ ActShape /\ sleeping \in BOOLEAN /\ view.forced \in BOOLEAN /\ ViewIsOfItsWorker
  BY DEF ViewInv
<1>t. \A r \in Workers : /\ worker[r] \in WorkerRows
                         /\ worker[r].said \in Nat /\ worker[r].kept \in Nat
                         /\ worker[r].written \in Nat
  BY <1>0 DEF WorkerRows
<1>p. ASSUME NEW r \in Workers, NEW d \in WorkerRows, worker' = [worker EXCEPT ![r] = d],
             d.said = worker[r].said, d.kept = worker[r].kept, d.written = worker[r].written
      PROVE  worker' \in [Workers -> WorkerRows] /\ SameTold(worker')
  BY <1>0, <1>p DEF SameTold
<1>e. \A r \in Workers : worker[r].kept = worker[r].said =>
        ShownOf(worker[r], TRUE) \subseteq 1 .. worker[r].kept
  BY <1>t DEF ShownOf
\* what an event does that changes no more than how a worker is
<1>h. ASSUME NEW r \in Workers, NEW forces \in BOOLEAN, Hear(r, forces), act' = act,
             worker' \in [Workers -> WorkerRows], SameTold(worker'),
             forces => worker[r].kept = worker[r].said
      PROVE  ViewInv'
 <2>1. \A x \in Workers : /\ ShownOf(worker'[x], TRUE) = ShownOf(worker[x], TRUE)
                          /\ worker'[x].kept = worker[x].kept
   BY <1>h, SameToldSameShown
 <2>2. ViewHears(r, forces) BY <1>h DEF Hear
 <2>3. /\ ViewIsOfItsWorker' /\ drilled' = drilled
       /\ sleeping' \in BOOLEAN /\ view'.forced \in BOOLEAN
   BY <1>e, <1>h, <2>1, <2>2, ViewHearsKeeps
 <2> QED BY <1>0, <1>h, <2>3 DEF ViewInv, ActShape
\* what leaves the view alone
<1>v. ASSUME UNCHANGED <<drilled, view, sleeping>>, worker' \in [Workers -> WorkerRows],
             SameTold(worker'), ActShape'
      PROVE  ViewInv'
 <2>1. ViewIsOfItsWorker' BY <1>0, <1>v, SameToldSameShown, ViewStays
 <2> QED BY <1>0, <1>v, <2>1 DEF ViewInv
<1>w. ASSUME UNCHANGED <<worker, act>>, drilled' \in Workers \union {NoWorker},
             sleeping' \in BOOLEAN, view'.forced \in BOOLEAN, ViewIsOfItsWorker'
      PROVE  ViewInv'
  BY <1>0, <1>w DEF ViewInv, ActShape
<1>1. CASE \E r \in Workers : \E p \in Workers \union {TheMain} : SpawnSeen(r, p)
 <2>1. PICK r \in Workers : \E p \in Workers \union {TheMain} : SpawnSeen(r, p) BY <1>1
 <2>2. PICK p \in 0 .. MaxWorkers : SpawnSeen(r, p)
   BY <2>1, AgentsAssumption DEF Workers, TheMain
 <2>3. worker' = [worker EXCEPT ![r] = [worker[r] EXCEPT !.status = "running", !.parent = p]]
   BY <1>0, <2>2 DEF SpawnSeen
 <2>4. worker' \in [Workers -> WorkerRows] /\ SameTold(worker')
  <3>1. PICK d : d = [worker[r] EXCEPT !.status = "running", !.parent = p] OBVIOUS
  <3>2. /\ d \in WorkerRows /\ d.said = worker[r].said /\ d.kept = worker[r].kept
        /\ d.written = worker[r].written
    BY <1>t, <3>1 DEF WorkerRows
  <3> QED BY <1>p, <2>3, <3>1, <3>2
 <2> QED BY <1>h, <2>2, <2>4 DEF SpawnSeen, Hear
<1>2. CASE \E r \in Workers : Outputs(r)
 <2>1. PICK r \in Workers : Outputs(r) BY <1>2
 <2>2. PICK n \in Nat : n = worker[r].said + 1 BY <1>t
 <2>3. worker' = [worker EXCEPT ![r] = [worker[r] EXCEPT !.said = n]] /\ act' = act
   BY <1>0, <2>1, <2>2 DEF Outputs
 <2>4. /\ worker' \in [Workers -> WorkerRows]
       /\ \A x \in Workers \ {r} : worker'[x] = worker[x]
       /\ \A x \in Workers : worker'[x].kept = worker[x].kept
  <3>1. PICK d : d = [worker[r] EXCEPT !.said = n] OBVIOUS
  <3>2. d \in WorkerRows /\ d.kept = worker[r].kept BY <1>t, <3>1 DEF WorkerRows
  <3> QED BY <1>0, <2>3, <3>1, <3>2
 <2>5. CASE r = drilled
  <3>1. ViewHears(r, FALSE) BY <2>1, <2>5 DEF Outputs
  <3>2. /\ ViewIsOfItsWorker' /\ drilled' = drilled
        /\ sleeping' \in BOOLEAN /\ view'.forced \in BOOLEAN
    BY <2>4, <3>1, ViewHearsKeeps
  <3> QED BY <1>0, <2>3, <2>4, <3>2 DEF ViewInv, ActShape
 <2>6. CASE r # drilled
  <3>1. UNCHANGED <<drilled, view, sleeping>> BY <2>1, <2>6 DEF Outputs, viewVars
  <3>2. drilled # NoWorker => worker'[drilled] = worker[drilled] BY <1>0, <2>4, <2>6
  <3>3. ViewIsOfItsWorker' BY <1>0, <3>1, <3>2, ViewStays
  <3> QED BY <1>0, <2>3, <2>4, <3>1, <3>3 DEF ViewInv, ActShape
 <2> QED BY <2>5, <2>6
<1>a. /\ AllWritten \in [Workers -> WorkerRows]
      /\ \A x \in Workers : /\ AllWritten[x].kept = worker[x].kept
                            /\ AllWritten[x].said = worker[x].said
                            /\ AllWritten[x].written = worker[x].said
  BY <1>t DEF AllWritten, WorkerRows
\* what is written is no longer live
<1>l. \A w \in WorkerRows : w.written = w.said => ShownOf(w, TRUE) \subseteq 1 .. w.kept
 <2> TAKE w \in WorkerRows
 <2>1. w.said \in Nat /\ w.written \in Nat BY DEF WorkerRows
 <2>2. w.written = w.said => w.written + 1 .. w.said = {} BY <2>1
 <2> QED BY <2>2 DEF ShownOf
<1>3. CASE \E r \in Workers : TurnKept(r)
 <2>1. PICK r \in Workers : TurnKept(r) BY <1>3
 <2>2. PICK k \in Nat : k = worker[r].said BY <1>t
 <2>3. worker' = [AllWritten EXCEPT ![r] = [AllWritten[r] EXCEPT !.kept = k]] /\ act' = act
   BY <1>a, <2>1, <2>2 DEF TurnKept
 <2>4. [AllWritten[r] EXCEPT !.kept = k] \in WorkerRows BY <1>a DEF WorkerRows
 <2>5. worker' \in [Workers -> WorkerRows] BY <1>a, <2>3, <2>4
 <2>6. \A x \in Workers : worker'[x].written = worker'[x].said BY <1>a, <2>3 DEF WorkerRows
 <2>7. \A x \in Workers \ {r} : worker'[x] = AllWritten[x] BY <1>a, <2>3
 <2>8. \A x \in Workers : ShownOf(worker'[x], TRUE) \subseteq 1 .. worker'[x].kept
   BY <1>l, <2>5, <2>6
 <2>9. CASE r = drilled
  <3>1. ViewHears(r, TRUE) BY <2>1, <2>9 DEF TurnKept
  <3>2. /\ ViewIsOfItsWorker' /\ drilled' = drilled
        /\ sleeping' \in BOOLEAN /\ view'.forced \in BOOLEAN
    BY <2>8, <3>1, ViewHearsKeeps
  <3> QED BY <1>0, <2>3, <2>5, <3>2 DEF ViewInv, ActShape
 <2>10. CASE r # drilled
  <3>1. UNCHANGED <<drilled, view, sleeping>> BY <2>1, <2>10 DEF TurnKept, viewVars
  <3>2. drilled # NoWorker => /\ worker'[drilled].kept = worker[drilled].kept
                              /\ ShownOf(worker'[drilled], TRUE) \subseteq ShownOf(worker[drilled], TRUE)
    BY <1>0, <1>a, <2>7, <2>8, <2>10 DEF ShownOf
  <3>3. ViewIsOfItsWorker' BY <1>0, <3>1, <3>2, ViewStays
  <3> QED BY <1>0, <2>3, <2>5, <3>1, <3>3 DEF ViewInv, ActShape
 <2> QED BY <2>9, <2>10
<1>4. CASE \E r \in Workers : Settles(r)
 <2>1. PICK r \in Workers : Settles(r) BY <1>4
 <2>2. PICK s \in {"done", "parked"} :
         worker' = [worker EXCEPT ![r] = [worker[r] EXCEPT !.status = s]]
   BY <1>0, <2>1 DEF Settles
 <2>3. worker' \in [Workers -> WorkerRows] /\ SameTold(worker')
  <3>1. PICK d : d = [worker[r] EXCEPT !.status = s] OBVIOUS
  <3>2. /\ d \in WorkerRows /\ d.said = worker[r].said /\ d.kept = worker[r].kept
        /\ d.written = worker[r].written
    BY <1>t, <3>1 DEF WorkerRows
  <3> QED BY <1>p, <2>2, <3>1, <3>2
 <2>4. CASE worker[r].gone BY <1>0, <1>v, <2>1, <2>3, <2>4 DEF Settles, viewVars, ActShape
 <2>5. CASE ~worker[r].gone BY <1>h, <2>1, <2>3, <2>5 DEF Settles, Hear
 <2> QED BY <2>4, <2>5
<1>5. CASE \E r \in Workers : Tells(r)
 <2>1. PICK r \in Workers : Tells(r) BY <1>5
 <2>2. worker' \in [Workers -> WorkerRows] /\ SameTold(worker')
   BY <1>0, <2>1 DEF Tells, SameTold
 <2> QED BY <1>h, <2>1, <2>2 DEF Tells, Hear
<1>6. CASE \E r \in Workers : Detaches(r)
 <2>1. PICK r \in Workers : Detaches(r) BY <1>6
 <2>2. worker' = [worker EXCEPT ![r] = [worker[r] EXCEPT !.gone = TRUE]]
   BY <1>0, <2>1 DEF Detaches
 <2>3. worker' \in [Workers -> WorkerRows] /\ SameTold(worker')
  <3>1. PICK d : d = [worker[r] EXCEPT !.gone = TRUE] OBVIOUS
  <3>2. /\ d \in WorkerRows /\ d.said = worker[r].said /\ d.kept = worker[r].kept
        /\ d.written = worker[r].written
    BY <1>t, <3>1 DEF WorkerRows
  <3> QED BY <1>p, <2>2, <3>1, <3>2
 <2> QED BY <1>0, <1>v, <2>1, <2>3 DEF Detaches, viewVars, ActShape
<1>7. CASE MainTurnEnds
 <2>1. worker' = AllWritten /\ act' = act /\ UNCHANGED <<drilled, view, sleeping>>
   BY <1>7 DEF MainTurnEnds, viewVars
 <2>2. \A x \in Workers : ShownOf(worker'[x], TRUE) \subseteq 1 .. worker'[x].kept
   BY <1>a, <1>l, <2>1
 <2>3. drilled # NoWorker => /\ worker'[drilled].kept = worker[drilled].kept
                             /\ ShownOf(worker'[drilled], TRUE) \subseteq ShownOf(worker[drilled], TRUE)
   BY <1>0, <1>a, <2>1, <2>2 DEF ShownOf
 <2>4. ViewIsOfItsWorker' BY <1>0, <2>1, <2>3, ViewStays
 <2> QED BY <1>0, <1>a, <2>1, <2>4 DEF ViewInv, ActShape
<1>8. CASE \/ TimePasses \/ Drawn \/ HubOpens \/ Filters \/ TogglesTree \/ AsksForText \/ Escapes
           \/ \E by \in {-8, -1, 1, 8} : MovesRow(by)
 <2>1. UNCHANGED <<worker, act, drilled, view, sleeping>>
   BY <1>8 DEF TimePasses, Drawn, HubOpens, Filters, TogglesTree, AsksForText, Escapes, MovesRow,
               viewVars
 <2> QED BY <1>0, <1>v, <2>1 DEF SameTold, ActShape
<1>9. CASE TaskWakes \/ PromptReturns
 <2>1. /\ UNCHANGED <<worker, act, drilled>> /\ (sleeping' = FALSE \/ sleeping' = sleeping)
       /\ drilled = NoWorker => view' = view
       /\ drilled # NoWorker => view' = Rebuilt(drilled, TRUE, FALSE)
   BY <1>9 DEF TaskWakes, PromptReturns
 <2>2. CASE drilled = NoWorker
  <3>1. ViewIsOfItsWorker' BY <1>0, <2>1, <2>2 DEF ViewIsOfItsWorker
  <3> QED BY <1>0, <1>w, <2>1, <2>2, <3>1
 <2>3. CASE drilled # NoWorker
  <3>1. ViewIsOfItsWorker' /\ view'.forced \in BOOLEAN BY <2>1, <2>3, ViewRebuilt
  <3> QED BY <1>0, <1>w, <2>1, <3>1
 <2> QED BY <2>2, <2>3
<1>10. CASE DrillsIn
 <2>1. PICK r \in Workers :
         drilled' = r /\ view' = [of |-> r, seen |-> ShownOf(worker[r], TRUE), forced |-> FALSE]
   BY <1>10 DEF DrillsIn
 <2>2. UNCHANGED <<worker, act, sleeping>> BY <1>10 DEF DrillsIn
 <2>3. r # NoWorker BY DEF Workers, NoWorker
 <2>4. ViewIsOfItsWorker' BY <2>1, <2>2, <2>3 DEF ViewIsOfItsWorker, ShownOf
 <2> QED BY <1>0, <1>w, <2>1, <2>2, <2>4
<1>11. CASE LeavesAgent
 <2>1. /\ drilled' = NoWorker /\ view' = NoView /\ sleeping' = FALSE
       /\ UNCHANGED <<worker, act>>
   BY <1>11 DEF LeavesAgent, LeavesFrame
 <2>2. ViewIsOfItsWorker' /\ view'.forced \in BOOLEAN BY <2>1 DEF ViewIsOfItsWorker, NoView
 <2> QED BY <1>w, <2>1, <2>2
<1>12. CASE \E kind \in {"cancel", "revive", "message"} : Presses(kind)
 <2>1. PICK kind \in {"cancel", "revive", "message"} : Presses(kind) BY <1>12
 <2>2. PICK a : a = AtRow(row, HubRows) OBVIOUS
 <2>3. act' = [kind |-> kind, pc |-> "begun", bound |-> a, on |-> a, exact |-> a # NoWorker]
   BY <2>1, <2>2 DEF Presses, ActionBegins
 <2>4. ActShape' BY <2>3 DEF ActShape
 <2>5. UNCHANGED <<worker, drilled, view, sleeping>> BY <2>1 DEF Presses, viewVars
 <2> QED BY <1>0, <1>v, <2>4, <2>5 DEF SameTold
<1>13. CASE ActionGoes
 <2>1. PICK r : r = Meant(act) OBVIOUS
 <2>2. UNCHANGED <<drilled, view, sleeping>> /\ act.pc = "begun"
   BY <1>13 DEF ActionGoes, viewVars
 <2>3. CASE act' = Idle /\ worker' = worker
   BY <1>0, <1>v, <2>2, <2>3 DEF SameTold, ActShape, Idle
 <2>4. CASE act' = [act EXCEPT !.pc = "calling", !.bound = r] /\ worker' = Asked(act.kind, r)
  <3>1. act' = [kind |-> act.kind, pc |-> "calling", bound |-> r, on |-> act.on,
                exact |-> act.exact]
    BY <1>0, <2>4 DEF ActShape
  <3>2. PICK kind \in Kinds : kind = act.kind BY <1>0, <2>2 DEF ActShape, Kinds
  <3>3. worker' \in [Workers -> WorkerRows] /\ SameTold(worker')
    BY <1>0, <2>4, <3>2, AskedKeeps
  <3>4. ActShape' BY <1>0, <2>2, <3>1 DEF ActShape
  <3> QED BY <1>v, <2>2, <3>3, <3>4
 <2> QED BY <1>13, <2>1, <2>3, <2>4 DEF ActionGoes
<1>14. CASE ActionReturns
  BY <1>0, <1>14, <1>v DEF ActionReturns, viewVars, SameTold, ActShape, Idle
<1>15. CASE PromptGoes
 <2>1. /\ worker' = Asked("message", drilled)
       /\ UNCHANGED <<act, drilled, view, sleeping>>
   BY <1>15 DEF PromptGoes
 <2>2. worker' \in [Workers -> WorkerRows] /\ SameTold(worker')
   BY <1>0, <2>1, AskedKeeps DEF Kinds
 <2> QED BY <1>0, <1>v, <2>1, <2>2 DEF ActShape
<1>16. CASE UNCHANGED agentsVars
  BY <1>0, <1>16, <1>v DEF agentsVars, viewVars, SameTold, ActShape
<1> QED BY <1>1, <1>2, <1>3, <1>4, <1>5, <1>6, <1>7, <1>8, <1>9, <1>10, <1>11, <1>12, <1>13, <1>14,
<1>15, <1>16 DEF AgentsNext

LEMMA AgentsBegin ==
  AgentsInit => SelectionInv /\ ViewInv
<1> SUFFICES ASSUME AgentsInit
             PROVE  SelectionInv /\ ViewInv
  OBVIOUS
<1>1. /\ row = 1 /\ act = Idle /\ hubOpen = FALSE /\ hit = NoHit
      /\ drilled = NoWorker /\ view = NoView /\ sleeping = FALSE
  BY DEF AgentsInit
<1>2. ActShape /\ ActIsBound BY <1>1 DEF ActShape, ActIsBound, Idle
<1>3. SelectionInv BY <1>1, <1>2 DEF SelectionInv, RowIsKept, ActionsHitTheSelected, NoHit
<1>4. worker \in [Workers -> WorkerRows]
 <2>1. [status : {"unborn", "parked"}, parent : {TheMain}, gone : {FALSE},
        said : {0}, kept : {0}, written : {0}] \subseteq WorkerRows
  <3>1. TheMain \in 0 .. MaxWorkers BY AgentsAssumption DEF TheMain
  <3> SUFFICES ASSUME NEW x \in [status : {"unborn", "parked"}, parent : {TheMain}, gone : {FALSE},
                                 said : {0}, kept : {0}, written : {0}]
               PROVE  x \in WorkerRows
    OBVIOUS
  <3>2. /\ x.status \in {"unborn", "parked"} /\ x.parent \in 0 .. MaxWorkers /\ x.gone \in BOOLEAN
        /\ x.said \in Nat /\ x.kept \in Nat /\ x.written \in Nat
   <4>1. x.status \in {"unborn", "parked"} OBVIOUS
   <4>2. x.parent \in {TheMain} OBVIOUS
   <4>3. x.gone \in BOOLEAN
    <5>1. x.gone \in {FALSE} OBVIOUS
    <5>2. x.gone = FALSE BY <5>1, Zenon
    <5> QED BY <5>2
   <4>4. x.said \in {0} /\ x.kept \in {0} /\ x.written \in {0} OBVIOUS
   <4> QED BY <3>1, <4>1, <4>2, <4>3, <4>4
  <3>3. x = [status |-> x.status, parent |-> x.parent, gone |-> x.gone, said |-> x.said,
             kept |-> x.kept, written |-> x.written]
    OBVIOUS
  <3> QED BY <3>2, <3>3 DEF WorkerRows
 <2> QED BY <2>1 DEF AgentsInit
<1>5. ViewIsOfItsWorker /\ view.forced \in BOOLEAN BY <1>1 DEF ViewIsOfItsWorker, NoView
<1> QED BY <1>1, <1>2, <1>3, <1>4, <1>5 DEF ViewInv

\* For any number of workers, outputs and keys, in any order of events: the highlight stays on the
\* worker that is selected, an action is for the one whose row was highlighted when its key was
\* pressed, and the view of a worker has all that is kept of it, and all that is live unless a
\* refresh is on its way or a change of another worker rebuilt it (hub.py 353-555,
\* runtime.py 937-1034).
THEOREM HubHitsTheSelected == AgentsSpec => []AgentsSound
<1>1. SelectionInv => SelectionIsKept /\ ActionsHitTheSelected
  BY DEF SelectionInv, RowIsKept, SelectionIsKept
<1>2. ViewInv => ViewIsOfItsWorker BY DEF ViewInv
<1>3. SelectionInv /\ ViewInv => AgentsSound BY <1>1, <1>2 DEF AgentsSound
<1> QED BY <1>3, AgentsBegin, SelectionStep, ViewStep, PTL DEF AgentsSpec

-----------------------------------------------------------------------------
(* The status line: what is on record, and whose it is. *)

Texts == (Folder \X Nat) \union {None}
TitleTexts == (Place \X {"prompt"}) \union {None}
GitShape == [of : (Place \X Folder) \union {None}, text : Texts, fresh : BOOLEAN,
             refreshing : BOOLEAN, gen : Nat]
PrShape == [of : Folder \union {None}, text : Texts, due : BOOLEAN, refreshing : BOOLEAN]
TitleShape == [of : Place \union {None}, text : TitleTexts, ready : BOOLEAN, refreshing : BOOLEAN,
               waits : BOOLEAN, gen : Nat]
StatusShape == [git : GitShape, pr : PrShape, title : TitleShape, tokens : Nat]

\* A text is of what its segment says it is of (git's scope is lost when a state is saved, its text
\* is not), only sessions that have a title show one, and what is not configured shows nothing.
Fits(st, titled, segs) ==
  /\ st.git.text # None /\ st.git.of # None => st.git.text[1] = st.git.of[2]
  /\ st.pr.text # None => st.pr.text[1] = st.pr.of
  /\ st.title.text # None => st.title.text[1] = st.title.of /\ st.title.of \in titled
  /\ ("git" \notin segs => st.git.text = None) /\ ("pr" \notin segs => st.pr.text = None)
  /\ ("session" \notin segs => st.title.text = None)

Titled == {s \in Place : titles[s] # None}

LEMMA TextsDiffer ==
  ASSUME NEW a, NEW b
  PROVE  /\ <<a, b>> # None /\ <<a, b>> # Unread /\ <<a, b>> # Failed
         /\ None # Unread /\ None # Failed /\ Unread # Failed
         /\ <<a, b>>[1] = a /\ <<a, b>>[2] = b
BY DEF None, Unread, Failed

LEMMA PlaceIsNotNone == None \notin Place \union Folder
BY StatusAssumption

LEMMA ClearedFits ==
  ASSUME NEW titled, NEW segs
  PROVE  Cleared \in StatusShape /\ Fits(Cleared, titled, segs)
<1>1. Cleared.git \in GitShape /\ Cleared.pr \in PrShape /\ Cleared.title \in TitleShape
  BY DEF Cleared, GitShape, PrShape, TitleShape, Texts, TitleTexts
<1>2. Cleared = [git |-> Cleared.git, pr |-> Cleared.pr, title |-> Cleared.title, tokens |-> 0]
  BY DEF Cleared
<1>3. Cleared \in StatusShape BY <1>1, <1>2 DEF StatusShape
<1> QED BY <1>3 DEF Cleared, Fits

LEMMA PartsOf ==
  ASSUME NEW st \in StatusShape
  PROVE  /\ st.git \in GitShape /\ st.pr \in PrShape /\ st.title \in TitleShape /\ st.tokens \in Nat
         /\ st = [git |-> st.git, pr |-> st.pr, title |-> st.title, tokens |-> st.tokens]
BY DEF StatusShape

LEMMA GitResetIs ==
  ASSUME NEW g \in GitShape
  PROVE  /\ GitReset(g) \in GitShape /\ GitReset(g).text = None /\ GitReset(g).of = None
         /\ GitReset(g).refreshing = FALSE /\ GitReset(g).fresh = FALSE
<1>1. GitReset(g) = [of |-> None, text |-> None, fresh |-> FALSE, refreshing |-> FALSE,
                     gen |-> g.gen + 1]
 <2>f. PICK f : f = FALSE OBVIOUS
 <2>1. Cleared.git = [of |-> None, text |-> None, fresh |-> f, refreshing |-> f, gen |-> 0]
   BY <2>f DEF Cleared
 <2>2. PICK c : c = Cleared.git OBVIOUS
 <2>n. PICK n \in Nat : n = g.gen + 1 BY DEF GitShape
 <2>3. GitReset(g) = [c EXCEPT !.gen = n] BY <2>2, <2>n DEF GitReset
 <2>4. [c EXCEPT !.gen = n] = [of |-> None, text |-> None, fresh |-> f, refreshing |-> f, gen |-> n]
   BY <2>1, <2>2
 <2> QED BY <2>n, <2>f, <2>3, <2>4
<1>2. g.gen + 1 \in Nat BY DEF GitShape
<1> QED BY <1>1, <1>2 DEF GitShape, Texts

LEMMA TitleResetIs ==
  ASSUME NEW t \in TitleShape
  PROVE  /\ TitleReset(t) \in TitleShape /\ TitleReset(t).text = None /\ TitleReset(t).of = None
         /\ TitleReset(t).refreshing = FALSE /\ TitleReset(t).ready = FALSE
         /\ TitleReset(t).gen = t.gen + 1
<1>1. TitleReset(t) = [of |-> None, text |-> None, ready |-> FALSE, refreshing |-> FALSE,
                       waits |-> FALSE, gen |-> t.gen + 1]
 <2>f. PICK f : f = FALSE OBVIOUS
 <2>1. Cleared.title = [of |-> None, text |-> None, ready |-> f, refreshing |-> f, waits |-> f,
                        gen |-> 0]
   BY <2>f DEF Cleared
 <2>2. PICK c : c = Cleared.title OBVIOUS
 <2>n. PICK n \in Nat : n = t.gen + 1 BY DEF TitleShape
 <2>3. TitleReset(t) = [c EXCEPT !.gen = n] BY <2>2, <2>n DEF TitleReset
 <2>4. [c EXCEPT !.gen = n] = [of |-> None, text |-> None, ready |-> f, refreshing |-> f,
                               waits |-> f, gen |-> n]
   BY <2>1, <2>2
 <2> QED BY <2>n, <2>f, <2>3, <2>4
<1>2. t.gen + 1 \in Nat BY DEF TitleShape
<1> QED BY <1>1, <1>2 DEF TitleShape, TitleTexts

\* The resets and what is saved show nothing that was not on record.
LEMMA ResetsFit ==
  ASSUME NEW st \in StatusShape, NEW titled, NEW segs, Fits(st, titled, segs)
  PROVE  /\ ResetOfPlace(st) \in StatusShape /\ Fits(ResetOfPlace(st), titled, segs)
         /\ ResetOfPlace(st).tokens = st.tokens /\ ResetOfPlace(st).title.text = None
         /\ ResetOfPlace(st).title.of = None
         /\ ResetOfPlace(st).git.refreshing = FALSE /\ ResetOfPlace(st).title.refreshing = FALSE
<1>1. PICK g \in GitShape, t \in TitleShape : g = GitReset(st.git) /\ t = TitleReset(st.title)
  BY PartsOf, GitResetIs, TitleResetIs
<1>2. /\ g.text = None /\ t.text = None /\ g.refreshing = FALSE /\ t.refreshing = FALSE
      /\ t.of = None
  BY <1>1, PartsOf, GitResetIs, TitleResetIs
<1>3. ResetOfPlace(st) = [git |-> g, pr |-> st.pr, title |-> t, tokens |-> st.tokens]
 <2>1. ResetOfPlace(st) = [st EXCEPT !.git = g, !.title = t] BY <1>1 DEF ResetOfPlace
 <2> QED BY <2>1, PartsOf
<1> QED BY <1>2, <1>3, PartsOf DEF StatusShape, Fits

LEMMA ThreadResetFits ==
  ASSUME NEW st \in StatusShape, NEW titled, NEW segs, Fits(st, titled, segs)
  PROVE  /\ ResetOfThread(st) \in StatusShape /\ Fits(ResetOfThread(st), titled, segs)
         /\ ResetOfThread(st).tokens = 0 /\ ResetOfThread(st).title.text = None
         /\ ResetOfThread(st).title.refreshing = FALSE /\ ResetOfThread(st).git = st.git
         /\ ResetOfThread(st).title.of = None
<1>1. PICK t \in TitleShape : t = TitleReset(st.title) BY PartsOf, TitleResetIs
<1>2. t.text = None /\ t.refreshing = FALSE /\ t.of = None BY <1>1, PartsOf, TitleResetIs
<1>3. PICK n \in Nat : n = 0 OBVIOUS
<1>4. PICK r : r = [st EXCEPT !.title = t] OBVIOUS
<1>5. /\ r \in StatusShape /\ r.title = t /\ r.git = st.git /\ r.pr = st.pr /\ r.tokens = st.tokens
      /\ r = [git |-> r.git, pr |-> r.pr, title |-> r.title, tokens |-> r.tokens]
  BY <1>4 DEF StatusShape
<1>6. ResetOfThread(st) = [st EXCEPT !.title = t, !.tokens = n]
  BY <1>1, <1>3 DEF ResetOfThread
<1>7. [st EXCEPT !.title = t, !.tokens = n] = [r EXCEPT !.tokens = n] BY <1>4
<1>8. PICK q : q = [r EXCEPT !.tokens = n] OBVIOUS
<1>9. /\ q \in StatusShape /\ q.title = t /\ q.git = st.git /\ q.pr = st.pr /\ q.tokens = 0
  BY <1>3, <1>5, <1>8 DEF StatusShape
<1> QED BY <1>2, <1>6, <1>7, <1>8, <1>9 DEF Fits

LEMMA SavedFits ==
  ASSUME NEW st \in StatusShape, NEW titled, NEW segs, Fits(st, titled, segs)
  PROVE  /\ Saved(st) \in StatusShape /\ Fits(Saved(st), titled, segs)
         /\ Saved(st).tokens = st.tokens /\ Saved(st).title = st.title
<1>1. PICK g : g = [st.git EXCEPT !.of = None] OBVIOUS
<1>2. g \in GitShape /\ g.of = None /\ g.text = st.git.text BY <1>1, PartsOf DEF GitShape
<1>3. Saved(st) = [git |-> g, pr |-> st.pr, title |-> st.title, tokens |-> st.tokens]
  BY <1>1, PartsOf DEF Saved
<1> QED BY <1>2, <1>3, PartsOf DEF StatusShape, Fits

LEMMA FitsGrows ==
  ASSUME NEW st, NEW titled, NEW more, NEW segs, titled \subseteq more, Fits(st, titled, segs)
  PROVE  Fits(st, more, segs)
BY DEF Fits

-----------------------------------------------------------------------------
\* A paint: every text is then of the session and the directory in use.
LEMMA EvaluatedFits ==
  ASSUME NEW st \in StatusShape, NEW titled, Fits(st, titled, segments),
         inUse \in Place, Here \in Folder
  PROVE  /\ Evaluated(st) \in StatusShape /\ Fits(Evaluated(st), titled, segments)
         /\ Evaluated(st).tokens = st.tokens /\ Evaluated(st).title.of \in {st.title.of, inUse}
         /\ Evaluated(st).git.text # None => Evaluated(st).git.text[1] = Here
         /\ Evaluated(st).pr.text # None => Evaluated(st).pr.text[1] = Here
         /\ Evaluated(st).title.text # None => Evaluated(st).title.text[1] = inUse
<1> DEFINE G == IF "git" \in segments
                THEN [GitAt(st) EXCEPT !.refreshing = @ \/ GitStarts(st)] ELSE st.git
           T == IF "session" \in segments
                THEN [TitleAt(st) EXCEPT !.refreshing = @ \/ TitleStarts(st)] ELSE st.title
           P == IF "pr" \in segments
                THEN [PrAt(st) EXCEPT !.refreshing = @ \/ PrStarts(st)] ELSE st.pr
<1>0. st.git \in GitShape /\ st.pr \in PrShape /\ st.title \in TitleShape BY PartsOf
<1>1. /\ GitAt(st) \in GitShape /\ GitAt(st).of = <<inUse, Here>>
      /\ GitAt(st).text # None => GitAt(st).text[1] = Here
 <2>1. CASE st.git.of = <<inUse, Here>> BY <1>0, <2>1, TextsDiffer DEF GitAt, Fits
 <2>2. CASE st.git.of # <<inUse, Here>>
  <3>1. PICK g \in GitShape : g = GitReset(st.git) /\ g.text = None BY <1>0, GitResetIs
  <3>2. GitAt(st) = [g EXCEPT !.of = <<inUse, Here>>] BY <2>2, <3>1 DEF GitAt
  <3> QED BY <3>1, <3>2 DEF GitShape
 <2> QED BY <2>1, <2>2
<1>2. /\ TitleAt(st) \in TitleShape /\ TitleAt(st).of = inUse
      /\ TitleAt(st).text # None => TitleAt(st) = st.title /\ st.title.text[1] = inUse
 <2>1. CASE st.title.of = inUse BY <1>0, <2>1 DEF TitleAt, Fits
 <2>2. CASE st.title.of # inUse
  <3>1. PICK t \in TitleShape : t = TitleReset(st.title) /\ t.text = None
    BY <1>0, TitleResetIs
  <3>2. TitleAt(st) = [t EXCEPT !.of = inUse, !.waits = st.title.waits]
    BY <2>2, <3>1 DEF TitleAt
  <3> QED BY <1>0, <3>1, <3>2 DEF TitleShape
 <2> QED BY <2>1, <2>2
<1>3. /\ PrAt(st) \in PrShape /\ PrAt(st).of = Here
      /\ PrAt(st).text # None => PrAt(st).text[1] = Here
 <2>1. CASE st.pr.of = Here BY <1>0, <2>1 DEF PrAt, Fits
 <2>2. CASE st.pr.of # Here
  <3>1. PrAt(st) = [of |-> Here, text |-> None, due |-> TRUE, refreshing |-> FALSE]
    BY <2>2 DEF PrAt, Cleared
  <3> QED BY <3>1 DEF PrShape, Texts
 <2> QED BY <2>1, <2>2
<1>4. /\ G \in GitShape /\ (G.text # None => G.text[1] = Here)
      /\ "git" \in segments => G.of = <<inUse, Here>>
      /\ "git" \notin segments => G = st.git
 <2>1. PICK g \in GitShape, b \in BOOLEAN : g = GitAt(st) /\ b = (GitAt(st).refreshing \/ GitStarts(st))
   BY <1>1 DEF GitShape, GitStarts
 <2>2. "git" \in segments => G = [g EXCEPT !.refreshing = b] BY <2>1
 <2> QED BY <1>0, <1>1, <2>1, <2>2 DEF GitShape, Fits
<1>5. /\ T \in TitleShape /\ T.of \in {st.title.of, inUse}
      /\ T.text # None => /\ T.of = inUse /\ T.of = st.title.of /\ T.text = st.title.text
                          /\ T.text[1] = inUse
      /\ "session" \notin segments => T = st.title
 <2>1. PICK t \in TitleShape, b \in BOOLEAN :
         t = TitleAt(st) /\ b = (TitleAt(st).refreshing \/ TitleStarts(st))
   BY <1>2 DEF TitleShape, TitleStarts
 <2>2. "session" \in segments => T = [t EXCEPT !.refreshing = b] BY <2>1
 <2> QED BY <1>0, <1>2, <2>1, <2>2 DEF TitleShape, Fits
<1>6. /\ P \in PrShape /\ (P.text # None => P.text[1] = Here)
      /\ "pr" \in segments => P.of = Here
      /\ "pr" \notin segments => P = st.pr
 <2>1. PICK p \in PrShape, b \in BOOLEAN : p = PrAt(st) /\ b = (PrAt(st).refreshing \/ PrStarts(st))
   BY <1>3 DEF PrShape, PrStarts
 <2>2. "pr" \in segments => P = [p EXCEPT !.refreshing = b] BY <2>1
 <2> QED BY <1>0, <1>3, <2>1, <2>2 DEF PrShape, Fits
<1>7. Evaluated(st) = [git |-> G, pr |-> P, title |-> T, tokens |-> st.tokens]
 <2>1. Evaluated(st) = [st EXCEPT !.git = G, !.title = T, !.pr = P] BY DEF Evaluated
 <2> HIDE DEF G, P, T
 <2> QED BY <2>1, PartsOf
<1> HIDE DEF G, P, T
<1>8. Evaluated(st) \in StatusShape BY <1>4, <1>5, <1>6, <1>7, PartsOf DEF StatusShape
<1>9. Fits(Evaluated(st), titled, segments) BY <1>4, <1>5, <1>6, <1>7, TextsDiffer DEF Fits
<1> QED BY <1>4, <1>5, <1>6, <1>7, <1>8, <1>9

-----------------------------------------------------------------------------
(* What is written into one segment's record leaves the others alone. *)

WithGit(st, x, a, b) ==
  [st EXCEPT !.git.text = x, !.git.fresh = a, !.git.refreshing = b]

WithPr(st, x, a, b) ==
  [st EXCEPT !.pr.text = x, !.pr.due = a, !.pr.refreshing = b]

WithTitle(st, x, a, b) ==
  [st EXCEPT !.title.text = x, !.title.ready = a, !.title.refreshing = b]

PutOff(st, a, b) ==
  [st EXCEPT !.title.refreshing = a, !.title.waits = b]

Later(st, a, b, c) ==
  [st EXCEPT !.git.fresh = a, !.title.waits = b, !.pr.due = c]

AskedFor(st, n, s, a) ==
  [st EXCEPT !.title.gen = n, !.title.of = s, !.title.refreshing = a]

LEMMA GitWritten ==
  ASSUME NEW st \in StatusShape, NEW x \in Texts, NEW a \in BOOLEAN, NEW b \in BOOLEAN
  PROVE  \A q : q = WithGit(st, x, a, b) =>
           /\ q \in StatusShape
           /\ q.git.text = x /\ q.git.of = st.git.of /\ q.git.gen = st.git.gen /\ q.git.refreshing = b
           /\ q.pr = st.pr /\ q.title = st.title /\ q.tokens = st.tokens
<1>1. PICK r : r = [st EXCEPT !.git.text = x] OBVIOUS
<1>2. /\ r \in StatusShape /\ r.pr = st.pr /\ r.title = st.title /\ r.tokens = st.tokens
      /\ r.git = [st.git EXCEPT !.text = x]
      /\ r.git.text = x /\ r.git.of = st.git.of /\ r.git.gen = st.git.gen
  BY <1>1 DEF StatusShape, GitShape
<1>3. PICK p : p = [r EXCEPT !.git.fresh = a] OBVIOUS
<1>4. /\ p \in StatusShape /\ p.pr = st.pr /\ p.title = st.title /\ p.tokens = st.tokens
      /\ p.git.text = x /\ p.git.of = st.git.of /\ p.git.gen = st.git.gen
  BY <1>2, <1>3 DEF StatusShape, GitShape
<1>5. \A q : q = [p EXCEPT !.git.refreshing = b] =>
        /\ q \in StatusShape
        /\ q.git.text = x /\ q.git.of = st.git.of /\ q.git.gen = st.git.gen /\ q.git.refreshing = b
        /\ q.pr = st.pr /\ q.title = st.title /\ q.tokens = st.tokens
  BY <1>4 DEF StatusShape, GitShape
<1>6. [st EXCEPT !.git.text = x, !.git.fresh = a, !.git.refreshing = b]
       = [p EXCEPT !.git.refreshing = b]
  BY <1>1, <1>3
<1> QED BY <1>5, <1>6 DEF WithGit

LEMMA PrWritten ==
  ASSUME NEW st \in StatusShape, NEW x \in Texts, NEW a \in BOOLEAN, NEW b \in BOOLEAN
  PROVE  \A q : q = WithPr(st, x, a, b) =>
           /\ q \in StatusShape
           /\ q.pr.text = x /\ q.pr.of = st.pr.of
           /\ q.git = st.git /\ q.title = st.title /\ q.tokens = st.tokens
<1>1. PICK r : r = [st EXCEPT !.pr.text = x] OBVIOUS
<1>2. /\ r \in StatusShape /\ r.git = st.git /\ r.title = st.title /\ r.tokens = st.tokens
      /\ r.pr.text = x /\ r.pr.of = st.pr.of
  BY <1>1 DEF StatusShape, PrShape
<1>3. PICK p : p = [r EXCEPT !.pr.due = a] OBVIOUS
<1>4. /\ p \in StatusShape /\ p.git = st.git /\ p.title = st.title /\ p.tokens = st.tokens
      /\ p.pr.text = x /\ p.pr.of = st.pr.of
  BY <1>2, <1>3 DEF StatusShape, PrShape
<1>5. \A q : q = [p EXCEPT !.pr.refreshing = b] =>
        /\ q \in StatusShape
        /\ q.pr.text = x /\ q.pr.of = st.pr.of
        /\ q.git = st.git /\ q.title = st.title /\ q.tokens = st.tokens
  BY <1>4 DEF StatusShape, PrShape
<1>6. [st EXCEPT !.pr.text = x, !.pr.due = a, !.pr.refreshing = b] = [p EXCEPT !.pr.refreshing = b]
  BY <1>1, <1>3
<1> QED BY <1>5, <1>6 DEF WithPr

LEMMA TitleWritten ==
  ASSUME NEW st \in StatusShape, NEW x \in TitleTexts, NEW a \in BOOLEAN, NEW b \in BOOLEAN
  PROVE  \A q : q = WithTitle(st, x, a, b) =>
           /\ q \in StatusShape
           /\ q.title.text = x /\ q.title.of = st.title.of /\ q.title.gen = st.title.gen
           /\ q.title.refreshing = b
           /\ q.git = st.git /\ q.pr = st.pr /\ q.tokens = st.tokens
<1>1. PICK r : r = [st EXCEPT !.title.text = x] OBVIOUS
<1>2. /\ r \in StatusShape /\ r.git = st.git /\ r.pr = st.pr /\ r.tokens = st.tokens
      /\ r.title.text = x /\ r.title.of = st.title.of /\ r.title.gen = st.title.gen
  BY <1>1 DEF StatusShape, TitleShape
<1>3. PICK p : p = [r EXCEPT !.title.ready = a] OBVIOUS
<1>4. /\ p \in StatusShape /\ p.git = st.git /\ p.pr = st.pr /\ p.tokens = st.tokens
      /\ p.title.text = x /\ p.title.of = st.title.of /\ p.title.gen = st.title.gen
  BY <1>2, <1>3 DEF StatusShape, TitleShape
<1>5. \A q : q = [p EXCEPT !.title.refreshing = b] =>
        /\ q \in StatusShape
        /\ q.title.text = x /\ q.title.of = st.title.of /\ q.title.gen = st.title.gen
        /\ q.title.refreshing = b
        /\ q.git = st.git /\ q.pr = st.pr /\ q.tokens = st.tokens
  BY <1>4 DEF StatusShape, TitleShape
<1>6. [st EXCEPT !.title.text = x, !.title.ready = a, !.title.refreshing = b]
       = [p EXCEPT !.title.refreshing = b]
  BY <1>1, <1>3
<1> QED BY <1>5, <1>6 DEF WithTitle

LEMMA TitlePutOff ==
  ASSUME NEW st \in StatusShape, NEW a \in BOOLEAN, NEW b \in BOOLEAN
  PROVE  \A q : q = PutOff(st, a, b) =>
           /\ q \in StatusShape
           /\ q.title.text = st.title.text /\ q.title.of = st.title.of /\ q.title.gen = st.title.gen
           /\ q.title.refreshing = a
           /\ q.git = st.git /\ q.pr = st.pr /\ q.tokens = st.tokens
<1>1. PICK r : r = [st EXCEPT !.title.refreshing = a] OBVIOUS
<1>2. /\ r \in StatusShape /\ r.git = st.git /\ r.pr = st.pr /\ r.tokens = st.tokens
      /\ r.title.text = st.title.text /\ r.title.of = st.title.of /\ r.title.gen = st.title.gen
      /\ r.title.refreshing = a
  BY <1>1 DEF StatusShape, TitleShape
<1>3. \A q : q = [r EXCEPT !.title.waits = b] =>
        /\ q \in StatusShape
        /\ q.title.text = st.title.text /\ q.title.of = st.title.of /\ q.title.gen = st.title.gen
        /\ q.title.refreshing = a
        /\ q.git = st.git /\ q.pr = st.pr /\ q.tokens = st.tokens
  BY <1>2 DEF StatusShape, TitleShape
<1>4. [st EXCEPT !.title.refreshing = a, !.title.waits = b] = [r EXCEPT !.title.waits = b]
  BY <1>1
<1> QED BY <1>3, <1>4 DEF PutOff

\* But for what is due.
SameButAge(q, st) ==
  /\ q.tokens = st.tokens
  /\ q.git.text = st.git.text /\ q.git.of = st.git.of /\ q.git.gen = st.git.gen
  /\ q.git.refreshing = st.git.refreshing
  /\ q.title.text = st.title.text /\ q.title.of = st.title.of /\ q.title.gen = st.title.gen
  /\ q.title.refreshing = st.title.refreshing
  /\ q.pr.text = st.pr.text /\ q.pr.of = st.pr.of

LEMMA LaterIs ==
  ASSUME NEW st \in StatusShape, NEW a \in BOOLEAN, NEW b \in BOOLEAN, NEW c \in BOOLEAN
  PROVE  Later(st, a, b, c) \in StatusShape /\ SameButAge(Later(st, a, b, c), st)
<1>1. PICK r : r = [st EXCEPT !.git.fresh = a] OBVIOUS
<1>2. /\ r \in StatusShape /\ r.title = st.title /\ r.pr = st.pr /\ r.tokens = st.tokens
      /\ r.git.text = st.git.text /\ r.git.of = st.git.of /\ r.git.gen = st.git.gen
      /\ r.git.refreshing = st.git.refreshing
  BY <1>1 DEF StatusShape, GitShape
<1>3. PICK p : p = [r EXCEPT !.title.waits = b] OBVIOUS
<1>4. /\ p \in StatusShape /\ p.git = r.git /\ p.pr = st.pr /\ p.tokens = st.tokens
      /\ p.title.text = st.title.text /\ p.title.of = st.title.of /\ p.title.gen = st.title.gen
      /\ p.title.refreshing = st.title.refreshing
  BY <1>2, <1>3 DEF StatusShape, TitleShape
<1>5. \A q : q = [p EXCEPT !.pr.due = c] =>
        /\ q \in StatusShape /\ q.pr.text = p.pr.text /\ q.pr.of = p.pr.of
        /\ q.git = p.git /\ q.title = p.title /\ q.tokens = p.tokens
  BY <1>4 DEF StatusShape, PrShape
<1>6. [st EXCEPT !.git.fresh = a, !.title.waits = b, !.pr.due = c] = [p EXCEPT !.pr.due = c]
  BY <1>1, <1>3
<1>7. \A q : q = [p EXCEPT !.pr.due = c] => q \in StatusShape /\ SameButAge(q, st)
  BY <1>2, <1>4, <1>5, ZenonT(40) DEF SameButAge
<1> QED BY <1>6, <1>7 DEF Later

LEMMA TitleAskedFor ==
  ASSUME NEW st \in StatusShape, NEW n \in Nat, NEW s \in Place, NEW a \in BOOLEAN
  PROVE  \A q : q = AskedFor(st, n, s, a) =>
           /\ q \in StatusShape
           /\ q.title.text = st.title.text /\ q.title.of = s /\ q.title.gen = n
           /\ q.git = st.git /\ q.pr = st.pr /\ q.tokens = st.tokens
<1>1. PICK r : r = [st EXCEPT !.title.gen = n] OBVIOUS
<1>2. /\ r \in StatusShape /\ r.git = st.git /\ r.pr = st.pr /\ r.tokens = st.tokens
      /\ r.title.text = st.title.text /\ r.title.gen = n
  BY <1>1 DEF StatusShape, TitleShape
<1>3. PICK p : p = [r EXCEPT !.title.of = s] OBVIOUS
<1>4. /\ p \in StatusShape /\ p.git = st.git /\ p.pr = st.pr /\ p.tokens = st.tokens
      /\ p.title.text = st.title.text /\ p.title.of = s /\ p.title.gen = n
  BY <1>2, <1>3 DEF StatusShape, TitleShape
<1>5. \A q : q = [p EXCEPT !.title.refreshing = a] =>
        /\ q \in StatusShape
        /\ q.title.text = st.title.text /\ q.title.of = s /\ q.title.gen = n
        /\ q.git = st.git /\ q.pr = st.pr /\ q.tokens = st.tokens
  BY <1>4 DEF StatusShape, TitleShape
<1>6. [st EXCEPT !.title.gen = n, !.title.of = s, !.title.refreshing = a]
       = [p EXCEPT !.title.refreshing = a]
  BY <1>1, <1>3
<1> QED BY <1>5, <1>6 DEF AskedFor

-----------------------------------------------------------------------------
(* The moves, the reads and the tokens. *)

PlaceMoves == [kind : {"resume", "fork", "new"}, to : Place, from : Place, before : StatusShape,
          there : BOOLEAN]

\* Where a move has come, and that only a session that is there has a title.
Moved ==
  moving # NoMove =>
    /\ moving \in PlaceMoves /\ moving.from # moving.to /\ folderOf[moving.from] # None
    /\ moving.kind \in {"resume", "fork"} => inUse = moving.to
    /\ moving.kind = "new" => inUse = IF moving.there THEN moving.to ELSE moving.from
    /\ moving.kind = "new" /\ ~moving.there => folderOf[moving.to] = None
    /\ moving.kind = "fork" /\ ~moving.there => titles[moving.to] = None

MovesInv ==
  /\ inUse \in Place /\ folderOf \in [Place -> Folder \union {None}] /\ folderOf[inUse] # None
  /\ status \in StatusShape /\ kept \in [Place -> StatusShape]
  /\ titles \in [Place -> TitleTexts]
  /\ \A s \in Place : titles[s] # None => titles[s][1] = s /\ folderOf[s] # None
  /\ Moved

\* A read has no answer yet, has failed, or has what is said of that which it was started for.
AnswerOf(got, of) == got \in {Unread, Failed} \/ (got \in Folder \X Nat /\ got[1] = of)
Asks(r, titled, segs) ==
  /\ r = [what |-> r.what, of |-> r.of, gen |-> r.gen, got |-> r.got, no |-> r.no]
  /\ r.what \in {"git", "pr", "title"}
  /\ r.what = "git" => "git" \in segs /\ r.of \in Place \X Folder /\ AnswerOf(r.got, r.of[2])
  /\ r.what = "pr" => "pr" \in segs /\ r.of \in Folder /\ AnswerOf(r.got, r.of)
  /\ r.what = "title" =>
       /\ "session" \in segs /\ r.of \in Place
       /\ \/ r.got \in {Unread, Failed, None}
          \/ r.got \in Place \X {"prompt"} /\ r.got[1] = r.of /\ r.of \in titled

\* A title that a read may bring is of the session that will be in use when it is shown.
Placed(st, s, titled) == st.title.of \in titled => st.title.of = s

ReadsInv ==
  /\ \A r \in reads : Asks(r, Titled, segments)
  /\ answers \in [Folder -> Nat] /\ readNo \in Nat
  /\ Fits(status, Titled, segments)
  /\ \A s \in Place : Fits(kept[s], Titled, segments)
  /\ moving = NoMove => Placed(status, inUse, Titled)
  /\ moving # NoMove =>
       /\ Fits(moving.before, Titled, segments) /\ Placed(moving.before, moving.from, Titled)
       /\ moving.kind # "new" /\ moving.there => Placed(status, inUse, Titled)
       /\ moving.kind = "fork" /\ ~moving.there => Placed(status, moving.from, Titled)

\* Each copy of the state has the tokens of its session's thread.
TokensInv ==
  /\ tracker = stream /\ chunks \in Nat /\ stream \subseteq 1 .. chunks
  /\ counted \in [Place -> Nat]
  /\ \A s \in Place : folderOf[s] = None => counted[s] = 0
  /\ \A s \in Place \ {inUse} : folderOf[s] # None /\ (moving # NoMove => s # moving.to) =>
       kept[s].tokens = counted[s]
  /\ moving = NoMove => status.tokens = counted[inUse]
  /\ moving # NoMove =>
       /\ moving.before.tokens = counted[moving.from] /\ kept[moving.from].tokens = counted[moving.from]
       /\ moving.there => status.tokens = counted[inUse]
       /\ moving.kind = "resume" /\ ~moving.there =>
            status.tokens = counted[moving.to] /\ kept[moving.to].tokens = counted[moving.to]
       /\ moving.kind = "fork" /\ ~moving.there =>
            status.tokens = counted[moving.from] /\ counted[moving.to] = 0
       /\ moving.kind = "new" /\ ~moving.there => status.tokens = 0

\* What is on record, what is kept, what is read and what is counted.
StatusInv == MovesInv /\ ReadsInv /\ TokensInv

LEMMA MovingIs ==
  ASSUME NEW kind \in {"resume", "fork", "new"}, NEW s \in Place, inUse \in Place,
         status \in StatusShape
  PROVE  \A m : m = Moving(kind, s) =>
           /\ m \in PlaceMoves /\ m # NoMove /\ m.kind = kind /\ m.to = s /\ m.from = inUse
           /\ m.before = status /\ ~m.there
<1>1. PICK f \in BOOLEAN : f = FALSE OBVIOUS
<1>2. Moving(kind, s) = [kind |-> kind, to |-> s, from |-> inUse, before |-> status, there |-> f]
  BY <1>1 DEF Moving
<1>3. \A m : m = Moving(kind, s) =>
        /\ m \in PlaceMoves /\ m.kind = kind /\ m.to = s /\ m.from = inUse
        /\ m.before = status /\ m.there = f
  BY <1>2 DEF PlaceMoves
<1>4. \A m : m.kind = kind => m # NoMove BY DEF NoMove
<1> QED BY <1>1, <1>3, <1>4

LEMMA ThereIs ==
  ASSUME NEW m \in PlaceMoves
  PROVE  \A n : n = [m EXCEPT !.there = TRUE] =>
           /\ n \in PlaceMoves /\ n # NoMove /\ n.kind = m.kind /\ n.to = m.to /\ n.from = m.from
           /\ n.before = m.before /\ n.there
<1>1. PICK b \in BOOLEAN : b = TRUE OBVIOUS
<1>2. [m EXCEPT !.there = TRUE] = [m EXCEPT !.there = b] BY <1>1
<1>3. \A n : n = [m EXCEPT !.there = b] =>
        /\ n \in PlaceMoves /\ n.kind = m.kind /\ n.to = m.to /\ n.from = m.from
        /\ n.before = m.before /\ n.there = b
  BY DEF PlaceMoves
<1>4. \A n \in PlaceMoves : n # NoMove BY DEF PlaceMoves, NoMove
<1> QED BY <1>1, <1>2, <1>3, <1>4

\* A step that moves no session, starts no turn and counts nothing.
LEMMA QuietKeeps ==
  ASSUME StatusInv, UNCHANGED <<moveVars, titles, segments, tokenVars>>,
         status' \in StatusShape, status'.tokens = status.tokens, Fits(status', Titled, segments),
         status'.title.of \in {status.title.of, inUse},
         \A r \in reads' : Asks(r, Titled, segments),
         answers' \in [Folder -> Nat], readNo' \in Nat
  PROVE  StatusInv'
<1>1. Titled' = Titled BY DEF Titled
<1>2. MovesInv' BY DEF StatusInv, MovesInv, Moved, moveVars
<1>3. TokensInv' BY DEF StatusInv, TokensInv, tokenVars, moveVars
<1>4. ReadsInv'
 <2>1. \A r \in reads' : Asks(r, Titled', segments') BY <1>1
 <2>2. Fits(status', Titled', segments') BY <1>1
 <2>3. \A s \in Place : Fits(kept'[s], Titled', segments')
   BY <1>1 DEF StatusInv, ReadsInv, moveVars
 <2>4. moving' = NoMove => Placed(status', inUse', Titled')
   BY <1>1 DEF StatusInv, ReadsInv, Placed, moveVars
 <2>5. ASSUME moving' # NoMove
       PROVE  /\ Fits(moving'.before, Titled', segments') /\ Placed(moving'.before, moving'.from, Titled')
              /\ moving'.kind # "new" /\ moving'.there => Placed(status', inUse', Titled')
   BY <1>1, <2>5 DEF StatusInv, ReadsInv, Placed, moveVars
 <2>6. ASSUME moving' # NoMove, moving'.kind = "fork", ~moving'.there
       PROVE  Placed(status', moving'.from, Titled')
   BY <1>1, <2>6 DEF StatusInv, ReadsInv, MovesInv, Moved, Placed, moveVars, Titled
 <2> QED BY <2>1, <2>2, <2>3, <2>4, <2>5, <2>6 DEF ReadsInv
<1> QED BY <1>2, <1>3, <1>4 DEF StatusInv

LEMMA HereIsFolder ==
  StatusInv => inUse \in Place /\ Here \in Folder
BY DEF StatusInv, MovesInv, Here

\* A paint asks for what the segments are of.
LEMMA PaintKeeps == StatusInv /\ Paint => StatusInv'
<1> SUFFICES ASSUME StatusInv, Paint PROVE StatusInv' OBVIOUS
<1>1. status' = Evaluated(status) /\ reads' = reads \union Started(status)
      /\ UNCHANGED <<moveVars, titles, segments, tokenVars, answers>>
  BY DEF Paint, worldVars
<1>2. status \in StatusShape /\ Fits(status, Titled, segments) /\ inUse \in Place /\ Here \in Folder
  BY HereIsFolder DEF StatusInv, MovesInv, ReadsInv
<1>3. /\ status' \in StatusShape /\ status'.tokens = status.tokens /\ Fits(status', Titled, segments)
      /\ status'.title.of \in {status.title.of, inUse}
  BY <1>1, <1>2, EvaluatedFits
<1>4. readNo' \in Nat /\ answers' \in [Folder -> Nat] BY <1>1 DEF Paint, StatusInv, ReadsInv
<1>5. \A r \in Started(status) : Asks(r, Titled, segments)
  BY <1>2 DEF Started, Read, Asks, AnswerOf
<1> QED BY <1>1, <1>3, <1>4, <1>5, QuietKeeps DEF StatusInv, ReadsInv

LEMMA ShowStatusKeeps == StatusInv /\ ShowStatus => StatusInv'
<1> SUFFICES ASSUME StatusInv, ShowStatus PROVE StatusInv' OBVIOUS
<1>1. status \in StatusShape /\ Fits(status, Titled, segments) /\ inUse \in Place /\ Here \in Folder
  BY HereIsFolder DEF StatusInv, MovesInv, ReadsInv
<1>2. PICK n \in Nat : n = status.title.gen + 1 BY <1>1, PartsOf DEF TitleShape
<1>b. PICK b \in BOOLEAN : b = TRUE OBVIOUS
<1>3. status' = AskedFor(status, n, inUse, b) BY <1>2, <1>b DEF ShowStatus, AskedFor
<1>4. /\ status' \in StatusShape /\ status'.title.text = status.title.text /\ status'.title.of = inUse
      /\ status'.git = status.git /\ status'.pr = status.pr /\ status'.tokens = status.tokens
  BY <1>1, <1>3, TitleAskedFor
<1>5. Placed(status, inUse, Titled) BY DEF StatusInv, ReadsInv, ShowStatus
<1>6. Fits(status', Titled, segments) BY <1>1, <1>4, <1>5 DEF Fits, Placed
<1>7. \A r \in reads' : Asks(r, Titled, segments)
 <2>1. "session" \in segments /\ reads' = reads \union {Read("title", inUse, status.title.gen + 1)}
   BY DEF ShowStatus
 <2>2. Asks(Read("title", inUse, status.title.gen + 1), Titled, segments)
   BY <1>1, <2>1 DEF Read, Asks
 <2> QED BY <2>1, <2>2 DEF StatusInv, ReadsInv
<1>8. readNo' \in Nat /\ answers' \in [Folder -> Nat]
      /\ UNCHANGED <<moveVars, titles, segments, tokenVars>>
  BY DEF ShowStatus, StatusInv, ReadsInv, worldVars
<1> QED BY <1>4, <1>6, <1>7, <1>8, QuietKeeps

LEMMA ReadAnswersKeeps == StatusInv /\ ReadAnswers => StatusInv'
<1> SUFFICES ASSUME StatusInv, ReadAnswers PROVE StatusInv' OBVIOUS
<1>1. PICK r, got : /\ r \in reads /\ got \in {WorldSays(r), Failed}
                    /\ reads' = (reads \ {r}) \union {[r EXCEPT !.got = got]}
  BY DEF ReadAnswers
<1>2. /\ Asks(r, Titled, segments) /\ answers \in [Folder -> Nat] /\ titles \in [Place -> TitleTexts]
      /\ \A s \in Place : titles[s] # None => titles[s][1] = s
  BY <1>1 DEF StatusInv, ReadsInv, MovesInv
<1>3. PICK q : q = [r EXCEPT !.got = got] OBVIOUS
<1>4. q = [what |-> r.what, of |-> r.of, gen |-> r.gen, got |-> got, no |-> r.no]
  BY <1>2, <1>3 DEF Asks
<1>5. Asks(q, Titled, segments)
 <2>1. CASE got = Failed BY <1>2, <1>4, <2>1 DEF Asks, AnswerOf
 <2>2. CASE got = WorldSays(r) /\ r.what = "git"
  <3>1. got = <<r.of[2], answers[r.of[2]]>> /\ r.of[2] \in Folder
    BY <1>2, <2>2 DEF WorldSays, Asks
  <3>2. AnswerOf(got, r.of[2]) BY <1>2, <3>1 DEF AnswerOf
  <3> QED BY <1>2, <1>4, <2>2, <3>2 DEF Asks
 <2>3. CASE got = WorldSays(r) /\ r.what = "pr"
  <3>1. got = <<r.of, answers[r.of]>> /\ r.of \in Folder BY <1>2, <2>3 DEF WorldSays, Asks
  <3>2. AnswerOf(got, r.of) BY <1>2, <3>1 DEF AnswerOf
  <3> QED BY <1>2, <1>4, <2>3, <3>2 DEF Asks
 <2>4. CASE got = WorldSays(r) /\ r.what = "title"
  <3>1. got = titles[r.of] /\ r.of \in Place BY <1>2, <2>4 DEF WorldSays, Asks
  <3>2. got = None \/ (got \in Place \X {"prompt"} /\ got[1] = r.of /\ r.of \in Titled)
    BY <1>2, <3>1 DEF TitleTexts, Titled
  <3> QED BY <1>2, <1>4, <2>4, <3>2 DEF Asks
 <2> QED BY <1>1, <1>2, <2>1, <2>2, <2>3, <2>4 DEF Asks
<1>7. \A x \in reads' : Asks(x, Titled, segments)
  BY <1>1, <1>3, <1>5 DEF StatusInv, ReadsInv
<1>8. /\ status' = status /\ readNo' = readNo /\ answers' = answers
      /\ UNCHANGED <<moveVars, titles, segments, tokenVars>>
  BY DEF ReadAnswers, worldVars
<1> QED BY <1>7, <1>8, QuietKeeps DEF StatusInv, ReadsInv, MovesInv

\* Only an answer about what is on record is written, and it is of that.
LEMMA ReadEndsKeeps == StatusInv /\ ReadEnds => StatusInv'
<1> SUFFICES ASSUME StatusInv, ReadEnds PROVE StatusInv' OBVIOUS
<1>1. PICK r : r \in reads /\ r.got # Unread /\ reads' = reads \ {r} /\ status' = Refreshed(r)
  BY DEF ReadEnds
<1>2. status \in StatusShape /\ Fits(status, Titled, segments) /\ Asks(r, Titled, segments)
  BY <1>1 DEF StatusInv, MovesInv, ReadsInv
<1>3. /\ readNo' \in Nat /\ answers' \in [Folder -> Nat]
      /\ UNCHANGED <<moveVars, titles, segments, tokenVars>>
      /\ \A x \in reads' : Asks(x, Titled, segments)
  BY <1>1 DEF ReadEnds, StatusInv, ReadsInv, worldVars
<1>4. PICK a \in BOOLEAN, b \in BOOLEAN : a = TRUE /\ b = FALSE OBVIOUS
<1>5. /\ status' \in StatusShape /\ status'.tokens = status.tokens /\ Fits(status', Titled, segments)
      /\ status'.title.of = status.title.of
 <2>1. CASE r.what = "git" /\ OfThisGit(r)
  <3>1. PICK x : x = TextOf(r.got) OBVIOUS
  <3>2. x \in Texts /\ (x # None => x[1] = status.git.of[2]) /\ "git" \in segments
    BY <1>1, <1>2, <2>1, <3>1 DEF TextOf, Asks, AnswerOf, Texts, OfThisGit
  <3>3. status' = WithGit(status, x, a, b) BY <1>1, <1>4, <2>1, <3>1 DEF Refreshed, WithGit
  <3>4. /\ status' \in StatusShape /\ status'.git.text = x /\ status'.git.of = status.git.of
        /\ status'.pr = status.pr /\ status'.title = status.title /\ status'.tokens = status.tokens
    BY <1>2, <3>2, <3>3, GitWritten
  <3> QED BY <1>2, <3>2, <3>4 DEF Fits
 <2>2. CASE r.what = "pr" /\ r.of = status.pr.of
  <3>1. PICK x : x = TextOf(r.got) OBVIOUS
  <3>2. x \in Texts /\ (x # None => x[1] = status.pr.of) /\ "pr" \in segments
    BY <1>1, <1>2, <2>2, <3>1 DEF TextOf, Asks, AnswerOf, Texts
  <3>3. status' = WithPr(status, x, b, b) BY <1>1, <1>4, <2>2, <3>1 DEF Refreshed, WithPr
  <3>4. /\ status' \in StatusShape /\ status'.pr.text = x /\ status'.pr.of = status.pr.of
        /\ status'.git = status.git /\ status'.title = status.title /\ status'.tokens = status.tokens
    BY <1>2, <1>4, <3>2, <3>3, PrWritten
  <3> QED BY <1>2, <3>2, <3>4 DEF Fits
 <2>3. CASE r.what = "title" /\ OfThisTitle(r) /\ r.got # Failed
  <3>1. PICK x : x = r.got OBVIOUS
  <3>2. /\ x \in TitleTexts /\ "session" \in segments
        /\ x # None => x[1] = status.title.of /\ status.title.of \in Titled
    BY <1>1, <1>2, <2>3, <3>1 DEF Asks, TitleTexts, OfThisTitle
  <3>3. status' = WithTitle(status, x, a, b)
    BY <1>1, <1>4, <2>3, <3>1 DEF Refreshed, WithTitle
  <3>4. /\ status' \in StatusShape /\ status'.title.text = x /\ status'.title.of = status.title.of
        /\ status'.git = status.git /\ status'.pr = status.pr /\ status'.tokens = status.tokens
    BY <1>2, <3>2, <3>3, TitleWritten
  <3> QED BY <1>2, <3>2, <3>4 DEF Fits
 <2>4. CASE r.what = "title" /\ OfThisTitle(r) /\ r.got = Failed
  <3>1. status' = PutOff(status, b, a) BY <1>1, <1>4, <2>4 DEF Refreshed, PutOff
  <3>2. /\ status' \in StatusShape /\ status'.title.text = status.title.text
        /\ status'.title.of = status.title.of
        /\ status'.git = status.git /\ status'.pr = status.pr /\ status'.tokens = status.tokens
   <4>1. PICK st \in StatusShape : st = status BY <1>2
   <4>2. status' = PutOff(st, b, a) BY <3>1, <4>1
   <4> QED BY <4>1, <4>2, TitlePutOff
  <3> QED BY <1>2, <3>2 DEF Fits
 <2>5. CASE /\ ~(r.what = "git" /\ OfThisGit(r)) /\ ~(r.what = "pr" /\ r.of = status.pr.of)
            /\ ~(r.what = "title" /\ OfThisTitle(r))
  <3>1. status' = status BY <1>1, <2>5 DEF Refreshed
  <3> QED BY <1>2, <3>1
 <2> QED BY <2>1, <2>2, <2>3, <2>4, <2>5
<1> QED BY <1>3, <1>5, QuietKeeps

LEMMA SecondsPassKeeps == StatusInv /\ SecondsPass => StatusInv'
<1> SUFFICES ASSUME StatusInv, SecondsPass PROVE StatusInv' OBVIOUS
<1>1. status \in StatusShape /\ Fits(status, Titled, segments)
  BY DEF StatusInv, MovesInv, ReadsInv
<1>2. PICK minute \in BOOLEAN :
        status' = [status EXCEPT !.git.fresh = FALSE, !.title.waits = FALSE, !.pr.due = @ \/ minute]
  BY DEF SecondsPass
<1>3. PICK b \in BOOLEAN : b = FALSE OBVIOUS
<1>4. PICK c \in BOOLEAN : c = (status.pr.due \/ minute) BY <1>1, PartsOf DEF PrShape
<1>5. status' = Later(status, b, b, c) BY <1>2, <1>3, <1>4 DEF Later
<1>6. /\ status' \in StatusShape /\ status'.tokens = status.tokens
      /\ status'.git.text = status.git.text /\ status'.git.of = status.git.of
      /\ status'.title.text = status.title.text /\ status'.title.of = status.title.of
      /\ status'.pr.text = status.pr.text /\ status'.pr.of = status.pr.of
 <2>1. status' \in StatusShape /\ SameButAge(status', status) BY <1>1, <1>5, LaterIs
 <2> QED BY <2>1 DEF SameButAge
<1>7. Fits(status', Titled, segments) BY <1>1, <1>6 DEF Fits
<1>8. /\ readNo' \in Nat /\ answers' \in [Folder -> Nat]
      /\ UNCHANGED <<moveVars, titles, segments, tokenVars>>
      /\ \A x \in reads' : Asks(x, Titled, segments)
  BY DEF SecondsPass, StatusInv, ReadsInv, worldVars, readVars
<1> QED BY <1>6, <1>7, <1>8, QuietKeeps

LEMMA WorldChangesKeeps == StatusInv /\ WorldChanges => StatusInv'
<1> SUFFICES ASSUME StatusInv, WorldChanges PROVE StatusInv' OBVIOUS
<1>1. PICK f \in Folder : answers' = [answers EXCEPT ![f] = @ + 1] BY DEF WorldChanges
<1>2. answers' \in [Folder -> Nat] BY <1>1 DEF StatusInv, ReadsInv
<1>3. /\ readNo' \in Nat /\ status' = status /\ UNCHANGED <<moveVars, titles, segments, tokenVars>>
      /\ \A x \in reads' : Asks(x, Titled, segments)
  BY DEF WorldChanges, StatusInv, ReadsInv, readVars
<1> QED BY <1>2, <1>3, QuietKeeps DEF StatusInv, MovesInv, ReadsInv

-----------------------------------------------------------------------------
(* Turns and threads. *)

\* The session in use has a title from then on, which is read anew.
LEMMA TurnStartsKeeps == StatusInv /\ TurnStarts => StatusInv'
<1> SUFFICES ASSUME StatusInv, TurnStarts PROVE StatusInv' OBVIOUS
<1>1. /\ status \in StatusShape /\ Fits(status, Titled, segments) /\ inUse \in Place
      /\ titles \in [Place -> TitleTexts] /\ moving = NoMove
      /\ UNCHANGED <<moveVars, readVars, answers, segments, tokenVars>>
  BY DEF StatusInv, MovesInv, ReadsInv, TurnStarts
<1>2. PICK new : new = IF titles[inUse] = None THEN <<inUse, "prompt">> ELSE titles[inUse]
  OBVIOUS
<1>3. titles' = [titles EXCEPT ![inUse] = new] BY <1>2 DEF TurnStarts
<1>4. new \in TitleTexts /\ new # None /\ new[1] = inUse
  BY <1>1, <1>2, TextsDiffer DEF TitleTexts, StatusInv, MovesInv
<1>5. /\ titles' \in [Place -> TitleTexts]
      /\ \A s \in Place : titles'[s] # None => titles'[s][1] = s /\ folderOf[s] # None
  BY <1>1, <1>3, <1>4 DEF StatusInv, MovesInv
<1>6. PICK more : more = Titled' /\ Titled \subseteq more BY <1>1, <1>3, <1>4 DEF Titled
<1>7. PICK t : t = TitleReset(status.title) OBVIOUS
<1>8. t \in TitleShape /\ t.text = None /\ t.of = None BY <1>1, <1>7, PartsOf, TitleResetIs
<1>9. status' = [status EXCEPT !.title = t] BY <1>7 DEF TurnStarts
<1>10. /\ status' \in StatusShape /\ status'.title = t /\ status'.git = status.git
       /\ status'.pr = status.pr /\ status'.tokens = status.tokens
  BY <1>1, <1>8, <1>9 DEF StatusShape
<1>11. Fits(status', more, segments) BY <1>1, <1>6, <1>8, <1>10 DEF Fits
<1>12. MovesInv' BY <1>1, <1>5, <1>10 DEF StatusInv, MovesInv, Moved, moveVars
<1>13. ReadsInv'
 <2>1. \A r \in reads : Asks(r, more, segments) BY <1>6 DEF Asks, StatusInv, ReadsInv
 <2>2. \A s \in Place : Fits(kept[s], more, segments)
   BY <1>6, FitsGrows DEF StatusInv, ReadsInv
 <2>3. Placed(status', inUse, more) BY <1>6, <1>8, <1>10, PlaceIsNotNone DEF Placed, Titled
 <2> QED BY <1>1, <1>6, <1>11, <2>1, <2>2, <2>3 DEF StatusInv, ReadsInv, moveVars, readVars
<1>14. TokensInv' BY <1>1, <1>10 DEF StatusInv, TokensInv, moveVars, tokenVars
<1> QED BY <1>12, <1>13, <1>14 DEF StatusInv

\* A chunk that is new counts here and in the thread, one that was seen in neither.
LEMMA UsageArrivesKeeps == StatusInv /\ UsageArrives => StatusInv'
<1> SUFFICES ASSUME StatusInv, UsageArrives PROVE StatusInv' OBVIOUS
<1>1. /\ status \in StatusShape /\ Fits(status, Titled, segments) /\ inUse \in Place
      /\ moving = NoMove /\ UNCHANGED <<moveVars, readVars, worldVars>>
      /\ tracker = stream /\ chunks \in Nat /\ stream \subseteq 1 .. chunks
      /\ counted \in [Place -> Nat] /\ status.tokens = counted[inUse]
  BY DEF StatusInv, MovesInv, ReadsInv, TokensInv, UsageArrives
<1>2. PICK c : /\ c \in stream \union {chunks + 1} /\ chunks' = Max({chunks, c})
               /\ status' = Counts(c)
               /\ tracker' = tracker \union {c} /\ stream' = stream \union {c}
               /\ counted' = [counted EXCEPT ![inUse] = IF c \in stream THEN @ ELSE @ + 1]
  BY DEF UsageArrives
<1>3. c \in Nat /\ chunks' \in Nat /\ chunks' >= chunks /\ chunks' >= c
 <2>1. c \in Nat BY <1>1, <1>2
 <2>2. Max({chunks, c}) = IF chunks >= c THEN chunks ELSE c BY <1>1, <2>1 DEF Max
 <2> QED BY <1>1, <1>2, <2>1, <2>2
<1>4. tracker' = stream' /\ stream' \subseteq 1 .. chunks' BY <1>1, <1>2, <1>3
<1>5. PICK n \in Nat : n = IF c \in stream THEN counted[inUse] ELSE counted[inUse] + 1
  BY <1>1
<1>6. /\ status' \in StatusShape /\ status'.tokens = n /\ status'.git = status.git
      /\ status'.pr = status.pr /\ status'.title = status.title
 <2>1. CASE c \in stream BY <1>1, <1>2, <1>5, <2>1 DEF Counts
 <2>2. CASE c \notin stream
  <3>1. status' = [status EXCEPT !.tokens = n] BY <1>1, <1>2, <1>5, <2>2 DEF Counts
  <3> QED BY <1>1, <3>1 DEF StatusShape
 <2> QED BY <2>1, <2>2
<1>7. counted' = [counted EXCEPT ![inUse] = n] BY <1>2, <1>5
<1>8. TokensInv'
  BY <1>1, <1>3, <1>4, <1>6, <1>7 DEF StatusInv, MovesInv, TokensInv, moveVars
<1>9. MovesInv' BY <1>1, <1>6 DEF StatusInv, MovesInv, Moved, moveVars, worldVars
<1>10. ReadsInv'
 <2>1. Titled' = Titled /\ Fits(status', Titled, segments)
   BY <1>1, <1>6 DEF Titled, worldVars, Fits
 <2> QED BY <1>1, <1>6, <2>1 DEF StatusInv, ReadsInv, Placed, moveVars, readVars, worldVars
<1> QED BY <1>8, <1>9, <1>10 DEF StatusInv

LEMMA ThreadMovesKeeps == StatusInv /\ ThreadMoves => StatusInv'
<1> SUFFICES ASSUME StatusInv, ThreadMoves PROVE StatusInv' OBVIOUS
<1>1. /\ status \in StatusShape /\ Fits(status, Titled, segments) /\ inUse \in Place
      /\ moving = NoMove /\ UNCHANGED <<kept, folderOf, inUse, moving, readVars, worldVars, chunks>>
      /\ counted \in [Place -> Nat] /\ chunks \in Nat
      /\ counted' = [counted EXCEPT ![inUse] = 0] /\ tracker' = {} /\ stream' = {}
  BY DEF StatusInv, MovesInv, ReadsInv, TokensInv, ThreadMoves
<1>2. /\ status' \in StatusShape /\ Fits(status', Titled, segments)
      /\ status'.tokens = 0 /\ status'.title.of = None
  BY <1>1, ThreadResetFits DEF ThreadMoves
<1>3. TokensInv' BY <1>1, <1>2 DEF StatusInv, MovesInv, TokensInv
<1>4. MovesInv' BY <1>1, <1>2 DEF StatusInv, MovesInv, Moved, worldVars
<1>5. ReadsInv'
 <2>1. Titled' = Titled BY <1>1 DEF Titled, worldVars
 <2>2. Placed(status', inUse, Titled) BY <1>2, PlaceIsNotNone DEF Placed, Titled
 <2> QED BY <1>1, <1>2, <2>1, <2>2 DEF StatusInv, ReadsInv, readVars, worldVars
<1> QED BY <1>3, <1>4, <1>5 DEF StatusInv

-----------------------------------------------------------------------------
(* PlaceMoves between sessions. *)

\* What a move leaves alone.
WorldStays == UNCHANGED <<readVars, worldVars>>

\* The reads and the titles are as they were, and so is what is said of them.
LEMMA ReadsStay ==
  ASSUME StatusInv, WorldStays
  PROVE  /\ Titled' = Titled /\ segments' = segments /\ \A r \in reads' : Asks(r, Titled, segments)
         /\ answers' \in [Folder -> Nat] /\ readNo' \in Nat
         /\ titles' = titles /\ titles' \in [Place -> TitleTexts]
BY DEF WorldStays, readVars, worldVars, Titled, StatusInv, ReadsInv, MovesInv

\* What is on record for the session in use, when it is saved.
LEMMA SavedIs ==
  ASSUME StatusInv
  PROVE  /\ inUse \in Place /\ status \in StatusShape /\ kept \in [Place -> StatusShape]
         /\ Saved(status) \in StatusShape /\ Fits(Saved(status), Titled, segments)
         /\ Saved(status).tokens = status.tokens
         /\ \A s \in Place : Fits(kept[s], Titled, segments)
BY SavedFits DEF StatusInv, MovesInv, ReadsInv

LEMMA ResumeBeginsKeeps ==
  ASSUME NEW s \in Place
  PROVE  StatusInv /\ ResumeBegins(s) => StatusInv'
<1> SUFFICES ASSUME StatusInv, ResumeBegins(s) PROVE StatusInv' OBVIOUS
<1>1. /\ moving = NoMove /\ s # inUse /\ folderOf[s] # None
      /\ kept' = [kept EXCEPT ![inUse] = Saved(status)]
      /\ status' = kept[s] /\ inUse' = s /\ moving' = Moving("resume", s)
      /\ folderOf' = folderOf /\ UNCHANGED tokenVars /\ WorldStays
  BY DEF ResumeBegins, WorldStays
<1>2. /\ inUse \in Place /\ status \in StatusShape /\ kept \in [Place -> StatusShape]
      /\ Fits(status, Titled, segments) /\ Placed(status, inUse, Titled)
      /\ folderOf[inUse] # None
  BY <1>1 DEF StatusInv, MovesInv, ReadsInv
<1>3. /\ moving' \in PlaceMoves /\ moving' # NoMove /\ moving'.kind = "resume" /\ moving'.to = s
      /\ moving'.from = inUse /\ moving'.before = status /\ ~moving'.there
  BY <1>1, <1>2, MovingIs
<1>4. /\ kept' \in [Place -> StatusShape] /\ kept'[inUse] = Saved(status)
      /\ \A x \in Place \ {inUse} : kept'[x] = kept[x]
  BY <1>1, <1>2, SavedIs
<1>5. MovesInv' BY <1>1, <1>2, <1>3, <1>4, ReadsStay DEF StatusInv, MovesInv, Moved
<1>6. ReadsInv'
 <2>1. \A x \in Place : Fits(kept'[x], Titled, segments) BY <1>4, SavedIs
 <2>2. Fits(status', Titled, segments) BY <1>1, SavedIs
 <2> QED BY <1>1, <1>2, <1>3, <2>1, <2>2, ReadsStay DEF ReadsInv
<1>7. TokensInv'
 <2>1. /\ status.tokens = counted[inUse] /\ UNCHANGED <<tracker, stream, counted, chunks>>
       /\ \A x \in Place \ {inUse} : folderOf[x] # None => kept[x].tokens = counted[x]
   BY <1>1 DEF StatusInv, TokensInv, tokenVars
 <2>2. \A x \in Place : folderOf[x] # None => kept'[x].tokens = counted[x]
   BY <1>4, <2>1, SavedIs
 <2> QED BY <1>1, <1>2, <1>3, <2>1, <2>2 DEF StatusInv, TokensInv
<1> QED BY <1>5, <1>6, <1>7 DEF StatusInv

LEMMA ForkBeginsKeeps ==
  ASSUME NEW s \in Place
  PROVE  StatusInv /\ ForkBegins(s) => StatusInv'
<1> SUFFICES ASSUME StatusInv, ForkBegins(s) PROVE StatusInv' OBVIOUS
<1>1. /\ moving = NoMove /\ folderOf[s] = None /\ folderOf' = [folderOf EXCEPT ![s] = Here]
      /\ kept' = [kept EXCEPT ![inUse] = Saved(status), ![s] = Saved(status)]
      /\ status' = status /\ inUse' = s /\ moving' = Moving("fork", s)
      /\ UNCHANGED tokenVars /\ WorldStays
  BY DEF ForkBegins, WorldStays
<1>2. /\ inUse \in Place /\ status \in StatusShape /\ kept \in [Place -> StatusShape]
      /\ Fits(status, Titled, segments) /\ Placed(status, inUse, Titled)
      /\ folderOf \in [Place -> Folder \union {None}] /\ Here \in Folder /\ Here # None
      /\ s # inUse /\ folderOf[inUse] # None /\ titles[s] = None
  BY <1>1, PlaceIsNotNone DEF StatusInv, MovesInv, ReadsInv, Here
<1>3. /\ moving' \in PlaceMoves /\ moving' # NoMove /\ moving'.kind = "fork" /\ moving'.to = s
      /\ moving'.from = inUse /\ moving'.before = status /\ ~moving'.there
  BY <1>1, <1>2, MovingIs
<1>4. /\ kept' \in [Place -> StatusShape] /\ kept'[inUse] = Saved(status)
      /\ \A x \in Place \ {inUse} : kept'[x] = kept[x] \/ kept'[x] = Saved(status)
      /\ \A x \in Place \ {inUse, s} : kept'[x] = kept[x]
  BY <1>1, <1>2, SavedIs
<1>5. /\ folderOf' \in [Place -> Folder \union {None}] /\ folderOf'[s] # None
      /\ \A x \in Place \ {s} : folderOf'[x] = folderOf[x]
  BY <1>1, <1>2
<1>6. MovesInv' BY <1>1, <1>2, <1>3, <1>4, <1>5, ReadsStay DEF StatusInv, MovesInv, Moved
<1>7. ReadsInv'
 <2>1. \A x \in Place : Fits(kept'[x], Titled, segments) BY <1>4, SavedIs
 <2> QED BY <1>1, <1>2, <1>3, <2>1, ReadsStay DEF ReadsInv
<1>8. TokensInv'
 <2>1. /\ status.tokens = counted[inUse] /\ UNCHANGED <<tracker, stream, counted, chunks>>
       /\ \A x \in Place \ {inUse} : folderOf[x] # None => kept[x].tokens = counted[x]
       /\ counted[s] = 0
   BY <1>1 DEF StatusInv, TokensInv, tokenVars
 <2>2. \A x \in Place \ {s} : folderOf[x] # None => kept'[x].tokens = counted[x]
   BY <1>4, <2>1, SavedIs
 <2> QED BY <1>1, <1>2, <1>3, <1>5, <2>1, <2>2 DEF StatusInv, TokensInv
<1> QED BY <1>6, <1>7, <1>8 DEF StatusInv

LEMMA NewBeginsKeeps ==
  ASSUME NEW s \in Place
  PROVE  StatusInv /\ NewBegins(s) => StatusInv'
<1> SUFFICES ASSUME StatusInv, NewBegins(s) PROVE StatusInv' OBVIOUS
<1>1. /\ moving = NoMove /\ folderOf[s] = None /\ folderOf' = folderOf
      /\ kept' = [kept EXCEPT ![inUse] = Saved(status)]
      /\ status' = Cleared /\ inUse' = inUse /\ moving' = Moving("new", s)
      /\ UNCHANGED tokenVars /\ WorldStays
  BY DEF NewBegins, WorldStays
<1>2. /\ inUse \in Place /\ status \in StatusShape /\ kept \in [Place -> StatusShape]
      /\ Fits(status, Titled, segments) /\ Placed(status, inUse, Titled)
      /\ s # inUse /\ folderOf[inUse] # None
  BY <1>1 DEF StatusInv, MovesInv, ReadsInv
<1>3. /\ moving' \in PlaceMoves /\ moving' # NoMove /\ moving'.kind = "new" /\ moving'.to = s
      /\ moving'.from = inUse /\ moving'.before = status /\ ~moving'.there
  BY <1>1, <1>2, MovingIs
<1>4. /\ kept' \in [Place -> StatusShape] /\ kept'[inUse] = Saved(status)
      /\ \A x \in Place \ {inUse} : kept'[x] = kept[x]
  BY <1>1, <1>2, SavedIs
<1>5. status' \in StatusShape /\ status'.tokens = 0 /\ Fits(status', Titled, segments)
 <2>1. Cleared.tokens = 0 BY DEF Cleared
 <2> QED BY <1>1, <2>1, ClearedFits
<1>6. MovesInv' BY <1>1, <1>2, <1>3, <1>4, <1>5, ReadsStay DEF StatusInv, MovesInv, Moved
<1>7. ReadsInv'
 <2>1. \A x \in Place : Fits(kept'[x], Titled, segments) BY <1>4, SavedIs
 <2> QED BY <1>1, <1>2, <1>3, <1>5, <2>1, ReadsStay DEF ReadsInv
<1>8. TokensInv'
 <2>1. /\ status.tokens = counted[inUse] /\ UNCHANGED <<tracker, stream, counted, chunks>>
       /\ \A x \in Place \ {inUse} : folderOf[x] # None => kept[x].tokens = counted[x]
   BY <1>1 DEF StatusInv, TokensInv, tokenVars
 <2>2. \A x \in Place : folderOf[x] # None => kept'[x].tokens = counted[x]
   BY <1>4, <2>1, SavedIs
 <2> QED BY <1>1, <1>2, <1>3, <1>5, <2>1, <2>2 DEF StatusInv, TokensInv
<1> QED BY <1>6, <1>7, <1>8 DEF StatusInv

LEMMA ActivatesKeeps == StatusInv /\ Activates => StatusInv'
<1> SUFFICES ASSUME StatusInv, Activates PROVE StatusInv' OBVIOUS
<1>1. /\ moving.kind \in {"resume", "fork"} /\ ~moving.there /\ moving' = [moving EXCEPT !.there = TRUE]
      /\ status' = ResetOfThread(status)
      /\ counted' = [counted EXCEPT ![inUse] = 0] /\ tracker' = {} /\ stream' = {}
      /\ UNCHANGED <<kept, folderOf, inUse, chunks>> /\ WorldStays
  BY DEF Activates, WorldStays
<1>2. moving # NoMove BY <1>1 DEF NoMove
<1>3. /\ moving \in PlaceMoves /\ inUse = moving.to /\ moving.from # inUse
      /\ inUse \in Place /\ status \in StatusShape /\ Fits(status, Titled, segments)
      /\ counted \in [Place -> Nat] /\ chunks \in Nat
  BY <1>1, <1>2 DEF StatusInv, MovesInv, ReadsInv, TokensInv, Moved
<1>4. /\ moving' \in PlaceMoves /\ moving' # NoMove /\ moving'.kind = moving.kind /\ moving'.to = moving.to
      /\ moving'.from = moving.from /\ moving'.before = moving.before /\ moving'.there
  BY <1>1, <1>3, ThereIs
<1>5. /\ status' \in StatusShape /\ Fits(status', Titled, segments)
      /\ status'.tokens = 0 /\ status'.title.of = None
  BY <1>1, <1>3, ThreadResetFits
<1>6. Placed(status', inUse, Titled) BY <1>5, PlaceIsNotNone DEF Placed, Titled
<1>7. MovesInv' BY <1>1, <1>2, <1>3, <1>4, <1>5, ReadsStay DEF StatusInv, MovesInv, Moved
<1>8. ReadsInv' BY <1>1, <1>2, <1>3, <1>4, <1>5, <1>6, ReadsStay DEF StatusInv, ReadsInv
<1>9. TokensInv'
 <2>1. /\ counted' \in [Place -> Nat] /\ counted'[inUse] = 0
       /\ \A x \in Place \ {inUse} : counted'[x] = counted[x]
   BY <1>1, <1>3
 <2>2. moving.from \in Place /\ moving.from # inUse BY <1>3 DEF PlaceMoves
 <2> QED BY <1>1, <1>2, <1>3, <1>4, <1>5, <2>1, <2>2 DEF StatusInv, TokensInv
<1> QED BY <1>7, <1>8, <1>9 DEF StatusInv

LEMMA NewMovesKeeps == StatusInv /\ NewMoves => StatusInv'
<1> SUFFICES ASSUME StatusInv, NewMoves PROVE StatusInv' OBVIOUS
<1>1. /\ moving.kind = "new" /\ ~moving.there /\ moving' = [moving EXCEPT !.there = TRUE]
      /\ folderOf' = [folderOf EXCEPT ![moving.to] = Here] /\ inUse' = moving.to
      /\ UNCHANGED <<status, kept>> /\ UNCHANGED tokenVars /\ WorldStays
  BY DEF NewMoves, WorldStays
<1>2. moving # NoMove BY <1>1 DEF NoMove
<1>3. /\ moving \in PlaceMoves /\ inUse = moving.from /\ moving.from # moving.to
      /\ moving.to \in Place /\ inUse \in Place /\ folderOf[moving.to] = None
      /\ folderOf \in [Place -> Folder \union {None}] /\ Here \in Folder /\ Here # None
  BY <1>1, <1>2, PlaceIsNotNone DEF StatusInv, MovesInv, Moved, PlaceMoves, Here
<1>4. /\ moving' \in PlaceMoves /\ moving' # NoMove /\ moving'.kind = "new" /\ moving'.to = moving.to
      /\ moving'.from = moving.from /\ moving'.before = moving.before /\ moving'.there
  BY <1>1, <1>3, ThereIs
<1>5. /\ folderOf' \in [Place -> Folder \union {None}] /\ folderOf'[moving.to] # None
      /\ \A x \in Place \ {moving.to} : folderOf'[x] = folderOf[x]
  BY <1>1, <1>3
<1>6. MovesInv' BY <1>1, <1>2, <1>3, <1>4, <1>5, ReadsStay DEF StatusInv, MovesInv, Moved
<1>7. ReadsInv' BY <1>1, <1>2, <1>3, <1>4, ReadsStay DEF StatusInv, ReadsInv
<1>8. TokensInv' BY <1>1, <1>2, <1>3, <1>4, <1>5 DEF StatusInv, TokensInv, tokenVars
<1> QED BY <1>6, <1>7, <1>8 DEF StatusInv

\* SessionSwitch clears git's and the title's part, wherever the move has led.
LEMMA MoveEndsKeeps == StatusInv /\ MoveEnds => StatusInv'
<1> SUFFICES ASSUME StatusInv, MoveEnds PROVE StatusInv' OBVIOUS
<1>1. /\ moving # NoMove /\ (moving.there \/ moving.kind = "resume")
      /\ moving' = NoMove /\ status' = ResetOfPlace(status)
      /\ UNCHANGED <<kept, folderOf, inUse>> /\ UNCHANGED tokenVars /\ WorldStays
  BY DEF MoveEnds, WorldStays
<1>2. /\ moving \in PlaceMoves /\ inUse = moving.to /\ moving.from # inUse
      /\ inUse \in Place /\ status \in StatusShape /\ Fits(status, Titled, segments)
  BY <1>1 DEF StatusInv, MovesInv, ReadsInv, Moved, PlaceMoves
<1>3. /\ status' \in StatusShape /\ Fits(status', Titled, segments)
      /\ status'.tokens = status.tokens /\ status'.title.of = None
  BY <1>1, <1>2, ResetsFit
<1>4. Placed(status', inUse, Titled) BY <1>3, PlaceIsNotNone DEF Placed, Titled
<1>5. MovesInv' BY <1>1, <1>2, <1>3, ReadsStay DEF StatusInv, MovesInv, Moved
<1>6. ReadsInv' BY <1>1, <1>2, <1>3, <1>4, ReadsStay DEF StatusInv, ReadsInv
<1>7. TokensInv' BY <1>1, <1>2, <1>3 DEF StatusInv, TokensInv, tokenVars
<1> QED BY <1>5, <1>6, <1>7 DEF StatusInv

\* A failure goes back to what was on record, or leaves the user at the target.
LEMMA MoveFailsKeeps == StatusInv /\ MoveFails => StatusInv'
<1> SUFFICES ASSUME StatusInv, MoveFails PROVE StatusInv' OBVIOUS
<1>1. /\ moving # NoMove /\ (moving.kind = "new" => ~moving.there) /\ moving' = NoMove
      /\ kept' = kept /\ UNCHANGED tokenVars /\ WorldStays
  BY DEF MoveFails, WorldStays
<1>2. /\ moving \in PlaceMoves /\ moving.from # moving.to /\ moving.from \in Place /\ moving.to \in Place
      /\ moving.kind \in {"resume", "fork", "new"}
      /\ moving.before \in StatusShape /\ status \in StatusShape
  BY <1>1 DEF StatusInv, MovesInv, Moved, PlaceMoves
<1>3. CASE moving.there
 <2>1. UNCHANGED <<status, inUse, folderOf>> BY <1>3 DEF MoveFails
 <2>2. moving.kind # "new" /\ inUse = moving.to
   BY <1>1, <1>2, <1>3 DEF StatusInv, MovesInv, Moved
 <2>3. MovesInv' BY <1>1, <1>2, <2>1, ReadsStay DEF StatusInv, MovesInv, Moved
 <2>4. ReadsInv' BY <1>1, <1>2, <1>3, <2>1, <2>2, ReadsStay DEF StatusInv, ReadsInv
 <2>5. TokensInv' BY <1>1, <1>2, <1>3, <2>1, <2>2 DEF StatusInv, TokensInv, tokenVars
 <2> QED BY <2>3, <2>4, <2>5 DEF StatusInv
<1>4. CASE ~moving.there
 <2>1. /\ status' = PutBack /\ inUse' = moving.from
       /\ folderOf' = IF moving.kind = "resume" THEN folderOf
                      ELSE [folderOf EXCEPT ![moving.to] = None]
   BY <1>4 DEF MoveFails
 <2>2. /\ status' \in StatusShape /\ Fits(status', Titled, segments)
       /\ Placed(status', moving.from, Titled) /\ status'.tokens = counted[moving.from]
   BY <1>1, <1>2, <1>4, <2>1 DEF PutBack, StatusInv, MovesInv, ReadsInv, TokensInv
 <2>3. /\ folderOf' \in [Place -> Folder \union {None}] /\ folderOf'[moving.from] # None
       /\ \A x \in Place \ {moving.to} : folderOf'[x] = folderOf[x]
       /\ moving.kind # "resume" => folderOf'[moving.to] = None
       /\ moving.kind = "resume" => folderOf' = folderOf
   BY <1>1, <1>2, <2>1 DEF StatusInv, MovesInv, Moved
 <2>4. moving.kind # "resume" => titles[moving.to] = None /\ counted[moving.to] = 0
   BY <1>1, <1>2, <1>4 DEF StatusInv, MovesInv, TokensInv, Moved
 <2>5. MovesInv'
   BY <1>1, <1>2, <2>1, <2>2, <2>3, <2>4, ReadsStay DEF StatusInv, MovesInv, Moved
 <2>6. ReadsInv' BY <1>1, <1>2, <2>1, <2>2, ReadsStay DEF StatusInv, ReadsInv
 <2>7. TokensInv'
  <3>1. \A x \in Place \ {moving.from} : folderOf'[x] # None => kept[x].tokens = counted[x]
   <4>1. CASE moving.kind = "resume"
    <5>1. inUse = moving.to /\ kept[moving.to].tokens = counted[moving.to]
      BY <1>1, <1>4, <4>1 DEF StatusInv, MovesInv, TokensInv, Moved
    <5> QED BY <1>1, <2>3, <4>1, <5>1 DEF StatusInv, TokensInv
   <4>2. CASE moving.kind # "resume"
    <5>1. inUse \in {moving.to, moving.from}
      BY <1>1, <1>2, <1>4, <4>2 DEF StatusInv, MovesInv, Moved
    <5> QED BY <1>1, <2>3, <4>2, <5>1 DEF StatusInv, TokensInv
   <4> QED BY <4>1, <4>2
  <3>2. \A x \in Place : folderOf'[x] = None => counted[x] = 0
    BY <2>3, <2>4 DEF StatusInv, TokensInv
  <3> QED BY <1>1, <1>2, <2>1, <2>2, <3>1, <3>2 DEF StatusInv, TokensInv, tokenVars
 <2> QED BY <2>5, <2>6, <2>7 DEF StatusInv
<1> QED BY <1>3, <1>4

LEMMA ReopensKeeps == StatusInv /\ Reopens => StatusInv'
<1> SUFFICES ASSUME StatusInv, Reopens PROVE StatusInv' OBVIOUS
<1>1. PICK s \in Place : folderOf[s] # None /\ inUse' = s /\ status' = ResetOfPlace(kept'[s])
  BY DEF Reopens
<1>2. /\ moving = NoMove /\ kept' = [kept EXCEPT ![inUse] = Saved(status)]
      /\ reads' = {} /\ tracker' = {} /\ stream' = {}
      /\ UNCHANGED <<folderOf, moving, readNo, worldVars, counted, chunks>>
  BY DEF Reopens
<1>3. PICK k : k = kept' OBVIOUS
<1>4. /\ k \in [Place -> StatusShape] /\ k[inUse] = Saved(status)
      /\ \A x \in Place \ {inUse} : k[x] = kept[x]
      /\ \A x \in Place : Fits(k[x], Titled, segments)
  BY <1>2, <1>3, SavedIs
<1>5. \A x \in Place : folderOf[x] # None => k[x].tokens = counted[x]
  BY <1>2, <1>4, SavedIs DEF StatusInv, TokensInv
<1>6. /\ status' \in StatusShape /\ Fits(status', Titled, segments)
      /\ status'.tokens = counted[s] /\ status'.title.of = None
  BY <1>1, <1>3, <1>4, <1>5, ResetsFit
<1>7. Titled' = Titled /\ segments' = segments BY <1>2 DEF Titled, worldVars
<1>8. Placed(status', s, Titled) BY <1>6, PlaceIsNotNone DEF Placed, Titled
<1>9. MovesInv' BY <1>1, <1>2, <1>3, <1>4, <1>6 DEF StatusInv, MovesInv, Moved, worldVars
<1>10. ReadsInv'
  BY <1>1, <1>2, <1>3, <1>4, <1>6, <1>7, <1>8 DEF StatusInv, ReadsInv, worldVars
<1>11. TokensInv' BY <1>1, <1>2, <1>3, <1>5, <1>6 DEF StatusInv, TokensInv
<1> QED BY <1>9, <1>10, <1>11 DEF StatusInv

-----------------------------------------------------------------------------
(* Reads that count as under way. *)

\* The record of git and of the title while a read may be under way.
GitAwaits(g) == g.refreshing /\ g.of = <<inUse, Here>>
TitleAwaits(t) == t.refreshing /\ t.of = inUse

\* A paint counts a read as under way that it starts or that was already.
LEMMA EvaluatedGit ==
  ASSUME status \in StatusShape, GitAwaits(Evaluated(status).git)
  PROVE  \/ \E r \in Started(status) :
              r.what = "git" /\ r.of = <<inUse, Here>> /\ r.gen = Evaluated(status).git.gen
         \/ GitAwaits(status.git) /\ status.git.gen = Evaluated(status).git.gen
<1> DEFINE G == IF "git" \in segments
                THEN [GitAt(status) EXCEPT !.refreshing = @ \/ GitStarts(status)] ELSE status.git
<1>1. status.git \in GitShape BY PartsOf
<1>2. Evaluated(status).git = G
 <2>1. PICK t, p : Evaluated(status) = [status EXCEPT !.git = G, !.title = t, !.pr = p]
   BY DEF Evaluated
 <2> HIDE DEF G
 <2>2. PICK q : q = [status EXCEPT !.git = G] OBVIOUS
 <2>3. q \in [{"git", "pr", "title", "tokens"} -> {q[x] : x \in {"git", "pr", "title", "tokens"}}]
       /\ q.git = G
   BY <2>2, PartsOf
 <2>4. Evaluated(status) = [[q EXCEPT !.title = t] EXCEPT !.pr = p] BY <2>1, <2>2
 <2> QED BY <2>3, <2>4
<1>3. CASE "git" \notin segments BY <1>2, <1>3
<1>4. CASE "git" \in segments /\ GitStarts(status)
 <2>1. PICK g, b : G = [g EXCEPT !.refreshing = b] /\ g = GitAt(status) BY <1>4
 <2> HIDE DEF G
 <2>2. G.gen = GitAt(status).gen BY <2>1
 <2>3. Read("git", <<inUse, Here>>, GitAt(status).gen) \in Started(status)
   BY <1>4 DEF Started, Read
 <2> QED BY <1>2, <2>2, <2>3 DEF Read
<1>5. CASE "git" \in segments /\ ~GitStarts(status)
 <2>1. CASE status.git.of = <<inUse, Here>>
  <3>1. GitAt(status) = status.git BY <2>1 DEF GitAt
  <3>2. PICK g \in GitShape, b \in BOOLEAN :
          G = [g EXCEPT !.refreshing = b] /\ g = status.git /\ b = status.git.refreshing
    BY <1>1, <1>5, <3>1 DEF GitShape
  <3> HIDE DEF G
  <3>3. G.gen = g.gen /\ G.refreshing = b BY <3>2 DEF GitShape
  <3> QED BY <1>2, <2>1, <3>2, <3>3 DEF GitAwaits
 <2>2. CASE status.git.of # <<inUse, Here>>
  <3>1. PICK g \in GitShape : g = GitReset(status.git) /\ g.refreshing = FALSE /\ g.fresh = FALSE
    BY <1>1, GitResetIs
  <3>2. GitAt(status) = [g EXCEPT !.of = <<inUse, Here>>] BY <2>2, <3>1 DEF GitAt
  <3>3. ~GitAt(status).refreshing /\ ~GitAt(status).fresh BY <3>1, <3>2 DEF GitShape
  <3> QED BY <1>5, <3>3 DEF GitStarts
 <2> QED BY <2>1, <2>2
<1> QED BY <1>3, <1>4, <1>5

LEMMA EvaluatedTitle ==
  ASSUME status \in StatusShape, inUse \in Place, TitleAwaits(Evaluated(status).title)
  PROVE  \/ \E r \in Started(status) :
              r.what = "title" /\ r.of = inUse /\ r.gen = Evaluated(status).title.gen
         \/ TitleAwaits(status.title) /\ status.title.gen = Evaluated(status).title.gen
<1> DEFINE T == IF "session" \in segments
                THEN [TitleAt(status) EXCEPT !.refreshing = @ \/ TitleStarts(status)]
                ELSE status.title
<1>1. status.title \in TitleShape BY PartsOf
<1>2. Evaluated(status).title = T
 <2>1. PICK g, p : Evaluated(status) = [status EXCEPT !.git = g, !.title = T, !.pr = p]
   BY DEF Evaluated
 <2> HIDE DEF T
 <2>2. PICK q : q = [status EXCEPT !.git = g] OBVIOUS
 <2>3. q \in [{"git", "pr", "title", "tokens"} -> {q[x] : x \in {"git", "pr", "title", "tokens"}}]
   BY <2>2, PartsOf
 <2>4. Evaluated(status) = [[q EXCEPT !.title = T] EXCEPT !.pr = p] BY <2>1, <2>2
 <2> QED BY <2>3, <2>4
<1>3. CASE "session" \notin segments BY <1>2, <1>3
<1>4. CASE "session" \in segments /\ TitleStarts(status)
 <2>1. PICK t, b : T = [t EXCEPT !.refreshing = b] /\ t = TitleAt(status) BY <1>4
 <2> HIDE DEF T
 <2>2. T.gen = TitleAt(status).gen BY <2>1
 <2>3. Read("title", inUse, TitleAt(status).gen) \in Started(status)
   BY <1>4 DEF Started, Read
 <2> QED BY <1>2, <2>2, <2>3 DEF Read
<1>5. CASE "session" \in segments /\ ~TitleStarts(status)
 <2>1. CASE status.title.of = inUse
  <3>1. TitleAt(status) = status.title BY <2>1 DEF TitleAt
  <3>2. PICK t \in TitleShape, b \in BOOLEAN :
          T = [t EXCEPT !.refreshing = b] /\ t = status.title /\ b = status.title.refreshing
    BY <1>1, <1>5, <3>1 DEF TitleShape
  <3> HIDE DEF T
  <3>3. T.gen = t.gen /\ T.refreshing = b BY <3>2 DEF TitleShape
  <3> QED BY <1>2, <2>1, <3>2, <3>3 DEF TitleAwaits
 <2>2. CASE status.title.of # inUse
  <3>i. inUse \in Place OBVIOUS
  <3>1. PICK t \in TitleShape : t = TitleReset(status.title) /\ t.refreshing = FALSE /\ t.ready = FALSE
    BY <1>1, TitleResetIs
  <3>2. PICK w \in BOOLEAN : w = status.title.waits BY <1>1 DEF TitleShape
  <3>3. TitleAt(status) = [t EXCEPT !.of = inUse, !.waits = w]
    BY <2>2, <3>1, <3>2 DEF TitleAt
  <3>4. TitleAt(status) \in TitleShape /\ ~TitleAt(status).refreshing
   <4>1. PICK s \in Place : s = inUse BY <3>i
   <4>2. PICK p : p = [t EXCEPT !.of = s] OBVIOUS
   <4>3. p \in TitleShape BY <4>2 DEF TitleShape
   <4>4. p.refreshing = t.refreshing BY <4>2 DEF TitleShape
   <4>5. PICK q : q = [p EXCEPT !.waits = w] OBVIOUS
   <4>6. q \in TitleShape BY <4>3, <4>5 DEF TitleShape
   <4>7. q.refreshing = p.refreshing BY <4>3, <4>5 DEF TitleShape
   <4>8. TitleAt(status) = q BY <3>3, <4>1, <4>2, <4>5
   <4> QED BY <3>1, <4>4, <4>6, <4>7, <4>8
  <3>5. PICK q \in TitleShape, b \in BOOLEAN :
          T = [q EXCEPT !.refreshing = b] /\ ~b
    BY <1>5, <3>4
  <3> HIDE DEF T
  <3>6. T.refreshing = b BY <3>5 DEF TitleShape
  <3> QED BY <1>2, <3>5, <3>6 DEF TitleAwaits
 <2> QED BY <2>1, <2>2
<1> QED BY <1>3, <1>4, <1>5

\* A read of that kind, of that and of that generation is under way.
IsRead(rs, what, of, gen) == \E r \in rs : r.what = what /\ r.of = of /\ r.gen = gen

\* What RefreshIsUnderWay says of git, and of the title.
GitIsRead == GitAwaits(status.git) => IsRead(reads, "git", <<inUse, Here>>, status.git.gen)
TitleIsRead == TitleAwaits(status.title) => IsRead(reads, "title", inUse, status.title.gen)

LEMMA RefreshIs ==
  RefreshIsUnderWay <=> (moving = NoMove /\ ~movedBack => GitIsRead /\ TitleIsRead)
BY DEF RefreshIsUnderWay, GitIsRead, TitleIsRead, GitAwaits, TitleAwaits, IsRead, OfThisGit,
       OfThisTitle

\* A step that starts no read, and ends none that is waited for.
LEMMA GitStays ==
  ASSUME GitIsRead, UNCHANGED <<inUse, folderOf>>,
         status'.git.of = status.git.of, status'.git.gen = status.git.gen,
         status'.git.refreshing => status.git.refreshing,
         IsRead(reads, "git", <<inUse, Here>>, status.git.gen)
           => IsRead(reads', "git", <<inUse, Here>>, status.git.gen)
  PROVE  GitIsRead'
BY DEF GitIsRead, GitAwaits, Here

LEMMA TitleStays ==
  ASSUME TitleIsRead, inUse' = inUse,
         status'.title.of = status.title.of, status'.title.gen = status.title.gen,
         status'.title.refreshing => status.title.refreshing,
         IsRead(reads, "title", inUse, status.title.gen)
           => IsRead(reads', "title", inUse, status.title.gen)
  PROVE  TitleIsRead'
BY DEF TitleIsRead, TitleAwaits

LEMMA PaintReads ==
  StatusInv /\ GitIsRead /\ TitleIsRead /\ Paint => GitIsRead' /\ TitleIsRead'
<1> SUFFICES ASSUME StatusInv, GitIsRead, TitleIsRead, Paint PROVE GitIsRead' /\ TitleIsRead'
  OBVIOUS
<1>1. /\ status' = Evaluated(status) /\ reads' = reads \union Started(status)
      /\ inUse' = inUse /\ folderOf' = folderOf
      /\ status \in StatusShape /\ inUse \in Place
  BY DEF Paint, moveVars, StatusInv, MovesInv
<1>2. GitIsRead'
 <2> SUFFICES ASSUME GitAwaits(Evaluated(status).git)
              PROVE  IsRead(reads', "git", <<inUse, Here>>, Evaluated(status).git.gen)
   BY <1>1 DEF GitIsRead, GitAwaits, Here
 <2> QED BY <1>1, EvaluatedGit DEF GitIsRead, IsRead
<1>3. TitleIsRead'
 <2> SUFFICES ASSUME TitleAwaits(Evaluated(status).title)
              PROVE  IsRead(reads', "title", inUse, Evaluated(status).title.gen)
   BY <1>1 DEF TitleIsRead, TitleAwaits
 <2> QED BY <1>1, EvaluatedTitle DEF TitleIsRead, IsRead
<1> QED BY <1>2, <1>3

LEMMA ShowStatusReads ==
  StatusInv /\ GitIsRead /\ ShowStatus => GitIsRead' /\ TitleIsRead'
<1> SUFFICES ASSUME StatusInv, GitIsRead, ShowStatus PROVE GitIsRead' /\ TitleIsRead'
  OBVIOUS
<1>1. status \in StatusShape /\ inUse \in Place BY DEF StatusInv, MovesInv
<1>2. PICK n \in Nat : n = status.title.gen + 1 BY <1>1, PartsOf DEF TitleShape
<1>3. PICK b \in BOOLEAN : b = TRUE OBVIOUS
<1>4. status' = AskedFor(status, n, inUse, b) BY <1>2, <1>3 DEF ShowStatus, AskedFor
<1>5. status'.git = status.git /\ status'.title.gen = n BY <1>1, <1>4, TitleAskedFor
<1>6. /\ reads' = reads \union {Read("title", inUse, n)} /\ UNCHANGED <<inUse, folderOf>>
  BY <1>2 DEF ShowStatus, moveVars
<1>7. GitIsRead' BY <1>5, <1>6, GitStays DEF IsRead
<1>8. PICK r : r = Read("title", inUse, n) /\ r \in reads' BY <1>6
<1>9. r.what = "title" /\ r.of = inUse /\ r.gen = n BY <1>8 DEF Read
<1>10. TitleIsRead' BY <1>5, <1>6, <1>8, <1>9 DEF TitleIsRead, IsRead
<1> QED BY <1>7, <1>10

LEMMA ReadAnswersReads ==
  StatusInv /\ GitIsRead /\ TitleIsRead /\ ReadAnswers => GitIsRead' /\ TitleIsRead'
<1> SUFFICES ASSUME StatusInv, GitIsRead, TitleIsRead, ReadAnswers PROVE GitIsRead' /\ TitleIsRead'
  OBVIOUS
<1>1. PICK r, got : /\ r \in reads /\ reads' = (reads \ {r}) \union {[r EXCEPT !.got = got]}
  BY DEF ReadAnswers
<1>2. PICK q : q = [r EXCEPT !.got = got] OBVIOUS
<1>3. Asks(r, Titled, segments) BY <1>1 DEF StatusInv, ReadsInv
<1>4. q.what = r.what /\ q.of = r.of /\ q.gen = r.gen BY <1>2, <1>3 DEF Asks
<1>5. \A what, of, gen : IsRead(reads, what, of, gen) => IsRead(reads', what, of, gen)
  BY <1>1, <1>2, <1>4, ZenonT(40) DEF IsRead
<1>6. status' = status /\ inUse' = inUse /\ folderOf' = folderOf
  BY DEF ReadAnswers, moveVars
<1> QED BY <1>5, <1>6, GitStays, TitleStays

\* A read that ends and was waited for is waited for no more.
LEMMA ReadEndsReads ==
  StatusInv /\ GitIsRead /\ TitleIsRead /\ ReadEnds => GitIsRead' /\ TitleIsRead'
<1> SUFFICES ASSUME StatusInv, GitIsRead, TitleIsRead, ReadEnds PROVE GitIsRead' /\ TitleIsRead'
  OBVIOUS
<1>1. PICK r : r \in reads /\ r.got # Unread /\ reads' = reads \ {r} /\ status' = Refreshed(r)
  BY DEF ReadEnds
<1>2. status \in StatusShape /\ Asks(r, Titled, segments)
  BY <1>1 DEF StatusInv, MovesInv, ReadsInv
<1>3. inUse' = inUse /\ folderOf' = folderOf BY DEF ReadEnds, moveVars
<1>4. PICK a \in BOOLEAN, b \in BOOLEAN : a = TRUE /\ b = FALSE OBVIOUS
<1>5. \A what, of, gen :
        IsRead(reads, what, of, gen) /\ ~(r.what = what /\ r.of = of /\ r.gen = gen)
          => IsRead(reads', what, of, gen)
  BY <1>1 DEF IsRead
<1>6. CASE r.what = "git" /\ OfThisGit(r)
 <2>1. PICK x \in Texts : x = TextOf(r.got)
   BY <1>1, <1>2, <1>6 DEF TextOf, Asks, AnswerOf, Texts
 <2>2. status' = WithGit(status, x, a, b) BY <1>1, <1>4, <1>6, <2>1 DEF Refreshed, WithGit
 <2>3. status'.git.refreshing = b /\ status'.title = status.title BY <1>2, <2>2, GitWritten
 <2>4. GitIsRead' BY <1>4, <2>3 DEF GitIsRead, GitAwaits
 <2> QED BY <1>3, <1>5, <1>6, <2>3, <2>4, TitleStays
<1>7. CASE r.what = "pr" /\ r.of = status.pr.of
 <2>1. PICK x \in Texts : x = TextOf(r.got)
   BY <1>1, <1>2, <1>7 DEF TextOf, Asks, AnswerOf, Texts
 <2>2. status' = WithPr(status, x, b, b) BY <1>1, <1>4, <1>7, <2>1 DEF Refreshed, WithPr
 <2>3. status'.git = status.git /\ status'.title = status.title BY <1>2, <2>2, PrWritten
 <2> QED BY <1>3, <1>5, <1>7, <2>3, GitStays, TitleStays
<1>8. CASE r.what = "title" /\ OfThisTitle(r)
 <2>1. status'.title.refreshing = FALSE /\ status'.git = status.git
  <3>1. CASE r.got = Failed
   <4>1. PICK st \in StatusShape : st = status BY <1>2
   <4>2. status' = PutOff(st, b, a) BY <1>1, <1>4, <1>8, <3>1, <4>1 DEF Refreshed, PutOff
   <4>3. status'.title.refreshing = b /\ status'.git = st.git BY <4>2, TitlePutOff
   <4> QED BY <1>4, <4>1, <4>3
  <3>2. CASE r.got # Failed
   <4>1. PICK x \in TitleTexts : x = r.got BY <1>1, <1>2, <1>8, <3>2 DEF Asks, TitleTexts
   <4>2. status' = WithTitle(status, x, a, b)
     BY <1>1, <1>4, <1>8, <3>2, <4>1 DEF Refreshed, WithTitle
   <4>3. status'.title.refreshing = b /\ status'.git = status.git
     BY <1>2, <4>2, TitleWritten
   <4> QED BY <1>4, <4>3
  <3> QED BY <3>1, <3>2
 <2>2. TitleIsRead' BY <2>1 DEF TitleIsRead, TitleAwaits
 <2> QED BY <1>3, <1>5, <1>8, <2>1, <2>2, GitStays
<1>9. CASE /\ ~(r.what = "git" /\ OfThisGit(r)) /\ ~(r.what = "pr" /\ r.of = status.pr.of)
           /\ ~(r.what = "title" /\ OfThisTitle(r))
 <2>1. status' = status BY <1>1, <1>9 DEF Refreshed
 <2>2. GitIsRead'
  <3>1. GitAwaits(status.git) =>
          ~(r.what = "git" /\ r.of = <<inUse, Here>> /\ r.gen = status.git.gen)
    BY <1>9 DEF OfThisGit, GitAwaits
  <3> QED BY <1>3, <1>5, <2>1, <3>1 DEF GitIsRead, GitAwaits, Here
 <2>3. TitleIsRead'
  <3>1. TitleAwaits(status.title) =>
          ~(r.what = "title" /\ r.of = inUse /\ r.gen = status.title.gen)
    BY <1>9 DEF OfThisTitle, TitleAwaits
  <3> QED BY <1>3, <1>5, <2>1, <3>1 DEF TitleIsRead, TitleAwaits
 <2> QED BY <2>2, <2>3
<1> QED BY <1>6, <1>7, <1>8, <1>9

LEMMA SecondsPassReads ==
  StatusInv /\ GitIsRead /\ TitleIsRead /\ SecondsPass => GitIsRead' /\ TitleIsRead'
<1> SUFFICES ASSUME StatusInv, GitIsRead, TitleIsRead, SecondsPass PROVE GitIsRead' /\ TitleIsRead'
  OBVIOUS
<1>1. status \in StatusShape BY DEF StatusInv, MovesInv
<1>2. PICK minute \in BOOLEAN :
        status' = [status EXCEPT !.git.fresh = FALSE, !.title.waits = FALSE, !.pr.due = @ \/ minute]
  BY DEF SecondsPass
<1>3. PICK b \in BOOLEAN : b = FALSE OBVIOUS
<1>4. PICK c \in BOOLEAN : c = (status.pr.due \/ minute) BY <1>1, PartsOf DEF PrShape
<1>5. status' = Later(status, b, b, c) BY <1>2, <1>3, <1>4 DEF Later
<1>6. SameButAge(status', status) BY <1>1, <1>5, LaterIs
<1>7. /\ status'.git.of = status.git.of /\ status'.git.gen = status.git.gen
      /\ status'.title.of = status.title.of /\ status'.title.gen = status.title.gen
      /\ status'.git.refreshing => status.git.refreshing
      /\ status'.title.refreshing => status.title.refreshing
  BY <1>6 DEF SameButAge
<1>8. reads' = reads /\ inUse' = inUse /\ folderOf' = folderOf
  BY DEF SecondsPass, moveVars, readVars
<1> QED BY <1>7, <1>8, GitStays, TitleStays

\* After a reset nothing counts as being read.
LEMMA ResetReads ==
  ASSUME NEW st, status' = ResetOfPlace(st), st \in StatusShape
  PROVE  GitIsRead' /\ TitleIsRead'
<1>1. Fits(Cleared, {}, {}) /\ st.git \in GitShape /\ st.title \in TitleShape
  BY ClearedFits, PartsOf
<1>2. PICK g \in GitShape, t \in TitleShape : g = GitReset(st.git) /\ t = TitleReset(st.title)
  BY <1>1, GitResetIs, TitleResetIs
<1>3. ~g.refreshing /\ ~t.refreshing BY <1>1, <1>2, GitResetIs, TitleResetIs
<1>4. status'.git = g /\ status'.title = t
 <2>1. PICK q : q = [st EXCEPT !.git = g] OBVIOUS
 <2>2. q \in StatusShape /\ q.git = g BY <1>2, <2>1 DEF StatusShape
 <2>3. status' = [q EXCEPT !.title = t] BY <1>2, <2>1 DEF ResetOfPlace
 <2> QED BY <2>2, <2>3 DEF StatusShape
<1> QED BY <1>3, <1>4 DEF GitIsRead, TitleIsRead, GitAwaits, TitleAwaits

\* No step leaves a record that waits for a read that nobody makes.
LEMMA RefreshStep ==
  StatusInv /\ RefreshIsUnderWay /\ [StatusNext]_statusVars => RefreshIsUnderWay'
<1> SUFFICES ASSUME StatusInv, RefreshIsUnderWay, [StatusNext]_statusVars,
                    moving' = NoMove, ~movedBack'
             PROVE  GitIsRead' /\ TitleIsRead'
 <2>1. RefreshIsUnderWay' <=> (moving' = NoMove /\ ~movedBack' => GitIsRead' /\ TitleIsRead')
   BY DEF RefreshIsUnderWay, GitIsRead, TitleIsRead, GitAwaits, TitleAwaits, IsRead, OfThisGit,
          OfThisTitle
 <2> QED BY <2>1
<1>a. status \in StatusShape /\ inUse \in Place /\ kept \in [Place -> StatusShape]
  BY DEF StatusInv, MovesInv
<1>b. moving = NoMove /\ ~movedBack => GitIsRead /\ TitleIsRead BY RefreshIs
<1>1. CASE Paint BY <1>b, <1>1, PaintReads DEF Paint, moveVars
<1>2. CASE ShowStatus BY <1>b, <1>2, ShowStatusReads DEF ShowStatus, moveVars
<1>3. CASE ReadAnswers BY <1>b, <1>3, ReadAnswersReads DEF ReadAnswers, moveVars
<1>4. CASE ReadEnds BY <1>b, <1>4, ReadEndsReads DEF ReadEnds, moveVars
<1>5. CASE SecondsPass BY <1>b, <1>5, SecondsPassReads DEF SecondsPass, moveVars
<1>6. CASE WorldChanges
  BY <1>b, <1>6, GitStays, TitleStays DEF WorldChanges, moveVars, readVars
<1>7. CASE TurnStarts
 <2>1. PICK t : t = TitleReset(status.title) OBVIOUS
 <2>2. ~t.refreshing BY <1>a, <2>1, PartsOf, TitleResetIs
 <2>3. status' = [status EXCEPT !.title = t] BY <1>7, <2>1 DEF TurnStarts
 <2>4. status'.title = t /\ status'.git = status.git BY <1>a, <2>3 DEF StatusShape
 <2>5. /\ reads' = reads /\ inUse' = inUse /\ folderOf' = folderOf
       /\ moving = NoMove /\ ~movedBack
   BY <1>7 DEF TurnStarts, moveVars, readVars
 <2>6. TitleIsRead' BY <2>2, <2>4 DEF TitleIsRead, TitleAwaits
 <2> QED BY <1>b, <2>4, <2>5, <2>6, GitStays
<1>8. CASE UsageArrives
 <2>1. status'.git = status.git /\ status'.title = status.title
  <3>1. PICK c : status' = Counts(c) BY <1>8 DEF UsageArrives
  <3>2. PICK n : status' = status \/ status' = [status EXCEPT !.tokens = n]
    BY <3>1 DEF Counts
  <3> QED BY <1>a, <3>2 DEF StatusShape
 <2> QED BY <1>b, <1>8, <2>1, GitStays, TitleStays DEF UsageArrives, moveVars, readVars
<1>9. CASE ThreadMoves
 <2>1. /\ status' = ResetOfThread(status) /\ reads' = reads /\ inUse' = inUse /\ folderOf' = folderOf
       /\ moving = NoMove /\ ~movedBack
   BY <1>9 DEF ThreadMoves, readVars
 <2>2. status'.git = status.git /\ ~status'.title.refreshing
   BY <1>a, <2>1, ThreadResetFits DEF StatusInv, ReadsInv
 <2>3. TitleIsRead' BY <2>2 DEF TitleIsRead, TitleAwaits
 <2> QED BY <1>b, <2>1, <2>2, <2>3, GitStays
<1>10. CASE \E s \in Place : ResumeBegins(s) \/ ForkBegins(s) \/ NewBegins(s)
 <2>1. moving'.kind \in {"resume", "fork", "new"}
   BY <1>10 DEF ResumeBegins, ForkBegins, NewBegins, Moving
 <2> QED BY <2>1 DEF NoMove
<1>11. CASE Activates \/ NewMoves
 <2>1. /\ moving # NoMove /\ moving' = [moving EXCEPT !.there = TRUE]
   BY <1>11 DEF Activates, NewMoves, NoMove
 <2>2. moving \in PlaceMoves BY <2>1 DEF StatusInv, MovesInv, Moved
 <2> QED BY <2>1, <2>2, ThereIs
<1>12. CASE MoveEnds BY <1>a, <1>12, ResetReads DEF MoveEnds
<1>13. CASE MoveFails BY <1>13 DEF MoveFails
<1>14. CASE Reopens
 <2>1. PICK s \in Place : status' = ResetOfPlace(kept'[s]) BY <1>14 DEF Reopens
 <2>2. PICK k : k = kept' OBVIOUS
 <2>3. k[s] \in StatusShape BY <1>a, <1>14, <2>2, SavedIs DEF Reopens
 <2> QED BY <2>1, <2>2, <2>3, ResetReads
<1>15. CASE UNCHANGED statusVars
  BY <1>b, <1>15, GitStays, TitleStays DEF statusVars, moveVars, readVars
<1> QED
  BY <1>1, <1>2, <1>3, <1>4, <1>5, <1>6, <1>7, <1>8, <1>9, <1>10, <1>11, <1>12, <1>13, <1>14, <1>15
     DEF StatusNext

LEMMA StatusStep ==
  StatusInv /\ [StatusNext]_statusVars => StatusInv'
<1> SUFFICES ASSUME StatusInv, [StatusNext]_statusVars PROVE StatusInv' OBVIOUS
<1>1. CASE UNCHANGED statusVars
 <2>1. status' \in StatusShape /\ status'.tokens = status.tokens /\ Fits(status', Titled, segments)
       /\ status'.title.of \in {status.title.of, inUse}
   BY <1>1 DEF statusVars, StatusInv, MovesInv, ReadsInv
 <2>2. /\ readNo' \in Nat /\ answers' \in [Folder -> Nat]
       /\ UNCHANGED <<moveVars, titles, segments, tokenVars>>
       /\ \A x \in reads' : Asks(x, Titled, segments)
   BY <1>1 DEF statusVars, readVars, worldVars, StatusInv, ReadsInv
 <2> QED BY <2>1, <2>2, QuietKeeps
<1> QED
  BY <1>1, PaintKeeps, ShowStatusKeeps, ReadAnswersKeeps, ReadEndsKeeps, SecondsPassKeeps,
     WorldChangesKeeps, TurnStartsKeeps, UsageArrivesKeeps, ThreadMovesKeeps, ResumeBeginsKeeps,
     ForkBeginsKeeps, NewBeginsKeeps, ActivatesKeeps, NewMovesKeeps, MoveEndsKeeps,
     MoveFailsKeeps, ReopensKeeps DEF StatusNext

LEMMA StatusBegins ==
  StatusInit => StatusInv /\ RefreshIsUnderWay
<1> SUFFICES ASSUME StatusInit PROVE StatusInv /\ RefreshIsUnderWay OBVIOUS
<1>1. /\ status = Cleared /\ kept = [s \in Place |-> Cleared]
      /\ folderOf \in [Place -> Folder \union {None}] /\ folderOf[FirstPlace] = FirstFolder
      /\ inUse = FirstPlace /\ moving = NoMove /\ reads = {}
      /\ answers = [f \in Folder |-> 0] /\ titles = [s \in Place |-> None]
      /\ counted = [s \in Place |-> 0] /\ tracker = {} /\ stream = {} /\ readNo = 0 /\ chunks = 0
  BY DEF StatusInit
<1>2. /\ status \in StatusShape /\ Fits(status, Titled, segments) /\ kept \in [Place -> StatusShape]
      /\ \A s \in Place : Fits(kept[s], Titled, segments)
  BY <1>1, ClearedFits
<1>3. Cleared.tokens = 0 /\ Cleared.title.of = None /\ ~Cleared.git.refreshing
      /\ ~Cleared.title.refreshing
  BY DEF Cleared
<1>4. MovesInv BY <1>1, <1>2, StatusAssumption DEF MovesInv, Moved, TitleTexts
<1>5. ReadsInv
 <2>1. Placed(status, inUse, Titled) BY <1>1, <1>3, PlaceIsNotNone DEF Placed, Titled
 <2> QED BY <1>1, <1>2, <2>1 DEF ReadsInv
<1>6. TokensInv BY <1>1, <1>3, StatusAssumption DEF TokensInv
<1>7. RefreshIsUnderWay BY <1>1, <1>3 DEF RefreshIsUnderWay
<1> QED BY <1>4, <1>5, <1>6, <1>7 DEF StatusInv

\* What is on record shows as it should, whenever a paint comes.
LEMMA StatusTells ==
  StatusInv => StatusOfPlace /\ TokensOfThread
<1> SUFFICES ASSUME StatusInv PROVE StatusOfPlace /\ TokensOfThread OBVIOUS
<1>1. status \in StatusShape /\ Fits(status, Titled, segments) /\ inUse \in Place /\ Here \in Folder
  BY HereIsFolder DEF StatusInv, MovesInv, ReadsInv
<1>2. StatusOfPlace BY <1>1, EvaluatedFits DEF StatusOfPlace
<1> QED BY <1>2 DEF StatusInv, TokensInv, TokensOfThread

\* For any number of sessions, directories, reads, moves, turns and restarts: whatever is read
\* meanwhile for others, a paint shows git, the pull request and the title of the session and
\* the directory in use; what counts as being read is being read, but after a move that failed;
\* and between moves the tokens are those of the thread in use, each chunk once
\* (statusline.py 97-422, 698-776, statusbar.py 78-145, context.py 521-776).
THEOREM StatusIsOfTheSession ==
  StatusSpec => [](StatusOfPlace /\ RefreshIsUnderWay /\ TokensOfThread)
<1>1. StatusInit => StatusInv /\ RefreshIsUnderWay BY StatusBegins
<1>2. StatusInv /\ RefreshIsUnderWay /\ [StatusNext]_statusVars => (StatusInv /\ RefreshIsUnderWay)'
  BY StatusStep, RefreshStep
<1>3. StatusInv /\ RefreshIsUnderWay => StatusOfPlace /\ RefreshIsUnderWay /\ TokensOfThread
  BY StatusTells
<1> QED BY <1>1, <1>2, <1>3, PTL DEF StatusSpec

=============================================================================
