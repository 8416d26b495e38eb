------------------------- MODULE ConversationProofs -------------------------
(***************************************************************************)
(* What stream rules owe the conversation, for any set of rules, any       *)
(* repeat policy and any number of turns; what the prompt queue owes the   *)
(* user, for any number of prompts: wherever keys, turns, switches, exits  *)
(* and returns put a prompt, it is in one place; what a switch of session  *)
(* or of model that fails leaves, and what a model is shown after one, for *)
(* any number of both.                                                     *)
(***************************************************************************)
EXTENDS RuleInterrupts, TurnQueue, SessionSwitches, FiniteSetTheorems, SequenceTheorems,
        WellFoundedInduction, TLAPS

\* A rule that counts as fired has its reminder in the conversation or in hand.
Reminded ==
  stage # "idle" => \A r \in Rule : fired[r] >= 0 => r \in attached \union pending \union retry

\* Only a broken attempt has reminders of its own, so no interrupt overwrites another's.
RetryIsOfOne == (stage # "model" \/ ~rejected) => retry = {}

\* Every breaking off, the one that is under way too, took a rule that had not fired in the turn.
Broken == IF stage = "model" /\ rejected THEN 1 ELSE 0
FreshRules == IF discovered THEN Cardinality(Rule) ELSE 0
EachBreakHasItsRule == retries + Broken <= Cardinality(present) + FreshRules

RuleTypes ==
  /\ stage \in {"idle", "before", "model", "tools", "answered"}
  /\ attached \subseteq Rule /\ pending \subseteq Rule /\ retry \subseteq Rule /\ present \subseteq Rule
  /\ rejected \in BOOLEAN /\ discovered \in BOOLEAN
  /\ fired \in [Rule -> Int] /\ turnNo \in Nat /\ retries \in Nat

RuleInv == RuleTypes /\ Reminded /\ RetryIsOfOne /\ EachBreakHasItsRule

LEMMA RuleCounts ==
  ASSUME RuleTypes
  PROVE  /\ Cardinality(present) \in Nat /\ Cardinality(Rule) \in Nat /\ FreshRules \in Nat
         /\ Cardinality(present) <= Cardinality(Rule)
         /\ IsFiniteSet(present) /\ Broken \in {0, 1}
<1>1. IsFiniteSet(Rule) /\ present \subseteq Rule BY RuleAssumption DEF RuleTypes
<1>2. IsFiniteSet(present) /\ Cardinality(present) <= Cardinality(Rule) BY <1>1, FS_Subset
<1>3. Cardinality(present) \in Nat /\ Cardinality(Rule) \in Nat
  BY <1>1, <1>2, FS_CardinalityType
<1> QED BY <1>2, <1>3 DEF FreshRules, Broken

\* What fires had not fired in the turn, and its reminders are in hand.
LEMMA FiringIsNew ==
  ASSUME RuleTypes, Reminded, RetryIsOfOne, stage = "model", ~rejected,
         NEW met \in SUBSET Rule, NEW interrupts \in BOOLEAN, Fires(met, interrupts)
  PROVE  /\ fired' \in [Rule -> Int] /\ present' \subseteq Rule
         /\ pending' \subseteq Rule /\ retry' \subseteq Rule
         /\ \A r \in Rule : fired'[r] >= 0 => r \in attached \union pending' \union retry'
         /\ ~interrupts => retry' = {}
         /\ Cardinality(present') \in Nat /\ Cardinality(present') >= Cardinality(present) + 1
<1>1. retry = {} /\ \A r \in Rule : fired[r] >= 0 => r \in attached \union pending
  BY DEF Reminded, RetryIsOfOne
<1>2. fired' = [r \in Rule |-> IF r \in met THEN turnNo ELSE fired[r]]
      /\ present' = present \union met
  BY DEF Fires
<1>3. fired' \in [Rule -> Int] BY <1>2 DEF RuleTypes
<1>4. \/ retry' = pending \union met /\ pending' = {} /\ interrupts
      \/ pending' = pending \union met /\ retry' = {} /\ ~interrupts
  BY <1>1 DEF Fires
<1>5. \A r \in Rule : fired'[r] >= 0 => r \in attached \union pending' \union retry'
  BY <1>1, <1>2, <1>4
<1>6. PICK r \in met : r \notin present BY DEF Fires, MayFire
<1>7. Cardinality(present \union {r}) = Cardinality(present) + 1
  BY <1>6, RuleCounts, FS_AddElement
<1>8. present' \subseteq Rule /\ IsFiniteSet(present') /\ present \union {r} \subseteq present'
  BY <1>2, <1>6, RuleAssumption, FS_Subset DEF RuleTypes
<1>9. Cardinality(present \union {r}) <= Cardinality(present') /\ Cardinality(present') \in Nat
  BY <1>8, FS_Subset, FS_CardinalityType
<1> QED BY <1>3, <1>4, <1>5, <1>7, <1>8, <1>9 DEF RuleTypes

LEMMA RulesStart == RuleInit => RuleInv
<1> SUFFICES ASSUME RuleInit PROVE RuleInv OBVIOUS
<1>1. RuleTypes
 <2>1. fired \in [Rule -> Int] BY DEF RuleInit, Unfired
 <2>2. rejected \in BOOLEAN /\ discovered \in BOOLEAN BY DEF RuleInit
 <2> QED BY <2>1, <2>2 DEF RuleInit, RuleTypes
<1>2. Reminded /\ RetryIsOfOne BY DEF RuleInit, Reminded, RetryIsOfOne
<1>3. EachBreakHasItsRule BY <1>1, RuleCounts DEF RuleInit, EachBreakHasItsRule, Broken
<1> QED BY <1>1, <1>2, <1>3 DEF RuleInv

LEMMA RulesStep == RuleInv /\ [RuleNext]_ruleVars => RuleInv'
<1> SUFFICES ASSUME RuleInv, [RuleNext]_ruleVars PROVE RuleInv' OBVIOUS
<1> USE DEF RuleTypes, Reminded, RetryIsOfOne, EachBreakHasItsRule, Broken
<1>0. /\ RuleTypes /\ Reminded /\ RetryIsOfOne /\ EachBreakHasItsRule
      /\ Cardinality(present) \in Nat /\ Cardinality(Rule) \in Nat /\ FreshRules \in Nat
      /\ Cardinality(present) <= Cardinality(Rule)
  BY RuleCounts DEF RuleInv
<1>1. CASE RuleTurnStarts
 <2>1. fired' \in [Rule -> Int] /\ \A r \in Rule : fired'[r] >= 0 => r \in attached
   BY <1>0, <1>1 DEF RuleTurnStarts, StillReminded
 <2>2. RuleTypes' /\ Reminded' /\ RetryIsOfOne' BY <1>0, <1>1, <2>1 DEF RuleTurnStarts
 <2>3. FreshRules' = FreshRules /\ Cardinality(present') = 0
   BY <1>1, FS_EmptySet DEF RuleTurnStarts, FreshRules
 <2>4. EachBreakHasItsRule' BY <1>0, <1>1, <2>3 DEF RuleTurnStarts
 <2> QED BY <2>2, <2>4 DEF RuleInv
<1>2. CASE \E byPath \in SUBSET Rule : BeforeModel(byPath)
 <2>1. RuleTypes' /\ Reminded' /\ RetryIsOfOne' BY <1>0, <1>2 DEF BeforeModel
 <2>2. EachBreakHasItsRule' BY <1>0, <1>2 DEF BeforeModel, FreshRules
 <2> QED BY <2>1, <2>2 DEF RuleInv
<1>3. ASSUME NEW met \in SUBSET Rule, NEW interrupts \in BOOLEAN, ChunkMeets(met, interrupts)
      PROVE  RuleInv'
 <2>1. /\ stage = "model" /\ ~rejected /\ Fires(met, interrupts) /\ rejected' = interrupts
       /\ UNCHANGED <<stage, attached, turnNo, discovered, retries>>
   BY <1>3 DEF ChunkMeets
 <2>2. /\ fired' \in [Rule -> Int] /\ present' \subseteq Rule
       /\ pending' \subseteq Rule /\ retry' \subseteq Rule
       /\ \A r \in Rule : fired'[r] >= 0 => r \in attached \union pending' \union retry'
       /\ ~interrupts => retry' = {}
       /\ Cardinality(present') \in Nat /\ Cardinality(present') >= Cardinality(present) + 1
   BY <1>0, <2>1, FiringIsNew
 <2>3. RuleTypes' /\ Reminded' /\ RetryIsOfOne' BY <1>0, <2>1, <2>2
 <2>4. FreshRules' = FreshRules BY <2>1 DEF FreshRules
 <2>5. EachBreakHasItsRule' BY <1>0, <2>1, <2>2, <2>4
 <2> QED BY <2>3, <2>5 DEF RuleInv
<1>4. CASE FallsBack
 <2>1. RuleTypes' /\ Reminded' /\ RetryIsOfOne' BY <1>0, <1>4 DEF FallsBack
 <2>2. EachBreakHasItsRule' BY <1>0, <1>4 DEF FallsBack, FreshRules
 <2> QED BY <2>1, <2>2 DEF RuleInv
<1>5. ASSUME NEW met \in SUBSET Rule, NEW interrupts \in BOOLEAN, NEW calls \in BOOLEAN,
             ModelReturns(met, interrupts, calls)
      PROVE  RuleInv'
 <2>1. /\ stage = "model" /\ ~rejected /\ rejected' = (met # {} /\ interrupts)
       /\ stage' = IF rejected' THEN "model" ELSE IF calls THEN "tools" ELSE "answered"
       /\ UNCHANGED <<attached, turnNo, discovered, retries>>
   BY <1>5 DEF ModelReturns
 <2>2. FreshRules' = FreshRules BY <2>1 DEF FreshRules
 <2>3. CASE met = {} /\ UNCHANGED <<fired, present, pending, retry>>
  <3>1. ~rejected' BY <2>1, <2>3
  <3>2. RuleTypes' /\ Reminded' /\ RetryIsOfOne' BY <1>0, <2>1, <2>3, <3>1
  <3>3. EachBreakHasItsRule' BY <1>0, <2>1, <2>2, <2>3, <3>1
  <3> QED BY <3>2, <3>3 DEF RuleInv
 <2>4. CASE Fires(met, interrupts)
  <3>1. /\ fired' \in [Rule -> Int] /\ present' \subseteq Rule
        /\ pending' \subseteq Rule /\ retry' \subseteq Rule
        /\ \A r \in Rule : fired'[r] >= 0 => r \in attached \union pending' \union retry'
        /\ ~interrupts => retry' = {}
        /\ Cardinality(present') \in Nat /\ Cardinality(present') >= Cardinality(present) + 1
    BY <1>0, <2>1, <2>4, FiringIsNew
  <3>2. rejected' = interrupts BY <2>1, <2>4 DEF Fires
  <3>3. RuleTypes' /\ Reminded' /\ RetryIsOfOne' BY <1>0, <2>1, <3>1, <3>2
  <3>4. EachBreakHasItsRule' BY <1>0, <2>1, <2>2, <3>1
  <3> QED BY <3>3, <3>4 DEF RuleInv
 <2> QED BY <1>5, <2>3, <2>4 DEF ModelReturns
<1>6. CASE AsksAgain
 <2>1. RuleTypes' /\ Reminded' /\ RetryIsOfOne' BY <1>0, <1>6 DEF AsksAgain
 <2>2. EachBreakHasItsRule' BY <1>0, <1>6 DEF AsksAgain, FreshRules
 <2> QED BY <2>1, <2>2 DEF RuleInv
<1>7. CASE StreamSegmentEnds
 <2>1. RuleTypes' /\ Reminded' /\ RetryIsOfOne'
   BY <1>0, <1>7 DEF StreamSegmentEnds, Delivers
 <2>2. EachBreakHasItsRule' BY <1>0, <1>7 DEF StreamSegmentEnds, FreshRules
 <2> QED BY <2>1, <2>2 DEF RuleInv
<1>8. CASE TurnCutOff
 <2>1. RuleTypes' /\ Reminded' /\ RetryIsOfOne' BY <1>0, <1>8 DEF TurnCutOff
 <2>2. EachBreakHasItsRule' BY <1>0, <1>8 DEF TurnCutOff, FreshRules
 <2> QED BY <2>1, <2>2 DEF RuleInv
<1>9. CASE \E met \in SUBSET Rule : ConversationShrinks(attached \ met)
 <2>1. RuleTypes' /\ Reminded' /\ RetryIsOfOne' BY <1>0, <1>9 DEF ConversationShrinks
 <2>2. EachBreakHasItsRule' BY <1>0, <1>9 DEF ConversationShrinks, FreshRules
 <2> QED BY <2>1, <2>2 DEF RuleInv
<1>10. CASE RulesRestart
 <2>1. fired' \in [Rule -> Int] BY <1>10 DEF RulesRestart, Unfired
 <2>2. RuleTypes' /\ Reminded' /\ RetryIsOfOne' BY <1>0, <1>10, <2>1 DEF RulesRestart
 <2>3. FreshRules' \in Nat /\ Cardinality(present') = 0
   BY <1>0, <1>10, FS_EmptySet DEF RulesRestart, FreshRules
 <2>4. EachBreakHasItsRule' BY <1>0, <1>10, <2>3 DEF RulesRestart
 <2> QED BY <2>2, <2>4 DEF RuleInv
<1>11. CASE DiscoveryEnds
 <2>1. fired' \in [Rule -> Int] /\ \A r \in Rule : ~(fired'[r] >= 0)
   BY <1>11 DEF DiscoveryEnds, Unfired
 <2>2. RuleTypes' /\ Reminded' /\ RetryIsOfOne' BY <1>0, <1>11, <2>1 DEF DiscoveryEnds
 <2>3. FreshRules = 0 /\ FreshRules' = Cardinality(Rule) /\ Cardinality(present') = 0
   BY <1>11, FS_EmptySet DEF DiscoveryEnds, FreshRules
 <2>4. EachBreakHasItsRule' BY <1>0, <1>11, <2>3 DEF DiscoveryEnds
 <2> QED BY <2>2, <2>4 DEF RuleInv
<1>12. CASE UNCHANGED ruleVars BY <1>0, <1>12 DEF ruleVars, RuleInv, FreshRules
<1> QED BY <1>1, <1>2, <1>3, <1>4, <1>5, <1>6, <1>7, <1>8, <1>9, <1>10, <1>11, <1>12 DEF RuleNext

\* For any rules and any turns, whatever is cut off, cleared or discovered late: a rule that keeps
\* silent has its reminder in the conversation, and a turn is broken off at most once per rule
\* (stream_rules.py 285-300, builtin/rules.py 108-130).
THEOREM RulesSpeak == RuleSpec => []RulesSpeakOnce
<1>1. RuleInv => RulesSpeakOnce
 <2> SUFFICES ASSUME RuleInv PROVE RulesSpeakOnce OBVIOUS
 <2>1. /\ Cardinality(present) \in Nat /\ Cardinality(Rule) \in Nat
       /\ Cardinality(present) <= Cardinality(Rule) /\ Broken \in {0, 1}
   BY RuleCounts DEF RuleInv
 <2>2. retries <= Cardinality(present) + FreshRules
   BY <2>1, RuleCounts DEF RuleInv, EachBreakHasItsRule, RuleTypes
 <2>3. CASE discovered
   BY <2>1, <2>2, <2>3 DEF RuleInv, RuleTypes, Reminded, FreshRules, RulesSpeakOnce
 <2>4. CASE ~discovered
   BY <2>1, <2>2, <2>4 DEF RuleInv, RuleTypes, Reminded, FreshRules, RulesSpeakOnce
 <2> QED BY <2>3, <2>4
<1> QED BY <1>1, RulesStart, RulesStep, PTL DEF RuleSpec

-----------------------------------------------------------------------------
(* The prompts of the user: how often one is in a sequence. *)

LEMMA TimesType ==
  ASSUME NEW A, NEW s \in Seq(A), NEW x
  PROVE  /\ Times(x, s) \in Nat
         /\ IsFiniteSet({i \in DOMAIN s : s[i] = x})
         /\ Times(x, s) = 0 <=> x \notin ToSet(s)
<1> DEFINE I == {i \in DOMAIN s : s[i] = x}
<1>1. IsFiniteSet(DOMAIN s)
 <2>1. DOMAIN s = 1 .. Len(s) /\ Len(s) \in Int OBVIOUS
 <2> QED BY <2>1, FS_Interval
<1>2. IsFiniteSet(I) BY <1>1, FS_Subset
<1>3. Cardinality(I) \in Nat BY <1>2, FS_CardinalityType
<1>4. Cardinality(I) = 0 <=> I = {} BY <1>2, FS_EmptySet
<1>5. I = {} <=> x \notin ToSet(s) BY DEF ToSet
<1> QED BY <1>2, <1>3, <1>4, <1>5 DEF Times

LEMMA TimesConcat ==
  ASSUME NEW A, NEW s \in Seq(A), NEW t \in Seq(A), NEW x
  PROVE  Times(x, s \o t) = Times(x, s) + Times(x, t)
<1> DEFINE n == Len(s)
           I == {i \in DOMAIN s : s[i] = x}
           J == {i \in DOMAIN t : t[i] = x}
           f == [j \in J |-> j + n]
           K == {j + n : j \in J}
<1>1. IsFiniteSet(I) /\ IsFiniteSet(J) BY TimesType
<1>2. n \in Nat /\ J \subseteq Nat /\ (\A j \in J : j >= 1) /\ I \subseteq 1 .. n OBVIOUS
<1>3. f \in Bijection(J, K)
 <2>1. f \in [J -> K] OBVIOUS
 <2>2. \A a, b \in J : f[a] = f[b] => a = b BY <1>2
 <2>3. \A k \in K : \E j \in J : f[j] = k OBVIOUS
 <2> QED BY <2>1, <2>2, <2>3, Zenon DEF Bijection, Injection, Surjection, IsInjective
<1>4. IsFiniteSet(K) /\ Cardinality(K) = Cardinality(J)
  BY <1>1, <1>3, FS_Bijection DEF ExistsBijection
<1>5. I \cap K = {} BY <1>2
<1>6. {i \in DOMAIN (s \o t) : (s \o t)[i] = x} = I \cup K
 <2>1. DOMAIN (s \o t) = 1 .. (n + Len(t)) /\ DOMAIN s = 1 .. n /\ DOMAIN t = 1 .. Len(t)
       /\ Len(t) \in Nat
   OBVIOUS
 <2>2. \A i \in 1 .. (n + Len(t)) : (s \o t)[i] = IF i <= n THEN s[i] ELSE t[i - n] OBVIOUS
 <2>3. ASSUME NEW i, i \in DOMAIN (s \o t), (s \o t)[i] = x PROVE i \in I \cup K
  <3>1. CASE i <= n BY <2>1, <2>2, <2>3, <3>1
  <3>2. CASE ~(i <= n)
   <4>1. i - n \in J BY <2>1, <2>2, <2>3, <3>2, <1>2
   <4>2. i = (i - n) + n BY <2>1, <2>3, <1>2
   <4> QED BY <4>1, <4>2
  <3> QED BY <3>1, <3>2
 <2>4. ASSUME NEW i \in I PROVE i \in DOMAIN (s \o t) /\ (s \o t)[i] = x BY <2>1, <2>2, <1>2
 <2>5. ASSUME NEW j \in J PROVE j + n \in DOMAIN (s \o t) /\ (s \o t)[j + n] = x
   BY <2>1, <2>2, <1>2
 <2> QED BY <2>3, <2>4, <2>5
<1>7. Cardinality(I \cup K) = Cardinality(I) + Cardinality(K)
 <2>1. Cardinality(I \cup K) = Cardinality(I) + Cardinality(K) - Cardinality(I \cap K)
   BY <1>1, <1>4, FS_Union
 <2>2. Cardinality(I \cap K) = 0 BY <1>5, FS_EmptySet
 <2>3. Cardinality(I) \in Nat /\ Cardinality(K) \in Nat BY <1>1, <1>4, FS_CardinalityType
 <2> HIDE DEF I, K
 <2> QED BY <2>1, <2>2, <2>3
<1> QED BY <1>4, <1>6, <1>7 DEF Times

LEMMA TimesOfOne ==
  ASSUME NEW e, NEW x
  PROVE  Times(x, <<>>) = 0 /\ Times(x, <<e>>) = (IF x = e THEN 1 ELSE 0)
<1>1. {i \in DOMAIN <<>> : <<>>[i] = x} = {} OBVIOUS
<1>2. {i \in DOMAIN <<e>> : <<e>>[i] = x} = IF x = e THEN {1} ELSE {} OBVIOUS
<1> QED BY <1>1, <1>2, FS_EmptySet, FS_Singleton DEF Times

\* A sequence around one of its places.
LEMMA AroundPlace ==
  ASSUME NEW A, NEW s \in Seq(A), NEW i \in DOMAIN s
  PROVE  /\ SubSeq(s, 1, i - 1) \in Seq(A) /\ SubSeq(s, i + 1, Len(s)) \in Seq(A)
         /\ s[i] \in A
         /\ s = (SubSeq(s, 1, i - 1) \o <<s[i]>>) \o SubSeq(s, i + 1, Len(s))
<1>1. DOMAIN s = 1 .. Len(s) /\ Len(s) \in Nat /\ \A k \in 1 .. Len(s) : s[k] \in A OBVIOUS
<1>2. SubSeq(s, 1, i) = SubSeq(s, 1, i - 1) \o <<s[i]>>
 <2>1. 1 \in 1 .. Len(s) /\ i \in 1 .. Len(s) BY <1>1
 <2> QED BY <2>1, SubSeqRecursiveSecond
<1>3. SubSeq(s, 1, i) \o SubSeq(s, i + 1, Len(s)) = SubSeq(s, 1, Len(s))
 <2>1. 1 \in 1 .. Len(s) + 1 /\ i \in 1 - 1 .. Len(s) /\ Len(s) \in i .. Len(s) BY <1>1
 <2> QED BY <2>1, ConcatAdjacentSubSeq
<1>4. SubSeq(s, 1, Len(s)) = s BY SubSeqFull
<1>5. SubSeq(s, 1, i - 1) \in Seq(A) /\ SubSeq(s, i + 1, Len(s)) \in Seq(A) BY <1>1
<1> QED BY <1>1, <1>2, <1>3, <1>4, <1>5

Modes == {"steer", "follow_up"}
Queued == [id : Prompt, mode : Modes]

\* The prompts of a queue, and of two queues in a row.
LEMMA IdsType == ASSUME NEW q \in Seq(Queued) PROVE Ids(q) \in Seq(Prompt) /\ Len(Ids(q)) = Len(q)
<1>1. DOMAIN q = 1 .. Len(q) /\ Len(q) \in Nat /\ \A i \in 1 .. Len(q) : q[i] \in Queued
  OBVIOUS
<1>2. \A i \in 1 .. Len(q) : q[i].id \in Prompt BY <1>1 DEF Queued
<1>3. Ids(q) = [i \in 1 .. Len(q) |-> q[i].id] BY <1>1 DEF Ids
<1> HIDE DEF Prompt, Queued
<1> QED BY <1>1, <1>2, <1>3

LEMMA IdsConcat ==
  ASSUME NEW q \in Seq(Queued), NEW r \in Seq(Queued)
  PROVE  Ids(q \o r) = Ids(q) \o Ids(r)
<1>1. q \o r \in Seq(Queued) OBVIOUS
<1>2. Ids(q \o r) \in Seq(Prompt) /\ Ids(q) \in Seq(Prompt) /\ Ids(r) \in Seq(Prompt)
      /\ Len(Ids(q \o r)) = Len(q \o r) /\ Len(Ids(q)) = Len(q) /\ Len(Ids(r)) = Len(r)
  BY <1>1, IdsType
<1>3. /\ Ids(q) \o Ids(r) \in Seq(Prompt) /\ Len(Ids(q) \o Ids(r)) = Len(Ids(q)) + Len(Ids(r))
      /\ Len(q \o r) = Len(q) + Len(r) /\ Len(q) \in Nat /\ Len(r) \in Nat
 <2> HIDE DEF Prompt, Queued
 <2> QED BY <1>2, ConcatProperties, LenProperties
<1>4. ASSUME NEW i \in 1 .. Len(q) + Len(r) PROVE Ids(q \o r)[i] = (Ids(q) \o Ids(r))[i]
 <2>1. Ids(q \o r)[i] = (q \o r)[i].id BY <1>3 DEF Ids
 <2>2. CASE i <= Len(q)
  <3>1. (q \o r)[i] = q[i] /\ (Ids(q) \o Ids(r))[i] = Ids(q)[i] BY <1>2, <1>3, <2>2
  <3>2. Ids(q)[i] = q[i].id BY <1>3, <2>2 DEF Ids
  <3> QED BY <2>1, <3>1, <3>2
 <2>3. CASE ~(i <= Len(q))
  <3>1. (q \o r)[i] = r[i - Len(q)] /\ (Ids(q) \o Ids(r))[i] = Ids(r)[i - Len(q)]
    BY <1>2, <1>3, <2>3
  <3>2. Ids(r)[i - Len(q)] = r[i - Len(q)].id BY <1>3, <2>3 DEF Ids
  <3> QED BY <2>1, <3>1, <3>2
 <2> QED BY <2>2, <2>3
<1> QED BY <1>2, <1>3, <1>4, SeqEqual

LEMMA ItemsFacts ==
  ASSUME NEW ids \in Seq(Prompt), NEW mode \in Modes
  PROVE  /\ Items(ids, mode) \in Seq(Queued) /\ Ids(Items(ids, mode)) = ids
         /\ \A i \in DOMAIN Items(ids, mode) : Items(ids, mode)[i].mode = mode
<1>1. Items(ids, mode) = [i \in 1 .. Len(ids) |-> [id |-> ids[i], mode |-> mode]]
      /\ \A i \in 1 .. Len(ids) : ids[i] \in Prompt
  BY DEF Items
<1>2. Items(ids, mode) \in Seq(Queued) /\ Len(Items(ids, mode)) = Len(ids)
  BY <1>1 DEF Queued
<1>3. Ids(Items(ids, mode)) \in Seq(Prompt) /\ Len(Ids(Items(ids, mode))) = Len(ids)
  BY <1>2, IdsType
<1>4. \A i \in 1 .. Len(ids) : Ids(Items(ids, mode))[i] = ids[i] BY <1>1, <1>2 DEF Ids
<1>5. ids \in Seq(Prompt) /\ Len(ids) \in Nat OBVIOUS
<1>6. Ids(Items(ids, mode)) = ids BY <1>3, <1>4, <1>5, SeqEqual
<1> QED BY <1>1, <1>2, <1>6

\* How often a prompt is queued.
QTimes(x, q) == Times(x, Ids(q))

LEMMA QTimesOfOne ==
  ASSUME NEW it \in Queued, NEW x
  PROVE  QTimes(x, <<it>>) = (IF x = it.id THEN 1 ELSE 0) /\ <<it>> \in Seq(Queued)
<1>1. Ids(<<it>>) = <<it.id>> BY DEF Ids
<1> QED BY <1>1, TimesOfOne DEF QTimes

LEMMA QTimesConcat ==
  ASSUME NEW q \in Seq(Queued), NEW r \in Seq(Queued), NEW x
  PROVE  /\ QTimes(x, q \o r) = QTimes(x, q) + QTimes(x, r)
         /\ QTimes(x, q) \in Nat /\ QTimes(x, r) \in Nat
<1>1. Ids(q) \in Seq(Prompt) /\ Ids(r) \in Seq(Prompt) /\ Ids(q \o r) = Ids(q) \o Ids(r)
  BY IdsType, IdsConcat
<1>2. Times(x, Ids(q) \o Ids(r)) = Times(x, Ids(q)) + Times(x, Ids(r)) BY <1>1, TimesConcat
<1>3. Times(x, Ids(q)) \in Nat /\ Times(x, Ids(r)) \in Nat BY <1>1, TimesType
<1> QED BY <1>1, <1>2, <1>3 DEF QTimes

\* Taking what is at a place out of the queue.
LEMMA QTimesWithout ==
  ASSUME NEW q \in Seq(Queued), NEW i \in DOMAIN q, NEW x
  PROVE  /\ RemoveAt(q, i) \in Seq(Queued) /\ q[i] \in Queued
         /\ QTimes(x, q) = QTimes(x, RemoveAt(q, i)) + (IF x = q[i].id THEN 1 ELSE 0)
<1> DEFINE a == SubSeq(q, 1, i - 1)
           c == SubSeq(q, i + 1, Len(q))
<1>1. a \in Seq(Queued) /\ c \in Seq(Queued) /\ q[i] \in Queued
      /\ q = (a \o <<q[i]>>) \o c
  BY AroundPlace
<1>2. RemoveAt(q, i) = a \o c BY DEF RemoveAt
<1> HIDE DEF a, c
<1>3. a \o <<q[i]>> \in Seq(Queued) /\ a \o c \in Seq(Queued) BY <1>1
<1>4. QTimes(x, (a \o <<q[i]>>) \o c) = QTimes(x, a \o <<q[i]>>) + QTimes(x, c)
  BY <1>1, <1>3, QTimesConcat, ZenonT(40)
<1>5. QTimes(x, a \o <<q[i]>>) = QTimes(x, a) + QTimes(x, <<q[i]>>)
  BY <1>1, QTimesOfOne, QTimesConcat
<1>6. /\ QTimes(x, a \o c) = QTimes(x, a) + QTimes(x, c)
      /\ QTimes(x, a) \in Nat /\ QTimes(x, c) \in Nat
  BY <1>1, QTimesConcat
<1>7. QTimes(x, <<q[i]>>) = (IF x = q[i].id THEN 1 ELSE 0) BY <1>1, QTimesOfOne
<1>8. QTimes(x, q) = QTimes(x, a \o <<q[i]>>) + QTimes(x, c) BY <1>1, <1>4
<1> QED BY <1>1, <1>2, <1>3, <1>5, <1>6, <1>7, <1>8

\* The first prompt of a mode, if there is one.
LEMMA FirstOfFacts ==
  ASSUME queue \in Seq(Queued), NEW mode
  PROVE  /\ FirstOf(mode) # 0 =>
              FirstOf(mode) \in DOMAIN queue /\ queue[FirstOf(mode)].mode = mode
         /\ FirstOf(mode) = 0 => \A i \in DOMAIN queue : queue[i].mode # mode
<1> DEFINE I == {i \in 1 .. Len(queue) : queue[i].mode = mode}
<1>1. FirstOf(mode) = IF I # {} THEN Min(I) ELSE 0 BY DEF FirstOf, SelectInSeq
<1>2. I \subseteq Nat \ {0} /\ DOMAIN queue = 1 .. Len(queue) OBVIOUS
<1>3. I # {} => Min(I) \in I
 <2> SUFFICES ASSUME I # {} PROVE Min(I) \in I OBVIOUS
 <2>1. I \subseteq Nat OBVIOUS
 <2> HIDE DEF I
 <2> DEFINE R == {p \in Nat \X Nat : p[1] < p[2]}
 <2>2. IsWellFoundedOn(R, Nat) BY NatLessThanWellFounded, Zenon DEF OpToRel
 <2>3. PICK m \in I : \A k \in I : ~(<<k, m>> \in R)
  <3> HIDE DEF R
  <3> QED BY <2>1, <2>2, WFMin
 <2>4. ASSUME NEW k \in I PROVE m <= k
  <3>1. k \in Nat /\ m \in Nat /\ ~(<<k, m>> \in R) BY <2>1, <2>3
  <3> QED BY <3>1
 <2> QED BY <2>3, <2>4 DEF Min
<1> QED BY <1>1, <1>2, <1>3

-----------------------------------------------------------------------------
(* Where the prompts are. *)

\* The places of a prompt in the running program.
Weight(x) == QTimes(x, queue) + Times(x, line) + Times(x, draft) + Times(x, started)
               + (IF x = pendingUser THEN 1 ELSE 0)

Texts == [queue : Seq(Prompt), draft : Seq(Prompt)]

QueueTyped ==
  /\ queue \in Seq(Queued) /\ line \in Seq(Prompt) /\ draft \in Seq(Prompt)
  /\ started \in Seq(Prompt) /\ pendingUser \in Prompt \union {NoPrompt}
  /\ session \in Session /\ saved \in [Session -> Texts]
  /\ fresh \in 1..(MaxPrompts + 1)

NoSteers(q) == \A i \in DOMAIN q : q[i].mode = "follow_up"

\* Only a turn that streams takes steering prompts, and none once the program leaves.
TurnIsInOrder ==
  /\ loop = "free" => pendingUser = NoPrompt
  /\ loop = "turn" => streaming
  /\ steering => InTurn("stream")
  /\ ~steering => NoSteers(queue)
  /\ leaving => abort \/ NoSteers(queue)

\* The copies of a session that is shown are old, but for those that an exit has just made.
CopiesAreOld ==
  /\ beside # "resume" /\ ~leaving => Kept(session) \subseteq stale
  /\ leaving => Kept(session) \ (stale \union lost) \subseteq InEditor

\* A copy has a prompt once.
CopiedOnce ==
  \A s \in Session : \A x \in Kept(s) \ (lost \union stale) :
    Times(x, saved[s].queue) + Times(x, saved[s].draft) = 1

Elsewhere(x) == {s \in Session \ {session} : x \in Kept(s)}

NotYetGiven == \A x \in Prompt : x >= fresh => Weight(x) = 0 /\ \A s \in Session : x \notin Kept(s)

\* A prompt is in one place of the running program, or in the copy of one session that was left.
Placed ==
  \A x \in Prompt : x < fresh /\ x \notin lost \union stale =>
    \/ Weight(x) = 1 /\ \A s \in Session \ {session} : x \notin Kept(s)
    \/ Weight(x) = 0 /\ \E s \in Session \ {session} : Elsewhere(x) = {s}

QueueInv == /\ QueueTyped /\ TurnIsInOrder /\ CopiesAreOld /\ CopiedOnce /\ NotYetGiven /\ Placed

\* What is counted, from the variables' values.
LEMMA CountFacts ==
  ASSUME NEW q \in Seq(Queued), NEW l \in Seq(Prompt), NEW d \in Seq(Prompt),
         NEW b \in Seq(Prompt), NEW sv \in [Session -> Texts], NEW x
  PROVE  /\ QTimes(x, q) \in Nat /\ Times(x, l) \in Nat /\ Times(x, d) \in Nat
         /\ Times(x, b) \in Nat /\ Ids(q) \in Seq(Prompt)
         /\ x \in ToSet(Ids(q)) \union ToSet(d) <=> QTimes(x, q) + Times(x, d) # 0
         /\ \A s \in Session :
              /\ sv[s] \in Texts
              /\ Times(x, sv[s].queue) \in Nat /\ Times(x, sv[s].draft) \in Nat
              /\ x \in ToSet(sv[s].queue) \union ToSet(sv[s].draft)
                   <=> Times(x, sv[s].queue) + Times(x, sv[s].draft) # 0
<1>1. Ids(q) \in Seq(Prompt) BY IdsType
<1>2. /\ QTimes(x, q) \in Nat
      /\ QTimes(x, q) = 0 <=> x \notin ToSet(Ids(q))
  BY <1>1, TimesType DEF QTimes
<1>3. /\ Times(x, l) \in Nat /\ Times(x, d) \in Nat /\ Times(x, b) \in Nat
      /\ Times(x, d) = 0 <=> x \notin ToSet(d)
  BY TimesType
<1>4. ASSUME NEW s \in Session
      PROVE  /\ sv[s] \in Texts
             /\ Times(x, sv[s].queue) \in Nat /\ Times(x, sv[s].draft) \in Nat
             /\ x \in ToSet(sv[s].queue) \union ToSet(sv[s].draft)
                  <=> Times(x, sv[s].queue) + Times(x, sv[s].draft) # 0
 <2>1. sv[s] \in Texts OBVIOUS
 <2>2. sv[s].queue \in Seq(Prompt) /\ sv[s].draft \in Seq(Prompt) BY <2>1 DEF Texts
 <2>3. /\ Times(x, sv[s].queue) \in Nat /\ Times(x, sv[s].draft) \in Nat
       /\ Times(x, sv[s].queue) = 0 <=> x \notin ToSet(sv[s].queue)
       /\ Times(x, sv[s].draft) = 0 <=> x \notin ToSet(sv[s].draft)
   BY <2>2, TimesType
 <2> QED BY <2>1, <2>3
<1>5. x \in ToSet(Ids(q)) \union ToSet(d) <=> QTimes(x, q) + Times(x, d) # 0 BY <1>2, <1>3
<1> QED BY <1>1, <1>2, <1>3, <1>4, <1>5

LEMMA WeightFacts ==
  ASSUME QueueTyped, NEW x
  PROVE  /\ QTimes(x, queue) \in Nat /\ Times(x, line) \in Nat /\ Times(x, draft) \in Nat
         /\ Times(x, started) \in Nat /\ Weight(x) \in Nat /\ Ids(queue) \in Seq(Prompt)
         /\ x \in InEditor <=> QTimes(x, queue) + Times(x, draft) # 0
         /\ QTimes(x, queue) + Times(x, draft) <= Weight(x)
         /\ \A s \in Session :
              /\ saved[s] \in Texts
              /\ Times(x, saved[s].queue) \in Nat /\ Times(x, saved[s].draft) \in Nat
              /\ x \in Kept(s) <=> Times(x, saved[s].queue) + Times(x, saved[s].draft) # 0
<1>1. /\ queue \in Seq(Queued) /\ line \in Seq(Prompt) /\ draft \in Seq(Prompt)
      /\ started \in Seq(Prompt) /\ saved \in [Session -> Texts]
  BY DEF QueueTyped
<1>2. Weight(x) = QTimes(x, queue) + Times(x, line) + Times(x, draft)
                     + Times(x, started) + (IF x = pendingUser THEN 1 ELSE 0)
  BY DEF Weight
<1>3. InEditor = ToSet(Ids(queue)) \union ToSet(draft)
      /\ \A s \in Session : Kept(s) = ToSet(saved[s].queue) \union ToSet(saved[s].draft)
  BY DEF InEditor, Kept
<1>4. /\ QTimes(x, queue) \in Nat /\ Times(x, line) \in Nat /\ Times(x, draft) \in Nat
      /\ Times(x, started) \in Nat /\ Ids(queue) \in Seq(Prompt)
      /\ x \in ToSet(Ids(queue)) \union ToSet(draft)
           <=> QTimes(x, queue) + Times(x, draft) # 0
  BY <1>1, CountFacts, ZenonT(40)
<1>5. ASSUME NEW s \in Session
      PROVE  /\ saved[s] \in Texts
             /\ Times(x, saved[s].queue) \in Nat /\ Times(x, saved[s].draft) \in Nat
             /\ x \in ToSet(saved[s].queue) \union ToSet(saved[s].draft)
                  <=> Times(x, saved[s].queue) + Times(x, saved[s].draft) # 0
  BY <1>1, CountFacts
<1>6. Weight(x) \in Nat /\ QTimes(x, queue) + Times(x, draft) <= Weight(x)
  BY <1>2, <1>4, SMTT(30)
<1> QED BY <1>3, <1>4, <1>5, <1>6

LEMMA NextWeightFacts ==
  ASSUME QueueTyped', NEW x
  PROVE  /\ QTimes(x, queue') \in Nat /\ Times(x, line') \in Nat /\ Times(x, draft') \in Nat
         /\ Times(x, started') \in Nat /\ Weight(x)' \in Nat /\ Ids(queue') \in Seq(Prompt)
         /\ x \in InEditor' <=> QTimes(x, queue') + Times(x, draft') # 0
         /\ QTimes(x, queue') + Times(x, draft') <= Weight(x)'
         /\ \A s \in Session :
              /\ saved'[s] \in Texts
              /\ Times(x, saved'[s].queue) \in Nat /\ Times(x, saved'[s].draft) \in Nat
              /\ x \in Kept(s)' <=> Times(x, saved'[s].queue) + Times(x, saved'[s].draft) # 0
<1>1. /\ queue' \in Seq(Queued) /\ line' \in Seq(Prompt) /\ draft' \in Seq(Prompt)
      /\ started' \in Seq(Prompt) /\ saved' \in [Session -> Texts]
  BY DEF QueueTyped
<1>2. Weight(x)' = QTimes(x, queue') + Times(x, line') + Times(x, draft')
                     + Times(x, started') + (IF x = pendingUser' THEN 1 ELSE 0)
  BY DEF Weight
<1>3. InEditor' = ToSet(Ids(queue')) \union ToSet(draft')
      /\ \A s \in Session : Kept(s)' = ToSet(saved'[s].queue) \union ToSet(saved'[s].draft)
  BY DEF InEditor, Kept
<1>4. /\ QTimes(x, queue') \in Nat /\ Times(x, line') \in Nat /\ Times(x, draft') \in Nat
      /\ Times(x, started') \in Nat /\ Ids(queue') \in Seq(Prompt)
      /\ x \in ToSet(Ids(queue')) \union ToSet(draft')
           <=> QTimes(x, queue') + Times(x, draft') # 0
  BY <1>1, CountFacts, ZenonT(40)
<1>5. ASSUME NEW s \in Session
      PROVE  /\ saved'[s] \in Texts
             /\ Times(x, saved'[s].queue) \in Nat /\ Times(x, saved'[s].draft) \in Nat
             /\ x \in ToSet(saved'[s].queue) \union ToSet(saved'[s].draft)
                  <=> Times(x, saved'[s].queue) + Times(x, saved'[s].draft) # 0
  BY <1>1, CountFacts
<1>6. Weight(x)' \in Nat /\ QTimes(x, queue') + Times(x, draft') <= Weight(x)'
  BY <1>2, <1>4, SMTT(30)
<1> QED BY <1>3, <1>4, <1>5, <1>6

\* A step that moves prompts about in the running program, and gives up those in lost.
Shuffles ==
  /\ QueueTyped'
  /\ UNCHANGED <<saved, session, beside, leaving, stale, fresh>>
  /\ lost \subseteq lost'
  /\ \A x \in Prompt : /\ Weight(x)' <= Weight(x)
                       /\ x \notin lost' => Weight(x)' = Weight(x)
  /\ leaving => InEditor \ lost' \subseteq InEditor'

LEMMA ShufflesKeep ==
  ASSUME QueueInv, Shuffles
  PROVE  CopiesAreOld' /\ CopiedOnce' /\ NotYetGiven' /\ Placed'
<1>1. \A s \in Session : Kept(s)' = Kept(s) BY DEF Shuffles, Kept
<1>2. CopiesAreOld'
 <2>1. Kept(session)' = Kept(session) BY DEF Shuffles, Kept
 <2> QED BY <2>1 DEF Shuffles, CopiesAreOld, QueueInv
<1>3. CopiedOnce' BY <1>1 DEF Shuffles, CopiedOnce, QueueInv
<1>4. NotYetGiven'
 <2> SUFFICES ASSUME NEW x \in Prompt, x >= fresh
              PROVE  Weight(x)' = 0 /\ \A s \in Session : x \notin Kept(s)
   BY <1>1 DEF NotYetGiven, Shuffles
 <2>1. Weight(x) = 0 /\ \A s \in Session : x \notin Kept(s) BY DEF NotYetGiven, QueueInv
 <2>2. Weight(x)' <= Weight(x) BY DEF Shuffles
 <2>3. Weight(x)' \in Nat BY NextWeightFacts DEF Shuffles
 <2> QED BY <2>1, <2>2, <2>3
<1>5. Placed'
 <2> SUFFICES ASSUME NEW x \in Prompt, x < fresh, x \notin lost' \union stale
              PROVE  \/ Weight(x)' = 1 /\ \A s \in Session \ {session} : x \notin Kept(s)
                     \/ Weight(x)' = 0 /\ \E s \in Session \ {session} : Elsewhere(x)' = {s}
   BY <1>1 DEF Placed, Shuffles
 <2>1. Elsewhere(x)' = Elsewhere(x) BY <1>1 DEF Elsewhere, Shuffles
 <2>2. Weight(x)' = Weight(x) /\ x \notin lost \union stale BY DEF Shuffles
 <2> QED BY <2>1, <2>2 DEF Placed, QueueInv
<1> QED BY <1>2, <1>3, <1>4, <1>5

-----------------------------------------------------------------------------
(* What single moves do to the counts. *)

LEMMA TimesHead ==
  ASSUME NEW A, NEW s \in Seq(A), s # <<>>, NEW x
  PROVE  /\ Head(s) \in A /\ Tail(s) \in Seq(A)
         /\ Times(x, s) = (IF x = Head(s) THEN 1 ELSE 0) + Times(x, Tail(s))
<1>1. Head(s) \in A /\ Tail(s) \in Seq(A) /\ <<Head(s)>> \in Seq(A) /\ s = <<Head(s)>> \o Tail(s)
  OBVIOUS
<1>2. Times(x, <<Head(s)>> \o Tail(s)) = Times(x, <<Head(s)>>) + Times(x, Tail(s))
  BY <1>1, TimesConcat
<1> QED BY <1>1, <1>2, TimesOfOne

LEMMA TimesAppend ==
  ASSUME NEW A, NEW s \in Seq(A), NEW e \in A, NEW x
  PROVE  /\ Append(s, e) \in Seq(A)
         /\ Times(x, Append(s, e)) = Times(x, s) + (IF x = e THEN 1 ELSE 0)
<1>1. Append(s, e) = s \o <<e>> /\ <<e>> \in Seq(A) /\ Append(s, e) \in Seq(A) OBVIOUS
<1>2. Times(x, s \o <<e>>) = Times(x, s) + Times(x, <<e>>) BY <1>1, TimesConcat
<1> QED BY <1>1, <1>2, TimesOfOne

LEMMA NoSteersWithout ==
  ASSUME NEW q \in Seq(Queued), NEW i \in DOMAIN q, NoSteers(q)
  PROVE  NoSteers(RemoveAt(q, i))
<1> DEFINE a == SubSeq(q, 1, i - 1)
           c == SubSeq(q, i + 1, Len(q))
<1>1. RemoveAt(q, i) = a \o c BY DEF RemoveAt
<1>2. /\ \A k \in 1 .. Len(a) : a[k].mode = "follow_up"
      /\ \A k \in 1 .. Len(c) : c[k].mode = "follow_up"
      /\ a \in Seq(Queued) /\ c \in Seq(Queued)
  BY DEF NoSteers
<1> HIDE DEF a, c
<1>3. ASSUME NEW k \in DOMAIN (a \o c) PROVE (a \o c)[k].mode = "follow_up"
 <2>1. /\ k \in 1 .. Len(a) + Len(c) /\ Len(a) \in Nat /\ Len(c) \in Nat
       /\ (a \o c)[k] = IF k <= Len(a) THEN a[k] ELSE c[k - Len(a)]
   BY <1>2
 <2> QED BY <1>2, <2>1
<1> QED BY <1>1, <1>3 DEF NoSteers

\* The first prompt of a mode is taken out of the queue.
LEMMA TakenFromQueue ==
  ASSUME queue \in Seq(Queued), NEW mode, FirstOf(mode) # 0, NEW x
  PROVE  /\ Without(FirstOf(mode)) \in Seq(Queued) /\ queue[FirstOf(mode)].id \in Prompt
         /\ QTimes(x, queue) = QTimes(x, Without(FirstOf(mode)))
                                 + (IF x = queue[FirstOf(mode)].id THEN 1 ELSE 0)
         /\ QTimes(x, Without(FirstOf(mode))) \in Nat
         /\ NoSteers(queue) => NoSteers(Without(FirstOf(mode)))
<1> DEFINE i == FirstOf(mode)
<1>1. i \in DOMAIN queue BY FirstOfFacts
<1> HIDE DEF i
<1>2. RemoveAt(queue, i) \in Seq(Queued) /\ queue[i] \in Queued
      /\ QTimes(x, queue) = QTimes(x, RemoveAt(queue, i)) + (IF x = queue[i].id THEN 1 ELSE 0)
  BY <1>1, QTimesWithout
<1>3. QTimes(x, RemoveAt(queue, i)) \in Nat BY <1>2, QTimesConcat
<1>4. NoSteers(queue) => NoSteers(RemoveAt(queue, i)) BY <1>1, NoSteersWithout
<1>5. queue[i].id \in Prompt BY <1>2 DEF Queued
<1> QED BY <1>2, <1>3, <1>4, <1>5 DEF i, Without

\* What the loop does next gives the prompt behind the result, or a follow-up, to a turn.
LEMMA ClaimsMoves ==
  ASSUME QueueTyped, NEW behind \in Prompt \union {NoPrompt}, Claims(behind)
  PROVE  /\ queue' \in Seq(Queued) /\ started' \in Seq(Prompt)
         /\ pendingUser' \in Prompt \union {NoPrompt}
         /\ \A x \in Prompt :
              QTimes(x, queue') + Times(x, started') + (IF x = pendingUser' THEN 1 ELSE 0)
                = QTimes(x, queue) + Times(x, started) + (IF x = behind THEN 1 ELSE 0)
         /\ NoSteers(queue) => NoSteers(queue')
         /\ loop' = "free" => pendingUser' = NoPrompt
         /\ loop' = "turn" => streaming'
         /\ loop' = "turn" => phase' # "stream"
<1>0. queue \in Seq(Queued) /\ started \in Seq(Prompt) BY DEF QueueTyped
<1>p. \A x \in Prompt : /\ x # NoPrompt /\ x # Result
                        /\ QTimes(x, queue) \in Nat /\ Times(x, started) \in Nat
  BY <1>0, WeightFacts, QueueAssumption DEF Prompt, NoPrompt, Result
<1>1. CASE claimable > 0 /\ loop' = "claiming" /\ pendingUser' = behind /\ UNCHANGED <<started, queue>>
  BY <1>0, <1>1
<1>2. CASE behind # NoPrompt /\ StartsTurn(behind) /\ pendingUser' = NoPrompt /\ UNCHANGED queue
 <2>1. behind # Result /\ behind \in Prompt BY <1>p, <1>2
 <2>2. started' = Append(started, behind) /\ loop' = "turn" /\ streaming' /\ phase' # "stream"
   BY <1>2, <2>1 DEF StartsTurn
 <2>3. started' \in Seq(Prompt)
       /\ \A x \in Prompt : Times(x, started') = Times(x, started) + (IF x = behind THEN 1 ELSE 0)
   BY <1>0, <2>1, <2>2, TimesAppend
 <2> QED BY <1>0, <1>p, <1>2, <2>2, <2>3
<1>3. CASE /\ behind = NoPrompt /\ FirstOf("follow_up") # 0
           /\ StartsTurn(queue[FirstOf("follow_up")].id)
           /\ queue' = Without(FirstOf("follow_up")) /\ pendingUser' = NoPrompt
 <2> DEFINE y == queue[FirstOf("follow_up")].id
 <2>1. /\ queue' \in Seq(Queued) /\ y \in Prompt
       /\ NoSteers(queue) => NoSteers(queue')
       /\ \A x \in Prompt : /\ QTimes(x, queue) = QTimes(x, queue') + (IF x = y THEN 1 ELSE 0)
                            /\ QTimes(x, queue') \in Nat
   BY <1>0, <1>3, TakenFromQueue
 <2> HIDE DEF y
 <2>2. started' = Append(started, y) /\ loop' = "turn" /\ streaming' /\ phase' # "stream"
   BY <1>3, <1>p, <2>1 DEF StartsTurn, y
 <2>3. started' \in Seq(Prompt)
       /\ \A x \in Prompt : Times(x, started') = Times(x, started) + (IF x = y THEN 1 ELSE 0)
   BY <1>0, <2>1, <2>2, TimesAppend
 <2>4. ASSUME NEW x \in Prompt
       PROVE  QTimes(x, queue') + Times(x, started') + (IF x = pendingUser' THEN 1 ELSE 0)
                = QTimes(x, queue) + Times(x, started) + (IF x = behind THEN 1 ELSE 0)
  <3>1. x # pendingUser' /\ x # behind BY <1>p, <1>3
  <3>2. /\ QTimes(x, queue) = QTimes(x, queue') + (IF x = y THEN 1 ELSE 0)
        /\ Times(x, started') = Times(x, started) + (IF x = y THEN 1 ELSE 0)
        /\ QTimes(x, queue') \in Nat /\ Times(x, started) \in Nat
    BY <1>p, <2>1, <2>3
  <3> QED BY <3>1, <3>2
 <2>5. pendingUser' = NoPrompt /\ pendingUser' \in Prompt \union {NoPrompt} /\ loop' # "free"
   BY <1>3, <2>2
 <2> QED BY <2>1, <2>2, <2>3, <2>4, <2>5
<1>4. CASE behind = NoPrompt /\ loop' = "free" /\ pendingUser' = NoPrompt
           /\ UNCHANGED <<started, queue>>
  BY <1>0, <1>4
<1> QED BY <1>1, <1>2, <1>3, <1>4 DEF Claims, GoesOn

-----------------------------------------------------------------------------
(* The steps that only move prompts about. *)

\* Nothing that the copies depend on changes.
Unmoved == UNCHANGED <<saved, session, beside, leaving, stale, fresh>>

LEMMA TakesLockShuffles ==
  ASSUME QueueInv, TakesLock PROVE Shuffles /\ TurnIsInOrder'
<1>1. /\ loop = "free" /\ line # <<>> /\ line' = Tail(line) /\ Unmoved
      /\ draft' = draft /\ steering' = steering /\ pendingUser = NoPrompt /\ ~steering
      /\ NoSteers(queue)
  BY DEF TakesLock, Unmoved, QueueInv, TurnIsInOrder, InTurn
<1>2. QueueTyped /\ line \in Seq(Prompt) BY DEF QueueInv, QueueTyped
<1>3. /\ Head(line) \in Prompt /\ line' \in Seq(Prompt)
      /\ \A x \in Prompt : Times(x, line) = (IF x = Head(line) THEN 1 ELSE 0) + Times(x, line')
  BY <1>1, <1>2, TimesHead
<1>4. \A x \in Prompt : x # NoPrompt BY QueueAssumption DEF Prompt, NoPrompt
<1>5. CASE ~leaving /\ Claims(Head(line)) /\ UNCHANGED lost
 <2>1. /\ queue' \in Seq(Queued) /\ started' \in Seq(Prompt)
       /\ pendingUser' \in Prompt \union {NoPrompt}
       /\ \A x \in Prompt :
            QTimes(x, queue') + Times(x, started') + (IF x = pendingUser' THEN 1 ELSE 0)
              = QTimes(x, queue) + Times(x, started) + (IF x = Head(line) THEN 1 ELSE 0)
       /\ NoSteers(queue')
       /\ loop' = "free" => pendingUser' = NoPrompt
       /\ loop' = "turn" => streaming'
   BY <1>1, <1>2, <1>3, <1>5, ClaimsMoves
 <2>2. QueueTyped' BY <1>1, <1>2, <1>3, <2>1 DEF QueueTyped, Unmoved
 <2>3. ASSUME NEW x \in Prompt PROVE Weight(x)' = Weight(x)
  <3>1. /\ QTimes(x, queue) \in Nat /\ Times(x, line) \in Nat /\ Times(x, draft) \in Nat
        /\ Times(x, started) \in Nat
    BY <1>2, WeightFacts
  <3>2. /\ QTimes(x, queue') \in Nat /\ Times(x, line') \in Nat /\ Times(x, started') \in Nat
    BY <2>2, NextWeightFacts
  <3>3. Weight(x)' = QTimes(x, queue') + Times(x, line') + Times(x, draft) + Times(x, started')
                       + (IF x = pendingUser' THEN 1 ELSE 0)
    BY <1>1 DEF Weight
  <3>4. Weight(x) = QTimes(x, queue) + Times(x, line) + Times(x, draft) + Times(x, started)
    BY <1>1, <1>4, <3>1 DEF Weight
  <3>5. QTimes(x, queue') + Times(x, started') + (IF x = pendingUser' THEN 1 ELSE 0)
          = QTimes(x, queue) + Times(x, started) + (IF x = Head(line) THEN 1 ELSE 0)
    BY <2>1
  <3>6. Times(x, line) = (IF x = Head(line) THEN 1 ELSE 0) + Times(x, line') BY <1>3
  <3> QED BY <3>1, <3>2, <3>3, <3>4, <3>5, <3>6
 <2>4. \A x \in Prompt : Weight(x) \in Nat BY <1>2, WeightFacts
 <2>5. Shuffles BY <1>1, <1>5, <2>2, <2>3, <2>4 DEF Shuffles, Unmoved
 <2>6. TurnIsInOrder' BY <1>1, <1>5, <2>1 DEF TurnIsInOrder, Unmoved
 <2> QED BY <2>5, <2>6
<1>6. CASE /\ leaving /\ lost' = lost \union {Head(line)}
           /\ UNCHANGED <<turnVars, queue, claimable>>
 <2>1. /\ queue' = queue /\ started' = started /\ pendingUser' = pendingUser /\ loop' = loop
       /\ streaming' = streaming /\ abort' = abort /\ phase' = phase
   BY <1>6 DEF turnVars
 <2>2. QueueTyped' BY <1>1, <1>2, <1>3, <2>1 DEF QueueTyped, Unmoved
 <2>3. ASSUME NEW x \in Prompt
       PROVE  /\ Weight(x)' <= Weight(x) /\ (x # Head(line) => Weight(x)' = Weight(x))
  <3>1. /\ QTimes(x, queue) \in Nat /\ Times(x, line) \in Nat /\ Times(x, draft) \in Nat
        /\ Times(x, started) \in Nat
    BY <1>2, WeightFacts
  <3>2. Times(x, line') \in Nat BY <2>2, NextWeightFacts
  <3>3. Weight(x)' = QTimes(x, queue) + Times(x, line') + Times(x, draft) + Times(x, started)
                       + (IF x = pendingUser THEN 1 ELSE 0)
    BY <1>1, <2>1 DEF Weight
  <3> QED BY <1>3, <3>1, <3>2, <3>3, SMTT(30) DEF Weight
 <2>4. Shuffles
  <3>1. InEditor' = InEditor BY <1>1, <2>1 DEF InEditor
  <3> QED BY <1>1, <1>6, <2>2, <2>3, <3>1 DEF Shuffles, Unmoved
 <2>5. TurnIsInOrder' BY <1>1, <2>1 DEF TurnIsInOrder, Unmoved
 <2> QED BY <2>4, <2>5
<1> QED BY <1>5, <1>6 DEF TakesLock

LEMMA TurnOverShuffles ==
  ASSUME QueueInv, TurnOver PROVE Shuffles /\ TurnIsInOrder'
<1>1. /\ InTurn("over") /\ line' = line /\ draft' = draft /\ Unmoved /\ steering' = FALSE
      /\ ~steering /\ NoSteers(queue)
  BY DEF TurnOver, Unmoved, QueueInv, TurnIsInOrder, InTurn
<1>2. QueueTyped /\ pendingUser \in Prompt \union {NoPrompt} BY DEF QueueInv, QueueTyped
<1>3. CASE ~leaving /\ Claims(pendingUser) /\ UNCHANGED lost
 <2>1. /\ queue' \in Seq(Queued) /\ started' \in Seq(Prompt)
       /\ pendingUser' \in Prompt \union {NoPrompt}
       /\ \A x \in Prompt :
            QTimes(x, queue') + Times(x, started') + (IF x = pendingUser' THEN 1 ELSE 0)
              = QTimes(x, queue) + Times(x, started) + (IF x = pendingUser THEN 1 ELSE 0)
       /\ NoSteers(queue')
       /\ loop' = "free" => pendingUser' = NoPrompt
       /\ loop' = "turn" => streaming'
   BY <1>1, <1>2, <1>3, ClaimsMoves
 <2>2. QueueTyped' BY <1>1, <1>2, <2>1 DEF QueueTyped, Unmoved
 <2>3. ASSUME NEW x \in Prompt PROVE Weight(x)' = Weight(x)
  <3>1. /\ QTimes(x, queue) \in Nat /\ Times(x, line) \in Nat /\ Times(x, draft) \in Nat
        /\ Times(x, started) \in Nat
    BY <1>2, WeightFacts
  <3>2. /\ QTimes(x, queue') \in Nat /\ Times(x, started') \in Nat BY <2>2, NextWeightFacts
  <3>3. Weight(x)' = QTimes(x, queue') + Times(x, line) + Times(x, draft) + Times(x, started')
                       + (IF x = pendingUser' THEN 1 ELSE 0)
    BY <1>1 DEF Weight
  <3>4. QTimes(x, queue') + Times(x, started') + (IF x = pendingUser' THEN 1 ELSE 0)
          = QTimes(x, queue) + Times(x, started) + (IF x = pendingUser THEN 1 ELSE 0)
    BY <2>1
  <3>5. Weight(x) = QTimes(x, queue) + Times(x, line) + Times(x, draft) + Times(x, started)
                      + (IF x = pendingUser THEN 1 ELSE 0)
    BY DEF Weight
  <3> QED BY <3>1, <3>2, <3>3, <3>4, <3>5
 <2>4. \A x \in Prompt : Weight(x) \in Nat BY <1>2, WeightFacts
 <2>5. Shuffles BY <1>1, <1>3, <2>2, <2>3, <2>4 DEF Shuffles, Unmoved
 <2>6. TurnIsInOrder' BY <1>1, <1>3, <2>1 DEF TurnIsInOrder, Unmoved
 <2> QED BY <2>5, <2>6
<1>4. CASE /\ leaving
           /\ loop' = "free" /\ current' = NoPrompt /\ phase' = "none" /\ abort' = FALSE
           /\ streaming' = FALSE /\ pendingUser' = NoPrompt
           /\ lost' = lost \union ({pendingUser} \ {NoPrompt})
           /\ UNCHANGED <<started, queue, claimable>>
 <2>1. QueueTyped' BY <1>1, <1>2, <1>4 DEF QueueTyped, Unmoved
 <2>2. ASSUME NEW x \in Prompt
       PROVE  /\ Weight(x)' <= Weight(x) /\ (x # pendingUser => Weight(x)' = Weight(x))
  <3>0. x # NoPrompt BY QueueAssumption DEF Prompt, NoPrompt
  <3>1. /\ QTimes(x, queue) \in Nat /\ Times(x, line) \in Nat /\ Times(x, draft) \in Nat
        /\ Times(x, started) \in Nat
    BY <1>2, WeightFacts
  <3>2. Weight(x)' = QTimes(x, queue) + Times(x, line) + Times(x, draft) + Times(x, started)
    BY <1>1, <1>4, <3>0, <3>1 DEF Weight
  <3> QED BY <3>1, <3>2 DEF Weight
 <2>3. Shuffles
  <3>0. \A x \in Prompt : x # NoPrompt BY QueueAssumption DEF Prompt, NoPrompt
  <3>1. InEditor' = InEditor BY <1>1, <1>4 DEF InEditor
  <3> QED BY <1>1, <1>4, <2>1, <2>2, <3>0, <3>1 DEF Shuffles, Unmoved
 <2>4. TurnIsInOrder' BY <1>1, <1>4 DEF TurnIsInOrder, Unmoved
 <2> QED BY <2>3, <2>4
<1> QED BY <1>3, <1>4 DEF TurnOver

\* Between two steps that only the turn sees.
LEMMA StillShuffles ==
  ASSUME QueueInv, ClaimReturns \/ TurnOpensSteering \/ TurnCloses \/ ResultArrives
  PROVE  Shuffles /\ TurnIsInOrder'
<1>1. /\ UNCHANGED <<queue, line, draft, started, pendingUser, lost>> /\ Unmoved
  BY DEF ClaimReturns, TurnOpensSteering, TurnCloses, ResultArrives, StartsTurn, Unmoved, Rest
<1>2. QueueTyped' BY <1>1 DEF QueueInv, QueueTyped, Unmoved
<1>3. \A x \in Prompt : Weight(x)' = Weight(x) /\ Weight(x) \in Nat
  BY <1>1, WeightFacts DEF Weight, QueueInv
<1>4. InEditor' = InEditor BY <1>1 DEF InEditor
<1>5. Shuffles BY <1>1, <1>2, <1>3, <1>4 DEF Shuffles, Unmoved
<1>6. TurnIsInOrder'
 <2>1. /\ loop = "free" => pendingUser = NoPrompt
       /\ loop = "turn" => streaming
       /\ steering => InTurn("stream")
       /\ ~steering => NoSteers(queue)
       /\ leaving => abort \/ NoSteers(queue)
   BY DEF QueueInv, TurnIsInOrder
 <2>2. CASE ClaimReturns
   BY <1>1, <2>1, <2>2 DEF ClaimReturns, StartsTurn, TurnIsInOrder, InTurn, Unmoved
 <2>3. CASE TurnOpensSteering
   BY <1>1, <2>1, <2>3 DEF TurnOpensSteering, TurnIsInOrder, InTurn, Unmoved, Rest
 <2>4. CASE TurnCloses
   BY <1>1, <2>1, <2>4 DEF TurnCloses, TurnIsInOrder, InTurn, Unmoved, Rest
 <2>5. CASE ResultArrives
   BY <1>1, <2>1, <2>5 DEF ResultArrives, TurnIsInOrder, InTurn, Unmoved
 <2> QED BY <2>2, <2>3, <2>4, <2>5
<1> QED BY <1>5, <1>6

\* A turn takes a steering prompt, or its stream ends.
LEMMA StreamShuffles ==
  ASSUME QueueInv, ToolBoundary \/ StreamEnds PROVE Shuffles /\ TurnIsInOrder'
<1>1. /\ InTurn("stream") /\ ~abort /\ UNCHANGED <<line, draft, pendingUser, lost, loop, streaming, abort>>
      /\ Unmoved
  BY DEF ToolBoundary, StreamEnds, Unmoved, Rest
<1>2. QueueTyped /\ queue \in Seq(Queued) /\ started \in Seq(Prompt)
  BY DEF QueueInv, QueueTyped
<1>3. /\ loop # "free" /\ streaming
      /\ ~steering => NoSteers(queue)
      /\ leaving => NoSteers(queue)
  BY <1>1 DEF QueueInv, TurnIsInOrder, InTurn
<1>4. CASE /\ FirstOf("steer") # 0
           /\ started' = Append(started, queue[FirstOf("steer")].id)
           /\ queue' = Without(FirstOf("steer"))
           /\ UNCHANGED <<steering, phase>>
 <2> DEFINE y == queue[FirstOf("steer")].id
 <2>1. FirstOf("steer") \in DOMAIN queue /\ queue[FirstOf("steer")].mode = "steer"
   BY <1>2, <1>4, FirstOfFacts
 <2>2. ~NoSteers(queue) /\ ~leaving BY <1>3, <2>1 DEF NoSteers
 <2>3. /\ queue' \in Seq(Queued) /\ y \in Prompt
       /\ \A x \in Prompt : /\ QTimes(x, queue) = QTimes(x, queue') + (IF x = y THEN 1 ELSE 0)
                            /\ QTimes(x, queue') \in Nat
   BY <1>2, <1>4, TakenFromQueue
 <2>4. started' = Append(started, y) BY <1>4
 <2> HIDE DEF y
 <2>5. started' \in Seq(Prompt)
       /\ \A x \in Prompt : Times(x, started') = Times(x, started) + (IF x = y THEN 1 ELSE 0)
   BY <1>2, <2>3, <2>4, TimesAppend
 <2>6. QueueTyped' BY <1>1, <1>2, <2>3, <2>5 DEF QueueTyped, Unmoved
 <2>7. ASSUME NEW x \in Prompt PROVE Weight(x)' = Weight(x)
  <3>1. /\ QTimes(x, queue) \in Nat /\ Times(x, line) \in Nat /\ Times(x, draft) \in Nat
        /\ Times(x, started) \in Nat /\ QTimes(x, queue') \in Nat
    BY <1>2, <2>3, WeightFacts
  <3>2. /\ QTimes(x, queue) = QTimes(x, queue') + (IF x = y THEN 1 ELSE 0)
        /\ Times(x, started') = Times(x, started) + (IF x = y THEN 1 ELSE 0)
    BY <2>3, <2>5
  <3>3. Weight(x)' = QTimes(x, queue') + Times(x, line) + Times(x, draft) + Times(x, started')
                       + (IF x = pendingUser THEN 1 ELSE 0)
    BY <1>1 DEF Weight
  <3>4. Weight(x) = QTimes(x, queue) + Times(x, line) + Times(x, draft) + Times(x, started)
                      + (IF x = pendingUser THEN 1 ELSE 0)
    BY DEF Weight
  <3> QED BY <3>1, <3>2, <3>3, <3>4
 <2>8. \A x \in Prompt : Weight(x) \in Nat BY <1>2, WeightFacts
 <2>9. Shuffles BY <1>1, <2>2, <2>6, <2>7, <2>8 DEF Shuffles, Unmoved
 <2>10. TurnIsInOrder' BY <1>1, <1>3, <1>4, <2>2 DEF TurnIsInOrder, Unmoved, InTurn
 <2> QED BY <2>9, <2>10
<1>5. CASE FirstOf("steer") = 0 /\ CloseSteering(FALSE) /\ phase' = "closing" /\ UNCHANGED started
 <2>1. queue' = queue /\ steering' = FALSE BY <1>5 DEF CloseSteering
 <2>2. QueueTyped' BY <1>1, <1>2, <1>5, <2>1 DEF QueueTyped, Unmoved
 <2>3. \A x \in Prompt : Weight(x)' = Weight(x) /\ Weight(x) \in Nat
   BY <1>1, <1>2, <1>5, <2>1, WeightFacts DEF Weight
 <2>4. InEditor' = InEditor BY <1>1, <2>1 DEF InEditor
 <2>5. NoSteers(queue)
  <3>1. \A i \in DOMAIN queue : queue[i].mode # "steer" BY <1>2, <1>5, FirstOfFacts
  <3>2. \A i \in DOMAIN queue : queue[i] \in Queued BY <1>2
  <3>3. \A i \in DOMAIN queue : queue[i].mode \in Modes BY <3>2 DEF Queued
  <3> QED BY <3>1, <3>3 DEF NoSteers, Modes
 <2>6. Shuffles BY <1>1, <2>2, <2>3, <2>4 DEF Shuffles, Unmoved
 <2>7. TurnIsInOrder' BY <1>1, <1>3, <2>1, <2>5 DEF TurnIsInOrder, Unmoved
 <2> QED BY <2>6, <2>7
<1> QED BY <1>4, <1>5 DEF ToolBoundary, StreamEnds

\* A turn that breaks makes follow-ups of what waits for it.
LEMMA BreakShuffles ==
  ASSUME QueueInv, TurnBreaks PROVE Shuffles /\ TurnIsInOrder'
<1>1. /\ loop = "turn" /\ UNCHANGED <<line, draft, started, pendingUser, lost, loop, streaming>>
      /\ Unmoved /\ phase \in {"opening", "stream"}
  BY DEF TurnBreaks, Unmoved, Rest
<1>2. QueueTyped /\ queue \in Seq(Queued) /\ streaming
  BY <1>1 DEF QueueInv, QueueTyped, TurnIsInOrder
<1>3. /\ queue' \in Seq(Queued) /\ Ids(queue') = Ids(queue) /\ NoSteers(queue') /\ ~steering'
 <2>1. CASE phase = "stream"
  <3>1. queue' = Items(Ids(queue), "follow_up") /\ ~steering'
    BY <2>1 DEF TurnBreaks, CloseSteering
  <3>2. Ids(queue) \in Seq(Prompt) /\ "follow_up" \in Modes BY <1>2, IdsType DEF Modes
  <3> QED BY <3>1, <3>2, ItemsFacts DEF NoSteers
 <2>2. CASE phase # "stream"
  <3>1. queue' = queue /\ steering' = steering /\ ~steering
    BY <2>2 DEF TurnBreaks, QueueInv, TurnIsInOrder, InTurn
  <3> QED BY <1>2, <3>1 DEF QueueInv, TurnIsInOrder
 <2> QED BY <2>1, <2>2
<1>4. QueueTyped' BY <1>1, <1>2, <1>3 DEF QueueTyped, Unmoved
<1>5. \A x \in Prompt : Weight(x)' = Weight(x) /\ Weight(x) \in Nat
  BY <1>1, <1>2, <1>3, WeightFacts DEF Weight, QTimes
<1>6. InEditor' = InEditor BY <1>1, <1>3 DEF InEditor
<1>7. Shuffles BY <1>1, <1>4, <1>5, <1>6 DEF Shuffles, Unmoved
<1>8. TurnIsInOrder' BY <1>1, <1>2, <1>3 DEF TurnIsInOrder, Unmoved
<1> QED BY <1>7, <1>8

\* The keys that bring prompts back into the editor, and the one that discards them.
LEMMA EscapeShuffles ==
  ASSUME QueueInv, Escape PROVE Shuffles /\ TurnIsInOrder'
<1>1. /\ UNCHANGED <<line, started, pendingUser, lost, loop, streaming, phase, steering>>
      /\ Unmoved /\ ~leaving /\ queue' = <<>> /\ draft' = Ids(queue) \o draft
  BY DEF Escape, Unmoved
<1>2. QueueTyped /\ queue \in Seq(Queued) /\ draft \in Seq(Prompt) /\ Ids(queue) \in Seq(Prompt)
  BY IdsType DEF QueueInv, QueueTyped
<1>3. queue' \in Seq(Queued) /\ draft' \in Seq(Prompt) /\ NoSteers(queue')
  BY <1>1, <1>2 DEF NoSteers
<1>4. QueueTyped' BY <1>1, <1>2, <1>3 DEF QueueTyped, Unmoved
<1>5. ASSUME NEW x \in Prompt PROVE Weight(x)' = Weight(x) /\ Weight(x) \in Nat
 <2>1. Times(x, draft') = QTimes(x, queue) + Times(x, draft)
   BY <1>1, <1>2, TimesConcat DEF QTimes
 <2>2. QTimes(x, queue') = 0
  <3>1. Ids(<<>>) = <<>> BY DEF Ids
  <3> QED BY <1>1, <3>1, TimesOfOne DEF QTimes
 <2>3. /\ QTimes(x, queue) \in Nat /\ Times(x, line) \in Nat /\ Times(x, draft) \in Nat
       /\ Times(x, started) \in Nat /\ Weight(x) \in Nat
   BY <1>2, WeightFacts
 <2>4. Weight(x)' = QTimes(x, queue') + Times(x, line) + Times(x, draft') + Times(x, started)
                      + (IF x = pendingUser THEN 1 ELSE 0)
   BY <1>1 DEF Weight
 <2>5. Weight(x) = QTimes(x, queue) + Times(x, line) + Times(x, draft) + Times(x, started)
                     + (IF x = pendingUser THEN 1 ELSE 0)
   BY DEF Weight
 <2> QED BY <2>1, <2>2, <2>3, <2>4, <2>5
<1>6. Shuffles BY <1>1, <1>4, <1>5 DEF Shuffles, Unmoved
<1>7. TurnIsInOrder' BY <1>1, <1>3 DEF QueueInv, TurnIsInOrder, Unmoved, InTurn
<1> QED BY <1>6, <1>7

LEMMA DequeueShuffles ==
  ASSUME QueueInv, Dequeue PROVE Shuffles /\ TurnIsInOrder'
<1>1. /\ UNCHANGED <<line, started, pendingUser, lost, loop, streaming, phase, steering>>
      /\ Unmoved /\ ~leaving /\ queue # <<>> /\ queue' = Front(queue)
      /\ draft' = <<Last(queue).id>> \o draft
  BY DEF Dequeue, Unmoved, Untouched
<1>2. QueueTyped /\ queue \in Seq(Queued) /\ draft \in Seq(Prompt)
  BY DEF QueueInv, QueueTyped
<1>3. /\ Front(queue) \in Seq(Queued) /\ Last(queue) \in Queued
      /\ queue = Front(queue) \o <<Last(queue)>>
      /\ NoSteers(queue) => NoSteers(Front(queue))
 <2>1. /\ Len(queue) \in Nat /\ Len(queue) # 0 /\ queue = Append(Front(queue), Last(queue))
       /\ Front(queue) \in Seq(Queued) /\ Last(queue) \in Queued
   BY <1>1, <1>2 DEF Front, Last
 <2>2. NoSteers(queue) => NoSteers(Front(queue)) BY <1>1, <1>2 DEF NoSteers, Front
 <2> QED BY <2>1, <2>2
<1>4. Last(queue).id \in Prompt /\ <<Last(queue).id>> \in Seq(Prompt) BY <1>3 DEF Queued
<1>5. QueueTyped' BY <1>1, <1>2, <1>3, <1>4 DEF QueueTyped, Unmoved
<1>6. ASSUME NEW x \in Prompt PROVE Weight(x)' = Weight(x) /\ Weight(x) \in Nat
 <2> DEFINE y == Last(queue).id
 <2>1. Times(x, draft') = (IF x = y THEN 1 ELSE 0) + Times(x, draft)
  <3>1. Times(x, <<y>> \o draft) = Times(x, <<y>>) + Times(x, draft)
    BY <1>2, <1>4, TimesConcat
  <3> QED BY <1>1, <3>1, TimesOfOne
 <2>2. QTimes(x, queue) = QTimes(x, queue') + (IF x = y THEN 1 ELSE 0) /\ QTimes(x, queue') \in Nat
  <3>1. <<Last(queue)>> \in Seq(Queued) /\ QTimes(x, <<Last(queue)>>) = IF x = y THEN 1 ELSE 0
    BY <1>3, QTimesOfOne
  <3>2. QTimes(x, Front(queue) \o <<Last(queue)>>)
          = QTimes(x, Front(queue)) + QTimes(x, <<Last(queue)>>)
        /\ QTimes(x, Front(queue)) \in Nat
    BY <1>3, <3>1, QTimesConcat
  <3> QED BY <1>1, <1>3, <3>1, <3>2
 <2> HIDE DEF y
 <2>3. /\ QTimes(x, queue) \in Nat /\ Times(x, line) \in Nat /\ Times(x, draft) \in Nat
       /\ Times(x, started) \in Nat /\ Weight(x) \in Nat
   BY <1>2, WeightFacts
 <2>4. Weight(x)' = QTimes(x, queue') + Times(x, line) + Times(x, draft') + Times(x, started)
                      + (IF x = pendingUser THEN 1 ELSE 0)
   BY <1>1 DEF Weight
 <2>5. Weight(x) = QTimes(x, queue) + Times(x, line) + Times(x, draft) + Times(x, started)
                     + (IF x = pendingUser THEN 1 ELSE 0)
   BY DEF Weight
 <2> QED BY <2>1, <2>2, <2>3, <2>4, <2>5
<1>7. Shuffles BY <1>1, <1>5, <1>6 DEF Shuffles, Unmoved
<1>8. TurnIsInOrder' BY <1>1, <1>3 DEF QueueInv, TurnIsInOrder, Unmoved, InTurn
<1> QED BY <1>7, <1>8

LEMMA InterruptShuffles ==
  ASSUME QueueInv, Interrupt PROVE Shuffles /\ TurnIsInOrder'
<1>1. /\ UNCHANGED <<queue, line, started, pendingUser, loop, streaming, phase, steering>>
      /\ Unmoved /\ ~leaving
  BY DEF Interrupt, Unmoved
<1>2. QueueTyped /\ draft \in Seq(Prompt) BY DEF QueueInv, QueueTyped
<1>3. TurnIsInOrder' BY <1>1 DEF QueueInv, TurnIsInOrder, Unmoved, InTurn
<1>4. CASE draft # <<>> /\ draft' = <<>> /\ lost' = lost \union ToSet(draft)
 <2>1. QueueTyped' BY <1>1, <1>2, <1>4 DEF QueueTyped, Unmoved
 <2>2. ASSUME NEW x \in Prompt
       PROVE  /\ Weight(x)' <= Weight(x) /\ (x \notin ToSet(draft) => Weight(x)' = Weight(x))
  <3>1. /\ QTimes(x, queue) \in Nat /\ Times(x, line) \in Nat /\ Times(x, draft) \in Nat
        /\ Times(x, started) \in Nat
        /\ Times(x, draft) = 0 <=> x \notin ToSet(draft)
    BY <1>2, WeightFacts, TimesType
  <3>2. Weight(x)' = QTimes(x, queue) + Times(x, line) + Times(x, draft') + Times(x, started)
                       + (IF x = pendingUser THEN 1 ELSE 0)
    BY <1>1 DEF Weight
  <3>3. Times(x, draft') = 0 BY <1>4, TimesOfOne
  <3>4. Weight(x) = QTimes(x, queue) + Times(x, line) + Times(x, draft) + Times(x, started)
                      + (IF x = pendingUser THEN 1 ELSE 0)
    BY DEF Weight
  <3> QED BY <3>1, <3>2, <3>3, <3>4
 <2> QED BY <1>1, <1>3, <1>4, <2>1, <2>2 DEF Shuffles, Unmoved
<1>5. CASE UNCHANGED <<draft, lost>>
 <2>1. QueueTyped' BY <1>1, <1>2, <1>5 DEF QueueTyped, Unmoved
 <2>2. \A x \in Prompt : Weight(x)' = Weight(x) /\ Weight(x) \in Nat
   BY <1>1, <1>2, <1>5, WeightFacts DEF Weight
 <2> QED BY <1>1, <1>3, <1>5, <2>1, <2>2 DEF Shuffles, Unmoved
<1> QED BY <1>4, <1>5 DEF Interrupt

-----------------------------------------------------------------------------
(* Prompts that are given, and the copy that a resume makes. *)

LEMMA NoSteersConcat ==
  ASSUME NEW q \in Seq(Queued), NEW r \in Seq(Queued), NoSteers(q), NoSteers(r)
  PROVE  NoSteers(q \o r)
<1>1. ASSUME NEW k \in DOMAIN (q \o r) PROVE (q \o r)[k].mode = "follow_up"
 <2>1. /\ k \in 1 .. Len(q) + Len(r) /\ Len(q) \in Nat /\ Len(r) \in Nat
       /\ (q \o r)[k] = IF k <= Len(q) THEN q[k] ELSE r[k - Len(q)]
   OBVIOUS
 <2> QED BY <2>1 DEF NoSteers
<1> QED BY <1>1 DEF NoSteers

\* New prompts may be given, and what is in the editor may be copied.
Given(x) == IF x >= fresh /\ x < fresh' THEN 1 ELSE 0

Copying ==
  /\ QueueTyped' /\ UNCHANGED <<session, leaving, stale, lost>> /\ fresh <= fresh'
  /\ \A x \in Prompt : Weight(x)' = Weight(x) + Given(x)
  /\ \/ /\ saved' = saved /\ (beside' # "resume" => beside # "resume")
        /\ leaving => InEditor \subseteq InEditor'
     \/ /\ saved' = [saved EXCEPT ![session] = [queue |-> Ids(queue'), draft |-> draft']]
        /\ beside' = "resume"

LEMMA CopyingKeeps ==
  ASSUME QueueInv, Copying
  PROVE  CopiesAreOld' /\ CopiedOnce' /\ NotYetGiven' /\ Placed'
<1>0. /\ QueueTyped /\ session \in Session /\ fresh \in Nat /\ fresh' \in Nat
      /\ saved \in [Session -> Texts] /\ \A x \in Prompt : x \in Nat
  BY QueueAssumption DEF QueueInv, QueueTyped, Copying, Prompt
<1>1. \A s \in Session \ {session} : saved'[s] = saved[s] /\ Kept(s)' = Kept(s)
 <2>1. \A s \in Session \ {session} : saved'[s] = saved[s] BY <1>0 DEF Copying
 <2> QED BY <2>1 DEF Kept
<1>2. Kept(session)' = Kept(session) \/ Kept(session)' = InEditor'
 <2>1. CASE saved' = saved BY <2>1 DEF Kept, Copying
 <2>2. CASE saved' = [saved EXCEPT ![session] = [queue |-> Ids(queue'), draft |-> draft']]
  <3>1. saved'[session'] = [queue |-> Ids(queue'), draft |-> draft']
    BY <1>0, <2>2 DEF Copying
  <3> QED BY <3>1 DEF Kept, InEditor
 <2> QED BY <2>1, <2>2 DEF Copying
<1>3. CopiesAreOld'
 <2>1. CASE /\ saved' = saved /\ (beside' # "resume" => beside # "resume")
            /\ leaving => InEditor \subseteq InEditor'
  <3>1. Kept(session)' = Kept(session) BY <2>1 DEF Kept, Copying
  <3> QED BY <2>1, <3>1 DEF Copying, CopiesAreOld, QueueInv
 <2>2. CASE saved' = [saved EXCEPT ![session] = [queue |-> Ids(queue'), draft |-> draft']]
            /\ beside' = "resume"
  <3>1. saved'[session'] = [queue |-> Ids(queue'), draft |-> draft']
    BY <1>0, <2>2 DEF Copying
  <3>2. Kept(session)' = InEditor' BY <3>1 DEF Kept, InEditor
  <3> QED BY <2>2, <3>2 DEF CopiesAreOld
 <2> QED BY <2>1, <2>2 DEF Copying
<1>4. ASSUME NEW x \in Prompt PROVE Elsewhere(x)' = Elsewhere(x)
  BY <1>1 DEF Elsewhere, Copying
<1>5. Placed'
 <2> SUFFICES ASSUME NEW x \in Prompt, x < fresh', x \notin lost \union stale
              PROVE  \/ Weight(x)' = 1 /\ \A s \in Session \ {session} : x \notin Kept(s)
                     \/ Weight(x)' = 0 /\ \E s \in Session \ {session} : Elsewhere(x)' = {s}
   BY <1>1 DEF Placed, Copying
 <2>1. Weight(x)' = Weight(x) + Given(x) /\ Elsewhere(x)' = Elsewhere(x) /\ Weight(x) \in Nat
   BY <1>0, <1>4, WeightFacts DEF Copying
 <2>2. CASE x < fresh
  <3>1. Weight(x)' = Weight(x) BY <1>0, <2>1, <2>2 DEF Given
  <3> QED BY <2>1, <2>2, <3>1 DEF Placed, QueueInv
 <2>3. CASE ~(x < fresh)
  <3>1. Given(x) = 1 /\ Weight(x) = 0 /\ \A s \in Session : x \notin Kept(s)
    BY <1>0, <2>3 DEF Given, NotYetGiven, QueueInv
  <3> QED BY <2>1, <3>1
 <2> QED BY <2>2, <2>3
<1>6. NotYetGiven'
 <2> SUFFICES ASSUME NEW x \in Prompt, x >= fresh'
              PROVE  Weight(x)' = 0 /\ \A s \in Session : x \notin Kept(s)'
   BY DEF NotYetGiven
 <2>1. Weight(x) = 0 /\ \A s \in Session : x \notin Kept(s)
   BY <1>0 DEF NotYetGiven, QueueInv, Copying
 <2>2. Weight(x)' = 0 BY <1>0, <2>1 DEF Given, Copying
 <2>3. x \notin InEditor'
  <3>1. /\ QTimes(x, queue') \in Nat /\ Times(x, line') \in Nat /\ Times(x, draft') \in Nat
        /\ Times(x, started') \in Nat
        /\ x \in InEditor' => QTimes(x, queue') + Times(x, draft') # 0
        /\ QTimes(x, queue') + Times(x, draft') <= Weight(x)'
    BY NextWeightFacts DEF Copying
  <3> QED BY <2>2, <3>1
 <2>4. \A s \in Session : x \notin Kept(s)'
  <3>1. x \notin Kept(session) BY <1>0, <2>1
  <3>2. x \notin Kept(session)' BY <1>2, <2>3, <3>1
  <3>3. ASSUME NEW s \in Session, s = session PROVE Kept(s)' = Kept(session)'
    BY <3>3 DEF Kept, Copying
  <3>4. \A s \in Session \ {session} : x \notin Kept(s)' BY <1>1, <2>1
  <3> QED BY <3>2, <3>3, <3>4
 <2> QED BY <2>2, <2>4
<1>7. CopiedOnce'
 <2> SUFFICES ASSUME NEW s \in Session, NEW x \in Kept(s)', x \notin lost \union stale
              PROVE  Times(x, saved'[s].queue) + Times(x, saved'[s].draft) = 1
   BY DEF CopiedOnce, Copying
 <2>1. CASE saved'[s] = saved[s]
  <3>1. x \in Kept(s) BY <2>1 DEF Kept
  <3> QED BY <2>1, <3>1 DEF CopiedOnce, QueueInv
 <2>2. CASE s = session
            /\ saved' = [saved EXCEPT ![session] = [queue |-> Ids(queue'), draft |-> draft']]
  <3>1. saved'[s] = [queue |-> Ids(queue'), draft |-> draft'] BY <1>0, <2>2
  <3>2. x \in InEditor' BY <3>1 DEF Kept, InEditor
  <3>3. x \in Prompt
   <4>1. Ids(queue') \in Seq(Prompt) /\ draft' \in Seq(Prompt)
     BY NextWeightFacts DEF Copying, QueueTyped
   <4> QED BY <3>2, <4>1 DEF InEditor, ToSet
  <3>4. x < fresh'
   <4>1. ~(x >= fresh')
    <5>1. x \notin Kept(s)' => ~(x \in Kept(s)') OBVIOUS
    <5> QED BY <1>6, <3>3 DEF NotYetGiven
   <4> QED BY <1>0, <3>3, <4>1
  <3>5. /\ QTimes(x, queue') \in Nat /\ Times(x, line') \in Nat /\ Times(x, draft') \in Nat
        /\ Times(x, started') \in Nat
        /\ x \in InEditor' => QTimes(x, queue') + Times(x, draft') # 0
    BY NextWeightFacts DEF Copying
  <3>6. Weight(x)' = QTimes(x, queue') + Times(x, line') + Times(x, draft') + Times(x, started')
                       + (IF x = pendingUser' THEN 1 ELSE 0)
    BY DEF Weight
  <3>7. Weight(x)' = 1 \/ Weight(x)' = 0 BY <1>5, <3>3, <3>4 DEF Placed, Copying
  <3>8. QTimes(x, queue') + Times(x, draft') = 1 BY <3>2, <3>5, <3>6, <3>7
  <3> QED BY <3>1, <3>8 DEF QTimes
 <2> QED BY <1>1, <2>1, <2>2 DEF Copying
<1> QED BY <1>3, <1>5, <1>6, <1>7

\* A command of the loop.
LEMMA CommandCopies ==
  ASSUME QueueInv, CommandRuns PROVE Copying /\ TurnIsInOrder'
<1>1. /\ UNCHANGED <<queue, line, draft, started, pendingUser, loop, streaming, steering, lost,
                     stale, session, leaving, fresh>>
      /\ InTurn("switch") /\ beside = "none"
  BY DEF CommandRuns
<1>2. QueueTyped /\ saved \in [Session -> Texts] /\ session \in Session
  BY DEF QueueInv, QueueTyped
<1>3. Ids(queue) \in Seq(Prompt) /\ draft \in Seq(Prompt)
  BY <1>2, WeightFacts DEF QueueTyped
<1>4. \/ saved' = saved /\ (beside' # "resume" => beside # "resume")
      \/ /\ saved' = [saved EXCEPT ![session] = [queue |-> Ids(queue'), draft |-> draft']]
         /\ beside' = "resume"
  BY <1>1 DEF CommandRuns, SwitchBegins, Dump
<1>5. QueueTyped'
 <2>1. saved' \in [Session -> Texts]
  <3>1. [queue |-> Ids(queue'), draft |-> draft'] \in Texts BY <1>1, <1>3 DEF Texts
  <3> QED BY <1>2, <1>4, <3>1
 <2> QED BY <1>1, <1>2, <2>1 DEF QueueTyped
<1>6. \A x \in Prompt : Weight(x)' = Weight(x) + Given(x)
 <2> SUFFICES ASSUME NEW x \in Prompt PROVE Weight(x)' = Weight(x) + Given(x) OBVIOUS
 <2>1. Weight(x)' = Weight(x) /\ Weight(x) \in Nat BY <1>1, <1>2, WeightFacts DEF Weight
 <2>2. Given(x) = 0 BY <1>1, <1>2, QueueAssumption DEF Given, QueueTyped, Prompt
 <2> QED BY <2>1, <2>2
<1>7. InEditor' = InEditor BY <1>1 DEF InEditor
<1>8. Copying BY <1>1, <1>2, <1>4, <1>5, <1>6, <1>7, QueueAssumption DEF Copying, QueueTyped
<1>9. TurnIsInOrder'
 <2>1. ~steering /\ NoSteers(queue) BY <1>1 DEF QueueInv, TurnIsInOrder, InTurn
 <2> QED BY <1>1, <2>1 DEF QueueInv, TurnIsInOrder
<1> QED BY <1>8, <1>9

\* Prompts that are accepted are started, queued or put in line.
LEMMA AcceptMoves ==
  ASSUME QueueTyped, NEW ids \in Seq(Prompt), ids # <<>>, NEW mode, Accept(ids, mode)
  PROVE  /\ queue' \in Seq(Queued) /\ line' \in Seq(Prompt) /\ started' \in Seq(Prompt)
         /\ \A x \in Prompt :
              QTimes(x, queue') + Times(x, line') + Times(x, started')
                = QTimes(x, queue) + Times(x, line) + Times(x, started) + Times(x, ids)
         /\ ~steering /\ NoSteers(queue) => NoSteers(queue')
         /\ \/ saved' = saved /\ (beside' # "resume" => beside # "resume")
            \/ /\ saved' = [saved EXCEPT ![session] = [queue |-> Ids(queue'), draft |-> <<>>]]
               /\ beside' = "resume"
<1>1. /\ queue \in Seq(Queued) /\ line \in Seq(Prompt) /\ started \in Seq(Prompt)
      /\ \A x \in Prompt : /\ QTimes(x, queue) \in Nat /\ Times(x, line) \in Nat
                           /\ Times(x, started) \in Nat /\ Times(x, ids) \in Nat
  BY WeightFacts, TimesType DEF QueueTyped
<1>2. CASE /\ beside = "none" /\ SwitchBegins(<<>>) /\ started' = started \o ids
           /\ UNCHANGED <<queue, line>>
 <2>1. started' \in Seq(Prompt) BY <1>1, <1>2
 <2>2. \A x \in Prompt : Times(x, started') = Times(x, started) + Times(x, ids)
   BY <1>1, <1>2, TimesConcat
 <2>3. \/ saved' = saved /\ (beside' # "resume" => beside # "resume")
       \/ /\ saved' = [saved EXCEPT ![session] = [queue |-> Ids(queue'), draft |-> <<>>]]
          /\ beside' = "resume"
   BY <1>2 DEF SwitchBegins, Dump
 <2>4. ASSUME NEW x \in Prompt
       PROVE  QTimes(x, queue') + Times(x, line') + Times(x, started')
                = QTimes(x, queue) + Times(x, line) + Times(x, started) + Times(x, ids)
   BY <1>1, <1>2, <2>2
 <2> QED BY <1>1, <1>2, <2>1, <2>3, <2>4
<1>3. CASE /\ queue' = queue \o Items(ids, IF mode = "enter" /\ steering THEN "steer" ELSE "follow_up")
           /\ UNCHANGED <<line, beside, saved, started>>
 <2> DEFINE m == IF mode = "enter" /\ steering THEN "steer" ELSE "follow_up"
            r == Items(ids, m)
 <2>1. m \in Modes /\ (~steering => m = "follow_up") BY DEF Modes
 <2>2. r \in Seq(Queued) /\ Ids(r) = ids /\ \A i \in DOMAIN r : r[i].mode = m
   BY <2>1, ItemsFacts
 <2>3. queue' = queue \o r BY <1>3
 <2> HIDE DEF r, m
 <2>4. \A x \in Prompt : QTimes(x, queue') = QTimes(x, queue) + Times(x, ids)
  <3>1. \A x \in Prompt : QTimes(x, queue \o r) = QTimes(x, queue) + QTimes(x, r)
    BY <1>1, <2>2, QTimesConcat
  <3> QED BY <2>2, <2>3, <3>1 DEF QTimes
 <2>5. ~steering /\ NoSteers(queue) => NoSteers(queue')
  <3> SUFFICES ASSUME ~steering, NoSteers(queue) PROVE NoSteers(queue') OBVIOUS
  <3>1. NoSteers(r) BY <2>1, <2>2 DEF NoSteers
  <3> QED BY <1>1, <2>2, <2>3, <3>1, NoSteersConcat
 <2>6. queue' \in Seq(Queued) BY <1>1, <2>2, <2>3
 <2>7. ASSUME NEW x \in Prompt
       PROVE  QTimes(x, queue') + Times(x, line') + Times(x, started')
                = QTimes(x, queue) + Times(x, line) + Times(x, started) + Times(x, ids)
   BY <1>1, <1>3, <2>4
 <2> QED BY <1>1, <1>3, <2>5, <2>6, <2>7
<1>4. CASE /\ line' = Append(line, Head(ids)) /\ queue' = queue \o Items(Tail(ids), "follow_up")
           /\ UNCHANGED <<beside, saved, started>>
 <2> DEFINE r == Items(Tail(ids), "follow_up")
 <2>1. /\ Head(ids) \in Prompt /\ Tail(ids) \in Seq(Prompt)
       /\ \A x \in Prompt : Times(x, ids) = (IF x = Head(ids) THEN 1 ELSE 0) + Times(x, Tail(ids))
   BY TimesHead
 <2>2. r \in Seq(Queued) /\ Ids(r) = Tail(ids) /\ NoSteers(r)
   BY <2>1, ItemsFacts DEF Modes, NoSteers
 <2>3. queue' = queue \o r BY <1>4
 <2> HIDE DEF r
 <2>4. \A x \in Prompt : QTimes(x, queue') = QTimes(x, queue) + Times(x, Tail(ids))
  <3>1. \A x \in Prompt : QTimes(x, queue \o r) = QTimes(x, queue) + QTimes(x, r)
    BY <1>1, <2>2, QTimesConcat
  <3> QED BY <2>2, <2>3, <3>1 DEF QTimes
 <2>5. /\ line' \in Seq(Prompt)
       /\ \A x \in Prompt : Times(x, line') = Times(x, line) + (IF x = Head(ids) THEN 1 ELSE 0)
  <3>1. line \in Seq(Prompt) /\ Head(ids) \in Prompt /\ line' = Append(line, Head(ids))
    BY <1>1, <1>4, <2>1
  <3>2. ASSUME NEW x PROVE /\ Append(line, Head(ids)) \in Seq(Prompt)
                           /\ Times(x, Append(line, Head(ids)))
                                = Times(x, line) + (IF x = Head(ids) THEN 1 ELSE 0)
    BY <3>1, TimesAppend
  <3> QED BY <3>1, <3>2
 <2>6. NoSteers(queue) => NoSteers(queue') BY <1>1, <2>2, <2>3, NoSteersConcat
 <2>7. queue' \in Seq(Queued) BY <1>1, <2>2, <2>3
 <2>8. ASSUME NEW x \in Prompt
       PROVE  QTimes(x, queue') + Times(x, line') + Times(x, started')
                = QTimes(x, queue) + Times(x, line) + Times(x, started) + Times(x, ids)
  <3>1. /\ Times(x, ids) = (IF x = Head(ids) THEN 1 ELSE 0) + Times(x, Tail(ids))
        /\ QTimes(x, queue') = QTimes(x, queue) + Times(x, Tail(ids))
        /\ Times(x, line') = Times(x, line) + (IF x = Head(ids) THEN 1 ELSE 0)
        /\ Times(x, started') = Times(x, started)
    BY <1>4, <2>1, <2>4, <2>5
  <3>2. /\ QTimes(x, queue) \in Nat /\ Times(x, line) \in Nat /\ Times(x, started) \in Nat
        /\ Times(x, Tail(ids)) \in Nat
    BY <1>1, <2>1, TimesType
  <3> QED BY <3>1, <3>2
 <2> QED BY <1>1, <1>4, <2>5, <2>6, <2>7, <2>8
<1> QED BY <1>2, <1>3, <1>4 DEF Accept

\* Numbers that follow one another are each there once.
LEMMA TimesOfNew ==
  ASSUME NEW a \in Nat, NEW n \in Nat, NEW x \in Nat
  PROVE  Times(x, [i \in 1..n |-> a + i - 1]) = IF x >= a /\ x < a + n THEN 1 ELSE 0
<1> DEFINE s == [i \in 1..n |-> a + i - 1]
<1>1. CASE x >= a /\ x < a + n
 <2>1. {i \in DOMAIN s : s[i] = x} = {x - a + 1} BY <1>1
 <2> QED BY <1>1, <2>1, FS_Singleton DEF Times
<1>2. CASE ~(x >= a /\ x < a + n)
 <2>1. {i \in DOMAIN s : s[i] = x} = {} BY <1>2
 <2> QED BY <1>2, <2>1, FS_EmptySet DEF Times
<1> QED BY <1>1, <1>2

LEMMA SubmitCopies ==
  ASSUME QueueInv, NEW mode,
         (\E n \in 1..2 : Submit(n, mode)) \/ SubmitDraft(mode)
  PROVE  Copying /\ TurnIsInOrder'
<1>1. /\ UNCHANGED <<steering, streaming, loop, pendingUser, phase, session, leaving, lost, stale>>
      /\ ~leaving
  BY DEF Submit, SubmitDraft, Untouched
<1>2. QueueTyped /\ draft \in Seq(Prompt) /\ fresh \in Nat /\ MaxPrompts \in Nat
      /\ fresh \in 1..(MaxPrompts + 1) /\ saved \in [Session -> Texts]
  BY QueueAssumption DEF QueueInv, QueueTyped
<1>3. PICK ids \in Seq(Prompt) :
        /\ ids # <<>> /\ Accept(ids, mode) /\ draft' = <<>>
        /\ fresh' \in 1..(MaxPrompts + 1) /\ fresh <= fresh'
        /\ \A x \in Prompt : Times(x, ids) = Times(x, draft) + Given(x)
 <2>1. ASSUME NEW n \in 1..2, Submit(n, mode)
       PROVE  \E ids \in Seq(Prompt) :
                /\ ids # <<>> /\ Accept(ids, mode) /\ draft' = <<>>
                /\ fresh' \in 1..(MaxPrompts + 1) /\ fresh <= fresh'
                /\ \A x \in Prompt : Times(x, ids) = Times(x, draft) + Given(x)
  <3> DEFINE ids == [i \in 1..n |-> fresh + i - 1]
  <3>1. /\ draft = <<>> /\ draft' = draft /\ fresh + n - 1 <= MaxPrompts /\ fresh' = fresh + n
        /\ Accept(ids, mode)
    BY <2>1 DEF Submit
  <3>2. ids \in Seq(Prompt) /\ ids # <<>>
   <4>1. \A i \in 1..n : fresh + i - 1 \in Prompt BY <1>2, <3>1 DEF Prompt
   <4>2. n \in Nat /\ Len(ids) = n OBVIOUS
   <4> QED BY <4>1, <4>2
  <3>3. ASSUME NEW x \in Prompt PROVE Times(x, ids) = Times(x, draft) + Given(x)
   <4>1. x \in Nat /\ n \in Nat BY <1>2 DEF Prompt
   <4>2. Times(x, ids) = IF x >= fresh /\ x < fresh + n THEN 1 ELSE 0
     BY <1>2, <4>1, TimesOfNew
   <4>3. Times(x, draft) = 0 BY <3>1, TimesOfOne
   <4> QED BY <3>1, <4>2, <4>3 DEF Given
  <3>4. fresh' \in 1..(MaxPrompts + 1) /\ fresh <= fresh' BY <1>2, <3>1
  <3> QED BY <3>1, <3>2, <3>3, <3>4
 <2>2. ASSUME SubmitDraft(mode)
       PROVE  \E ids \in Seq(Prompt) :
                /\ ids # <<>> /\ Accept(ids, mode) /\ draft' = <<>>
                /\ fresh' \in 1..(MaxPrompts + 1) /\ fresh <= fresh'
                /\ \A x \in Prompt : Times(x, ids) = Times(x, draft) + Given(x)
  <3>1. draft # <<>> /\ Accept(draft, mode) /\ draft' = <<>> /\ fresh' = fresh
    BY <2>2 DEF SubmitDraft
  <3>2. ASSUME NEW x \in Prompt PROVE Times(x, draft) = Times(x, draft) + Given(x)
   <4>1. Given(x) = 0 BY <1>2, <3>1 DEF Given, Prompt
   <4>2. Times(x, draft) \in Nat BY <1>2, TimesType
   <4> QED BY <4>1, <4>2
  <3> QED BY <1>2, <3>1, <3>2
 <2> QED BY <2>1, <2>2
<1>4. /\ queue' \in Seq(Queued) /\ line' \in Seq(Prompt) /\ started' \in Seq(Prompt)
      /\ \A x \in Prompt :
           QTimes(x, queue') + Times(x, line') + Times(x, started')
             = QTimes(x, queue) + Times(x, line) + Times(x, started) + Times(x, ids)
      /\ ~steering /\ NoSteers(queue) => NoSteers(queue')
      /\ \/ saved' = saved /\ (beside' # "resume" => beside # "resume")
         \/ /\ saved' = [saved EXCEPT ![session] = [queue |-> Ids(queue'), draft |-> <<>>]]
            /\ beside' = "resume"
  BY <1>2, <1>3, AcceptMoves
<1>5. QueueTyped'
 <2>1. saved' \in [Session -> Texts]
  <3>1. [queue |-> Ids(queue'), draft |-> <<>>] \in Texts BY <1>4, IdsType DEF Texts
  <3> QED BY <1>2, <1>4, <3>1
 <2>2. draft' \in Seq(Prompt) BY <1>3
 <2> QED BY <1>1, <1>2, <1>3, <1>4, <2>1, <2>2 DEF QueueTyped
<1>6. ASSUME NEW x \in Prompt PROVE Weight(x)' = Weight(x) + Given(x)
 <2>1. /\ QTimes(x, queue) \in Nat /\ Times(x, line) \in Nat /\ Times(x, draft) \in Nat
       /\ Times(x, started) \in Nat
   BY <1>2, WeightFacts
 <2>2. QTimes(x, queue') \in Nat /\ Times(x, line') \in Nat /\ Times(x, started') \in Nat
   BY <1>5, NextWeightFacts
 <2>3. /\ QTimes(x, queue') + Times(x, line') + Times(x, started')
            = QTimes(x, queue) + Times(x, line) + Times(x, started) + Times(x, ids)
       /\ Times(x, ids) = Times(x, draft) + Given(x) /\ Given(x) \in Nat
       /\ Times(x, draft') = 0
   BY <1>3, <1>4, TimesOfOne DEF Given
 <2>4. Weight(x)' = QTimes(x, queue') + Times(x, line') + Times(x, draft') + Times(x, started')
                      + (IF x = pendingUser THEN 1 ELSE 0)
   BY <1>1 DEF Weight
 <2>5. Weight(x) = QTimes(x, queue) + Times(x, line) + Times(x, draft) + Times(x, started)
                     + (IF x = pendingUser THEN 1 ELSE 0)
   BY DEF Weight
 <2> QED BY <2>1, <2>2, <2>3, <2>4, <2>5, SMTT(30)
<1>7. Copying BY <1>1, <1>3, <1>4, <1>5, <1>6 DEF Copying
<1>8. TurnIsInOrder' BY <1>1, <1>4 DEF QueueInv, TurnIsInOrder, InTurn
<1> QED BY <1>7, <1>8

-----------------------------------------------------------------------------
(* Session switches, exit and return. *)

LEMMA SwitchFailsKeeps ==
  ASSUME QueueInv, SwitchFails PROVE QueueInv'
<1>1. /\ UNCHANGED <<queue, steering, streaming, line, loop, pendingUser, draft, saved, session,
                     leaving, started, lost, fresh>>
      /\ beside' = "none" /\ stale \subseteq stale'
      /\ phase' = IF InTurn("switch") THEN "closing" ELSE phase
      /\ abort' = IF InTurn("switch") THEN FALSE ELSE abort
      /\ beside = "resume" => Kept(session) \subseteq stale'
  BY DEF SwitchFails
<1>2. QueueTyped' BY <1>1 DEF QueueInv, QueueTyped
<1>3. TurnIsInOrder' BY <1>1 DEF QueueInv, TurnIsInOrder, InTurn
<1>4. (\A s \in Session : Kept(s)' = Kept(s)) /\ Kept(session)' = Kept(session) /\ InEditor' = InEditor
      /\ \A x : Weight(x)' = Weight(x) /\ Elsewhere(x)' = Elsewhere(x)
  BY <1>1 DEF Kept, InEditor, Weight, Elsewhere
<1>5. CopiesAreOld'
 <2>1. ~leaving => Kept(session) \subseteq stale' BY <1>1 DEF QueueInv, CopiesAreOld
 <2>2. leaving => Kept(session) \ (stale' \union lost) \subseteq InEditor
   BY <1>1 DEF QueueInv, CopiesAreOld
 <2> QED BY <1>1, <1>4, <2>1, <2>2 DEF CopiesAreOld
<1>6. CopiedOnce' BY <1>1, <1>4 DEF QueueInv, CopiedOnce
<1>7. NotYetGiven' BY <1>1, <1>4 DEF QueueInv, NotYetGiven
<1>8. Placed'
 <2> SUFFICES ASSUME NEW x \in Prompt, x < fresh, x \notin lost \union stale'
              PROVE  \/ Weight(x) = 1 /\ \A s \in Session \ {session} : x \notin Kept(s)
                     \/ Weight(x) = 0 /\ \E s \in Session \ {session} : Elsewhere(x) = {s}
   BY <1>1, <1>4 DEF Placed
 <2> QED BY <1>1 DEF QueueInv, Placed
<1> QED BY <1>2, <1>3, <1>5, <1>6, <1>7, <1>8 DEF QueueInv

\* What is restored from a copy.
LEMMA RestoreFacts ==
  ASSUME NEW t \in Texts
  PROVE  /\ t.queue \in Seq(Prompt) /\ t.draft \in Seq(Prompt)
         /\ Items(t.queue, "follow_up") \in Seq(Queued) /\ NoSteers(Items(t.queue, "follow_up"))
         /\ Ids(Items(t.queue, "follow_up")) = t.queue
         /\ \A x : QTimes(x, Items(t.queue, "follow_up")) = Times(x, t.queue)
<1>1. t.queue \in Seq(Prompt) /\ t.draft \in Seq(Prompt) BY DEF Texts
<1>2. /\ Items(t.queue, "follow_up") \in Seq(Queued)
      /\ Ids(Items(t.queue, "follow_up")) = t.queue
      /\ \A i \in DOMAIN Items(t.queue, "follow_up") : Items(t.queue, "follow_up")[i].mode = "follow_up"
  BY <1>1, ItemsFacts DEF Modes
<1> QED BY <1>1, <1>2 DEF NoSteers, QTimes

\* The editor takes what a copy holds, whose session is shown from then on; the counts follow.
Restoring(s) ==
  /\ s \in Session /\ session' = s
  /\ queue' = Items(saved[s].queue, "follow_up") /\ draft' = saved[s].draft
  /\ saved' = [saved EXCEPT ![s] = Composer]
  /\ UNCHANGED <<line, started, pendingUser, fresh>>

LEMMA RestoringFacts ==
  ASSUME QueueInv, NEW s \in Session, Restoring(s)
  PROVE  /\ QueueTyped' /\ NoSteers(queue') /\ Kept(s)' = {}
         /\ \A t \in Session \ {s} : Kept(t)' = Kept(t) /\ saved'[t] = saved[t]
         /\ \A x : /\ Weight(x) \in Nat /\ Weight(x)' \in Nat
                   /\ QTimes(x, queue) + Times(x, draft) \in Nat
                   /\ QTimes(x, queue) + Times(x, draft) <= Weight(x)
                   /\ Times(x, saved[s].queue) + Times(x, saved[s].draft) \in Nat
                   /\ Weight(x)' = Weight(x) - (QTimes(x, queue) + Times(x, draft))
                                     + (Times(x, saved[s].queue) + Times(x, saved[s].draft))
<1>0. QueueTyped /\ saved \in [Session -> Texts] /\ saved[s] \in Texts
  BY DEF QueueInv, QueueTyped
<1>1. /\ queue' \in Seq(Queued) /\ draft' \in Seq(Prompt) /\ NoSteers(queue')
      /\ \A x : QTimes(x, queue') = Times(x, saved[s].queue)
                /\ Times(x, draft') = Times(x, saved[s].draft)
  BY <1>0, RestoreFacts DEF Restoring
<1>2. Composer \in Texts BY DEF Composer, Texts
<1>3. QueueTyped' BY <1>0, <1>1, <1>2 DEF Restoring, QueueTyped
<1>4. \A t \in Session \ {s} : saved'[t] = saved[t] BY <1>0 DEF Restoring
<1>5. saved'[s] = Composer BY <1>0 DEF Restoring
<1>6. Kept(s)' = {} BY <1>5 DEF Kept, Composer, ToSet
<1>7. \A t \in Session \ {s} : Kept(t)' = Kept(t) BY <1>4 DEF Kept
<1>8. ASSUME NEW x
      PROVE  /\ Weight(x) \in Nat /\ Weight(x)' \in Nat
             /\ QTimes(x, queue) + Times(x, draft) \in Nat
             /\ QTimes(x, queue) + Times(x, draft) <= Weight(x)
             /\ Times(x, saved[s].queue) + Times(x, saved[s].draft) \in Nat
             /\ Weight(x)' = Weight(x) - (QTimes(x, queue) + Times(x, draft))
                               + (Times(x, saved[s].queue) + Times(x, saved[s].draft))
 <2>1. /\ QTimes(x, queue) \in Nat /\ Times(x, line) \in Nat /\ Times(x, draft) \in Nat
       /\ Times(x, started) \in Nat /\ Weight(x) \in Nat
       /\ QTimes(x, queue) + Times(x, draft) <= Weight(x)
       /\ Times(x, saved[s].queue) \in Nat /\ Times(x, saved[s].draft) \in Nat
   BY <1>0, WeightFacts
 <2>2. Weight(x)' \in Nat BY <1>3, NextWeightFacts
 <2>3. Weight(x)' = Times(x, saved[s].queue) + Times(x, line) + Times(x, saved[s].draft)
                      + Times(x, started) + (IF x = pendingUser THEN 1 ELSE 0)
   BY <1>1 DEF Weight, Restoring
 <2>4. Weight(x) = QTimes(x, queue) + Times(x, line) + Times(x, draft) + Times(x, started)
                     + (IF x = pendingUser THEN 1 ELSE 0)
   BY DEF Weight
 <2> QED BY <2>1, <2>2, <2>3, <2>4
<1> QED BY <1>1, <1>3, <1>4, <1>6, <1>7, <1>8

LEMMA SwitchEndsKeeps ==
  ASSUME QueueInv, SwitchEnds PROVE QueueInv'
<1>1. PICK s \in Session \ {session} :
        /\ beside = "new" => saved[s] = Composer
        /\ session' = s /\ queue' = Rebind(s) /\ draft' = saved[s].draft
        /\ lost' = lost \union (InEditor \ IF beside = "resume" THEN Kept(session) ELSE {})
        /\ saved' = [saved EXCEPT ![s] = Composer]
  BY DEF SwitchEnds
<1>2. /\ UNCHANGED <<steering, streaming, line, loop, pendingUser, abort, leaving, started, fresh>>
      /\ beside # "none" /\ beside' = "none"
      /\ stale' = stale \union IF beside = "resume" THEN Kept(session) \ InEditor ELSE {}
      /\ phase' = IF InTurn("switch") THEN "closing" ELSE phase
  BY DEF SwitchEnds
<1>3. Restoring(s) BY <1>1, <1>2 DEF Restoring, Rebind
<1>4. QueueTyped /\ session \in Session /\ MaxPrompts \in Nat
  BY QueueAssumption DEF QueueInv, QueueTyped
<1>5. /\ QueueTyped' /\ NoSteers(queue') /\ Kept(s)' = {}
      /\ \A t \in Session \ {s} : Kept(t)' = Kept(t) /\ saved'[t] = saved[t]
      /\ \A x : /\ Weight(x) \in Nat /\ Weight(x)' \in Nat
                /\ QTimes(x, queue) + Times(x, draft) \in Nat
                /\ QTimes(x, queue) + Times(x, draft) <= Weight(x)
                /\ Times(x, saved[s].queue) + Times(x, saved[s].draft) \in Nat
                /\ Weight(x)' = Weight(x) - (QTimes(x, queue) + Times(x, draft))
                                  + (Times(x, saved[s].queue) + Times(x, saved[s].draft))
  BY <1>1, <1>3, RestoringFacts
<1>6. \A x : /\ x \in InEditor <=> QTimes(x, queue) + Times(x, draft) # 0
             /\ x \in Kept(s) <=> Times(x, saved[s].queue) + Times(x, saved[s].draft) # 0
  BY <1>1, <1>4, WeightFacts
<1>7. TurnIsInOrder' BY <1>2, <1>5 DEF QueueInv, TurnIsInOrder, InTurn
<1>8. CopiesAreOld'
 <2>1. Kept(session)' = {}
  <3>1. saved'[session'] = Composer BY <1>1, <1>4, <1>3 DEF Restoring, QueueTyped
  <3> QED BY <3>1 DEF Kept, Composer, ToSet
 <2> QED BY <2>1 DEF CopiesAreOld
<1>9. CopiedOnce'
 <2> SUFFICES ASSUME NEW t \in Session, NEW x \in Kept(t)', x \notin lost' \union stale'
              PROVE  Times(x, saved'[t].queue) + Times(x, saved'[t].draft) = 1
   BY DEF CopiedOnce
 <2>1. t # s BY <1>5
 <2>2. Kept(t)' = Kept(t) /\ saved'[t] = saved[t] BY <1>5, <2>1
 <2>3. x \notin lost \union stale BY <1>1, <1>2
 <2> QED BY <2>2, <2>3 DEF QueueInv, CopiedOnce
<1>10. NotYetGiven'
 <2> SUFFICES ASSUME NEW x \in Prompt, x >= fresh
              PROVE  Weight(x)' = 0 /\ \A t \in Session : x \notin Kept(t)'
   BY <1>2 DEF NotYetGiven
 <2>1. Weight(x) = 0 /\ \A t \in Session : x \notin Kept(t) BY DEF QueueInv, NotYetGiven
 <2>2. Weight(x)' = 0 BY <1>1, <1>5, <1>6, <2>1
 <2> QED BY <1>5, <2>1, <2>2
\* A prompt of the editor that is no copy of the shown session is given up, and the other way round.
<1>11. ASSUME NEW x, x \notin lost' \union stale'
       PROVE  (x \in InEditor => beside = "resume") /\ (x \in InEditor <=> x \in Kept(session))
 <2>1. CASE beside = "resume" BY <1>1, <1>2, <1>11, <2>1
 <2>2. CASE beside # "resume"
  <3>1. x \notin InEditor /\ x \notin lost \union stale BY <1>1, <1>2, <1>11, <2>2
  <3>2. x \notin Kept(session) BY <2>2, <3>1 DEF QueueInv, CopiesAreOld
  <3> QED BY <3>1, <3>2
 <2> QED BY <2>1, <2>2
<1>12. Placed'
 <2> SUFFICES ASSUME NEW x \in Prompt, x < fresh, x \notin lost' \union stale'
              PROVE  \/ Weight(x)' = 1 /\ \A t \in Session \ {s} : x \notin Kept(t)'
                     \/ Weight(x)' = 0 /\ \E t \in Session \ {s} : Elsewhere(x)' = {t}
   BY <1>1, <1>2 DEF Placed
 <2>1. Elsewhere(x)' = {t \in Session \ {s} : x \in Kept(t)} BY <1>1, <1>5 DEF Elsewhere
 <2>2. x \notin lost \union stale BY <1>1, <1>2
 <2>3. CASE Weight(x) = 1 /\ \A t \in Session \ {session} : x \notin Kept(t)
  <3>1. Times(x, saved[s].queue) + Times(x, saved[s].draft) = 0 BY <1>1, <1>6, <2>3
  <3>2. CASE x \in InEditor
   <4>1. QTimes(x, queue) + Times(x, draft) = 1 BY <1>5, <1>6, <2>3, <3>2
   <4>2. Weight(x)' = 0 BY <1>5, <2>3, <3>1, <4>1
   <4>3. Elsewhere(x)' = {session} BY <1>1, <1>4, <1>11, <2>1, <2>3, <3>2
   <4> QED BY <1>1, <1>4, <4>2, <4>3
  <3>3. CASE x \notin InEditor
   <4>1. Weight(x)' = 1 BY <1>5, <1>6, <2>3, <3>1, <3>3
   <4>2. \A t \in Session : x \notin Kept(t) BY <1>11, <2>3, <3>3
   <4> QED BY <1>5, <4>1, <4>2
  <3> QED BY <3>2, <3>3
 <2>4. CASE Weight(x) = 0 /\ \E t \in Session \ {session} : Elsewhere(x) = {t}
  <3>1. x \notin InEditor /\ QTimes(x, queue) + Times(x, draft) = 0 BY <1>5, <1>6, <2>4
  <3>2. x \notin Kept(session) BY <1>11, <3>1
  <3>3. PICK t \in Session \ {session} : Elsewhere(x) = {t} BY <2>4
  <3>4. CASE t = s
   <4>1. x \in Kept(s) BY <3>3, <3>4 DEF Elsewhere
   <4>2. Times(x, saved[s].queue) + Times(x, saved[s].draft) = 1
     BY <2>2, <4>1 DEF QueueInv, CopiedOnce
   <4>3. Weight(x)' = 1 BY <1>5, <2>4, <3>1, <4>2
   <4>4. \A r \in Session \ {s} : x \notin Kept(r) BY <3>2, <3>3, <3>4 DEF Elsewhere
   <4> QED BY <1>5, <4>3, <4>4
  <3>5. CASE t # s
   <4>1. x \notin Kept(s) /\ x \in Kept(t) BY <1>1, <3>3, <3>5 DEF Elsewhere
   <4>2. Times(x, saved[s].queue) + Times(x, saved[s].draft) = 0 BY <1>6, <4>1
   <4>3. Weight(x)' = 0 BY <1>5, <2>4, <3>1, <4>2
   <4>4. {r \in Session \ {s} : x \in Kept(r)} = {t} BY <3>2, <3>3, <3>5, <4>1 DEF Elsewhere
   <4> QED BY <2>1, <3>3, <3>5, <4>3, <4>4
  <3> QED BY <3>4, <3>5
 <2> QED BY <2>2, <2>3, <2>4 DEF QueueInv, Placed
<1> QED BY <1>5, <1>7, <1>8, <1>9, <1>10, <1>12 DEF QueueInv

LEMMA ComesBackKeeps ==
  ASSUME QueueInv, ComesBack PROVE QueueInv'
<1>1. /\ leaving /\ loop = "free" /\ beside = "none"
      /\ lost' = lost \union (InEditor \ Kept(session))
      /\ queue' = Items(saved[session].queue, "follow_up") /\ draft' = saved[session].draft
      /\ saved' = [saved EXCEPT ![session] = Composer]
      /\ leaving' = FALSE /\ steering' = FALSE
      /\ UNCHANGED <<streaming, line, loop, pendingUser, phase, abort, session, beside, started,
                     stale, fresh>>
  BY DEF ComesBack
<1>2. QueueTyped /\ session \in Session /\ MaxPrompts \in Nat
  BY QueueAssumption DEF QueueInv, QueueTyped
<1>3. Restoring(session) BY <1>1, <1>2 DEF Restoring
<1>5. /\ QueueTyped' /\ NoSteers(queue') /\ Kept(session)' = {}
      /\ \A t \in Session \ {session} : Kept(t)' = Kept(t) /\ saved'[t] = saved[t]
      /\ \A x : /\ Weight(x) \in Nat /\ Weight(x)' \in Nat
                /\ QTimes(x, queue) + Times(x, draft) \in Nat
                /\ QTimes(x, queue) + Times(x, draft) <= Weight(x)
                /\ Times(x, saved[session].queue) + Times(x, saved[session].draft) \in Nat
                /\ Weight(x)' = Weight(x) - (QTimes(x, queue) + Times(x, draft))
                                  + (Times(x, saved[session].queue) + Times(x, saved[session].draft))
 <2>1. \A s \in Session : s = session => Kept(s)' = Kept(session)' BY <1>1 DEF Kept
 <2>2. /\ QueueTyped' /\ NoSteers(queue')
       /\ \A t \in Session \ {session} : Kept(t)' = Kept(t) /\ saved'[t] = saved[t]
       /\ \A x : /\ Weight(x) \in Nat /\ Weight(x)' \in Nat
                 /\ QTimes(x, queue) + Times(x, draft) \in Nat
                 /\ QTimes(x, queue) + Times(x, draft) <= Weight(x)
                 /\ Times(x, saved[session].queue) + Times(x, saved[session].draft) \in Nat
                 /\ Weight(x)' = Weight(x) - (QTimes(x, queue) + Times(x, draft))
                                   + (Times(x, saved[session].queue) + Times(x, saved[session].draft))
  <3>1. PICK s \in Session : s = session BY <1>2
  <3>2. Restoring(s) BY <1>3, <3>1
  <3>3. /\ QueueTyped' /\ NoSteers(queue')
        /\ \A t \in Session \ {s} : Kept(t)' = Kept(t) /\ saved'[t] = saved[t]
        /\ \A x : /\ Weight(x) \in Nat /\ Weight(x)' \in Nat
                  /\ QTimes(x, queue) + Times(x, draft) \in Nat
                  /\ QTimes(x, queue) + Times(x, draft) <= Weight(x)
                  /\ Times(x, saved[s].queue) + Times(x, saved[s].draft) \in Nat
                  /\ Weight(x)' = Weight(x) - (QTimes(x, queue) + Times(x, draft))
                                    + (Times(x, saved[s].queue) + Times(x, saved[s].draft))
    BY <3>2, RestoringFacts
  <3> QED BY <3>1, <3>3
 <2>3. Kept(session)' = {}
  <3>1. saved'[session'] = Composer BY <1>1, <1>2 DEF QueueTyped
  <3> QED BY <3>1 DEF Kept, Composer, ToSet
 <2> QED BY <2>2, <2>3
<1>6. \A x : /\ x \in InEditor <=> QTimes(x, queue) + Times(x, draft) # 0
             /\ x \in Kept(session) <=> Times(x, saved[session].queue) + Times(x, saved[session].draft) # 0
  BY <1>2, WeightFacts
<1>7. TurnIsInOrder' BY <1>1, <1>5 DEF QueueInv, TurnIsInOrder, InTurn
<1>8. CopiesAreOld' BY <1>1, <1>5 DEF CopiesAreOld
<1>9. \A t \in Session : t = session => Kept(t)' = {} BY <1>1, <1>5 DEF Kept
<1>10. CopiedOnce'
 <2> SUFFICES ASSUME NEW t \in Session, NEW x \in Kept(t)', x \notin lost' \union stale
              PROVE  Times(x, saved'[t].queue) + Times(x, saved'[t].draft) = 1
   BY <1>1 DEF CopiedOnce
 <2>1. t # session BY <1>9
 <2>2. Kept(t)' = Kept(t) /\ saved'[t] = saved[t] BY <1>5, <2>1
 <2>3. x \notin lost \union stale BY <1>1
 <2> QED BY <2>2, <2>3 DEF QueueInv, CopiedOnce
<1>11. NotYetGiven'
 <2> SUFFICES ASSUME NEW x \in Prompt, x >= fresh
              PROVE  Weight(x)' = 0 /\ \A t \in Session : x \notin Kept(t)'
   BY <1>1 DEF NotYetGiven
 <2>1. Weight(x) = 0 /\ \A t \in Session : x \notin Kept(t) BY DEF QueueInv, NotYetGiven
 <2>2. Weight(x)' = 0 BY <1>2, <1>5, <1>6, <2>1
 <2> QED BY <1>5, <1>9, <2>1, <2>2
<1>12. Placed'
 <2> SUFFICES ASSUME NEW x \in Prompt, x < fresh, x \notin lost' \union stale
              PROVE  \/ Weight(x)' = 1 /\ \A t \in Session \ {session} : x \notin Kept(t)'
                     \/ Weight(x)' = 0 /\ \E t \in Session \ {session} : Elsewhere(x)' = {t}
   BY <1>1 DEF Placed
 <2>1. Elsewhere(x)' = Elsewhere(x) BY <1>1, <1>5 DEF Elsewhere
 <2>2. x \notin lost \union stale BY <1>1
 <2>3. x \in InEditor <=> x \in Kept(session) BY <1>1, <2>2 DEF QueueInv, CopiesAreOld
 <2>4. Weight(x) = 1 \/ Weight(x) = 0 BY <2>2 DEF QueueInv, Placed
 <2>5. Weight(x)' = Weight(x)
  <3>1. CASE x \in InEditor
   <4>1. Times(x, saved[session].queue) + Times(x, saved[session].draft) = 1
     BY <1>2, <2>2, <2>3, <3>1 DEF QueueInv, CopiedOnce
   <4>2. QTimes(x, queue) + Times(x, draft) = 1 BY <1>5, <1>6, <2>4, <3>1
   <4> QED BY <1>5, <4>1, <4>2
  <3>2. CASE x \notin InEditor BY <1>5, <1>6, <2>3, <3>2
  <3> QED BY <3>1, <3>2
 <2> QED BY <1>5, <2>1, <2>2, <2>5 DEF QueueInv, Placed
<1> QED BY <1>5, <1>7, <1>8, <1>10, <1>11, <1>12 DEF QueueInv

LEMMA ExitKeeps ==
  ASSUME QueueInv, Exit PROVE QueueInv'
<1> DEFINE q == IF queue # <<>> THEN Ids(queue) ELSE saved[session].queue
           d == IF draft # <<>> THEN draft ELSE saved[session].draft
<1>1. /\ UNCHANGED <<queue, steering, streaming, line, loop, pendingUser, phase, draft, session,
                     beside, started, lost, fresh>>
      /\ ~leaving /\ leaving'
      /\ saved' = [saved EXCEPT ![session] = [queue |-> q, draft |-> d]]
      /\ stale' = stale \union {x \in Kept(session) :
                                  \/ queue = <<>> /\ x \in ToSet(saved[session].queue)
                                  \/ draft = <<>> /\ x \in ToSet(saved[session].draft)}
      /\ streaming => abort' = (loop = "turn" /\ phase # "over")
      /\ ~streaming => abort' = abort
  BY DEF Exit, AbortTurn
<1>2. /\ QueueTyped /\ session \in Session /\ MaxPrompts \in Nat /\ saved \in [Session -> Texts]
      /\ saved[session] \in Texts /\ Ids(queue) \in Seq(Prompt) /\ draft \in Seq(Prompt)
  BY QueueAssumption, WeightFacts DEF QueueInv, QueueTyped
<1>3. q \in Seq(Prompt) /\ d \in Seq(Prompt) /\ [queue |-> q, draft |-> d] \in Texts
  BY <1>2 DEF Texts
<1>4. QueueTyped'
 <2> HIDE DEF q, d
 <2> QED BY <1>1, <1>2, <1>3 DEF QueueTyped
<1>5. TurnIsInOrder' BY <1>1 DEF QueueInv, TurnIsInOrder, InTurn
<1>6. saved'[session] = [queue |-> q, draft |-> d]
      /\ \A t \in Session \ {session} : saved'[t] = saved[t]
 <2> HIDE DEF q, d
 <2> QED BY <1>1, <1>2
<1>7. /\ \A t \in Session \ {session} : Kept(t)' = Kept(t)
      /\ \A t \in Session : t = session => Kept(t)' = ToSet(q) \union ToSet(d)
      /\ Kept(session)' = ToSet(q) \union ToSet(d)
  BY <1>1, <1>6 DEF Kept
<1>8. /\ \A x : Weight(x)' = Weight(x)
      /\ \A x : Elsewhere(x)' = Elsewhere(x)
      /\ InEditor' = InEditor
  BY <1>1, <1>7 DEF Weight, Elsewhere, InEditor
\* What the copy keeps of an older one is stale, the rest is what is in the editor.
<1>9. ASSUME NEW x, x \notin stale'
      PROVE  Times(x, q) = QTimes(x, queue) /\ Times(x, d) = Times(x, draft)
 <2>1. /\ saved[session].queue \in Seq(Prompt) /\ saved[session].draft \in Seq(Prompt)
       /\ Ids(<<>>) = <<>>
   BY <1>2 DEF Texts, Ids
 <2>2. Times(x, q) = QTimes(x, queue)
  <3>1. CASE queue # <<>> BY <3>1 DEF QTimes
  <3>2. CASE queue = <<>>
   <4>1. x \notin ToSet(saved[session].queue) BY <1>1, <1>9, <3>2 DEF Kept
   <4>2. Times(x, saved[session].queue) = 0 BY <2>1, <4>1, TimesType
   <4>3. QTimes(x, queue) = 0 BY <2>1, <3>2, TimesOfOne DEF QTimes
   <4> QED BY <3>2, <4>2, <4>3
  <3> QED BY <3>1, <3>2
 <2>3. Times(x, d) = Times(x, draft)
  <3>1. CASE draft # <<>> BY <3>1
  <3>2. CASE draft = <<>>
   <4>1. x \notin ToSet(saved[session].draft) BY <1>1, <1>9, <3>2 DEF Kept
   <4>2. Times(x, saved[session].draft) = 0 BY <2>1, <4>1, TimesType
   <4>3. Times(x, draft) = 0 BY <3>2, TimesOfOne
   <4> QED BY <3>2, <4>2, <4>3
  <3> QED BY <3>1, <3>2
 <2> QED BY <2>2, <2>3
<1>10. ASSUME NEW x, x \notin stale', x \in ToSet(q) \union ToSet(d)
       PROVE  x \in InEditor /\ x \in Prompt
 <2>1. /\ Times(x, q) \in Nat /\ Times(x, d) \in Nat
       /\ Times(x, q) # 0 \/ Times(x, d) # 0
   BY <1>3, <1>10, TimesType
 <2>2. QTimes(x, queue) + Times(x, draft) # 0 BY <1>9, <1>10, <2>1
 <2>3. x \in Prompt BY <1>3, <1>10 DEF ToSet
 <2> QED BY <1>2, <2>2, <2>3, WeightFacts
<1> HIDE DEF q, d
<1>11. CopiesAreOld'
 <2>1. Kept(session)' \ (stale' \union lost') \subseteq InEditor' BY <1>7, <1>8, <1>10
 <2> QED BY <1>1, <2>1 DEF CopiesAreOld
<1>12. NotYetGiven'
 <2> SUFFICES ASSUME NEW x \in Prompt, x >= fresh
              PROVE  Weight(x) = 0 /\ \A t \in Session : x \notin Kept(t)'
   BY <1>1, <1>8 DEF NotYetGiven
 <2>1. Weight(x) = 0 /\ \A t \in Session : x \notin Kept(t) BY DEF QueueInv, NotYetGiven
 <2>2. x \notin InEditor
  <3>1. /\ x \in InEditor <=> QTimes(x, queue) + Times(x, draft) # 0
        /\ QTimes(x, queue) + Times(x, draft) <= Weight(x)
        /\ QTimes(x, queue) \in Nat /\ Times(x, draft) \in Nat
    BY <1>2, WeightFacts
  <3> QED BY <2>1, <3>1
 <2>3. x \notin ToSet(q) \union ToSet(d)
  <3>1. ToSet(q) \union ToSet(d) \subseteq InEditor \union Kept(session)
    BY DEF q, d, InEditor, Kept
  <3> QED BY <1>2, <2>1, <2>2, <3>1
 <2> QED BY <1>7, <2>1, <2>3
<1>13. Placed'
 <2> SUFFICES ASSUME NEW x \in Prompt, x < fresh, x \notin lost \union stale'
              PROVE  \/ Weight(x) = 1 /\ \A t \in Session \ {session} : x \notin Kept(t)
                     \/ Weight(x) = 0 /\ \E t \in Session \ {session} : Elsewhere(x) = {t}
   BY <1>1, <1>7, <1>8 DEF Placed
 <2> QED BY <1>1 DEF QueueInv, Placed
<1>14. CopiedOnce'
 <2> SUFFICES ASSUME NEW t \in Session, NEW x \in Kept(t)', x \notin lost \union stale'
              PROVE  Times(x, saved'[t].queue) + Times(x, saved'[t].draft) = 1
   BY <1>1 DEF CopiedOnce
 <2>1. CASE t # session
  <3>1. Kept(t)' = Kept(t) /\ saved'[t] = saved[t] /\ x \notin stale
    BY <1>1, <1>6, <1>7, <2>1
  <3> QED BY <3>1 DEF QueueInv, CopiedOnce
 <2>2. CASE t = session
  <3>1. x \in InEditor /\ x \in Prompt BY <1>7, <1>10, <2>2
  <3>2. /\ QTimes(x, queue) \in Nat /\ Times(x, draft) \in Nat /\ Weight(x) \in Nat
        /\ QTimes(x, queue) + Times(x, draft) # 0
        /\ QTimes(x, queue) + Times(x, draft) <= Weight(x)
    BY <1>2, <3>1, WeightFacts
  <3>3. x < fresh /\ x \notin stale
   <4>1. ~(x >= fresh) BY <3>1, <3>2 DEF QueueInv, NotYetGiven
   <4> QED BY <1>1, <1>2, <3>1, <4>1 DEF Prompt, QueueTyped
  <3>4. Weight(x) = 1 BY <3>1, <3>2, <3>3 DEF QueueInv, Placed
  <3>5. QTimes(x, queue) + Times(x, draft) = 1 BY <3>2, <3>4
  <3> QED BY <1>6, <1>9, <2>2, <3>5
 <2> QED BY <2>1, <2>2
<1> QED BY <1>4, <1>5, <1>11, <1>12, <1>13, <1>14 DEF QueueInv

-----------------------------------------------------------------------------

LEMMA QueueInvHolds == QueueSpec => []QueueInv
<1>1. QueueInit => QueueInv
 <2> SUFFICES ASSUME QueueInit PROVE QueueInv OBVIOUS
 <2>1. /\ queue = <<>> /\ line = <<>> /\ draft = <<>> /\ started = <<>> /\ pendingUser = NoPrompt
       /\ saved = [s \in Session |-> Composer] /\ session = 1 /\ fresh = 1 /\ loop = "free"
       /\ steering = FALSE /\ leaving = FALSE /\ beside = "none"
   BY DEF QueueInit
 <2>2. Composer \in Texts BY DEF Composer, Texts
 <2>3. QueueTyped BY <2>1, <2>2, QueueAssumption DEF QueueTyped, Session
 <2>4. TurnIsInOrder BY <2>1 DEF TurnIsInOrder, NoSteers
 <2>5. \A s \in Session : Kept(s) = {} BY <2>1 DEF Kept, Composer, ToSet
 <2>6. \A x \in Prompt : Weight(x) = 0
  <3>1. Ids(<<>>) = <<>> BY DEF Ids
  <3>2. \A x : Times(x, <<>>) = 0 /\ QTimes(x, <<>>) = 0 BY <3>1, TimesOfOne DEF QTimes
  <3>3. \A x \in Prompt : x # pendingUser BY <2>1, QueueAssumption DEF Prompt, NoPrompt
  <3> QED BY <2>1, <3>2, <3>3 DEF Weight
 <2>7. CopiesAreOld /\ CopiedOnce /\ NotYetGiven
   BY <2>1, <2>3, <2>5, <2>6 DEF CopiesAreOld, CopiedOnce, NotYetGiven, QueueTyped
 <2>8. Placed BY <2>1, QueueAssumption DEF Placed, Prompt
 <2> QED BY <2>3, <2>4, <2>7, <2>8 DEF QueueInv
<1>2. QueueInv /\ [QueueNext]_queueVars => QueueInv'
 <2> SUFFICES ASSUME QueueInv, [QueueNext]_queueVars PROVE QueueInv' OBVIOUS
 <2>1. ASSUME Shuffles, TurnIsInOrder' PROVE QueueInv'
   BY <2>1, ShufflesKeep DEF Shuffles, QueueInv
 <2>2. ASSUME Copying, TurnIsInOrder' PROVE QueueInv'
   BY <2>2, CopyingKeeps DEF Copying, QueueInv
 <2>3. CASE LoopSteps
   BY <2>1, <2>3, TakesLockShuffles, TurnOverShuffles, StillShuffles DEF LoopSteps
 <2>4. CASE TurnSteps \/ ToolBoundary \/ ResultArrives
   BY <2>1, <2>2, <2>4, StillShuffles, StreamShuffles, BreakShuffles, CommandCopies DEF TurnSteps
 <2>5. CASE SwitchSteps BY <2>5, SwitchEndsKeeps, SwitchFailsKeeps DEF SwitchSteps
 <2>6. CASE Keys
  <3>1. ASSUME NEW mode \in {"enter", "later"},
               (\E n \in 1..2 : Submit(n, mode)) \/ SubmitDraft(mode)
        PROVE  QueueInv'
    BY <2>2, <3>1, SubmitCopies
  <3> QED
    BY <2>1, <2>6, <3>1, DequeueShuffles, EscapeShuffles, InterruptShuffles, ExitKeeps DEF Keys
 <2>7. CASE ComesBack BY <2>7, ComesBackKeeps
 <2>8. CASE UNCHANGED queueVars
  <3>1. UNCHANGED <<queue, line, draft, started, pendingUser, saved, session, beside, leaving,
                    stale, lost, fresh, loop, streaming, steering, abort, phase>>
    BY <2>8 DEF queueVars
  <3>2. QueueTyped' /\ TurnIsInOrder' /\ InEditor' = InEditor
    BY <3>1 DEF QueueInv, QueueTyped, TurnIsInOrder, InTurn, InEditor
  <3>3. \A x \in Prompt : Weight(x)' = Weight(x) /\ Weight(x) \in Nat
    BY <3>1, WeightFacts DEF Weight, QueueInv
  <3>4. Shuffles BY <3>1, <3>2, <3>3 DEF Shuffles
  <3> QED BY <2>1, <3>2, <3>4
 <2> QED BY <2>3, <2>4, <2>5, <2>6, <2>7, <2>8 DEF QueueNext
<1> QED BY <1>1, <1>2, PTL DEF QueueSpec

\* For any number of prompts, switches, escapes, exits and returns, a prompt that was accepted is
\* in one place: it does not run twice, and does not vanish unless the user discards it or a
\* switch or an exit drops it.
THEOREM PromptsAreAccounted == QueueSpec => []PromptsAccounted
<1>1. QueueInv => PromptsAccounted
 <2> SUFFICES ASSUME QueueInv, NEW x \in 1..(fresh - 1), x \notin lost \union stale
              PROVE  Copies(x) = 1
   BY DEF PromptsAccounted
 <2>1. QueueTyped /\ x \in Prompt /\ x < fresh /\ session \in Session /\ x # NoPrompt
   BY QueueAssumption DEF QueueInv, QueueTyped, Prompt, NoPrompt
 <2>2. \/ Weight(x) = 1 /\ \A s \in Session \ {session} : x \notin Kept(s)
       \/ Weight(x) = 0 /\ \E s \in Session \ {session} : Elsewhere(x) = {s}
   BY <2>1 DEF QueueInv, Placed
 <2>3. Times(x, Ids(queue) \o line \o draft \o started \o <<pendingUser>>) = Weight(x)
  <3>1. /\ Ids(queue) \in Seq(Nat) /\ line \in Seq(Nat) /\ draft \in Seq(Nat)
        /\ started \in Seq(Nat) /\ <<pendingUser>> \in Seq(Nat)
   <4>1. Prompt \subseteq Nat /\ Seq(Prompt) \subseteq Seq(Nat) /\ NoPrompt \in Nat
     BY QueueAssumption DEF Prompt, NoPrompt
   <4>2. Ids(queue) \in Seq(Prompt) BY <2>1, WeightFacts
   <4> QED BY <2>1, <4>1, <4>2 DEF QueueTyped
  <3> DEFINE a == Ids(queue) \o line
             b == a \o draft
             c == b \o started
  <3>2. a \in Seq(Nat) /\ Times(x, a) = QTimes(x, queue) + Times(x, line)
    BY <3>1, TimesConcat DEF QTimes
  <3> HIDE DEF a
  <3>3. b \in Seq(Nat) /\ Times(x, b) = Times(x, a) + Times(x, draft)
    BY <3>1, <3>2, TimesConcat
  <3> HIDE DEF b
  <3>4. c \in Seq(Nat) /\ Times(x, c) = Times(x, b) + Times(x, started)
    BY <3>1, <3>3, TimesConcat
  <3> HIDE DEF c
  <3>5. Times(x, c \o <<pendingUser>>) = Times(x, c) + Times(x, <<pendingUser>>)
    BY <3>1, <3>4, TimesConcat
  <3>6. /\ Times(x, <<pendingUser>>) = IF x = pendingUser THEN 1 ELSE 0
        /\ QTimes(x, queue) \in Nat /\ Times(x, line) \in Nat /\ Times(x, draft) \in Nat
        /\ Times(x, started) \in Nat
    BY <2>1, TimesOfOne, WeightFacts
  <3>7. Times(x, c \o <<pendingUser>>) = Weight(x)
    BY <3>2, <3>3, <3>4, <3>5, <3>6 DEF Weight
  <3> QED BY <3>7 DEF a, b, c
 <2> DEFINE out == {s \in Session : s # session \/ (beside # "resume" /\ ~leaving)}
            kept == {s \in out : x \in Kept(s)}
 <2>4. Copies(x) = Weight(x) + Cardinality(kept) BY <2>3 DEF Copies
 <2>5. kept = Elsewhere(x)
  <3>1. (beside # "resume" /\ ~leaving) => x \notin Kept(session)
    BY DEF QueueInv, CopiesAreOld
  <3> QED BY <3>1 DEF Elsewhere
 <2> HIDE DEF out, kept
 <2>6. CASE Weight(x) = 1 /\ \A s \in Session \ {session} : x \notin Kept(s)
  <3>1. Elsewhere(x) = {} BY <2>6 DEF Elsewhere
  <3> QED BY <2>4, <2>5, <2>6, <3>1, FS_EmptySet
 <2>7. CASE Weight(x) = 0 /\ \E s \in Session \ {session} : Elsewhere(x) = {s}
  <3>1. PICK s : Elsewhere(x) = {s} BY <2>7
  <3>2. Cardinality(kept) = 1 BY <2>5, <3>1, FS_Singleton
  <3> QED BY <2>4, <2>7, <3>2
 <2> QED BY <2>2, <2>6, <2>7
<1> QED BY <1>1, QueueInvHolds, PTL

-----------------------------------------------------------------------------
(* From one session or model to another. *)

Rows == [made : BOOLEAN, thread : Thread \union {NoThread}, rows : SUBSET Thread,
         model : Provider \union {NoModel}, path : Context, cut : BOOLEAN]
Graphs == [SessionId -> [Thread -> Context \union {NoGraph}]]
Contexts == [session : SessionId, thread : Thread, model : Provider,
             agent : Provider \union {NoModel}, history : Provider \union {NoModel}]
Switches == [kind : {"prompt", "rebuild", "model", "new", "fork", "resume"},
             pc : {"build", "copy", "seed", "activate", "announce", "turn", "capture"},
             to : SessionId \union Provider \union {NoModel},
             ctx : Contexts, rec : [SessionId -> Rows]]

SwitchStates == rec \in [SessionId -> Rows] /\ graph \in Graphs /\ ctx \in Contexts

AllMade(store) ==
  \A s \in SessionId : (store[s].made /\ store[s].model \in Provider) \/ store[s] = Unmade

RowsAreMade == rec[ctx.session].made /\ AllMade(rec)

\* A command under way, and what it remembers of the time when it was given.
OpIsKnown ==
  op = NoSwitch \/
    /\ op \in Switches
    /\ op.kind \in {"model", "new"} => op.pc = "build"
    /\ op.pc \in {"turn", "capture"} => op.kind = "prompt"
    /\ op.pc = "copy" => op.kind = "fork"
    /\ op.kind = "prompt" => op.to \in Provider \union {NoModel}
    /\ op.kind = "model" => op.to \in Provider
    /\ op.kind = "rebuild" => op.to = NoModel
    /\ op.kind = "resume" => op.to \in SessionId
    /\ AllMade(op.rec) /\ op.rec[op.ctx.session].made /\ op.rec[op.ctx.session].model = op.ctx.model
    /\ op.ctx.agent \in {NoModel, op.ctx.model}

\* What a command has changed so far is what its handler takes back.
ChangesAreKnown ==
  /\ op.kind \in {"model", "new"} \/ (op.kind = "fork" /\ op.pc \in {"build", "copy"}) =>
       ctx = op.ctx /\ rec = op.rec
  /\ op.kind \in {"new", "fork"} /\ op.pc \in {"build", "copy"} => CanCreate
  /\ op.kind = "fork" /\ op.pc \in {"seed", "activate", "announce"} =>
       /\ op.rec[ctx.session] = Unmade /\ ctx.session # op.ctx.session
       /\ \A s \in SessionId \ {ctx.session} : rec[s] = op.rec[s]
  /\ op.kind = "resume" =>
       /\ ctx.session = op.to
       /\ op.pc # "announce" =>
            /\ \A s \in SessionId \ {op.to} : rec[s] = op.rec[s]
            /\ [rec[op.to] EXCEPT !.thread = op.rec[op.to].thread] = op.rec[op.to]

\* The agent is of the model in use, but between a resume and the agent it builds.
AgentIsOfModel ==
  /\ op.kind = "rebuild" \/ op.pc \in {"copy", "seed", "activate", "announce", "turn", "capture"} =>
       ctx.agent # NoModel
  /\ ctx.agent \in {NoModel, ctx.model} \/ (op.kind = "resume" /\ op.pc = "build")

\* The session's row has the model in use, unless a prompt has one of its own.
RowHasModel ==
  /\ rec[ctx.session].model = IF op.kind = "prompt" THEN op.ctx.model ELSE ctx.model
  /\ op.kind = "prompt" /\ (op.to = NoModel \/ op.pc = "build") => ctx.model = op.ctx.model

SeedIsThere ==
  /\ op.pc \in {"activate", "announce"} => graph[ctx.session][ctx.thread] # NoGraph
  /\ op.pc = "announce" => rec[ctx.session].thread = ctx.thread

SwitchInv ==
  /\ SwitchStates /\ RowsAreMade /\ OpIsKnown /\ ChangesAreKnown
  /\ AgentIsOfModel /\ RowHasModel /\ SeedIsThere


LEMMA FirstIsThread == 0 \in Thread
<1>1. MaxSeeds \in Nat BY SwitchAssumption
<1> QED BY <1>1 DEF Thread

LEMMA FreshIsUnmade ==
  ASSUME CanCreate PROVE Fresh \in SessionId /\ ~rec[Fresh].made
<1> DEFINE S == {s \in SessionId : ~rec[s].made}
<1>0. MaxSessions \in Nat BY SwitchAssumption
<1>1. PICK T : T = S OBVIOUS
<1>2. T \subseteq Nat /\ T # {}
 <2>1. \E s \in SessionId : ~rec[s].made BY DEF CanCreate
 <2>2. SessionId \subseteq Nat BY <1>0 DEF SessionId
 <2> QED BY <1>1, <2>1, <2>2
<1> DEFINE R == {p \in Nat \X Nat : p[1] < p[2]}
<1>3. IsWellFoundedOn(R, Nat) BY NatLessThanWellFounded, Zenon DEF OpToRel
<1>4. PICK m \in T : \A k \in T : ~(<<k, m>> \in R)
 <2> HIDE DEF R
 <2> QED BY <1>2, <1>3, WFMin
<1>5. m \in SessionId /\ ~rec[m].made BY <1>1
<1>6. ASSUME NEW x \in 1 .. (m - 1) PROVE rec[x].made
 <2>0. m \in Nat /\ MaxSessions \in Nat /\ m <= MaxSessions BY <1>0, <1>5 DEF SessionId
 <2>1. x \in SessionId /\ x \in Nat /\ m \in Nat /\ x < m BY <2>0 DEF SessionId
 <2>2. CASE ~rec[x].made
  <3>1. x \in T BY <1>1, <2>1, <2>2
  <3>2. ~(<<x, m>> \in R) BY <1>4, <3>1
  <3> QED BY <2>1, <3>2
 <2> QED BY <2>2
<1> QED BY <1>5, <1>6 DEF Fresh

LEMMA GraphIsSet ==
  ASSUME graph \in Graphs, NEW s \in SessionId, NEW t \in Thread, NEW v \in Context \union {NoGraph}
  PROVE  /\ [graph EXCEPT ![s][t] = v] \in Graphs /\ [graph EXCEPT ![s][t] = v][s][t] = v
         /\ graph[s][t] \in Context \union {NoGraph}
BY SMTT(30) DEF Graphs

LEMMA ContextsDiffer ==
  ASSUME NEW c \in Context
  PROVE  c # NoGraph /\ c.said \in SUBSET Provider /\ c.private \in SUBSET Provider
<1>1. c.said \in SUBSET Provider /\ c.private \in SUBSET Provider BY DEF Context
<1>2. NoGraph.said = {NoModel} /\ NoModel \notin Provider
  BY SwitchAssumption DEF NoGraph, NoModel
<1> QED BY <1>1, <1>2

LEMMA CleanedIsGraph ==
  ASSUME SwitchStates, NEW from, NEW to
  PROVE  Cleaned(from, to) \in Graphs
<1>1. PICK s \in SessionId, t \in Thread : s = ctx.session /\ t = ctx.thread
  BY DEF SwitchStates, Contexts
<1>2. PICK g \in Context \union {NoGraph} : g = graph[s][t] BY DEF SwitchStates, Graphs
<1>3. PICK h : h = Stripped(g, OwnBlocks(from)) OBVIOUS
<1>4. h \in Context \union {NoGraph} BY <1>2, <1>3 DEF Stripped, Stripping, Context
<1>5. Cleaned(from, to) = graph \/ Cleaned(from, to) = [graph EXCEPT ![s][t] = h]
  BY <1>1, <1>2, <1>3 DEF Cleaned
<1> QED BY <1>4, <1>5, GraphIsSet DEF SwitchStates

LEMMA CapturedIsContext ==
  ASSUME NEW path \in Context, NEW g \in Context \union {NoGraph}, NEW seen
  PROVE  Captured(path, g, seen) \in Context
BY ContextsDiffer DEF Captured, Context

LEMMA AnyPromptKeeps ==
  ASSUME SwitchInv, NEW own, AnyPrompt(own) PROVE SwitchInv'
BY DEF SwitchInv, SwitchStates, RowsAreMade, AllMade, OpIsKnown, ChangesAreKnown, AgentIsOfModel,
   RowHasModel, SeedIsThere, AnyPrompt, NothingRuns, Begin, Pending,
   Switches, Contexts, NoSwitch, NoModel, Model, CanCreate, storeVars

LEMMA BuildFailsKeeps ==
  ASSUME SwitchInv, BuildFails PROVE SwitchInv'
BY DEF SwitchInv, SwitchStates, RowsAreMade, AllMade, OpIsKnown, ChangesAreKnown, AgentIsOfModel,
   RowHasModel, SeedIsThere, BuildFails, SwitchAborts,
   Switches, Contexts, NoSwitch, NoModel, Model, CanCreate, storeVars

LEMMA RebuildKeeps ==
  ASSUME SwitchInv, Rebuild PROVE SwitchInv'
BY DEF SwitchInv, SwitchStates, RowsAreMade, AllMade, OpIsKnown, ChangesAreKnown, AgentIsOfModel,
   RowHasModel, SeedIsThere, Rebuild, NothingRuns, Begin, AnyCommand,
   Switches, Contexts, NoSwitch, NoModel, Model, CanCreate, storeVars

LEMMA ModelCommandKeeps ==
  ASSUME SwitchInv, NEW model \in Provider, ModelCommand(model) PROVE SwitchInv'
BY DEF SwitchInv, SwitchStates, RowsAreMade, AllMade, OpIsKnown, ChangesAreKnown, AgentIsOfModel,
   RowHasModel, SeedIsThere, ModelCommand, NothingRuns, Begin, AnyCommand,
   Switches, Contexts, NoSwitch, NoModel, Model, CanCreate, storeVars

LEMMA NewKeeps ==
  ASSUME SwitchInv, New PROVE SwitchInv'
BY DEF SwitchInv, SwitchStates, RowsAreMade, AllMade, OpIsKnown, ChangesAreKnown, AgentIsOfModel,
   RowHasModel, SeedIsThere, New, NothingRuns, Begin, AnyCommand,
   Switches, Contexts, NoSwitch, NoModel, Model, CanCreate, storeVars

LEMMA ForkKeeps ==
  ASSUME SwitchInv, Fork PROVE SwitchInv'
BY DEF SwitchInv, SwitchStates, RowsAreMade, AllMade, OpIsKnown, ChangesAreKnown, AgentIsOfModel,
   RowHasModel, SeedIsThere, Fork, NothingRuns, Begin, AnyCommand,
   Switches, Contexts, NoSwitch, NoModel, Model, CanCreate, storeVars

\* A command goes on.
LEMMA SwitchGoesOn ==
  ASSUME SwitchInv, op.kind # "none",
         NEW pc \in {"build", "copy", "seed", "activate", "announce", "turn", "capture"}, GoesTo(pc),
         pc \in {"turn", "capture"} => op.kind = "prompt", pc = "copy" => op.kind = "fork",
         op.kind \in {"model", "new"} => pc = "build"
  PROVE  /\ op' \in Switches /\ op'.kind = op.kind /\ op'.pc = pc /\ op'.to = op.to
         /\ op'.ctx = op.ctx /\ op'.rec = op.rec /\ OpIsKnown'
<1>1. op \in Switches BY DEF SwitchInv, OpIsKnown, NoSwitch
<1>2. op' = [op EXCEPT !.pc = pc] BY DEF GoesTo
<1>3. /\ op' \in Switches /\ op'.kind = op.kind /\ op'.pc = pc /\ op'.to = op.to
      /\ op'.ctx = op.ctx /\ op'.rec = op.rec
  BY <1>1, <1>2 DEF Switches
<1> QED BY <1>1, <1>3 DEF SwitchInv, OpIsKnown, NoSwitch

LEMMA SwitchAnnouncedKeeps ==
  ASSUME SwitchInv, SwitchAnnounced PROVE SwitchInv'
<1>1. op.pc = "announce" /\ op \in Switches /\ UNCHANGED <<rec, graph>>
  BY DEF SwitchAnnounced, storeVars, SwitchInv, OpIsKnown, NoSwitch
<1>2. CASE op.kind = "prompt" /\ GoesTo("turn")
           /\ ctx' = IF op.ctx.agent = NoModel /\ op.to = NoModel THEN [ctx EXCEPT !.history = NoModel] ELSE ctx
 <2>1. OpIsKnown' /\ op'.kind = "prompt" /\ op'.pc = "turn" /\ op'.to = op.to /\ op'.ctx = op.ctx
       /\ op'.rec = op.rec
   BY <1>1, <1>2, SwitchGoesOn
 <2>2. ctx' \in Contexts /\ ctx'.session = ctx.session /\ ctx'.thread = ctx.thread
       /\ ctx'.agent = ctx.agent /\ ctx'.model = ctx.model
   BY <1>2 DEF SwitchInv, SwitchStates, Contexts
 <2> QED
   BY <1>1, <1>2, <2>1, <2>2 DEF SwitchInv, SwitchStates, RowsAreMade, ChangesAreKnown,
      AgentIsOfModel, RowHasModel, SeedIsThere, CanCreate
<1>3. CASE op.kind = "rebuild" /\ SwitchOver /\ UNCHANGED <<ctx, agentsOf>>
  BY <1>1, <1>3 DEF SwitchOver, NoSwitch, SwitchInv, SwitchStates, RowsAreMade, AllMade, OpIsKnown,
     ChangesAreKnown, AgentIsOfModel, RowHasModel, SeedIsThere
<1>4. CASE op.kind \in {"resume", "fork"} /\ SwitchOver
           /\ ctx' = IF op.kind = "resume" THEN [ctx EXCEPT !.history = NoModel] ELSE ctx
 <2>2. ctx' \in Contexts /\ ctx'.session = ctx.session /\ ctx'.thread = ctx.thread
       /\ ctx'.agent = ctx.agent /\ ctx'.model = ctx.model
   BY <1>4 DEF SwitchInv, SwitchStates, Contexts
 <2> QED
   BY <1>1, <1>4, <2>2 DEF SwitchOver, NoSwitch, SwitchInv, SwitchStates, RowsAreMade, AllMade,
      OpIsKnown, ChangesAreKnown, AgentIsOfModel, RowHasModel, SeedIsThere
<1> QED BY <1>2, <1>3, <1>4 DEF SwitchAnnounced

LEMMA RebuiltKeeps ==
  ASSUME SwitchInv, Rebuilt PROVE SwitchInv'
<1>1. /\ op.kind = "rebuild" /\ op.pc = "build" /\ op \in Switches /\ UNCHANGED <<rec, graph>>
      /\ ctx' = [ctx EXCEPT !.agent = Model]
  BY DEF Rebuilt, storeVars, SwitchInv, OpIsKnown, NoSwitch
<1>2. /\ ctx' \in Contexts /\ ctx'.session = ctx.session /\ ctx'.thread = ctx.thread
      /\ ctx'.agent = ctx.model /\ ctx'.model = ctx.model /\ ctx.model # NoModel
  BY <1>1, SwitchAssumption DEF SwitchInv, SwitchStates, Contexts, Model, NoModel
<1>3. CASE SwitchOver
  BY <1>1, <1>2, <1>3 DEF SwitchOver, NoSwitch, SwitchInv, SwitchStates, RowsAreMade, AllMade,
     OpIsKnown, ChangesAreKnown, AgentIsOfModel, RowHasModel, SeedIsThere
<1>4. CASE GoesTo("seed")
 <2>1. OpIsKnown' /\ op'.kind = "rebuild" /\ op'.pc = "seed" /\ op'.to = op.to /\ op'.ctx = op.ctx
       /\ op'.rec = op.rec
   BY <1>1, <1>4, SwitchGoesOn
 <2> QED
   BY <1>1, <1>2, <2>1 DEF SwitchInv, SwitchStates, RowsAreMade, ChangesAreKnown, AgentIsOfModel,
      RowHasModel, SeedIsThere, CanCreate
<1> QED BY <1>3, <1>4 DEF Rebuilt

\* No command is under way any more.
LEMMA Rests ==
  ASSUME op' = NoSwitch, SwitchStates', RowsAreMade', ctx'.agent \in {NoModel, ctx'.model},
         rec'[ctx'.session].model = ctx'.model
  PROVE  SwitchInv'
<1>1. op'.kind = "none" /\ op'.pc = "none" BY DEF NoSwitch
<1> QED BY <1>1 DEF SwitchInv, OpIsKnown, ChangesAreKnown, AgentIsOfModel, RowHasModel, SeedIsThere

LEMMA ModelIsKnown ==
  ASSUME SwitchStates PROVE ctx.model \in Provider /\ ctx.model # NoModel
        /\ ctx.session \in SessionId /\ ctx.thread \in Thread
BY SwitchAssumption DEF SwitchStates, Contexts, NoModel

LEMMA PromptBuiltKeeps ==
  ASSUME SwitchInv, PromptBuilt PROVE SwitchInv'
<1>1. /\ op.kind = "prompt" /\ op.pc = "build" /\ op.to = NoModel /\ rec' = rec
      /\ graph' = graph \/ graph' = Cleaned(ctx.history, Model)
      /\ ctx'.agent = Model /\ ctx'.session = ctx.session /\ ctx'.thread = ctx.thread
      /\ ctx'.model = ctx.model /\ ctx' \in Contexts
  BY DEF PromptBuilt, Ensured, SwitchInv, SwitchStates, Contexts, Model
<1>2. PICK next \in {"seed", "turn"} : GoesTo(next) BY DEF PromptBuilt, Ensured
<1>3. OpIsKnown' /\ op'.kind = "prompt" /\ op'.pc = next /\ op'.to = op.to /\ op'.ctx = op.ctx
  BY <1>1, <1>2, SwitchGoesOn
<1>4. PICK from, to : from = ctx.history /\ to = Model OBVIOUS
<1>5. graph' \in Graphs BY <1>1, <1>4, CleanedIsGraph DEF SwitchInv, SwitchStates
<1>6. Model # NoModel BY ModelIsKnown DEF SwitchInv, Model
<1> QED
  BY <1>1, <1>2, <1>3, <1>5, <1>6 DEF SwitchInv, SwitchStates, RowsAreMade, ChangesAreKnown,
     AgentIsOfModel, RowHasModel, SeedIsThere, CanCreate, Model

LEMMA OwnBuiltKeeps ==
  ASSUME SwitchInv, OwnBuilt PROVE SwitchInv'
<1>0. op.kind = "prompt" /\ op.pc = "build" /\ op.to \in Provider /\ op.to # NoModel
  BY DEF OwnBuilt, SwitchInv, OpIsKnown, NoSwitch
<1>1. /\ rec' = rec
      /\ ctx'.agent = op.to /\ ctx'.session = ctx.session /\ ctx'.thread = ctx.thread
      /\ ctx'.model = op.to /\ ctx' \in Contexts
  BY <1>0 DEF OwnBuilt, SwitchInv, SwitchStates, Contexts
<1>2. PICK next \in {"seed", "turn"} : GoesTo(next) BY DEF OwnBuilt
<1>3. OpIsKnown' /\ op'.kind = "prompt" /\ op'.pc = next /\ op'.to = op.to /\ op'.ctx = op.ctx
  BY <1>0, <1>2, SwitchGoesOn
<1>4. PICK from, to : from = (IF ctx.history # NoModel THEN ctx.history ELSE Model) /\ to = op.to
  OBVIOUS
<1>5. graph' = graph \/ graph' = Cleaned(from, to) BY <1>4 DEF OwnBuilt
<1>6. graph' \in Graphs BY <1>5, CleanedIsGraph DEF SwitchInv, SwitchStates
<1> QED
  BY <1>0, <1>1, <1>2, <1>3, <1>6 DEF SwitchInv, SwitchStates, RowsAreMade, ChangesAreKnown,
     AgentIsOfModel, RowHasModel, SeedIsThere, CanCreate

LEMMA ModelAnswersKeeps ==
  ASSUME SwitchInv, ModelAnswers PROVE SwitchInv'
<1>1. op.pc = "turn" /\ op.kind = "prompt" /\ GoesTo("capture") /\ UNCHANGED <<rec, ctx>>
      /\ ctx.agent \in Provider
  BY DEF ModelAnswers, SwitchInv, OpIsKnown, NoSwitch, AgentIsOfModel, SwitchStates, Contexts
<1>2. PICK s \in SessionId, t \in Thread, a \in Provider : s = ctx.session /\ t = ctx.thread
      /\ a = ctx.agent
  BY <1>1 DEF SwitchInv, SwitchStates, Contexts
<1>3. PICK g \in Context \union {NoGraph} : g = graph[s][t]
  BY DEF SwitchInv, SwitchStates, Graphs
<1>4. PICK h : h = IF g = NoGraph THEN [said |-> {a}, private |-> {a}]
                   ELSE [said |-> g.said \union {a}, private |-> g.private \union {a}]
  OBVIOUS
<1>5. h \in Context BY <1>4 DEF Context
<1>6. graph' = [graph EXCEPT ![s][t] = h] BY <1>2, <1>3, <1>4 DEF ModelAnswers
<1>7. graph' \in Graphs BY <1>5, <1>6, GraphIsSet DEF SwitchInv, SwitchStates
<1>8. OpIsKnown' /\ op'.kind = "prompt" /\ op'.pc = "capture" /\ op'.to = op.to /\ op'.ctx = op.ctx
  BY <1>1, SwitchGoesOn
<1> QED
  BY <1>1, <1>7, <1>8 DEF SwitchInv, SwitchStates, RowsAreMade, ChangesAreKnown, AgentIsOfModel,
     RowHasModel, SeedIsThere, CanCreate

\* A row that changes but for its model.
LEMMA RowIsSet ==
  ASSUME SwitchStates, RowsAreMade, NEW s \in SessionId, rec[s].made, NEW r \in Rows,
        rec' = [rec EXCEPT ![s] = r],
         r.made, r.model = rec[s].model, ctx' \in Contexts, rec[ctx'.session].made
  PROVE  rec' \in [SessionId -> Rows] /\ RowsAreMade'
<1>1. ctx'.session \in SessionId BY DEF Contexts
<1>2. /\ rec' \in [SessionId -> Rows] /\ rec'[s] = r
      /\ \A x \in SessionId \ {s} : rec'[x] = rec[x]
  BY DEF SwitchStates
<1>3. rec[s].model \in Provider \/ rec[s] = Unmade BY DEF RowsAreMade, AllMade
<1>4. rec[s].model \in Provider BY <1>3 DEF Unmade
<1> QED BY <1>1, <1>2, <1>4 DEF RowsAreMade, AllMade

LEMMA TurnEndsKeeps ==
  ASSUME SwitchInv, TurnEnds PROVE SwitchInv'
<1>1. op.pc \in {"turn", "capture"} /\ op.kind = "prompt" /\ op' = NoSwitch
  BY DEF TurnEnds, SwitchOver, SwitchInv, OpIsKnown, NoSwitch
<1>0. PICK seen : seen = cursor[ctx.session][ctx.thread] OBVIOUS
<1>2. PICK s \in SessionId, t \in Thread : s = ctx.session /\ t = ctx.thread /\ seen = cursor[s][t]
  BY <1>0 DEF SwitchInv, SwitchStates, Contexts
<1>3. PICK g \in Context \union {NoGraph} : g = graph[s][t]
  BY DEF SwitchInv, SwitchStates, Graphs
<1>4. PICK path : path = Captured(rec[s].path, g, seen) OBVIOUS
<1>5. rec[s] \in Rows /\ rec[s].path \in Context /\ rec[s].made
  BY <1>2 DEF SwitchInv, SwitchStates, RowsAreMade, Rows
<1>6. path \in Context BY <1>4, <1>5, CapturedIsContext
<1>7. PICK r : r = [rec[s] EXCEPT !.path = path, !.cut = FALSE] OBVIOUS
<1>8. r \in Rows /\ r.made = rec[s].made /\ r.model = rec[s].model
  BY <1>5, <1>6, <1>7 DEF Rows
<1>9. rec' = [rec EXCEPT ![s] = r] BY <1>2, <1>3, <1>4, <1>7 DEF TurnEnds, Capture
<1>10. rec[s].model = op.ctx.model /\ op.ctx \in Contexts /\ op.ctx.agent \in {NoModel,
      op.ctx.model} /\ (op.to = NoModel => ctx.model = op.ctx.model)
       /\ (op.to = NoModel \/ op.to \in Provider)
  BY <1>1, <1>2 DEF SwitchInv, RowHasModel, OpIsKnown, NoSwitch, Switches
<1>11. CASE op.to = NoModel
 <2>1. UNCHANGED <<graph, ctx>> BY <1>11 DEF TurnEnds
 <2>2. rec' \in [SessionId -> Rows] /\ RowsAreMade'
   BY <1>2, <1>5, <1>8, <1>9, <2>1, RowIsSet DEF SwitchInv, SwitchStates
 <2>3. ctx.agent \in {NoModel, ctx.model} BY <1>1 DEF SwitchInv, AgentIsOfModel
 <2>4. rec'[ctx'.session].model = ctx'.model
   BY <1>2, <1>8, <1>9, <1>10, <1>11, <2>1 DEF SwitchInv, SwitchStates
 <2> QED BY <1>1, <2>1, <2>2, <2>3, <2>4, Rests DEF SwitchInv, SwitchStates
<1>12. CASE op.to # NoModel
 <2>1. /\ ctx' = [ctx EXCEPT !.model = op.ctx.model, !.agent = op.ctx.agent,
                             !.history = IF op.ctx.agent = NoModel THEN op.to ELSE @]
       /\ graph' = graph \/ graph' = GivenBack
   BY <1>12 DEF TurnEnds
 <2>2. ctx' \in Contexts /\ ctx'.session = s /\ ctx'.model = op.ctx.model /\ ctx'.agent = op.ctx.agent
   BY <1>2, <1>10, <1>12, <2>1 DEF SwitchInv, SwitchStates, Contexts
 <2>3. rec' \in [SessionId -> Rows] /\ RowsAreMade'
   BY <1>2, <1>5, <1>8, <1>9, <2>2, RowIsSet DEF SwitchInv
 <2>4. rec'[ctx'.session].model = ctx'.model
   BY <1>8, <1>9, <1>10, <2>2 DEF SwitchInv, SwitchStates
 <2>5. PICK from, to : from = op.to /\ to = op.ctx.model OBVIOUS
 <2>6. graph' \in Graphs
   BY <2>1, <2>5, CleanedIsGraph DEF GivenBack, SwitchInv, SwitchStates
 <2> QED BY <1>1, <1>10, <2>2, <2>3, <2>4, <2>6, Rests DEF SwitchStates
<1> QED BY <1>11, <1>12

LEMMA SeedWritesKeeps ==
  ASSUME SwitchInv, SeedWrites PROVE SwitchInv'
<1>1. op.pc = "seed" /\ op.kind \in {"prompt", "rebuild", "fork", "resume"} /\ GoesTo("activate")
      /\ UNCHANGED <<rec, ctx>>
  BY DEF SeedWrites, SwitchInv, OpIsKnown, NoSwitch, Switches
<1>0. PICK others : others = Foreign(Model) OBVIOUS
<1>2. PICK s \in SessionId, t \in Thread, path \in Context :
        s = ctx.session /\ t = ctx.thread /\ path = rec[s].path /\ others = Foreign(Model)
  BY <1>0 DEF SwitchInv, SwitchStates, Contexts, Rows
<1>3. PICK h \in Context : h = Stripping(path, others) BY DEF Stripping, Context
<1>4. graph' = [graph EXCEPT ![s][t] = h] BY <1>2, <1>3 DEF SeedWrites
<1>5. graph' \in Graphs /\ graph'[s][t] # NoGraph
 <2>1. h \in Context \union {NoGraph} /\ h # NoGraph BY <1>3, ContextsDiffer
 <2>2. graph \in Graphs BY DEF SwitchInv, SwitchStates
 <2>3. /\ [graph EXCEPT ![s][t] = h] \in Graphs /\ [graph EXCEPT ![s][t] = h][s][t] = h
   BY <2>1, <2>2, GraphIsSet
 <2> QED BY <1>4, <2>1, <2>3
<1>6. OpIsKnown' /\ op'.kind = op.kind /\ op'.pc = "activate" /\ op'.to = op.to /\ op'.ctx = op.ctx
      /\ op'.rec = op.rec
  BY <1>1, SwitchGoesOn
<1> QED
  BY <1>1, <1>2, <1>5, <1>6 DEF SwitchInv, SwitchStates, RowsAreMade, ChangesAreKnown, AgentIsOfModel,
     RowHasModel, SeedIsThere, CanCreate

LEMMA SeedActivatesKeeps ==
  ASSUME SwitchInv, SeedActivates PROVE SwitchInv'
<1>1. /\ op.pc = "activate" /\ op.kind \in {"prompt", "rebuild", "fork", "resume"} /\ GoesTo("announce")
      /\ UNCHANGED <<graph, ctx>>
  BY DEF SeedActivates, SwitchInv, OpIsKnown, NoSwitch, Switches
<1>2. PICK s \in SessionId, t \in Thread : s = ctx.session /\ t = ctx.thread
  BY DEF SwitchInv, SwitchStates, Contexts
<1>3. rec[s] \in Rows /\ rec[s].made /\ rec[s].rows \union {t} \in SUBSET Thread
  BY <1>2 DEF SwitchInv, SwitchStates, RowsAreMade, Rows
<1>4. PICK r : r = [rec[s] EXCEPT !.thread = t, !.rows = @ \union {t}] OBVIOUS
<1>5. r \in Rows /\ r.made /\ r.model = rec[s].model /\ r.thread = t BY <1>3, <1>4 DEF Rows
<1>6. rec' = [rec EXCEPT ![s] = r] BY <1>2, <1>4 DEF SeedActivates
<1>7. rec' \in [SessionId -> Rows] /\ RowsAreMade'
  BY <1>1, <1>2, <1>3, <1>5, <1>6, RowIsSet DEF SwitchInv, SwitchStates
<1>8. rec'[s] = r /\ \A x \in SessionId \ {s} : rec'[x] = rec[x]
  BY <1>6 DEF SwitchInv, SwitchStates
<1>9. OpIsKnown' /\ op'.kind = op.kind /\ op'.pc = "announce" /\ op'.to = op.to /\ op'.ctx = op.ctx
      /\ op'.rec = op.rec
  BY <1>1, SwitchGoesOn
<1>10. ChangesAreKnown' BY <1>1, <1>2, <1>8, <1>9 DEF SwitchInv, ChangesAreKnown
<1>11. AgentIsOfModel' /\ RowHasModel' /\ SeedIsThere'
  BY <1>1, <1>2, <1>5, <1>8, <1>9 DEF SwitchInv, AgentIsOfModel, RowHasModel, SeedIsThere
<1> QED BY <1>1, <1>7, <1>9, <1>10, <1>11 DEF SwitchInv, SwitchStates

LEMMA UnseededIsGraph == SwitchStates => Unseeded \in Graphs
<1> SUFFICES ASSUME SwitchStates PROVE Unseeded \in Graphs OBVIOUS
<1>1. PICK s \in SessionId, t \in Thread : s = ctx.session /\ t = ctx.thread
  BY DEF SwitchStates, Contexts
<1>2. Unseeded = [graph EXCEPT ![s][t] = NoGraph] BY <1>1 DEF Unseeded
<1> QED BY <1>2, GraphIsSet DEF SwitchStates

\* The handler of a resume puts everything back.
LEMMA TargetIsRestored ==
  ASSUME SwitchInv, op.kind = "resume", op.pc \in {"build", "seed", "activate"}, RestoreTarget
  PROVE  rec' = op.rec /\ ctx' = op.ctx
<1>0. PICK th : th = op.rec[op.to].thread OBVIOUS
<1>1. PICK s \in SessionId : s = op.to /\ th = op.rec[s].thread
  BY <1>0 DEF SwitchInv, OpIsKnown, NoSwitch
<1>2. op.rec \in [SessionId -> Rows] /\ rec \in [SessionId -> Rows]
  BY DEF SwitchInv, SwitchStates, OpIsKnown, NoSwitch, Switches
<1>3. rec' = [rec EXCEPT ![s].thread = th] BY <1>1 DEF RestoreTarget
<1>4. /\ \A x \in SessionId \ {s} : rec[x] = op.rec[x]
      /\ [rec[s] EXCEPT !.thread = th] = op.rec[s]
  BY <1>1 DEF SwitchInv, ChangesAreKnown
<1>5. \A x \in SessionId : rec'[x] = op.rec[x] BY <1>2, <1>3, <1>4
<1>6. rec' = [x \in SessionId |-> rec'[x]] /\ op.rec = [x \in SessionId |-> op.rec[x]]
  BY <1>2, <1>3
<1> QED BY <1>5, <1>6 DEF RestoreTarget

\* The handler of a fork deletes the new session.
LEMMA ForkIsDeleted ==
  ASSUME SwitchInv, op.kind = "fork", op.pc \in {"seed", "activate"}, NEW g \in Graphs, DeleteFork(g)
  PROVE  rec' = op.rec /\ ctx' = op.ctx /\ graph' \in Graphs
<1>1. PICK s \in SessionId : s = ctx.session BY DEF SwitchInv, SwitchStates, Contexts
<1>2. op.rec \in [SessionId -> Rows] /\ rec \in [SessionId -> Rows]
  BY DEF SwitchInv, SwitchStates, OpIsKnown, NoSwitch, Switches
<1>3. rec' = [rec EXCEPT ![s] = Unmade] /\ ctx' = op.ctx /\ graph' = [g EXCEPT ![s] = [t \in Thread |-> NoGraph]]
  BY <1>1 DEF DeleteFork
<1>4. op.rec[s] = Unmade /\ \A x \in SessionId \ {s} : rec[x] = op.rec[x]
  BY <1>1 DEF SwitchInv, ChangesAreKnown
<1>5. \A x \in SessionId : rec'[x] = op.rec[x] BY <1>2, <1>3, <1>4
<1>6. rec' = [x \in SessionId |-> rec'[x]] /\ op.rec = [x \in SessionId |-> op.rec[x]]
  BY <1>2, <1>3
<1>7. graph' \in Graphs BY <1>3 DEF Graphs
<1> QED BY <1>3, <1>5, <1>6, <1>7

\* What a command remembers can be gone back to.
LEMMA GoesBack ==
  ASSUME SwitchInv, op.kind # "none", rec' = op.rec, ctx' = op.ctx, graph' \in Graphs, SwitchAborts
  PROVE  SwitchInv'
<1>1. /\ op.ctx \in Contexts /\ op.rec \in [SessionId -> Rows]
      /\ AllMade(op.rec) /\ op.rec[op.ctx.session].made /\ op.rec[op.ctx.session].model = op.ctx.model
      /\ op.ctx.agent \in {NoModel, op.ctx.model}
  BY DEF SwitchInv, OpIsKnown, NoSwitch, Switches
<1> QED BY <1>1, Rests DEF SwitchAborts, SwitchStates, RowsAreMade, AllMade

\* A prompt that fails gives back the model of its own.
LEMMA OwnIsGivenBack ==
  ASSUME SwitchInv, op.kind = "prompt", rec' = rec, graph' \in Graphs, SwitchAborts,
         ctx' = IF op.to = NoModel THEN ctx
                ELSE [ctx EXCEPT !.model = op.ctx.model, !.agent = op.ctx.agent,
                                 !.history = IF op.ctx.agent = NoModel THEN op.to ELSE @]
  PROVE  SwitchInv'
<1>1. /\ op.ctx \in Contexts /\ op.ctx.agent \in {NoModel, op.ctx.model}
      /\ op.to = NoModel \/ op.to \in Provider
  BY DEF SwitchInv, OpIsKnown, NoSwitch, Switches
<1>2. rec[ctx.session].model = op.ctx.model /\ (op.to = NoModel => ctx.model = op.ctx.model)
  BY DEF SwitchInv, RowHasModel
<1>3. CASE op.to = NoModel
 <2>1. ctx' = ctx /\ ctx.agent \in {NoModel, ctx.model}
   BY <1>3 DEF SwitchInv, AgentIsOfModel
 <2> QED BY <1>2, <1>3, <2>1, Rests DEF SwitchInv, SwitchStates, RowsAreMade, AllMade, SwitchAborts
<1>4. CASE op.to # NoModel
 <2>1. /\ ctx' \in Contexts /\ ctx'.session = ctx.session
       /\ ctx'.model = op.ctx.model /\ ctx'.agent = op.ctx.agent
   BY <1>1, <1>4 DEF SwitchInv, SwitchStates, Contexts
 <2> QED BY <1>1, <1>2, <2>1, Rests DEF SwitchInv, SwitchStates, RowsAreMade, AllMade, SwitchAborts
<1> QED BY <1>3, <1>4

LEMMA SeedFailsKeeps ==
  ASSUME SwitchInv, SeedFails PROVE SwitchInv'
<1>1. op.pc \in {"seed", "activate"} /\ SwitchAborts /\ op.kind \in {"prompt", "rebuild", "fork", "resume"}
  BY DEF SeedFails, SwitchInv, OpIsKnown, NoSwitch, Switches
<1>2. PICK g : g = Unseeded OBVIOUS
<1>3. g \in Graphs BY <1>2, UnseededIsGraph DEF SwitchInv
<1>4. CASE op.kind = "resume"
 <2>1. RestoreTarget /\ graph' = g BY <1>2, <1>4 DEF SeedFails
 <2> QED BY <1>1, <1>3, <1>4, <2>1, TargetIsRestored, GoesBack
<1>5. CASE op.kind = "fork"
 <2>1. DeleteFork(g) BY <1>2, <1>5 DEF SeedFails
 <2>2. rec' = op.rec /\ ctx' = op.ctx /\ graph' \in Graphs
   BY <1>1, <1>3, <1>5, <2>1, ForkIsDeleted
 <2> QED BY <1>1, <1>5, <2>2, GoesBack
<1>6. CASE op.kind = "prompt" BY <1>1, <1>2, <1>3, <1>6, OwnIsGivenBack DEF SeedFails
<1>7. CASE op.kind = "rebuild"
 <2>1. graph' = g /\ rec' = rec BY <1>2, <1>7 DEF SeedFails
 <2>2. ctx' = IF op.to = NoModel THEN ctx
              ELSE [ctx EXCEPT !.model = op.ctx.model, !.agent = op.ctx.agent,
                               !.history = IF op.ctx.agent = NoModel THEN op.to ELSE @]
   BY <1>7 DEF SeedFails
 <2>3. op.to = NoModel BY <1>7 DEF SwitchInv, OpIsKnown, NoSwitch
 <2>4. ctx' = ctx /\ ctx.agent \in {NoModel, ctx.model} /\ rec[ctx.session].model = ctx.model
   BY <1>7, <2>2, <2>3 DEF SwitchInv, AgentIsOfModel, RowHasModel
 <2> QED
   BY <1>1, <1>3, <2>1, <2>4, Rests DEF SwitchInv, SwitchStates, RowsAreMade, AllMade, SwitchAborts
<1> QED BY <1>1, <1>4, <1>5, <1>6, <1>7

LEMMA SwitchUnheardKeeps ==
  ASSUME SwitchInv, SwitchUnheard PROVE SwitchInv'
<1>1. op.pc = "announce" /\ SwitchAborts /\ op.kind # "none" /\ rec' = rec
  BY DEF SwitchUnheard, SwitchInv, OpIsKnown, NoSwitch, Switches
<1>2. PICK from, to : from = op.to /\ to = op.ctx.model OBVIOUS
<1>3. graph' = graph \/ graph' = Cleaned(from, to) BY <1>2 DEF SwitchUnheard
<1>4. graph' \in Graphs BY <1>3, CleanedIsGraph DEF SwitchInv, SwitchStates
<1>5. CASE op.kind = "prompt"
 <2>1. ctx' = IF op.to = NoModel THEN ctx
              ELSE [ctx EXCEPT !.model = op.ctx.model, !.agent = op.ctx.agent,
                               !.history = IF op.ctx.agent = NoModel THEN op.to ELSE @]
   BY <1>5 DEF SwitchUnheard
 <2> QED BY <1>1, <1>4, <1>5, <2>1, OwnIsGivenBack
<1>6. CASE op.kind # "prompt"
 <2>1. ctx' = ctx /\ ctx.agent \in {NoModel, ctx.model} /\ rec[ctx.session].model = ctx.model
   BY <1>1, <1>6 DEF SwitchUnheard, SwitchInv, AgentIsOfModel, RowHasModel
 <2> QED BY <1>1, <1>4, <2>1, Rests DEF SwitchInv, SwitchStates, RowsAreMade, AllMade, SwitchAborts
<1> QED BY <1>5, <1>6

LEMMA ModelSwitchedKeeps ==
  ASSUME SwitchInv, ModelSwitched PROVE SwitchInv'
<1>1. op.kind = "model" /\ op.pc = "build" /\ op.to \in Provider /\ op' = NoSwitch
  BY DEF ModelSwitched, SwitchOver, SwitchInv, OpIsKnown, NoSwitch
<1>2. PICK s \in SessionId, t \in Thread, m \in Provider : s = ctx.session /\ t = ctx.thread /\ m = op.to
  BY <1>1 DEF SwitchInv, SwitchStates, Contexts
<1>3. /\ ctx' \in Contexts /\ ctx'.session = s /\ ctx'.model = m /\ ctx'.agent = m
  BY <1>1, <1>2 DEF ModelSwitched, SwitchInv, SwitchStates, Contexts
<1>4. PICK from : from = Model OBVIOUS
<1>5. PICK all \in Graphs : all = ForModel
 <2>1. ForModel = Cleaned(from, m) BY <1>2, <1>4 DEF ForModel
 <2> QED BY <2>1, CleanedIsGraph DEF SwitchInv
<1>6. graph' = graph \/ graph' = all BY <1>5 DEF ModelSwitched
<1>7. graph' \in Graphs BY <1>5, <1>6 DEF SwitchInv, SwitchStates
<1>0. PICK seen : seen = cursor[s][t] OBVIOUS
<1>8. PICK g \in Context \union {NoGraph} : g = all[s][t] /\ seen = cursor[s][t]
  BY <1>0 DEF Graphs
<1>9. rec[s] \in Rows /\ rec[s].path \in Context /\ rec[s].made
  BY <1>2 DEF SwitchInv, SwitchStates, RowsAreMade, Rows
<1>10. PICK path \in Context : path = Captured(rec[s].path, g, seen)
  BY <1>9, CapturedIsContext
<1>11. PICK r \in Rows : /\ r.made /\ r.model = m /\ rec' = [rec EXCEPT ![s] = r]
 <2>1. CASE Model = op.to
  <3>1. rec' = [rec EXCEPT ![s] = [rec[s] EXCEPT !.model = m]]
    BY <1>2, <2>1 DEF ModelSwitched
  <3>2. PICK r \in Rows : r = [rec[s] EXCEPT !.model = m] BY <1>9 DEF Rows
  <3>3. r.made /\ r.model = m BY <1>9, <3>2 DEF Rows
  <3> QED BY <3>1, <3>2, <3>3
 <2>2. CASE Model # op.to
  <3>1. rec' = [rec EXCEPT ![s] = [rec[s] EXCEPT !.model = m, !.path = path, !.thread = t]]
   <4>1. rec' = [rec EXCEPT ![ctx.session].model = op.to,
                            ![ctx.session].path = Captured(@, ForModel[ctx.session][ctx.thread],
                                                           cursor[ctx.session][ctx.thread]),
                            ![ctx.session].thread = ctx.thread]
     BY <2>2 DEF ModelSwitched
   <4>2. rec' = [rec EXCEPT ![s].model = m, ![s].path = Captured(rec[s].path, g, seen), ![s].thread = t]
     BY <1>2, <1>5, <1>8, <4>1
   <4> QED BY <1>10, <4>2
  <3>2. PICK r \in Rows : r = [rec[s] EXCEPT !.model = m, !.path = path, !.thread = t]
    BY <1>9 DEF Rows
  <3>3. r.made /\ r.model = m BY <1>9, <3>2 DEF Rows
  <3> QED BY <3>1, <3>2, <3>3
 <2> QED BY <2>1, <2>2
<1>12. /\ rec' \in [SessionId -> Rows] /\ rec'[s] = r /\ \A x \in SessionId \ {s} : rec'[x] = rec[x]
  BY <1>11 DEF SwitchInv, SwitchStates
<1>13. RowsAreMade' /\ rec'[ctx'.session].model = ctx'.model
  BY <1>3, <1>11, <1>12 DEF SwitchInv, RowsAreMade, AllMade
<1> QED BY <1>1, <1>3, <1>7, <1>12, <1>13, Rests DEF SwitchStates

\* The row already has what the handler of /model writes: the model that is in use.
LEMMA ModelIsGivenBack ==
  ASSUME SwitchInv, ModelFails PROVE rec' = rec /\ ctx' = ctx /\ ctx = op.ctx /\ rec = op.rec
<1>1. op.kind = "model" /\ op.pc = "build" /\ ctx' = ctx BY DEF ModelFails
<1>2. PICK s \in SessionId, m \in Provider : s = ctx.session /\ m = ctx.model
  BY DEF SwitchInv, SwitchStates, Contexts
<1>3. rec[s] \in Rows /\ rec[s].model = m
  BY <1>1, <1>2 DEF SwitchInv, SwitchStates, RowHasModel
<1>4. rec' = [rec EXCEPT ![s] = [rec[s] EXCEPT !.model = m]] BY <1>2 DEF ModelFails, Model
<1>5. [rec[s] EXCEPT !.model = m] = rec[s] BY <1>3 DEF Rows
<1>6. [rec EXCEPT ![s] = rec[s]] = rec BY DEF SwitchInv, SwitchStates
<1> QED BY <1>1, <1>4, <1>5, <1>6 DEF SwitchInv, ChangesAreKnown

LEMMA ModelFailsKeeps ==
  ASSUME SwitchInv, ModelFails PROVE SwitchInv'
<1>1. op.kind = "model" /\ SwitchAborts /\ op.to \in Provider
  BY DEF ModelFails, SwitchInv, OpIsKnown, NoSwitch
<1>2. PICK from, to : from = Model /\ to = op.to OBVIOUS
<1>3. graph' = graph \/ graph' = Cleaned(from, to) BY <1>2 DEF ModelFails, ForModel
<1>4. graph' \in Graphs BY <1>3, CleanedIsGraph DEF SwitchInv, SwitchStates
<1> QED BY <1>1, <1>4, ModelIsGivenBack, GoesBack

\* A new session takes a row that nobody has.
LEMMA RowIsCreated ==
  ASSUME SwitchStates, RowsAreMade, NEW f \in SessionId, ~rec[f].made, NEW r \in Rows, r.made,
        r.model = ctx.model,
         rec' = [rec EXCEPT ![f] = r], ctx' \in Contexts, ctx'.session = f
  PROVE  /\ rec' \in [SessionId -> Rows] /\ RowsAreMade' /\ rec'[f] = r
         /\ rec[f] = Unmade /\ f # ctx.session /\ \A x \in SessionId \ {f} : rec'[x] = rec[x]
<1>1. rec' \in [SessionId -> Rows] /\ rec'[f] = r /\ \A x \in SessionId \ {f} : rec'[x] = rec[x]
  BY DEF SwitchStates
<1>2. r.model \in Provider BY ModelIsKnown
<1> QED BY <1>1, <1>2 DEF RowsAreMade, AllMade

LEMMA CreatedIsRow ==
  ASSUME SwitchStates, NEW path \in Context
  PROVE  /\ Created(Model) \in Rows /\ Created(Model).made /\ Created(Model).model = ctx.model
         /\ [Created(Model) EXCEPT !.path = path, !.thread = NoThread] \in Rows
         /\ [Created(Model) EXCEPT !.path = path, !.thread = NoThread].made
         /\ [Created(Model) EXCEPT !.path = path, !.thread = NoThread].model = ctx.model
<1>1. 0 \in Thread BY FirstIsThread
<1>2. Silence \in Context /\ ctx.model \in Provider BY ModelIsKnown DEF Silence, Context
<1> QED BY <1>1, <1>2 DEF Created, Rows, Model

LEMMA RenewedKeeps ==
  ASSUME SwitchInv, Renewed PROVE SwitchInv'
<1>1. op.kind = "new" /\ op.pc = "build" /\ op' = NoSwitch /\ graph' = graph /\ CanCreate
  BY DEF Renewed, SwitchOver, SwitchInv, ChangesAreKnown
<1>2. PICK f \in SessionId : f = Fresh /\ ~rec[f].made BY <1>1, FreshIsUnmade
<1>3. 0 \in Thread BY FirstIsThread
<1>4. ctx.agent \in {NoModel, ctx.model} /\ ctx \in Contexts
  BY <1>1 DEF SwitchInv, AgentIsOfModel, SwitchStates
<1>5. /\ ctx' \in Contexts /\ ctx'.session = f /\ ctx'.model = ctx.model
      /\ ctx'.agent \in {NoModel, ctx.model}
  BY <1>2, <1>3, <1>4 DEF Renewed, Contexts, Model
<1>6. PICK r \in Rows : r = Created(Model) /\ r.made /\ r.model = ctx.model
 <2>1. Silence \in Context BY DEF Silence, Context
 <2> QED BY <2>1, CreatedIsRow DEF SwitchInv
<1>7. rec' = [rec EXCEPT ![f] = r] BY <1>2, <1>6 DEF Renewed
<1>8. rec' \in [SessionId -> Rows] /\ RowsAreMade' /\ rec'[f] = r
  BY <1>2, <1>5, <1>6, <1>7, RowIsCreated DEF SwitchInv
<1> QED BY <1>1, <1>5, <1>6, <1>8, Rests DEF SwitchInv, SwitchStates

LEMMA StartAnewKeeps ==
  ASSUME SwitchInv, StartAnew PROVE SwitchInv'
<1>1. op' = NoSwitch /\ graph' = graph /\ CanCreate BY DEF StartAnew, SwitchOver
<1>2. PICK f \in SessionId : f = Fresh /\ ~rec[f].made BY <1>1, FreshIsUnmade
<1>3. 0 \in Thread BY FirstIsThread
<1>4. ctx.model \in Provider BY ModelIsKnown DEF SwitchInv
<1>5. ctx' \in Contexts /\ ctx'.session = f /\ ctx'.model = ctx.model /\ ctx'.agent = NoModel
  BY <1>2, <1>3, <1>4 DEF StartAnew, Contexts, Model
<1>6. PICK r \in Rows : r = Created(Model) /\ r.made /\ r.model = ctx.model
 <2>1. Silence \in Context BY DEF Silence, Context
 <2> QED BY <2>1, CreatedIsRow DEF SwitchInv
<1>7. rec' = [rec EXCEPT ![f] = r] BY <1>2, <1>6 DEF StartAnew
<1>8. rec' \in [SessionId -> Rows] /\ RowsAreMade' /\ rec'[f] = r
  BY <1>2, <1>5, <1>6, <1>7, RowIsCreated DEF SwitchInv
<1> QED BY <1>1, <1>5, <1>6, <1>8, Rests DEF SwitchInv, SwitchStates

LEMMA ForkBuiltKeeps ==
  ASSUME SwitchInv, ForkBuilt PROVE SwitchInv'
<1>1. op.kind = "fork" /\ op.pc = "build" /\ rec' = rec /\ op \in Switches /\ ctx = op.ctx
      /\ rec = op.rec /\ CanCreate
  BY DEF ForkBuilt, SwitchInv, OpIsKnown, NoSwitch, ChangesAreKnown
<1>2. /\ ctx' \in Contexts /\ ctx'.session = ctx.session /\ ctx'.thread = ctx.thread
      /\ ctx'.agent = ctx.model /\ ctx'.model = ctx.model
  BY DEF ForkBuilt, SwitchInv, SwitchStates, Contexts, Model
<1>3. PICK from, to : from = ctx.history /\ to = Model OBVIOUS
<1>4. graph' = graph \/ graph' = Cleaned(from, to) BY <1>3 DEF ForkBuilt
<1>5. graph' \in Graphs BY <1>4, CleanedIsGraph DEF SwitchInv, SwitchStates
<1>6. op' = [op EXCEPT !.pc = "copy", !.ctx = ctx'] BY DEF ForkBuilt
<1>7. /\ op' \in Switches /\ op'.kind = "fork" /\ op'.pc = "copy" /\ op'.to = op.to
      /\ op'.ctx = ctx' /\ op'.rec = rec
  BY <1>1, <1>2, <1>6 DEF Switches
<1>8. ctx.model # NoModel /\ rec[ctx.session].made /\ rec[ctx.session].model = ctx.model /\ AllMade(rec)
  BY <1>1, ModelIsKnown DEF SwitchInv, RowsAreMade, RowHasModel
<1>9. OpIsKnown' BY <1>2, <1>7, <1>8 DEF OpIsKnown, AllMade
<1>10. ChangesAreKnown' BY <1>1, <1>7 DEF ChangesAreKnown, CanCreate
<1> QED
  BY <1>1, <1>2, <1>5, <1>7, <1>8, <1>9, <1>10 DEF SwitchInv, SwitchStates, RowsAreMade, AllMade,
     AgentIsOfModel, RowHasModel, SeedIsThere

LEMMA ForkCopiesKeeps ==
  ASSUME SwitchInv, ForkCopies PROVE SwitchInv'
<1>1. /\ op.kind = "fork" /\ op.pc = "copy" /\ graph' = graph /\ ctx = op.ctx /\ rec = op.rec /\ CanCreate
      /\ GoesTo("seed") /\ ctx.agent = ctx.model
  BY DEF ForkCopies, SwitchInv, OpIsKnown, NoSwitch, ChangesAreKnown, AgentIsOfModel
<1>2. PICK f \in SessionId : f = Fresh /\ ~rec[f].made BY <1>1, FreshIsUnmade
<1>3. 0 \in Thread BY FirstIsThread
<1>4. /\ ctx' \in Contexts /\ ctx'.session = f /\ ctx'.model = ctx.model
      /\ ctx'.agent = ctx.model
  BY <1>1, <1>2, <1>3 DEF ForkCopies, Contexts, SwitchInv, SwitchStates
<1>5. PICK path \in Context : path = rec[ctx.session].path
  BY DEF SwitchInv, SwitchStates, Contexts, Rows
<1>6. PICK r \in Rows : /\ r = [Created(Model) EXCEPT !.path = path, !.thread = NoThread]
                         /\ r.made /\ r.model = ctx.model
  BY CreatedIsRow DEF SwitchInv
<1>7. rec' = [rec EXCEPT ![f] = r] BY <1>2, <1>5, <1>6 DEF ForkCopies
<1>8. /\ rec' \in [SessionId -> Rows] /\ RowsAreMade' /\ rec'[f] = r
      /\ rec[f] = Unmade /\ f # ctx.session /\ \A x \in SessionId \ {f} : rec'[x] = rec[x]
  BY <1>2, <1>4, <1>6, <1>7, RowIsCreated DEF SwitchInv
<1>9. OpIsKnown' /\ op'.kind = "fork" /\ op'.pc = "seed" /\ op'.to = op.to /\ op'.ctx = op.ctx
      /\ op'.rec = op.rec
  BY <1>1, SwitchGoesOn
<1>10. ChangesAreKnown' BY <1>1, <1>4, <1>8, <1>9 DEF ChangesAreKnown
<1>11. AgentIsOfModel' /\ RowHasModel' /\ SeedIsThere'
  BY <1>1, <1>4, <1>6, <1>8, <1>9, ModelIsKnown DEF SwitchInv, AgentIsOfModel, RowHasModel, SeedIsThere
<1> QED BY <1>1, <1>4, <1>8, <1>9, <1>10, <1>11 DEF SwitchInv, SwitchStates

\* What a resume or a restart finds of a session is a row like the one it had.
LEMMA FoundIsRow ==
  ASSUME SwitchStates, NEW s \in SessionId
  PROVE  FoundRow(s) \in Rows /\ \E path \in Context : FoundRow(s) = [rec[s] EXCEPT !.path = path]
<1>1. rec[s] \in Rows /\ rec[s].path \in Context /\ rec[s].thread \in Thread \union {NoThread}
  BY DEF SwitchStates, Rows
<1>2. CASE Live(s, rec[s].thread)
 <2>1. PICK t \in Thread : t = rec[s].thread BY <1>1, <1>2 DEF Live
 <2>0. PICK seen : seen = cursor[s][t] OBVIOUS
 <2>2. PICK g \in Context \union {NoGraph} : g = graph[s][t] /\ seen = cursor[s][t]
   BY <2>0 DEF SwitchStates, Graphs
 <2>3. PICK path \in Context : path = Captured(rec[s].path, g, seen)
   BY <1>1, CapturedIsContext
 <2>4. FoundRow(s) = [rec[s] EXCEPT !.path = path] BY <1>2, <2>1, <2>2, <2>3 DEF FoundRow
 <2> QED BY <1>1, <2>3, <2>4 DEF Rows
<1>3. CASE ~Live(s, rec[s].thread)
 <2>1. FoundRow(s) = rec[s] /\ rec[s] = [rec[s] EXCEPT !.path = rec[s].path]
   BY <1>1, <1>3 DEF FoundRow, Rows
 <2> QED BY <1>1, <2>1
<1> QED BY <1>2, <1>3

LEMMA ResumeKeeps ==
  ASSUME SwitchInv, NEW s \in SessionId, Resume(s) PROVE SwitchInv'
<1>1. op.kind = "none" /\ rec[s].made /\ graph' = graph /\ Target(s) \in Thread
  BY DEF Resume, NothingRuns
<1>2. PICK path \in Context, f \in Rows : f = FoundRow(s) /\ f = [rec[s] EXCEPT !.path = path]
  BY FoundIsRow DEF SwitchInv
<1>3. rec[s] \in Rows /\ rec \in [SessionId -> Rows] /\ rec[s].model \in Provider /\ AllMade(rec)
  BY <1>1 DEF SwitchInv, SwitchStates, RowsAreMade, AllMade, Unmade
<1>4. f.made /\ f.model = rec[s].model BY <1>1, <1>2, <1>3 DEF Rows
<1>5. PICK found \in [SessionId -> Rows] : found = [rec EXCEPT ![s] = f] BY <1>3
<1>6. found[s] = f /\ \A x \in SessionId \ {s} : found[x] = rec[x] BY <1>3, <1>5
<1>7. PICK r : r \in {f, [f EXCEPT !.thread = NoThread]} /\ rec' = [found EXCEPT ![s] = r]
 <2>1. CASE Reseeds(s)
  <3>1. rec' = [found EXCEPT ![s].thread = NoThread] BY <1>2, <1>5, <2>1 DEF Resume
  <3>2. rec' = [found EXCEPT ![s] = [f EXCEPT !.thread = NoThread]] BY <1>6, <3>1
  <3> QED BY <3>2
 <2>2. CASE ~Reseeds(s)
  <3>1. rec' = found BY <1>2, <1>5, <2>2 DEF Resume
  <3>2. rec' = [found EXCEPT ![s] = f] BY <1>5, <1>6, <3>1
  <3> QED BY <3>2
 <2> QED BY <2>1, <2>2
<1>8. r \in Rows /\ r.made /\ r.model = rec[s].model /\ [r EXCEPT !.thread = f.thread] = f
  BY <1>4, <1>7 DEF Rows
<1>9. /\ rec' \in [SessionId -> Rows] /\ rec'[s] = r
      /\ \A x \in SessionId \ {s} : rec'[x] = found[x] /\ rec'[x] = rec[x]
  BY <1>5, <1>6, <1>7, <1>8
<1>10. PICK t \in Thread, m \in Provider : t = Target(s) /\ m = rec[s].model BY <1>1, <1>3
<1>11. /\ ctx' \in Contexts /\ ctx'.session = s /\ ctx'.model = m /\ ctx'.agent = ctx.agent
  BY <1>10 DEF Resume, SwitchInv, SwitchStates, Contexts
<1>12. RowsAreMade' /\ rec'[s].model = m
  BY <1>3, <1>8, <1>9, <1>10, <1>11 DEF RowsAreMade, AllMade
<1>13. CASE ctx.agent = NoModel
 <2>1. op' = NoSwitch BY <1>13 DEF Resume, SwitchOver
 <2> QED BY <1>1, <1>9, <1>11, <1>12, <1>13, <2>1, Rests DEF SwitchInv, SwitchStates
<1>14. CASE ctx.agent # NoModel
 <2>1. op' = [kind |-> "resume", pc |-> "build", to |-> s, ctx |-> ctx, rec |-> found]
   BY <1>2, <1>5, <1>14 DEF Resume, Begin
 <2>2. /\ op' \in Switches /\ op'.kind = "resume" /\ op'.pc = "build" /\ op'.to = s
       /\ op'.ctx = ctx /\ op'.rec = found
   BY <1>5, <2>1 DEF Switches, SwitchInv, SwitchStates
 <2>3. /\ ctx.session \in SessionId /\ rec[ctx.session].made /\ rec[ctx.session].model = ctx.model
       /\ ctx.agent \in {NoModel, ctx.model}
   BY <1>1 DEF SwitchInv, SwitchStates, Contexts, RowsAreMade, RowHasModel, AgentIsOfModel
 <2>4. AllMade(found) /\ found[ctx.session].made /\ found[ctx.session].model = ctx.model
   BY <1>3, <1>4, <1>6, <2>3 DEF AllMade
 <2>5. OpIsKnown' BY <2>2, <2>3, <2>4 DEF OpIsKnown, AllMade
 <2>6. ChangesAreKnown' BY <1>6, <1>8, <1>9, <1>11, <2>2 DEF ChangesAreKnown
 <2>7. AgentIsOfModel' /\ RowHasModel' /\ SeedIsThere'
   BY <1>11, <1>12, <2>2 DEF AgentIsOfModel, RowHasModel, SeedIsThere
 <2> QED BY <1>1, <1>9, <1>11, <1>12, <2>5, <2>6, <2>7 DEF SwitchInv, SwitchStates
<1> QED BY <1>13, <1>14

LEMMA ResumeBuiltKeeps ==
  ASSUME SwitchInv, ResumeBuilt PROVE SwitchInv'
<1>1. op.kind = "resume" /\ op.pc = "build" /\ UNCHANGED <<rec, graph>> /\ op \in Switches
  BY DEF ResumeBuilt, storeVars, SwitchInv, OpIsKnown, NoSwitch
<1>2. /\ ctx' \in Contexts /\ ctx'.session = ctx.session /\ ctx'.thread = ctx.thread
      /\ ctx'.agent = ctx.model /\ ctx'.model = ctx.model /\ ctx.model # NoModel
  BY ModelIsKnown DEF ResumeBuilt, SwitchInv, SwitchStates, Contexts, Model
<1>3. rec[ctx.session].model = ctx.model BY <1>1 DEF SwitchInv, RowHasModel
<1>4. CASE GoesTo("seed")
 <2>1. OpIsKnown' /\ op'.kind = "resume" /\ op'.pc = "seed" /\ op'.to = op.to /\ op'.ctx = op.ctx
       /\ op'.rec = op.rec
   BY <1>1, <1>4, SwitchGoesOn
 <2> QED
   BY <1>1, <1>2, <1>3, <2>1 DEF SwitchInv, SwitchStates, RowsAreMade, AllMade, ChangesAreKnown,
      AgentIsOfModel, RowHasModel, SeedIsThere
<1>5. CASE op' = NoSwitch
  BY <1>1, <1>2, <1>3, <1>5, Rests DEF SwitchInv, SwitchStates, RowsAreMade, AllMade
<1> QED BY <1>4, <1>5 DEF ResumeBuilt, SwitchOver

LEMMA ResumeFailsKeeps ==
  ASSUME SwitchInv, ResumeFails PROVE SwitchInv'
<1>1. op.kind = "resume" /\ op.pc = "build" /\ RestoreTarget /\ SwitchAborts /\ graph' = graph
  BY DEF ResumeFails
<1> QED BY <1>1, TargetIsRestored, GoesBack DEF SwitchInv, SwitchStates

LEMMA LeftIsMade ==
  ASSUME SwitchStates, RowsAreMade, NEW cut
  PROVE  /\ LeftOpen(cut) \in [SessionId -> Rows] /\ AllMade(LeftOpen(cut))
         /\ \A x \in SessionId : /\ LeftOpen(cut)[x].made = rec[x].made
                                 /\ LeftOpen(cut)[x].model = rec[x].model
<1>1. CASE LeftOpen(cut) = rec BY <1>1 DEF SwitchStates, RowsAreMade
<1>2. CASE LeftOpen(cut) # rec
 <2>1. PICK s \in SessionId : s = ctx.session BY DEF SwitchStates, Contexts
 <2>2. LeftOpen(cut) = [rec EXCEPT ![s] = [rec[s] EXCEPT !.cut = TRUE]]
   BY <1>2, <2>1 DEF LeftOpen
 <2>3. rec[s] \in Rows /\ rec[s].made BY <2>1 DEF SwitchStates, RowsAreMade
 <2>4. PICK r \in Rows : r = [rec[s] EXCEPT !.cut = TRUE] /\ r.made /\ r.model = rec[s].model
       /\ r.made = rec[s].made
  <3>1. PICK r : r = [rec[s] EXCEPT !.cut = TRUE] OBVIOUS
  <3>2. r \in Rows /\ r.made = rec[s].made /\ r.model = rec[s].model BY <2>3, <3>1 DEF Rows
  <3> QED BY <2>3, <3>1, <3>2
 <2>5. PICK left \in [SessionId -> Rows] : left = [rec EXCEPT ![s] = r] /\ left = LeftOpen(cut)
   BY <2>2, <2>4 DEF SwitchStates
 <2>6. left[s] = r /\ \A x \in SessionId \ {s} : left[x] = rec[x] BY <2>5 DEF SwitchStates
 <2>7. rec[s].model \in Provider BY <2>3 DEF RowsAreMade, AllMade, Unmade
 <2> QED BY <2>4, <2>5, <2>6, <2>7 DEF RowsAreMade, AllMade
<1> QED BY <1>1, <1>2

LEMMA RestartKeeps ==
  ASSUME SwitchInv, ~Accidents, NEW s \in SessionId, NEW over, NEW cut, Restart(s, over,
        cut) PROVE SwitchInv'
<1>1. over = NoModel /\ rec[s].made /\ graph' = graph /\ op' = NoSwitch
  BY DEF Restart, SwitchOver
<1>2. PICK left \in [SessionId -> Rows] :
         /\ left = LeftOpen(cut) /\ AllMade(left)
         /\ \A x \in SessionId : left[x].made = rec[x].made /\ left[x].model = rec[x].model
  BY LeftIsMade DEF SwitchInv
<1>3. PICK m \in Provider : m = rec[s].model
  BY <1>1 DEF SwitchInv, RowsAreMade, AllMade, Unmade
<1>4. FoundRow(s) \in Rows BY FoundIsRow DEF SwitchInv
<1>5. PICK path \in Context : path = FoundRow(s).path BY <1>4 DEF Rows
<1>6. left[s] \in Rows /\ left[s].made /\ left[s].model = m BY <1>1, <1>2, <1>3
<1>7. PICK th \in Thread \union {NoThread} : rec' = [left EXCEPT ![s].path = path, ![s].thread = th]
 <2>1. CASE left[s].cut \/ ~Live(s, rec[s].thread) BY <1>2, <1>5, <2>1 DEF Restart
 <2>2. CASE ~(left[s].cut \/ ~Live(s, rec[s].thread))
  <3>1. rec' = [left EXCEPT ![s].path = path, ![s].thread = @]
    BY <1>2, <1>5, <2>2 DEF Restart
  <3>2. rec' = [left EXCEPT ![s].path = path, ![s].thread = left[s].thread]
        /\ left[s].thread \in Thread \union {NoThread}
    BY <1>6, <3>1 DEF Rows
  <3> QED BY <3>2
 <2> QED BY <2>1, <2>2
<1>8. PICK r \in Rows : r = [left[s] EXCEPT !.path = path, !.thread = th] /\ r.made /\ r.model = m
 <2>1. PICK r : r = [left[s] EXCEPT !.path = path, !.thread = th] OBVIOUS
 <2>2. r \in Rows /\ r.made = left[s].made /\ r.model = left[s].model BY <1>6, <2>1 DEF Rows
 <2> QED BY <1>6, <2>1, <2>2
<1>9. rec' = [left EXCEPT ![s] = r] BY <1>7, <1>8
<1>10. rec' \in [SessionId -> Rows] /\ rec'[s] = r /\ \A x \in SessionId \ {s} : rec'[x] = left[x]
  BY <1>9
<1>11. ctx' \in Contexts /\ ctx'.session = s /\ ctx'.agent = NoModel /\ ctx'.model = m
  BY <1>1, <1>3 DEF Restart, Contexts
<1>12. RowsAreMade'
 <2>1. ASSUME NEW x \in SessionId PROVE (rec'[x].made /\ rec'[x].model \in Provider) \/ rec'[x] = Unmade
  <3>1. CASE x = s BY <1>3, <1>8, <1>10, <3>1
  <3>2. CASE x # s
   <4>1. rec'[x] = left[x] BY <1>10, <3>2
   <4>2. (left[x].made /\ left[x].model \in Provider) \/ left[x] = Unmade
     BY <1>2 DEF AllMade
   <4> QED BY <4>1, <4>2
  <3> QED BY <3>1, <3>2
 <2>2. rec'[ctx'.session].made BY <1>8, <1>10, <1>11
 <2> QED BY <2>1, <2>2 DEF RowsAreMade, AllMade
<1> QED BY <1>1, <1>8, <1>10, <1>11, <1>12, Rests DEF SwitchInv, SwitchStates

LEMMA SwitchStarts == SwitchInit => SwitchInv
<1> SUFFICES ASSUME SwitchInit PROVE SwitchInv OBVIOUS
<1>1. PICK m \in Provider : m = CHOOSE p \in Provider : TRUE BY SwitchAssumption
<1>2. 1 \in SessionId
 <2>1. MaxSessions \in Nat /\ MaxSessions # 0 BY SwitchAssumption
 <2> QED BY <2>1 DEF SessionId
<1>3. Silence \in Context /\ 0 \in Thread BY FirstIsThread DEF Silence, Context
<1>4. PICK r \in Rows : r = Created(m) /\ r.made /\ r.model = m
 <2>1. PICK r : r = Created(m) OBVIOUS
 <2>2. r \in Rows /\ r.made /\ r.model = m BY <1>3, <2>1 DEF Created, Rows
 <2> QED BY <2>1, <2>2
<1>5. Unmade \in Rows BY <1>3 DEF Unmade, Rows
<1>6. rec = [s \in SessionId |-> IF s = 1 THEN r ELSE Unmade] BY <1>1, <1>4 DEF SwitchInit
<1>7. rec \in [SessionId -> Rows] /\ rec[1] = r /\ \A s \in SessionId \ {1} : rec[s] = Unmade
  BY <1>2, <1>5, <1>6
<1>8. ctx = [session |-> 1, thread |-> 0, model |-> m, agent |-> NoModel, history |-> NoModel]
  BY <1>1 DEF SwitchInit
<1>9. ctx \in Contexts /\ ctx.session = 1 /\ ctx.model = m /\ ctx.agent = NoModel
  BY <1>2, <1>3, <1>8 DEF Contexts
<1>10. graph \in Graphs /\ op = NoSwitch /\ op.kind = "none" /\ op.pc = "none"
  BY DEF SwitchInit, Graphs, NoSwitch
<1> QED
  BY <1>4, <1>7, <1>9, <1>10 DEF SwitchInv, SwitchStates, RowsAreMade, AllMade, OpIsKnown, ChangesAreKnown,
     AgentIsOfModel, RowHasModel, SeedIsThere

LEMMA SwitchStays ==
  ASSUME ~Accidents, SwitchInv, [SwitchNext]_switchVars PROVE SwitchInv'
<1>1. CASE UNCHANGED switchVars
  BY <1>1 DEF switchVars, SwitchInv, SwitchStates, RowsAreMade, AllMade, OpIsKnown, ChangesAreKnown,
     AgentIsOfModel, RowHasModel, SeedIsThere, CanCreate
<1>2. CASE SwitchNext
  BY <1>2, AnyPromptKeeps, PromptBuiltKeeps, OwnBuiltKeeps, BuildFailsKeeps, ModelAnswersKeeps,
     TurnEndsKeeps,
     SeedWritesKeeps, SeedActivatesKeeps, SeedFailsKeeps, SwitchAnnouncedKeeps, SwitchUnheardKeeps,
           RebuildKeeps,
     RebuiltKeeps, ModelCommandKeeps, ModelSwitchedKeeps, ModelFailsKeeps, NewKeeps, RenewedKeeps,
           ForkKeeps,
     ForkBuiltKeeps, ForkCopiesKeeps, ResumeKeeps, ResumeBuiltKeeps, ResumeFailsKeeps, RestartKeeps,
           StartAnewKeeps
     DEF SwitchNext
<1> QED BY <1>1, <1>2

SwitchIsUndone ==
  op.kind \in {"resume", "fork", "new", "model"} /\ op'.kind = "none" /\ failed' =>
    \/ ctx' = op.ctx /\ rec' = op.rec
    \/ /\ IF op.kind = "resume" THEN ctx'.session = op.to
          ELSE op.kind = "fork" /\ ctx'.session # op.ctx.session
       /\ ctx'.agent = ctx'.model /\ rec'[ctx'.session].thread = ctx'.thread
       /\ graph'[ctx'.session][ctx'.thread] # NoGraph

LEMMA GoingOnIsNoEnd ==
  ASSUME SwitchInv, NEW pc, GoesTo(pc), op.kind # "none" PROVE op'.kind = op.kind
<1>1. op \in Switches BY DEF SwitchInv, OpIsKnown, NoSwitch
<1> QED BY <1>1 DEF GoesTo, Switches

LEMMA SwitchesAreUndone ==
  ASSUME SwitchInv, [SwitchNext]_switchVars PROVE SwitchIsUndone
<1> SUFFICES ASSUME op.kind \in {"resume", "fork", "new", "model"}, op'.kind = "none", failed'
             PROVE  \/ ctx' = op.ctx /\ rec' = op.rec
                    \/ /\ IF op.kind = "resume" THEN ctx'.session = op.to
                          ELSE op.kind = "fork" /\ ctx'.session # op.ctx.session
                       /\ ctx'.agent = ctx'.model /\ rec'[ctx'.session].thread = ctx'.thread
                       /\ graph'[ctx'.session][ctx'.thread] # NoGraph
  BY DEF SwitchIsUndone
<1>0. op \in Switches BY DEF SwitchInv, OpIsKnown, NoSwitch
<1>1. CASE BuildFails BY <1>1 DEF BuildFails, SwitchInv, ChangesAreKnown, storeVars
<1>2. CASE SeedFails
 <2>1. op.pc \in {"seed", "activate"} /\ op.kind \in {"resume", "fork"}
   BY <1>0, <1>2 DEF SeedFails, SwitchInv, OpIsKnown, NoSwitch
 <2>2. CASE op.kind = "resume"
  <3>1. RestoreTarget BY <1>2, <2>2 DEF SeedFails
  <3> QED BY <2>1, <2>2, <3>1, TargetIsRestored
 <2>3. CASE op.kind = "fork"
  <3>1. PICK g \in Graphs : g = Unseeded BY UnseededIsGraph DEF SwitchInv
  <3>2. DeleteFork(g) BY <1>2, <2>3, <3>1 DEF SeedFails
  <3> QED BY <2>1, <2>3, <3>2, ForkIsDeleted
 <2> QED BY <2>1, <2>2, <2>3
<1>3. CASE SwitchUnheard
 <2>1. op.pc = "announce" /\ op.kind \in {"resume", "fork"} /\ rec' = rec /\ graph' = graph /\ ctx' = ctx
   BY <1>3 DEF SwitchUnheard, SwitchInv, OpIsKnown, NoSwitch
 <2>2. graph[ctx.session][ctx.thread] # NoGraph /\ rec[ctx.session].thread = ctx.thread
   BY <2>1 DEF SwitchInv, SeedIsThere
 <2>3. ctx.agent = ctx.model BY <2>1 DEF SwitchInv, AgentIsOfModel
 <2> QED BY <2>1, <2>2, <2>3 DEF SwitchInv, ChangesAreKnown
<1>4. CASE ModelFails BY <1>4, ModelIsGivenBack
<1>5. CASE ResumeFails
 <2>1. op.kind = "resume" /\ op.pc = "build" /\ RestoreTarget BY <1>5 DEF ResumeFails
 <2> QED BY <2>1, TargetIsRestored
<1>6. ~(\E own \in Provider \union {NoModel} : AnyPrompt(own)) /\ ~Rebuild /\ ~New /\ ~Fork /\ ~StartAnew
      /\ ~(\E m \in Provider : ModelCommand(m)) /\ ~(\E s \in SessionId : Resume(s))
  BY DEF AnyPrompt, Rebuild, New, Fork, StartAnew, ModelCommand, Resume, NothingRuns
<1>7. ~PromptBuilt /\ ~OwnBuilt /\ ~Rebuilt BY DEF PromptBuilt, OwnBuilt, Rebuilt
<1>8. ~ModelAnswers /\ ~SeedWrites /\ ~SeedActivates /\ ~ForkCopies
  BY GoingOnIsNoEnd DEF ModelAnswers, SeedWrites, SeedActivates, ForkCopies
<1>9. ~TurnEnds /\ ~ModelSwitched /\ ~Renewed
      /\ ~(\E s \in SessionId, over \in Provider \union {NoModel}, cut \in BOOLEAN : Restart(s, over, cut))
  BY DEF TurnEnds, ModelSwitched, Renewed, Restart, SwitchOver
<1>10. ~SwitchAnnounced /\ ~ResumeBuilt
  BY GoingOnIsNoEnd DEF SwitchAnnounced, ResumeBuilt, SwitchOver
<1>11. ~ForkBuilt BY <1>0 DEF ForkBuilt, Switches
<1>12. ~UNCHANGED switchVars BY DEF switchVars
<1> QED BY <1>1, <1>2, <1>3, <1>4, <1>5, <1>6, <1>7, <1>8, <1>9, <1>10, <1>11, <1>12 DEF SwitchNext

\* A /resume, /fork, /new or /model that fails leaves context and store as they were when it was
\* given, or has activated the thread it went to and is over for both; the model given by --model
\* for a resumed session is left out (context.py 550-556, 747-772, 878-897).
THEOREM FailedSwitchesAreUndone == ASSUME ~Accidents PROVE SwitchSpec => SwitchUndone
<1>1. SwitchInv /\ [SwitchNext]_switchVars => SwitchInv' BY SwitchStays
<1>2. SwitchInv /\ [SwitchNext]_switchVars => SwitchIsUndone BY SwitchesAreUndone
<1> QED BY <1>1, <1>2, SwitchStarts, PTL DEF SwitchSpec, SwitchUndone, SwitchIsUndone

-----------------------------------------------------------------------------
(* The history. *)

\* A row and the checkpoints of its session: an active thread is a row, every row has a checkpoint
\* unless the session has not begun, and the active thread's has what was said.
RowFits(row, threads, owner) ==
  /\ row.thread \in row.rows \union {NoThread}
  /\ \/ \A t \in row.rows : threads[t] # NoGraph
     \/ row.rows = {0} /\ threads[0] = NoGraph /\ row.path.said = {}
  /\ row.thread # NoThread /\ threads[row.thread] # NoGraph =>
       row.path.said \subseteq threads[row.thread].said /\ threads[row.thread].private \subseteq {owner}

\* The same for the session in use, whose thread is active, or new and without a checkpoint.
HereFits(row, threads, thread, owner) ==
  /\ RowFits(row, threads, owner)
  /\ row.thread = NoThread =>
       \/ thread \notin row.rows /\ \A t \in row.rows : threads[t] # NoGraph
       \/ thread = 0 /\ row.rows = {0} /\ threads[0] = NoGraph /\ row.path.said = {}
  /\ row.thread # NoThread =>
       /\ thread = row.thread
       /\ threads[thread] # NoGraph => row.path.said = threads[thread].said

Seeding == op.pc \in {"seed", "activate"}
KeptGraph == IF Seeding THEN Unseeded ELSE graph
Row == rec[ctx.session]

\* Whose blocks the history may have.
OwnerOf(c) ==
  IF c.agent # NoModel THEN c.agent ELSE IF c.history # NoModel THEN c.history ELSE c.model

\* A resume takes the agent of another model with it, until it has built its own.
Owner == IF op.kind = "resume" /\ op.pc = "build" THEN ctx.model ELSE OwnerOf(ctx)

Unbegun == \A s \in SessionId : rec[s].made \/ \A t \in Thread : graph[s][t] = NoGraph

StrangersFit == \A s \in SessionId \ {ctx.session} : RowFits(rec[s], graph[s], rec[s].model)

TheirOwnFits ==
  /\ op.pc # "capture" /\ ~(op.kind = "fork" /\ Seeding) =>
       HereFits(Row, KeptGraph[ctx.session], ctx.thread, Owner)
  /\ op.pc = "capture" => RowFits(Row, graph[ctx.session], Owner)
  /\ op.pc \in {"turn", "capture"} => Row.thread = ctx.thread
  /\ op.kind = "fork" /\ Seeding => Row.rows = {0} /\ ctx.thread = 0
  /\ Seeding => Row.thread = NoThread
  /\ op.pc = "activate" =>
       /\ graph[ctx.session][ctx.thread].said = Row.path.said
       /\ graph[ctx.session][ctx.thread].private \subseteq {ctx.model}

\* What the handlers of /resume and /fork go back to.
LeftFits ==
  /\ (op.kind = "resume" /\ op.pc # "announce") \/ (op.kind = "fork" /\ Seeding) =>
       /\ op.ctx.agent # NoModel
       /\ HereFits(op.rec[op.ctx.session], KeptGraph[op.ctx.session], op.ctx.thread, op.ctx.model)
  /\ op.kind = "resume" /\ op.pc # "announce" =>
       RowFits(op.rec[ctx.session], KeptGraph[ctx.session], op.rec[ctx.session].model)

OpFits ==
  /\ op.pc = "build" /\ (op.kind = "fork" \/ (op.kind = "prompt" /\ op.to = NoModel)) => ctx.agent = NoModel
  /\ op.kind = "prompt" /\ op.to # NoModel =>
       IF op.pc = "build" THEN ctx.history \in {NoModel, ctx.model} ELSE ctx.model = op.to
  /\ op.kind \in {"model", "new"} => ctx.history \in {NoModel, ctx.model}
  /\ op.kind = "resume" => ctx.history = ctx.model

HistoryInv == Unbegun /\ StrangersFit /\ TheirOwnFits /\ LeftFits /\ OpFits

Threads == [Thread -> Context \union {NoGraph}]

\* Only the rows of a session matter, and of a row what was said.
LEMMA ThreadsAreNumbers == Thread \subseteq Nat /\ NoThread \notin Thread
<1>1. MaxSeeds \in Nat BY SwitchAssumption
<1> QED BY <1>1 DEF Thread, NoThread

LEMMA OnlyRowsMatter ==
  ASSUME NEW r, NEW q, NEW g, NEW h, NEW o, q.thread = r.thread, q.rows = r.rows, q.path.said = r.path.said,
         \A t \in r.rows : h[t] = g[t]
  PROVE  /\ RowFits(r, g, o) => RowFits(q, h, o)
         /\ \A t : RowFits(r, g, o) /\ HereFits(r, g, t, o) => HereFits(q, h, t, o)
<1>1. ASSUME RowFits(r, g, o) PROVE RowFits(q, h, o) BY <1>1 DEF RowFits
<1>2. ASSUME NEW t, RowFits(r, g, o), HereFits(r, g, t, o) PROVE HereFits(q, h, t, o)
  BY <1>1, <1>2 DEF HereFits, RowFits
<1> QED BY <1>1, <1>2

LEMMA OwnerOfNothing ==
  ASSUME NEW r, NEW g, NEW t, NEW o, NEW p, r.thread = NoThread
  PROVE  /\ RowFits(r, g, o) => RowFits(r, g, p)
         /\ HereFits(r, g, t, o) => HereFits(r, g, t, p)
BY DEF HereFits, RowFits

LEMMA StrippedKeeps ==
  ASSUME NEW g \in Context \union {NoGraph}, NEW P
  PROVE  /\ Stripped(g, P) \in Context \union {NoGraph} /\ Stripped(g, P).said = g.said
         /\ Stripped(g, P) = NoGraph <=> g = NoGraph
         /\ g # NoGraph => Stripped(g, P).private = g.private \ P
<1>1. CASE g = NoGraph BY <1>1 DEF Stripped
<1>2. CASE g # NoGraph
 <2>1. PICK h : h = Stripped(g, P) OBVIOUS
 <2>2. h \in Context /\ h.said = g.said /\ h.private = g.private \ P
   BY <1>2, <2>1 DEF Stripped, Stripping, Context
 <2> QED BY <1>2, <2>1, <2>2, ContextsDiffer
<1> QED BY <1>1, <1>2

\* A history that loses blocks still fits, and the model whose blocks it loses is its owner no more.
LEMMA StripFits ==
  ASSUME NEW r \in Rows, NEW g \in Threads, NEW t \in Thread, NEW o, NEW p, NEW P,
         HereFits(r, g, t, o), p = o \/ o \in P
  PROVE  HereFits(r, [g EXCEPT ![t] = Stripped(@, P)], t, p)
<1>1. PICK h : h = [g EXCEPT ![t] = Stripped(@, P)] OBVIOUS
<1>2. /\ h \in Threads /\ h[t] = Stripped(g[t], P) /\ g[t] \in Context \union {NoGraph}
      /\ \A x \in Thread \ {t} : h[x] = g[x]
  BY <1>1, StrippedKeeps DEF Threads
<1>3. /\ h[t].said = g[t].said /\ (h[t] = NoGraph <=> g[t] = NoGraph)
      /\ g[t] # NoGraph => h[t].private = g[t].private \ P
  BY <1>2, StrippedKeeps
<1>4. r.rows \subseteq Thread BY DEF Rows
<1>5. CASE r.thread = NoThread
 <2>1. \A x \in r.rows : h[x] = NoGraph <=> g[x] = NoGraph BY <1>2, <1>3, <1>4
 <2>2. RowFits(r, h, p) BY <1>5, <2>1 DEF HereFits, RowFits
 <2> QED BY <1>1, <1>5, <2>1, <2>2 DEF HereFits
<1>6. CASE r.thread # NoThread
 <2>1. r.thread = t /\ t \in r.rows BY <1>6 DEF HereFits, RowFits
 <2>2. \A x \in r.rows : h[x] = NoGraph <=> g[x] = NoGraph BY <1>2, <1>3, <1>4
 <2>3. g[t] # NoGraph => h[t].private \subseteq {p}
   BY <1>3, <1>6, <2>1 DEF HereFits, RowFits
 <2>4. RowFits(r, h, p) BY <1>3, <1>6, <2>1, <2>2, <2>3 DEF HereFits, RowFits
 <2> QED BY <1>1, <1>3, <1>6, <2>1, <2>4 DEF HereFits
<1> QED BY <1>5, <1>6

LEMMA CapturedSays ==
  ASSUME NEW path \in Context, NEW g \in Context \union {NoGraph}, NEW seen,
         g # NoGraph => path.said \subseteq g.said
  PROVE  Captured(path, g, seen).said = IF g = NoGraph THEN path.said ELSE g.said
BY DEF Captured

\* A seeded thread becomes the active one.
LEMMA ActivatedFits ==
  ASSUME NEW r, NEW q, NEW g, NEW t \in Thread, NEW o, \A x \in r.rows : x = t \/ g[x] # NoGraph,
         q.thread = t, q.rows = r.rows \union {t}, q.path = r.path,
         g[t] # NoGraph, g[t].said = r.path.said, g[t].private \subseteq {o}
  PROVE  HereFits(q, g, t, o)
<1>1. t # NoThread BY ThreadsAreNumbers
<1> QED BY <1>1 DEF HereFits, RowFits

LEMMA NextIsNew ==
  ASSUME SwitchStates, NEW s \in SessionId PROVE NextThread(s) \notin rec[s].rows
<1>1. PICK T : T = rec[s].rows OBVIOUS
<1>0. MaxSeeds \in Nat BY SwitchAssumption
<1>2. T \subseteq Thread BY <1>1 DEF SwitchStates, Rows
<1>3. CASE T = {} BY <1>1, <1>3
<1>4. CASE T # {}
 <2> DEFINE U == {MaxSeeds - x : x \in T}
 <2> DEFINE R == {p \in Nat \X Nat : p[1] < p[2]}
 <2>1. IsWellFoundedOn(R, Nat) BY NatLessThanWellFounded, Zenon DEF OpToRel
 <2>2. U \subseteq Nat /\ U # {}
  <3>1. \A x \in T : MaxSeeds - x \in Nat BY <1>0, <1>2 DEF Thread
  <3> QED BY <1>4, <3>1
 <2>3. PICK m \in U : \A k \in U : ~(<<k, m>> \in R)
  <3> HIDE DEF R, U
  <3> QED BY <2>1, <2>2, WFMin
 <2>4. PICK n \in T : m = MaxSeeds - n BY <2>3
 <2>5. ASSUME NEW x \in T PROVE x <= n
  <3>1. MaxSeeds - x \in U /\ MaxSeeds - x \in Nat /\ m \in Nat BY <2>2, <2>3
  <3>2. ~(MaxSeeds - x < m) BY <2>3, <3>1
  <3> QED BY <1>0, <1>2, <2>4, <3>2 DEF Thread
 <2>6. PICK top : top = CHOOSE y \in T : \A x \in T : x <= y OBVIOUS
 <2>7. top \in T /\ \A x \in T : x <= top BY <2>5, <2>6
 <2>8. NextThread(s) = top + 1 BY <1>1, <1>4, <2>6 DEF NextThread
 <2>9. top \in Nat BY <1>0, <1>2, <2>7 DEF Thread
 <2> QED BY <1>1, <2>7, <2>8, <2>9
<1> QED BY <1>3, <1>4

\* What a start or a resume finds, and where it goes on.
LEMMA TargetIsFree ==
  ASSUME SwitchStates, NEW s \in SessionId, NEW o, RowFits(rec[s], graph[s], o), Reseeds(s)
  PROVE  \/ Target(s) \notin rec[s].rows /\ \A x \in rec[s].rows : graph[s][x] # NoGraph
         \/ Target(s) = 0 /\ rec[s].rows = {0} /\ graph[s][0] = NoGraph /\ rec[s].path.said = {}
<1>1. rec[s].rows \subseteq Thread /\ NoThread \notin rec[s].rows
  BY ThreadsAreNumbers DEF SwitchStates, Rows
<1>2. NextThread(s) \notin rec[s].rows BY NextIsNew
<1>3. CASE Live(s, rec[s].thread)
 <2>1. Target(s) = NextThread(s) /\ rec[s].thread \in rec[s].rows /\ graph[s][rec[s].thread] # NoGraph
   BY <1>3 DEF Target, Reseeds, Live, RowFits
 <2> QED BY <1>2, <2>1 DEF RowFits
<1>4. CASE ~Live(s, rec[s].thread)
 <2>1. Target(s) = SeedTarget(s, rec[s].thread) BY <1>4 DEF Target
 <2>2. CASE \E x \in rec[s].rows : graph[s][x] = NoGraph
  <3>1. rec[s].rows = {0} /\ graph[s][0] = NoGraph /\ rec[s].path.said = {}
    BY <2>2 DEF RowFits
  <3>2. ~Live(s, 0) BY <3>1 DEF Live
  <3>3. SeedTarget(s, rec[s].thread) = 0 BY <3>1, <3>2 DEF SeedTarget
  <3> QED BY <2>1, <3>1, <3>3
 <2>3. CASE \A x \in rec[s].rows : graph[s][x] # NoGraph
  <3>1. \A x \in rec[s].rows : Live(s, x) BY <1>1, <2>3 DEF Live
  <3>2. SeedTarget(s, rec[s].thread) = NextThread(s) BY <3>1 DEF SeedTarget
  <3> QED BY <1>2, <2>1, <2>3, <3>2
 <2> QED BY <2>2, <2>3
<1> QED BY <1>3, <1>4

LEMMA FoundSays ==
  ASSUME SwitchStates, NEW s \in SessionId, NEW o, RowFits(rec[s], graph[s], o)
  PROVE  FoundRow(s).path.said = IF Live(s, rec[s].thread) THEN graph[s][rec[s].thread].said
                                ELSE rec[s].path.said
<1>1. rec[s] \in Rows /\ rec[s].path \in Context /\ rec[s].thread \in Thread \union {NoThread}
  BY DEF SwitchStates, Rows
<1>2. CASE Live(s, rec[s].thread)
 <2>1. PICK t \in Thread : t = rec[s].thread BY <1>1, <1>2 DEF Live
 <2>0. PICK seen : seen = cursor[s][t] OBVIOUS
 <2>2. PICK g \in Context \union {NoGraph} : g = graph[s][t] /\ seen = cursor[s][t]
   BY <2>0 DEF SwitchStates, Graphs
 <2>3. PICK path : path = Captured(rec[s].path, g, seen) OBVIOUS
 <2>4. g # NoGraph /\ rec[s].path.said \subseteq g.said
   BY <1>2, <2>1, <2>2 DEF Live, RowFits
 <2>5. path.said = g.said BY <1>1, <2>3, <2>4, CapturedSays
 <2>6. FoundRow(s) = [rec[s] EXCEPT !.path = path] BY <1>2, <2>1, <2>2, <2>3 DEF FoundRow
 <2> QED BY <1>1, <1>2, <2>1, <2>2, <2>5, <2>6 DEF Rows
<1>3. CASE ~Live(s, rec[s].thread) BY <1>3 DEF FoundRow
<1> QED BY <1>2, <1>3

LEMMA FoundFits ==
  ASSUME SwitchStates, NEW s \in SessionId, NEW o, RowFits(rec[s], graph[s], o),
         NEW q \in Rows, q.rows = rec[s].rows, q.path = FoundRow(s).path
  PROVE  /\ q.thread = rec[s].thread => RowFits(q, graph[s], o)
         /\ q.thread = rec[s].thread /\ ~Reseeds(s) => HereFits(q, graph[s], Target(s), o)
         /\ q.thread = NoThread /\ Reseeds(s) => HereFits(q, graph[s], Target(s), o)
         /\ q.thread = NoThread /\ Live(s, rec[s].thread) => HereFits(q, graph[s], NextThread(s), o)
<1>1. q.path.said = IF Live(s, rec[s].thread) THEN graph[s][rec[s].thread].said ELSE rec[s].path.said
  BY FoundSays
<1>2. NextThread(s) \notin rec[s].rows /\ NoThread \notin rec[s].rows
  BY NextIsNew, ThreadsAreNumbers DEF SwitchStates, Rows
<1>3. \/ \A t \in q.rows : graph[s][t] # NoGraph
      \/ q.rows = {0} /\ graph[s][0] = NoGraph /\ q.path.said = {}
 <2>1. CASE Live(s, rec[s].thread) BY <2>1 DEF RowFits, Live
 <2>2. CASE ~Live(s, rec[s].thread) BY <1>1, <2>2, SMTT(30) DEF RowFits
 <2> QED BY <2>1, <2>2
<1>4. q.thread = rec[s].thread => RowFits(q, graph[s], o) BY <1>1, <1>3 DEF RowFits, Live
<1>5. ASSUME q.thread = rec[s].thread, ~Reseeds(s) PROVE HereFits(q, graph[s], Target(s), o)
 <2>1. Target(s) = q.thread /\ Live(s, q.thread) BY <1>5 DEF Target, Reseeds
 <2> QED BY <1>1, <1>4, <1>5, <2>1 DEF HereFits, Live
<1>6. q.thread = NoThread => RowFits(q, graph[s], o) BY <1>3 DEF RowFits
<1>7. ASSUME q.thread = NoThread, Reseeds(s) PROVE HereFits(q, graph[s], Target(s), o)
 <2>1. CASE Target(s) \notin rec[s].rows /\ \A x \in rec[s].rows : graph[s][x] # NoGraph
   BY <1>6, <1>7, <2>1 DEF HereFits
 <2>2. CASE Target(s) = 0 /\ rec[s].rows = {0} /\ graph[s][0] = NoGraph /\ rec[s].path.said = {}
  <3>1. ~Live(s, rec[s].thread) BY <2>2 DEF Live, RowFits
  <3> QED BY <1>1, <1>6, <1>7, <2>2, <3>1 DEF HereFits
 <2> QED BY <1>7, <2>1, <2>2, TargetIsFree
<1>8. ASSUME q.thread = NoThread, Live(s, rec[s].thread) PROVE HereFits(q, graph[s], NextThread(s), o)
 <2>1. \A x \in rec[s].rows : graph[s][x] # NoGraph BY <1>8 DEF Live, RowFits
 <2> QED BY <1>2, <1>6, <1>8, <2>1 DEF HereFits
<1> QED BY <1>4, <1>5, <1>7, <1>8

\* The session in use.
LEMMA Here ==
  ASSUME SwitchStates
  PROVE  \E s \in SessionId, t \in Thread, r \in Rows, g \in Threads :
           s = ctx.session /\ t = ctx.thread /\ r = rec[s] /\ g = graph[s]
BY DEF SwitchStates, Contexts, Graphs, Threads

LEMMA UnseededHere ==
  ASSUME SwitchStates
  PROVE  /\ Unseeded[ctx.session] = [graph[ctx.session] EXCEPT ![ctx.thread] = NoGraph]
         /\ \A x \in SessionId \ {ctx.session} : Unseeded[x] = graph[x]
BY DEF SwitchStates, Contexts, Graphs, Unseeded

LEMMA CleanedHere ==
  ASSUME SwitchStates, NEW from, NEW to
  PROVE  /\ \A x \in SessionId \ {ctx.session} : Cleaned(from, to)[x] = graph[x]
         /\ Cleaned(from, to)[ctx.session] =
              IF from = NoModel \/ from = to THEN graph[ctx.session]
              ELSE [graph[ctx.session] EXCEPT ![ctx.thread] = Stripped(@, {from})]
BY DEF SwitchStates, Contexts, Graphs, Cleaned, OwnBlocks

LEMMA OthersAreNotCleaned ==
  ASSUME SwitchStates, NEW from, NEW to, NEW x \in SessionId \ {ctx.session}
  PROVE  Cleaned(from, to)[x] = graph[x]
BY DEF SwitchStates, Contexts, Graphs, Cleaned, OwnBlocks

\* The history for another model is its own.
LEMMA CleanedFits ==
  ASSUME SwitchStates, NEW from, NEW to, NEW o,
         HereFits(rec[ctx.session], graph[ctx.session], ctx.thread, o)
  PROVE  /\ HereFits(rec[ctx.session], Cleaned(from, to)[ctx.session], ctx.thread, o)
         /\ o = (IF from = NoModel THEN to ELSE from) =>
              HereFits(rec[ctx.session], Cleaned(from, to)[ctx.session], ctx.thread, to)
<1>1. PICK s \in SessionId, t \in Thread, r \in Rows, g \in Threads :
        s = ctx.session /\ t = ctx.thread /\ r = rec[s] /\ g = graph[s]
  BY Here
<1>2. PICK h : h = Cleaned(from, to)[s] OBVIOUS
<1>3. h = IF from = NoModel \/ from = to THEN g ELSE [g EXCEPT ![t] = Stripped(@, {from})]
  BY <1>1, <1>2, CleanedHere
<1>4. HereFits(r, g, t, o) BY <1>1
<1>5. HereFits(r, h, t, o) /\ (o = (IF from = NoModel THEN to ELSE from) => HereFits(r, h, t, to))
 <2>1. CASE from = NoModel \/ from = to BY <1>3, <1>4, <2>1
 <2>2. CASE ~(from = NoModel \/ from = to) BY <1>3, <1>4, <2>2, StripFits
 <2> QED BY <2>1, <2>2
<1> QED BY <1>1, <1>2, <1>5

\* Where a thread is yet to be seeded, nothing depends on its checkpoint.
LEMMA WaitsFit ==
  ASSUME NEW r \in Rows, NEW g \in Threads, NEW t \in Thread, NEW o, NEW p,
         HereFits(r, g, t, o), r.thread # t
  PROVE  r.thread = NoThread /\ HereFits(r, [g EXCEPT ![t] = NoGraph], t, p)
<1>1. PICK h : h = [g EXCEPT ![t] = NoGraph] OBVIOUS
<1>2. r.thread = NoThread /\ r.rows \subseteq Thread BY DEF HereFits, Rows
<1>3. \A x \in r.rows : h[x] = g[x] BY <1>1, <1>2 DEF Threads, HereFits
<1>4. HereFits(r, h, t, o) BY <1>2, <1>3, OnlyRowsMatter DEF HereFits
<1> QED BY <1>1, <1>2, <1>4, OwnerOfNothing

LEMMA WaitingFits ==
  ASSUME SwitchStates, NEW o, NEW p,
         HereFits(Row, graph[ctx.session], ctx.thread, o), Row.thread # ctx.thread
  PROVE  Row.thread = NoThread /\ HereFits(Row, Unseeded[ctx.session], ctx.thread, p)
<1>1. PICK s \in SessionId, t \in Thread, r \in Rows, g \in Threads :
        s = ctx.session /\ t = ctx.thread /\ r = rec[s] /\ g = graph[s]
  BY Here
<1>2. [g EXCEPT ![t] = NoGraph] = Unseeded[s] /\ r = Row BY <1>1, UnseededHere DEF Row
<1>3. r.thread = NoThread /\ HereFits(r, [g EXCEPT ![t] = NoGraph], t, p)
 <2>1. HereFits(r, g, t, o) /\ r.thread # t BY <1>1 DEF Row
 <2> QED BY <2>1, WaitsFit
<1> QED BY <1>1, <1>2, <1>3

LEMMA OthersStay ==
  ASSUME SwitchInv, HistoryInv, ctx'.session = ctx.session, rec'[ctx.session].made,
         \A x \in SessionId \ {ctx.session} : rec'[x] = rec[x] /\ graph'[x] = graph[x]
  PROVE  Unbegun' /\ StrangersFit'
BY DEF SwitchInv, HistoryInv, Unbegun, StrangersFit

LEMMA RestFits ==
  ASSUME op' = NoSwitch, Unbegun', StrangersFit',
         HereFits(rec'[ctx'.session], graph'[ctx'.session], ctx'.thread, OwnerOf(ctx'))
  PROVE  HistoryInv'
<1>1. op'.kind = "none" /\ op'.pc = "none" BY DEF NoSwitch
<1>2. KeptGraph' = graph' /\ Owner' = OwnerOf(ctx') /\ Row' = rec'[ctx'.session]
  BY <1>1 DEF KeptGraph, Seeding, Owner, Row, OwnerOf
<1>3. TheirOwnFits' /\ LeftFits' /\ OpFits'
  BY <1>1, <1>2 DEF TheirOwnFits, LeftFits, OpFits, Seeding
<1> QED BY <1>3 DEF HistoryInv

LEMMA IdleFits ==
  ASSUME SwitchInv, HistoryInv, op.pc # "capture", ~Seeding, ~(op.kind = "resume" /\ op.pc = "build")
  PROVE  HereFits(Row, graph[ctx.session], ctx.thread, OwnerOf(ctx))
BY DEF HistoryInv, TheirOwnFits, KeptGraph, Owner

\* A command that is given changes nothing yet.
LEMMA GivenFits ==
  ASSUME SwitchInv, HistoryInv, op.kind = "none", op.pc = "none", UNCHANGED <<rec, graph, ctx>>,
         op'.kind \in {"prompt", "rebuild", "model", "new", "fork"},
         op'.pc \in {"build", "copy", "seed", "turn"},
         op'.kind = "fork" => op'.pc \in {"build", "copy"},
         op'.pc = "seed" => Pending, op'.pc = "turn" => ~Pending, OpFits'
  PROVE  HistoryInv'
<1>1. HereFits(Row, graph[ctx.session], ctx.thread, OwnerOf(ctx)) BY IdleFits DEF Seeding
<1>2. rec'[ctx.session].made BY DEF SwitchInv, RowsAreMade
<1>3. Unbegun' /\ StrangersFit' BY <1>2, OthersStay
<1>4. Row' = Row /\ Owner' = OwnerOf(ctx) /\ Unseeded' = Unseeded
  BY DEF Row, Owner, OwnerOf, Unseeded
<1>5. CASE op'.pc = "seed"
 <2>1. Row.thread = NoThread /\ HereFits(Row, Unseeded[ctx.session], ctx.thread, OwnerOf(ctx))
   BY <1>1, <1>5, WaitingFits DEF Pending, Row, SwitchInv
 <2>2. KeptGraph' = Unseeded BY <1>4, <1>5 DEF KeptGraph, Seeding
 <2> QED BY <1>3, <1>4, <1>5, <2>1, <2>2 DEF HistoryInv, TheirOwnFits, LeftFits, Seeding
<1>6. CASE op'.pc # "seed"
 <2>1. KeptGraph' = graph BY <1>6 DEF KeptGraph, Seeding
 <2>2. op'.pc = "turn" => Row.thread = ctx.thread BY DEF Pending, Row
 <2> QED BY <1>1, <1>3, <1>4, <1>6, <2>1, <2>2 DEF HistoryInv, TheirOwnFits, LeftFits, Seeding
<1> QED BY <1>5, <1>6

LEMMA NothingIsIdle ==
  ASSUME SwitchInv, op.kind = "none" PROVE op.pc = "none"
BY DEF SwitchInv, OpIsKnown, NoSwitch, Switches

LEMMA AnyPromptFits ==
  ASSUME ~Accidents, SwitchInv, HistoryInv, NEW own, AnyPrompt(own) PROVE HistoryInv'
<1>1. op.kind = "none" /\ op.pc = "none" /\ UNCHANGED <<rec, graph, ctx>>
  BY NothingIsIdle DEF AnyPrompt, NothingRuns, storeVars
<1>2. PICK pc : pc = IF own # NoModel \/ ctx.agent = NoModel THEN "build"
                  ELSE IF Pending THEN "seed" ELSE "turn"
  OBVIOUS
<1>3. op'.kind = "prompt" /\ op'.pc = pc /\ op'.to = own BY <1>2 DEF AnyPrompt, Begin
<1>4. own # NoModel => ctx.history \in {NoModel, ctx.model} BY DEF AnyPrompt, Settled, Model
<1>5. OpFits' BY <1>1, <1>2, <1>3, <1>4 DEF OpFits
<1> QED BY <1>1, <1>2, <1>3, <1>5, GivenFits

LEMMA RebuildFits ==
  ASSUME SwitchInv, HistoryInv, Rebuild PROVE HistoryInv'
<1>1. op.kind = "none" /\ op.pc = "none" /\ UNCHANGED <<rec, graph, ctx>>
  BY NothingIsIdle DEF Rebuild, NothingRuns, storeVars
<1>2. op'.kind = "rebuild" /\ op'.pc = "build" BY DEF Rebuild, Begin
<1> QED BY <1>1, <1>2, GivenFits DEF OpFits

LEMMA ModelCommandFits ==
  ASSUME ~Accidents, SwitchInv, HistoryInv, NEW model, ModelCommand(model) PROVE HistoryInv'
<1>1. op.kind = "none" /\ op.pc = "none" /\ UNCHANGED <<rec, graph, ctx>>
  BY NothingIsIdle DEF ModelCommand, NothingRuns, storeVars
<1>2. op'.kind = "model" /\ op'.pc = "build" /\ ctx.history \in {NoModel, ctx.model}
  BY DEF ModelCommand, Begin, Settled, Model
<1> QED BY <1>1, <1>2, GivenFits DEF OpFits

LEMMA NewFits ==
  ASSUME ~Accidents, SwitchInv, HistoryInv, New PROVE HistoryInv'
<1>1. op.kind = "none" /\ op.pc = "none" /\ UNCHANGED <<rec, graph, ctx>>
  BY NothingIsIdle DEF New, NothingRuns, storeVars
<1>2. op'.kind = "new" /\ op'.pc = "build" /\ ctx.history \in {NoModel, ctx.model}
  BY DEF New, Begin, Settled, Model
<1> QED BY <1>1, <1>2, GivenFits DEF OpFits

LEMMA ForkFits ==
  ASSUME SwitchInv, HistoryInv, Fork PROVE HistoryInv'
<1>1. op.kind = "none" /\ op.pc = "none" /\ UNCHANGED <<rec, graph, ctx>>
  BY NothingIsIdle DEF Fork, NothingRuns, storeVars
<1>2. PICK pc : pc = IF ctx.agent = NoModel THEN "build" ELSE "copy" OBVIOUS
<1>3. op'.kind = "fork" /\ op'.pc = pc BY <1>2 DEF Fork, Begin
<1> QED BY <1>1, <1>2, <1>3, GivenFits DEF OpFits

LEMMA BuildFailsFits ==
  ASSUME SwitchInv, HistoryInv, BuildFails PROVE HistoryInv'
<1>1. op.pc = "build" /\ op.kind # "resume" /\ op' = NoSwitch /\ UNCHANGED <<rec, graph, ctx>>
  BY DEF BuildFails, SwitchAborts, storeVars
<1>2. HereFits(Row, graph[ctx.session], ctx.thread, OwnerOf(ctx))
  BY <1>1, IdleFits DEF Seeding
<1>3. Unbegun' /\ StrangersFit' BY <1>1, OthersStay DEF SwitchInv, RowsAreMade
<1> QED BY <1>1, <1>2, <1>3, RestFits DEF Row

\* The session goes on with its thread, or seeds it.
LEMMA GoesOnFits ==
  ASSUME SwitchInv, HistoryInv, Unbegun', StrangersFit', OpFits', Row'.thread = Row.thread,
         op'.kind \in {"prompt", "rebuild"}, op'.pc = "turn" \/ op'.pc = "seed",
         ctx'.session = ctx.session, ctx'.thread = ctx.thread, ctx'.agent # NoModel, SwitchStates',
         op'.pc = "seed" => Pending', op'.pc = "turn" => ~Pending',
         HereFits(Row', graph'[ctx'.session], ctx'.thread, ctx'.agent)
  PROVE  HistoryInv'
<1>1. Owner' = ctx'.agent BY DEF Owner, OwnerOf
<1>2. CASE op'.pc = "seed"
 <2>1. (Row.thread # ctx.thread)' BY <1>2 DEF Pending, Row
 <2>2. Row'.thread = NoThread /\ HereFits(Row', Unseeded'[ctx'.session], ctx'.thread, ctx'.agent)
  <3>1. PICK s \in SessionId, t \in Thread, r \in Rows, g \in Threads :
          s = ctx'.session /\ t = ctx'.thread /\ r = Row' /\ g = graph'[s]
    BY DEF SwitchStates, Contexts, Graphs, Threads, Row
  <3>2. Unseeded'[s] = [g EXCEPT ![t] = NoGraph] BY <3>1 DEF SwitchStates, Graphs, Unseeded
  <3>3. PICK m : m = ctx'.agent OBVIOUS
  <3>4. r.thread = NoThread /\ HereFits(r, [g EXCEPT ![t] = NoGraph], t, m)
    BY <2>1, <3>1, <3>3, WaitsFit
  <3> QED BY <3>1, <3>2, <3>3, <3>4
 <2>3. KeptGraph' = Unseeded' BY <1>2 DEF KeptGraph, Seeding
 <2> QED BY <1>1, <1>2, <2>2, <2>3 DEF HistoryInv, TheirOwnFits, LeftFits, Seeding
<1>3. CASE op'.pc = "turn"
 <2>1. KeptGraph' = graph' BY <1>3 DEF KeptGraph, Seeding
 <2>2. Row'.thread = ctx'.thread BY <1>3 DEF Pending, Row
 <2> QED BY <1>1, <1>3, <2>1, <2>2 DEF HistoryInv, TheirOwnFits, LeftFits, Seeding
<1> QED BY <1>2, <1>3

LEMMA PromptBuiltFits ==
  ASSUME SwitchInv, SwitchInv', HistoryInv, PromptBuilt PROVE HistoryInv'
<1>1. /\ op.kind = "prompt" /\ op.pc = "build" /\ op.to = NoModel /\ rec' = rec
      /\ graph' = IF Pending THEN graph ELSE Cleaned(ctx.history, Model)
      /\ ctx'.agent = ctx.model /\ ctx'.session = ctx.session /\ ctx'.thread = ctx.thread
  BY DEF PromptBuilt, Ensured, SwitchInv, SwitchStates, Contexts, Model
<1>2. PICK pc : pc = (IF Pending THEN "seed" ELSE "turn") /\ GoesTo(pc)
  BY DEF PromptBuilt, Ensured
<1>3. op'.kind = "prompt" /\ op'.pc = pc /\ op'.to = op.to BY <1>1, <1>2, SwitchGoesOn
<1>4. ctx.agent = NoModel /\ ctx.model # NoModel
  BY <1>1, ModelIsKnown DEF HistoryInv, OpFits, SwitchInv
<1>5. PICK from, to : from = ctx.history /\ to = ctx.model OBVIOUS
<1>6. HereFits(Row, graph[ctx.session], ctx.thread, IF from = NoModel THEN to ELSE from)
  BY <1>1, <1>4, <1>5, IdleFits DEF Seeding, OwnerOf
<1>7. HereFits(Row, graph'[ctx.session], ctx.thread, to)
 <2>1. CASE Pending
  <3>1. Row.thread = NoThread BY <1>6, <2>1 DEF Pending, Row, HereFits
  <3> QED BY <1>1, <1>6, <2>1, <3>1, OwnerOfNothing
 <2>2. CASE ~Pending
  <3>1. graph' = Cleaned(from, to) BY <1>1, <1>5, <2>2 DEF Model
  <3> QED BY <1>6, <3>1, CleanedFits DEF Row, SwitchInv
 <2> QED BY <2>1, <2>2
<1>8. \A x \in SessionId \ {ctx.session} : graph'[x] = graph[x]
 <2>1. graph' = graph \/ graph' = Cleaned(from, to) BY <1>1, <1>5 DEF Model
 <2>0. SwitchStates BY DEF SwitchInv
 <2>2. \A x \in SessionId \ {ctx.session} : Cleaned(from, to)[x] = graph[x]
   BY <2>0, OthersAreNotCleaned
 <2> QED BY <2>1, <2>2
<1>9. Unbegun' /\ StrangersFit' BY <1>1, <1>8, OthersStay DEF SwitchInv, RowsAreMade
<1>10. OpFits' BY <1>1, <1>2, <1>3 DEF OpFits
<1>11. Row' = Row /\ (Pending' <=> Pending) BY <1>1 DEF Row, Pending
<1> QED BY <1>1, <1>2, <1>3, <1>4, <1>5, <1>7, <1>9, <1>10, <1>11, GoesOnFits DEF SwitchInv

LEMMA OwnBuiltFits ==
  ASSUME SwitchInv, SwitchInv', HistoryInv, OwnBuilt PROVE HistoryInv'
<1>1. /\ op.kind = "prompt" /\ op.pc = "build" /\ op.to # NoModel /\ rec' = rec
      /\ ctx'.agent = op.to /\ ctx'.session = ctx.session /\ ctx'.thread = ctx.thread /\ ctx'.model = op.to
  BY DEF OwnBuilt, SwitchInv, SwitchStates, Contexts
<1>2. PICK pc : pc = (IF Pending THEN "seed" ELSE "turn") /\ GoesTo(pc) BY DEF OwnBuilt
<1>3. op'.kind = "prompt" /\ op'.pc = pc /\ op'.to = op.to BY <1>1, <1>2, SwitchGoesOn
<1>4. ctx.history \in {NoModel, ctx.model} /\ ctx.model # NoModel /\ ctx.agent \in {NoModel, ctx.model}
  BY <1>1, ModelIsKnown DEF HistoryInv, OpFits, SwitchInv, AgentIsOfModel
<1>5. PICK from, to : from = ctx.model /\ to = op.to OBVIOUS
<1>6. HereFits(Row, graph[ctx.session], ctx.thread, from)
  BY <1>1, <1>4, <1>5, IdleFits DEF Seeding, OwnerOf
<1>7. graph' = IF Pending THEN graph ELSE Cleaned(from, to)
  BY <1>4, <1>5 DEF OwnBuilt, Model
<1>8. HereFits(Row, graph'[ctx.session], ctx.thread, to)
 <2>1. CASE Pending
  <3>1. Row.thread = NoThread BY <1>6, <2>1 DEF Pending, Row, HereFits
  <3> QED BY <1>6, <1>7, <2>1, <3>1, OwnerOfNothing
 <2>2. CASE ~Pending BY <1>4, <1>5, <1>6, <1>7, <2>2, CleanedFits DEF Row, SwitchInv
 <2> QED BY <2>1, <2>2
<1>9. \A x \in SessionId \ {ctx.session} : graph'[x] = graph[x]
 <2>1. graph' = graph \/ graph' = Cleaned(from, to) BY <1>7
 <2>0. SwitchStates BY DEF SwitchInv
 <2>2. \A x \in SessionId \ {ctx.session} : Cleaned(from, to)[x] = graph[x]
   BY <2>0, OthersAreNotCleaned
 <2> QED BY <2>1, <2>2
<1>10. Unbegun' /\ StrangersFit' BY <1>1, <1>9, OthersStay DEF SwitchInv, RowsAreMade
<1>11. OpFits' BY <1>1, <1>2, <1>3 DEF OpFits
<1>12. Row' = Row /\ (Pending' <=> Pending) BY <1>1 DEF Row, Pending
<1> QED BY <1>1, <1>2, <1>3, <1>5, <1>8, <1>10, <1>11, <1>12, GoesOnFits DEF SwitchInv

LEMMA RebuiltFits ==
  ASSUME SwitchInv, SwitchInv', HistoryInv, Rebuilt PROVE HistoryInv'
<1>1. /\ op.kind = "rebuild" /\ op.pc = "build" /\ UNCHANGED <<rec, graph>>
      /\ ctx'.agent = ctx.model /\ ctx'.session = ctx.session /\ ctx'.thread = ctx.thread
  BY DEF Rebuilt, storeVars, SwitchInv, SwitchStates, Contexts, Model
<1>2. ctx.agent = ctx.model /\ ctx.model # NoModel
  BY <1>1, ModelIsKnown DEF SwitchInv, AgentIsOfModel
<1>3. HereFits(Row, graph[ctx.session], ctx.thread, ctx.model)
  BY <1>1, <1>2, IdleFits DEF Seeding, OwnerOf
<1>4. Unbegun' /\ StrangersFit' BY <1>1, OthersStay DEF SwitchInv, RowsAreMade
<1>5. CASE Pending
 <2>1. GoesTo("seed") BY <1>5 DEF Rebuilt
 <2>2. op'.kind = "rebuild" /\ op'.pc = "seed" BY <1>1, <2>1, SwitchGoesOn
 <2>3. OpFits' /\ Row' = Row /\ Pending' BY <1>1, <1>5, <2>2 DEF OpFits, Row, Pending
 <2> QED BY <1>1, <1>2, <1>3, <1>4, <2>2, <2>3, GoesOnFits DEF SwitchInv
<1>6. CASE ~Pending
 <2>1. op' = NoSwitch BY <1>6 DEF Rebuilt, SwitchOver
 <2> QED BY <1>1, <1>2, <1>3, <1>4, <2>1, RestFits DEF Row, OwnerOf
<1> QED BY <1>5, <1>6

LEMMA ForkBuiltFits ==
  ASSUME SwitchInv, HistoryInv, ForkBuilt PROVE HistoryInv'
<1>1. /\ op.kind = "fork" /\ op.pc = "build" /\ rec' = rec /\ op \in Switches
      /\ graph' = IF Pending THEN graph ELSE Cleaned(ctx.history, Model)
      /\ ctx'.agent = ctx.model /\ ctx'.session = ctx.session /\ ctx'.thread = ctx.thread
  BY DEF ForkBuilt, SwitchInv, OpIsKnown, NoSwitch, SwitchStates, Contexts, Model
<1>2. op'.kind = "fork" /\ op'.pc = "copy" BY <1>1 DEF ForkBuilt, Switches
<1>4. ctx.agent = NoModel /\ ctx.model # NoModel
  BY <1>1, ModelIsKnown DEF HistoryInv, OpFits, SwitchInv
<1>5. PICK from, to : from = ctx.history /\ to = ctx.model OBVIOUS
<1>6. HereFits(Row, graph[ctx.session], ctx.thread, IF from = NoModel THEN to ELSE from)
  BY <1>1, <1>4, <1>5, IdleFits DEF Seeding, OwnerOf
<1>7. HereFits(Row, graph'[ctx.session], ctx.thread, to)
 <2>1. CASE Pending
  <3>1. Row.thread = NoThread BY <1>6, <2>1 DEF Pending, Row, HereFits
  <3> QED BY <1>1, <1>6, <2>1, <3>1, OwnerOfNothing
 <2>2. CASE ~Pending
  <3>1. graph' = Cleaned(from, to) BY <1>1, <1>5, <2>2 DEF Model
  <3> QED BY <1>6, <3>1, CleanedFits DEF Row, SwitchInv
 <2> QED BY <2>1, <2>2
<1>8. \A x \in SessionId \ {ctx.session} : graph'[x] = graph[x]
 <2>1. graph' = graph \/ graph' = Cleaned(from, to) BY <1>1, <1>5 DEF Model
 <2>0. SwitchStates BY DEF SwitchInv
 <2>2. \A x \in SessionId \ {ctx.session} : Cleaned(from, to)[x] = graph[x]
   BY <2>0, OthersAreNotCleaned
 <2> QED BY <2>1, <2>2
<1>9. Unbegun' /\ StrangersFit' BY <1>1, <1>8, OthersStay DEF SwitchInv, RowsAreMade
<1>10. Row' = Row /\ Owner' = to /\ KeptGraph' = graph'
  BY <1>1, <1>2, <1>4, <1>5 DEF Row, Owner, OwnerOf, KeptGraph, Seeding
<1> QED BY <1>1, <1>2, <1>7, <1>9, <1>10 DEF HistoryInv, TheirOwnFits, LeftFits, OpFits, Seeding

LEMMA SwitchAnnouncedFits ==
  ASSUME SwitchInv, SwitchInv', HistoryInv, SwitchAnnounced PROVE HistoryInv'
<1>1. op.pc = "announce" /\ op \in Switches /\ UNCHANGED <<rec, graph>> /\ op.kind # "none"
  BY DEF SwitchAnnounced, storeVars, SwitchInv, OpIsKnown, NoSwitch, Switches
<1>2. ctx.agent # NoModel /\ Row.thread = ctx.thread /\ rec[ctx.session].made
  BY <1>1 DEF SwitchInv, AgentIsOfModel, SeedIsThere, Row, RowsAreMade
<1>3. HereFits(Row, graph[ctx.session], ctx.thread, ctx.agent)
  BY <1>1, <1>2, IdleFits DEF Seeding, OwnerOf
<1>4. ctx'.session = ctx.session /\ ctx'.thread = ctx.thread
      /\ ctx'.agent = ctx.agent /\ ctx'.model = ctx.model
  BY DEF SwitchAnnounced, SwitchInv, SwitchStates, Contexts
<1>5. Unbegun' /\ StrangersFit' /\ Row' = Row BY <1>1, <1>2, <1>4, OthersStay DEF Row
<1>6. CASE op.kind = "prompt" /\ GoesTo("turn")
 <2>1. op'.kind = "prompt" /\ op'.pc = "turn" /\ op'.to = op.to BY <1>1, <1>6, SwitchGoesOn
 <2>2. OpFits' BY <1>1, <1>4, <1>6, <2>1 DEF HistoryInv, OpFits
 <2>3. ~Pending' BY <1>1, <1>2, <1>4 DEF Pending, Row
 <2> QED BY <1>1, <1>2, <1>3, <1>4, <1>5, <2>1, <2>2, <2>3, GoesOnFits DEF SwitchInv
<1>7. CASE op' = NoSwitch BY <1>1, <1>2, <1>3, <1>4, <1>5, <1>7, RestFits DEF Row, OwnerOf
<1> QED BY <1>6, <1>7 DEF SwitchAnnounced, SwitchOver

\* A prompt's own model is given back: what the history has is the other's again.
LEMMA OwnBackFits ==
  ASSUME SwitchInv, op.kind = "prompt", op.to # NoModel, op' = NoSwitch, Unbegun', StrangersFit',
         ctx' = [ctx EXCEPT !.model = op.ctx.model, !.agent = op.ctx.agent,
                            !.history = IF op.ctx.agent = NoModel THEN op.to ELSE @],
         HereFits(rec'[ctx.session], graph'[ctx.session], ctx.thread,
                  IF op.ctx.agent = NoModel THEN op.to ELSE op.ctx.model)
  PROVE  HistoryInv'
<1>1. op.ctx.agent \in {NoModel, op.ctx.model} /\ ctx \in Contexts
  BY DEF SwitchInv, OpIsKnown, NoSwitch, SwitchStates
<1>2. /\ ctx'.session = ctx.session /\ ctx'.thread = ctx.thread /\ ctx'.agent = op.ctx.agent
      /\ op.ctx.agent = NoModel => ctx'.history = op.to
  BY <1>1 DEF Contexts
<1>3. OwnerOf(ctx') = IF op.ctx.agent = NoModel THEN op.to ELSE op.ctx.model
  BY <1>1, <1>2 DEF OwnerOf
<1> QED BY <1>2, <1>3, RestFits

LEMMA SwitchUnheardFits ==
  ASSUME SwitchInv, SwitchInv', HistoryInv, SwitchUnheard PROVE HistoryInv'
<1>1. op.pc = "announce" /\ rec' = rec /\ op.kind # "none" /\ op' = NoSwitch
  BY DEF SwitchUnheard, SwitchAborts, SwitchInv, OpIsKnown, NoSwitch, Switches
<1>2. ctx.agent # NoModel /\ ctx.agent = ctx.model /\ rec[ctx.session].made
  BY <1>1 DEF SwitchInv, AgentIsOfModel, RowsAreMade
<1>3. HereFits(Row, graph[ctx.session], ctx.thread, ctx.agent)
  BY <1>1, <1>2, IdleFits DEF Seeding, OwnerOf
<1>4. CASE op.kind = "prompt" /\ op.to # NoModel
 <2>1. ctx' = [ctx EXCEPT !.model = op.ctx.model, !.agent = op.ctx.agent,
                          !.history = IF op.ctx.agent = NoModel THEN op.to ELSE @]
   BY <1>4 DEF SwitchUnheard
 <2>2. ctx.agent = op.to /\ ctx'.session = ctx.session
   BY <1>1, <1>2, <1>4, <2>1 DEF HistoryInv, OpFits, SwitchInv, SwitchStates, Contexts
 <2>3. PICK from, to : from = op.to /\ to = op.ctx.model OBVIOUS
 <2>4. graph' = IF op.ctx.agent # NoModel THEN Cleaned(from, to) ELSE graph
   BY <1>4, <2>3 DEF SwitchUnheard
 <2>5. \A x \in SessionId \ {ctx.session} : graph'[x] = graph[x]
  <3>1. SwitchStates BY DEF SwitchInv
  <3>2. \A x \in SessionId \ {ctx.session} : Cleaned(from, to)[x] = graph[x]
    BY <3>1, OthersAreNotCleaned
  <3> QED BY <2>4, <3>2
 <2>6. Unbegun' /\ StrangersFit' BY <1>1, <1>2, <2>2, <2>5, OthersStay
 <2>7. HereFits(Row, graph'[ctx.session], ctx.thread,
               IF op.ctx.agent = NoModel THEN op.to ELSE op.ctx.model)
  <3>1. CASE op.ctx.agent = NoModel BY <1>3, <2>2, <2>4, <3>1
  <3>2. CASE op.ctx.agent # NoModel
    BY <1>3, <1>4, <2>2, <2>3, <2>4, <3>2, CleanedFits DEF Row, SwitchInv
  <3> QED BY <3>1, <3>2
 <2> QED BY <1>1, <1>4, <2>1, <2>6, <2>7, OwnBackFits DEF Row
<1>5. CASE ~(op.kind = "prompt" /\ op.to # NoModel)
 <2>1. ctx' = ctx /\ graph' = graph BY <1>5 DEF SwitchUnheard
 <2>2. Unbegun' /\ StrangersFit' BY <1>1, <1>2, <2>1, OthersStay
 <2> QED BY <1>1, <1>2, <1>3, <2>1, <2>2, RestFits DEF Row, OwnerOf
<1> QED BY <1>4, <1>5

\* A seed has what the path has, and nothing private to others.
LEMMA SeedWritesFits ==
  ASSUME SwitchInv, HistoryInv, SeedWrites PROVE HistoryInv'
<1>1. op.pc = "seed" /\ op.kind \in {"prompt", "rebuild", "fork", "resume"} /\ GoesTo("activate")
      /\ UNCHANGED <<rec, ctx>>
  BY DEF SeedWrites, SwitchInv, OpIsKnown, NoSwitch, Switches
<1>0. PICK others : others = Foreign(Model) OBVIOUS
<1>2. PICK s \in SessionId, t \in Thread, path \in Context :
        s = ctx.session /\ t = ctx.thread /\ path = rec[s].path /\ others = Foreign(Model)
  BY <1>0 DEF SwitchInv, SwitchStates, Contexts, Rows
<1>3. PICK h \in Context : h = Stripping(path, others) BY DEF Stripping, Context
<1>4. h.said = path.said /\ h.private \subseteq {ctx.model}
  BY <1>2, <1>3 DEF Stripping, Context, Foreign, Model
<1>5. graph' = [graph EXCEPT ![s][t] = h] /\ graph \in Graphs
  BY <1>2, <1>3 DEF SeedWrites, SwitchInv, SwitchStates
<1>6. graph'[s][t] = h /\ \A x \in SessionId \ {s} : graph'[x] = graph[x] BY <1>5 DEF Graphs
<1>7. Unseeded' = Unseeded
 <2>1. [graph' EXCEPT ![s][t] = NoGraph] = [graph EXCEPT ![s][t] = NoGraph]
   BY <1>5 DEF Graphs
 <2> QED BY <1>1, <1>2, <2>1 DEF Unseeded
<1>8. op'.kind = op.kind /\ op'.pc = "activate" /\ op'.to = op.to /\ op'.ctx = op.ctx /\ op'.rec = op.rec
  BY <1>1, SwitchGoesOn
<1>9. Unbegun' /\ StrangersFit' BY <1>1, <1>2, <1>6, OthersStay DEF SwitchInv, RowsAreMade
<1>10. KeptGraph = Unseeded /\ KeptGraph' = Unseeded /\ Row' = Row /\ Owner' = Owner /\ Seeding /\ Seeding'
  BY <1>1, <1>7, <1>8 DEF KeptGraph, Seeding, Row, Owner, OwnerOf
<1>11. graph'[ctx.session][ctx.thread].said = Row.path.said
       /\ graph'[ctx.session][ctx.thread].private \subseteq {ctx.model}
  BY <1>2, <1>4, <1>6 DEF Row
<1>12. TheirOwnFits' BY <1>1, <1>8, <1>10, <1>11 DEF HistoryInv, TheirOwnFits
<1>13. LeftFits' /\ OpFits' BY <1>1, <1>8, <1>10 DEF HistoryInv, LeftFits, OpFits
<1> QED BY <1>9, <1>12, <1>13 DEF HistoryInv

LEMMA SeedActivatesFits ==
  ASSUME SwitchInv, HistoryInv, SeedActivates PROVE HistoryInv'
<1>1. /\ op.pc = "activate" /\ op.kind \in {"prompt", "rebuild", "fork", "resume"} /\ GoesTo("announce")
      /\ UNCHANGED <<graph, ctx>>
  BY DEF SeedActivates, SwitchInv, OpIsKnown, NoSwitch, Switches
<1>2. PICK s \in SessionId, t \in Thread, q \in Rows, g \in Threads :
        s = ctx.session /\ t = ctx.thread /\ q = rec[s] /\ g = graph[s]
  BY Here DEF SwitchInv
<1>3. PICK r : r = [q EXCEPT !.thread = t, !.rows = @ \union {t}] OBVIOUS
<1>4. r.thread = t /\ r.rows = q.rows \union {t} /\ r.path = q.path /\ r.made = q.made
  BY <1>3 DEF Rows
<1>5. rec' = [rec EXCEPT ![s] = r] BY <1>2, <1>3 DEF SeedActivates
<1>6. rec'[s] = r /\ \A x \in SessionId \ {s} : rec'[x] = rec[x]
  BY <1>5 DEF SwitchInv, SwitchStates
<1>7. op'.kind = op.kind /\ op'.pc = "announce" /\ op'.to = op.to BY <1>1, SwitchGoesOn
<1>8. q.made /\ ctx.agent # NoModel /\ ctx.agent = ctx.model /\ g[t] # NoGraph
  BY <1>1, <1>2 DEF SwitchInv, RowsAreMade, AgentIsOfModel, SeedIsThere
<1>9. g[t].said = q.path.said /\ g[t].private \subseteq {ctx.agent}
  BY <1>1, <1>2, <1>8 DEF HistoryInv, TheirOwnFits, Row
<1>10. \A x \in q.rows : x = t \/ g[x] # NoGraph
 <2>1. CASE op.kind = "fork" BY <1>1, <1>2, <2>1 DEF HistoryInv, TheirOwnFits, Seeding, Row
 <2>2. CASE op.kind # "fork"
  <3>1. q.thread = NoThread /\ HereFits(q, Unseeded[s], t, Owner)
    BY <1>1, <1>2, <2>2 DEF HistoryInv, TheirOwnFits, Seeding, Row, KeptGraph
  <3>2. PICK h : h = Unseeded[s] OBVIOUS
  <3>3. h = [g EXCEPT ![t] = NoGraph] BY <1>2, <3>2, UnseededHere DEF SwitchInv
  <3>4. q.rows \subseteq Thread BY DEF Rows
  <3>5. \A x \in q.rows : x # t => h[x] = g[x] BY <3>3, <3>4 DEF Threads
  <3> QED BY <3>1, <3>2, <3>5 DEF HereFits
 <2> QED BY <2>1, <2>2
<1>11. PICK o : o = ctx.agent OBVIOUS
<1>12. HereFits(r, g, t, o) BY <1>4, <1>8, <1>9, <1>10, <1>11, ActivatedFits
<1>13. Unbegun' /\ StrangersFit' BY <1>1, <1>2, <1>4, <1>6, <1>8, OthersStay
<1>14. Row' = r /\ Owner' = o /\ KeptGraph' = graph /\ ~Seeding'
  BY <1>1, <1>2, <1>6, <1>7, <1>8, <1>11 DEF Row, Owner, OwnerOf, KeptGraph, Seeding
<1>15. TheirOwnFits' BY <1>1, <1>2, <1>7, <1>12, <1>14 DEF TheirOwnFits, Seeding
<1>16. LeftFits' /\ OpFits' BY <1>1, <1>7, <1>14 DEF HistoryInv, LeftFits, OpFits
<1> QED BY <1>13, <1>15, <1>16 DEF HistoryInv

\* What is left of a command whose seeding has failed.
LEMMA ForkedIsGone ==
  ASSUME SwitchInv, HistoryInv, op.kind = "fork", op.pc \in {"seed", "activate"}, NEW g \in Graphs,
         g = Unseeded, DeleteFork(g), op' = NoSwitch
  PROVE  HistoryInv'
<1>1. PICK s \in SessionId, x \in SessionId : s = ctx.session /\ x = op.ctx.session /\ x # s
 <2>1. ctx \in Contexts /\ op.ctx \in Contexts /\ ctx.session # op.ctx.session
   BY DEF SwitchInv, SwitchStates, OpIsKnown, NoSwitch, Switches, ChangesAreKnown
 <2> QED BY <2>1 DEF Contexts
<1>2. rec' = op.rec /\ ctx' = op.ctx /\ op.rec[s] = Unmade /\ \A y \in SessionId \ {s} : op.rec[y] = rec[y]
  BY <1>1, ForkIsDeleted DEF SwitchInv, ChangesAreKnown
<1>3. graph' = [g EXCEPT ![s] = [t \in Thread |-> NoGraph]] BY <1>1 DEF DeleteFork
<1>4. \A y \in SessionId \ {s} : g[y] = graph[y] BY <1>1, UnseededHere DEF SwitchInv
<1>5. graph'[s] = [t \in Thread |-> NoGraph] /\ \A y \in SessionId \ {s} : graph'[y] = graph[y]
  BY <1>3, <1>4 DEF Graphs
<1>6. Unbegun' BY <1>1, <1>2, <1>5 DEF HistoryInv, Unbegun
<1>7. StrangersFit'
 <2>1. ASSUME NEW y \in SessionId \ {s} PROVE RowFits(rec'[y], graph'[y], rec'[y].model)
   BY <1>1, <1>2, <1>5, <2>1 DEF HistoryInv, StrangersFit
 <2>2. RowFits(rec'[s], graph'[s], rec'[s].model) BY <1>2 DEF Unmade, RowFits
 <2> QED BY <2>1, <2>2 DEF StrangersFit
<1>8. op.ctx.agent # NoModel /\ HereFits(op.rec[x], graph[x], op.ctx.thread, op.ctx.model)
 <2>1. KeptGraph = g BY DEF KeptGraph, Seeding
 <2> QED BY <1>1, <1>4, <2>1 DEF HistoryInv, LeftFits, Seeding
<1>9. op.ctx.agent = op.ctx.model BY <1>8 DEF SwitchInv, OpIsKnown, NoSwitch
<1> QED BY <1>1, <1>2, <1>5, <1>6, <1>7, <1>8, <1>9, RestFits DEF OwnerOf

LEMMA ResumeIsTakenBack ==
  ASSUME SwitchInv, HistoryInv, op.kind = "resume", op.pc # "announce", RestoreTarget, graph' = KeptGraph,
         op' = NoSwitch, op.pc \in {"build", "seed", "activate"}
  PROVE  HistoryInv'
<1>1. PICK s \in SessionId, x \in SessionId : s = ctx.session /\ x = op.ctx.session
 <2>1. ctx \in Contexts /\ op.ctx \in Contexts
   BY DEF SwitchInv, SwitchStates, OpIsKnown, NoSwitch, Switches
 <2> QED BY <2>1 DEF Contexts
<1>2. rec' = op.rec /\ ctx' = op.ctx BY TargetIsRestored
<1>3. /\ \A y \in SessionId \ {s} : op.rec[y] = rec[y]
      /\ [rec[s] EXCEPT !.thread = op.rec[s].thread] = op.rec[s] /\ rec[s].made /\ rec[s] \in Rows
  BY <1>1 DEF SwitchInv, ChangesAreKnown, RowsAreMade, SwitchStates
<1>4. op.rec[s].made BY <1>3 DEF Rows
<1>5. \A y \in SessionId \ {s} : graph'[y] = graph[y]
  BY <1>1, UnseededHere DEF KeptGraph, SwitchInv
<1>6. Unbegun' BY <1>2, <1>3, <1>4, <1>5 DEF HistoryInv, Unbegun
<1>7. StrangersFit'
 <2>1. ASSUME NEW y \in SessionId \ {s} PROVE RowFits(rec'[y], graph'[y], rec'[y].model)
   BY <1>1, <1>2, <1>3, <1>5, <2>1 DEF HistoryInv, StrangersFit
 <2>2. RowFits(rec'[s], graph'[s], rec'[s].model) BY <1>1, <1>2 DEF HistoryInv, LeftFits
 <2> QED BY <2>1, <2>2 DEF StrangersFit
<1>8. op.ctx.agent # NoModel /\ HereFits(op.rec[x], KeptGraph[x], op.ctx.thread, op.ctx.model)
  BY <1>1 DEF HistoryInv, LeftFits
<1>9. op.ctx.agent = op.ctx.model BY <1>8 DEF SwitchInv, OpIsKnown, NoSwitch
<1> QED BY <1>1, <1>2, <1>6, <1>7, <1>8, <1>9, RestFits DEF OwnerOf

LEMMA SeedFailsFits ==
  ASSUME SwitchInv, HistoryInv, SeedFails PROVE HistoryInv'
<1>1. op.pc \in {"seed", "activate"} /\ op' = NoSwitch /\ op.kind \in {"prompt", "rebuild", "fork", "resume"}
  BY DEF SeedFails, SwitchAborts, SwitchInv, OpIsKnown, NoSwitch, Switches
<1>2. KeptGraph = Unseeded /\ Seeding BY <1>1 DEF KeptGraph, Seeding
<1>3. CASE op.kind = "resume"
 <2>1. RestoreTarget /\ graph' = Unseeded BY <1>3 DEF SeedFails
 <2> QED BY <1>1, <1>2, <1>3, <2>1, ResumeIsTakenBack
<1>4. CASE op.kind = "fork"
 <2>1. PICK g \in Graphs : g = Unseeded BY UnseededIsGraph DEF SwitchInv
 <2>2. DeleteFork(g) BY <1>4, <2>1 DEF SeedFails
 <2> QED BY <1>1, <1>4, <2>1, <2>2, ForkedIsGone
<1>5. CASE op.kind \in {"prompt", "rebuild"}
 <2>1. graph' = Unseeded /\ rec' = rec
       /\ ctx' = IF op.to = NoModel THEN ctx
                 ELSE [ctx EXCEPT !.model = op.ctx.model, !.agent = op.ctx.agent,
                                  !.history = IF op.ctx.agent = NoModel THEN op.to ELSE @]
   BY <1>5 DEF SeedFails
 <2>2. ctx'.session = ctx.session /\ ctx'.thread = ctx.thread
   BY <2>1 DEF SwitchInv, SwitchStates, Contexts
 <2>3. Unbegun' /\ StrangersFit'
  <3>1. \A x \in SessionId \ {ctx.session} : graph'[x] = graph[x]
    BY <2>1, UnseededHere DEF SwitchInv
  <3> QED BY <2>1, <2>2, <3>1, OthersStay DEF SwitchInv, RowsAreMade
 <2>4. Row.thread = NoThread /\ HereFits(Row, Unseeded[ctx.session], ctx.thread, Owner)
   BY <1>2, <1>5, <1>1 DEF HistoryInv, TheirOwnFits
 <2>5. PICK p : p = OwnerOf(ctx') OBVIOUS
 <2>6. HereFits(Row, Unseeded[ctx.session], ctx.thread, p) BY <2>4, OwnerOfNothing
 <2> QED BY <1>1, <2>1, <2>2, <2>3, <2>5, <2>6, RestFits DEF Row
<1> QED BY <1>1, <1>3, <1>4, <1>5

\* An answer is added to the thread's checkpoint.
LEMMA AnsweredFits ==
  ASSUME NEW r \in Rows, NEW g \in Threads, NEW t \in Thread, NEW a \in Provider,
         HereFits(r, g, t, a), r.thread = t,
         NEW h, h = IF g[t] = NoGraph THEN [said |-> {a}, private |-> {a}]
                    ELSE [said |-> g[t].said \union {a}, private |-> g[t].private \union {a}]
  PROVE  h \in Context /\ RowFits(r, [g EXCEPT ![t] = h], a)
<1>1. t # NoThread /\ r.rows \subseteq Thread /\ g[t] \in Context \union {NoGraph} /\ t \in r.rows
  BY ThreadsAreNumbers DEF Rows, Threads, HereFits, RowFits
<1>2. h \in Context BY <1>1 DEF Context
<1>3. PICK f : f = [g EXCEPT ![t] = h] OBVIOUS
<1>4. f[t] = h /\ h # NoGraph /\ \A x \in r.rows \ {t} : f[x] = g[x]
  BY <1>1, <1>2, <1>3, ContextsDiffer DEF Threads
<1>5. CASE g[t] = NoGraph
 <2>1. r.rows = {0} /\ t = 0 /\ r.path.said = {} /\ h.said = {a} /\ h.private = {a}
   BY <1>1, <1>5 DEF HereFits, RowFits
 <2> QED BY <1>1, <1>2, <1>3, <1>4, <2>1 DEF RowFits
<1>6. CASE g[t] # NoGraph
 <2>1. h.said = g[t].said \union {a} /\ h.private = g[t].private \union {a} BY <1>6
 <2>2. r.path.said = g[t].said /\ g[t].private \subseteq {a} /\ \A x \in r.rows : g[x] # NoGraph
   BY <1>1, <1>6 DEF HereFits, RowFits
 <2>3. \A x \in r.rows : f[x] # NoGraph BY <1>4, <2>2
 <2> QED BY <1>1, <1>2, <1>3, <1>4, <2>1, <2>2, <2>3 DEF RowFits
<1> QED BY <1>5, <1>6

LEMMA ModelAnswersFits ==
  ASSUME SwitchInv, HistoryInv, ModelAnswers PROVE HistoryInv'
<1>1. op.pc = "turn" /\ op.kind = "prompt" /\ GoesTo("capture") /\ UNCHANGED <<rec, ctx>>
  BY DEF ModelAnswers, SwitchInv, OpIsKnown, NoSwitch
<1>2. PICK s \in SessionId, t \in Thread, r \in Rows, g \in Threads :
        s = ctx.session /\ t = ctx.thread /\ r = rec[s] /\ g = graph[s]
  BY Here DEF SwitchInv
<1>3. PICK a \in Provider : a = ctx.agent /\ a # NoModel
  BY <1>1 DEF SwitchInv, AgentIsOfModel, SwitchStates, Contexts
<1>4. HereFits(r, g, t, a) /\ r.thread = t /\ r.made
 <2>1. HereFits(Row, graph[ctx.session], ctx.thread, OwnerOf(ctx))
   BY <1>1, IdleFits DEF Seeding
 <2> QED
   BY <1>1, <1>2, <1>3, <2>1 DEF OwnerOf, Row, HistoryInv, TheirOwnFits, SwitchInv, RowsAreMade
<1>5. PICK h : h = IF g[t] = NoGraph THEN [said |-> {a}, private |-> {a}]
                   ELSE [said |-> g[t].said \union {a}, private |-> g[t].private \union {a}]
  OBVIOUS
<1>6. RowFits(r, [g EXCEPT ![t] = h], a) BY <1>4, <1>5, AnsweredFits
<1>7. graph' = [graph EXCEPT ![s][t] = h] /\ graph \in Graphs
  BY <1>2, <1>3, <1>5 DEF ModelAnswers, SwitchInv, SwitchStates
<1>8. graph'[s] = [g EXCEPT ![t] = h] /\ \A x \in SessionId \ {s} : graph'[x] = graph[x]
  BY <1>2, <1>7 DEF Graphs
<1>9. op'.kind = "prompt" /\ op'.pc = "capture" /\ op'.to = op.to BY <1>1, SwitchGoesOn
<1>10. Unbegun' /\ StrangersFit' BY <1>1, <1>2, <1>4, <1>8, OthersStay
<1>11. Row' = r /\ Owner' = a /\ ~Seeding'
  BY <1>1, <1>2, <1>3, <1>9 DEF Row, Owner, OwnerOf, Seeding
<1>12. TheirOwnFits' BY <1>1, <1>2, <1>4, <1>6, <1>8, <1>9, <1>11 DEF TheirOwnFits, Seeding
<1>13. LeftFits' /\ OpFits' BY <1>1, <1>9 DEF HistoryInv, LeftFits, OpFits
<1> QED BY <1>10, <1>12, <1>13 DEF HistoryInv

\* What is captured is what the active thread's checkpoint has.
LEMMA CapturedFits ==
  ASSUME NEW q \in Rows, NEW r, NEW g \in Threads, NEW t \in Thread, NEW o, NEW seen, RowFits(q, g, o),
         t \in q.rows, q.thread = t \/ (q.thread = NoThread /\ HereFits(q, g, t, o)),
         r.thread = t, r.rows = q.rows, r.path = Captured(q.path, g[t], seen)
  PROVE  HereFits(r, g, t, o)
<1>1. t # NoThread /\ q.path \in Context /\ g[t] \in Context \union {NoGraph}
  BY ThreadsAreNumbers DEF Rows, Threads
<1>2. CASE g[t] = NoGraph
 <2>1. q.rows = {0} /\ t = 0 /\ q.path.said = {} /\ r.path = q.path
   BY <1>2 DEF RowFits, Captured
 <2> QED BY <1>1, <1>2, <2>1 DEF HereFits, RowFits
<1>3. CASE g[t] # NoGraph
 <2>1. q.thread = t BY <1>1, <1>3 DEF HereFits
 <2>2. q.path.said \subseteq g[t].said /\ g[t].private \subseteq {o} /\ \A x \in q.rows : g[x] # NoGraph
   BY <1>1, <1>3, <2>1 DEF RowFits
 <2>3. r.path.said = g[t].said BY <1>1, <1>3, <2>2, CapturedSays
 <2> QED BY <1>1, <2>2, <2>3 DEF HereFits, RowFits
<1> QED BY <1>2, <1>3

LEMMA TurnEndsFits ==
  ASSUME SwitchInv, HistoryInv, TurnEnds PROVE HistoryInv'
<1>1. op.pc \in {"turn", "capture"} /\ op.kind = "prompt" /\ op' = NoSwitch
  BY DEF TurnEnds, SwitchOver, SwitchInv, OpIsKnown, NoSwitch
<1>0. PICK seen : seen = cursor[ctx.session][ctx.thread] OBVIOUS
<1>2. PICK s \in SessionId, t \in Thread, q \in Rows, g \in Threads :
        s = ctx.session /\ t = ctx.thread /\ q = rec[s] /\ g = graph[s]
  BY Here DEF SwitchInv
<1>3. seen = cursor[s][t] /\ g[t] \in Context \union {NoGraph} /\ q.path \in Context
  BY <1>0, <1>2 DEF Threads, Rows
<1>4. PICK path \in Context : path = Captured(q.path, g[t], seen) BY <1>3, CapturedIsContext
<1>5. PICK r : r = [q EXCEPT !.path = path, !.cut = FALSE] OBVIOUS
<1>6. r \in Rows /\ r.thread = q.thread /\ r.rows = q.rows /\ r.path = path /\ r.made = q.made
  BY <1>5 DEF Rows
<1>7. rec' = [rec EXCEPT ![s] = r] BY <1>2, <1>3, <1>4, <1>5 DEF TurnEnds, Capture
<1>8. rec'[s] = r /\ \A x \in SessionId \ {s} : rec'[x] = rec[x]
  BY <1>7 DEF SwitchInv, SwitchStates
<1>9. PICK o : o = ctx.agent /\ o # NoModel /\ o = ctx.model
  BY <1>1 DEF SwitchInv, AgentIsOfModel
<1>10. RowFits(q, g, o) /\ q.thread = t /\ q.made
  BY <1>1, <1>2, <1>9 DEF HistoryInv, TheirOwnFits, HereFits, Row, Owner, OwnerOf, KeptGraph,
     Seeding, SwitchInv, RowsAreMade
<1>11. HereFits(r, g, t, o)
 <2>1. t # NoThread BY ThreadsAreNumbers
 <2>2. t \in q.rows BY <1>10, <2>1 DEF RowFits
 <2> QED BY <1>4, <1>6, <1>10, <2>2, CapturedFits
<1>12. CASE op.to = NoModel
 <2>1. UNCHANGED <<graph, ctx>> BY <1>12 DEF TurnEnds
 <2>2. Unbegun' /\ StrangersFit' BY <1>2, <1>6, <1>8, <1>10, <2>1, OthersStay
 <2> QED BY <1>1, <1>2, <1>8, <1>9, <1>11, <2>1, <2>2, RestFits DEF OwnerOf
<1>13. CASE op.to # NoModel
 <2>1. ctx' = [ctx EXCEPT !.model = op.ctx.model, !.agent = op.ctx.agent,
                          !.history = IF op.ctx.agent = NoModel THEN op.to ELSE @]
   BY <1>13 DEF TurnEnds
 <2>2. o = op.to /\ ctx'.session = ctx.session
   BY <1>1, <1>9, <1>13, <2>1 DEF HistoryInv, OpFits, SwitchInv, SwitchStates, Contexts
 <2>3. PICK to : to = op.ctx.model OBVIOUS
 <2>4. graph' = IF op.ctx.agent # NoModel THEN Cleaned(o, to) ELSE graph
   BY <1>13, <2>2, <2>3 DEF TurnEnds, GivenBack
 <2>5. SwitchStates BY DEF SwitchInv
 <2>6. \A x \in SessionId \ {s} : graph'[x] = graph[x]
   BY <1>2, <2>4, <2>5, OthersAreNotCleaned
 <2>7. Unbegun' /\ StrangersFit' BY <1>2, <1>6, <1>8, <1>10, <2>2, <2>6, OthersStay
 <2>8. HereFits(r, graph'[s], t, IF op.ctx.agent = NoModel THEN op.to ELSE op.ctx.model)
  <3>1. CASE op.ctx.agent = NoModel BY <1>2, <1>11, <2>2, <2>4, <3>1
  <3>2. CASE op.ctx.agent # NoModel
   <4>1. PICK h : h = Cleaned(o, to)[s] OBVIOUS
   <4>2. h = IF o = to THEN g ELSE [g EXCEPT ![t] = Stripped(@, {o})]
    <5>1. Cleaned(o, to)[ctx.session] =
            IF o = NoModel \/ o = to THEN graph[ctx.session]
            ELSE [graph[ctx.session] EXCEPT ![ctx.thread] = Stripped(@, {o})]
      BY <2>5, CleanedHere
    <5> QED BY <1>2, <1>9, <4>1, <5>1
   <4>3. HereFits(r, h, t, to)
    <5>1. CASE o = to BY <1>11, <4>2, <5>1
    <5>2. CASE o # to
     <6>1. HereFits(r, [g EXCEPT ![t] = Stripped(@, {o})], t, to) BY <1>6, <1>11, StripFits
     <6> QED BY <4>2, <5>2, <6>1
    <5> QED BY <5>1, <5>2
   <4> QED BY <2>3, <2>4, <3>2, <4>1, <4>3
  <3> QED BY <3>1, <3>2
 <2> QED BY <1>1, <1>2, <1>8, <1>13, <2>1, <2>7, <2>8, OwnBackFits
<1> QED BY <1>12, <1>13

LEMMA ModelSwitchedFits ==
  ASSUME SwitchInv, HistoryInv, ModelSwitched PROVE HistoryInv'
<1>1. op.kind = "model" /\ op.pc = "build" /\ op.to \in Provider /\ op' = NoSwitch
  BY DEF ModelSwitched, SwitchOver, SwitchInv, OpIsKnown, NoSwitch
<1>0. PICK seen : seen = cursor[ctx.session][ctx.thread] OBVIOUS
<1>2. PICK s \in SessionId, t \in Thread, q \in Rows, g \in Threads :
        s = ctx.session /\ t = ctx.thread /\ q = rec[s] /\ g = graph[s]
  BY Here DEF SwitchInv
<1>3. PICK o \in Provider, to \in Provider : o = ctx.model /\ to = op.to /\ o # NoModel /\ to # NoModel
  BY <1>1, ModelIsKnown, SwitchAssumption DEF SwitchInv, NoModel
<1>4. ctx'.session = s /\ ctx'.thread = t /\ ctx'.model = to /\ ctx'.agent = to
  BY <1>1, <1>2, <1>3 DEF ModelSwitched, SwitchInv, SwitchStates, Contexts
<1>5. HereFits(q, g, t, o) /\ q.made
 <2>1. HereFits(Row, graph[ctx.session], ctx.thread, OwnerOf(ctx))
   BY <1>1, IdleFits DEF Seeding
 <2>2. OwnerOf(ctx) = o
   BY <1>1, <1>3 DEF OwnerOf, HistoryInv, OpFits, SwitchInv, AgentIsOfModel
 <2> QED BY <1>2, <2>1, <2>2 DEF Row, SwitchInv, RowsAreMade
<1>6. OwnerOf(ctx') = to BY <1>3, <1>4 DEF OwnerOf
<1>7. CASE o = to
 <2>1. PICK r : r = [q EXCEPT !.model = to] OBVIOUS
 <2>2. r.thread = q.thread /\ r.rows = q.rows /\ r.path = q.path /\ r.made = q.made
   BY <2>1 DEF Rows
 <2>3. rec' = [rec EXCEPT ![s] = r] /\ graph' = graph
   BY <1>2, <1>3, <1>7, <2>1 DEF ModelSwitched, Model
 <2>4. rec'[s] = r /\ \A x \in SessionId \ {s} : rec'[x] = rec[x]
   BY <2>3 DEF SwitchInv, SwitchStates
 <2>5. HereFits(r, g, t, to) BY <1>5, <1>7, <2>2, OnlyRowsMatter DEF HereFits
 <2>6. Unbegun' /\ StrangersFit' BY <1>2, <1>4, <1>5, <2>2, <2>3, <2>4, OthersStay
 <2> QED BY <1>1, <1>2, <1>4, <1>6, <2>3, <2>4, <2>5, <2>6, RestFits
<1>8. CASE o # to
 <2>0. SwitchStates BY DEF SwitchInv
 <2>1. graph' = Cleaned(o, to) /\ t \in q.rows
   BY <1>2, <1>3, <1>8 DEF ModelSwitched, ForModel, Model
 <2>2. PICK h : h = [g EXCEPT ![t] = Stripped(@, {o})] OBVIOUS
 <2>3. graph'[s] = h BY <1>2, <1>3, <1>8, <2>0, <2>1, <2>2, CleanedHere
 <2>4. \A x \in SessionId \ {s} : graph'[x] = graph[x]
   BY <1>2, <2>0, <2>1, OthersAreNotCleaned
 <2>5. HereFits(q, h, t, to) BY <1>5, <2>2, StripFits
 <2>6. h \in Threads BY <2>2, StrippedKeeps DEF Threads
 <2>7. h[t] \in Context \union {NoGraph} /\ q.path \in Context BY <2>6 DEF Threads, Rows
 <2>8. PICK path \in Context : path = Captured(q.path, h[t], seen)
   BY <2>7, CapturedIsContext
 <2>9. PICK r : r = [q EXCEPT !.model = to, !.path = path, !.thread = t] OBVIOUS
 <2>10. r.thread = t /\ r.rows = q.rows /\ r.path = path /\ r.made = q.made BY <2>9 DEF Rows
 <2>11. rec' = [rec EXCEPT ![s] = r]
  <3>1. rec' = [rec EXCEPT ![ctx.session].model = op.to,
                           ![ctx.session].path = Captured(@, ForModel[ctx.session][ctx.thread],
                                                          cursor[ctx.session][ctx.thread]),
                           ![ctx.session].thread = ctx.thread]
    BY <1>3, <1>8 DEF ModelSwitched, Model
  <3>2. graph' = ForModel BY <1>3, <1>8 DEF ModelSwitched, Model
  <3>3. ForModel[s] = h BY <2>3, <3>2
  <3>4. rec' = [rec EXCEPT ![s].model = to, ![s].path = Captured(q.path, h[t], seen), ![s].thread = t]
    BY <1>0, <1>2, <1>3, <3>1, <3>3
  <3> QED BY <1>2, <2>8, <2>9, <3>4
 <2>12. rec'[s] = r /\ \A x \in SessionId \ {s} : rec'[x] = rec[x]
   BY <2>11 DEF SwitchInv, SwitchStates
 <2>13. HereFits(r, h, t, to)
  <3>1. RowFits(q, h, to) /\ (q.thread = t \/ q.thread = NoThread) BY <2>5 DEF HereFits
  <3> QED BY <2>1, <2>5, <2>6, <2>8, <2>10, <3>1, CapturedFits
 <2>14. Unbegun' /\ StrangersFit' BY <1>2, <1>4, <1>5, <2>4, <2>10, <2>12, OthersStay
 <2> QED BY <1>1, <1>2, <1>4, <1>6, <2>3, <2>12, <2>13, <2>14, RestFits
<1> QED BY <1>7, <1>8

LEMMA ModelFailsFits ==
  ASSUME SwitchInv, HistoryInv, ModelFails PROVE HistoryInv'
<1>1. op.kind = "model" /\ op.pc = "build" /\ op' = NoSwitch /\ rec' = rec /\ ctx' = ctx
  BY ModelIsGivenBack DEF ModelFails, SwitchAborts
<1>2. PICK from, to : from = Model /\ to = op.to OBVIOUS
<1>3. graph' = graph \/ graph' = Cleaned(from, to) BY <1>2 DEF ModelFails, ForModel
<1>4. PICK o : o = OwnerOf(ctx) OBVIOUS
<1>5. HereFits(Row, graph[ctx.session], ctx.thread, o) BY <1>1, <1>4, IdleFits DEF Seeding
<1>6. SwitchStates BY DEF SwitchInv
<1>7. HereFits(Row, graph'[ctx.session], ctx.thread, o)
 <2>1. CASE graph' = graph BY <1>5, <2>1
 <2>2. CASE graph' = Cleaned(from, to) BY <1>5, <1>6, <2>2, CleanedFits DEF Row
 <2> QED BY <1>3, <2>1, <2>2
<1>8. \A x \in SessionId \ {ctx.session} : graph'[x] = graph[x]
 <2>1. \A x \in SessionId \ {ctx.session} : Cleaned(from, to)[x] = graph[x]
   BY <1>6, OthersAreNotCleaned
 <2> QED BY <1>3, <2>1
<1>9. Unbegun' /\ StrangersFit' BY <1>1, <1>8, OthersStay DEF SwitchInv, RowsAreMade
<1> QED BY <1>1, <1>4, <1>7, <1>9, RestFits DEF Row

\* Once the history is of the model in use, every session fits the model of its row.
LEMMA EveryRowFits ==
  ASSUME SwitchInv, HistoryInv, op.pc # "capture", ~Seeding, op.kind # "resume",
         op.kind # "prompt", OwnerOf(ctx) = ctx.model
  PROVE  \A s \in SessionId : RowFits(rec[s], graph[s], rec[s].model)
<1>1. HereFits(Row, graph[ctx.session], ctx.thread, OwnerOf(ctx)) BY IdleFits
<1>2. rec[ctx.session].model = ctx.model BY DEF SwitchInv, RowHasModel
<1> QED BY <1>1, <1>2 DEF HistoryInv, StrangersFit, HereFits, Row

\* A new session has nothing yet.
LEMMA NewRowFits ==
  ASSUME SwitchInv, HistoryInv, NEW f \in SessionId, ~rec[f].made, NEW r \in Rows, r.made, r.rows = {0},
         rec' = [rec EXCEPT ![f] = r], graph' = graph, ctx'.session = f,
         \A s \in SessionId : RowFits(rec[s], graph[s], rec[s].model)
  PROVE  /\ Unbegun' /\ StrangersFit' /\ rec'[f] = r
         /\ \A o : r.thread = 0 /\ r.path.said = {} => HereFits(r, graph[f], 0, o)
<1>1. rec'[f] = r /\ \A x \in SessionId \ {f} : rec'[x] = rec[x]
  BY DEF SwitchInv, SwitchStates
<1>2. Unbegun' BY <1>1 DEF HistoryInv, Unbegun
<1>3. StrangersFit' BY <1>1 DEF StrangersFit
<1>4. graph[f][0] = NoGraph BY FirstIsThread DEF HistoryInv, Unbegun
<1> QED BY <1>1, <1>2, <1>3, <1>4, ThreadsAreNumbers, FirstIsThread DEF HereFits, RowFits

LEMMA RenewedFits ==
  ASSUME SwitchInv, HistoryInv, Renewed PROVE HistoryInv'
<1>1. op.kind = "new" /\ op.pc = "build" /\ op' = NoSwitch /\ graph' = graph /\ CanCreate
  BY DEF Renewed, SwitchOver, SwitchInv, ChangesAreKnown
<1>2. PICK f \in SessionId : f = Fresh /\ ~rec[f].made BY <1>1, FreshIsUnmade
<1>3. ctx'.session = f /\ ctx'.thread = 0
  BY <1>2 DEF Renewed, SwitchInv, SwitchStates, Contexts
<1>4. PICK r \in Rows : r = Created(Model) /\ r.made
 <2>1. Silence \in Context BY DEF Silence, Context
 <2> QED BY <2>1, CreatedIsRow DEF SwitchInv
<1>5. r.thread = 0 /\ r.rows = {0} /\ r.path.said = {} BY <1>4 DEF Created, Silence
<1>6. rec' = [rec EXCEPT ![f] = r] BY <1>2, <1>4 DEF Renewed
<1>7. OwnerOf(ctx) = ctx.model
  BY <1>1 DEF OwnerOf, HistoryInv, OpFits, SwitchInv, AgentIsOfModel
<1>8. \A s \in SessionId : RowFits(rec[s], graph[s], rec[s].model)
  BY <1>1, <1>7, EveryRowFits DEF Seeding
<1>9. PICK o : o = OwnerOf(ctx') OBVIOUS
<1>10. Unbegun' /\ StrangersFit' /\ rec'[f] = r /\ HereFits(r, graph[f], 0, o)
  BY <1>1, <1>2, <1>3, <1>4, <1>5, <1>6, <1>8, NewRowFits
<1> QED BY <1>1, <1>3, <1>9, <1>10, RestFits

LEMMA StartAnewFits ==
  ASSUME ~Accidents, SwitchInv, HistoryInv, StartAnew PROVE HistoryInv'
<1>1. op.kind = "none" /\ op.pc = "none" /\ op' = NoSwitch /\ graph' = graph /\ CanCreate
  BY NothingIsIdle DEF StartAnew, SwitchOver, NothingRuns
<1>2. PICK f \in SessionId : f = Fresh /\ ~rec[f].made BY <1>1, FreshIsUnmade
<1>3. ctx'.session = f /\ ctx'.thread = 0 BY <1>2 DEF StartAnew
<1>4. PICK r \in Rows : r = Created(Model) /\ r.made
 <2>1. Silence \in Context BY DEF Silence, Context
 <2> QED BY <2>1, CreatedIsRow DEF SwitchInv
<1>5. r.thread = 0 /\ r.rows = {0} /\ r.path.said = {} BY <1>4 DEF Created, Silence
<1>6. rec' = [rec EXCEPT ![f] = r] BY <1>2, <1>4 DEF StartAnew
<1>7. OwnerOf(ctx) = ctx.model
  BY <1>1 DEF OwnerOf, StartAnew, Settled, Model, SwitchInv, AgentIsOfModel
<1>8. \A s \in SessionId : RowFits(rec[s], graph[s], rec[s].model)
  BY <1>1, <1>7, EveryRowFits DEF Seeding
<1>9. PICK o : o = OwnerOf(ctx') OBVIOUS
<1>10. Unbegun' /\ StrangersFit' /\ rec'[f] = r /\ HereFits(r, graph[f], 0, o)
  BY <1>1, <1>2, <1>3, <1>4, <1>5, <1>6, <1>8, NewRowFits
<1> QED BY <1>1, <1>3, <1>9, <1>10, RestFits

LEMMA ForkCopiesFits ==
  ASSUME SwitchInv, HistoryInv, ForkCopies PROVE HistoryInv'
<1>1. /\ op.kind = "fork" /\ op.pc = "copy" /\ graph' = graph /\ ctx = op.ctx /\ rec = op.rec /\ CanCreate
      /\ GoesTo("seed") /\ ctx.agent = ctx.model /\ ctx.agent # NoModel
  BY DEF ForkCopies, SwitchInv, OpIsKnown, NoSwitch, ChangesAreKnown, AgentIsOfModel
<1>2. PICK f \in SessionId : f = Fresh /\ ~rec[f].made BY <1>1, FreshIsUnmade
<1>3. ctx'.session = f /\ ctx'.thread = 0
  BY <1>2 DEF ForkCopies, SwitchInv, SwitchStates, Contexts
<1>4. PICK path \in Context : path = rec[ctx.session].path
  BY DEF SwitchInv, SwitchStates, Contexts, Rows
<1>5. PICK r \in Rows : r = [Created(Model) EXCEPT !.path = path, !.thread = NoThread] /\ r.made
  BY CreatedIsRow DEF SwitchInv
<1>6. r.rows = {0} /\ r.thread = NoThread BY <1>5 DEF Created
<1>7. rec' = [rec EXCEPT ![f] = r] BY <1>2, <1>4, <1>5 DEF ForkCopies
<1>8. OwnerOf(ctx) = ctx.model BY <1>1 DEF OwnerOf
<1>9. \A s \in SessionId : RowFits(rec[s], graph[s], rec[s].model)
  BY <1>1, <1>8, EveryRowFits DEF Seeding
<1>10. Unbegun' /\ StrangersFit' /\ rec'[f] = r
  BY <1>1, <1>2, <1>3, <1>5, <1>6, <1>7, <1>9, NewRowFits
<1>11. op'.kind = "fork" /\ op'.pc = "seed" /\ op'.to = op.to /\ op'.ctx = op.ctx /\ op'.rec = op.rec
  BY <1>1, SwitchGoesOn
<1>12. PICK x \in SessionId : x = ctx.session /\ x # f
  BY <1>2, ModelIsKnown DEF SwitchInv, RowsAreMade
<1>13. KeptGraph'[x] = graph[x]
 <2>1. KeptGraph' = [graph EXCEPT ![f][0] = NoGraph] /\ graph \in Graphs
   BY <1>1, <1>3, <1>11 DEF KeptGraph, Seeding, Unseeded, SwitchInv, SwitchStates
 <2> QED BY <1>12, <2>1 DEF Graphs
<1>14. HereFits(rec[x], graph[x], ctx.thread, ctx.model)
  BY <1>1, <1>8, <1>12, IdleFits DEF Seeding, Row
<1>15. TheirOwnFits' BY <1>3, <1>6, <1>10, <1>11 DEF TheirOwnFits, Seeding, Row
<1>16. LeftFits' /\ OpFits' BY <1>1, <1>11, <1>12, <1>13, <1>14 DEF LeftFits, OpFits
<1> QED BY <1>10, <1>15, <1>16 DEF HistoryInv

\* Recovering the session in use changes nothing but its path.
LEMMA FoundHereFits ==
  ASSUME SwitchStates, NEW s \in SessionId, NEW t, NEW o, HereFits(rec[s], graph[s], t, o),
         NEW f \in Rows, f = FoundRow(s)
  PROVE  HereFits(f, graph[s], t, o)
<1>1. f.thread = rec[s].thread /\ f.rows = rec[s].rows
 <2>1. PICK path \in Context, r \in Rows : r = rec[s] /\ f = [r EXCEPT !.path = path]
   BY FoundIsRow DEF SwitchStates
 <2> QED BY <2>1 DEF Rows
<1>2. RowFits(f, graph[s], o) BY <1>1, FoundFits DEF HereFits
<1>3. f.path.said = IF Live(s, rec[s].thread) THEN graph[s][rec[s].thread].said ELSE rec[s].path.said
  BY FoundSays DEF HereFits
<1> QED BY <1>1, <1>2, <1>3 DEF HereFits, Live

LEMMA ResumeFits ==
  ASSUME ~Accidents, SwitchInv, SwitchInv', HistoryInv, NEW s \in SessionId, Resume(s) PROVE HistoryInv'
<1>1. op.kind = "none" /\ op.pc = "none" /\ rec[s].made /\ graph' = graph /\ Target(s) \in Thread
  BY NothingIsIdle DEF Resume, NothingRuns
<1>2. PICK path \in Context, q \in Rows, f \in Rows :
        q = rec[s] /\ f = FoundRow(s) /\ f = [q EXCEPT !.path = path]
  BY FoundIsRow DEF SwitchInv, SwitchStates
<1>3. f.made = q.made /\ f.rows = q.rows /\ f.thread = q.thread /\ f.path = path /\ f.model = q.model
  BY <1>2 DEF Rows
<1>4. PICK found \in [SessionId -> Rows] : found = [rec EXCEPT ![s] = f]
  BY DEF SwitchInv, SwitchStates
<1>5. found[s] = f /\ \A x \in SessionId \ {s} : found[x] = rec[x]
  BY <1>4 DEF SwitchInv, SwitchStates
<1>6. PICK r : r = (IF Reseeds(s) THEN [f EXCEPT !.thread = NoThread] ELSE f) OBVIOUS
<1>7. /\ r \in Rows /\ r.made = q.made /\ r.rows = q.rows /\ r.path = path
      /\ r.thread = IF Reseeds(s) THEN NoThread ELSE q.thread
  BY <1>3, <1>6 DEF Rows
<1>8. rec' = [found EXCEPT ![s] = r]
 <2>1. CASE Reseeds(s)
  <3>1. rec' = [found EXCEPT ![s].thread = NoThread] BY <1>2, <1>4, <2>1 DEF Resume
  <3> QED BY <1>5, <1>6, <2>1, <3>1
 <2>2. CASE ~Reseeds(s)
  <3>1. rec' = found BY <1>2, <1>4, <2>2 DEF Resume
  <3> QED BY <1>4, <1>5, <1>6, <2>2, <3>1
 <2> QED BY <2>1, <2>2
<1>9. rec'[s] = r /\ \A x \in SessionId \ {s} : rec'[x] = rec[x] BY <1>5, <1>8
<1>10. PICK t \in Thread, m \in Provider : t = Target(s) /\ m = q.model /\ m # NoModel
 <2>1. rec[s].model \in Provider BY <1>1 DEF SwitchInv, RowsAreMade, AllMade, Unmade
 <2> QED BY <1>1, <1>2, <2>1, SwitchAssumption DEF NoModel
<1>11. /\ ctx'.session = s /\ ctx'.thread = t /\ ctx'.model = m /\ ctx'.history = m
       /\ ctx'.agent = ctx.agent
  BY <1>2, <1>10 DEF Resume, SwitchInv, SwitchStates, Contexts
<1>12. OwnerOf(ctx) = ctx.model
  BY <1>1 DEF OwnerOf, Resume, Settled, Model, SwitchInv, AgentIsOfModel
<1>13. \A x \in SessionId : RowFits(rec[x], graph[x], rec[x].model)
  BY <1>1, <1>12, EveryRowFits DEF Seeding
<1>14. HereFits(r, graph[s], t, m)
  BY <1>2, <1>3, <1>7, <1>10, <1>13, FoundFits DEF SwitchInv
<1>15. Unbegun' /\ StrangersFit'
  BY <1>1, <1>2, <1>7, <1>9, <1>11, <1>13 DEF HistoryInv, Unbegun, StrangersFit
<1>16. CASE ctx.agent = NoModel
 <2>1. op' = NoSwitch BY <1>16 DEF Resume, SwitchOver
 <2>2. OwnerOf(ctx') = m BY <1>10, <1>11, <1>16 DEF OwnerOf
 <2> QED BY <1>1, <1>9, <1>11, <1>14, <1>15, <2>1, <2>2, RestFits
<1>17. CASE ctx.agent # NoModel
 <2>1. op' = [kind |-> "resume", pc |-> "build", to |-> s, ctx |-> ctx, rec |-> found]
   BY <1>2, <1>4, <1>17 DEF Resume, Begin
 <2>2. op'.kind = "resume" /\ op'.pc = "build" /\ op'.ctx = ctx /\ op'.rec = found BY <2>1
 <2>3. KeptGraph' = graph /\ Owner' = m /\ Row' = r /\ ~Seeding'
   BY <1>1, <1>9, <1>11, <2>2 DEF KeptGraph, Seeding, Owner, Row
 <2>4. TheirOwnFits' BY <1>11, <1>14, <2>2, <2>3 DEF TheirOwnFits
 <2>5. HereFits(found[ctx.session], graph[ctx.session], ctx.thread, ctx.model)
  <3>1. HereFits(rec[ctx.session], graph[ctx.session], ctx.thread, ctx.model)
    BY <1>1, <1>12, IdleFits DEF Seeding, Row
  <3>2. PICK t0, m0 : t0 = ctx.thread /\ m0 = ctx.model OBVIOUS
  <3>3. CASE ctx.session = s
   <4>1. HereFits(rec[s], graph[s], t0, m0) BY <3>1, <3>2, <3>3
   <4>2. HereFits(f, graph[s], t0, m0) BY <1>2, <4>1, FoundHereFits DEF SwitchInv
   <4> QED BY <1>5, <3>2, <3>3, <4>2
  <3>4. CASE ctx.session # s BY <1>5, <3>1, <3>4, ModelIsKnown DEF SwitchInv
  <3> QED BY <3>3, <3>4
 <2>6. RowFits(f, graph[s], m) BY <1>2, <1>3, <1>10, <1>13, FoundFits DEF SwitchInv
 <2>7. LeftFits' BY <1>3, <1>5, <1>10, <1>11, <1>17, <2>2, <2>3, <2>5, <2>6 DEF LeftFits
 <2>8. OpFits' BY <1>11, <2>2 DEF OpFits
 <2> QED BY <1>15, <2>4, <2>7, <2>8 DEF HistoryInv
<1> QED BY <1>16, <1>17

\* The thread that is to be seeded is none of the session's, or the one it has not begun.
LEMMA RowsAreUntouched ==
  ASSUME SwitchStates, NEW o, HereFits(Row, graph[ctx.session], ctx.thread, o), Row.thread # ctx.thread
  PROVE  \A x \in Row.rows : Unseeded[ctx.session][x] = graph[ctx.session][x]
<1>1. PICK s \in SessionId, t \in Thread, r \in Rows, g \in Threads :
        s = ctx.session /\ t = ctx.thread /\ r = rec[s] /\ g = graph[s]
  BY Here
<1>2. Unseeded[s] = [g EXCEPT ![t] = NoGraph] /\ HereFits(r, g, t, o) /\ r.thread # t /\ r = Row
  BY <1>1, UnseededHere DEF Row
<1>3. r.rows \subseteq Thread /\ r.thread = NoThread BY <1>2 DEF Rows, HereFits
<1>4. \A x \in r.rows : x = t => g[x] = NoGraph BY <1>2, <1>3 DEF HereFits
<1> QED BY <1>1, <1>2, <1>3, <1>4 DEF Threads

LEMMA ResumeBuiltFits ==
  ASSUME SwitchInv, HistoryInv, ResumeBuilt PROVE HistoryInv'
<1>1. op.kind = "resume" /\ op.pc = "build" /\ UNCHANGED <<rec, graph>> /\ op \in Switches
  BY DEF ResumeBuilt, storeVars, SwitchInv, OpIsKnown, NoSwitch
<1>2. /\ ctx'.session = ctx.session /\ ctx'.thread = ctx.thread
      /\ ctx'.agent = ctx.model /\ ctx'.model = ctx.model /\ ctx.model # NoModel
  BY ModelIsKnown DEF ResumeBuilt, SwitchInv, SwitchStates, Contexts, Model
<1>3. PICK m : m = ctx.model OBVIOUS
<1>4. HereFits(Row, graph[ctx.session], ctx.thread, m)
  BY <1>1, <1>3 DEF HistoryInv, TheirOwnFits, KeptGraph, Seeding, Owner
<1>5. Unbegun' /\ StrangersFit' BY <1>1, <1>2, OthersStay DEF SwitchInv, RowsAreMade
<1>6. CASE Pending
 <2>1. GoesTo("seed") /\ ctx' = [ctx EXCEPT !.agent = Model] BY <1>6 DEF ResumeBuilt
 <2>2. op'.kind = "resume" /\ op'.pc = "seed" /\ op'.ctx = op.ctx /\ op'.rec = op.rec
   BY <1>1, <2>1, SwitchGoesOn
 <2>3. Row.thread # ctx.thread BY <1>6 DEF Pending, Row
 <2>4. Row.thread = NoThread /\ HereFits(Row, Unseeded[ctx.session], ctx.thread, m)
   BY <1>4, <2>3, WaitingFits DEF SwitchInv
 <2>5. KeptGraph' = Unseeded /\ Owner' = m /\ Row' = Row /\ Seeding'
   BY <1>1, <1>2, <1>3, <2>2 DEF KeptGraph, Seeding, Unseeded, Owner, OwnerOf, Row
 <2>6. TheirOwnFits' BY <1>2, <2>2, <2>4, <2>5 DEF TheirOwnFits
 <2>7. PICK s \in SessionId, x \in SessionId : s = ctx.session /\ x = op.ctx.session /\ s = op.to
  <3>1. ctx \in Contexts /\ op.ctx \in Contexts /\ ctx.session = op.to
    BY <1>1 DEF SwitchInv, SwitchStates, Switches, ChangesAreKnown
  <3> QED BY <3>1 DEF Contexts
 <2>8. PICK h, g, was : h = Unseeded /\ g = graph /\ was = op.rec OBVIOUS
 <2>9. was[s].rows = Row.rows
  <3>1. rec[s] \in Rows /\ [rec[s] EXCEPT !.thread = was[s].thread] = was[s]
    BY <1>1, <2>7, <2>8 DEF SwitchInv, SwitchStates, ChangesAreKnown
  <3> QED BY <2>7, <3>1 DEF Rows, Row
 <2>10. \A y \in was[s].rows : h[s][y] = g[s][y]
   BY <1>4, <2>3, <2>7, <2>8, <2>9, RowsAreUntouched DEF SwitchInv
 <2>11. \A y \in SessionId \ {s} : h[y] = g[y] BY <2>7, <2>8, UnseededHere DEF SwitchInv
 <2>12. PICK t, o, p : t = op.ctx.thread /\ o = op.ctx.model /\ p = was[s].model OBVIOUS
 <2>13. HereFits(was[x], g[x], t, o) /\ RowFits(was[s], g[s], p) /\ op.ctx.agent # NoModel
   BY <1>1, <2>7, <2>8, <2>12 DEF HistoryInv, LeftFits, KeptGraph, Seeding
 <2>14. RowFits(was[s], h[s], p) BY <2>10, <2>13, OnlyRowsMatter
 <2>15. HereFits(was[x], h[x], t, o)
  <3>1. CASE x = s
   <4>1. HereFits(was[s], g[s], t, o) BY <2>13, <3>1
   <4>2. RowFits(was[s], g[s], o) BY <4>1 DEF HereFits
   <4>3. HereFits(was[s], h[s], t, o) BY <2>10, <4>1, <4>2, OnlyRowsMatter
   <4> QED BY <3>1, <4>3
  <3>2. CASE x # s BY <2>11, <2>13, <3>2
  <3> QED BY <3>1, <3>2
 <2>16. LeftFits' /\ OpFits'
   BY <1>1, <1>2, <2>1, <2>2, <2>5, <2>7, <2>8, <2>12, <2>13, <2>14, <2>15
      DEF LeftFits, OpFits, HistoryInv, SwitchInv, SwitchStates, Contexts
 <2> QED BY <1>5, <2>6, <2>16 DEF HistoryInv
<1>7. CASE ~Pending
 <2>1. op' = NoSwitch BY <1>7 DEF ResumeBuilt, SwitchOver
 <2> QED BY <1>1, <1>2, <1>3, <1>4, <1>5, <2>1, RestFits DEF Row, OwnerOf
<1> QED BY <1>6, <1>7

LEMMA ResumeFailsFits ==
  ASSUME SwitchInv, HistoryInv, ResumeFails PROVE HistoryInv'
<1>1. /\ op.kind = "resume" /\ op.pc = "build" /\ RestoreTarget /\ op' = NoSwitch /\ graph' = graph
      /\ KeptGraph = graph
  BY DEF ResumeFails, SwitchAborts, KeptGraph, Seeding
<1> QED BY <1>1, ResumeIsTakenBack

\* What the program finds after its death.
LEMMA LeftIsSame ==
  ASSUME SwitchStates, NEW cut, NEW x \in SessionId
  PROVE  /\ LeftOpen(cut)[x].thread = rec[x].thread /\ LeftOpen(cut)[x].rows = rec[x].rows
         /\ LeftOpen(cut)[x].path = rec[x].path /\ (rec[x].cut => LeftOpen(cut)[x].cut)
<1>1. CASE LeftOpen(cut) = rec BY <1>1
<1>2. CASE LeftOpen(cut) # rec
 <2>1. PICK s \in SessionId, q \in Rows : s = ctx.session /\ q = rec[s]
   BY DEF SwitchStates, Contexts
 <2>2. PICK r : r = [q EXCEPT !.cut = TRUE] OBVIOUS
 <2>3. r.thread = q.thread /\ r.rows = q.rows /\ r.path = q.path /\ r.cut BY <2>2 DEF Rows
 <2>4. LeftOpen(cut) = [rec EXCEPT ![s] = r] BY <1>2, <2>1, <2>2 DEF LeftOpen
 <2> QED BY <2>1, <2>3, <2>4 DEF SwitchStates
<1> QED BY <1>1, <1>2

LEMMA SavedRowsFit ==
  ASSUME SwitchInv, HistoryInv, op.kind # "fork", op.kind = "prompt" => op.to = NoModel,
         ctx.history \in {NoModel, ctx.model}
  PROVE  \A x \in SessionId : RowFits(rec[x], graph[x], rec[x].model)
<1>1. PICK m : m = ctx.model OBVIOUS
<1>2. rec[ctx.session].model = m /\ Owner = m
  BY <1>1 DEF SwitchInv, RowHasModel, AgentIsOfModel, Owner, OwnerOf
<1>3. RowFits(Row, graph[ctx.session], m)
 <2>1. CASE op.pc = "capture" BY <1>2, <2>1 DEF HistoryInv, TheirOwnFits
 <2>2. CASE op.pc # "capture" /\ ~Seeding
   BY <1>2, <2>2 DEF HistoryInv, TheirOwnFits, KeptGraph, HereFits
 <2>3. CASE Seeding
  <3>1. PICK s \in SessionId, t \in Thread, r \in Rows, g \in Threads :
          s = ctx.session /\ t = ctx.thread /\ r = rec[s] /\ g = graph[s]
    BY Here DEF SwitchInv
  <3>2. r.thread = NoThread /\ HereFits(r, Unseeded[s], t, m)
    BY <1>2, <2>3, <3>1 DEF HistoryInv, TheirOwnFits, KeptGraph, Seeding, Row
  <3>3. PICK h : h = Unseeded[s] OBVIOUS
  <3>4. h = [g EXCEPT ![t] = NoGraph] BY <3>1, <3>3, UnseededHere DEF SwitchInv
  <3>5. r.rows \subseteq Thread BY DEF Rows
  <3>6. \A x \in r.rows : x # t => h[x] = g[x] BY <3>4, <3>5 DEF Threads
  <3>7. RowFits(r, g, m) BY <3>2, <3>3, <3>5, <3>6 DEF HereFits, RowFits
  <3> QED BY <3>1, <3>7 DEF Row
 <2> QED BY <2>1, <2>2, <2>3
<1> QED BY <1>1, <1>2, <1>3 DEF HistoryInv, StrangersFit, Row

LEMMA RestartFits ==
  ASSUME ~Accidents, SwitchInv, SwitchInv', HistoryInv, NEW s \in SessionId, NEW over, NEW cut,
         Restart(s, over, cut)
  PROVE  HistoryInv'
<1>1. /\ over = NoModel /\ op.kind # "fork" /\ (op.kind = "prompt" => op.to = NoModel)
      /\ ctx.history \in {NoModel, ctx.model} /\ rec[s].made /\ graph' = graph /\ op' = NoSwitch
  BY DEF Restart, SwitchOver, Settled, Model
<1>2. \A x \in SessionId : RowFits(rec[x], graph[x], rec[x].model) BY <1>1, SavedRowsFit
<1>3. PICK left \in [SessionId -> Rows] :
         /\ left = LeftOpen(cut)
         /\ \A x \in SessionId : /\ left[x].made = rec[x].made /\ left[x].model = rec[x].model
                                 /\ left[x].thread = rec[x].thread /\ left[x].rows = rec[x].rows
                                 /\ left[x].path = rec[x].path /\ (rec[x].cut => left[x].cut)
  BY LeftIsMade, LeftIsSame DEF SwitchInv
<1>4. PICK m \in Provider : m = rec[s].model /\ m # NoModel
 <2>1. rec[s].model \in Provider BY <1>1 DEF SwitchInv, RowsAreMade, AllMade, Unmade
 <2> QED BY <2>1, SwitchAssumption DEF NoModel
<1>5. PICK path, live, again, th :
        /\ path = FoundRow(s).path /\ live = Live(s, rec[s].thread)
        /\ again = (left[s].cut \/ ~Live(s, rec[s].thread))
        /\ th = IF again THEN NoThread ELSE left[s].thread
  OBVIOUS
<1>6. rec' = [left EXCEPT ![s].path = path, ![s].thread = th] BY <1>3, <1>5 DEF Restart
<1>7. PICK r : r = [left[s] EXCEPT !.path = path, !.thread = th] OBVIOUS
<1>8. r.path = path /\ r.thread = th /\ r.rows = left[s].rows
      /\ r.made = left[s].made /\ r.model = left[s].model
  BY <1>7 DEF Rows
<1>9. rec'[s] = r /\ \A x \in SessionId \ {s} : rec'[x] = left[x] BY <1>6, <1>7
<1>10. r \in Rows BY <1>9 DEF SwitchInv, SwitchStates
<1>11. /\ ctx'.session = s /\ ctx'.agent = NoModel /\ ctx'.history = m
       /\ ctx'.thread = IF live /\ again THEN NextThread(s) ELSE Target(s)
  BY <1>3, <1>4, <1>5 DEF Restart
<1>12. OwnerOf(ctx') = m BY <1>4, <1>11 DEF OwnerOf
<1>13. PICK t : t = ctx'.thread OBVIOUS
<1>14. HereFits(r, graph[s], t, m)
 <2>0. SwitchStates /\ RowFits(rec[s], graph[s], m) /\ r.rows = rec[s].rows /\ r.path = FoundRow(s).path
   BY <1>2, <1>3, <1>4, <1>5, <1>8 DEF SwitchInv
 <2>1. CASE live /\ again BY <1>5, <1>8, <1>10, <1>11, <1>13, <2>0, <2>1, FoundFits
 <2>2. CASE ~live
  <3>1. Reseeds(s) /\ again BY <1>5, <2>2 DEF Reseeds
  <3> QED BY <1>5, <1>8, <1>10, <1>11, <1>13, <2>0, <2>2, <3>1, FoundFits
 <2>3. CASE live /\ ~again
  <3>1. ~Reseeds(s) /\ r.thread = rec[s].thread BY <1>3, <1>5, <1>8, <2>3 DEF Reseeds
  <3> QED BY <1>5, <1>8, <1>10, <1>11, <1>13, <2>0, <2>3, <3>1, FoundFits
 <2> QED BY <1>5, <2>1, <2>2, <2>3
<1>15. Unbegun' BY <1>1, <1>3, <1>8, <1>9 DEF HistoryInv, Unbegun
<1>16. StrangersFit'
 <2>1. ASSUME NEW x \in SessionId \ {s} PROVE RowFits(left[x], graph[x], left[x].model)
   BY <1>2, <1>3, <2>1, OnlyRowsMatter
 <2> QED BY <1>1, <1>9, <1>11, <2>1 DEF StrangersFit
<1> QED BY <1>1, <1>9, <1>11, <1>12, <1>13, <1>14, <1>15, <1>16, RestFits

LEMMA HistoryStarts == SwitchInit => HistoryInv
<1> SUFFICES ASSUME SwitchInit PROVE HistoryInv OBVIOUS
<1>1. 1 \in SessionId /\ 0 \in Thread /\ 0 # NoThread
 <2>1. MaxSessions \in Nat /\ MaxSessions # 0 BY SwitchAssumption
 <2> QED BY <2>1, FirstIsThread, ThreadsAreNumbers DEF SessionId
<1>2. PICK r : r = Created(CHOOSE p \in Provider : TRUE) OBVIOUS
<1>3. r.thread = 0 /\ r.rows = {0} /\ r.path.said = {} BY <1>2 DEF Created, Silence
<1>4. rec[1] = r /\ \A s \in SessionId \ {1} : rec[s] = Unmade BY <1>1, <1>2 DEF SwitchInit
<1>5. \A s \in SessionId, t \in Thread : graph[s][t] = NoGraph BY DEF SwitchInit
<1>6. op = NoSwitch /\ op.kind = "none" /\ op.pc = "none" /\ ctx.session = 1 /\ ctx.thread = 0
  BY DEF SwitchInit, NoSwitch
<1>7. \A o : HereFits(r, graph[1], 0, o) BY <1>1, <1>3, <1>5 DEF HereFits, RowFits
<1>8. Unbegun /\ StrangersFit BY <1>4, <1>5, <1>6 DEF Unbegun, StrangersFit, RowFits, Unmade
<1>9. TheirOwnFits /\ LeftFits /\ OpFits
  BY <1>4, <1>6, <1>7 DEF TheirOwnFits, LeftFits, OpFits, Seeding, KeptGraph, Row
<1> QED BY <1>8, <1>9 DEF HistoryInv

LEMMA HistoryStays ==
  ASSUME ~Accidents, SwitchInv, SwitchInv', HistoryInv, [SwitchNext]_switchVars PROVE HistoryInv'
<1>1. CASE UNCHANGED switchVars
 <2>1. UNCHANGED <<rec, graph, ctx, op>> BY <1>1 DEF switchVars
 <2>2. KeptGraph' = KeptGraph /\ Owner' = Owner /\ Row' = Row /\ (Seeding' <=> Seeding)
   BY <2>1 DEF KeptGraph, Seeding, Unseeded, Owner, OwnerOf, Row
 <2> QED BY <2>1, <2>2 DEF HistoryInv, Unbegun, StrangersFit, TheirOwnFits, LeftFits, OpFits
<1>2. CASE \/ \E own \in Provider \union {NoModel} : AnyPrompt(own)
           \/ PromptBuilt \/ OwnBuilt \/ BuildFails \/ ModelAnswers \/ TurnEnds
           \/ SeedWrites \/ SeedActivates \/ SeedFails \/ SwitchAnnounced \/ SwitchUnheard
  BY <1>2, AnyPromptFits, PromptBuiltFits, OwnBuiltFits, BuildFailsFits, ModelAnswersFits, TurnEndsFits,
     SeedWritesFits, SeedActivatesFits, SeedFailsFits, SwitchAnnouncedFits, SwitchUnheardFits
<1>3. CASE \/ Rebuild \/ Rebuilt
           \/ \E model \in Provider : ModelCommand(model)
           \/ ModelSwitched \/ ModelFails
           \/ New \/ Renewed \/ Fork \/ ForkBuilt \/ ForkCopies
  BY <1>3, RebuildFits, RebuiltFits, ModelCommandFits, ModelSwitchedFits, ModelFailsFits, NewFits,
     RenewedFits, ForkFits, ForkBuiltFits, ForkCopiesFits
<1>4. CASE \/ \E s \in SessionId : Resume(s)
           \/ ResumeBuilt \/ ResumeFails
           \/ \E s \in SessionId, over \in Provider \union {NoModel}, cut \in BOOLEAN : Restart(s, over, cut)
           \/ StartAnew
  BY <1>4, ResumeFits, ResumeBuiltFits, ResumeFailsFits, RestartFits, StartAnewFits
<1> QED BY <1>1, <1>2, <1>3, <1>4 DEF SwitchNext

LEMMA ReadyByFit == SwitchInv /\ HistoryInv => HistoryReady
<1> SUFFICES ASSUME SwitchInv, HistoryInv, op.pc = "turn" PROVE HistoryReady
  BY DEF HistoryReady, HistoryFits
<1>1. PICK s \in SessionId, t \in Thread, r \in Rows, g \in Threads :
        s = ctx.session /\ t = ctx.thread /\ r = rec[s] /\ g = graph[s]
  BY Here DEF SwitchInv
<1>2. PICK o : o = ctx.agent /\ o # NoModel BY DEF SwitchInv, AgentIsOfModel
<1>3. HereFits(r, g, t, o) /\ r.thread = t
  BY <1>1, <1>2 DEF HistoryInv, TheirOwnFits, KeptGraph, Seeding, Owner, OwnerOf, Row
<1>4. t # NoThread BY ThreadsAreNumbers
<1>5. /\ Live(s, t) <=> g[t] # NoGraph
      /\ r.path.said = IF g[t] # NoGraph THEN g[t].said ELSE {}
      /\ g[t] # NoGraph => g[t].private \subseteq {o}
  BY <1>1, <1>3, <1>4 DEF HereFits, RowFits, Live
<1>6. HistoryFits BY <1>1, <1>2, <1>5 DEF HistoryFits
<1>7. rec[ctx.session].path.said = IF Live(ctx.session, ctx.thread)
                                   THEN graph[ctx.session][ctx.thread].said ELSE {}
 <2>1. CASE Live(s, t) BY <1>1, <1>5, <2>1
 <2>2. CASE ~Live(s, t) BY <1>1, <1>5, <2>2
 <2> QED BY <2>1, <2>2
<1> QED BY <1>6, <1>7 DEF HistoryReady

\* Whenever a turn begins the model is shown everything that the ledger's path has, and nothing that
\* is private to another provider, whatever was switched, forked, resumed, taken back or restarted
\* before (tui/context.py 258-473, 521-607, 641-898; the accidents of the model left out).
THEOREM HistoryIsReady == ASSUME ~Accidents PROVE SwitchSpec => []HistoryReady
<1>1. SwitchInv /\ [SwitchNext]_switchVars => SwitchInv' BY SwitchStays
<1>2. SwitchInv /\ SwitchInv' /\ HistoryInv /\ [SwitchNext]_switchVars => HistoryInv'
  BY HistoryStays
<1> QED BY <1>1, <1>2, SwitchStarts, HistoryStarts, ReadyByFit, PTL DEF SwitchSpec
=============================================================================
