-------------------------- MODULE SessionTreeProofs --------------------------
(***************************************************************************)
(* What holds of SessionTree for every set of runs and all bounds.  First  *)
(* sequences, conversations, entries and what a capture appends; then the  *)
(* types with room for the threads, kept by every step; with them, every   *)
(* step is one that LedgerWriters has.  Last, where tasks do not overlap:  *)
(* nothing said is lost, and what was cleared stays so.                    *)
(***************************************************************************)
EXTENDS SessionTree, FiniteSetTheorems, SequenceTheorems, WellFoundedInduction, TLAPS

-----------------------------------------------------------------------------
(* Induction over numbers and sequences, for sets of them.                 *)

\* Of natural numbers there is a least.
LEMMA LeastOfThem ==
  ASSUME NEW T \in SUBSET Nat, T # {}
  PROVE  \E n \in T : \A k \in T : n <= k
<1> DEFINE R == {p \in Nat \X Nat : p[1] < p[2]}
<1>1. IsWellFoundedOn(R, Nat) BY NatLessThanWellFounded, Zenon DEF OpToRel
<1>2. PICK n \in T : \A k \in T : ~(<<k, n>> \in R)
 <2> HIDE DEF R
 <2> QED BY <1>1, WFMin
<1>3. ASSUME NEW k \in T PROVE n <= k
 <2>1. k \in Nat /\ n \in Nat /\ ~(<<k, n>> \in R) BY <1>2
 <2> QED BY <2>1
<1> QED BY <1>2, <1>3

\* A set with 0 and the successor of each of its numbers has all of them.
LEMMA AllNumbers ==
  ASSUME NEW T, 0 \in T, \A n \in Nat : n \in T => n + 1 \in T
  PROVE  \A n \in Nat : n \in T
<1> SUFFICES ASSUME Nat \ T # {} PROVE FALSE OBVIOUS
<1>1. PICK n \in Nat \ T : \A k \in Nat \ T : n <= k BY LeastOfThem
<1>2. n # 0 /\ n - 1 \in Nat /\ n - 1 + 1 = n /\ ~(n <= n - 1) BY <1>1
<1>3. n - 1 \in T BY <1>1, <1>2
<1> QED BY <1>1, <1>2, <1>3

\* A set with the empty sequence and each of its sequences with one more element has all.
LEMMA AllSequences ==
  ASSUME NEW S, NEW T, <<>> \in T, \A s \in Seq(S) : \A x \in S : s \in T => Append(s, x) \in T
  PROVE  \A s \in Seq(S) : s \in T
<1> DEFINE N == {n \in Nat : \A s \in Seq(S) : Len(s) = n => s \in T}
<1>1. 0 \in N
 <2>1. ASSUME NEW s \in Seq(S), Len(s) = 0 PROVE s = <<>> BY <2>1, EmptySeq
 <2> QED BY <2>1
<1>2. ASSUME NEW n \in Nat, n \in N PROVE n + 1 \in N
 <2>1. ASSUME NEW s \in Seq(S), Len(s) = n + 1 PROVE s \in T
  <3>1. s # <<>> BY <2>1
  <3>2. PICK t \in Seq(S), x \in S : s = Append(t, x) BY <3>1, SequenceEmptyOrAppend
  <3>3. Len(t) = n BY <2>1, <3>2, AppendProperties, LenProperties
  <3> QED BY <1>2, <3>2, <3>3
 <2> QED BY <2>1
<1>3. \A n \in Nat : n \in N
 <2> HIDE DEF N
 <2> QED BY <1>1, <1>2, AllNumbers
<1> QED BY <1>3, LenProperties

-----------------------------------------------------------------------------
(* The elements of a sequence that are in a set.                           *)

KeptAt(s, M, f, i) ==
  IF i = 0 THEN <<>> ELSE IF s[i] \in M THEN Append(f[i - 1], s[i]) ELSE f[i - 1]

KeptFcn(s, M) == CHOOSE f : f = [i \in 0 .. Len(s) |-> KeptAt(s, M, f, i)]

\* The recursion of Only has a function that satisfies it.
LEMMA KeptExists ==
  ASSUME NEW s, NEW M
  PROVE  \A n \in Nat : \E f : f = [i \in 0 .. n |-> KeptAt(s, M, f, i)]
<1> DEFINE T == {n \in Nat : \E f : f = [i \in 0 .. n |-> KeptAt(s, M, f, i)]}
<1>1. 0 \in T
 <2> DEFINE f == [i \in 0 .. 0 |-> <<>>]
 <2>1. f = [i \in 0 .. 0 |-> KeptAt(s, M, f, i)] BY DEF KeptAt
 <2> QED BY <2>1
<1>2. ASSUME NEW n \in Nat, n \in T PROVE n + 1 \in T
 <2>1. PICK f : f = [i \in 0 .. n |-> KeptAt(s, M, f, i)] BY <1>2
 <2> DEFINE g == [i \in 0 .. n + 1 |-> KeptAt(s, M, f, i)]
 <2>2. ASSUME NEW i \in 0 .. n PROVE g[i] = f[i] BY <2>1
 <2>3. ASSUME NEW i \in 0 .. n + 1 PROVE KeptAt(s, M, f, i) = KeptAt(s, M, g, i)
  <3>1. CASE i = 0 BY <3>1 DEF KeptAt
  <3>2. CASE i # 0
   <4>1. i - 1 \in 0 .. n BY <3>2
   <4>2. g[i - 1] = f[i - 1] BY <2>2, <4>1
   <4> HIDE DEF g
   <4> QED BY <4>2, <3>2 DEF KeptAt
  <3> QED BY <3>1, <3>2
 <2>4. g = [i \in 0 .. n + 1 |-> KeptAt(s, M, g, i)]
  <3> DEFINE h == [i \in 0 .. n + 1 |-> KeptAt(s, M, g, i)]
  <3>1. \A i \in 0 .. n + 1 : g[i] = h[i] BY <2>3
  <3> QED BY <2>3
 <2> HIDE DEF g
 <2>5. \E h : h = [i \in 0 .. n + 1 |-> KeptAt(s, M, h, i)] BY <2>4
 <2> QED BY <2>5
<1> HIDE DEF T
<1>3. \A n \in Nat : n \in T BY <1>1, <1>2, AllNumbers
<1> QED BY <1>3 DEF T

LEMMA KeptFcnIs ==
  ASSUME NEW S, NEW s \in Seq(S), NEW M
  PROVE  /\ Only(s, M) = KeptFcn(s, M)[Len(s)]
         /\ \A i \in 0 .. Len(s) : KeptFcn(s, M)[i] = KeptAt(s, M, KeptFcn(s, M), i)
<1>1. Len(s) \in Nat BY LenProperties
<1>2. \E f : f = [i \in 0 .. Len(s) |-> KeptAt(s, M, f, i)] BY <1>1, KeptExists
<1>3. KeptFcn(s, M) = [i \in 0 .. Len(s) |-> KeptAt(s, M, KeptFcn(s, M), i)]
  BY <1>2 DEF KeptFcn
<1>4. Only(s, M) = KeptFcn(s, M)[Len(s)] BY DEF Only, KeptFcn, KeptAt
<1> HIDE DEF KeptFcn
<1> QED BY <1>3, <1>4

LEMMA OnlyEmpty == \A M : Only(<<>>, M) = <<>>
<1> SUFFICES ASSUME NEW M PROVE Only(<<>>, M) = <<>> OBVIOUS
<1>1. <<>> \in Seq({}) /\ Len(<<>>) = 0 BY EmptySeq
<1> DEFINE s == <<>>
<1>2. /\ Only(s, M) = KeptFcn(s, M)[Len(s)]
      /\ \A i \in 0 .. Len(s) : KeptFcn(s, M)[i] = KeptAt(s, M, KeptFcn(s, M), i)
 <2> HIDE DEF s
 <2> QED BY <1>1, KeptFcnIs DEF s
<1>3. Only(s, M) = KeptAt(s, M, KeptFcn(s, M), 0)
 <2> HIDE DEF s
 <2> QED BY <1>1, <1>2 DEF s
<1> QED BY <1>3 DEF KeptAt

LEMMA OnlyAppend ==
  ASSUME NEW S, NEW s \in Seq(S), NEW x \in S, NEW M
  PROVE  Only(Append(s, x), M) = IF x \in M THEN Append(Only(s, M), x) ELSE Only(s, M)
<1> DEFINE t == Append(s, x)
           f == KeptFcn(s, M)
           g == KeptFcn(t, M)
<1>1. /\ Len(s) \in Nat /\ t \in Seq(S) /\ Len(t) = Len(s) + 1 /\ t[Len(s) + 1] = x
      /\ \A i \in 1 .. Len(s) : t[i] = s[i]
  BY AppendProperties, LenProperties
<1>2. \A i \in 0 .. Len(s) : f[i] = KeptAt(s, M, f, i) BY KeptFcnIs
<1>3. Only(t, M) = g[Len(s) + 1] /\ \A i \in 0 .. Len(s) + 1 : g[i] = KeptAt(t, M, g, i)
  BY <1>1, KeptFcnIs
<1>4. Only(s, M) = f[Len(s)] BY KeptFcnIs
<1> DEFINE T == {n \in Nat : n <= Len(s) => f[n] = g[n]}
<1> HIDE DEF t, f, g
<1>5. 0 \in T BY <1>1, <1>2, <1>3 DEF KeptAt
<1>6. ASSUME NEW n \in Nat, n \in T PROVE n + 1 \in T
 <2> SUFFICES ASSUME n + 1 <= Len(s) PROVE f[n + 1] = g[n + 1] OBVIOUS
 <2>1. /\ f[n] = g[n] /\ n + 1 \in 0 .. Len(s) /\ n + 1 \in 0 .. Len(s) + 1 /\ n + 1 # 0
       /\ n + 1 - 1 = n /\ s[n + 1] = t[n + 1]
   BY <1>1, <1>6
 <2>2. f[n + 1] = KeptAt(s, M, f, n + 1) /\ g[n + 1] = KeptAt(t, M, g, n + 1)
   BY <1>2, <1>3, <2>1
 <2> QED BY <2>1, <2>2 DEF KeptAt
<1> HIDE DEF T
<1>7. \A n \in Nat : n \in T BY <1>5, <1>6, AllNumbers
<1>8. f[Len(s)] = g[Len(s)] BY <1>1, <1>7 DEF T
<1>9. g[Len(s) + 1] = KeptAt(t, M, g, Len(s) + 1) /\ Len(s) + 1 # 0 /\ Len(s) + 1 - 1 = Len(s)
  BY <1>1, <1>3
<1>10. Only(t, M) = IF x \in M THEN Append(Only(s, M), x) ELSE Only(s, M)
  BY <1>1, <1>3, <1>4, <1>8, <1>9 DEF KeptAt
<1> QED BY <1>10 DEF t

\* The elements of sequences put together.
LEMMA SetOfAppend ==
  ASSUME NEW S, NEW s \in Seq(S), NEW x \in S
  PROVE  ToSet(Append(s, x)) = ToSet(s) \cup {x}
<1>1. /\ DOMAIN s = 1 .. Len(s) /\ Len(s) \in Nat
      /\ DOMAIN Append(s, x) = 1 .. Len(s) + 1 /\ Append(s, x)[Len(s) + 1] = x
      /\ \A i \in 1 .. Len(s) : Append(s, x)[i] = s[i]
  BY AppendProperties, LenProperties
<1> QED BY <1>1 DEF ToSet

LEMMA SetOfConcat ==
  ASSUME NEW S, NEW s \in Seq(S), NEW t \in Seq(S)
  PROVE  ToSet(s \o t) = ToSet(s) \cup ToSet(t)
<1>1. /\ DOMAIN s = 1 .. Len(s) /\ Len(s) \in Nat /\ DOMAIN t = 1 .. Len(t) /\ Len(t) \in Nat
      /\ DOMAIN (s \o t) = 1 .. Len(s) + Len(t)
      /\ \A i \in 1 .. Len(s) + Len(t) :
            (s \o t)[i] = IF i <= Len(s) THEN s[i] ELSE t[i - Len(s)]
  BY ConcatProperties, LenProperties
<1>2. ASSUME NEW i \in DOMAIN s PROVE s[i] \in ToSet(s \o t)
 <2>1. (s \o t)[i] = s[i] /\ i \in DOMAIN (s \o t) BY <1>1
 <2> QED BY <2>1 DEF ToSet
<1>3. ASSUME NEW i \in DOMAIN t PROVE t[i] \in ToSet(s \o t)
 <2>1. (s \o t)[i + Len(s)] = t[i] /\ i + Len(s) \in DOMAIN (s \o t) BY <1>1
 <2> QED BY <2>1 DEF ToSet
<1>4. ASSUME NEW i \in DOMAIN (s \o t) PROVE (s \o t)[i] \in ToSet(s) \cup ToSet(t)
 <2>1. CASE i <= Len(s) BY <1>1, <2>1 DEF ToSet
 <2>2. CASE ~(i <= Len(s))
  <3>1. (s \o t)[i] = t[i - Len(s)] /\ i - Len(s) \in DOMAIN t BY <1>1, <2>2
  <3> QED BY <3>1 DEF ToSet
 <2> QED BY <2>1, <2>2
<1> QED BY <1>2, <1>3, <1>4 DEF ToSet

LEMMA SetOfNone == ToSet(<<>>) = {}
<1>1. DOMAIN <<>> = {} OBVIOUS
<1> QED BY <1>1 DEF ToSet

LEMMA SetOfOne == \A x : ToSet(<<x>>) = {x} /\ Len(<<x>>) = 1 /\ <<x>>[1] = x
  BY DEF ToSet

LEMMA SetOfSeq ==
  ASSUME NEW S, NEW s \in Seq(S)
  PROVE  ToSet(s) \in SUBSET S /\ (ToSet(s) = {} => s = <<>>)
<1>1. DOMAIN s = 1 .. Len(s) /\ Len(s) \in Nat /\ \A i \in 1 .. Len(s) : s[i] \in S
  BY LenProperties, ElementOfSeq
<1>2. ASSUME Len(s) # 0 PROVE ToSet(s) # {}
 <2>1. 1 \in DOMAIN s BY <1>1, <1>2
 <2>2. s[1] \in ToSet(s) BY <2>1 DEF ToSet
 <2> QED BY <2>2
<1>3. ToSet(s) \in SUBSET S BY <1>1 DEF ToSet
<1>4. s # <<>> => Len(s) # 0 BY EmptySeq
<1> QED BY <1>2, <1>3, <1>4

LEMMA OnlyIsSeq ==
  ASSUME NEW S, NEW s \in Seq(S), NEW M
  PROVE  Only(s, M) \in Seq(S) /\ ToSet(Only(s, M)) = ToSet(s) \cap M
<1> DEFINE T == {u \in Seq(S) : Only(u, M) \in Seq(S) /\ ToSet(Only(u, M)) = ToSet(u) \cap M}
<1>1. <<>> \in T BY OnlyEmpty, SetOfNone, EmptySeq
<1>2. ASSUME NEW u \in Seq(S), NEW x \in S, u \in T PROVE Append(u, x) \in T
 <2>1. Append(u, x) \in Seq(S) /\ ToSet(Append(u, x)) = ToSet(u) \cup {x}
   BY AppendProperties, SetOfAppend
 <2>2. Only(Append(u, x), M) = IF x \in M THEN Append(Only(u, M), x) ELSE Only(u, M)
   BY OnlyAppend
 <2>3. Only(u, M) \in Seq(S) /\ ToSet(Only(u, M)) = ToSet(u) \cap M BY <1>2
 <2>4. Append(Only(u, M), x) \in Seq(S) /\ ToSet(Append(Only(u, M), x)) = ToSet(Only(u, M)) \cup {x}
   BY <2>3, AppendProperties, SetOfAppend
 <2> QED BY <2>1, <2>2, <2>3, <2>4
<1> HIDE DEF T
<1>3. s \in T BY <1>1, <1>2, AllSequences
<1> QED BY <1>3 DEF T

LEMMA OnlyConcat ==
  ASSUME NEW S, NEW s \in Seq(S), NEW t \in Seq(S), NEW M
  PROVE  Only(s \o t, M) = Only(s, M) \o Only(t, M)
<1> DEFINE T == {u \in Seq(S) : Only(s \o u, M) = Only(s, M) \o Only(u, M)}
<1>0. Only(s, M) \in Seq(S) BY OnlyIsSeq
<1>1. <<>> \in T BY <1>0, OnlyEmpty, EmptySeq, ConcatEmptySeq
<1>2. ASSUME NEW u \in Seq(S), NEW x \in S, u \in T PROVE Append(u, x) \in T
 <2>0. <<x>> \in Seq(S) OBVIOUS
 <2>1. s \o Append(u, x) = Append(s \o u, x)
  <3>1. Append(u, x) = u \o <<x>> /\ s \o u \in Seq(S) BY AppendIsConcat, ConcatProperties
  <3>2. Append(s \o u, x) = (s \o u) \o <<x>> BY <3>1, AppendIsConcat
  <3> QED BY <2>0, <3>1, <3>2, ConcatAssociative
 <2>2. s \o u \in Seq(S) /\ Only(u, M) \in Seq(S) BY ConcatProperties, OnlyIsSeq
 <2>3. Only(Append(s \o u, x), M) = IF x \in M THEN Append(Only(s \o u, M), x) ELSE Only(s \o u, M)
   BY <2>2, OnlyAppend
 <2>4. Only(Append(u, x), M) = IF x \in M THEN Append(Only(u, M), x) ELSE Only(u, M)
   BY OnlyAppend
 <2>5. Append(Only(s, M) \o Only(u, M), x) = Only(s, M) \o Append(Only(u, M), x)
  <3>1. Only(s, M) \o Only(u, M) \in Seq(S) BY <1>0, <2>2, ConcatProperties
  <3>2. Append(Only(s, M) \o Only(u, M), x) = (Only(s, M) \o Only(u, M)) \o <<x>>
    BY <3>1, AppendIsConcat
  <3>3. Append(Only(u, M), x) = Only(u, M) \o <<x>> BY <2>2, AppendIsConcat
  <3> QED BY <1>0, <2>0, <2>2, <3>2, <3>3, ConcatAssociative, SMTT(30)
 <2>6. Append(u, x) \in Seq(S) BY AppendProperties
 <2> QED BY <1>2, <2>1, <2>3, <2>4, <2>5, <2>6
<1> HIDE DEF T
<1>3. t \in T BY <1>1, <1>2, AllSequences
<1> QED BY <1>3 DEF T

LEMMA OnlyAll ==
  ASSUME NEW S, NEW s \in Seq(S), NEW M, ToSet(s) \subseteq M
  PROVE  Only(s, M) = s
<1> DEFINE T == {u \in Seq(S) : ToSet(u) \subseteq M => Only(u, M) = u}
<1>1. <<>> \in T BY OnlyEmpty, EmptySeq
<1>2. ASSUME NEW u \in Seq(S), NEW x \in S, u \in T PROVE Append(u, x) \in T
 <2>1. Append(u, x) \in Seq(S) /\ ToSet(Append(u, x)) = ToSet(u) \cup {x}
   BY AppendProperties, SetOfAppend
 <2> QED BY <1>2, <2>1, OnlyAppend
<1> HIDE DEF T
<1>3. s \in T BY <1>1, <1>2, AllSequences
<1> QED BY <1>3 DEF T

-----------------------------------------------------------------------------
(* Conversations.                                                          *)

Said == [id : Nat, role : {"text", "call", "tool", "summary", "none"}, of : SUBSET Nat]
Ids(ms) == {m.id : m \in ToSet(ms)}

LEMMA SetsOfConcat ==
  ASSUME NEW r \in Seq(Said), NEW n \in Seq(Said)
  PROVE  /\ Calls(r \o n) = Calls(r) \cup Calls(n)
         /\ Answered(r \o n) = Answered(r) \cup Answered(n)
         /\ Ids(r \o n) = Ids(r) \cup Ids(n)
         /\ Covered(r \o n) = Covered(r) \cup Covered(n)
<1>1. ToSet(r \o n) = ToSet(r) \cup ToSet(n) BY SetOfConcat
<1>2. Calls(r \o n) = Calls(r) \cup Calls(n) BY <1>1 DEF Calls
<1>3. Answered(r \o n) = Answered(r) \cup Answered(n) BY <1>1 DEF Answered
<1>4. Ids(r \o n) = Ids(r) \cup Ids(n) BY <1>1 DEF Ids
<1>5. Covered(r \o n) = Covered(r) \cup Covered(n) BY <1>1 DEF Covered
<1> QED BY <1>2, <1>3, <1>4, <1>5

\* Fewer messages have fewer calls, answers, ids, and cover less.
LEMMA SetsOfPart ==
  ASSUME NEW r, NEW n, ToSet(n) \subseteq ToSet(r)
  PROVE  /\ Calls(n) \subseteq Calls(r) /\ Answered(n) \subseteq Answered(r)
         /\ Ids(n) \subseteq Ids(r) /\ Covered(n) \subseteq Covered(r)
<1>1. Calls(n) \subseteq Calls(r) BY DEF Calls
<1>2. Answered(n) \subseteq Answered(r) BY DEF Answered
<1>3. Ids(n) \subseteq Ids(r) BY DEF Ids
<1>4. Covered(n) \subseteq Covered(r) BY DEF Covered
<1> QED BY <1>1, <1>2, <1>3, <1>4

LEMMA UndangledIsSeq ==
  ASSUME NEW r \in Seq(Said)
  PROVE  /\ WithoutDangling(r) \in Seq(Said)
         /\ ToSet(WithoutDangling(r)) = Paired(r)
         /\ Paired(r) \subseteq ToSet(r)
<1>1. Paired(r) \subseteq ToSet(r) BY DEF Paired
<1>2. /\ Only(r, Paired(r)) \in Seq(Said)
      /\ ToSet(Only(r, Paired(r))) = ToSet(r) \cap Paired(r)
  BY OnlyIsSeq
<1> QED BY <1>1, <1>2 DEF WithoutDangling

\* Conversations that do not answer one another.
Apart(r, n) == Answered(n) \cap Calls(r) = {} /\ Answered(r) \cap Calls(n) = {}

\* An answer is to one call.
OneCall(ms) == \A m \in ToSet(ms) : m.role = "tool" => \E c \in Nat : m.of = {c}

-----------------------------------------------------------------------------
(* Each message once.                                                      *)

OneEach(ms) == \A i, j \in DOMAIN ms : ms[i].id = ms[j].id => i = j

LEMMA OneEachOfOne ==
  ASSUME NEW m \in Said
  PROVE  <<m>> \in Seq(Said) /\ OneEach(<<m>>) /\ Ids(<<m>>) = {m.id}
<1>1. <<m>> \in Seq(Said) /\ ToSet(<<m>>) = {m} BY SetOfOne
<1>2. DOMAIN <<m>> = {1} OBVIOUS
<1> QED BY <1>1, <1>2 DEF OneEach, Ids

\* A sequence is what comes before a place and what begins there.
LEMMA Halves ==
  ASSUME NEW S, NEW s \in Seq(S), NEW k \in 1 .. Len(s) + 1
  PROVE  /\ SubSeq(s, 1, k - 1) \in Seq(S) /\ Len(SubSeq(s, 1, k - 1)) = k - 1
         /\ SubSeq(s, k, Len(s)) \in Seq(S) /\ Len(SubSeq(s, k, Len(s))) = Len(s) - k + 1
         /\ s = SubSeq(s, 1, k - 1) \o SubSeq(s, k, Len(s))
<1>1. Len(s) \in Nat /\ \A i \in 1 .. Len(s) : s[i] \in S BY LenProperties, ElementOfSeq
<1>2. /\ SubSeq(s, 1, k - 1) \in Seq(S)
      /\ Len(SubSeq(s, 1, k - 1)) = IF 1 <= k - 1 THEN k - 1 - 1 + 1 ELSE 0
 <2>1. 1 \in Int /\ k - 1 \in Int /\ \A i \in 1 .. k - 1 : s[i] \in S BY <1>1
 <2> QED BY <2>1, SubSeqProperties
<1>3. /\ SubSeq(s, k, Len(s)) \in Seq(S)
      /\ Len(SubSeq(s, k, Len(s))) = IF k <= Len(s) THEN Len(s) - k + 1 ELSE 0
 <2>1. k \in Int /\ Len(s) \in Int /\ \A i \in k .. Len(s) : s[i] \in S BY <1>1, SMTT(30)
 <2> QED BY <2>1, SubSeqProperties
<1>4. SubSeq(s, 1, k - 1) \o SubSeq(s, k, Len(s)) = s
 <2>1. /\ 1 \in 1 .. Len(s) + 1 /\ k - 1 \in 1 - 1 .. Len(s) /\ Len(s) \in k - 1 .. Len(s)
       /\ k - 1 + 1 = k
   BY <1>1
 <2>2. SubSeq(s, 1, k - 1) \o SubSeq(s, k - 1 + 1, Len(s)) = SubSeq(s, 1, Len(s))
   BY <2>1, ConcatAdjacentSubSeq
 <2>3. SubSeq(s, 1, Len(s)) = s BY SubSeqFull
 <2> QED BY <2>1, <2>2, <2>3
<1>5. Len(SubSeq(s, 1, k - 1)) = k - 1 BY <1>1, <1>2
<1>6. Len(SubSeq(s, k, Len(s))) = Len(s) - k + 1 BY <1>1, <1>3
<1> QED BY <1>2, <1>3, <1>4, <1>5, <1>6

-----------------------------------------------------------------------------
(* Paths.                                                                  *)

\* Of the numbers up to n that are in a set, the largest and the least.
LEMMA LargestOfThem ==
  ASSUME NEW n \in Nat, NEW T \in SUBSET (1 .. n), T # {}
  PROVE  Max(T) \in T /\ \A k \in T : k <= Max(T)
<1> DEFINE U == {k \in Nat : n - k \in T}
<1>1. U # {}
 <2>1. PICK t \in T : TRUE OBVIOUS
 <2>2. n - t \in Nat /\ n - (n - t) = t OBVIOUS
 <2> QED BY <2>1, <2>2
<1>2. PICK u \in U : \A k \in U : u <= k BY <1>1, LeastOfThem
<1>3. ASSUME NEW k \in T PROVE n - u >= k
 <2>1. n - k \in Nat /\ n - (n - k) = k OBVIOUS
 <2>2. n - k \in U BY <2>1
 <2>3. u <= n - k BY <1>2, <2>2
 <2> QED BY <2>1, <2>3
<1>4. \E x \in T : \A k \in T : x >= k BY <1>2, <1>3
<1> QED BY <1>4 DEF Max

LEMMA SmallestOfThem ==
  ASSUME NEW n \in Nat, NEW T \in SUBSET (1 .. n), T # {}
  PROVE  Min(T) \in T /\ \A k \in T : Min(T) <= k
<1>1. T \in SUBSET Nat OBVIOUS
<1>2. \E x \in T : \A k \in T : x <= k BY <1>1, LeastOfThem
<1> QED BY <1>2 DEF Min

LastOf(T) == IF T # {} THEN Max(T) ELSE 0
FirstOf(T) == IF T # {} THEN Min(T) ELSE 0

LEMMA LastIs ==
  ASSUME NEW n \in Nat, NEW T \in SUBSET (1 .. n)
  PROVE  /\ LastOf(T) \in 0 .. n
         /\ LastOf(T) = 0 <=> T = {}
         /\ T # {} => LastOf(T) \in T
         /\ \A k \in T : k <= LastOf(T)
<1>1. CASE T = {} BY <1>1 DEF LastOf
<1>2. CASE T # {}
 <2>1. Max(T) \in T /\ \A k \in T : k <= Max(T) BY <1>2, LargestOfThem
 <2>2. LastOf(T) = Max(T) BY <1>2 DEF LastOf
 <2>3. LastOf(T) \in 1 .. n BY <2>1, <2>2
 <2> QED BY <1>2, <2>1, <2>2, <2>3
<1> QED BY <1>1, <1>2

LEMMA FirstIs ==
  ASSUME NEW n \in Nat, NEW T \in SUBSET (1 .. n)
  PROVE  /\ FirstOf(T) \in 0 .. n
         /\ FirstOf(T) = 0 <=> T = {}
         /\ T # {} => FirstOf(T) \in T
         /\ \A k \in T : FirstOf(T) <= k
<1>1. CASE T = {} BY <1>1 DEF FirstOf
<1>2. CASE T # {}
 <2>1. Min(T) \in T /\ \A k \in T : Min(T) <= k BY <1>2, SmallestOfThem
 <2>2. FirstOf(T) = Min(T) BY <1>2 DEF FirstOf
 <2>3. FirstOf(T) \in 1 .. n BY <2>1, <2>2
 <2> QED BY <1>2, <2>1, <2>2, <2>3
<1> QED BY <1>1, <1>2

Kinds == {"message", "reset", "checkpoint_reset", "compaction", "job"}

EntryRow ==
  [kind : Kinds, msg : Said, kept : Int, job : Worker \cup {"none"}, parent : Nat, path : Seq(Nat)]

\* Ids in ascending order, up to a bound.
Ascend(ids, n) ==
  /\ ids \in Seq(Nat)
  /\ \A k \in 1 .. Len(ids) : ids[k] \in 1 .. n
  /\ \A k, l \in 1 .. Len(ids) : k < l => ids[k] < ids[l]

\* Each path ascends to its entry, and what an entry keeps is before it.
PathsAscend(es) ==
  \A i \in DOMAIN es : /\ Ascend(es[i].path, i)
                       /\ Len(es[i].path) > 0 /\ es[i].path[Len(es[i].path)] = i
                       /\ es[i].kept < i

LEMMA PathAscends ==
  ASSUME NEW es \in Seq(EntryRow), PathsAscend(es), NEW at \in 0 .. Len(es)
  PROVE  Ascend(Path(es, at), at)
<1>1. CASE at = 0 BY <1>1, EmptySeq DEF Path, Ascend
<1>2. CASE at # 0
 <2>1. at \in DOMAIN es BY <1>2, LenProperties
 <2> QED BY <1>2, <2>1 DEF Path, PathsAscend
<1> QED BY <1>1, <1>2

LEMMA AscendAppend ==
  ASSUME NEW ids, NEW n \in Nat, Ascend(ids, n), NEW i \in Nat, n < i
  PROVE  Ascend(Append(ids, i), i)
<1>1. ids \in Seq(Nat) /\ Len(ids) \in Nat BY LenProperties DEF Ascend
<1>2. /\ Append(ids, i) \in Seq(Nat) /\ Len(Append(ids, i)) = Len(ids) + 1
      /\ Append(ids, i)[Len(ids) + 1] = i
      /\ \A k \in 1 .. Len(ids) : Append(ids, i)[k] = ids[k]
  BY <1>1, AppendProperties
<1>3. \A k \in 1 .. Len(ids) : ids[k] \in Nat /\ ids[k] <= n /\ 1 <= ids[k] BY DEF Ascend
<1> HIDE DEF Ascend
<1>4. \A k \in 1 .. Len(ids) + 1 : Append(ids, i)[k] \in 1 .. i BY <1>1, <1>2, <1>3
<1>5. ASSUME NEW k \in 1 .. Len(ids) + 1, NEW l \in 1 .. Len(ids) + 1, k < l
      PROVE  Append(ids, i)[k] < Append(ids, i)[l]
 <2>1. k \in 1 .. Len(ids) BY <1>1, <1>5
 <2>2. CASE l = Len(ids) + 1 BY <1>2, <1>3, <2>1, <2>2
 <2>3. CASE l # Len(ids) + 1
  <3>1. l \in 1 .. Len(ids) BY <1>1, <2>3
  <3> QED BY <1>2, <1>5, <2>1, <3>1 DEF Ascend
 <2> QED BY <2>2, <2>3
<1> QED BY <1>2, <1>4, <1>5 DEF Ascend

-----------------------------------------------------------------------------
(* The messages of a stretch of a path.                                    *)

Talk(es) == {i \in DOMAIN es : es[i].kind = "message"}

LEMMA MessagesIs ==
  ASSUME NEW es \in Seq(EntryRow), NEW ids \in Seq(Nat)
  PROVE  /\ Messages(es, ids) \in Seq(Said)
         /\ Len(Messages(es, ids)) = Len(Only(ids, Talk(es)))
         /\ \A k \in 1 .. Len(Only(ids, Talk(es))) :
              /\ Only(ids, Talk(es))[k] \in Talk(es) \cap ToSet(ids)
              /\ Messages(es, ids)[k] = es[Only(ids, Talk(es))[k]].msg
<1> DEFINE h == Only(ids, Talk(es))
<1>1. h \in Seq(Nat) /\ ToSet(h) = ToSet(ids) \cap Talk(es) BY OnlyIsSeq
<1>2. Messages(es, ids) = [k \in DOMAIN h |-> es[h[k]].msg] BY DEF Messages, Talk
<1> HIDE DEF h
<1>3. DOMAIN h = 1 .. Len(h) /\ Len(h) \in Nat BY <1>1, LenProperties
<1>4. ASSUME NEW k \in 1 .. Len(h) PROVE h[k] \in Talk(es) \cap ToSet(ids) /\ es[h[k]].msg \in Said
 <2>1. h[k] \in ToSet(h) BY <1>3 DEF ToSet
 <2>2. h[k] \in Talk(es) /\ h[k] \in DOMAIN es BY <1>1, <2>1 DEF Talk
 <2>3. es[h[k]] \in EntryRow BY <2>2, LenProperties, ElementOfSeq
 <2> QED BY <1>1, <2>1, <2>2, <2>3 DEF EntryRow
<1>5. [k \in 1 .. Len(h) |-> es[h[k]].msg] \in Seq(Said) BY <1>3, <1>4, IsASeq
<1>6. Len([k \in 1 .. Len(h) |-> es[h[k]].msg]) = Len(h) BY <1>3
<1> QED BY <1>2, <1>3, <1>4, <1>5, <1>6 DEF h

LEMMA MessagesSet ==
  ASSUME NEW es \in Seq(EntryRow), NEW ids \in Seq(Nat)
  PROVE  ToSet(Messages(es, ids)) = {es[i].msg : i \in ToSet(ids) \cap Talk(es)}
<1> DEFINE h == Only(ids, Talk(es))
<1>1. h \in Seq(Nat) /\ ToSet(h) = ToSet(ids) \cap Talk(es) BY OnlyIsSeq
<1>2. Messages(es, ids) = [k \in DOMAIN h |-> es[h[k]].msg] BY DEF Messages, Talk
<1> HIDE DEF h
<1>3. ToSet(Messages(es, ids)) = {es[h[k]].msg : k \in DOMAIN h} BY <1>2 DEF ToSet
<1>4. ToSet(h) = {h[k] : k \in DOMAIN h} BY DEF ToSet
<1> QED BY <1>1, <1>3, <1>4

-----------------------------------------------------------------------------
(* What one more entry makes of a conversation.                            *)

Boundary == {"reset", "checkpoint_reset"}
OfKind(es, ids, K) == {k \in 1 .. Len(ids) : es[ids[k]].kind \in K}
PlacesOf(ids, i) == {k \in 1 .. Len(ids) : ids[k] = i}

LEMMA SectionIs ==
  ASSUME NEW es, NEW ids
  PROVE  AfterLastReset(es, ids) = SubSeq(ids, LastOf(OfKind(es, ids, Boundary)) + 1, Len(ids))
<1>1. OfKind(es, ids, Boundary)
        = {k \in 1 .. Len(ids) : es[ids[k]].kind \in {"reset", "checkpoint_reset"}}
  BY DEF OfKind, Boundary
<1> QED BY <1>1 DEF AfterLastReset, SelectLastInSeq, LastOf

LEMMA ApplyIs ==
  ASSUME NEW es, NEW q
  PROVE  ApplyLastCompaction(es, q) =
           LET c == LastOf(OfKind(es, q, {"compaction"}))
           IN  IF c = 0 THEN Messages(es, q)
               ELSE <<es[q[c]].msg>> \o Messages(es, SubSeq(q, KeptAfter(es, q, c) + 1, Len(q)))
<1>1. OfKind(es, q, {"compaction"}) = {k \in 1 .. Len(q) : es[q[k]].kind = "compaction"}
  BY DEF OfKind
<1>2. SelectLastInSeq(q, LAMBDA i : es[i].kind = "compaction") = LastOf(OfKind(es, q, {"compaction"}))
  BY <1>1 DEF SelectLastInSeq, LastOf
<1> QED BY <1>2 DEF ApplyLastCompaction

LEMMA KeptAfterIs ==
  ASSUME NEW es, NEW q, NEW c
  PROVE  KeptAfter(es, q, c) =
           IF es[q[c]].kept = 0 THEN 0
           ELSE IF Contains(q, es[q[c]].kept) THEN FirstOf(PlacesOf(q, es[q[c]].kept)) ELSE c
<1>3. SelectInSeq(q, LAMBDA i : i = es[q[c]].kept) = FirstOf(PlacesOf(q, es[q[c]].kept))
  BY DEF SelectInSeq, FirstOf, PlacesOf
<1> QED BY <1>3 DEF KeptAfter

\* The section behind the last boundary: ids of entries, in ascending order.
SectionOf(es, ids, n) == ids \in Seq(DOMAIN es) /\ ids \in Seq(Nat) /\ Ascend(ids, n)

LEMMA SectionAscends ==
  ASSUME NEW es \in Seq(EntryRow), NEW ids, NEW n \in 0 .. Len(es), Ascend(ids, n)
  PROVE  SectionOf(es, AfterLastReset(es, ids), n)
<1> DEFINE T == OfKind(es, ids, Boundary)
           r == LastOf(T)
           q == SubSeq(ids, r + 1, Len(ids))
<1>1. ids \in Seq(Nat) /\ Len(ids) \in Nat /\ T \in SUBSET (1 .. Len(ids))
  BY LenProperties DEF Ascend, OfKind
<1>2. r \in 0 .. Len(ids)
 <2> HIDE DEF T
 <2> QED BY <1>1, LastIs
<1>3. AfterLastReset(es, ids) = q BY SectionIs
<1>4. DOMAIN es = 1 .. Len(es) /\ Len(es) \in Nat BY LenProperties
<1> HIDE DEF T, r
<1>5. \A k \in 1 .. Len(ids) : ids[k] \in 1 .. n /\ ids[k] \in DOMAIN es BY <1>4 DEF Ascend
<1>6. /\ q \in Seq(DOMAIN es) /\ Len(q) = Len(ids) - r
      /\ \A k \in 1 .. Len(ids) - r : q[k] = ids[r + k]
 <2>1. r + 1 \in Int /\ Len(ids) \in Int /\ \A k \in r + 1 .. Len(ids) : ids[k] \in DOMAIN es
   BY <1>1, <1>2, <1>5
 <2>2. /\ q \in Seq(DOMAIN es)
       /\ Len(q) = IF r + 1 <= Len(ids) THEN Len(ids) - (r + 1) + 1 ELSE 0
       /\ \A k \in 1 .. Len(ids) - (r + 1) + 1 : q[k] = ids[r + 1 + k - 1]
   BY <2>1, SubSeqProperties
 <2>3. Len(q) = Len(ids) - r BY <1>1, <1>2, <2>2
 <2> HIDE DEF q
 <2>4. ASSUME NEW k \in 1 .. Len(ids) - r PROVE q[k] = ids[r + k]
  <3>1. k \in 1 .. Len(ids) - (r + 1) + 1 /\ r + 1 + k - 1 = r + k BY <1>1, <1>2
  <3> QED BY <2>2, <3>1
 <2> QED BY <2>2, <2>3, <2>4
<1> HIDE DEF q
<1>7. q \in Seq(Nat) BY <1>4, <1>6, SeqMonotonic
<1>8. \A k \in 1 .. Len(q) : r + k \in 1 .. Len(ids) BY <1>1, <1>2, <1>6
<1>9. \A k \in 1 .. Len(q) : q[k] \in 1 .. n BY <1>5, <1>6, <1>8
<1>10. ASSUME NEW k \in 1 .. Len(q), NEW l \in 1 .. Len(q), k < l PROVE q[k] < q[l]
 <2>1. r + k < r + l /\ r + k \in 1 .. Len(ids) /\ r + l \in 1 .. Len(ids)
   BY <1>1, <1>2, <1>8, <1>10
 <2> QED BY <1>6, <2>1 DEF Ascend
<1> QED BY <1>3, <1>6, <1>7, <1>9, <1>10 DEF SectionOf, Ascend

-----------------------------------------------------------------------------
(* Entries that are appended.                                              *)

EntryIn == [kind : Kinds, msg : Said, kept : Int, job : Worker \cup {"none"}]

\* The entries so far are there, and are what they were.
Extends(fs, es) ==
  /\ fs \in Seq(EntryRow) /\ PathsAscend(fs) /\ Len(es) <= Len(fs)
  /\ \A i \in 1 .. Len(es) : fs[i] = es[i]

LEMMA PathIsSeq ==
  ASSUME NEW es \in Seq(EntryRow), NEW at \in 0 .. Len(es)
  PROVE  Path(es, at) \in Seq(Nat)
<1>1. CASE at = 0 BY <1>1, EmptySeq DEF Path
<1>2. CASE at # 0
 <2>1. at \in 1 .. Len(es) /\ es[at] \in EntryRow BY <1>2, LenProperties, ElementOfSeq
 <2> QED BY <1>2, <2>1 DEF Path, EntryRow
<1> QED BY <1>1, <1>2

LEMMA RowIs ==
  ASSUME NEW e \in EntryIn, NEW parent \in Nat, NEW path \in Seq(Nat)
  PROVE  /\ Row(e, parent, path) \in EntryRow
         /\ Row(e, parent, path).kind = e.kind /\ Row(e, parent, path).msg = e.msg
         /\ Row(e, parent, path).kept = e.kept /\ Row(e, parent, path).job = e.job
         /\ Row(e, parent, path).path = path /\ Row(e, parent, path).parent = parent
  BY DEF Row, EntryIn, EntryRow

\* Paths of entries that are there do not change.
LEMMA PathStays ==
  ASSUME NEW es \in Seq(EntryRow), NEW fs, \A i \in 1 .. Len(es) : fs[i] = es[i],
         NEW at \in 0 .. Len(es)
  PROVE  Path(fs, at) = Path(es, at)
<1>1. Len(es) \in Nat BY LenProperties
<1>2. at = 0 \/ at \in 1 .. Len(es) BY <1>1
<1> QED BY <1>2 DEF Path

LEMMA PlacedIs ==
  ASSUME NEW es \in Seq(EntryRow), PathsAscend(es), NEW at \in 0 .. Len(es),
         NEW e \in EntryIn, e.kept <= Len(es), NEW fs, fs = Placed(es, at, e)
  PROVE  /\ Extends(fs, es) /\ Len(fs) = Len(es) + 1
         /\ fs[Len(es) + 1] = Row(e, at, Append(Path(es, at), Len(es) + 1))
         /\ Path(fs, Len(es) + 1) = Append(Path(es, at), Len(es) + 1)
<1> DEFINE n == Len(es)
           path == Append(Path(es, at), n + 1)
           x == Row(e, at, path)
<1>1. n \in Nat /\ at \in Nat /\ DOMAIN es = 1 .. n BY LenProperties
<1>2. Path(es, at) \in Seq(Nat) /\ path \in Seq(Nat) BY <1>1, PathIsSeq, AppendProperties
<1>3. x \in EntryRow /\ x.path = path /\ x.kept = e.kept BY <1>1, <1>2, RowIs, ZenonT(40)
<1>4. fs = Append(es, x) BY DEF Placed
<1> HIDE DEF x, path
<1>5. /\ fs \in Seq(EntryRow) /\ Len(fs) = n + 1 /\ fs[n + 1] = x
      /\ \A i \in 1 .. n : fs[i] = es[i]
      /\ DOMAIN fs = 1 .. n + 1
  BY <1>3, <1>4, AppendProperties, LenProperties
<1>6. Ascend(path, n + 1)
 <2>1. Ascend(Path(es, at), at) BY PathAscends
 <2>2. at < n + 1 /\ n + 1 \in Nat BY <1>1
 <2> QED BY <1>1, <2>1, <2>2, AscendAppend DEF path
<1>7. Len(path) > 0 /\ path[Len(path)] = n + 1
 <2>1. Len(Path(es, at)) \in Nat BY <1>2, LenProperties
 <2>2. Len(path) = Len(Path(es, at)) + 1 /\ path[Len(Path(es, at)) + 1] = n + 1
   BY <1>1, <1>2, AppendProperties DEF path
 <2> QED BY <2>1, <2>2
<1>8. PathsAscend(fs)
 <2>1. ASSUME NEW i \in DOMAIN fs
       PROVE  /\ Ascend(fs[i].path, i)
              /\ Len(fs[i].path) > 0 /\ fs[i].path[Len(fs[i].path)] = i
              /\ fs[i].kept < i
  <3>1. CASE i = n + 1
   <4>1. fs[i].path = path /\ fs[i].kept = e.kept BY <1>3, <1>5, <3>1
   <4>2. e.kept < n + 1 BY <1>1 DEF EntryIn
   <4> QED BY <1>6, <1>7, <3>1, <4>1, <4>2
  <3>2. CASE i # n + 1
   <4>1. i \in 1 .. n /\ fs[i] = es[i] BY <1>1, <1>5, <3>2
   <4> QED BY <1>1, <4>1 DEF PathsAscend
  <3> QED BY <3>1, <3>2
 <2> QED BY <2>1 DEF PathsAscend
<1>9. Path(fs, n + 1) = path
 <2>1. n + 1 # 0 BY <1>1
 <2> QED BY <1>3, <1>5, <2>1 DEF Path
<1> QED BY <1>1, <1>5, <1>8, <1>9 DEF Extends, x, path

-----------------------------------------------------------------------------
(* One after the other.                                                    *)

End(es, at, new) == IF new = <<>> THEN at ELSE Len(es) + Len(new)

LEMMA ManyNone ==
  ASSUME NEW es \in Seq(EntryRow), NEW at
  PROVE  AppendMany(es, at, <<>>) = es
<1> DEFINE f == [k \in DOMAIN <<>> |->
                   Row(<<>>[k], IF k = 1 THEN at ELSE Len(es) + k - 1,
                       Path(es, at) \o [j \in 1 .. k |-> Len(es) + j])]
<1>1. f = <<>> OBVIOUS
<1>2. AppendMany(es, at, <<>>) = es \o f BY DEF AppendMany
<1> QED BY <1>1, <1>2, ConcatEmptySeq

\* The ids of entries appended at once.
LEMMA NewIds ==
  ASSUME NEW n \in Nat, NEW k \in Nat
  PROVE  /\ [j \in 1 .. k |-> n + j] \in Seq(Nat)
         /\ Len([j \in 1 .. k |-> n + j]) = k
         /\ [j \in 1 .. k + 1 |-> n + j] = Append([j \in 1 .. k |-> n + j], n + k + 1)
<1> DEFINE f == [j \in 1 .. k |-> n + j]
           g == [j \in 1 .. k + 1 |-> n + j]
<1>1. f \in Seq(Nat) /\ Len(f) = k /\ \A j \in 1 .. k : f[j] = n + j
  BY IsASeq, LenProperties
<1>2. g \in Seq(Nat) /\ Len(g) = k + 1 /\ \A j \in 1 .. k + 1 : g[j] = n + j
  BY IsASeq, LenProperties
<1> HIDE DEF f, g
<1>3. /\ Append(f, n + k + 1) \in Seq(Nat) /\ Len(Append(f, n + k + 1)) = k + 1
      /\ Append(f, n + k + 1)[k + 1] = n + k + 1
      /\ \A j \in 1 .. k : Append(f, n + k + 1)[j] = n + j
  BY <1>1, AppendProperties
<1>4. ASSUME NEW j \in 1 .. k + 1 PROVE g[j] = Append(f, n + k + 1)[j]
 <2>1. CASE j = k + 1
  <3>1. g[j] = n + j /\ n + j = n + k + 1 BY <1>2, <2>1
  <3> QED BY <1>3, <2>1, <3>1
 <2>2. CASE j # k + 1
  <3>1. j \in 1 .. k BY <2>2
  <3> QED BY <1>2, <1>3, <3>1
 <2> QED BY <2>1, <2>2
<1>5. g = Append(f, n + k + 1) BY <1>2, <1>3, <1>4, SeqEqual
<1> QED BY <1>1, <1>5 DEF f, g

AppendedRow(es, at, new, k) ==
  Row(new[k], IF k = 1 THEN at ELSE Len(es) + k - 1,
      Path(es, at) \o [j \in 1 .. k |-> Len(es) + j])

AppendedRows(es, at, new) == [k \in 1 .. Len(new) |-> AppendedRow(es, at, new, k)]

LEMMA ManyIsRows ==
  ASSUME NEW es \in Seq(EntryRow), NEW at \in 0 .. Len(es), NEW new \in Seq(EntryIn)
  PROVE  /\ AppendMany(es, at, new) = es \o AppendedRows(es, at, new)
         /\ AppendedRows(es, at, new) \in Seq(EntryRow)
         /\ Len(AppendedRows(es, at, new)) = Len(new)
         /\ \A k \in 1 .. Len(new) :
              /\ AppendedRows(es, at, new)[k] = AppendedRow(es, at, new, k)
              /\ AppendedRows(es, at, new)[k].path = Path(es, at) \o [j \in 1 .. k |-> Len(es) + j]
<1> DEFINE f == AppendedRows(es, at, new)
<1>1. Len(es) \in Nat /\ Len(new) \in Nat /\ DOMAIN new = 1 .. Len(new) /\ at \in Nat
  BY LenProperties
<1>2. AppendMany(es, at, new) = es \o f BY <1>1 DEF AppendMany, AppendedRow, AppendedRows
<1>3. ASSUME NEW k \in 1 .. Len(new)
      PROVE  /\ AppendedRow(es, at, new, k) \in EntryRow
             /\ AppendedRow(es, at, new, k).path = Path(es, at) \o [j \in 1 .. k |-> Len(es) + j]
 <2> DEFINE parent == IF k = 1 THEN at ELSE Len(es) + k - 1
            path == Path(es, at) \o [j \in 1 .. k |-> Len(es) + j]
 <2>1. k \in Nat /\ new[k] \in EntryIn BY <1>1, ElementOfSeq
 <2>2. parent \in Nat BY <1>1, <2>1
 <2>3. path \in Seq(Nat) BY <1>1, <2>1, PathIsSeq, NewIds, ConcatProperties
 <2>4. AppendedRow(es, at, new, k) = Row(new[k], parent, path) BY DEF AppendedRow
 <2> HIDE DEF parent, path
 <2>5. Row(new[k], parent, path) \in EntryRow /\ Row(new[k], parent, path).path = path
   BY <2>1, <2>2, <2>3, RowIs
 <2> QED BY <2>4, <2>5 DEF path
<1>4. f = [k \in 1 .. Len(new) |-> AppendedRow(es, at, new, k)] BY DEF AppendedRows
<1> HIDE DEF f
<1>5. f \in Seq(EntryRow) /\ Len(f) = Len(new) BY <1>1, <1>3, <1>4, IsASeq, LenProperties
<1> QED BY <1>2, <1>3, <1>4, <1>5 DEF f

LEMMA ManyMore ==
  ASSUME NEW es \in Seq(EntryRow), NEW at \in 0 .. Len(es),
         NEW new \in Seq(EntryIn), NEW e \in EntryIn
  PROVE  AppendMany(es, at, Append(new, e))
           = Placed(AppendMany(es, at, new), End(es, at, new), e)
<1> DEFINE n == Len(es)
           m == Len(new)
           more == Append(new, e)
           f == AppendedRows(es, at, new)
           g == AppendedRows(es, at, more)
           fs == AppendMany(es, at, new)
<1>1. n \in Nat /\ m \in Nat /\ DOMAIN new = 1 .. m /\ at \in Nat /\ DOMAIN es = 1 .. n
  BY LenProperties
<1>2. /\ more \in Seq(EntryIn) /\ Len(more) = m + 1 /\ more[m + 1] = e
      /\ \A k \in 1 .. m : more[k] = new[k]
  BY <1>1, AppendProperties
<1>3. /\ fs = es \o f /\ f \in Seq(EntryRow) /\ Len(f) = m
      /\ \A k \in 1 .. m : /\ f[k] = AppendedRow(es, at, new, k)
                           /\ f[k].path = Path(es, at) \o [j \in 1 .. k |-> n + j]
  BY ManyIsRows
<1> HIDE DEF f, more
<1>4. /\ AppendMany(es, at, more) = es \o g /\ g \in Seq(EntryRow) /\ Len(g) = m + 1
      /\ \A k \in 1 .. m + 1 : g[k] = AppendedRow(es, at, more, k)
  BY <1>2, ManyIsRows, ZenonT(40)
<1> HIDE DEF g, fs
<1> DEFINE row == AppendedRow(es, at, more, m + 1)
<1>5. row \in EntryRow BY <1>1, <1>4, ElementOfSeq
<1>6. g = Append(f, row)
 <2>1. /\ Append(f, row) \in Seq(EntryRow) /\ Len(Append(f, row)) = m + 1
       /\ Append(f, row)[m + 1] = row
       /\ \A k \in 1 .. m : Append(f, row)[k] = f[k]
  <3> HIDE DEF row
  <3> QED BY <1>3, <1>5, AppendProperties
 <2>2. ASSUME NEW k \in 1 .. m + 1 PROVE g[k] = Append(f, row)[k]
  <3>1. CASE k = m + 1 BY <1>4, <2>1, <3>1
  <3>2. CASE k # m + 1
   <4>1. k \in 1 .. m BY <1>1, <3>2
   <4>2. AppendedRow(es, at, more, k) = AppendedRow(es, at, new, k)
     BY <1>2, <4>1 DEF AppendedRow
   <4> QED BY <1>3, <1>4, <2>1, <4>1, <4>2
  <3> QED BY <3>1, <3>2
 <2> QED BY <1>1, <1>4, <2>1, <2>2, SeqEqual
<1>7. AppendMany(es, at, more) = Append(fs, row)
 <2> HIDE DEF row
 <2>1. /\ <<row>> \in Seq(EntryRow) /\ Append(f, row) = f \o <<row>>
       /\ Append(es \o f, row) = (es \o f) \o <<row>> /\ es \o f \in Seq(EntryRow)
   BY <1>3, <1>5, AppendIsConcat, ConcatProperties
 <2>2. es \o (f \o <<row>>) = (es \o f) \o <<row>> BY <1>3, <2>1, ConcatAssociative
 <2> QED BY <1>3, <1>4, <1>6, <2>1, <2>2
<1>8. /\ fs \in Seq(EntryRow) /\ Len(fs) = n + m
      /\ \A i \in 1 .. n : fs[i] = es[i]
      /\ \A k \in 1 .. m : fs[n + k] = f[k]
 <2>1. /\ fs \in Seq(EntryRow) /\ Len(fs) = n + m
       /\ \A i \in 1 .. n + m : fs[i] = IF i <= n THEN es[i] ELSE f[i - n]
  <3>1. /\ es \o f \in Seq(EntryRow) /\ Len(es \o f) = Len(es) + Len(f)
        /\ \A i \in 1 .. Len(es) + Len(f) :
             (es \o f)[i] = IF i <= Len(es) THEN es[i] ELSE f[i - Len(es)]
    BY <1>3, ConcatProperties
  <3> QED BY <1>3, <3>1
 <2>2. ASSUME NEW k \in 1 .. m PROVE fs[n + k] = f[k]
  <3>1. n + k \in 1 .. n + m /\ ~(n + k <= n) /\ n + k - n = k BY <1>1
  <3> QED BY <2>1, <3>1
 <2>3. ASSUME NEW i \in 1 .. n PROVE fs[i] = es[i]
  <3>1. i \in 1 .. n + m /\ i <= n BY <1>1
  <3> QED BY <2>1, <3>1
 <2> QED BY <2>1, <2>2, <2>3
<1>9. Path(fs, End(es, at, new)) = Path(es, at) \o [j \in 1 .. m |-> n + j]
 <2>1. CASE new = <<>>
  <3>1. m = 0 /\ End(es, at, new) = at BY <2>1, EmptySeq DEF End
  <3>2. Path(fs, at) = Path(es, at) BY <1>8, PathStays
  <3>3. [j \in 1 .. 0 |-> n + j] = <<>>
   <4>1. 1 .. 0 = {} OBVIOUS
   <4> QED BY <1>1, NewIds, EmptySeq
  <3>4. Path(es, at) \o <<>> = Path(es, at) BY PathIsSeq, ConcatEmptySeq
  <3> QED BY <3>1, <3>2, <3>3, <3>4
 <2>2. CASE new # <<>>
  <3>1. End(es, at, new) = n + m BY <2>2 DEF End
  <3>2. m # 0 BY <2>2, EmptySeq
  <3>3. m \in 1 .. m /\ n + m # 0 BY <1>1, <3>2
  <3>4. Path(fs, n + m) = f[m].path BY <1>8, <3>3 DEF Path
  <3> QED BY <1>3, <3>1, <3>3, <3>4
 <2> QED BY <2>1, <2>2
<1>10. (IF m + 1 = 1 THEN at ELSE n + (m + 1) - 1) = End(es, at, new)
 <2>1. CASE new = <<>> BY <2>1, EmptySeq DEF End
 <2>2. CASE new # <<>>
  <3>1. m # 0 BY <2>2, EmptySeq
  <3> QED BY <1>1, <2>2, <3>1 DEF End
 <2> QED BY <2>1, <2>2
<1>11. Path(es, at) \o [j \in 1 .. m + 1 |-> n + j]
         = Append(Path(fs, End(es, at, new)), Len(fs) + 1)
 <2> DEFINE p == Path(es, at)
            q == [j \in 1 .. m |-> n + j]
            x == n + m + 1
 <2>1. p \in Seq(Nat) /\ q \in Seq(Nat) /\ x \in Nat BY <1>1, PathIsSeq, NewIds
 <2>2. [j \in 1 .. m + 1 |-> n + j] = Append(q, x) BY <1>1, NewIds
 <2>3. Path(fs, End(es, at, new)) = p \o q /\ Len(fs) + 1 = x BY <1>8, <1>9
 <2> HIDE DEF p, q, x
 <2>4. /\ <<x>> \in Seq(Nat) /\ Append(q, x) = q \o <<x>>
       /\ Append(p \o q, x) = (p \o q) \o <<x>>
   BY <2>1, AppendIsConcat, ConcatProperties, SMTT(30)
 <2>5. p \o (q \o <<x>>) = (p \o q) \o <<x>> BY <2>1, <2>4, ConcatAssociative, SMTT(30)
 <2> QED BY <2>2, <2>3, <2>4, <2>5 DEF p
<1>12. row = Row(e, End(es, at, new), Append(Path(fs, End(es, at, new)), Len(fs) + 1))
  BY <1>2, <1>10, <1>11 DEF AppendedRow
<1> QED BY <1>7, <1>12 DEF Placed, more, fs

\* Entries that may be appended to these.
NewIn(es) == {e \in EntryIn : e.kept <= Len(es)}

LEMMA NewInSeq ==
  ASSUME NEW es, NEW new \in Seq(NewIn(es))
  PROVE  new \in Seq(EntryIn)
<1>1. NewIn(es) \subseteq EntryIn BY DEF NewIn
<1> QED BY <1>1, SeqMonotonic

LEMMA EndIs ==
  ASSUME NEW es \in Seq(EntryRow), NEW at \in 0 .. Len(es), NEW new \in Seq(EntryIn)
  PROVE  /\ Len(es) + Len(new) \in Nat
         /\ End(es, at, new) \in 0 .. Len(es) + Len(new)
<1>1. Len(es) \in Nat /\ Len(new) \in Nat BY LenProperties
<1> QED BY <1>1 DEF End

LEMMA ManyExtends ==
  ASSUME NEW es \in Seq(EntryRow), PathsAscend(es), NEW at \in 0 .. Len(es),
         NEW new \in Seq(NewIn(es))
  PROVE  /\ Extends(AppendMany(es, at, new), es)
         /\ Len(AppendMany(es, at, new)) = Len(es) + Len(new)
<1> DEFINE Good(u) == /\ Extends(AppendMany(es, at, u), es)
                      /\ Len(AppendMany(es, at, u)) = Len(es) + Len(u)
           T == {u \in Seq(NewIn(es)) : Good(u)}
<1>0. Len(es) \in Nat BY LenProperties
<1>1. <<>> \in T
 <2>1. AppendMany(es, at, <<>>) = es /\ Len(<<>>) = 0 /\ <<>> \in Seq(NewIn(es))
   BY ManyNone, EmptySeq
 <2> QED BY <1>0, <2>1 DEF Extends
<1>2. ASSUME NEW u \in Seq(NewIn(es)), NEW e \in NewIn(es), u \in T
      PROVE  Append(u, e) \in T
 <2> DEFINE fs == AppendMany(es, at, u)
            gs == AppendMany(es, at, Append(u, e))
 <2>1. u \in Seq(EntryIn) /\ e \in EntryIn /\ e.kept <= Len(es) BY NewInSeq DEF NewIn
 <2>2. Extends(fs, es) /\ Len(fs) = Len(es) + Len(u) /\ Len(u) \in Nat
   BY <1>2, LenProperties
 <2>3. gs = Placed(fs, End(es, at, u), e) BY <2>1, ManyMore
 <2>4. End(es, at, u) \in 0 .. Len(fs) BY <2>1, <2>2, EndIs
 <2> HIDE DEF fs, gs
 <2>5. fs \in Seq(EntryRow) /\ PathsAscend(fs) /\ e.kept <= Len(fs)
  <3>1. e.kept \in Int BY <2>1 DEF EntryIn
  <3> QED BY <1>0, <2>1, <2>2, <3>1 DEF Extends
 <2>6. Extends(gs, fs) /\ Len(gs) = Len(fs) + 1
   BY <2>1, <2>3, <2>4, <2>5, PlacedIs, ZenonT(40)
 <2>7. Extends(gs, es) /\ Len(gs) = Len(es) + (Len(u) + 1) BY <1>0, <2>2, <2>6 DEF Extends
 <2>8. Append(u, e) \in Seq(NewIn(es)) /\ Len(Append(u, e)) = Len(u) + 1 BY AppendProperties
 <2> QED BY <2>7, <2>8 DEF gs
<1>3. \A u \in Seq(NewIn(es)) : u \in T
 <2> HIDE DEF T
 <2> QED BY <1>1, <1>2, AllSequences
<1> QED BY <1>3 DEF T

\* The ids on the way to an entry that was appended.
LEMMA ManyIs ==
  ASSUME NEW es \in Seq(EntryRow), PathsAscend(es), NEW at \in 0 .. Len(es),
         NEW new \in Seq(NewIn(es)), NEW fs, fs = AppendMany(es, at, new)
  PROVE  /\ Extends(fs, es) /\ Len(fs) = Len(es) + Len(new)
         /\ Len(new) \in Nat /\ Len(es) \in Nat /\ Len(fs) \in Nat
         /\ End(es, at, new) \in 0 .. Len(fs)
         /\ \A k \in 1 .. Len(new) :
              /\ fs[Len(es) + k].kind = new[k].kind /\ fs[Len(es) + k].msg = new[k].msg
              /\ fs[Len(es) + k].kept = new[k].kept /\ fs[Len(es) + k].job = new[k].job
              /\ ToSet(fs[Len(es) + k].path)
                   = ToSet(Path(es, at)) \cup (Len(es) + 1 .. Len(es) + k)
<1> DEFINE n == Len(es)
           m == Len(new)
<1>1. n \in Nat /\ m \in Nat /\ at \in Nat /\ new \in Seq(EntryIn) /\ DOMAIN new = 1 .. m
  BY NewInSeq, LenProperties
<1>2. Extends(fs, es) /\ Len(fs) = n + m BY ManyExtends
<1>3. End(es, at, new) \in 0 .. Len(fs) BY <1>1, <1>2, EndIs
<1> DEFINE f == AppendedRows(es, at, new)
<1>4. /\ fs = es \o f /\ f \in Seq(EntryRow) /\ Len(f) = m
      /\ \A k \in 1 .. m : /\ f[k] = AppendedRow(es, at, new, k)
                           /\ f[k].path = Path(es, at) \o [j \in 1 .. k |-> n + j]
  BY <1>1, ManyIsRows
<1> HIDE DEF f
<1>5. ASSUME NEW k \in 1 .. m PROVE fs[n + k] = f[k]
 <2>1. n + k \in 1 .. n + m /\ ~(n + k <= n) /\ n + k - n = k BY <1>1
 <2>2. \A i \in 1 .. Len(es) + Len(f) :
          (es \o f)[i] = IF i <= Len(es) THEN es[i] ELSE f[i - Len(es)]
   BY <1>4, ConcatProperties
 <2> QED BY <1>4, <2>1, <2>2
<1>6. ASSUME NEW k \in 1 .. m
      PROVE  /\ fs[n + k].kind = new[k].kind /\ fs[n + k].msg = new[k].msg
             /\ fs[n + k].kept = new[k].kept /\ fs[n + k].job = new[k].job
 <2>1. fs[n + k] = AppendedRow(es, at, new, k) BY <1>4, <1>5
 <2> HIDE DEF n, m
 <2> QED BY <2>1 DEF AppendedRow, Row
<1>7. ASSUME NEW k \in 1 .. m
      PROVE  ToSet(fs[n + k].path) = ToSet(Path(es, at)) \cup (n + 1 .. n + k)
 <2> DEFINE q == [j \in 1 .. k |-> n + j]
 <2>1. k \in Nat /\ q \in Seq(Nat) /\ Len(q) = k /\ Path(es, at) \in Seq(Nat)
   BY <1>1, NewIds, PathIsSeq
 <2>2. fs[n + k].path = Path(es, at) \o q BY <1>4, <1>5
 <2>3. ToSet(q) = n + 1 .. n + k
  <3>1. ASSUME NEW i \in n + 1 .. n + k PROVE \E j \in 1 .. k : n + j = i
   <4>1. i - n \in 1 .. k /\ n + (i - n) = i BY <1>1
   <4> QED BY <4>1
  <3>2. ASSUME NEW j \in 1 .. k PROVE n + j \in n + 1 .. n + k BY <1>1
  <3>3. DOMAIN q = 1 .. k /\ \A j \in 1 .. k : q[j] = n + j OBVIOUS
  <3> HIDE DEF q
  <3>4. ToSet(q) = {q[j] : j \in 1 .. k} BY <3>3 DEF ToSet
  <3>5. \A x : x \in ToSet(q) <=> \E j \in 1 .. k : n + j = x BY <3>3, <3>4
  <3>6. \A x : (\E j \in 1 .. k : n + j = x) => x \in n + 1 .. n + k BY <3>2
  <3> HIDE DEF n
  <3> QED BY <3>1, <3>5, <3>6
 <2> HIDE DEF q
 <2>4. ToSet(Path(es, at) \o q) = ToSet(Path(es, at)) \cup ToSet(q) BY <2>1, SetOfConcat
 <2> QED BY <2>2, <2>3, <2>4
<1> QED BY <1>1, <1>2, <1>3, <1>6, <1>7 DEF Extends

\* One more is many with one.
LEMMA PlacedIsMany ==
  ASSUME NEW es \in Seq(EntryRow), NEW at \in 0 .. Len(es), NEW e \in EntryIn
  PROVE  Placed(es, at, e) = AppendMany(es, at, <<e>>)
<1>1. <<>> \in Seq(EntryIn) /\ Append(<<>>, e) = <<e>> BY EmptySeq
<1>2. AppendMany(es, at, <<>>) = es /\ End(es, at, <<>>) = at BY ManyNone DEF End
<1>3. AppendMany(es, at, Append(<<>>, e)) = Placed(AppendMany(es, at, <<>>), End(es, at, <<>>), e)
  BY <1>1, ManyMore
<1> QED BY <1>1, <1>2, <1>3

-----------------------------------------------------------------------------
(* Types of what is read from the entries.                                 *)

LEMMA ApplyIsSeq ==
  ASSUME NEW es \in Seq(EntryRow), NEW q \in Seq(DOMAIN es)
  PROVE  ApplyLastCompaction(es, q) \in Seq(Said)
<1> DEFINE C == OfKind(es, q, {"compaction"})
           c == LastOf(C)
           k == KeptAfter(es, q, c)
           rest == SubSeq(q, k + 1, Len(q))
<1>1. /\ Len(q) \in Nat /\ \A i \in 1 .. Len(q) : q[i] \in DOMAIN es
      /\ q \in Seq(Nat) /\ DOMAIN es \subseteq Nat
 <2>1. DOMAIN es \subseteq Nat BY LenProperties
 <2> QED BY <2>1, LenProperties, ElementOfSeq, SeqMonotonic
<1>2. C \in SUBSET (1 .. Len(q)) BY DEF OfKind
<1>3. c \in 0 .. Len(q)
 <2> HIDE DEF C
 <2> QED BY <1>1, <1>2, LastIs
<1>4. ApplyLastCompaction(es, q) = IF c = 0 THEN Messages(es, q)
                                   ELSE <<es[q[c]].msg>> \o Messages(es, rest)
  BY ApplyIs
<1> HIDE DEF C
<1>5. k \in 0 .. Len(q)
 <2>1. PlacesOf(q, es[q[c]].kept) \in SUBSET (1 .. Len(q)) BY DEF PlacesOf
 <2>2. FirstOf(PlacesOf(q, es[q[c]].kept)) \in 0 .. Len(q) BY <1>1, <2>1, FirstIs
 <2>3. 0 \in 0 .. Len(q) BY <1>1
 <2> QED BY <1>3, <2>2, <2>3, KeptAfterIs
<1> HIDE DEF c, k
<1>6. rest \in Seq(Nat)
 <2>1. k + 1 \in 1 .. Len(q) + 1 BY <1>1, <1>5
 <2> QED BY <1>1, <2>1, Halves
<1>7. Messages(es, q) \in Seq(Said) /\ Messages(es, rest) \in Seq(Said)
  BY <1>1, <1>6, MessagesIs
<1>8. CASE c = 0 BY <1>4, <1>7, <1>8
<1>9. CASE c # 0
 <2>1. c \in 1 .. Len(q) BY <1>1, <1>3, <1>9
 <2>2. es[q[c]] \in EntryRow BY <1>1, <2>1, LenProperties, ElementOfSeq
 <2>3. es[q[c]].msg \in Said BY <2>2 DEF EntryRow
 <2>4. <<es[q[c]].msg>> \in Seq(Said) BY <2>3, OneEachOfOne
 <2>5. <<es[q[c]].msg>> \o Messages(es, rest) \in Seq(Said) BY <1>7, <2>4, ConcatProperties
 <2> QED BY <1>4, <1>9, <2>5
<1> QED BY <1>8, <1>9

LEMMA RecordedIsSeq ==
  ASSUME NEW es \in Seq(EntryRow), PathsAscend(es), NEW at \in 0 .. Len(es)
  PROVE  Recorded(es, at) \in Seq(Said) /\ Context(es, at) \in Seq(Said)
<1> DEFINE q == AfterLastReset(es, Path(es, at))
<1>1. Ascend(Path(es, at), at) BY PathAscends
<1>2. q \in Seq(DOMAIN es) BY <1>1, SectionAscends DEF SectionOf
<1> HIDE DEF q
<1>3. ApplyLastCompaction(es, q) \in Seq(Said) BY <1>2, ApplyIsSeq
<1>4. Recorded(es, at) \in Seq(Said) BY <1>3 DEF Recorded, q
<1> QED BY <1>4, UndangledIsSeq DEF Context

LEMMA FirstKeptIs ==
  ASSUME NEW es \in Seq(EntryRow), PathsAscend(es), NEW at \in 0 .. Len(es), NEW m
  PROVE  FirstKept(es, at, m) \in Int /\ FirstKept(es, at, m) <= Len(es)
<1> DEFINE ids == Path(es, at)
           U == {i \in 1 .. Len(ids) : es[ids[i]].kind = "message" /\ es[ids[i]].msg.id = m.id}
           l == LastOf(U)
<1>1. Ascend(ids, at) /\ ids \in Seq(Nat) /\ Len(ids) \in Nat /\ Len(es) \in Nat /\ at \in Nat
  BY PathAscends, LenProperties DEF Ascend
<1>2. U \in SUBSET (1 .. Len(ids)) OBVIOUS
<1>3. FirstKept(es, at, m) = IF l = 0 THEN NoMark ELSE IF l = 1 THEN 0 ELSE ids[l - 1]
  BY DEF FirstKept, SelectLastInSeq, LastOf
<1> HIDE DEF U, ids
<1>4. l \in 0 .. Len(ids) BY <1>1, <1>2, LastIs
<1> HIDE DEF l
<1>5. CASE l \in {0, 1} BY <1>1, <1>3, <1>5 DEF NoMark
<1>6. CASE l \notin {0, 1}
 <2>1. l - 1 \in 1 .. Len(ids) BY <1>1, <1>4, <1>6
 <2>2. ids[l - 1] \in 1 .. at BY <1>1, <2>1 DEF Ascend
 <2>3. ids[l - 1] \in Int /\ ids[l - 1] <= Len(es) BY <1>1, <2>2
 <2> QED BY <1>3, <1>6, <2>3
<1> QED BY <1>5, <1>6

-----------------------------------------------------------------------------
(* What a capture appends.                                                 *)

\* Entries without a run.
Plain(es) == {e \in NewIn(es) : e.job = "none"}

LEMMA PlainSeq ==
  ASSUME NEW es, NEW new \in Seq(Plain(es))
  PROVE  new \in Seq(NewIn(es)) /\ \A k \in 1 .. Len(new) : new[k].job = "none"
<1>1. Plain(es) \subseteq NewIn(es) BY DEF Plain
<1>2. new \in Seq(NewIn(es)) BY <1>1, SeqMonotonic
<1>3. \A k \in 1 .. Len(new) : new[k] \in Plain(es) BY LenProperties, ElementOfSeq
<1> QED BY <1>2, <1>3 DEF Plain

LEMMA EntriesIn ==
  ASSUME NEW es \in Seq(EntryRow)
  PROVE  /\ \A m \in Said : /\ MessageEntry(m) \in Plain(es)
                            /\ MessageEntry(m).kind = "message" /\ MessageEntry(m).msg = m
                            /\ MessageEntry(m).kept = NoMark
         /\ \A m \in Said : \A kept \in Int :
              kept <= Len(es) => /\ CompactionEntry(m, kept) \in Plain(es)
                                 /\ CompactionEntry(m, kept).kind = "compaction"
                                 /\ CompactionEntry(m, kept).msg = m
                                 /\ CompactionEntry(m, kept).kept = kept
         /\ ResetBoundaryEntry \in Plain(es) /\ ResetBoundaryEntry.kind = "reset"
         /\ ResetBoundaryEntry.msg = NoMessage
         /\ CheckpointReset \in Plain(es) /\ CheckpointReset.kind = "checkpoint_reset"
         /\ CheckpointReset.msg = NoMessage
         /\ \A w \in Worker : /\ JobEntry(w) \in NewIn(es) /\ JobEntry(w).job = w
                              /\ JobEntry(w).kind = "job" /\ JobEntry(w).msg = NoMessage
<1>1. Len(es) \in Nat BY LenProperties
<1>2. NoMark \in Int /\ NoMark <= Len(es) /\ NoMessage \in Said
  BY <1>1 DEF NoMark, NoMessage, Said
<1>3. \A k \in Kinds, m \in Said, kept \in Int, w \in Worker \cup {"none"} :
        kept <= Len(es) => /\ Entry(k, m, kept, w) \in NewIn(es)
                           /\ Entry(k, m, kept, w).kind = k /\ Entry(k, m, kept, w).msg = m
                           /\ Entry(k, m, kept, w).kept = kept /\ Entry(k, m, kept, w).job = w
  BY DEF Entry, NewIn, EntryIn
<1>4. {"message", "reset", "checkpoint_reset", "compaction", "job"} = Kinds BY DEF Kinds
<1>5. ASSUME NEW k \in Kinds, NEW m \in Said, NEW kept \in Int, kept <= Len(es)
      PROVE  /\ Entry(k, m, kept, "none") \in Plain(es)
             /\ Entry(k, m, kept, "none").kind = k /\ Entry(k, m, kept, "none").msg = m
             /\ Entry(k, m, kept, "none").kept = kept
  BY <1>3, <1>5 DEF Plain
<1>6. \A m \in Said : /\ MessageEntry(m) \in Plain(es)
                      /\ MessageEntry(m).kind = "message" /\ MessageEntry(m).msg = m
                      /\ MessageEntry(m).kept = NoMark
  BY <1>2, <1>4, <1>5 DEF MessageEntry
<1>7. ASSUME NEW m \in Said, NEW kept \in Int, kept <= Len(es)
      PROVE  /\ CompactionEntry(m, kept) \in Plain(es)
             /\ CompactionEntry(m, kept).kind = "compaction"
             /\ CompactionEntry(m, kept).msg = m
             /\ CompactionEntry(m, kept).kept = kept
 <2>1. "compaction" \in Kinds BY <1>4
 <2> QED BY <1>5, <1>7, <2>1 DEF CompactionEntry
<1>8. /\ ResetBoundaryEntry \in Plain(es) /\ ResetBoundaryEntry.kind = "reset"
      /\ ResetBoundaryEntry.msg = NoMessage
  BY <1>2, <1>4, <1>5 DEF ResetBoundaryEntry
<1>9. /\ CheckpointReset \in Plain(es) /\ CheckpointReset.kind = "checkpoint_reset"
      /\ CheckpointReset.msg = NoMessage
  BY <1>2, <1>4, <1>5 DEF CheckpointReset
<1>10. ASSUME NEW w \in Worker
       PROVE  /\ JobEntry(w) \in NewIn(es) /\ JobEntry(w).job = w
              /\ JobEntry(w).kind = "job" /\ JobEntry(w).msg = NoMessage
 <2>1. "job" \in Kinds /\ w \in Worker \cup {"none"} BY <1>4
 <2> QED BY <1>2, <1>3, <2>1 DEF JobEntry
<1> QED BY <1>6, <1>7, <1>8, <1>9, <1>10

LEMMA SaysIs ==
  ASSUME NEW es \in Seq(EntryRow), NEW ms \in Seq(Said)
  PROVE  /\ Says(ms) \in Seq(Plain(es)) /\ Len(Says(ms)) = Len(ms)
         /\ \A k \in 1 .. Len(ms) : Says(ms)[k] = MessageEntry(ms[k])
<1>1. DOMAIN ms = 1 .. Len(ms) /\ Len(ms) \in Nat /\ \A k \in 1 .. Len(ms) : ms[k] \in Said
  BY LenProperties, ElementOfSeq
<1>2. Says(ms) = [k \in 1 .. Len(ms) |-> MessageEntry(ms[k])] BY <1>1 DEF Says
<1>3. \A k \in 1 .. Len(ms) : MessageEntry(ms[k]) \in Plain(es) BY <1>1, EntriesIn
<1> QED BY <1>1, <1>2, <1>3, IsASeq, LenProperties

LEMMA PlainMore ==
  ASSUME NEW es, NEW e \in Plain(es), NEW new \in Seq(Plain(es))
  PROVE  <<e>> \o new \in Seq(Plain(es)) /\ <<e>> \o new # <<>>
         /\ Len(<<e>> \o new) = Len(new) + 1 /\ (<<e>> \o new)[1] = e
<1>1. <<e>> \in Seq(Plain(es)) /\ Len(<<e>>) = 1 /\ <<e>>[1] = e OBVIOUS
<1>2. /\ <<e>> \o new \in Seq(Plain(es)) /\ Len(<<e>> \o new) = 1 + Len(new)
      /\ \A i \in 1 .. 1 + Len(new) : (<<e>> \o new)[i] = IF i <= 1 THEN <<e>>[i] ELSE new[i - 1]
  BY <1>1, ConcatProperties
<1>3. Len(new) \in Nat BY LenProperties
<1>4. 1 \in 1 .. 1 + Len(new) BY <1>3
<1> QED BY <1>1, <1>2, <1>3, <1>4, EmptySeq

\* Where in a sequence a message is.
SummaryAt(ms) == FirstOf({k \in 1 .. Len(ms) : ms[k].role = "summary"})

Keeps(live, after) ==
  SharedWith(live, after) # <<>> /\ IsPrefix(SharedWith(live, after), after)

LEMMA PrefixIs ==
  ASSUME NEW S, NEW s \in Seq(S), NEW t \in Seq(S), IsPrefix(s, t)
  PROVE  /\ Len(s) <= Len(t) /\ Len(s) \in Nat /\ Len(t) \in Nat
         /\ SubSeq(t, Len(s) + 1, Len(t)) \in Seq(S)
         /\ t = s \o SubSeq(t, Len(s) + 1, Len(t))
<1>1. Len(s) \in Nat /\ Len(t) \in Nat BY LenProperties
<1>2. Len(s) <= Len(t) /\ SubSeq(s, 1, Len(s)) = SubSeq(t, 1, Len(s)) BY DEF IsPrefix
<1> DEFINE k == Len(s) + 1
<1>3. k \in 1 .. Len(t) + 1 /\ k - 1 = Len(s) BY <1>1, <1>2
<1> HIDE DEF k
<1>4. SubSeq(t, k, Len(t)) \in Seq(S) /\ t = SubSeq(t, 1, k - 1) \o SubSeq(t, k, Len(t))
  BY <1>3, Halves
<1>5. SubSeq(t, 1, k - 1) = s BY <1>2, <1>3, SubSeqFull
<1> QED BY <1>1, <1>2, <1>4, <1>5 DEF k

LEMMA SharedIs ==
  ASSUME NEW live \in Seq(Said), NEW ms \in Seq(Said)
  PROVE  /\ SharedWith(live, ms) \in Seq(Said)
         /\ SharedWith(live, ms) # <<>> =>
              /\ ms # <<>>
              /\ \E from \in 1 .. Len(live) :
                   live[from] = Head(ms) /\ SharedWith(live, ms) = SubSeq(live, from, Len(live))
<1> DEFINE U == {k \in 1 .. Len(live) : live[k] = Head(ms)}
           l == IF ms = <<>> THEN 0 ELSE FirstOf(U)
<1>1. SelectInSeq(live, LAMBDA m : m = Head(ms)) = FirstOf(U) BY DEF SelectInSeq, FirstOf
<1>2. SharedWith(live, ms) = IF l = 0 THEN <<>> ELSE SubSeq(live, l, Len(live))
  BY <1>1 DEF SharedWith
<1>3. U \in SUBSET (1 .. Len(live)) /\ Len(live) \in Nat BY LenProperties
<1>4. /\ FirstOf(U) \in 0 .. Len(live) /\ (FirstOf(U) # 0 => FirstOf(U) \in U)
 <2> HIDE DEF U
 <2> QED BY <1>3, FirstIs
<1>5. CASE l = 0 BY <1>2, <1>5, EmptySeq
<1>6. CASE l # 0
 <2>1. ms # <<>> /\ l \in 1 .. Len(live) /\ live[l] = Head(ms)
  <3>1. ms # <<>> /\ l = FirstOf(U) BY <1>6
  <3>2. l \in U BY <1>4, <1>6, <3>1
  <3> QED BY <3>1, <3>2
 <2> HIDE DEF l
 <2>2. l \in 1 .. Len(live) + 1 BY <1>3, <2>1
 <2>3. SubSeq(live, l, Len(live)) \in Seq(Said) BY <2>2, Halves
 <2> QED BY <1>2, <1>6, <2>1, <2>3
<1> QED BY <1>5, <1>6

LEMMA CondensedIs ==
  ASSUME entries \in Seq(EntryRow), PathsAscend(entries), leaf \in 0 .. Len(entries),
         NEW summary \in Said, NEW after \in Seq(Said), NEW live, live = Context(entries, leaf)
  PROVE  /\ CondensedEntries(summary, after) \in Seq(Plain(entries))
         /\ CondensedEntries(summary, after) # <<>>
         /\ Keeps(live, after) =>
              /\ CondensedEntries(summary, after)
                   = <<CompactionEntry(summary, FirstKept(entries, leaf, Head(after)))>> \o
                     Says(SubSeq(after, Len(SharedWith(live, after)) + 1, Len(after)))
              /\ SubSeq(after, Len(SharedWith(live, after)) + 1, Len(after)) \in Seq(Said)
              /\ after = SharedWith(live, after) \o
                          SubSeq(after, Len(SharedWith(live, after)) + 1, Len(after))
         /\ ~Keeps(live, after) =>
              CondensedEntries(summary, after) = <<CompactionEntry(summary, NoMark)>> \o Says(after)
<1>1. live \in Seq(Said) BY RecordedIsSeq
<1>2. SharedWith(live, after) \in Seq(Said) BY <1>1, SharedIs
<1> DEFINE s == SharedWith(live, after)
           t == SubSeq(after, Len(s) + 1, Len(after))
<1>0. Len(entries) \in Nat BY LenProperties
<1>3. CASE Keeps(live, after)
 <2> DEFINE k == FirstKept(entries, leaf, Head(after))
 <2>1. s # <<>> /\ IsPrefix(s, after) BY <1>3 DEF Keeps
 <2>2. CondensedEntries(summary, after) = <<CompactionEntry(summary, k)>> \o Says(t)
   BY <2>1 DEF CondensedEntries
 <2>3. t \in Seq(Said) /\ after = s \o t BY <1>2, <2>1, PrefixIs
 <2>4. k \in Int /\ k <= Len(entries) BY FirstKeptIs
 <2> HIDE DEF k, t, s
 <2>5. CompactionEntry(summary, k) \in Plain(entries) BY <2>4, EntriesIn
 <2>6. Says(t) \in Seq(Plain(entries)) BY <2>3, SaysIs
 <2>7. /\ <<CompactionEntry(summary, k)>> \o Says(t) \in Seq(Plain(entries))
       /\ <<CompactionEntry(summary, k)>> \o Says(t) # <<>>
   BY <2>5, <2>6, PlainMore
 <2> QED BY <1>3, <2>2, <2>3, <2>7 DEF k, t, s
<1>4. CASE ~Keeps(live, after)
 <2>1. ~(s # <<>> /\ IsPrefix(s, after)) BY <1>4 DEF Keeps
 <2>2. CondensedEntries(summary, after) = <<CompactionEntry(summary, NoMark)>> \o Says(after)
   BY <2>1 DEF CondensedEntries
 <2>4. NoMark \in Int /\ NoMark <= Len(entries) BY <1>0 DEF NoMark
 <2>5. CompactionEntry(summary, NoMark) \in Plain(entries) BY <2>4, EntriesIn
 <2>6. Says(after) \in Seq(Plain(entries)) BY SaysIs
 <2>7. /\ <<CompactionEntry(summary, NoMark)>> \o Says(after) \in Seq(Plain(entries))
       /\ <<CompactionEntry(summary, NoMark)>> \o Says(after) # <<>>
   BY <2>5, <2>6, PlainMore
 <2> QED BY <1>4, <2>2, <2>7
<1> QED BY <1>3, <1>4

LEMMA CaptureIs ==
  ASSUME entries \in Seq(EntryRow), PathsAscend(entries), leaf \in 0 .. Len(entries),
         NEW ms \in Seq(Said), NEW seen \in Seq(Said)
  PROVE  /\ CaptureEntries(ms, seen) \in Seq(Plain(entries))
         /\ SummaryAt(ms) \in 0 .. Len(ms)
         /\ SummaryAt(ms) # 0 => /\ ms[SummaryAt(ms)] \in Said
                                 /\ SubSeq(ms, SummaryAt(ms) + 1, Len(ms)) \in Seq(Said)
         /\ IsPrefix(seen, ms) /\ (seen # <<>> \/ SummaryAt(ms) = 0) =>
              CaptureEntries(ms, seen) = Says(SubSeq(ms, Len(seen) + 1, Len(ms)))
         /\ SummaryAt(ms) # 0 /\ ~(IsPrefix(seen, ms) /\ seen # <<>>) =>
              CaptureEntries(ms, seen)
                = CondensedEntries(ms[SummaryAt(ms)], SubSeq(ms, SummaryAt(ms) + 1, Len(ms)))
         /\ SummaryAt(ms) = 0 /\ ~IsPrefix(seen, ms) =>
              CaptureEntries(ms, seen) = <<CheckpointReset>> \o Says(ms)
<1> DEFINE U == {k \in 1 .. Len(ms) : ms[k].role = "summary"}
           a == SummaryAt(ms)
           at == IF IsPrefix(seen, ms) /\ seen # <<>> THEN 0 ELSE a
           after == SubSeq(ms, a + 1, Len(ms))
<1>1. SelectInSeq(ms, LAMBDA m : m.role = "summary") = a
  BY DEF SelectInSeq, SummaryAt, FirstOf
<1>2. U \in SUBSET (1 .. Len(ms)) /\ Len(ms) \in Nat /\ a = FirstOf(U)
  BY LenProperties DEF SummaryAt
<1>3. a \in 0 .. Len(ms)
 <2> HIDE DEF U
 <2> QED BY <1>2, FirstIs
<1>4. CaptureEntries(ms, seen) =
        CASE at # 0 -> CondensedEntries(ms[at], SubSeq(ms, at + 1, Len(ms)))
          [] at = 0 /\ ~IsPrefix(seen, ms) -> <<CheckpointReset>> \o Says(ms)
          [] OTHER -> Says(SubSeq(ms, Len(seen) + 1, Len(ms)))
  BY <1>1 DEF CaptureEntries
<1> HIDE DEF a
<1>5. after \in Seq(Said)
 <2>1. a + 1 \in 1 .. Len(ms) + 1 BY <1>2, <1>3
 <2> QED BY <2>1, Halves
<1>6. a # 0 => ms[a] \in Said BY <1>2, <1>3, LenProperties, ElementOfSeq
<1>7. CASE IsPrefix(seen, ms) /\ (seen # <<>> \/ a = 0)
 <2>1. at = 0 BY <1>7
 <2>2. CaptureEntries(ms, seen) = Says(SubSeq(ms, Len(seen) + 1, Len(ms)))
   BY <1>4, <1>7, <2>1
 <2>3. SubSeq(ms, Len(seen) + 1, Len(ms)) \in Seq(Said) BY <1>7, PrefixIs
 <2>4. Says(SubSeq(ms, Len(seen) + 1, Len(ms))) \in Seq(Plain(entries)) BY <2>3, SaysIs
 <2> QED BY <1>3, <1>5, <1>6, <1>7, <2>2, <2>4 DEF a
<1>8. CASE a # 0 /\ ~(IsPrefix(seen, ms) /\ seen # <<>>)
 <2>1. at = a BY <1>8
 <2>2. CaptureEntries(ms, seen) = CondensedEntries(ms[a], after) BY <1>4, <1>8, <2>1
 <2> HIDE DEF after
 <2>3. CondensedEntries(ms[a], after) \in Seq(Plain(entries))
   BY <1>5, <1>6, <1>8, CondensedIs
 <2> QED BY <1>3, <1>5, <1>6, <1>8, <2>2, <2>3 DEF a, after
<1>9. CASE a = 0 /\ ~IsPrefix(seen, ms)
 <2>1. at = 0 BY <1>9
 <2>2. CaptureEntries(ms, seen) = <<CheckpointReset>> \o Says(ms) BY <1>4, <1>9, <2>1
 <2>3. CheckpointReset \in Plain(entries) /\ Says(ms) \in Seq(Plain(entries))
   BY EntriesIn, SaysIs
 <2>4. <<CheckpointReset>> \o Says(ms) \in Seq(Plain(entries)) BY <2>3, PlainMore
 <2> QED BY <1>3, <1>5, <1>6, <1>9, <2>2, <2>4 DEF a
<1> QED BY <1>7, <1>8, <1>9

-----------------------------------------------------------------------------
(* Types, and room for the threads: each operation that may still seed a    *)
(* thread has a number left for it.                                         *)

Places == [leaf : Nat, thread : Thread \cup {None}, current : Thread \cup {None}]
OpKinds == {"none", "clear", "branch", "compact", "turn"}
OpRec ==
  [kind : OpKinds, pc : PCs, on : Thread \cup {None}, seed : Seq(Said), base : Seq(Said),
   tail : Seq(Said), summary : SUBSET Nat, first : Nat, last : Nat, prior : Places,
   cancel : BOOLEAN]

Jobs == [state : {"unborn", "attached", "detached"}, entry : Nat]

LedgerTyped ==
  entries \in Seq(EntryRow) /\ PathsAscend(entries) /\ leaf \in 0 .. Len(entries)

ThreadsTyped ==
  /\ current \in Thread \cup {None} /\ thread \in Thread /\ rows \in Nat
  /\ cursor \in [Thread -> Seq(Said)] /\ graph \in [Thread -> Seq(Said)]
  /\ checkpoints \in SUBSET Thread

BoundsTyped ==
  spoken \in Nat /\ submitted \in 0 .. MaxSubmissions /\ crashes \in 0 .. MaxCrashes

Typed ==
  /\ LedgerTyped /\ ThreadsTyped /\ BoundsTyped
  /\ op \in [Task -> OpRec] /\ known \in BOOLEAN /\ job \in [Worker -> Jobs]

Weight(o) ==
  IF o.pc \in {"reading", "writing", "activating"} THEN (IF o.kind = "turn" THEN 2 ELSE 1)
  ELSE IF o.pc \in {"asleep", "stopping", "summarising", "streaming", "capturing", "closing"} THEN 1
  ELSE IF o.kind = "turn" /\ o.pc \in {"announcing", "announced"} THEN 1
  ELSE 0

Weights(f) == Weight(f["fg"]) + Weight(f["side"]) + Weight(f["idle"])

\* What an operation is, by how far it is, with r threads.
OpSound(o, r) ==
  /\ o.pc \in {"reading", "writing", "activating", "streaming"} => o.on \in Thread /\ o.on <= r
  /\ o.pc \in {"asleep", "stopping", "summarising"} => o.kind = "compact"
  /\ o.prior.thread <= r
  /\ o.pc \in {"reading", "writing", "activating"} /\ o.kind # "turn" =>
       /\ o.kind # "none" /\ o.prior.thread \in Thread
       /\ o.first = 0 \/ (o.prior.leaf < o.first /\ o.first <= o.last)

RoomFor(f, r, t, s) ==
  /\ r + Weights(f) <= 1 + 2 * s
  /\ r >= 1 /\ t <= r
  /\ \A p \in Task : OpSound(f[p], r)

Room == RoomFor(op, rows, thread, submitted)

JobsSound ==
  \A w \in Worker : /\ job[w].state = "unborn" => job[w].entry = 0
                    /\ job[w].state = "attached" => job[w].entry # 0

Sound == Typed /\ Room /\ JobsSound

LEMMA Threads ==
  /\ MaxSubmissions \in Nat /\ MaxCrashes \in Nat /\ MaxEntries \in Nat /\ MaxMessages \in Nat
  /\ Thread = 0 .. 2 * MaxSubmissions + MaxCrashes
  /\ 0 \in Thread /\ Thread \subseteq Nat /\ None \notin Thread /\ None = -1
  /\ "none" \notin Worker
<1>1. /\ MaxSubmissions \in Nat /\ MaxCrashes \in Nat /\ MaxEntries \in Nat /\ MaxMessages \in Nat
      /\ "none" \notin Worker
  BY BoundsAssumption DEF BoundsAssumption
<1> QED BY <1>1 DEF Thread, None

LEMMA IdleIs == Idle \in OpRec /\ Weight(Idle) = 0 /\ \A r \in Nat : OpSound(Idle, r)
<1>1. <<>> \in Seq(Said) BY EmptySeq
<1>2. [leaf |-> 0, thread |-> None, current |-> None] \in Places BY DEF Places
<1>3. Idle \in OpRec BY <1>1, <1>2 DEF Idle, OpRec, OpKinds, PCs
<1>4. Weight(Idle) = 0 /\ \A r \in Nat : OpSound(Idle, r)
  BY Threads DEF Idle, Weight, OpSound, None
<1> QED BY <1>3, <1>4

LEMMA WeightIs == \A o : Weight(o) \in 0 .. 2
  BY DEF Weight

LEMMA WeightsOfOne ==
  ASSUME NEW f, NEW g, NEW p \in Task, \A q \in Task \ {p} : Weight(g[q]) = Weight(f[q])
  PROVE  /\ Weights(g) = Weights(f) - Weight(f[p]) + Weight(g[p])
         /\ Weights(f) \in Nat /\ Weights(g) \in Nat /\ Weight(f[p]) <= Weights(f)
<1>1. /\ Weight(f["fg"]) \in Nat /\ Weight(f["side"]) \in Nat /\ Weight(f["idle"]) \in Nat
      /\ Weight(g["fg"]) \in Nat /\ Weight(g["side"]) \in Nat /\ Weight(g["idle"]) \in Nat
  BY WeightIs
<1>2. p \in {"fg", "side", "idle"} /\ {"fg", "side", "idle"} = Task BY DEF Task
<1>3. CASE p = "fg"
 <2>1. Weight(g["side"]) = Weight(f["side"]) /\ Weight(g["idle"]) = Weight(f["idle"])
   BY <1>2, <1>3
 <2> QED BY <1>1, <1>3, <2>1 DEF Weights
<1>4. CASE p = "side"
 <2>1. Weight(g["fg"]) = Weight(f["fg"]) /\ Weight(g["idle"]) = Weight(f["idle"])
   BY <1>2, <1>4
 <2> QED BY <1>1, <1>4, <2>1 DEF Weights
<1>5. CASE p = "idle"
 <2>1. Weight(g["fg"]) = Weight(f["fg"]) /\ Weight(g["side"]) = Weight(f["side"])
   BY <1>2, <1>5
 <2> QED BY <1>1, <1>5, <2>1 DEF Weights
<1> QED BY <1>2, <1>3, <1>4, <1>5

LEMMA InitSound == Init => Sound
<1> SUFFICES ASSUME Init PROVE Sound OBVIOUS
<1> USE DEF Init
<1>1. <<>> \in Seq(EntryRow) /\ <<>> \in Seq(Said) /\ Len(<<>>) = 0 /\ DOMAIN <<>> = {}
  BY EmptySeq
<1>2. LedgerTyped BY <1>1 DEF LedgerTyped, PathsAscend
<1>3. ThreadsTyped BY <1>1, Threads DEF ThreadsTyped
<1>4. BoundsTyped BY Threads DEF BoundsTyped
<1>5. op \in [Task -> OpRec] BY IdleIs
<1>6. job \in [Worker -> Jobs] /\ JobsSound BY DEF Jobs, JobsSound
<1>7. Typed BY <1>2, <1>3, <1>4, <1>5, <1>6 DEF Typed
<1>8. Room
 <2>1. op["fg"] = Idle /\ op["side"] = Idle /\ op["idle"] = Idle /\ \A p \in Task : op[p] = Idle
   BY DEF Task
 <2>2. Weights(op) = 0 BY <2>1, IdleIs DEF Weights
 <2>3. \A p \in Task : OpSound(op[p], rows) BY <2>1, IdleIs
 <2> QED BY <2>2, <2>3 DEF Room, RoomFor
<1> QED BY <1>6, <1>7, <1>8 DEF Sound

-----------------------------------------------------------------------------
(* The ledger and the tree that LedgerWriters has of it.                    *)

LEMMA TreeIs ==
  ASSUME NEW es \in Seq(EntryRow)
  PROVE  /\ Len(Tree(es)) = Len(es) /\ DOMAIN Tree(es) = 1 .. Len(es) /\ Len(es) \in Nat
         /\ Tree(es) \in Seq([of : SUBSET Worker, above : SUBSET Nat])
         /\ \A i \in 1 .. Len(es) :
              Tree(es)[i] = [of |-> {es[i].job} \ {"none"}, above |-> ToSet(es[i].path)]
         /\ \A at \in 0 .. Len(es) : Writers!Above(Tree(es), at) = ToSet(Path(es, at))
<1> DEFINE R(i) == [of |-> {es[i].job} \ {"none"}, above |-> ToSet(es[i].path)]
<1>1. Len(es) \in Nat /\ DOMAIN es = 1 .. Len(es) BY LenProperties
<1>2. Tree(es) = [i \in 1 .. Len(es) |-> R(i)] BY <1>1 DEF Tree
<1>3. ASSUME NEW i \in 1 .. Len(es) PROVE R(i) \in [of : SUBSET Worker, above : SUBSET Nat]
 <2>0. es[i] \in EntryRow BY <1>1, ElementOfSeq
 <2>1. es[i].job \in Worker \cup {"none"} /\ es[i].path \in Seq(Nat) BY <2>0 DEF EntryRow
 <2>2. ToSet(es[i].path) \in SUBSET Nat BY <2>1, SetOfSeq
 <2> QED BY <2>1, <2>2
<1> HIDE DEF R
<1>4. Tree(es) \in Seq([of : SUBSET Worker, above : SUBSET Nat]) /\ Len(Tree(es)) = Len(es)
  BY <1>1, <1>2, <1>3, IsASeq, LenProperties
<1>5. ASSUME NEW at \in 0 .. Len(es) PROVE Writers!Above(Tree(es), at) = ToSet(Path(es, at))
 <2>1. CASE at = 0 BY <2>1, SetOfNone DEF Writers!Above, Path
 <2>2. CASE at # 0
  <3>1. at \in 1 .. Len(es) BY <1>1, <2>2
  <3>2. Tree(es)[at] = R(at) BY <1>2, <3>1
  <3> QED BY <2>2, <3>2 DEF Writers!Above, Path, R
 <2> QED BY <2>1, <2>2
<1>6. \A i \in 1 .. Len(es) : Tree(es)[i] = R(i) BY <1>2
<1> QED BY <1>1, <1>2, <1>4, <1>5, <1>6 DEF R

\* Entries without a run grow the tree at the leaf.
LEMMA TreeGrows ==
  ASSUME NEW es \in Seq(EntryRow), PathsAscend(es), NEW at \in 0 .. Len(es),
         NEW new \in Seq(Plain(es)), NEW fs, fs = AppendMany(es, at, new)
  PROVE  Tree(fs) = Writers!Grown(Tree(es), at, Len(new))
<1> DEFINE n == Len(es)
           k == Len(new)
           G(i) == IF i <= n THEN Tree(es)[i]
                   ELSE [of |-> {}, above |-> Writers!Above(Tree(es), at) \cup (n + 1 .. i)]
<1>1. new \in Seq(NewIn(es)) /\ \A j \in 1 .. k : new[j].job = "none" BY PlainSeq
<1>2. /\ fs \in Seq(EntryRow) /\ Len(fs) = n + k /\ n \in Nat /\ k \in Nat
      /\ \A i \in 1 .. n : fs[i] = es[i]
      /\ \A j \in 1 .. k : /\ fs[n + j].job = new[j].job
                           /\ ToSet(fs[n + j].path) = ToSet(Path(es, at)) \cup (n + 1 .. n + j)
  BY <1>1, ManyIs, SMTT(30) DEF Extends
<1>3. /\ Len(Tree(es)) = n /\ Writers!Above(Tree(es), at) = ToSet(Path(es, at))
      /\ \A i \in 1 .. n :
           Tree(es)[i] = [of |-> {es[i].job} \ {"none"}, above |-> ToSet(es[i].path)]
  BY TreeIs
<1>4. /\ DOMAIN fs = 1 .. n + k
      /\ Tree(fs) = [i \in 1 .. n + k |->
                       [of |-> {fs[i].job} \ {"none"}, above |-> ToSet(fs[i].path)]]
  BY <1>2, LenProperties DEF Tree
<1>5. Writers!Grown(Tree(es), at, k) = [i \in 1 .. n + k |-> G(i)] BY <1>3 DEF Writers!Grown
<1>6. ASSUME NEW i \in 1 .. n + k
      PROVE  [of |-> {fs[i].job} \ {"none"}, above |-> ToSet(fs[i].path)] = G(i)
 <2>1. CASE i <= n
  <3>1. i \in 1 .. n BY <1>2, <2>1
  <3> QED BY <1>2, <1>3, <2>1, <3>1
 <2>2. CASE ~(i <= n)
  <3>1. i - n \in 1 .. k /\ n + (i - n) = i BY <1>2, <2>2
  <3>2. fs[i].job = "none" /\ ToSet(fs[i].path) = ToSet(Path(es, at)) \cup (n + 1 .. i)
    BY <1>1, <1>2, <3>1
  <3> QED BY <1>3, <2>2, <3>2
 <2> QED BY <2>1, <2>2
<1> HIDE DEF G
<1> QED BY <1>4, <1>5, <1>6

-----------------------------------------------------------------------------
(* Pieces of the steps.                                                    *)

\* More entries at the leaf.
Appends(new) ==
  /\ entries' = AppendMany(entries, leaf, new)
  /\ leaf' = End(entries, leaf, new)

LEMMA AppendsIs ==
  ASSUME LedgerTyped, NEW new \in Seq(NewIn(entries)), Appends(new)
  PROVE  /\ LedgerTyped' /\ Extends(entries', entries)
         /\ Len(entries') = Len(entries) + Len(new) /\ Len(entries) \in Nat /\ Len(new) \in Nat
<1>1. /\ Extends(entries', entries) /\ Len(entries') = Len(entries) + Len(new)
      /\ Len(entries) \in Nat /\ Len(new) \in Nat
      /\ End(entries, leaf, new) \in 0 .. Len(entries')
  BY ManyIs DEF LedgerTyped, Appends
<1> QED BY <1>1 DEF LedgerTyped, Appends, Extends

\* Seen from the tree alone.
LEMMA AppendsWrites ==
  ASSUME LedgerTyped, NEW new \in Seq(Plain(entries)), Appends(new)
  PROVE  /\ Tree(entries)' = Writers!Grown(Tree(entries), leaf, Len(new))
         /\ leaf' = IF Len(new) = 0 THEN leaf ELSE Len(Tree(entries)) + Len(new)
         /\ Len(new) = 0 => Tree(entries)' = Tree(entries)
<1>1. /\ entries \in Seq(EntryRow) /\ PathsAscend(entries) /\ leaf \in 0 .. Len(entries)
      /\ entries' = AppendMany(entries, leaf, new) /\ leaf' = End(entries, leaf, new)
  BY DEF LedgerTyped, Appends
<1>2. Tree(entries') = Writers!Grown(Tree(entries), leaf, Len(new)) BY <1>1, TreeGrows
<1>3. Len(Tree(entries)) = Len(entries) BY <1>1, TreeIs
<1>4. new = <<>> <=> Len(new) = 0 BY EmptySeq
<1>5. leaf' = IF Len(new) = 0 THEN leaf ELSE Len(Tree(entries)) + Len(new)
  BY <1>1, <1>3, <1>4 DEF End
<1>6. ASSUME Len(new) = 0 PROVE Tree(entries') = Tree(entries)
 <2>1. entries' = entries BY <1>1, <1>4, <1>6, ManyNone
 <2> QED BY <2>1
<1>7. Tree(entries)' = Tree(entries') BY DEF Tree
<1> QED BY <1>2, <1>5, <1>6, <1>7

LEMMA CaptureAppends ==
  ASSUME Typed, NEW t \in Thread, Capture(t)
  PROVE  /\ \E new \in Seq(Plain(entries)) : Appends(new) /\ Len(new) \in 0 .. MaxEntries
         /\ cursor' \in [Thread -> Seq(Said)]
<1>1. /\ LedgerTyped /\ graph[t] \in Seq(Said) /\ cursor[t] \in Seq(Said)
      /\ cursor \in [Thread -> Seq(Said)] /\ graph \in [Thread -> Seq(Said)]
  BY DEF Typed, ThreadsTyped
<1>2. Len(entries) \in Nat /\ MaxEntries \in Nat
  BY <1>1, LenProperties, Threads DEF LedgerTyped
<1>3. CASE t < rows
 <2> DEFINE new == CaptureEntries(graph[t], cursor[t])
 <2>1. new \in Seq(Plain(entries)) BY <1>1, CaptureIs DEF LedgerTyped
 <2>2. /\ Len(entries) + Len(new) <= MaxEntries
       /\ entries' = AppendMany(entries, leaf, new)
       /\ leaf' = IF new = <<>> THEN leaf ELSE Len(entries')
       /\ cursor' = [cursor EXCEPT ![t] = graph[t]]
   BY <1>3 DEF Capture
 <2> HIDE DEF new
 <2>3. Len(new) \in Nat BY <2>1, LenProperties
 <2>4. Len(entries') = Len(entries) + Len(new)
   BY <1>1, <2>1, <2>2, PlainSeq, ManyIs DEF LedgerTyped
 <2>5. Appends(new) BY <2>2, <2>4 DEF Appends, End
 <2>6. Len(new) \in 0 .. MaxEntries BY <1>2, <2>2, <2>3
 <2> QED BY <1>1, <2>1, <2>2, <2>5, <2>6
<1>4. CASE ~(t < rows)
 <2>1. UNCHANGED <<entries, leaf, cursor>> BY <1>4 DEF Capture, ledgerVars
 <2>2. <<>> \in Seq(Plain(entries)) /\ Len(<<>>) = 0 BY EmptySeq
 <2>3. Appends(<<>>) BY <1>1, <2>1, ManyNone DEF Appends, End, LedgerTyped
 <2>4. Len(<<>>) \in 0 .. MaxEntries BY <1>2
 <2>5. \E new \in Seq(Plain(entries)) : Appends(new) /\ Len(new) \in 0 .. MaxEntries
   BY <2>2, <2>3, <2>4, Zenon
 <2> QED BY <1>1, <2>1, <2>5
<1> QED BY <1>3, <1>4

\* An operation goes on, with no more room than it had.
LEMMA OpGoesOn ==
  ASSUME NEW f \in [Task -> OpRec], NEW r \in Nat, NEW t \in Thread, NEW s \in Nat,
         RoomFor(f, r, t, s), NEW p \in Task, NEW o \in OpRec, NEW g, g = [f EXCEPT ![p] = o],
         NEW r2 \in Nat, NEW t2 \in Thread, NEW s2 \in Nat, r <= r2, t2 <= r2,
         r2 + Weight(o) <= r + Weight(f[p]) + 2 * (s2 - s), OpSound(o, r2)
  PROVE  g \in [Task -> OpRec] /\ RoomFor(g, r2, t2, s2)
<1>1. g \in [Task -> OpRec] OBVIOUS
<1>2. \A q \in Task \ {p} : g[q] = f[q] OBVIOUS
<1>3. g[p] = o OBVIOUS
<1>4. \A q \in Task \ {p} : Weight(g[q]) = Weight(f[q]) BY <1>2
<1>5. /\ Weights(g) = Weights(f) - Weight(f[p]) + Weight(g[p])
      /\ Weights(f) \in Nat /\ Weights(g) \in Nat
  BY <1>4, WeightsOfOne
<1>6. Weight(o) \in Nat /\ Weight(f[p]) \in Nat BY WeightIs
<1>7. r + Weights(f) <= 1 + 2 * s /\ r >= 1 BY DEF RoomFor
<1>8. r2 + Weights(g) <= 1 + 2 * s2 BY <1>3, <1>5, <1>6, <1>7
<1>9. ASSUME NEW q \in Task PROVE OpSound(g[q], r2)
 <2>1. CASE q = p BY <1>3, <2>1
 <2>2. CASE q # p
  <3>1. g[q] = f[q] /\ OpSound(f[q], r) /\ f[q] \in OpRec BY <1>2, <2>2 DEF RoomFor
  <3>2. f[q].on \in Thread \cup {None} /\ f[q].prior.thread \in Thread \cup {None}
    BY <3>1 DEF OpRec, Places
  <3>3. f[q].on \in Int /\ f[q].prior.thread \in Int BY <3>2, Threads
  <3>4. OpSound(f[q], r2) BY <3>1, <3>3 DEF OpSound
  <3> QED BY <3>1, <3>4
 <2> QED BY <2>1, <2>2
<1> QED BY <1>1, <1>7, <1>8, <1>9 DEF RoomFor

\* What the writers of the tree see of an operation that goes on.
LEMMA BatchesOfOne ==
  ASSUME op \in [Task -> OpRec], NEW p \in Task, NEW o, op' = [op EXCEPT ![p] = o]
  PROVE  Batches(op)' = [Batches(op) EXCEPT ![p] = BatchOf(o)]
<1>1. op'[p] = o /\ \A q \in Task \ {p} : op'[q] = op[q] OBVIOUS
<1>2. \A q \in Task : BatchOf(op'[q]) = IF q = p THEN BatchOf(o) ELSE BatchOf(op[q]) BY <1>1
<1>3. Batches(op)' = [q \in Task |-> BatchOf(op'[q])] BY DEF Batches
<1>4. [Batches(op) EXCEPT ![p] = BatchOf(o)]
        = [q \in Task |-> IF q = p THEN BatchOf(o) ELSE BatchOf(op[q])]
  BY DEF Batches
<1> HIDE DEF BatchOf
<1> QED BY <1>2, <1>3, <1>4

-----------------------------------------------------------------------------
(* The steps of LedgerWriters, of the tree that SessionTree has.           *)

LEMMA SeenCaptures ==
  ASSUME NEW n \in 1 .. MaxEntries, UNCHANGED <<BatchSeen, job>>,
         TreeSeen' = Writers!Grown(TreeSeen, leaf, n), leaf' = Len(TreeSeen) + n
  PROVE  Writers!Captures
<1>1. leaf' = IF n = 0 THEN leaf ELSE Len(TreeSeen) + n BY Threads
<1> QED BY <1>1 DEF Writers!Captures, Writers!Write

LEMMA SeenBegins ==
  ASSUME NEW p \in Task, ~BatchSeen[p].open, NEW n \in 1 .. MaxEntries,
         BatchSeen' = [BatchSeen EXCEPT ![p] = [open |-> TRUE, first |-> Len(TreeSeen) + 1,
                                                size |-> n, from |-> leaf]],
         TreeSeen' = Writers!Grown(TreeSeen, leaf, n), leaf' = Len(TreeSeen) + n, UNCHANGED job
  PROVE  Writers!Begins(p)
<1>1. leaf' = IF n = 0 THEN leaf ELSE Len(TreeSeen) + n BY Threads
<1> QED BY <1>1 DEF Writers!Begins, Writers!Write

LEMMA SeenBranches ==
  ASSUME NEW p \in Task, ~BatchSeen[p].open,
         BatchSeen' = [BatchSeen EXCEPT ![p] = [open |-> TRUE, first |-> 0, size |-> 0,
                                                from |-> leaf]],
         leaf' \in DOMAIN TreeSeen, UNCHANGED <<TreeSeen, job>>
  PROVE  Writers!Branches(p)
  BY DEF Writers!Branches

LEMMA SeenEnds ==
  ASSUME NEW p \in Task, BatchSeen[p].open,
         BatchSeen' = [BatchSeen EXCEPT ![p] = Writers!Nothing],
         UNCHANGED <<TreeSeen, leaf, job>>
  PROVE  Writers!Ends(p)
  BY DEF Writers!Ends

LEMMA SeenTakesBack ==
  ASSUME NEW p \in Task, BatchSeen[p].open,
         BatchSeen[p].size = 0 \/ Len(TreeSeen) = BatchSeen[p].first + BatchSeen[p].size - 1,
         BatchSeen[p].from <= Len(TreeSeen),
         BatchSeen' = [BatchSeen EXCEPT ![p] = Writers!Nothing],
         TreeSeen' = SubSeq(TreeSeen, 1, Len(TreeSeen) - BatchSeen[p].size),
         leaf' = BatchSeen[p].from, UNCHANGED job
  PROVE  Writers!TakesBack(p)
  BY DEF Writers!TakesBack

LEMMA SeenLeaves ==
  ASSUME NEW w \in Worker, job[w].state = "attached",
         job[w].entry \notin Writers!Above(TreeSeen, leaf),
         job' = [job EXCEPT ![w].state = "detached"], UNCHANGED <<TreeSeen, leaf, BatchSeen>>
  PROVE  Writers!Leaves(w)
  BY DEF Writers!Leaves

LEMMA SeenPersists ==
  ASSUME NEW w \in Worker, NEW id, id = Len(TreeSeen) + 1,
         \/ job[w].state = "unborn"
         \/ job[w].state = "attached" /\ job[w].entry \in Writers!Above(TreeSeen, leaf),
         TreeSeen' = Append(TreeSeen, [of |-> {w},
                                       above |-> Writers!Above(TreeSeen, leaf) \cup {id}]),
         leaf' = id, job' = [job EXCEPT ![w] = [state |-> "attached", entry |-> id]],
         UNCHANGED BatchSeen
  PROVE  Writers!Persists(w)
  BY DEF Writers!Persists

LEMMA SeenRestarts ==
  ASSUME NEW n \in 0 .. MaxEntries, BatchSeen' = [p \in Task |-> Writers!Nothing],
         TreeSeen' = Writers!Grown(TreeSeen, leaf, n),
         leaf' = IF n = 0 THEN leaf ELSE Len(TreeSeen) + n,
         job' \in [Worker -> [state : {"unborn", "attached", "detached"},
                              entry : 0 .. Len(TreeSeen')]],
         \A w \in Worker :
           \/ \E e \in Writers!Above(TreeSeen', leaf') :
                TreeSeen'[e].of = {w} /\ job'[w] = [state |-> "attached", entry |-> e]
           \/ job[w].state = "unborn" /\ job'[w] = job[w]
           \/ job'[w] = [state |-> "detached", entry |-> 0]
  PROVE  Writers!Restarts
<1>1. \E k \in 0 .. MaxEntries : Writers!Write(k) BY DEF Writers!Write
<1>2. \A w \in Worker : Writers!Found(w) BY DEF Writers!Found
<1> QED BY <1>1, <1>2 DEF Writers!Restarts

LEMMA SeenSame ==
  ASSUME UNCHANGED <<TreeSeen, leaf, BatchSeen, job>>
  PROVE  UNCHANGED Writers!vars
  BY DEF Writers!vars

-----------------------------------------------------------------------------
(* Each step keeps the types and the room, and is one that LedgerWriters has. *)

Refines == UNCHANGED Writers!vars \/ Writers!Next

LEMMA Facts ==
  ASSUME Sound
  PROVE  /\ op \in [Task -> OpRec] /\ rows \in Nat /\ submitted \in Nat /\ spoken \in Nat
         /\ submitted <= MaxSubmissions /\ crashes \in Nat /\ crashes <= MaxCrashes
         /\ thread \in Thread /\ thread <= rows /\ current \in Thread \cup {None}
         /\ RoomFor(op, rows, thread, submitted)
         /\ \A p \in Task : op[p] \in OpRec /\ OpSound(op[p], rows)
         /\ LedgerTyped /\ entries \in Seq(EntryRow) /\ PathsAscend(entries)
         /\ leaf \in 0 .. Len(entries) /\ Len(entries) \in Nat /\ leaf \in Nat
         /\ graph \in [Thread -> Seq(Said)] /\ cursor \in [Thread -> Seq(Said)]
         /\ checkpoints \in SUBSET Thread /\ known \in BOOLEAN /\ job \in [Worker -> Jobs]
<1>1. /\ LedgerTyped /\ ThreadsTyped /\ BoundsTyped /\ op \in [Task -> OpRec]
      /\ known \in BOOLEAN /\ job \in [Worker -> Jobs] /\ RoomFor(op, rows, thread, submitted)
  BY DEF Sound, Typed, Room
<1>2. Len(entries) \in Nat BY <1>1, LenProperties DEF LedgerTyped
<1> QED BY <1>1, <1>2 DEF LedgerTyped, ThreadsTyped, BoundsTyped, RoomFor

\* What a step does to one operation, when threads, ledger and runs stay typed.
LEMMA OpStep ==
  ASSUME Sound, NEW p \in Task, NEW o \in OpRec, op' = [op EXCEPT ![p] = o],
         LedgerTyped', ThreadsTyped', BoundsTyped', known' \in BOOLEAN,
         rows <= rows', thread' <= rows',
         rows' + Weight(o) <= rows + Weight(op[p]) + 2 * (submitted' - submitted),
         OpSound(o, rows'), job' \in [Worker -> Jobs], JobsSound'
  PROVE  Sound' /\ BatchSeen' = [BatchSeen EXCEPT ![p] = BatchOf(o)]
<1>1. /\ op \in [Task -> OpRec] /\ rows \in Nat /\ submitted \in Nat /\ thread \in Thread
      /\ RoomFor(op, rows, thread, submitted)
  BY Facts
<1>2. rows' \in Nat /\ thread' \in Thread /\ submitted' \in Nat
  BY DEF ThreadsTyped, BoundsTyped
<1>3. op' \in [Task -> OpRec] /\ RoomFor(op', rows', thread', submitted')
  BY <1>1, <1>2, OpGoesOn
<1>4. Sound' BY <1>3 DEF Sound, Typed, Room
<1>5. BatchSeen' = [BatchSeen EXCEPT ![p] = BatchOf(o)] BY <1>1, BatchesOfOne DEF BatchSeen
<1> QED BY <1>4, <1>5

\* A batch that does not change is the one there was.
LEMMA SameBatch ==
  ASSUME NEW p \in Task, NEW o, BatchOf(o) = BatchOf(op[p]),
         BatchSeen' = [BatchSeen EXCEPT ![p] = BatchOf(o)]
  PROVE  BatchSeen' = BatchSeen
<1>1. BatchSeen[p] = BatchOf(op[p]) /\ DOMAIN BatchSeen = Task BY DEF BatchSeen, Batches
<1>2. BatchSeen = [q \in Task |-> BatchSeen[q]] BY DEF BatchSeen, Batches
<1> QED BY <1>1, <1>2

LEMMA BatchAt == \A p \in Task : BatchSeen[p] = BatchOf(op[p])
  BY DEF BatchSeen, Batches

LEMMA NothingIs ==
  /\ BatchOf(Idle) = Writers!Nothing
  /\ \A o : ~(o.pc \in {"reading", "writing", "activating"} /\ o.kind # "turn") =>
       BatchOf(o) = Writers!Nothing /\ ~BatchOf(o).open
  /\ \A o : o.pc \in {"reading", "writing", "activating"} /\ o.kind # "turn" =>
       BatchOf(o) = [open |-> TRUE, first |-> o.first,
                     size |-> IF o.first # 0 THEN o.last - o.first + 1 ELSE 0,
                     from |-> o.prior.leaf]
<1>1. \A o : ~(o.pc \in {"reading", "writing", "activating"} /\ o.kind # "turn") =>
         BatchOf(o) = Writers!Nothing /\ ~BatchOf(o).open
  BY DEF BatchOf, Writers!Nothing
<1>2. ~(Idle.pc \in {"reading", "writing", "activating"}) BY DEF Idle
<1>3. \A o : o.pc \in {"reading", "writing", "activating"} /\ o.kind # "turn" =>
         BatchOf(o) = [open |-> TRUE, first |-> o.first,
                       size |-> IF o.first # 0 THEN o.last - o.first + 1 ELSE 0,
                       from |-> o.prior.leaf]
  BY DEF BatchOf
<1> QED BY <1>1, <1>2, <1>3

LEMMA Weighed ==
  ASSUME NEW p \in Task
  PROVE  Weight(op[p]) <= Weights(op) /\ Weight(op[p]) \in Nat /\ Weights(op) \in Nat
<1>1. \A q \in Task \ {p} : Weight(op[q]) = Weight(op[q]) OBVIOUS
<1> QED BY <1>1, WeightsOfOne, WeightIs

LEMMA RoomLeft ==
  ASSUME NEW r \in Nat, NEW all \in Nat, NEW one \in Nat, NEW s \in Nat, NEW s2 \in Nat,
         r + all <= 1 + 2 * s, one <= all, 1 <= one + 2 * (s2 - s)
  PROVE  r <= 2 * s2
  OBVIOUS

LEMMA RoomFits ==
  ASSUME NEW r \in Nat, NEW s \in Nat, NEW m \in Nat, NEW c \in Nat, r <= 2 * s, s <= m
  PROVE  r \in 0 .. 2 * m + c
  OBVIOUS

\* What a submission brings pays for the seat it takes.
LEMMA SeatPaid ==
  ASSUME NEW r \in Nat, NEW w \in Nat, NEW s \in Nat, NEW t \in Nat, 1 <= w + 2 * (t - s)
  PROVE  r + 1 <= r + w + 2 * (t - s)
  OBVIOUS

\* The leaf moves, and seeding begins.
LEMMA MoveStep ==
  ASSUME Sound, NEW p \in Task, NEW record \in OpRec, NEW es \in Seq(EntryRow), PathsAscend(es),
         NEW at \in 0 .. Len(es), Move(p, record, es, at), BoundsTyped', submitted <= submitted',
         1 <= Weight(op[p]) + 2 * (submitted' - submitted),
         record.kind \in {"clear", "branch", "compact"},
         record.first = 0 \/ (leaf < record.first /\ record.first <= record.last)
  PROVE  /\ Sound'
         /\ BatchSeen' = [BatchSeen EXCEPT ![p] =
                            [open |-> TRUE, first |-> record.first,
                             size |-> IF record.first # 0 THEN record.last - record.first + 1 ELSE 0,
                             from |-> leaf]]
<1>1. /\ op \in [Task -> OpRec] /\ rows \in Nat /\ submitted \in Nat /\ thread \in Thread
      /\ current \in Thread \cup {None} /\ thread <= rows /\ leaf \in Nat
      /\ RoomFor(op, rows, thread, submitted) /\ checkpoints \in SUBSET Thread
      /\ graph \in [Thread -> Seq(Said)] /\ cursor \in [Thread -> Seq(Said)]
      /\ known \in BOOLEAN /\ job \in [Worker -> Jobs]
  BY Facts
<1>2. submitted' \in Nat /\ submitted' <= MaxSubmissions /\ MaxSubmissions \in Nat /\ MaxCrashes \in Nat
      /\ Thread = 0 .. 2 * MaxSubmissions + MaxCrashes
  BY Threads DEF BoundsTyped
<1> DEFINE t == NextThread
<1>3. rows <= 2 * submitted'
 <2>1. rows + Weights(op) <= 1 + 2 * submitted BY <1>1 DEF RoomFor
 <2>2. Weight(op[p]) <= Weights(op) /\ Weight(op[p]) \in Nat /\ Weights(op) \in Nat
   BY Weighed
 <2>3. 1 <= Weight(op[p]) + 2 * (submitted' - submitted) OBVIOUS
 <2>4. rows \in Nat /\ submitted \in Nat /\ submitted' \in Nat BY <1>1, <1>2
 <2> QED BY <2>1, <2>2, <2>3, <2>4, RoomLeft
<1>4. t \in Thread /\ t <= rows
 <2>1. rows \in Thread
  <3>1. rows \in 0 .. 2 * MaxSubmissions + MaxCrashes BY <1>1, <1>2, <1>3, RoomFits
  <3> QED BY <1>1, <1>2, <3>1
 <2> QED BY <1>1, <2>1 DEF NextThread
<1> HIDE DEF t
<1>5. Context(es, at) \in Seq(Said) BY RecordedIsSeq
<1> DEFINE o == [[record EXCEPT !.prior = Prior] EXCEPT !.pc = "reading", !.on = t,
                                                        !.seed = Context(es, at)]
<1>6. /\ entries' = es /\ leaf' = at /\ current' = None /\ thread' = t
      /\ op' = [op EXCEPT ![p] = o]
      /\ checkpoints' = checkpoints \ {t} /\ graph' = [graph EXCEPT ![t] = <<>>]
      /\ UNCHANGED <<rows, cursor, known, job>>
  BY DEF Move, StartSeed, t
<1>7. Prior \in Places BY <1>1 DEF Prior, Places
<1>8. /\ o.pc = "reading" /\ o.on = t /\ o.prior = Prior /\ o.kind = record.kind
      /\ o.first = record.first /\ o.last = record.last
  BY DEF OpRec
<1>9. o \in OpRec
 <2>1. "reading" \in PCs BY DEF PCs
 <2> QED BY <1>4, <1>5, <1>7, <2>1 DEF OpRec
<1>10. Prior.leaf = leaf /\ Prior.thread = thread BY DEF Prior
<1> HIDE DEF o
<1>11. Weight(o) = 1 BY <1>8 DEF Weight
<1>12. OpSound(o, rows) BY <1>1, <1>4, <1>8, <1>10 DEF OpSound
<1>13. LedgerTyped' BY <1>6 DEF LedgerTyped
<1>14. ThreadsTyped' BY <1>1, <1>4, <1>6, EmptySeq DEF ThreadsTyped
<1>15. JobsSound' /\ rows' = rows /\ known' \in BOOLEAN /\ job' \in [Worker -> Jobs]
  BY <1>1, <1>6 DEF JobsSound, Sound
<1>16. rows + Weight(o) <= rows + Weight(op[p]) + 2 * (submitted' - submitted)
 <2>1. Weight(op[p]) \in Nat BY WeightIs
 <2>2. rows \in Nat /\ submitted \in Nat /\ submitted' \in Nat BY <1>1, <1>2
 <2>3. rows + 1 <= rows + Weight(op[p]) + 2 * (submitted' - submitted)
   BY <2>1, <2>2, SeatPaid
 <2> QED BY <1>11, <2>3
<1>17. Sound' /\ BatchSeen' = [BatchSeen EXCEPT ![p] = BatchOf(o)]
 <2>1. rows <= rows' /\ thread' <= rows' /\ OpSound(o, rows')
   BY <1>1, <1>4, <1>6, <1>12, <1>15
 <2>2. rows' + Weight(o) <= rows + Weight(op[p]) + 2 * (submitted' - submitted)
   BY <1>15, <1>16
 <2>3. op' = [op EXCEPT ![p] = o] BY <1>6
 <2> QED BY <1>9, <1>13, <1>14, <1>15, <2>1, <2>2, <2>3, OpStep
<1>18. BatchOf(o) = [open |-> TRUE, first |-> record.first,
                     size |-> IF record.first # 0 THEN record.last - record.first + 1 ELSE 0,
                     from |-> leaf]
  BY <1>8, <1>10, NothingIs
<1> QED BY <1>17, <1>18

\* Nothing of the ledger, the threads or the runs changes but what is said of them.
LEMMA LedgerStays ==
  ASSUME Sound, UNCHANGED ledgerVars
  PROVE  LedgerTyped' /\ UNCHANGED <<TreeSeen, leaf>>
<1>1. entries' = entries /\ leaf' = leaf BY DEF ledgerVars
<1> QED BY <1>1, Facts DEF LedgerTyped, TreeSeen

LEMMA RunsStay ==
  ASSUME Sound, UNCHANGED job
  PROVE  job' \in [Worker -> Jobs] /\ JobsSound'
  BY Facts DEF JobsSound, Sound

LEMMA ThreadsStay ==
  ASSUME Sound, UNCHANGED <<current, thread, rows, cursor>>,
         graph' \in [Thread -> Seq(Said)], checkpoints' \in SUBSET Thread
  PROVE  ThreadsTyped' /\ rows <= rows' /\ thread' <= rows' /\ rows' = rows /\ rows' \in Nat
  BY Facts DEF ThreadsTyped

LEMMA BoundsStay ==
  ASSUME Sound, UNCHANGED <<submitted, crashes>>, spoken' \in Nat
  PROVE  BoundsTyped' /\ submitted' = submitted
  BY Facts, Threads DEF BoundsTyped

\* An operation goes on, and the tree does not see it.
LEMMA Unseen ==
  ASSUME Sound, NEW p \in Task, NEW o \in OpRec, op' = [op EXCEPT ![p] = o],
         UNCHANGED ledgerVars, UNCHANGED <<current, thread, rows, cursor>>,
         graph' \in [Thread -> Seq(Said)], checkpoints' \in SUBSET Thread,
         BoundsTyped', submitted <= submitted', known' \in BOOLEAN, UNCHANGED job,
         Weight(o) <= Weight(op[p]) + 2 * (submitted' - submitted), OpSound(o, rows),
         BatchOf(o) = BatchOf(op[p])
  PROVE  Sound' /\ UNCHANGED Writers!vars
<1>1. LedgerTyped' /\ UNCHANGED <<TreeSeen, leaf>> BY LedgerStays
<1>2. job' \in [Worker -> Jobs] /\ JobsSound' BY RunsStay
<1>3. ThreadsTyped' /\ rows <= rows' /\ thread' <= rows' /\ rows' = rows /\ rows \in Nat
  BY ThreadsStay, Facts
<1>4. rows' + Weight(o) <= rows + Weight(op[p]) + 2 * (submitted' - submitted)
 <2>1. Weight(o) \in Nat /\ Weight(op[p]) \in Nat /\ submitted' \in Int /\ submitted \in Int
  <3>1. submitted \in Nat /\ submitted' \in Int BY Facts DEF BoundsTyped
  <3> QED BY <3>1, WeightIs
 <2> DEFINE a == Weight(o)
            b == Weight(op[p])
            c == 2 * (submitted' - submitted)
 <2>2. a \in Int /\ b \in Int /\ c \in Int /\ a <= b + c BY <2>1
 <2> HIDE DEF a, b, c
 <2>3. rows + a <= rows + b + c BY <1>3, <2>2
 <2> QED BY <1>3, <2>3 DEF a, b, c
<1>5. Sound' /\ BatchSeen' = [BatchSeen EXCEPT ![p] = BatchOf(o)]
  BY <1>1, <1>2, <1>3, <1>4, OpStep
<1>6. BatchSeen' = BatchSeen BY <1>5, SameBatch
<1> QED BY <1>1, <1>5, <1>6, SeenSame

\* The idle task is told to stop as well.
LEMMA CancelStep ==
  ASSUME NEW f \in [Task -> OpRec], NEW r \in Nat, NEW t, NEW s, RoomFor(f, r, t, s),
         NEW c \in BOOLEAN, NEW g, g = [f EXCEPT !["idle"].cancel = c]
  PROVE  /\ g \in [Task -> OpRec] /\ RoomFor(g, r, t, s) /\ Batches(g) = Batches(f)
         /\ \A p \in Task : /\ g[p].pc = f[p].pc /\ g[p].kind = f[p].kind /\ g[p].on = f[p].on
                            /\ p # "idle" => g[p] = f[p]
<1>1. "idle" \in Task BY DEF Task
<1>2. g \in [Task -> OpRec] BY <1>1, ZenonT(40) DEF OpRec
<1>3. \A p \in Task : /\ g[p].pc = f[p].pc /\ g[p].kind = f[p].kind /\ g[p].on = f[p].on
                      /\ g[p].prior = f[p].prior /\ g[p].first = f[p].first
                      /\ g[p].last = f[p].last /\ (p # "idle" => g[p] = f[p])
  BY <1>1 DEF OpRec
<1>4. \A p \in Task : Weight(g[p]) = Weight(f[p]) BY <1>3 DEF Weight
<1>5. \A p \in Task : OpSound(f[p], r) => OpSound(g[p], r) BY <1>3 DEF OpSound
<1>6. \A p \in Task : BatchOf(g[p]) = BatchOf(f[p]) BY <1>3 DEF BatchOf
<1>7. Batches(g) = Batches(f) BY <1>6 DEF Batches
<1>8. Weights(g) = Weights(f) BY <1>4 DEF Weights, Task
<1> QED BY <1>2, <1>3, <1>5, <1>7, <1>8 DEF RoomFor

LEMMA UnseenCancels ==
  ASSUME Sound, NEW p \in Task, NEW o \in OpRec, NEW c \in BOOLEAN,
         op' = [[op EXCEPT ![p] = o] EXCEPT !["idle"].cancel = c],
         UNCHANGED ledgerVars, UNCHANGED <<current, thread, rows, cursor, graph, checkpoints>>,
         BoundsTyped', submitted <= submitted', known' \in BOOLEAN, UNCHANGED job,
         Weight(o) <= Weight(op[p]) + 2 * (submitted' - submitted), OpSound(o, rows),
         BatchOf(o) = BatchOf(op[p])
  PROVE  Sound' /\ UNCHANGED Writers!vars
<1> DEFINE f == [op EXCEPT ![p] = o]
<1>1. LedgerTyped' /\ UNCHANGED <<TreeSeen, leaf>> BY LedgerStays
<1>2. job' \in [Worker -> Jobs] /\ JobsSound' BY RunsStay
<1>0. /\ rows \in Nat /\ op \in [Task -> OpRec] /\ submitted \in Nat /\ thread \in Thread
      /\ thread <= rows /\ RoomFor(op, rows, thread, submitted) /\ submitted' \in Nat
      /\ graph \in [Thread -> Seq(Said)] /\ checkpoints \in SUBSET Thread
  BY Facts, SMTT(30) DEF BoundsTyped
<1>3. ThreadsTyped' /\ rows' = rows /\ thread' = thread BY <1>0, ThreadsStay
<1>4. rows + Weight(o) <= rows + Weight(op[p]) + 2 * (submitted' - submitted)
 <2>1. Weight(o) \in Nat /\ Weight(op[p]) \in Nat BY WeightIs
 <2> DEFINE a == Weight(o)
            b == Weight(op[p])
            d == 2 * (submitted' - submitted)
 <2>2. a \in Int /\ b \in Int /\ d \in Int /\ a <= b + d BY <1>0, <2>1
 <2> HIDE DEF a, b, d
 <2>3. rows + a <= rows + b + d BY <1>0, <2>2
 <2> QED BY <2>3 DEF a, b, d
<1>5. f \in [Task -> OpRec] /\ RoomFor(f, rows, thread, submitted')
 <2>1. f = [op EXCEPT ![p] = o] /\ rows <= rows BY <1>0
 <2> HIDE DEF f
 <2> QED BY <1>0, <1>4, <2>1, OpGoesOn
<1>6. /\ op' \in [Task -> OpRec] /\ RoomFor(op', rows, thread, submitted')
      /\ Batches(op') = Batches(f)
 <2> HIDE DEF f
 <2>1. op' = [f EXCEPT !["idle"].cancel = c] BY DEF f
 <2> QED BY <1>0, <1>5, <2>1, CancelStep, ZenonT(40)
<1>7. Batches(f) = Batches(op)
 <2>1. \A q \in Task : BatchOf(f[q]) = BatchOf(op[q]) BY <1>0
 <2> HIDE DEF f
 <2> QED BY <2>1 DEF Batches
<1>8. Sound' BY <1>1, <1>2, <1>3, <1>6 DEF Sound, Typed, Room
<1>9. BatchSeen' = BatchSeen BY <1>6, <1>7 DEF BatchSeen
<1> QED BY <1>1, <1>8, <1>9, SeenSame

\* An operation that may be taken back appends entries at the leaf.
LEMMA BeginsStep ==
  ASSUME Sound, NEW p \in Task, NEW record \in OpRec, NEW new \in Seq(Plain(entries)),
         new # <<>>, NEW es, es = AppendMany(entries, leaf, new), Move(p, record, es, Len(es)),
         BoundsTyped', submitted <= submitted',
         1 <= Weight(op[p]) + 2 * (submitted' - submitted), ~BatchOf(op[p]).open,
         record.kind \in {"clear", "compact"},
         record.first = Len(entries) + 1, record.last = Len(es)
  PROVE  Sound' /\ Refines
<1>1. /\ entries \in Seq(EntryRow) /\ PathsAscend(entries) /\ leaf \in 0 .. Len(entries)
      /\ Len(entries) \in Nat /\ LedgerTyped /\ leaf \in Nat
  BY Facts
<1>2. /\ es \in Seq(EntryRow) /\ PathsAscend(es) /\ Len(es) = Len(entries) + Len(new)
      /\ Len(new) \in Nat
  BY <1>1, PlainSeq, ManyIs DEF Extends
<1>3. Len(new) # 0 BY EmptySeq
<1>4. Len(es) \in 0 .. Len(es) /\ leaf < record.first /\ record.first <= record.last
      /\ record.first # 0 /\ record.last - record.first + 1 = Len(new)
  BY <1>1, <1>2, <1>3
<1>5. /\ Sound'
      /\ BatchSeen' = [BatchSeen EXCEPT ![p] =
                         [open |-> TRUE, first |-> record.first,
                          size |-> IF record.first # 0 THEN record.last - record.first + 1 ELSE 0,
                          from |-> leaf]]
  BY <1>2, <1>4, MoveStep
<1>6. entries' = es /\ leaf' = Len(es) /\ Len(es) <= MaxEntries /\ UNCHANGED job BY DEF Move
<1>7. Appends(new) BY <1>2, <1>6 DEF Appends, End
<1>8. Tree(entries)' = Writers!Grown(Tree(entries), leaf, Len(new))
  BY <1>1, <1>7, AppendsWrites
<1>9. Len(Tree(entries)) = Len(entries) BY <1>1, TreeIs
<1>10. Len(new) \in 1 .. MaxEntries BY <1>1, <1>2, <1>3, <1>6, Threads
<1>11. ~BatchSeen[p].open BY BatchAt
<1>12. BatchSeen' = [BatchSeen EXCEPT ![p] = [open |-> TRUE, first |-> Len(Tree(entries)) + 1,
                                              size |-> Len(new), from |-> leaf]]
  BY <1>4, <1>5, <1>9
<1>13. leaf' = Len(Tree(entries)) + Len(new) BY <1>2, <1>6, <1>9
<1>14. Writers!Begins(p) BY <1>6, <1>8, <1>10, <1>11, <1>12, <1>13, SeenBegins DEF TreeSeen
<1> QED BY <1>5, <1>14 DEF Refines, Writers!Next

\* A free task becomes busy at the price of a submission.
LEMMA Starts ==
  ASSUME Sound, NEW p, NEW pcs, MayStart(p, pcs), submitted' = submitted + 1,
         UNCHANGED <<spoken, crashes>>
  PROVE  /\ BoundsTyped' /\ submitted <= submitted' /\ 2 * (submitted' - submitted) = 2
         /\ p \in Task /\ Weight(op[p]) \in Nat /\ ~BatchOf(op[p]).open
         /\ BatchOf(op[p]) = Writers!Nothing /\ op[p].pc = "free"
<1>1. /\ submitted \in Nat /\ spoken \in Nat /\ crashes \in Nat /\ crashes <= MaxCrashes
      /\ MaxSubmissions \in Nat /\ MaxCrashes \in Nat
  BY Facts, Threads
<1>2. submitted < MaxSubmissions /\ op[p].pc = "free" /\ p \in Task
  BY DEF MayStart, Free, Task
<1>3. BoundsTyped' BY <1>1, <1>2 DEF BoundsTyped
<1>4. ~BatchOf(op[p]).open /\ BatchOf(op[p]) = Writers!Nothing BY <1>2, NothingIs
<1> QED BY <1>1, <1>2, <1>3, <1>4, WeightIs

LEMMA ClearStep ==
  ASSUME Sound, NEW p \in Task, Clear(p)
  PROVE  Sound' /\ Refines
<1> DEFINE es == Placed(entries, leaf, ResetBoundaryEntry)
           record == [Idle EXCEPT !.kind = "clear", !.first = Len(es), !.last = Len(es)]
           new == <<ResetBoundaryEntry>>
<1>1. /\ MayStart(p, {"free", "asleep"}) /\ Move(p, record, es, Len(es))
      /\ submitted' = submitted + 1 /\ UNCHANGED <<spoken, crashes>>
  BY DEF Clear
<1>2. /\ entries \in Seq(EntryRow) /\ PathsAscend(entries) /\ leaf \in 0 .. Len(entries)
      /\ Len(entries) \in Nat
  BY Facts
<1>3. ResetBoundaryEntry \in Plain(entries) /\ ResetBoundaryEntry \in EntryIn
  BY <1>2, EntriesIn DEF Plain, NewIn
<1>4. new \in Seq(Plain(entries)) /\ new # <<>> /\ Len(new) = 1 BY <1>3
<1>5. es = AppendMany(entries, leaf, new) BY <1>2, <1>3, PlacedIsMany
<1> HIDE DEF new
<1>6. Len(es) = Len(entries) + 1 /\ Len(es) \in Nat
  BY <1>2, <1>4, <1>5, PlainSeq, ManyIs, SMTT(30)
<1> HIDE DEF es
<1>7. /\ record \in OpRec /\ record.kind = "clear" /\ record.first = Len(entries) + 1
      /\ record.last = Len(es)
  BY <1>6, IdleIs DEF OpRec, OpKinds
<1> HIDE DEF record
<1>8. /\ BoundsTyped' /\ submitted <= submitted' /\ 2 * (submitted' - submitted) = 2
      /\ Weight(op[p]) \in Nat /\ ~BatchOf(op[p]).open
  BY <1>1, Starts
<1>9. 1 <= Weight(op[p]) + 2 * (submitted' - submitted) BY <1>8
<1> QED BY <1>1, <1>4, <1>5, <1>7, <1>8, <1>9, BeginsStep

LEMMA SummarisedStep ==
  ASSUME Sound, NEW p \in Task, Summarised(p)
  PROVE  Sound' /\ Refines
<1> DEFINE o == op[p]
           kept == IF o.tail = <<>> THEN NoMark ELSE FirstKept(entries, leaf, Head(o.tail))
           again == IF kept = NoMark THEN Says(o.tail) ELSE <<>>
           c == CompactionEntry(SummaryMessage(o.summary), kept)
           new == <<c>> \o again
           es == AppendMany(entries, leaf, new)
           record == [o EXCEPT !.first = Len(entries) + 1, !.last = Len(es),
                               !.summary = {}, !.tail = <<>>]
<1>1. /\ o.pc = "summarising" /\ Move(p, record, es, Len(es)) /\ UNCHANGED boundVars
  BY DEF Summarised
<1>2. /\ entries \in Seq(EntryRow) /\ PathsAscend(entries) /\ leaf \in 0 .. Len(entries)
      /\ Len(entries) \in Nat /\ op[p] \in OpRec /\ OpSound(op[p], rows)
  BY Facts
<1>3. o.tail \in Seq(Said) /\ o.summary \in SUBSET Nat /\ o.kind = "compact"
  BY <1>1, <1>2 DEF OpRec, OpSound
<1>4. kept \in Int /\ kept <= Len(entries) BY <1>2, FirstKeptIs DEF NoMark
<1>5. SummaryMessage(o.summary) \in Said BY <1>3 DEF SummaryMessage, Said
<1> HIDE DEF kept
<1>6. c \in Plain(entries) BY <1>2, <1>4, <1>5, EntriesIn
<1>7. again \in Seq(Plain(entries)) BY <1>2, <1>3, SaysIs, EmptySeq
<1> HIDE DEF c, again
<1>8. new \in Seq(Plain(entries)) /\ new # <<>> BY <1>6, <1>7, PlainMore
<1> HIDE DEF new
<1>9. Len(es) \in Nat BY <1>2, <1>8, PlainSeq, ManyIs
<1> HIDE DEF es
<1>10. /\ record \in OpRec /\ record.kind = "compact" /\ record.first = Len(entries) + 1
       /\ record.last = Len(es)
 <2>1. Len(entries) + 1 \in Nat /\ {} \in SUBSET Nat /\ <<>> \in Seq(Said) BY <1>2, EmptySeq
 <2>2. o \in OpRec BY <1>2
 <2> HIDE DEF o
 <2> QED BY <1>3, <1>9, <2>1, <2>2 DEF OpRec
<1> HIDE DEF record
<1>11. /\ BoundsTyped' /\ submitted' = submitted /\ submitted \in Nat
  BY <1>1, Facts, Threads DEF boundVars, BoundsTyped
<1>12. Weight(op[p]) = 1 /\ ~BatchOf(op[p]).open BY <1>1, NothingIs DEF Weight
<1>13. submitted <= submitted' /\ 1 <= Weight(op[p]) + 2 * (submitted' - submitted)
  BY <1>11, <1>12
<1> QED BY <1>1, <1>8, <1>10, <1>11, <1>12, <1>13, BeginsStep DEF es

LEMMA BranchStep ==
  ASSUME Sound, NEW p \in Task, NEW at \in DOMAIN entries, Branch(p, at)
  PROVE  Sound' /\ Refines
<1> DEFINE record == [Idle EXCEPT !.kind = "branch"]
<1>1. /\ MayStart(p, {"free", "asleep"}) /\ Move(p, record, entries, at)
      /\ submitted' = submitted + 1 /\ UNCHANGED <<spoken, crashes>>
  BY DEF Branch
<1>2. /\ entries \in Seq(EntryRow) /\ PathsAscend(entries) /\ Len(entries) \in Nat
      /\ leaf \in Nat
  BY Facts
<1>3. at \in 1 .. Len(entries) /\ at \in 0 .. Len(entries) BY <1>2, LenProperties
<1>4. record \in OpRec /\ record.kind = "branch" /\ record.first = 0
  BY IdleIs DEF OpRec, OpKinds, Idle
<1> HIDE DEF record
<1>5. /\ BoundsTyped' /\ submitted <= submitted' /\ 2 * (submitted' - submitted) = 2
      /\ Weight(op[p]) \in Nat /\ ~BatchOf(op[p]).open
  BY <1>1, Starts
<1>6. 1 <= Weight(op[p]) + 2 * (submitted' - submitted) BY <1>5
<1>7. /\ Sound'
      /\ BatchSeen' = [BatchSeen EXCEPT ![p] =
                         [open |-> TRUE, first |-> record.first,
                          size |-> IF record.first # 0 THEN record.last - record.first + 1 ELSE 0,
                          from |-> leaf]]
  BY <1>1, <1>2, <1>3, <1>4, <1>5, <1>6, MoveStep
<1>8. entries' = entries /\ leaf' = at /\ UNCHANGED job BY <1>1 DEF Move
<1>9. leaf' \in DOMAIN TreeSeen /\ UNCHANGED TreeSeen
  BY <1>2, <1>3, <1>8, TreeIs DEF TreeSeen
<1>10. ~BatchSeen[p].open BY <1>5, BatchAt
<1>11. BatchSeen' = [BatchSeen EXCEPT ![p] = [open |-> TRUE, first |-> 0, size |-> 0,
                                              from |-> leaf]]
  BY <1>4, <1>7
<1>12. Writers!Branches(p) BY <1>8, <1>9, <1>10, <1>11, SeenBranches
<1> QED BY <1>7, <1>12 DEF Refines, Writers!Next

LEMMA SeedReadsStep ==
  ASSUME Sound, NEW p \in Task, SeedReads(p)
  PROVE  Sound' /\ Refines
<1> DEFINE o == [[op[p] EXCEPT !.pc = "writing"] EXCEPT !.base = graph[op[p].on]]
<1>1. /\ op[p].pc = "reading" /\ op' = [op EXCEPT ![p].pc = "writing", ![p].base = graph[op[p].on]]
      /\ UNCHANGED <<ledgerVars, threadVars, known, job, boundVars>>
  BY DEF SeedReads
<1>2. /\ op \in [Task -> OpRec] /\ op[p] \in OpRec /\ OpSound(op[p], rows)
      /\ graph \in [Thread -> Seq(Said)] /\ checkpoints \in SUBSET Thread /\ rows \in Nat
      /\ known \in BOOLEAN
  BY Facts
<1>3. graph[op[p].on] \in Seq(Said) BY <1>1, <1>2 DEF OpSound
<1>4. o \in OpRec BY <1>2, <1>3 DEF OpRec, PCs
<1>5. op' = [op EXCEPT ![p] = o] BY <1>1, <1>2
<1>6. /\ o.pc = "writing" /\ o.kind = op[p].kind /\ o.on = op[p].on /\ o.prior = op[p].prior
      /\ o.first = op[p].first /\ o.last = op[p].last
  BY <1>2 DEF OpRec
<1> HIDE DEF o
<1>7. Weight(o) = Weight(op[p]) /\ BatchOf(o) = BatchOf(op[p]) /\ OpSound(o, rows)
  BY <1>1, <1>2, <1>6 DEF Weight, BatchOf, OpSound
<1>8. BoundsTyped' /\ submitted' = submitted /\ submitted \in Nat
  BY <1>1, BoundsStay, Facts DEF boundVars
<1>9. Weight(o) <= Weight(op[p]) + 2 * (submitted' - submitted) /\ submitted <= submitted'
  BY <1>7, <1>8, WeightIs
<1>10. Sound' /\ UNCHANGED Writers!vars
  BY <1>1, <1>2, <1>4, <1>5, <1>7, <1>8, <1>9, Unseen DEF threadVars
<1> QED BY <1>10 DEF Refines

LEMMA AddedIsSeq ==
  ASSUME NEW base \in Seq(Said), NEW new \in Seq(Said)
  PROVE  AddMessages(base, new) \in Seq(Said)
<1>1. Only(new, {m \in ToSet(new) : m.role = "summary" \/ ~Contains(base, m)}) \in Seq(Said)
  BY OnlyIsSeq
<1> QED BY <1>1, ConcatProperties DEF AddMessages

LEMMA SeedWritesStep ==
  ASSUME Sound, NEW p \in Task, SeedWrites(p)
  PROVE  Sound' /\ Refines
<1> DEFINE o == [[op[p] EXCEPT !.pc = "activating"] EXCEPT !.base = <<>>]
           g == AddMessages(op[p].base, op[p].seed)
<1>1. /\ op[p].pc = "writing" /\ op' = [op EXCEPT ![p].pc = "activating", ![p].base = <<>>]
      /\ graph' = [graph EXCEPT ![op[p].on] = g]
      /\ checkpoints' = checkpoints \cup {op[p].on}
      /\ UNCHANGED <<ledgerVars, current, rows, cursor, thread, known, job, boundVars>>
  BY DEF SeedWrites
<1>2. /\ op \in [Task -> OpRec] /\ op[p] \in OpRec /\ OpSound(op[p], rows)
      /\ graph \in [Thread -> Seq(Said)] /\ checkpoints \in SUBSET Thread /\ rows \in Nat
      /\ known \in BOOLEAN
  BY Facts
<1>3. op[p].base \in Seq(Said) /\ op[p].seed \in Seq(Said) /\ op[p].on \in Thread
  BY <1>1, <1>2 DEF OpRec, OpSound
<1>4. o \in OpRec BY <1>2, EmptySeq DEF OpRec, PCs
<1>5. op' = [op EXCEPT ![p] = o] BY <1>1, <1>2
<1>6. /\ o.pc = "activating" /\ o.kind = op[p].kind /\ o.on = op[p].on /\ o.prior = op[p].prior
      /\ o.first = op[p].first /\ o.last = op[p].last
  BY <1>2 DEF OpRec
<1>a. graph' \in [Thread -> Seq(Said)] /\ checkpoints' \in SUBSET Thread
  BY <1>1, <1>2, <1>3, AddedIsSeq
<1> HIDE DEF o
<1>7. Weight(o) = Weight(op[p]) /\ BatchOf(o) = BatchOf(op[p]) /\ OpSound(o, rows)
  BY <1>1, <1>2, <1>6 DEF Weight, BatchOf, OpSound
<1>8. BoundsTyped' /\ submitted' = submitted /\ submitted \in Nat
  BY <1>1, BoundsStay, Facts DEF boundVars
<1>9. Weight(o) <= Weight(op[p]) + 2 * (submitted' - submitted) /\ submitted <= submitted'
  BY <1>7, <1>8, WeightIs
<1>10. Sound' /\ UNCHANGED Writers!vars
  BY <1>1, <1>2, <1>a, <1>4, <1>5, <1>7, <1>8, <1>9, Unseen
<1> QED BY <1>10 DEF Refines

\* An operation is over, or has nothing left to take back.
LEMMA OverStep ==
  ASSUME Sound, NEW p \in Task, NEW o \in OpRec, op' = [op EXCEPT ![p] = o],
         op[p].pc \in {"reading", "writing", "activating"},
         UNCHANGED ledgerVars, ThreadsTyped', rows <= rows', thread' <= rows', UNCHANGED boundVars,
         UNCHANGED known, UNCHANGED job, rows' + Weight(o) <= rows + Weight(op[p]),
         OpSound(o, rows'), BatchOf(o) = Writers!Nothing
  PROVE  Sound' /\ Refines
<1>1. LedgerTyped' /\ UNCHANGED <<TreeSeen, leaf>> BY LedgerStays
<1>2. job' \in [Worker -> Jobs] /\ JobsSound' BY RunsStay
<1>3. BoundsTyped' /\ submitted' = submitted /\ submitted \in Nat /\ known' \in BOOLEAN
  BY BoundsStay, Facts DEF boundVars
<1>4. rows' + Weight(o) <= rows + Weight(op[p]) + 2 * (submitted' - submitted)
 <2>1. Weight(op[p]) \in Nat /\ rows \in Nat BY WeightIs, Facts
 <2>2. 2 * (submitted' - submitted) = 0 BY <1>3
 <2> QED BY <2>1, <2>2
<1>5. Sound' /\ BatchSeen' = [BatchSeen EXCEPT ![p] = Writers!Nothing]
  BY <1>1, <1>2, <1>3, <1>4, OpStep
<1>6. CASE op[p].kind # "turn"
 <2>1. BatchSeen[p].open BY <1>6, BatchAt, NothingIs
 <2>2. Writers!Ends(p) BY <1>1, <1>5, <2>1, SeenEnds
 <2> QED BY <1>5, <2>2 DEF Refines, Writers!Next
<1>7. CASE op[p].kind = "turn"
 <2>1. BatchOf(o) = BatchOf(op[p]) BY <1>7, NothingIs
 <2>2. BatchSeen' = BatchSeen BY <1>5, <2>1, SameBatch
 <2>3. UNCHANGED Writers!vars BY <1>1, <2>2, SeenSame
 <2> QED BY <1>5, <2>3 DEF Refines
<1> QED BY <1>6, <1>7

LEMMA SeedActivatesStep ==
  ASSUME Sound, NEW p \in Task, SeedActivates(p)
  PROVE  Sound' /\ Refines
<1> DEFINE t == op[p].on
           o == [[op[p] EXCEPT !.pc = "announcing"] EXCEPT !.seed = <<>>]
<1>1. /\ op[p].pc = "activating" /\ op' = [op EXCEPT ![p].pc = "announcing", ![p].seed = <<>>]
      /\ cursor' = [cursor EXCEPT ![t] = IF t \in checkpoints THEN graph[t] ELSE op[p].seed]
      /\ rows' = Max({rows, t + 1}) /\ current' = t
      /\ UNCHANGED <<ledgerVars, graph, checkpoints, thread, known, job, boundVars>>
  BY DEF SeedActivates
<1>2. /\ op \in [Task -> OpRec] /\ op[p] \in OpRec /\ OpSound(op[p], rows)
      /\ graph \in [Thread -> Seq(Said)] /\ cursor \in [Thread -> Seq(Said)]
      /\ checkpoints \in SUBSET Thread /\ rows \in Nat /\ thread \in Thread /\ thread <= rows
  BY Facts
<1>3. op[p].seed \in Seq(Said) /\ t \in Thread /\ t <= rows /\ t \in Nat
  BY <1>1, <1>2, Threads DEF OpRec, OpSound
<1>4. o \in OpRec BY <1>2, EmptySeq DEF OpRec, PCs
<1>5. op' = [op EXCEPT ![p] = o] BY <1>1, <1>2
<1>6. o.pc = "announcing" /\ o.kind = op[p].kind /\ o.prior = op[p].prior BY <1>2 DEF OpRec
<1> HIDE DEF o
<1>7. rows' \in Nat /\ rows <= rows' /\ rows' <= rows + 1
 <2> DEFINE n == rows + 1
            T == {rows, t + 1}
 <2>0. t + 1 \in 1 .. n /\ rows \in 0 .. n BY <1>2, <1>3
 <2>1. CASE rows = 0
  <3>1. T \ {0} \in SUBSET (1 .. n) /\ n \in Nat BY <1>2, <1>3, <2>0
  <3>2. FALSE
   <4>1. rows >= 1 BY Facts DEF RoomFor
   <4> QED BY <2>1, <4>1
  <3> QED BY <3>2
 <2>2. CASE rows # 0
  <3>1. T \in SUBSET (1 .. n) /\ n \in Nat /\ T # {} BY <1>2, <2>0, <2>2
  <3> HIDE DEF n, T
  <3>2. Max(T) \in T /\ \A k \in T : k <= Max(T) BY <3>1, LargestOfThem
  <3> QED BY <1>1, <1>2, <2>0, <3>1, <3>2 DEF n, T
 <2> QED BY <2>1, <2>2
<1>8. Weight(o) + 1 <= Weight(op[p]) /\ Weight(o) \in Nat /\ Weight(op[p]) \in Nat
  BY <1>1, <1>6, WeightIs DEF Weight
<1>9. rows' + Weight(o) <= rows + Weight(op[p]) BY <1>2, <1>7, <1>8
<1>10. OpSound(o, rows')
 <2>1. op[p].prior.thread \in Thread \cup {None} BY <1>2 DEF OpRec, Places
 <2>2. op[p].prior.thread \in Int BY <2>1, Threads
 <2> QED BY <1>2, <1>6, <1>7, <2>2 DEF OpSound
<1>11. ThreadsTyped' /\ thread' <= rows'
 <2>1. cursor' \in [Thread -> Seq(Said)] BY <1>1, <1>2, <1>3
 <2>2. thread \in Nat BY <1>2, Threads
 <2> QED BY <1>1, <1>2, <1>3, <1>7, <2>1, <2>2 DEF ThreadsTyped
<1>12. BatchOf(o) = Writers!Nothing BY <1>6, NothingIs
<1> QED BY <1>1, <1>4, <1>5, <1>7, <1>9, <1>10, <1>11, <1>12, OverStep

\* What is left of a tree when its last entries go.
LEMMA TreeCut ==
  ASSUME NEW es \in Seq(EntryRow), PathsAscend(es), NEW n \in 0 .. Len(es)
  PROVE  /\ SubSeq(es, 1, n) \in Seq(EntryRow) /\ PathsAscend(SubSeq(es, 1, n))
         /\ Len(SubSeq(es, 1, n)) = n /\ \A i \in 1 .. n : SubSeq(es, 1, n)[i] = es[i]
         /\ Tree(SubSeq(es, 1, n)) = SubSeq(Tree(es), 1, n)
<1>1. /\ Len(es) \in Nat /\ n \in Nat /\ \A i \in 1 .. Len(es) : es[i] \in EntryRow
  BY LenProperties, ElementOfSeq
<1> DEFINE s == SubSeq(es, 1, n)
<1>2. /\ s \in Seq(EntryRow) /\ Len(s) = n /\ \A i \in 1 .. n : s[i] = es[i]
 <2>1. \A i \in 1 .. n : es[i] \in EntryRow BY <1>1
 <2>2. /\ s \in Seq(EntryRow) /\ Len(s) = IF 1 <= n THEN n - 1 + 1 ELSE 0
       /\ \A i \in 1 .. n - 1 + 1 : s[i] = es[1 + i - 1]
   BY <1>1, <2>1, SubSeqProperties
 <2>3. Len(s) = n BY <1>1, <2>2
 <2> HIDE DEF s
 <2>4. ASSUME NEW i \in 1 .. n PROVE s[i] = es[i]
  <3>1. i \in 1 .. n - 1 + 1 /\ 1 + i - 1 = i BY <1>1
  <3> QED BY <2>2, <3>1
 <2> QED BY <2>2, <2>3, <2>4
<1> HIDE DEF s
<1>3. DOMAIN s = 1 .. n /\ DOMAIN es = 1 .. Len(es) BY <1>2, LenProperties
<1>4. PathsAscend(s)
 <2>1. \A i \in DOMAIN s : i \in DOMAIN es /\ s[i] = es[i] BY <1>1, <1>2, <1>3
 <2> QED BY <2>1 DEF PathsAscend
<1> DEFINE R == [of : SUBSET Worker, above : SUBSET Nat]
           a == SubSeq(Tree(es), 1, n)
<1>5. /\ Tree(es) \in Seq(R) /\ Len(Tree(es)) = Len(es)
      /\ \A i \in 1 .. Len(es) :
           Tree(es)[i] = [of |-> {es[i].job} \ {"none"}, above |-> ToSet(es[i].path)]
  BY TreeIs
<1>6. /\ Tree(s) \in Seq(R) /\ Len(Tree(s)) = n
      /\ \A i \in 1 .. n : Tree(s)[i] = [of |-> {s[i].job} \ {"none"}, above |-> ToSet(s[i].path)]
  BY <1>2, TreeIs
<1>7. /\ a \in Seq(R) /\ Len(a) = n /\ \A i \in 1 .. n : a[i] = Tree(es)[i]
 <2> HIDE DEF R
 <2>1. \A i \in 1 .. n : Tree(es)[i] \in R
  <3>1. \A i \in 1 .. Len(es) : Tree(es)[i] \in R BY <1>5, LenProperties, ElementOfSeq
  <3> QED BY <1>1, <3>1
 <2>2. /\ a \in Seq(R) /\ Len(a) = IF 1 <= n THEN n - 1 + 1 ELSE 0
       /\ \A i \in 1 .. n - 1 + 1 : a[i] = Tree(es)[1 + i - 1]
   BY <1>1, <2>1, SubSeqProperties
 <2>3. Len(a) = n BY <1>1, <2>2
 <2> HIDE DEF a
 <2>4. ASSUME NEW i \in 1 .. n PROVE a[i] = Tree(es)[i]
  <3>1. i \in 1 .. n - 1 + 1 /\ 1 + i - 1 = i BY <1>1
  <3> QED BY <2>2, <3>1
 <2> QED BY <2>2, <2>3, <2>4
<1> HIDE DEF R, a
<1>8. ASSUME NEW i \in 1 .. n PROVE Tree(s)[i] = a[i]
 <2>1. i \in 1 .. Len(es) /\ s[i] = es[i] BY <1>1, <1>2
 <2> QED BY <1>5, <1>6, <1>7, <2>1
<1>9. Tree(s) = a BY <1>6, <1>7, <1>8, SeqEqual
<1> QED BY <1>2, <1>4, <1>9 DEF s, a

LEMMA SeedFailsStep ==
  ASSUME Sound, NEW p \in Task, SeedFails(p)
  PROVE  Sound' /\ Refines
<1> DEFINE o == op[p]
<1>1. /\ Seeding(p) /\ Rollback(o) /\ op' = [op EXCEPT ![p] = Idle]
      /\ UNCHANGED <<rows, cursor, known, job, boundVars>>
      /\ \/ /\ graph' = [graph EXCEPT ![o.on] = <<>>]
            /\ checkpoints' = checkpoints \ {o.on}
         \/ /\ o.pc = "writing"
            /\ graph' = [graph EXCEPT ![o.on] = AddMessages(o.base, o.seed)]
            /\ checkpoints' = checkpoints \cup {o.on}
  BY DEF SeedFails
<1>2. /\ op \in [Task -> OpRec] /\ o \in OpRec /\ OpSound(o, rows)
      /\ graph \in [Thread -> Seq(Said)] /\ cursor \in [Thread -> Seq(Said)]
      /\ checkpoints \in SUBSET Thread /\ rows \in Nat /\ thread \in Thread /\ thread <= rows
      /\ current \in Thread \cup {None} /\ entries \in Seq(EntryRow) /\ PathsAscend(entries)
      /\ Len(entries) \in Nat /\ leaf \in 0 .. Len(entries) /\ known \in BOOLEAN
  BY Facts
<1>3. o.pc \in {"reading", "writing", "activating"} /\ o.on \in Thread
  BY <1>1, <1>2 DEF Seeding, OpSound
<1>4. graph' \in [Thread -> Seq(Said)] /\ checkpoints' \in SUBSET Thread
 <2>1. o.base \in Seq(Said) /\ o.seed \in Seq(Said) BY <1>2 DEF OpRec
 <2>2. AddMessages(o.base, o.seed) \in Seq(Said) /\ <<>> \in Seq(Said)
   BY <2>1, AddedIsSeq, EmptySeq
 <2> HIDE DEF o
 <2> QED BY <1>1, <1>2, <1>3, <2>2
<1>5. /\ o.prior \in Places /\ o.prior.leaf \in Nat /\ o.prior.current \in Thread \cup {None}
      /\ o.first \in Nat /\ o.last \in Nat
  BY <1>2 DEF OpRec, Places
<1>6. Idle \in OpRec /\ Weight(Idle) = 0 /\ OpSound(Idle, rows) /\ BatchOf(Idle) = Writers!Nothing
  BY <1>2, IdleIs, NothingIs
<1>7. rows' = rows /\ rows' + Weight(Idle) <= rows + Weight(op[p])
 <2>1. Weight(op[p]) \in Nat /\ rows' = rows BY <1>1, WeightIs
 <2> QED BY <1>2, <1>6, <2>1
<1>8. CASE o.kind # "turn" /\ CanRestore(o)
 <2>1. /\ entries' = IF o.first = 0 THEN entries ELSE SubSeq(entries, 1, o.first - 1)
       /\ leaf' = o.prior.leaf /\ current' = o.prior.current /\ thread' = o.prior.thread
   BY <1>1, <1>8 DEF Rollback
 <2>2. (o.first = 0 \/ Len(entries) = o.last) /\ o.prior.leaf <= Len(entries)
   BY <1>8 DEF CanRestore
 <2>3. /\ o.prior.thread \in Thread /\ o.prior.thread <= rows
       /\ o.first = 0 \/ (o.prior.leaf < o.first /\ o.first <= o.last)
   BY <1>2, <1>3, <1>8 DEF OpSound
 <2> DEFINE size == IF o.first # 0 THEN o.last - o.first + 1 ELSE 0
            n == Len(entries) - size
 <2>4. /\ n \in 0 .. Len(entries) /\ o.prior.leaf \in 0 .. n
       /\ size = 0 \/ Len(entries) = o.first + size - 1
  <3>1. /\ Len(entries) \in Nat /\ o.first \in Nat /\ o.last \in Nat /\ o.prior.leaf \in Nat
        /\ o.prior.leaf <= Len(entries)
    BY <1>2, <1>5, <2>2
  <3>2. CASE o.first = 0 BY <3>1, <3>2
  <3>3. CASE o.first # 0
   <4>1. Len(entries) = o.last /\ o.prior.leaf < o.first /\ o.first <= o.last
     BY <2>2, <2>3, <3>3
   <4> QED BY <3>1, <3>3, <4>1
  <3> QED BY <3>2, <3>3
 <2>5. entries' = SubSeq(entries, 1, n)
  <3>1. CASE o.first = 0
   <4>1. n = Len(entries) /\ entries' = entries BY <1>2, <2>1, <3>1
   <4>2. SubSeq(entries, 1, Len(entries)) = entries BY <1>2, SubSeqFull
   <4> HIDE DEF n
   <4> QED BY <4>1, <4>2
  <3>2. CASE o.first # 0
   <4>1. n = o.first - 1 /\ entries' = SubSeq(entries, 1, o.first - 1)
     BY <1>2, <1>5, <2>1, <2>2, <3>2, SMTT(30)
   <4> HIDE DEF n
   <4> QED BY <4>1
  <3> QED BY <3>1, <3>2
 <2> HIDE DEF size, n
 <2>6. /\ entries' \in Seq(EntryRow) /\ PathsAscend(entries') /\ Len(entries') = n
       /\ Tree(entries') = SubSeq(Tree(entries), 1, n)
   BY <1>2, <2>4, <2>5, TreeCut
 <2>7. LedgerTyped' BY <2>1, <2>4, <2>6 DEF LedgerTyped
 <2>8. ThreadsTyped' /\ rows <= rows' /\ thread' <= rows'
  <3>1. rows' = rows /\ rows <= rows' /\ cursor' = cursor BY <1>1, <1>2
  <3>2. /\ current' \in Thread \cup {None} /\ thread' \in Thread /\ thread' <= rows
    BY <1>5, <2>1, <2>3
  <3> HIDE DEF o
  <3> QED BY <1>2, <1>4, <3>1, <3>2 DEF ThreadsTyped
 <2>9. BoundsTyped' /\ submitted' = submitted /\ submitted \in Nat /\ known' \in BOOLEAN
   BY <1>1, <1>2, BoundsStay, Facts DEF boundVars
 <2>10. job' \in [Worker -> Jobs] /\ JobsSound' BY <1>1, RunsStay
 <2>11. rows' + Weight(Idle) <= rows + Weight(op[p]) + 2 * (submitted' - submitted)
  <3>1. Weight(op[p]) \in Nat /\ 2 * (submitted' - submitted) = 0 BY <2>9, WeightIs
  <3> QED BY <1>2, <1>7, <3>1
 <2>12. Sound' /\ BatchSeen' = [BatchSeen EXCEPT ![p] = Writers!Nothing]
  <3>1. Sound' /\ BatchSeen' = [BatchSeen EXCEPT ![p] = BatchOf(Idle)]
   <4>1. op' = [op EXCEPT ![p] = Idle] BY <1>1
   <4> QED BY <1>6, <1>7, <2>7, <2>8, <2>9, <2>10, <2>11, <4>1, OpStep
  <3> QED BY <1>6, <3>1
 <2>13. BatchSeen[p] = [open |-> TRUE, first |-> o.first, size |-> size, from |-> o.prior.leaf]
   BY <1>3, <1>8, BatchAt, NothingIs DEF size
 <2>14. Len(TreeSeen) = Len(entries) /\ TreeSeen' = SubSeq(TreeSeen, 1, n)
  <3>1. TreeSeen' = Tree(entries') BY DEF TreeSeen, Tree
  <3>2. Len(Tree(entries)) = Len(entries) /\ TreeSeen = Tree(entries)
    BY <1>2, TreeIs DEF TreeSeen
  <3> QED BY <2>6, <3>1, <3>2
 <2>15. Writers!TakesBack(p)
  <3>0. n = Len(TreeSeen) - BatchSeen[p].size BY <2>13, <2>14 DEF n
  <3>1. TreeSeen' = SubSeq(TreeSeen, 1, Len(TreeSeen) - BatchSeen[p].size) BY <2>14, <3>0
  <3>2. BatchSeen[p].size = 0 \/ Len(TreeSeen) = BatchSeen[p].first + BatchSeen[p].size - 1
    BY <2>4, <2>13, <2>14
  <3>3. BatchSeen[p].open /\ BatchSeen[p].from <= Len(TreeSeen) /\ leaf' = BatchSeen[p].from
    BY <2>1, <2>2, <2>13, <2>14
  <3> QED BY <1>1, <2>12, <3>1, <3>2, <3>3, SeenTakesBack
 <2> QED BY <2>12, <2>15 DEF Refines, Writers!Next
<1>9. CASE ~(o.kind # "turn" /\ CanRestore(o))
 <2>1. UNCHANGED <<ledgerVars, current, thread>> BY <1>1, <1>9 DEF Rollback
 <2>2. ThreadsTyped' /\ rows <= rows' /\ thread' <= rows'
   BY <1>1, <1>2, <1>4, <2>1, ThreadsStay
 <2>3. op' = [op EXCEPT ![p] = Idle] /\ UNCHANGED <<ledgerVars, known, job, boundVars>>
       /\ op[p].pc \in {"reading", "writing", "activating"} /\ OpSound(Idle, rows')
   BY <1>1, <1>3, <1>6, <1>7, <2>1
 <2> QED BY <1>6, <1>7, <2>2, <2>3, OverStep
<1> QED BY <1>8, <1>9

\* An operation that has nothing to take back goes on or ends, and nothing else changes.
LEMMA OnlyOp ==
  ASSUME Sound, NEW p \in Task, NEW o \in OpRec, op' = [op EXCEPT ![p] = o],
         UNCHANGED ledgerVars, UNCHANGED threadVars, UNCHANGED boundVars, UNCHANGED job,
         known' \in BOOLEAN,
         Weight(o) <= Weight(op[p]), OpSound(o, rows), BatchOf(o) = BatchOf(op[p])
  PROVE  Sound' /\ Refines
<1>1. BoundsTyped' /\ submitted' = submitted /\ submitted \in Nat
  BY BoundsStay, Facts DEF boundVars
<1>2. Weight(o) <= Weight(op[p]) + 2 * (submitted' - submitted) /\ submitted <= submitted'
  BY <1>1, WeightIs
<1>3. Sound' /\ UNCHANGED Writers!vars BY <1>1, <1>2, Facts, Unseen DEF threadVars
<1> QED BY <1>3 DEF Refines

\* Of a plain operation the batch is nothing.
Plainly(o) == o.pc \notin {"reading", "writing", "activating"}

LEMMA PlainlyIs ==
  ASSUME NEW o, Plainly(o)
  PROVE  BatchOf(o) = Writers!Nothing
  BY NothingIs DEF Plainly

LEMMA SoundOfPlain ==
  ASSUME NEW o, NEW u, OpSound(u, rows), Plainly(o), o.pc # "streaming",
         o.prior = u.prior, o.pc \in {"asleep", "stopping", "summarising"} => o.kind = "compact"
  PROVE  OpSound(o, rows)
  BY DEF OpSound, Plainly

LEMMA StopsStep ==
  ASSUME Sound, NEW p \in Task, Stops(p)
  PROVE  Sound' /\ Refines
<1>1. /\ Plainly(op[p]) /\ op' = [op EXCEPT ![p] = Idle]
      /\ UNCHANGED <<ledgerVars, threadVars, known, job, boundVars>>
  BY DEF Stops, Plainly
<1>2. rows \in Nat /\ known \in BOOLEAN BY Facts
<1>3. Idle \in OpRec /\ Weight(Idle) = 0 /\ OpSound(Idle, rows) BY <1>2, IdleIs
<1>4. Weight(op[p]) \in 0 .. 2 BY WeightIs
<1>5. Weight(Idle) <= Weight(op[p]) BY <1>3, <1>4
<1>6. BatchOf(Idle) = BatchOf(op[p]) BY <1>1, NothingIs, PlainlyIs
<1> QED BY <1>1, <1>2, <1>3, <1>5, <1>6, OnlyOp

LEMMA SummariseStep ==
  ASSUME Sound, NEW p \in Task, Summarise(p)
  PROVE  Sound' /\ Refines
<1> DEFINE ms == Context(entries, leaf)
<1>1. /\ op[p].pc \in {"stopping", "asleep"}
      /\ UNCHANGED <<ledgerVars, threadVars, known, job, boundVars>>
  BY DEF Summarise
<1>2. PICK cut \in Cuts(ms) :
        op' = [op EXCEPT ![p].pc = "summarising",
                         ![p].summary = Covered(SubSeq(ms, 1, cut - 1)),
                         ![p].tail = SubSeq(ms, cut, Len(ms))]
  BY DEF Summarise
<1>3. /\ op \in [Task -> OpRec] /\ op[p] \in OpRec /\ OpSound(op[p], rows)
      /\ ms \in Seq(Said) /\ known \in BOOLEAN
  BY Facts, RecordedIsSeq
<1> HIDE DEF ms
<1>4. cut \in 1 .. Len(ms) + 1 /\ Len(ms) \in Nat BY <1>3, LenProperties DEF Cuts
<1>5. SubSeq(ms, 1, cut - 1) \in Seq(Said) /\ SubSeq(ms, cut, Len(ms)) \in Seq(Said)
  BY <1>3, <1>4, Halves
<1>6. Covered(SubSeq(ms, 1, cut - 1)) \in SUBSET Nat
 <2>1. \A m \in ToSet(SubSeq(ms, 1, cut - 1)) : m \in Said BY <1>5, SetOfSeq
 <2> QED BY <2>1 DEF Covered, Said
<1> DEFINE c == Covered(SubSeq(ms, 1, cut - 1))
           t == SubSeq(ms, cut, Len(ms))
           o == [[[op[p] EXCEPT !.pc = "summarising"] EXCEPT !.summary = c] EXCEPT !.tail = t]
<1>7. op' = [op EXCEPT ![p] = o]
 <2>1. op' = [op EXCEPT ![p].pc = "summarising", ![p].summary = c, ![p].tail = t] BY <1>2
 <2> HIDE DEF c, t
 <2> QED BY <1>3, <2>1
<1> HIDE DEF c, t
<1>8. o \in OpRec BY <1>3, <1>5, <1>6 DEF OpRec, PCs, c, t
<1>9. o.pc = "summarising" /\ o.kind = op[p].kind /\ o.prior = op[p].prior BY <1>3 DEF OpRec
<1> HIDE DEF o
<1>10. Plainly(o) /\ Plainly(op[p]) /\ op[p].kind = "compact"
  BY <1>1, <1>3, <1>9 DEF Plainly, OpSound
<1>11. OpSound(o, rows) BY <1>3, <1>9, <1>10, SoundOfPlain
<1>12. Weight(o) <= Weight(op[p]) BY <1>1, <1>9 DEF Weight
<1> QED BY <1>1, <1>3, <1>7, <1>8, <1>10, <1>11, <1>12, PlainlyIs, OnlyOp

\* An operation goes on, and the idle task is told to stop.
LEMMA OnlyOpCancels ==
  ASSUME Sound, NEW p \in Task, NEW o \in OpRec, CancelIdle([op EXCEPT ![p] = o]),
         UNCHANGED ledgerVars, UNCHANGED threadVars, UNCHANGED job,
         BoundsTyped', submitted <= submitted',
         Weight(o) <= Weight(op[p]) + 2 * (submitted' - submitted), OpSound(o, rows),
         BatchOf(o) = BatchOf(op[p])
  PROVE  Sound' /\ Refines
<1> DEFINE f == [op EXCEPT ![p] = o]
           c == f["idle"].cancel \/ (known /\ ~Free("idle"))
<1>1. op \in [Task -> OpRec] /\ f \in [Task -> OpRec] /\ known \in BOOLEAN BY Facts
<1>2. f["idle"].cancel \in BOOLEAN BY <1>1 DEF OpRec, Task
<1>3. op' = [f EXCEPT !["idle"].cancel = c] /\ known' = FALSE BY DEF CancelIdle
<1>4. c \in BOOLEAN BY <1>2
<1> HIDE DEF c
<1>5. Sound' /\ UNCHANGED Writers!vars BY <1>3, <1>4, UnseenCancels DEF threadVars
<1> QED BY <1>5 DEF Refines

LEMMA CompactStep ==
  ASSUME Sound, NEW p \in Task, Compact(p)
  PROVE  Sound' /\ Refines
<1> DEFINE o == [[op[p] EXCEPT !.kind = "compact"] EXCEPT !.pc = "stopping"]
<1>1. /\ MayStart(p, {"free", "asleep", "summarising"})
      /\ CancelIdle([op EXCEPT ![p].kind = "compact", ![p].pc = "stopping"])
      /\ submitted' = submitted + 1
      /\ UNCHANGED <<ledgerVars, threadVars, job, spoken, crashes>>
  BY DEF Compact
<1>2. op \in [Task -> OpRec] /\ op[p] \in OpRec /\ OpSound(op[p], rows) BY Facts
<1>3. /\ BoundsTyped' /\ submitted <= submitted' /\ 2 * (submitted' - submitted) = 2
      /\ Weight(op[p]) \in Nat /\ op[p].pc = "free"
  BY <1>1, Starts
<1>4. [op EXCEPT ![p].kind = "compact", ![p].pc = "stopping"] = [op EXCEPT ![p] = o] BY <1>2
<1>5. o \in OpRec BY <1>2 DEF OpRec, PCs, OpKinds
<1>6. o.pc = "stopping" /\ o.kind = "compact" /\ o.prior = op[p].prior BY <1>2 DEF OpRec
<1>7. CancelIdle([op EXCEPT ![p] = o]) BY <1>1, <1>4
<1> HIDE DEF o
<1>8. Plainly(o) /\ Plainly(op[p]) BY <1>3, <1>6 DEF Plainly
<1>9. OpSound(o, rows) BY <1>2, <1>6, <1>8, SoundOfPlain
<1>10. Weight(o) <= Weight(op[p]) + 2 * (submitted' - submitted) BY <1>3, <1>6 DEF Weight
<1> QED BY <1>1, <1>3, <1>5, <1>7, <1>8, <1>9, <1>10, PlainlyIs, OnlyOpCancels

LEMMA AnnounceStep ==
  ASSUME Sound, NEW p \in Task, Announce(p)
  PROVE  Sound' /\ Refines
<1> DEFINE o == [op[p] EXCEPT !.pc = "announced"]
<1>1. /\ op[p].pc = "announcing" /\ UNCHANGED <<ledgerVars, threadVars, job, boundVars>>
  BY DEF Announce
<1>2. op \in [Task -> OpRec] /\ op[p] \in OpRec /\ OpSound(op[p], rows) BY Facts
<1>3. o \in OpRec /\ o.pc = "announced" /\ o.kind = op[p].kind /\ o.prior = op[p].prior
  BY <1>2 DEF OpRec, PCs
<1>4. [op EXCEPT ![p].pc = "announced"] = [op EXCEPT ![p] = o] BY <1>2
<1> HIDE DEF o
<1>5. Plainly(o) /\ Plainly(op[p]) BY <1>1, <1>3 DEF Plainly
<1>6. OpSound(o, rows) /\ BatchOf(o) = BatchOf(op[p])
  BY <1>2, <1>3, <1>5, SoundOfPlain, PlainlyIs
<1>7. Weight(o) <= Weight(op[p]) BY <1>1, <1>3 DEF Weight
<1>8. CASE p = "idle"
 <2>1. op' = [op EXCEPT ![p] = o] /\ known' \in BOOLEAN BY <1>4, <1>8 DEF Announce
 <2> QED BY <1>1, <1>3, <1>6, <1>7, <2>1, OnlyOp
<1>9. CASE p # "idle"
 <2>1. CancelIdle([op EXCEPT ![p] = o]) BY <1>4, <1>9 DEF Announce
 <2>2. BoundsTyped' /\ submitted' = submitted /\ submitted \in Nat
   BY <1>1, BoundsStay, Facts DEF boundVars
 <2>3. Weight(o) <= Weight(op[p]) + 2 * (submitted' - submitted) /\ submitted <= submitted'
   BY <1>7, <2>2, WeightIs
 <2> QED BY <1>1, <1>3, <1>6, <2>1, <2>2, <2>3, OnlyOpCancels
<1> QED BY <1>8, <1>9

\* Whatever is written at the leaf by one who takes nothing back: others see a capture.
LEMMA WritesOnly ==
  ASSUME Sound, NEW new \in Seq(Plain(entries)), Appends(new), Len(new) \in 0 .. MaxEntries,
         UNCHANGED <<BatchSeen, job>>
  PROVE  Refines
<1>1. LedgerTyped /\ Len(new) \in Nat BY Facts, LenProperties
<1>2. /\ TreeSeen' = Writers!Grown(TreeSeen, leaf, Len(new))
      /\ leaf' = IF Len(new) = 0 THEN leaf ELSE Len(TreeSeen) + Len(new)
      /\ Len(new) = 0 => TreeSeen' = TreeSeen
  BY <1>1, AppendsWrites DEF TreeSeen
<1>3. CASE Len(new) = 0
 <2>1. UNCHANGED Writers!vars BY <1>2, <1>3, SeenSame
 <2> QED BY <2>1 DEF Refines
<1>4. CASE Len(new) # 0
 <2>1. Len(new) \in 1 .. MaxEntries BY <1>1, <1>4
 <2>2. leaf' = Len(TreeSeen) + Len(new) BY <1>2, <1>4
 <2>3. Writers!Captures BY <1>2, <2>1, <2>2, SeenCaptures
 <2> QED BY <2>3 DEF Refines, Writers!Next
<1> QED BY <1>3, <1>4

\* An operation goes on, and what a graph holds is recorded.
LEMMA OpCaptures ==
  ASSUME Sound, NEW p \in Task, NEW o \in OpRec, op' = [op EXCEPT ![p] = o],
         Capture(thread) \/ UNCHANGED <<ledgerVars, cursor>>,
         UNCHANGED <<current, rows, graph, checkpoints, thread, known, job, boundVars>>,
         Weight(o) <= Weight(op[p]), OpSound(o, rows), BatchOf(o) = BatchOf(op[p])
  PROVE  Sound' /\ Refines
<1>1. /\ Typed /\ thread \in Thread /\ rows \in Nat /\ thread <= rows /\ LedgerTyped
      /\ entries \in Seq(EntryRow) /\ cursor \in [Thread -> Seq(Said)]
  BY Facts DEF Sound
<1>2. /\ \E new \in Seq(Plain(entries)) : Appends(new) /\ Len(new) \in 0 .. MaxEntries
      /\ cursor' \in [Thread -> Seq(Said)]
 <2>1. CASE Capture(thread) BY <1>1, <2>1, CaptureAppends
 <2>2. CASE UNCHANGED <<ledgerVars, cursor>>
  <3>1. <<>> \in Seq(Plain(entries)) /\ Len(<<>>) = 0 BY EmptySeq
  <3>2. entries' = entries /\ leaf' = leaf /\ cursor' = cursor BY <2>2 DEF ledgerVars
  <3>3. Appends(<<>>) BY <1>1, <3>2, ManyNone DEF Appends, End, LedgerTyped
  <3>4. Len(<<>>) \in 0 .. MaxEntries BY <3>1, Threads
  <3>5. \E new \in Seq(Plain(entries)) : Appends(new) /\ Len(new) \in 0 .. MaxEntries
    BY <3>1, <3>3, <3>4, Zenon
  <3> QED BY <1>1, <3>2, <3>5
 <2> QED BY <2>1, <2>2
<1>3. PICK new \in Seq(Plain(entries)) : Appends(new) /\ Len(new) \in 0 .. MaxEntries
  BY <1>2
<1>4. LedgerTyped' BY <1>1, <1>3, PlainSeq, AppendsIs
<1>5. ThreadsTyped' /\ rows <= rows' /\ thread' <= rows' /\ rows' = rows
  BY <1>1, <1>2, Facts, SMTT(30) DEF ThreadsTyped
<1>6. BoundsTyped' /\ submitted' = submitted /\ submitted \in Nat /\ known' \in BOOLEAN
  BY BoundsStay, Facts DEF boundVars
<1>7. job' \in [Worker -> Jobs] /\ JobsSound' BY RunsStay
<1>8. rows' + Weight(o) <= rows + Weight(op[p]) + 2 * (submitted' - submitted)
 <2>1. Weight(op[p]) \in Nat /\ Weight(o) \in Nat /\ 2 * (submitted' - submitted) = 0
   BY <1>6, WeightIs
 <2> QED BY <1>1, <1>5, <2>1
<1>9. Sound' /\ BatchSeen' = [BatchSeen EXCEPT ![p] = BatchOf(o)]
  BY <1>4, <1>5, <1>6, <1>7, <1>8, OpStep
<1>10. BatchSeen' = BatchSeen BY <1>9, SameBatch
<1>11. Refines BY <1>3, <1>10, WritesOnly
<1> QED BY <1>9, <1>11

LEMMA CommandEndsStep ==
  ASSUME Sound, NEW p \in Task, CommandEnds(p)
  PROVE  Sound' /\ Refines
<1>1. /\ Plainly(op[p]) /\ op' = [op EXCEPT ![p] = Idle]
      /\ Capture(thread) \/ UNCHANGED <<ledgerVars, cursor>>
      /\ UNCHANGED <<current, rows, graph, checkpoints, thread, known, job, boundVars>>
  BY DEF CommandEnds, Plainly
<1>2. rows \in Nat BY Facts
<1>3. Idle \in OpRec /\ Weight(Idle) = 0 /\ OpSound(Idle, rows) BY <1>2, IdleIs
<1>4. Weight(op[p]) \in 0 .. 2 BY WeightIs
<1>5. Weight(Idle) <= Weight(op[p]) BY <1>3, <1>4
<1>6. BatchOf(Idle) = BatchOf(op[p]) BY <1>1, NothingIs, PlainlyIs
<1> QED BY <1>1, <1>3, <1>5, <1>6, OpCaptures

LEMMA TurnCapturesStep ==
  ASSUME Sound, TurnCaptures
  PROVE  Sound' /\ Refines
<1> DEFINE o == [op["fg"] EXCEPT !.pc = "closing"]
<1>0. "fg" \in Task BY DEF Task
<1>1. /\ op["fg"].pc = "capturing" /\ Capture(thread)
      /\ UNCHANGED <<current, rows, graph, checkpoints, thread, known, job, boundVars>>
      /\ op' = [op EXCEPT !["fg"].pc = "closing"]
  BY DEF TurnCaptures
<1>2. op \in [Task -> OpRec] /\ op["fg"] \in OpRec /\ OpSound(op["fg"], rows) BY <1>0, Facts
<1>3. /\ o \in OpRec /\ o.pc = "closing" /\ o.kind = op["fg"].kind /\ o.prior = op["fg"].prior
      /\ op' = [op EXCEPT !["fg"] = o]
  BY <1>0, <1>1, <1>2 DEF OpRec, PCs
<1> HIDE DEF o
<1>4. Plainly(o) /\ Plainly(op["fg"]) BY <1>1, <1>3 DEF Plainly
<1>5. OpSound(o, rows) /\ BatchOf(o) = BatchOf(op["fg"])
  BY <1>2, <1>3, <1>4, SoundOfPlain, PlainlyIs
<1>6. Weight(o) <= Weight(op["fg"]) BY <1>1, <1>3 DEF Weight
<1> QED BY <1>0, <1>1, <1>3, <1>5, <1>6, OpCaptures

LEMMA TurnStopsStep ==
  ASSUME Sound, TurnStops
  PROVE  Sound' /\ Refines
<1> DEFINE o == [op["fg"] EXCEPT !.pc = "capturing"]
<1>0. "fg" \in Task BY DEF Task
<1>1. /\ op["fg"].pc = "streaming" /\ op' = [op EXCEPT !["fg"].pc = "capturing"]
      /\ UNCHANGED <<ledgerVars, threadVars, known, job, boundVars>>
  BY DEF TurnStops, Streaming
<1>2. op \in [Task -> OpRec] /\ op["fg"] \in OpRec /\ OpSound(op["fg"], rows) /\ known \in BOOLEAN
  BY <1>0, Facts
<1>3. /\ o \in OpRec /\ o.pc = "capturing" /\ o.kind = op["fg"].kind /\ o.prior = op["fg"].prior
      /\ op' = [op EXCEPT !["fg"] = o]
  BY <1>0, <1>1, <1>2 DEF OpRec, PCs
<1> HIDE DEF o
<1>4. Plainly(o) /\ Plainly(op["fg"]) BY <1>1, <1>3 DEF Plainly
<1>5. OpSound(o, rows) /\ BatchOf(o) = BatchOf(op["fg"])
  BY <1>2, <1>3, <1>4, SoundOfPlain, PlainlyIs
<1>6. Weight(o) <= Weight(op["fg"]) BY <1>1, <1>3 DEF Weight
<1> QED BY <1>0, <1>1, <1>2, <1>3, <1>5, <1>6, OnlyOp

\* Something is said in a thread that has one.
LEMMA SaidIsSeq ==
  ASSUME Sound, NEW t \in Thread, NEW m \in Said, Say(t, m)
  PROVE  /\ graph' \in [Thread -> Seq(Said)] /\ checkpoints' \in SUBSET Thread
         /\ spoken' \in Nat
<1>1. /\ graph \in [Thread -> Seq(Said)] /\ checkpoints \in SUBSET Thread /\ spoken \in Nat
  BY Facts
<1>2. Append(graph[t], m) \in Seq(Said) BY <1>1, AppendProperties
<1> QED BY <1>1, <1>2 DEF Say

LEMMA Words ==
  ASSUME NEW n \in Nat
  PROVE  /\ TextMessage(n) \in Said /\ CallMessage(n) \in Said
         /\ \A c \in Nat : ToolMessage(n, c) \in Said
  BY DEF TextMessage, CallMessage, ToolMessage, Said

LEMMA TurnOpensStep ==
  ASSUME Sound, TurnOpens
  PROVE  Sound' /\ Refines
<1> DEFINE o == [[op["fg"] EXCEPT !.pc = "streaming"] EXCEPT !.on = thread]
<1>0. "fg" \in Task BY DEF Task
<1>1. /\ op["fg"].kind = "turn" /\ op["fg"].pc = "announced"
      /\ Say(thread, TextMessage(spoken + 1))
      /\ op' = [op EXCEPT !["fg"].pc = "streaming", !["fg"].on = thread]
      /\ UNCHANGED <<ledgerVars, current, rows, cursor, thread, known, job, submitted, crashes>>
  BY DEF TurnOpens
<1>2. /\ op \in [Task -> OpRec] /\ op["fg"] \in OpRec /\ OpSound(op["fg"], rows)
      /\ known \in BOOLEAN /\ spoken \in Nat /\ thread \in Thread /\ thread <= rows
      /\ submitted \in Nat
  BY <1>0, Facts
<1>3. TextMessage(spoken + 1) \in Said BY <1>2, Words
<1>4. /\ graph' \in [Thread -> Seq(Said)] /\ checkpoints' \in SUBSET Thread /\ spoken' \in Nat
  BY <1>1, <1>2, <1>3, SaidIsSeq
<1>5. /\ o \in OpRec /\ o.pc = "streaming" /\ o.kind = "turn" /\ o.prior = op["fg"].prior
      /\ o.on = thread /\ op' = [op EXCEPT !["fg"] = o]
  BY <1>0, <1>1, <1>2 DEF OpRec, PCs
<1> HIDE DEF o
<1>6. Plainly(o) /\ Plainly(op["fg"]) BY <1>1, <1>5 DEF Plainly
<1>7. OpSound(o, rows) /\ BatchOf(o) = BatchOf(op["fg"])
 <2>1. OpSound(o, rows) BY <1>2, <1>5 DEF OpSound
 <2> QED BY <1>6, <2>1, PlainlyIs
<1>8. Weight(o) = 1 /\ Weight(op["fg"]) = 1 BY <1>1, <1>5 DEF Weight
<1>9. BoundsTyped' /\ submitted' = submitted BY <1>1, <1>4, BoundsStay
<1>10. Weight(o) <= Weight(op["fg"]) + 2 * (submitted' - submitted) /\ submitted <= submitted'
  BY <1>2, <1>8, <1>9
<1>11. known' \in BOOLEAN BY <1>1, <1>2
<1>12. Sound' /\ UNCHANGED Writers!vars
  BY <1>0, <1>1, <1>4, <1>5, <1>7, <1>9, <1>10, <1>11, Unseen
<1> QED BY <1>12 DEF Refines

\* No operation goes on: threads and graphs change.
LEMMA OpsStay ==
  ASSUME Sound, UNCHANGED op, UNCHANGED ledgerVars, UNCHANGED <<current, thread, rows, cursor>>,
         graph' \in [Thread -> Seq(Said)], checkpoints' \in SUBSET Thread, spoken' \in Nat,
         UNCHANGED <<submitted, crashes>>, UNCHANGED known, UNCHANGED job
  PROVE  Sound' /\ Refines
<1>1. LedgerTyped' /\ UNCHANGED <<TreeSeen, leaf>> BY LedgerStays
<1>2. job' \in [Worker -> Jobs] /\ JobsSound' BY RunsStay
<1>3. ThreadsTyped' /\ rows' = rows /\ thread' = thread BY ThreadsStay
<1>4. BoundsTyped' /\ submitted' = submitted BY BoundsStay
<1>5. /\ op' \in [Task -> OpRec] /\ known' \in BOOLEAN
      /\ RoomFor(op', rows', thread', submitted')
  BY <1>3, <1>4, Facts
<1>6. Sound' BY <1>1, <1>2, <1>3, <1>4, <1>5 DEF Sound, Typed, Room
<1>7. UNCHANGED BatchSeen BY DEF BatchSeen
<1>8. UNCHANGED Writers!vars BY <1>1, <1>7, SeenSame
<1> QED BY <1>6, <1>8 DEF Refines

LEMMA CoveredIs ==
  ASSUME NEW ms \in Seq(Said)
  PROVE  Covered(ms) \in SUBSET Nat
<1>1. \A m \in ToSet(ms) : m \in Said BY SetOfSeq
<1> QED BY <1>1 DEF Covered, Said

LEMMA LastOfThem ==
  ASSUME NEW S, NEW s \in Seq(S), s # <<>>
  PROVE  Last(s) \in S
<1>1. Len(s) \in Nat /\ Len(s) # 0 BY EmptySeq, LenProperties
<1>2. Len(s) \in 1 .. Len(s) BY <1>1
<1>3. s[Len(s)] \in S BY <1>2, ElementOfSeq
<1> QED BY <1>3 DEF Last

LEMMA TurnSpeaksStep ==
  ASSUME Sound, TurnSpeaks
  PROVE  Sound' /\ Refines
<1> DEFINE t == op["fg"].on
<1>0. "fg" \in Task BY DEF Task
<1>1. /\ op["fg"].pc = "streaming" /\ UNCHANGED <<ledgerVars, current, rows, cursor, thread>>
      /\ UNCHANGED <<op, known, job, submitted, crashes>>
  BY DEF TurnSpeaks, Streaming, taskVars
<1>2. /\ OpSound(op["fg"], rows) /\ spoken \in Nat /\ graph \in [Thread -> Seq(Said)]
  BY <1>0, Facts
<1>3. t \in Thread BY <1>1, <1>2 DEF OpSound
<1>4. \E m \in Said : Say(t, m)
 <2>1. CASE Asked
  <3>1. graph[t] # <<>> BY <2>1 DEF Asked
  <3>a. graph[t] \in Seq(Said) BY <1>2, <1>3
  <3> HIDE DEF t
  <3>b. Last(graph[t]) \in Said BY <3>1, <3>a, LastOfThem
  <3>2. Last(graph[t]).id \in Nat BY <3>b DEF Said
  <3>3. Say(t, ToolMessage(spoken + 1, Last(graph[t]).id)) BY <2>1 DEF TurnSpeaks, t
  <3>4. ToolMessage(spoken + 1, Last(graph[t]).id) \in Said BY <1>2, <3>2, Words
  <3> QED BY <3>3, <3>4
 <2>2. CASE ~Asked
  <3>1. Say(t, TextMessage(spoken + 1)) \/ Say(t, CallMessage(spoken + 1))
    BY <2>2 DEF TurnSpeaks
  <3>2. TextMessage(spoken + 1) \in Said /\ CallMessage(spoken + 1) \in Said BY <1>2, Words
  <3> QED BY <3>1, <3>2
 <2> QED BY <2>1, <2>2
<1> HIDE DEF t
<1>5. graph' \in [Thread -> Seq(Said)] /\ checkpoints' \in SUBSET Thread /\ spoken' \in Nat
  BY <1>3, <1>4, SaidIsSeq
<1> QED BY <1>1, <1>5, OpsStay

LEMMA TurnCondensesStep ==
  ASSUME Sound, TurnCondenses
  PROVE  Sound' /\ Refines
<1> DEFINE t == op["fg"].on
           ms == graph[t]
<1>0. "fg" \in Task BY DEF Task
<1>1. /\ op["fg"].pc = "streaming"
      /\ UNCHANGED <<ledgerVars, current, rows, cursor, checkpoints, thread>>
      /\ UNCHANGED <<op, known, job, boundVars>>
  BY DEF TurnCondenses, Streaming, taskVars
<1>2. /\ OpSound(op["fg"], rows) /\ spoken \in Nat /\ graph \in [Thread -> Seq(Said)]
      /\ checkpoints \in SUBSET Thread
  BY <1>0, Facts
<1>3. t \in Thread BY <1>1, <1>2 DEF OpSound
<1>4. PICK cut \in Cuts(ms) :
        graph' = [graph EXCEPT ![t] = <<SummaryMessage(Covered(SubSeq(@, 1, cut - 1)))>> \o
                                      SubSeq(@, cut, Len(@))]
  BY DEF TurnCondenses
<1>5. ms \in Seq(Said) BY <1>2, <1>3
<1>6. graph' = [graph EXCEPT ![t] = <<SummaryMessage(Covered(SubSeq(ms, 1, cut - 1)))>> \o
                                    SubSeq(ms, cut, Len(ms))]
  BY <1>4
<1> HIDE DEF ms, t
<1>7. cut \in 1 .. Len(ms) + 1 /\ Len(ms) \in Nat BY <1>5, LenProperties DEF Cuts
<1>8. SubSeq(ms, 1, cut - 1) \in Seq(Said) /\ SubSeq(ms, cut, Len(ms)) \in Seq(Said)
  BY <1>5, <1>7, Halves
<1>9. Covered(SubSeq(ms, 1, cut - 1)) \in SUBSET Nat BY <1>8, CoveredIs
<1>10. SummaryMessage(Covered(SubSeq(ms, 1, cut - 1))) \in Said
  BY <1>9 DEF SummaryMessage, Said
<1> DEFINE g == <<SummaryMessage(Covered(SubSeq(ms, 1, cut - 1)))>> \o SubSeq(ms, cut, Len(ms))
<1>11. g \in Seq(Said)
 <2>1. <<SummaryMessage(Covered(SubSeq(ms, 1, cut - 1)))>> \in Seq(Said) BY <1>10
 <2> QED BY <1>8, <2>1, ConcatProperties
<1> HIDE DEF g
<1>12. graph' = [graph EXCEPT ![t] = g] BY <1>6 DEF g
<1>13. graph' \in [Thread -> Seq(Said)] BY <1>2, <1>11, <1>12
<1>14. checkpoints' \in SUBSET Thread /\ spoken' \in Nat /\ UNCHANGED <<submitted, crashes>>
  BY <1>1, <1>2 DEF boundVars
<1> QED BY <1>1, <1>13, <1>14, OpsStay

LEMMA StartTurnStep ==
  ASSUME Sound, StartTurn
  PROVE  Sound' /\ Refines
<1>0. "fg" \in Task BY DEF Task
<1>1. /\ MayStart("fg", {"free", "asleep", "summarising"}) /\ submitted' = submitted + 1
      /\ UNCHANGED <<ledgerVars, current, rows, cursor, thread, known, job, spoken, crashes>>
  BY DEF StartTurn
<1>2. /\ op \in [Task -> OpRec] /\ thread \in Thread /\ thread <= rows /\ rows \in Nat
      /\ graph \in [Thread -> Seq(Said)] /\ checkpoints \in SUBSET Thread
      /\ submitted \in Nat /\ known \in BOOLEAN
  BY Facts
<1>3. /\ BoundsTyped' /\ submitted <= submitted' /\ 2 * (submitted' - submitted) = 2
      /\ Weight(op["fg"]) \in Nat /\ BatchOf(op["fg"]) = Writers!Nothing
  BY <1>1, Starts
<1>4. \E o \in OpRec : /\ op' = [op EXCEPT !["fg"] = o]
                       /\ graph' \in [Thread -> Seq(Said)] /\ checkpoints' \in SUBSET Thread
                       /\ Weight(o) \in 0 .. 2 /\ OpSound(o, rows) /\ BatchOf(o) = Writers!Nothing
 <2>1. CASE ReseedPending
  <3> DEFINE q == [Idle EXCEPT !.kind = "turn"]
             o == [q EXCEPT !.pc = "reading", !.on = thread, !.seed = Context(entries, leaf)]
  <3>1. StartSeed("fg", q, entries, leaf, thread) BY <2>1 DEF StartTurn
  <3>2. /\ op' = [op EXCEPT !["fg"] = o] /\ checkpoints' = checkpoints \ {thread}
        /\ graph' = [graph EXCEPT ![thread] = <<>>]
    BY <3>1 DEF StartSeed
  <3>3. Context(entries, leaf) \in Seq(Said) /\ Idle \in OpRec /\ OpSound(Idle, rows)
    BY <1>2, Facts, RecordedIsSeq, IdleIs
  <3>4. q \in OpRec /\ q.kind = "turn" /\ q.prior = Idle.prior BY <3>3 DEF OpRec, OpKinds
  <3> HIDE DEF q
  <3>5. /\ o \in OpRec /\ o.pc = "reading" /\ o.kind = "turn" /\ o.on = thread
        /\ o.prior = Idle.prior
    BY <1>2, <3>3, <3>4 DEF OpRec, PCs
  <3> HIDE DEF o
  <3>6. OpSound(o, rows) BY <1>2, <3>3, <3>5 DEF OpSound
  <3>7. BatchOf(o) = Writers!Nothing BY <3>5, NothingIs
  <3>8. graph' \in [Thread -> Seq(Said)] /\ checkpoints' \in SUBSET Thread
    BY <1>2, <3>2, EmptySeq
  <3> QED BY <3>2, <3>5, <3>6, <3>7, <3>8, WeightIs
 <2>2. CASE ~ReseedPending
  <3> DEFINE o == [Idle EXCEPT !.kind = "turn", !.pc = "announcing"]
  <3>1. op' = [op EXCEPT !["fg"] = o] /\ UNCHANGED <<graph, checkpoints>>
    BY <2>2 DEF StartTurn
  <3>2. Idle \in OpRec /\ OpSound(Idle, rows) BY <1>2, IdleIs
  <3>3. o \in OpRec /\ o.pc = "announcing" /\ o.kind = "turn" /\ o.prior = Idle.prior
    BY <3>2 DEF OpRec, OpKinds, PCs
  <3> HIDE DEF o
  <3>4. Plainly(o) BY <3>3 DEF Plainly
  <3>5. OpSound(o, rows) /\ BatchOf(o) = Writers!Nothing
    BY <3>2, <3>3, <3>4, SoundOfPlain, PlainlyIs
  <3> QED BY <1>2, <3>1, <3>3, <3>5, WeightIs
 <2> QED BY <2>1, <2>2
<1>5. PICK o \in OpRec : /\ op' = [op EXCEPT !["fg"] = o]
                         /\ graph' \in [Thread -> Seq(Said)] /\ checkpoints' \in SUBSET Thread
                         /\ Weight(o) \in 0 .. 2 /\ OpSound(o, rows)
                         /\ BatchOf(o) = Writers!Nothing
  BY <1>4
<1>6. Weight(o) <= Weight(op["fg"]) + 2 * (submitted' - submitted) BY <1>3, <1>5
<1>7. known' \in BOOLEAN /\ UNCHANGED ledgerVars /\ UNCHANGED <<current, thread, rows, cursor>>
      /\ UNCHANGED job
  BY <1>1, <1>2
<1>8. Sound' /\ UNCHANGED Writers!vars BY <1>0, <1>3, <1>5, <1>6, <1>7, Unseen
<1> QED BY <1>8 DEF Refines

LEMMA TurnEndsStep ==
  ASSUME Sound, TurnEnds
  PROVE  Sound' /\ Refines
<1> DEFINE waits == AutoCompact /\ Free("idle")
           a == [[Idle EXCEPT !.kind = "compact"] EXCEPT !.pc = "asleep"]
           o == IF waits THEN a ELSE op["idle"]
           f == [op EXCEPT !["fg"] = Idle]
<1>0. "fg" \in Task /\ "idle" \in Task /\ "fg" # "idle" BY DEF Task
<1>1. /\ op["fg"].pc = "closing" /\ known' = (known \/ waits)
      /\ UNCHANGED <<ledgerVars, threadVars, job, boundVars>>
      /\ op' = [op EXCEPT !["fg"] = Idle,
                          !["idle"] = IF waits THEN [Idle EXCEPT !.kind = "compact", !.pc = "asleep"]
                                      ELSE @]
  BY DEF TurnEnds
<1>2. /\ op \in [Task -> OpRec] /\ RoomFor(op, rows, thread, submitted) /\ rows \in Nat
      /\ thread \in Thread /\ submitted \in Nat /\ known \in BOOLEAN /\ thread <= rows
      /\ OpSound(op["idle"], rows) /\ op["idle"] \in OpRec /\ rows >= 1
      /\ \A q \in Task : op[q] \in OpRec /\ OpSound(op[q], rows)
      /\ rows + Weights(op) <= 1 + 2 * submitted
  BY <1>0, Facts DEF RoomFor
<1>3. Idle \in OpRec /\ Weight(Idle) = 0 /\ OpSound(Idle, rows) BY <1>2, IdleIs
<1>4. a \in OpRec /\ a.kind = "compact" /\ a.pc = "asleep" /\ a.prior = Idle.prior
  BY <1>3 DEF OpRec, OpKinds, PCs
<1> HIDE DEF a
<1>5. /\ o \in OpRec /\ OpSound(o, rows) /\ BatchOf(o) = BatchOf(op["idle"])
      /\ Weight(o) <= Weight(op["idle"]) + 1
 <2>1. CASE waits
  <3>1. Plainly(a) /\ Plainly(op["idle"]) /\ a.pc # "streaming"
    BY <1>4, <2>1 DEF Plainly, Free
  <3>2. OpSound(a, rows) /\ BatchOf(a) = BatchOf(op["idle"])
   <4>1. a.pc \in {"asleep", "stopping", "summarising"} => a.kind = "compact" BY <1>4
   <4> QED BY <1>3, <1>4, <3>1, <4>1, SoundOfPlain, PlainlyIs
  <3>3. Weight(a) = 1 /\ Weight(op["idle"]) \in 0 .. 2 BY <1>4, WeightIs DEF Weight
  <3> QED BY <1>4, <2>1, <3>2, <3>3
 <2>2. CASE ~waits
  <3>1. Weight(op["idle"]) \in 0 .. 2 BY WeightIs
  <3> QED BY <1>2, <2>2, <3>1
 <2> QED BY <2>1, <2>2
<1>6. op' = [f EXCEPT !["idle"] = o] BY <1>0, <1>1, <1>2 DEF a
<1> HIDE DEF o
<1>7. /\ f \in [Task -> OpRec] /\ f["fg"] = Idle
      /\ \A q \in Task \ {"fg"} : f[q] = op[q]
  BY <1>0, <1>2, <1>3
<1> HIDE DEF f
<1>8. /\ op' \in [Task -> OpRec] /\ op'["idle"] = o
      /\ \A q \in Task \ {"idle"} : op'[q] = f[q]
  BY <1>0, <1>5, <1>6, <1>7
<1>9. Weights(op') <= Weights(op) /\ Weights(op') \in Nat
 <2>1. Weight(op["fg"]) = 1 /\ Weight(op["idle"]) \in Nat /\ Weight(o) \in Nat
   BY <1>1, WeightIs DEF Weight
 <2>2. Weights(f) = Weights(op) - Weight(op["fg"]) + Weight(f["fg"])
       /\ Weights(op) \in Nat /\ Weights(f) \in Nat
   BY <1>0, <1>7, WeightsOfOne
 <2>3. Weights(op') = Weights(f) - Weight(f["idle"]) + Weight(op'["idle"])
       /\ Weights(op') \in Nat
   BY <1>0, <1>8, WeightsOfOne
 <2>4. f["idle"] = op["idle"] /\ Weight(f["fg"]) = 0 /\ Weight(op'["idle"]) = Weight(o)
   BY <1>0, <1>3, <1>7, <1>8
 <2> QED BY <1>5, <2>1, <2>2, <2>3, <2>4
<1>10. \A q \in Task : OpSound(op'[q], rows) BY <1>2, <1>3, <1>5, <1>7, <1>8
<1>11. RoomFor(op', rows, thread, submitted)
 <2>1. rows + Weights(op') <= 1 + 2 * submitted
  <3>1. Weights(op) \in Nat BY <1>0, Weighed
  <3> QED BY <1>2, <1>9, <3>1
 <2> QED BY <1>2, <1>10, <2>1 DEF RoomFor
<1>12. \A q \in Task : BatchOf(op'[q]) = BatchOf(op[q])
 <2>1. BatchOf(op'["fg"]) = BatchOf(op["fg"])
  <3>1. op'["fg"] = Idle /\ Plainly(op["fg"]) BY <1>0, <1>1, <1>7, <1>8 DEF Plainly
  <3> QED BY <3>1, NothingIs, PlainlyIs
 <2>2. BatchOf(op'["idle"]) = BatchOf(op["idle"]) BY <1>5, <1>8
 <2>3. \A q \in Task \ {"fg", "idle"} : op'[q] = op[q] BY <1>7, <1>8
 <2> HIDE DEF BatchOf
 <2> QED BY <2>1, <2>2, <2>3
<1>13. UNCHANGED BatchSeen BY <1>12 DEF BatchSeen, Batches
<1>14. LedgerTyped' /\ UNCHANGED <<TreeSeen, leaf>> BY <1>1, LedgerStays
<1>15. job' \in [Worker -> Jobs] /\ JobsSound' BY <1>1, RunsStay
<1>16. ThreadsTyped' /\ rows' = rows /\ thread' = thread
  BY <1>1, Facts DEF threadVars, ThreadsTyped
<1>17. BoundsTyped' /\ submitted' = submitted BY <1>1, BoundsStay, Facts DEF boundVars
<1>18. known' \in BOOLEAN BY <1>1
<1>19. Sound' BY <1>8, <1>11, <1>14, <1>15, <1>16, <1>17, <1>18 DEF Sound, Typed, Room
<1>20. UNCHANGED Writers!vars BY <1>1, <1>13, <1>14, SeenSame
<1> QED BY <1>19, <1>20 DEF Refines

LEMMA HeldIs ==
  ASSUME NEW S, NEW s \in Seq(S), NEW e
  PROVE  Contains(s, e) <=> e \in ToSet(s)
<1>1. DOMAIN s = 1 .. Len(s) BY LenProperties
<1> QED BY <1>1 DEF Contains, ToSet

LEMMA PersistJobStep ==
  ASSUME Sound, NEW w \in Worker, PersistJob(w)
  PROVE  Sound' /\ Refines
<1> DEFINE e == job[w].entry
           path == Path(entries, leaf)
<1>1. /\ UNCHANGED <<current, rows, cursor, graph, checkpoints, thread, op, known, boundVars>>
      /\ job[w].state \in {"unborn", "attached"}
  BY DEF PersistJob, threadVars, taskVars
<1>2. /\ entries \in Seq(EntryRow) /\ PathsAscend(entries) /\ leaf \in 0 .. Len(entries)
      /\ Len(entries) \in Nat /\ job \in [Worker -> Jobs] /\ rows \in Nat /\ thread <= rows
      /\ LedgerTyped
  BY Facts
<1>3. /\ job[w].state = "unborn" => e = 0
      /\ job[w].state = "attached" => e # 0
      /\ e \in Nat /\ JobsSound
  BY <1>2 DEF Sound, JobsSound, Jobs
<1>4. path \in Seq(Nat) /\ Writers!Above(TreeSeen, leaf) = ToSet(path)
  BY <1>2, PathIsSeq, TreeIs DEF TreeSeen
<1>5. OnPath(e) <=> e \in Writers!Above(TreeSeen, leaf) BY <1>4, HeldIs DEF OnPath
<1>6. ThreadsTyped' /\ BoundsTyped' /\ op' \in [Task -> OpRec] /\ known' \in BOOLEAN /\ Room'
 <2>1. ThreadsTyped /\ BoundsTyped /\ op \in [Task -> OpRec] /\ known \in BOOLEAN /\ Room
   BY DEF Sound, Typed
 <2>2. ThreadsTyped' /\ BoundsTyped' BY <1>1, <2>1 DEF ThreadsTyped, BoundsTyped, boundVars
 <2>3. Room' BY <1>1, <2>1 DEF Room, boundVars
 <2> QED BY <1>1, <2>1, <2>2, <2>3
<1>7. UNCHANGED BatchSeen BY <1>1 DEF BatchSeen
<1>8. CASE e # 0 /\ ~OnPath(e)
 <2>1. job' = [job EXCEPT ![w].state = "detached"] /\ UNCHANGED ledgerVars
   BY <1>8 DEF PersistJob
 <2>2. LedgerTyped' /\ UNCHANGED <<TreeSeen, leaf>> BY <2>1, LedgerStays
 <2>3. job[w].state = "attached" /\ job[w].entry \notin Writers!Above(TreeSeen, leaf)
   BY <1>1, <1>3, <1>5, <1>8
 <2>4. job' \in [Worker -> Jobs] /\ JobsSound' BY <1>2, <1>3, <2>1 DEF Jobs, JobsSound
 <2>5. Writers!Leaves(w) BY <1>7, <2>1, <2>2, <2>3, SeenLeaves
 <2>6. Sound' BY <1>6, <2>2, <2>4 DEF Sound, Typed
 <2> QED BY <2>5, <2>6 DEF Refines, Writers!Next
<1>9. CASE ~(e # 0 /\ ~OnPath(e))
 <2> DEFINE id == Len(entries) + 1
            row == Row(JobEntry(w), leaf, Append(path, id))
 <2>1. /\ entries' = Placed(entries, leaf, JobEntry(w)) /\ leaf' = Len(entries')
       /\ job' = [job EXCEPT ![w] = [state |-> "attached", entry |-> Len(entries')]]
   BY <1>9 DEF PersistJob
 <2>2. JobEntry(w) \in EntryIn /\ JobEntry(w).kept <= Len(entries) /\ JobEntry(w).job = w
  <3>1. NoMessage \in Said BY DEF NoMessage, Said
  <3> QED BY <1>2, <3>1 DEF JobEntry, Entry, EntryIn, Kinds, NoMark
 <2>3. /\ entries' \in Seq(EntryRow) /\ PathsAscend(entries') /\ Len(entries') = id
       /\ \A i \in 1 .. Len(entries) : entries'[i] = entries[i]
       /\ entries'[id] = row
   BY <1>2, <2>1, <2>2, PlacedIs DEF Extends
 <2>4. leaf' = id /\ id \in Nat /\ id # 0 BY <1>2, <2>1, <2>3
 <2>5. Append(path, id) \in Seq(Nat) /\ ToSet(Append(path, id)) = ToSet(path) \cup {id}
   BY <1>4, <2>4, SetOfAppend, AppendProperties
 <2>6. row.job = w /\ row.path = Append(path, id)
  <3>1. leaf \in Nat /\ Append(path, id) \in Seq(Nat) /\ JobEntry(w) \in EntryIn
    BY <1>2, <2>2, <2>5
  <3> HIDE DEF path, id
  <3> QED BY <2>2, <3>1, RowIs
 <2> HIDE DEF row
 <2>7. LedgerTyped' BY <2>3, <2>4 DEF LedgerTyped
 <2>8. job' \in [Worker -> Jobs] /\ JobsSound'
   BY <1>2, <1>3, <2>1, <2>3, <2>4 DEF Jobs, JobsSound
 <2>9. Sound' BY <1>6, <2>7, <2>8 DEF Sound, Typed
 <2> DEFINE a == [of |-> {w}, above |-> Writers!Above(TreeSeen, leaf) \cup {id}]
            R == [of : SUBSET Worker, above : SUBSET Nat]
 <2>10. /\ TreeSeen \in Seq(R) /\ Len(TreeSeen) = Len(entries)
        /\ \A i \in 1 .. Len(entries) :
             TreeSeen[i] = [of |-> {entries[i].job} \ {"none"}, above |-> ToSet(entries[i].path)]
   BY <1>2, TreeIs DEF TreeSeen
 <2>11. /\ Tree(entries') \in Seq(R) /\ Len(Tree(entries')) = id
        /\ \A i \in 1 .. id :
             Tree(entries')[i]
               = [of |-> {entries'[i].job} \ {"none"}, above |-> ToSet(entries'[i].path)]
   BY <2>3, TreeIs
 <2>12. TreeSeen' = Tree(entries') BY DEF TreeSeen, Tree
 <2>13. a \in R
  <3>1. ToSet(path) \in SUBSET Nat BY <1>4, SetOfSeq
  <3> QED BY <1>4, <2>4, <3>1
 <2>14. /\ Append(TreeSeen, a) \in Seq(R) /\ Len(Append(TreeSeen, a)) = id
        /\ \A i \in 1 .. Len(entries) : Append(TreeSeen, a)[i] = TreeSeen[i]
        /\ Append(TreeSeen, a)[id] = a
  <3> HIDE DEF a, R
  <3> QED BY <1>2, <2>10, <2>13, AppendProperties
 <2>15. Tree(entries')[id] = a
  <3>1. id \in 1 .. id /\ "none" \notin Worker /\ {w} \ {"none"} = {w} BY <2>4, Threads
  <3>2. entries'[id].job = w /\ ToSet(entries'[id].path) = ToSet(path) \cup {id}
    BY <2>3, <2>5, <2>6
  <3> QED BY <1>4, <2>11, <3>1, <3>2
 <2> HIDE DEF a, R
 <2>16. ASSUME NEW i \in 1 .. id PROVE Tree(entries')[i] = Append(TreeSeen, a)[i]
  <3>1. CASE i = id BY <2>14, <2>15, <3>1
  <3>2. CASE i # id
   <4>1. i \in 1 .. Len(entries) BY <1>2, <3>2
   <4> QED BY <2>3, <2>10, <2>11, <2>14, <4>1
  <3> QED BY <3>1, <3>2
 <2>17. Tree(entries') = Append(TreeSeen, a) BY <2>11, <2>14, <2>16, SeqEqual
 <2>18. \/ job[w].state = "unborn"
        \/ job[w].state = "attached" /\ job[w].entry \in Writers!Above(TreeSeen, leaf)
   BY <1>1, <1>3, <1>5, <1>9
 <2>19. Writers!Persists(w)
  <3>1. id = Len(TreeSeen) + 1 BY <2>10
  <3>2. job' = [job EXCEPT ![w] = [state |-> "attached", entry |-> id]] BY <2>1, <2>3
  <3>3. TreeSeen' = Append(TreeSeen, [of |-> {w}, above |-> Writers!Above(TreeSeen, leaf) \cup {id}])
    BY <2>12, <2>17 DEF a
  <3> HIDE DEF id
  <3> QED BY <1>7, <2>4, <2>18, <3>1, <3>2, <3>3, SeenPersists
 <2> QED BY <2>9, <2>19 DEF Refines, Writers!Next
<1> QED BY <1>8, <1>9

\* The session's thread has a row, also where an operation would go back to.
Seated == current < rows /\ \A p \in Task : op[p].prior.current < rows

LEMMA LastJobIs ==
  ASSUME NEW es \in Seq(EntryRow), PathsAscend(es), NEW at \in 0 .. Len(es), NEW w,
         NEW e, e = LastJob(es, at, w), e # 0
  PROVE  e \in ToSet(Path(es, at)) /\ e \in 1 .. Len(es) /\ es[e].job = w
<1> DEFINE ids == Path(es, at)
           U == {i \in 1 .. Len(ids) : es[ids[i]].job = w}
           k == LastOf(U)
<1>1. Ascend(ids, at) /\ ids \in Seq(Nat) /\ Len(ids) \in Nat /\ Len(es) \in Nat /\ at \in Nat
  BY PathAscends, LenProperties DEF Ascend
<1>2. U \in SUBSET (1 .. Len(ids)) /\ DOMAIN ids = 1 .. Len(ids) BY <1>1, LenProperties
<1>3. e = IF k = 0 THEN 0 ELSE ids[k] BY DEF LastJob, SelectLastInSeq, LastOf
<1>4. \A i \in U : i \in 1 .. Len(ids) /\ es[ids[i]].job = w OBVIOUS
<1> HIDE DEF U, ids
<1>5. k # 0 => k \in U BY <1>1, <1>2, LastIs
<1> HIDE DEF k
<1>6. k \in 1 .. Len(ids) /\ es[ids[k]].job = w /\ e = ids[k] BY <1>3, <1>4, <1>5
<1>7. ids[k] \in 1 .. at BY <1>1, <1>6 DEF Ascend
<1>8. e \in ToSet(ids) BY <1>2, <1>6 DEF ToSet
<1>9. e \in 1 .. Len(es) BY <1>1, <1>6, <1>7
<1> QED BY <1>6, <1>8, <1>9 DEF ids

LEMMA SpareThread ==
  ASSUME NEW r \in Nat, NEW s \in Nat, NEW k \in Nat, NEW c \in Nat,
         NEW w \in Nat, r + w <= 1 + 2 * s, s <= k, c >= 1
  PROVE  r \in 0 .. 2 * k + c
  OBVIOUS

LEMMA RestartStep ==
  ASSUME Sound, Seated, Restart
  PROVE  Sound' /\ Refines
<1> DEFINE live == current # None /\ current \in checkpoints
<1>1. /\ crashes < MaxCrashes /\ crashes' = crashes + 1
      /\ op' = [p \in Task |-> Idle] /\ known' = FALSE
      /\ IF live THEN Capture(current) ELSE UNCHANGED <<ledgerVars, cursor>>
      /\ IF live /\ ~Dangling(entries', leaf')
         THEN thread' = current /\ UNCHANGED current
         ELSE current' = None /\ thread' = IF live THEN rows ELSE SeedTarget
      /\ job' = [w \in Worker |->
                   LET e == LastJob(entries', leaf', w)
                   IN  IF e # 0 THEN [state |-> "attached", entry |-> e]
                       ELSE IF job[w].state = "unborn" THEN job[w]
                       ELSE [state |-> "detached", entry |-> 0]]
      /\ UNCHANGED <<rows, graph, checkpoints, spoken, submitted>>
  BY DEF Restart
<1>2. /\ entries \in Seq(EntryRow) /\ PathsAscend(entries) /\ leaf \in 0 .. Len(entries)
      /\ rows \in Nat /\ submitted \in Nat /\ submitted <= MaxSubmissions /\ spoken \in Nat
      /\ crashes \in Nat /\ current \in Thread \cup {None} /\ LedgerTyped
      /\ graph \in [Thread -> Seq(Said)] /\ cursor \in [Thread -> Seq(Said)]
      /\ checkpoints \in SUBSET Thread /\ job \in [Worker -> Jobs]
  BY Facts
<1>3. /\ MaxSubmissions \in Nat /\ MaxCrashes \in Nat /\ 0 \in Thread /\ Thread \subseteq Nat
      /\ Thread = 0 .. 2 * MaxSubmissions + MaxCrashes /\ None = -1 /\ MaxEntries \in Nat
  BY Threads
<1>4. /\ Typed /\ JobsSound /\ rows >= 1 /\ rows + Weights(op) <= 1 + 2 * submitted
  BY DEF Sound, Room, RoomFor
<1>5. /\ \E new \in Seq(Plain(entries)) : Appends(new) /\ Len(new) \in 0 .. MaxEntries
      /\ cursor' \in [Thread -> Seq(Said)]
 <2>1. CASE live
  <3>1. current \in Thread /\ Capture(current) BY <1>1, <1>2, <2>1
  <3> QED BY <1>4, <3>1, CaptureAppends
 <2>2. CASE ~live
  <3>1. <<>> \in Seq(Plain(entries)) /\ Len(<<>>) = 0 BY EmptySeq
  <3>2. entries' = entries /\ leaf' = leaf /\ cursor' = cursor BY <1>1, <2>2 DEF ledgerVars
  <3>3. Appends(<<>>) BY <1>2, <3>2, ManyNone DEF Appends, End
  <3>4. Len(<<>>) \in 0 .. MaxEntries BY <1>3, <3>1
  <3>5. \E new \in Seq(Plain(entries)) : Appends(new) /\ Len(new) \in 0 .. MaxEntries
    BY <3>1, <3>3, <3>4, Zenon
  <3> QED BY <1>2, <3>2, <3>5
 <2> QED BY <2>1, <2>2
<1>6. PICK new \in Seq(Plain(entries)) : Appends(new) /\ Len(new) \in 0 .. MaxEntries
  BY <1>5
<1>7. LedgerTyped' BY <1>2, <1>6, PlainSeq, AppendsIs
<1>8. rows \in Thread /\ rows <= 1 + 2 * submitted
 <2>1. Weights(op) \in Nat
  <3>1. "fg" \in Task BY DEF Task
  <3> QED BY <3>1, Weighed
 <2>2. MaxCrashes >= 1 BY <1>1, <1>2, <1>3
 <2>3. rows \in 0 .. 2 * MaxSubmissions + MaxCrashes
   BY <1>2, <1>3, <1>4, <2>1, <2>2, SpareThread
 <2> QED BY <1>2, <1>3, <1>4, <2>1, <2>3
<1>9. /\ thread' \in Thread /\ thread' <= rows /\ current' \in Thread \cup {None}
      /\ current' < rows
 <2>1. SeedTarget \in Thread /\ SeedTarget <= rows
  <3>1. current # None => current \in Thread /\ current <= rows BY <1>2, <1>3 DEF Seated
  <3>2. \/ SeedTarget = current /\ current # None
        \/ SeedTarget = 0
        \/ SeedTarget = rows
    BY DEF SeedTarget
  <3>3. 0 \in Thread /\ rows \in Nat /\ rows \in Thread BY <1>2, <1>3, <1>8
  <3> HIDE DEF live
  <3>4. CASE SeedTarget = current /\ current # None BY <3>1, <3>4
  <3>5. CASE SeedTarget = 0 BY <3>3, <3>5
  <3>6. CASE SeedTarget = rows BY <3>3, <3>6
  <3> QED BY <3>2, <3>4, <3>5, <3>6
 <2>2. CASE live /\ ~Dangling(entries', leaf')
  <3>1. thread' = current /\ current' = current /\ current \in Thread BY <1>1, <1>2, <2>2
  <3> QED BY <1>2, <1>3, <3>1 DEF Seated
 <2>3. CASE ~(live /\ ~Dangling(entries', leaf'))
  <3>1. current' = None /\ thread' = IF live THEN rows ELSE SeedTarget BY <1>1, <2>3
  <3> QED BY <1>2, <1>3, <1>4, <1>8, <2>1, <3>1
 <2> QED BY <2>2, <2>3
<1>10. ThreadsTyped' BY <1>1, <1>2, <1>5, <1>9 DEF ThreadsTyped
<1>11. BoundsTyped' BY <1>1, <1>2, <1>3 DEF BoundsTyped
<1>12. op' \in [Task -> OpRec] /\ Room'
 <2>1. Idle \in OpRec /\ Weight(Idle) = 0 /\ OpSound(Idle, rows) BY <1>2, IdleIs
 <2>2. \A p \in Task : op'[p] = Idle BY <1>1
 <2>3. Weights(op') = 0 BY <2>1, <2>2 DEF Weights, Task
 <2>4. rows' = rows /\ submitted' = submitted BY <1>1
 <2>5. RoomFor(op', rows', thread', submitted')
   BY <1>2, <1>4, <1>8, <1>9, <2>1, <2>2, <2>3, <2>4, SMTT(30) DEF RoomFor
 <2> QED BY <1>1, <2>1, <2>5 DEF Room
<1> DEFINE R == [of : SUBSET Worker, above : SUBSET Nat]
<1>13. /\ entries' \in Seq(EntryRow) /\ PathsAscend(entries') /\ leaf' \in 0 .. Len(entries')
       /\ TreeSeen' = Tree(entries')
  BY <1>7 DEF LedgerTyped, TreeSeen, Tree
<1>14. /\ Len(Tree(entries')) = Len(entries') /\ Len(entries') \in Nat
       /\ \A i \in 1 .. Len(entries') :
            Tree(entries')[i] = [of |-> {entries'[i].job} \ {"none"}, above |-> ToSet(entries'[i].path)]
       /\ Writers!Above(Tree(entries'), leaf') = ToSet(Path(entries', leaf'))
  BY <1>13, TreeIs
<1>15. ASSUME NEW w \in Worker
       PROVE  /\ job'[w] \in [state : {"unborn", "attached", "detached"}, entry : 0 .. Len(Tree(entries'))]
              /\ job'[w].state = "unborn" => job'[w].entry = 0
              /\ job'[w].state = "attached" => job'[w].entry # 0
              /\ \/ \E e \in Writers!Above(Tree(entries'), leaf') :
                      Tree(entries')[e].of = {w} /\ job'[w] = [state |-> "attached", entry |-> e]
                 \/ job[w].state = "unborn" /\ job'[w] = job[w]
                 \/ job'[w] = [state |-> "detached", entry |-> 0]
 <2> DEFINE e == LastJob(entries', leaf', w)
 <2>1. job'[w] = IF e # 0 THEN [state |-> "attached", entry |-> e]
                 ELSE IF job[w].state = "unborn" THEN job[w]
                 ELSE [state |-> "detached", entry |-> 0]
   BY <1>1
 <2>2. CASE e # 0
  <3>1. /\ e \in ToSet(Path(entries', leaf')) /\ e \in 1 .. Len(entries')
        /\ entries'[e].job = w
    BY <1>13, <2>2, LastJobIs
  <3>a. Tree(entries')[e] = [of |-> {entries'[e].job} \ {"none"}, above |-> ToSet(entries'[e].path)]
    BY <1>14, <3>1
  <3>b. {w} \ {"none"} = {w} BY Threads
  <3>2. Tree(entries')[e].of = {w} BY <3>1, <3>a, <3>b
  <3>3. job'[w] = [state |-> "attached", entry |-> e] BY <2>1, <2>2
  <3> HIDE DEF e
  <3>4. e \in 0 .. Len(Tree(entries')) /\ e # 0 BY <1>14, <3>1
  <3>5. e \in Writers!Above(Tree(entries'), leaf') BY <1>14, <3>1
  <3> QED BY <3>2, <3>3, <3>4, <3>5
 <2>3. CASE e = 0 /\ job[w].state = "unborn"
  <3>1. job'[w] = job[w] /\ job[w] \in Jobs /\ job[w].entry = 0
    BY <1>2, <1>4, <2>1, <2>3 DEF JobsSound
  <3>2. 0 \in 0 .. Len(Tree(entries')) BY <1>14
  <3> QED BY <2>3, <3>1, <3>2 DEF Jobs
 <2>4. CASE e = 0 /\ job[w].state # "unborn"
  <3>1. job'[w] = [state |-> "detached", entry |-> 0] BY <2>1, <2>4
  <3>2. 0 \in 0 .. Len(Tree(entries')) BY <1>14
  <3> QED BY <3>1, <3>2
 <2> QED BY <2>2, <2>3, <2>4
<1>16. /\ job' \in [Worker -> [state : {"unborn", "attached", "detached"},
                               entry : 0 .. Len(Tree(entries'))]]
 <2>1. DOMAIN job' = Worker /\ job' = [w \in Worker |-> job'[w]] BY <1>1
 <2> QED BY <1>15, <2>1
<1>17. job' \in [Worker -> Jobs] /\ JobsSound'
 <2>1. 0 .. Len(Tree(entries')) \subseteq Nat OBVIOUS
 <2>2. job' \in [Worker -> Jobs] BY <1>16, <2>1 DEF Jobs
 <2> QED BY <1>15, <2>2 DEF JobsSound
<1>18. Sound'
 <2>1. known' \in BOOLEAN BY <1>1
 <2> QED BY <1>7, <1>10, <1>11, <1>12, <1>17, <2>1 DEF Sound, Typed
<1>19. BatchSeen' = [p \in Task |-> Writers!Nothing]
 <2>1. BatchSeen' = [p \in Task |-> BatchOf(op'[p])] BY DEF BatchSeen, Batches
 <2>2. \A p \in Task : BatchOf(op'[p]) = Writers!Nothing BY <1>1, NothingIs
 <2> HIDE DEF BatchOf
 <2> QED BY <2>1, <2>2
<1>20. /\ TreeSeen' = Writers!Grown(TreeSeen, leaf, Len(new))
       /\ leaf' = IF Len(new) = 0 THEN leaf ELSE Len(TreeSeen) + Len(new)
  BY <1>2, <1>6, AppendsWrites DEF TreeSeen
<1>21. Writers!Restarts
 <2>1. /\ job' \in [Worker -> [state : {"unborn", "attached", "detached"},
                               entry : 0 .. Len(TreeSeen')]]
       /\ \A w \in Worker :
            \/ \E e \in Writers!Above(TreeSeen', leaf') :
                 TreeSeen'[e].of = {w} /\ job'[w] = [state |-> "attached", entry |-> e]
            \/ job[w].state = "unborn" /\ job'[w] = job[w]
            \/ job'[w] = [state |-> "detached", entry |-> 0]
   BY <1>13, <1>15, <1>16
 <2> QED BY <1>6, <1>19, <1>20, <2>1, SeenRestarts
<1> QED BY <1>18, <1>21 DEF Refines, Writers!Next

\* Where an operation would go back to stays, or becomes where the session is.
PriorsStay == \A q \in Task : op'[q].prior \in {op[q].prior, Idle.prior, Prior}

LEMMA SeatedStays ==
  ASSUME Sound, Seated, PriorsStay, rows' \in Nat, rows <= rows', current' < rows'
  PROVE  Seated'
<1>1. /\ rows \in Nat /\ current \in Thread \cup {None}
      /\ \A q \in Task : op[q].prior.current \in Thread \cup {None}
  BY Facts DEF OpRec, Places
<1>2. /\ None \in Int /\ Thread \subseteq Int /\ Idle.prior.current = None /\ None < rows
      /\ Prior.current = current
  BY <1>1, Threads DEF Idle, Prior
<1>3. ASSUME NEW q \in Task PROVE op'[q].prior.current < rows'
 <2>1. op'[q].prior \in {op[q].prior, Idle.prior, Prior} BY DEF PriorsStay
 <2>2. op[q].prior.current < rows /\ current < rows BY DEF Seated
 <2>3. op[q].prior.current \in Int /\ current \in Int BY <1>1, <1>2
 <2> QED BY <1>1, <1>2, <2>1, <2>2, <2>3
<1> QED BY <1>3 DEF Seated

\* The session has the thread it had, or none.
LEMMA SeatedHere ==
  ASSUME Sound, Seated, PriorsStay, UNCHANGED rows, current' \in {current, None}
  PROVE  Seated'
<1>1. rows \in Nat /\ rows >= 1 /\ None = -1 BY Facts, Threads DEF RoomFor
<1>2. current' < rows' BY <1>1 DEF Seated
<1> QED BY <1>1, <1>2, SeatedStays

LEMMA MovePriors ==
  ASSUME Sound, NEW p \in Task, NEW record \in OpRec, NEW es, NEW at, Move(p, record, es, at)
  PROVE  PriorsStay /\ UNCHANGED rows /\ current' = None
<1>1. op \in [Task -> OpRec] BY Facts
<1> DEFINE o == [[record EXCEPT !.prior = Prior] EXCEPT !.pc = "reading", !.on = NextThread,
                                                        !.seed = Context(es, at)]
<1>2. op' = [op EXCEPT ![p] = o] /\ UNCHANGED rows /\ current' = None BY DEF Move, StartSeed
<1>3. o.prior = Prior BY DEF OpRec
<1> HIDE DEF o
<1> QED BY <1>1, <1>2, <1>3 DEF PriorsStay

LEMMA ClearSeated == ASSUME Sound, Seated, NEW p \in Task, Clear(p) PROVE Seated'
<1> DEFINE n == Len(Placed(entries, leaf, ResetBoundaryEntry))
           record == [Idle EXCEPT !.kind = "clear", !.first = n, !.last = n]
<1>1. Move(p, record, Placed(entries, leaf, ResetBoundaryEntry), n) BY DEF Clear
<1>2. n \in Nat
 <2>1. /\ entries \in Seq(EntryRow) /\ PathsAscend(entries) /\ leaf \in 0 .. Len(entries)
       /\ Len(entries) \in Nat
   BY Facts
 <2>2. ResetBoundaryEntry \in EntryIn /\ ResetBoundaryEntry.kept <= Len(entries)
   BY <2>1, EntriesIn DEF Plain, NewIn
 <2>3. n = Len(entries) + 1 BY <2>1, <2>2, PlacedIs
 <2> QED BY <2>1, <2>3
<1> HIDE DEF n
<1>3. record \in OpRec BY <1>2, IdleIs DEF OpRec, OpKinds
<1> HIDE DEF record
<1> QED BY <1>1, <1>3, MovePriors, SeatedHere

LEMMA BranchSeated ==
  ASSUME Sound, Seated, NEW p \in Task, NEW at \in DOMAIN entries, Branch(p, at)
  PROVE  Seated'
<1> DEFINE record == [Idle EXCEPT !.kind = "branch"]
<1>1. Move(p, record, entries, at) BY DEF Branch
<1>2. record \in OpRec BY IdleIs DEF OpRec, OpKinds
<1> HIDE DEF record
<1> QED BY <1>1, <1>2, MovePriors, SeatedHere

LEMMA SummarisedSeated == ASSUME Sound, Seated, NEW p \in Task, Summarised(p) PROVE Seated'
<1>1. PICK es, first, last : 
         Move(p, [op[p] EXCEPT !.first = first, !.last = last, !.summary = {}, !.tail = <<>>],
              es, last)
  BY Zenon DEF Summarised
<1>2. op \in [Task -> OpRec] /\ op[p] \in OpRec BY Facts
<1> DEFINE o == [op[p] EXCEPT !.first = first, !.last = last, !.summary = {}, !.tail = <<>>]
           u == [[o EXCEPT !.prior = Prior] EXCEPT !.pc = "reading", !.on = NextThread,
                                                   !.seed = Context(es, last)]
<1>3. op' = [op EXCEPT ![p] = u] /\ UNCHANGED rows /\ current' = None
  BY <1>1 DEF Move, StartSeed
<1>4. u.prior = Prior
 <2>1. DOMAIN op[p] = DOMAIN o /\ "prior" \in DOMAIN op[p] BY <1>2 DEF OpRec
 <2> QED BY <1>2 DEF OpRec
<1> HIDE DEF u
<1>5. PriorsStay BY <1>2, <1>3, <1>4 DEF PriorsStay
<1> QED BY <1>3, <1>5, SeatedHere

\* The tasks' own steps that neither move the leaf nor give the session a thread.
LEMMA OwnPriors ==
  ASSUME Sound, NEW p \in Task,
         \/ Summarise(p) \/ SeedReads(p) \/ SeedWrites(p) \/ CommandEnds(p) \/ Stops(p)
  PROVE  PriorsStay /\ UNCHANGED <<rows, current>>
<1>1. op \in [Task -> OpRec] /\ op[p] \in OpRec BY Facts
<1>2. CASE Summarise(p)
 <2>1. PICK a, b : op' = [op EXCEPT ![p].pc = "summarising", ![p].summary = a, ![p].tail = b]
   BY <1>2, Zenon DEF Summarise
 <2>2. UNCHANGED <<rows, current>> BY <1>2 DEF Summarise, threadVars
 <2>3. PriorsStay BY <1>1, <2>1 DEF PriorsStay, OpRec
 <2> QED BY <2>2, <2>3
<1>3. CASE SeedReads(p)
 <2>1. UNCHANGED <<rows, current>> /\ op' = [op EXCEPT ![p].pc = "writing", ![p].base = graph[op[p].on]]
   BY <1>3 DEF SeedReads, threadVars
 <2>2. PriorsStay BY <1>1, <2>1 DEF PriorsStay, OpRec
 <2> QED BY <2>1, <2>2
<1>4. CASE SeedWrites(p)
 <2>1. UNCHANGED <<rows, current>> /\ op' = [op EXCEPT ![p].pc = "activating", ![p].base = <<>>]
   BY <1>4 DEF SeedWrites
 <2>2. PriorsStay BY <1>1, <2>1 DEF PriorsStay, OpRec
 <2> QED BY <2>1, <2>2
<1>5. CASE CommandEnds(p) \/ Stops(p)
 <2>1. UNCHANGED <<rows, current>> /\ op' = [op EXCEPT ![p] = Idle]
   BY <1>5 DEF CommandEnds, Stops, threadVars
 <2>2. PriorsStay BY <1>1, <2>1 DEF PriorsStay
 <2> QED BY <2>1, <2>2
<1> QED BY <1>2, <1>3, <1>4, <1>5

\* The steps that may tell the idle task to stop.
LEMMA CancelPriors ==
  ASSUME Sound, NEW p \in Task, Compact(p) \/ Announce(p)
  PROVE  PriorsStay /\ UNCHANGED <<rows, current>>
<1>1. op \in [Task -> OpRec] /\ op[p] \in OpRec BY Facts
<1>2. UNCHANGED <<rows, current>> BY DEF Compact, Announce, threadVars
<1>3. CASE p = "idle" /\ Announce(p)
 <2>1. op' = [op EXCEPT ![p].pc = "announced"] BY <1>3 DEF Announce
 <2>2. PriorsStay BY <1>1, <2>1 DEF PriorsStay, OpRec
 <2> QED BY <1>2, <2>2
<1>4. CASE Compact(p) \/ (p # "idle" /\ Announce(p))
 <2> DEFINE a == [[op[p] EXCEPT !.kind = "compact"] EXCEPT !.pc = "stopping"]
            b == [op[p] EXCEPT !.pc = "announced"]
 <2>1. CancelIdle([op EXCEPT ![p] = a]) \/ CancelIdle([op EXCEPT ![p] = b])
  <3>1. /\ [op EXCEPT ![p].kind = "compact", ![p].pc = "stopping"] = [op EXCEPT ![p] = a]
        /\ [op EXCEPT ![p].pc = "announced"] = [op EXCEPT ![p] = b]
    BY <1>1
  <3>2. CASE Compact(p)
   <4>1. CancelIdle([op EXCEPT ![p].kind = "compact", ![p].pc = "stopping"])
     BY <3>2 DEF Compact
   <4> QED BY <3>1, <4>1
  <3>3. CASE p # "idle" /\ Announce(p)
   <4>1. CancelIdle([op EXCEPT ![p].pc = "announced"]) BY <3>3 DEF Announce
   <4> QED BY <3>1, <4>1
  <3> QED BY <1>4, <3>2, <3>3
 <2>2. a \in OpRec /\ b \in OpRec /\ a.prior = op[p].prior /\ b.prior = op[p].prior
   BY <1>1 DEF OpRec, PCs, OpKinds
 <2> HIDE DEF a, b
 <2>3. PICK o \in OpRec : CancelIdle([op EXCEPT ![p] = o]) /\ o.prior = op[p].prior
   BY <2>1, <2>2
 <2> DEFINE f == [op EXCEPT ![p] = o]
 <2>4. f \in [Task -> OpRec] /\ \A q \in Task : f[q].prior = op[q].prior BY <1>1, <2>3
 <2>5. CancelIdle(f) BY <2>3
 <2> HIDE DEF f
 <2> DEFINE c == f["idle"].cancel \/ (known /\ ~Free("idle"))
 <2>6. op' = [f EXCEPT !["idle"].cancel = c] BY <2>5 DEF CancelIdle
 <2> HIDE DEF c
 <2>7. \A q \in Task : op'[q].prior = f[q].prior BY <2>4, <2>6 DEF OpRec
 <2> QED BY <1>2, <2>4, <2>7 DEF PriorsStay
<1> QED BY <1>3, <1>4

LEMMA ActivatesSeated == ASSUME Sound, Seated, NEW p \in Task, SeedActivates(p) PROVE Seated'
<1> DEFINE t == op[p].on
<1>1. /\ op[p].pc = "activating" /\ op' = [op EXCEPT ![p].pc = "announcing", ![p].seed = <<>>]
      /\ rows' = Max({rows, t + 1}) /\ current' = t
  BY DEF SeedActivates
<1>2. /\ op \in [Task -> OpRec] /\ op[p] \in OpRec /\ OpSound(op[p], rows) /\ rows \in Nat
      /\ rows >= 1
  BY Facts DEF RoomFor
<1>3. t \in Thread /\ t <= rows /\ t \in Nat BY <1>1, <1>2, Threads DEF OpRec, OpSound
<1>4. rows' \in Nat /\ rows <= rows' /\ t < rows'
 <2> DEFINE n == rows + 1
            T == {rows, t + 1}
 <2>1. T \in SUBSET (1 .. n) /\ n \in Nat /\ T # {} /\ rows \in T /\ t + 1 \in T
   BY <1>2, <1>3
 <2> HIDE DEF n, T
 <2>2. Max(T) \in T /\ \A k \in T : k <= Max(T) BY <2>1, LargestOfThem
 <2>3. rows' = Max(T) BY <1>1 DEF T
 <2>4. rows' \in 1 .. n /\ rows <= rows' /\ t + 1 <= rows' BY <2>1, <2>2, <2>3
 <2> QED BY <1>3, <2>1, <2>4
<1> HIDE DEF t
<1>5. PriorsStay BY <1>1, <1>2 DEF PriorsStay, OpRec
<1> QED BY <1>1, <1>4, <1>5, SeatedStays

LEMMA FailsSeated == ASSUME Sound, Seated, NEW p \in Task, SeedFails(p) PROVE Seated'
<1>1. /\ Rollback(op[p]) /\ op' = [op EXCEPT ![p] = Idle] /\ UNCHANGED rows BY DEF SeedFails
<1>2. op \in [Task -> OpRec] /\ rows \in Nat BY Facts
<1>3. PriorsStay BY <1>1, <1>2 DEF PriorsStay
<1>4. current' = current \/ current' = op[p].prior.current BY <1>1 DEF Rollback
<1>5. current' < rows' BY <1>1, <1>4 DEF Seated
<1> QED BY <1>1, <1>2, <1>3, <1>5, SeatedStays

LEMMA PcPriors ==
  ASSUME op \in [Task -> OpRec], NEW p \in Task, NEW pc, NEW t,
         \/ op' = [op EXCEPT ![p].pc = pc]
         \/ op' = [op EXCEPT ![p].pc = pc, ![p].on = t]
  PROVE  PriorsStay
<1>1. CASE op' = [op EXCEPT ![p].pc = pc] BY <1>1 DEF PriorsStay, OpRec
<1>2. CASE op' = [op EXCEPT ![p].pc = pc, ![p].on = t] BY <1>2 DEF PriorsStay, OpRec
<1> QED BY <1>1, <1>2

LEMMA TurnPriors ==
  ASSUME Sound,
         \/ StartTurn \/ TurnOpens \/ TurnSpeaks \/ TurnCondenses \/ TurnStops
         \/ TurnCaptures \/ TurnEnds \/ \E w \in Worker : PersistJob(w)
  PROVE  PriorsStay /\ UNCHANGED <<rows, current>>
<1>1. op \in [Task -> OpRec] /\ "fg" \in Task /\ "idle" \in Task BY Facts DEF Task
<1>2. CASE StartTurn
 <2>1. UNCHANGED <<rows, current>> BY <1>2 DEF StartTurn
 <2>2. \E o : op' = [op EXCEPT !["fg"] = o] /\ o.prior = Idle.prior
  <3> DEFINE q == [Idle EXCEPT !.kind = "turn"]
             o == [q EXCEPT !.pc = "reading", !.on = thread, !.seed = Context(entries, leaf)]
             u == [Idle EXCEPT !.kind = "turn", !.pc = "announcing"]
  <3>1. op' = [op EXCEPT !["fg"] = o] \/ op' = [op EXCEPT !["fg"] = u]
    BY <1>2 DEF StartTurn, StartSeed
  <3>2. o.prior = Idle.prior /\ u.prior = Idle.prior BY IdleIs DEF OpRec
  <3> HIDE DEF o, u
  <3> QED BY <3>1, <3>2
 <2>3. PriorsStay BY <1>1, <2>2 DEF PriorsStay
 <2> QED BY <2>1, <2>3
<1>3. CASE TurnOpens \/ TurnStops \/ TurnCaptures
 <2>1. UNCHANGED <<rows, current>>
   BY <1>3 DEF TurnOpens, TurnStops, TurnCaptures, threadVars
 <2>2. CASE TurnOpens
  <3>1. op' = [op EXCEPT !["fg"].pc = "streaming", !["fg"].on = thread]
    BY <2>2 DEF TurnOpens
  <3> QED BY <1>1, <2>1, <3>1, PcPriors
 <2>3. CASE TurnStops
  <3>1. op' = [op EXCEPT !["fg"].pc = "capturing"] BY <2>3 DEF TurnStops
  <3> QED BY <1>1, <2>1, <3>1, PcPriors
 <2>4. CASE TurnCaptures
  <3>1. op' = [op EXCEPT !["fg"].pc = "closing"] BY <2>4 DEF TurnCaptures
  <3> QED BY <1>1, <2>1, <3>1, PcPriors
 <2> QED BY <1>3, <2>1, <2>2, <2>3, <2>4
<1>4. CASE TurnSpeaks \/ TurnCondenses \/ \E w \in Worker : PersistJob(w)
 <2>1. TurnSpeaks => UNCHANGED <<rows, current, op>>
   BY SMTT(30) DEF TurnSpeaks, threadVars, taskVars
 <2>2. TurnCondenses => UNCHANGED <<rows, current, op>>
   BY DEF TurnCondenses, threadVars, taskVars
 <2>3. \A w \in Worker : PersistJob(w) => UNCHANGED <<rows, current, op>>
   BY DEF PersistJob, threadVars, taskVars
 <2>4. UNCHANGED <<rows, current, op>> BY <1>4, <2>1, <2>2, <2>3
 <2> QED BY <2>4 DEF PriorsStay
<1>5. CASE TurnEnds
 <2>1. UNCHANGED <<rows, current>> BY <1>5 DEF TurnEnds, threadVars
 <2> DEFINE a == [Idle EXCEPT !.kind = "compact", !.pc = "asleep"]
 <2>2. \/ op' = [op EXCEPT !["fg"] = Idle, !["idle"] = a]
       \/ op' = [op EXCEPT !["fg"] = Idle]
  <3>1. op' = [op EXCEPT !["fg"] = Idle,
                         !["idle"] = IF AutoCompact /\ Free("idle") THEN a ELSE @]
    BY <1>5 DEF TurnEnds
  <3> HIDE DEF a
  <3> QED BY <1>1, <3>1
 <2>3. a.prior = Idle.prior BY IdleIs DEF OpRec
 <2> HIDE DEF a
 <2>4. PriorsStay BY <1>1, <2>2, <2>3 DEF PriorsStay
 <2> QED BY <2>1, <2>4
<1> QED BY <1>2, <1>3, <1>4, <1>5

LEMMA RestartSeated == ASSUME Sound, Seated, Restart PROVE Seated'
<1>1. /\ op' = [p \in Task |-> Idle] /\ UNCHANGED rows /\ current' \in {current, None}
  BY DEF Restart
<1>2. PriorsStay BY <1>1 DEF PriorsStay
<1> QED BY <1>1, <1>2, SeatedHere

-----------------------------------------------------------------------------
LEMMA InitSeated == Init => Seated
<1> SUFFICES ASSUME Init PROVE Seated OBVIOUS
<1>1. Idle.prior.current = -1 BY Threads DEF Idle
<1> QED BY <1>1 DEF Init, Seated

LEMMA NextSound ==
  ASSUME Sound, Seated, [Next]_vars
  PROVE  Sound' /\ Seated' /\ Refines
<1>1. ASSUME NEW p \in Task, Clear(p) PROVE Sound' /\ Seated' /\ Refines
  BY <1>1, ClearStep, ClearSeated
<1>2. ASSUME NEW p \in Task, Compact(p) PROVE Sound' /\ Seated' /\ Refines
  BY <1>2, CompactStep, CancelPriors, SeatedHere
<1>3. ASSUME NEW p \in Task, NEW at \in DOMAIN entries, Branch(p, at)
      PROVE  Sound' /\ Seated' /\ Refines
  BY <1>3, BranchStep, BranchSeated
<1>4. ASSUME NEW p \in Task, Summarise(p) PROVE Sound' /\ Seated' /\ Refines
  BY <1>4, SummariseStep, OwnPriors, SeatedHere
<1>5. ASSUME NEW p \in Task, Summarised(p) PROVE Sound' /\ Seated' /\ Refines
  BY <1>5, SummarisedStep, SummarisedSeated
<1>6. ASSUME NEW p \in Task, SeedReads(p) PROVE Sound' /\ Seated' /\ Refines
  BY <1>6, SeedReadsStep, OwnPriors, SeatedHere
<1>7. ASSUME NEW p \in Task, SeedWrites(p) PROVE Sound' /\ Seated' /\ Refines
  BY <1>7, SeedWritesStep, OwnPriors, SeatedHere
<1>8. ASSUME NEW p \in Task, SeedActivates(p) PROVE Sound' /\ Seated' /\ Refines
  BY <1>8, SeedActivatesStep, ActivatesSeated
<1>9. ASSUME NEW p \in Task, SeedFails(p) PROVE Sound' /\ Seated' /\ Refines
  BY <1>9, SeedFailsStep, FailsSeated
<1>10. ASSUME NEW p \in Task, Announce(p) PROVE Sound' /\ Seated' /\ Refines
  BY <1>10, AnnounceStep, CancelPriors, SeatedHere
<1>11. ASSUME NEW p \in Task, CommandEnds(p) PROVE Sound' /\ Seated' /\ Refines
  BY <1>11, CommandEndsStep, OwnPriors, SeatedHere
<1>12. ASSUME NEW p \in Task, Stops(p) PROVE Sound' /\ Seated' /\ Refines
  BY <1>12, StopsStep, OwnPriors, SeatedHere
<1>13. CASE StartTurn BY <1>13, StartTurnStep, TurnPriors, SeatedHere
<1>14. CASE TurnOpens BY <1>14, TurnOpensStep, TurnPriors, SeatedHere
<1>15. CASE TurnSpeaks BY <1>15, TurnSpeaksStep, TurnPriors, SeatedHere
<1>16. CASE TurnCondenses BY <1>16, TurnCondensesStep, TurnPriors, SeatedHere
<1>17. CASE TurnStops BY <1>17, TurnStopsStep, TurnPriors, SeatedHere
<1>18. CASE TurnCaptures BY <1>18, TurnCapturesStep, TurnPriors, SeatedHere
<1>19. CASE TurnEnds BY <1>19, TurnEndsStep, TurnPriors, SeatedHere
<1>20. ASSUME NEW w \in Worker, PersistJob(w) PROVE Sound' /\ Seated' /\ Refines
  BY <1>20, PersistJobStep, TurnPriors, SeatedHere
<1>21. CASE Restart BY <1>21, RestartStep, RestartSeated
<1>22. CASE UNCHANGED vars
 <2>1. UNCHANGED <<op, known, entries, leaf, current, rows, cursor, graph, checkpoints, thread,
                   job, spoken, submitted, crashes>>
   BY <1>22 DEF vars, ledgerVars, threadVars, taskVars, boundVars
 <2>2. UNCHANGED ledgerVars /\ UNCHANGED <<submitted, crashes>> BY <2>1 DEF ledgerVars
 <2>3. Sound' /\ Refines BY <2>1, <2>2, Facts, OpsStay
 <2>4. Seated' BY <2>1 DEF Seated
 <2> QED BY <2>3, <2>4
<1> QED BY <1>1, <1>2, <1>3, <1>4, <1>5, <1>6, <1>7, <1>8, <1>9, <1>10, <1>11, <1>12, <1>13, <1>14,
<1>15, <1>16, <1>17, <1>18, <1>19, <1>20, <1>21, <1>22 DEF Next

LEMMA InitWrites == Init => Writers!Init
<1> SUFFICES ASSUME Init PROVE Writers!Init OBVIOUS
<1>1. TreeSeen = <<>>
 <2>1. DOMAIN entries = {} /\ entries = <<>> BY DEF Init
 <2> QED BY <2>1 DEF TreeSeen, Tree
<1>2. BatchSeen = [p \in Task |-> Writers!Nothing]
 <2>1. \A p \in Task : BatchOf(op[p]) = Writers!Nothing BY NothingIs DEF Init
 <2> HIDE DEF BatchOf
 <2> QED BY <2>1 DEF BatchSeen, Batches
<1> QED BY <1>1, <1>2 DEF Init, Writers!Init

\* Types, room and seat, whatever the tasks and the background runs do.
LEMMA SessionSound == Spec => [](Sound /\ Seated)
<1>1. Init => Sound /\ Seated BY InitSound, InitSeated
<1>2. Sound /\ Seated /\ [Next]_vars => (Sound /\ Seated)' BY NextSound
<1> QED BY <1>1, <1>2, PTL DEF Spec

\* A session implements what its tasks rely on: each of its steps is a step of LedgerWriters.
THEOREM SessionIsOfWriters == Spec => WritersImplemented
<1>1. Init => Writers!Init BY InitWrites
<1>2. Sound /\ Seated /\ [Next]_vars => [UNCHANGED Writers!vars \/ Writers!Next]_vars
  BY NextSound DEF Refines
<1>3. Spec => [](Sound /\ Seated) BY SessionSound
<1> QED BY <1>1, <1>2, <1>3, PTL DEF Spec, WritersImplemented

-----------------------------------------------------------------------------
(* What entries and conversations tell, by the ids of what was said.        *)

Of(m) == IF m.role = "summary" THEN m.of ELSE {m.id}
ToldBy(es) == UNION {Of(es[i].msg) : i \in DOMAIN es}
SummaryFirst(ms) == \A i \in 1 .. Len(ms) : ms[i].role = "summary" => i = 1

LEMMA CoveredBy ==
  ASSUME NEW ms \in Seq(Said)
  PROVE  /\ \A x : x \in Covered(ms) <=> \E i \in 1 .. Len(ms) : x \in Of(ms[i])
         /\ \A x : x \in Covered(ms) <=> \E m \in ToSet(ms) : x \in Of(m)
<1>1. \A x : x \in Covered(ms) <=> \E m \in ToSet(ms) : x \in Of(m) BY DEF Covered, Of
<1>2. DOMAIN ms = 1 .. Len(ms) BY LenProperties
<1>3. \A m : m \in ToSet(ms) <=> \E i \in 1 .. Len(ms) : m = ms[i] BY <1>2 DEF ToSet
<1> QED BY <1>1, <1>3

LEMMA CoveredNone == Covered(<<>>) = {}
  BY SetOfNone DEF Covered

LEMMA CoveredOne == ASSUME NEW m PROVE Covered(<<m>>) = Of(m)
<1>1. ToSet(<<m>>) = {m} BY SetOfOne
<1> QED BY <1>1 DEF Covered, Of

LEMMA CoveredAppend ==
  ASSUME NEW ms \in Seq(Said), NEW m \in Said
  PROVE  /\ Covered(Append(ms, m)) = Covered(ms) \cup Of(m)
         /\ SummaryFirst(ms) /\ m.role # "summary" => SummaryFirst(Append(ms, m))
<1>1. ToSet(Append(ms, m)) = ToSet(ms) \cup {m} BY SetOfAppend
<1>2. Covered(Append(ms, m)) = Covered(ms) \cup Of(m) BY <1>1 DEF Covered, Of
<1>3. ASSUME SummaryFirst(ms), m.role # "summary", NEW i \in 1 .. Len(Append(ms, m)),
             Append(ms, m)[i].role = "summary"
      PROVE  i = 1
 <2>1. /\ Len(Append(ms, m)) = Len(ms) + 1 /\ Len(ms) \in Nat
       /\ Append(ms, m)[Len(ms) + 1] = m /\ \A k \in 1 .. Len(ms) : Append(ms, m)[k] = ms[k]
   BY AppendProperties, LenProperties
 <2>2. i \in 1 .. Len(ms) BY <1>3, <2>1
 <2> QED BY <1>3, <2>1, <2>2 DEF SummaryFirst
<1> QED BY <1>2, <1>3 DEF SummaryFirst

\* A conversation in two parts.
LEMMA CoveredParts ==
  ASSUME NEW ms \in Seq(Said), NEW k \in 1 .. Len(ms) + 1
  PROVE  /\ SubSeq(ms, 1, k - 1) \in Seq(Said) /\ SubSeq(ms, k, Len(ms)) \in Seq(Said)
         /\ Covered(ms) = Covered(SubSeq(ms, 1, k - 1)) \cup Covered(SubSeq(ms, k, Len(ms)))
         /\ SummaryFirst(ms) /\ k > 1 =>
              \A m \in ToSet(SubSeq(ms, k, Len(ms))) : m.role # "summary"
<1> DEFINE a == SubSeq(ms, 1, k - 1)
           b == SubSeq(ms, k, Len(ms))
<1>1. a \in Seq(Said) /\ b \in Seq(Said) /\ ms = a \o b /\ Len(b) = Len(ms) - k + 1
  BY Halves
<1>2. Covered(a \o b) = Covered(a) \cup Covered(b) BY <1>1, SetsOfConcat
<1>3. ASSUME SummaryFirst(ms), k > 1, NEW m \in ToSet(b) PROVE m.role # "summary"
 <2>1. Len(ms) \in Nat /\ \A i \in 1 .. Len(ms) : ms[i] \in Said
   BY LenProperties, ElementOfSeq
 <2>2. \A i \in 1 .. Len(ms) - k + 1 : b[i] = ms[k + i - 1]
  <3>1. k \in Int /\ Len(ms) \in Int /\ \A i \in k .. Len(ms) : ms[i] \in Said BY <2>1
  <3> QED BY <3>1, SubSeqProperties
 <2> HIDE DEF b
 <2>3. PICK i \in 1 .. Len(b) : b[i] = m
  <3>1. DOMAIN b = 1 .. Len(b) BY <1>1, LenProperties
  <3> QED BY <1>3, <3>1 DEF ToSet
 <2>4. PICK j \in 1 .. Len(ms) : j = k + i - 1 /\ ms[j] = m /\ j # 1
  <3>1. k + i - 1 \in 1 .. Len(ms) /\ k + i - 1 # 1 /\ i \in 1 .. Len(ms) - k + 1
    BY <1>1, <1>3, <2>1, <2>3
  <3> QED BY <2>2, <2>3, <3>1
 <2> QED BY <1>3, <2>4 DEF SummaryFirst
<1> QED BY <1>1, <1>2, <1>3

\* A summary before messages that are none.
LEMMA SummaryBefore ==
  ASSUME NEW m \in Said, NEW ms \in Seq(Said), \A x \in ToSet(ms) : x.role # "summary"
  PROVE  /\ <<m>> \o ms \in Seq(Said) /\ SummaryFirst(<<m>> \o ms) /\ SummaryFirst(ms)
         /\ Covered(<<m>> \o ms) = Of(m) \cup Covered(ms)
<1>1. <<m>> \in Seq(Said) /\ Len(<<m>>) = 1 OBVIOUS
<1>2. Covered(<<m>> \o ms) = Of(m) \cup Covered(ms) BY <1>1, SetsOfConcat, CoveredOne
<1>3. /\ <<m>> \o ms \in Seq(Said) /\ Len(<<m>> \o ms) = 1 + Len(ms) /\ Len(ms) \in Nat
      /\ \A i \in 1 .. 1 + Len(ms) : (<<m>> \o ms)[i] = IF i <= 1 THEN <<m>>[i] ELSE ms[i - 1]
  BY <1>1, ConcatProperties, LenProperties
<1>4. \A i \in 1 .. Len(ms) : ms[i].role # "summary" BY LenProperties DEF ToSet
<1>5. ASSUME NEW i \in 1 .. 1 + Len(ms), i # 1 PROVE (<<m>> \o ms)[i].role # "summary"
 <2>1. i - 1 \in 1 .. Len(ms) /\ ~(i <= 1) BY <1>3, <1>5
 <2> QED BY <1>3, <1>4, <2>1
<1> QED BY <1>2, <1>3, <1>4, <1>5 DEF SummaryFirst

\* Leaving messages out leaves the summary first.
LEMMA SummaryStaysFirst ==
  ASSUME NEW ms \in Seq(Said), SummaryFirst(ms), NEW M
  PROVE  SummaryFirst(Only(ms, M))
<1>1. CASE ms = <<>>
 <2>1. Only(ms, M) = <<>> /\ Len(<<>>) = 0 BY <1>1, OnlyEmpty, EmptySeq
 <2> HIDE DEF Only
 <2> QED BY <2>1 DEF SummaryFirst
<1>2. CASE ms # <<>>
 <2> DEFINE a == SubSeq(ms, 1, 1)
            b == SubSeq(ms, 2, Len(ms))
 <2>1. Len(ms) \in Nat /\ Len(ms) # 0 BY <1>2, EmptySeq, LenProperties
 <2>2. 2 \in 1 .. Len(ms) + 1 /\ 2 - 1 = 1 BY <2>1
 <2>3. a \in Seq(Said) /\ Len(a) = 1 /\ b \in Seq(Said) /\ ms = a \o b BY <2>2, Halves
 <2>4. \A m \in ToSet(b) : m.role # "summary" BY <2>2, CoveredParts
 <2> HIDE DEF a, b
 <2>5. /\ Only(a, M) \in Seq(Said) /\ Only(b, M) \in Seq(Said)
       /\ ToSet(Only(b, M)) \subseteq ToSet(b)
   BY <2>3, OnlyIsSeq
 <2>6. Only(ms, M) = Only(a, M) \o Only(b, M) BY <2>3, OnlyConcat
 <2>7. a = <<a[1]>> /\ a[1] \in Said
  <3>1. a[1] \in Said BY <2>3, ElementOfSeq
  <3>2. <<a[1]>> \in Seq(Said) /\ Len(<<a[1]>>) = 1 /\ <<a[1]>>[1] = a[1] BY <3>1
  <3>3. \A i \in 1 .. Len(a) : a[i] = <<a[1]>>[i] BY <2>3, <3>2
  <3> QED BY <2>3, <3>1, <3>2, <3>3, SeqEqual
 <2>8. Only(a, M) = IF a[1] \in M THEN <<a[1]>> ELSE <<>>
  <3>1. <<>> \in Seq(Said) /\ <<a[1]>> = Append(<<>>, a[1]) BY <2>7, EmptySeq
  <3>2. Only(<<>>, M) = <<>> BY OnlyEmpty
  <3>3. Only(Append(<<>>, a[1]), M)
          = IF a[1] \in M THEN Append(Only(<<>>, M), a[1]) ELSE Only(<<>>, M)
    BY <2>7, <3>1, OnlyAppend, ZenonT(40)
  <3> HIDE DEF Only
  <3> QED BY <2>7, <3>1, <3>2, <3>3
 <2> DEFINE c == Only(a, M)
            d == Only(b, M)
 <2>9. \A m \in ToSet(d) : m.role # "summary" BY <2>4, <2>5
 <2>10. d \in Seq(Said) /\ (c = <<>> \/ c = <<a[1]>>) /\ Only(ms, M) = c \o d
   BY <2>5, <2>6, <2>8
 <2> HIDE DEF c, d
 <2>11. SummaryFirst(<<a[1]>> \o d) /\ SummaryFirst(d) BY <2>7, <2>9, <2>10, SummaryBefore
 <2>12. <<>> \o d = d BY <2>10, ConcatEmptySeq
 <2> QED BY <2>10, <2>11, <2>12
<1> QED BY <1>1, <1>2

-----------------------------------------------------------------------------
(* What the ledger tells on a path before a clear, and what after it.       *)

ClearedIds(es, at) ==
  {i \in ToSet(Path(es, at)) : \E k \in ToSet(Path(es, at)) : i < k /\ es[k].kind = "reset"}
ClearedAt(es, at) == UNION {Of(es[i].msg) : i \in ClearedIds(es, at)}

\* What is told before a clear is not told after it.
EntriesApart(es) ==
  \A a \in DOMAIN es : \A i, j, k \in ToSet(es[a].path) :
    i < k /\ k < j /\ es[k].kind = "reset" => Of(es[i].msg) \cap Of(es[j].msg) \subseteq {0}

\* A message entry holds no summary, and a clear tells nothing.
EntriesPlain(es) ==
  \A i \in DOMAIN es : /\ es[i].kind = "message" => es[i].msg.role # "summary"
                       /\ es[i].kind = "reset" => Of(es[i].msg) = {0}

LEMMA PathRange ==
  ASSUME NEW es \in Seq(EntryRow), PathsAscend(es), NEW at \in 0 .. Len(es)
  PROVE  /\ ToSet(Path(es, at)) \subseteq 1 .. at /\ ToSet(Path(es, at)) \subseteq DOMAIN es
         /\ DOMAIN es = 1 .. Len(es) /\ Len(es) \in Nat
<1>1. DOMAIN es = 1 .. Len(es) /\ Len(es) \in Nat BY LenProperties
<1>2. Ascend(Path(es, at), at) BY PathAscends
<1>3. DOMAIN Path(es, at) = 1 .. Len(Path(es, at)) BY <1>2, LenProperties DEF Ascend
<1>4. ToSet(Path(es, at)) \subseteq 1 .. at BY <1>2, <1>3 DEF ToSet, Ascend
<1> QED BY <1>1, <1>4

LEMMA ClearedIsTold ==
  ASSUME NEW es \in Seq(EntryRow), PathsAscend(es), NEW at \in 0 .. Len(es)
  PROVE  ClearedAt(es, at) \subseteq ToldBy(es)
  BY PathRange DEF ClearedAt, ClearedIds, ToldBy

\* Entries that are the same tell the same.
LEMMA ClearedStays ==
  ASSUME NEW es \in Seq(EntryRow), PathsAscend(es), NEW n \in 0 .. Len(es),
         NEW fs \in Seq(EntryRow), PathsAscend(fs), n <= Len(fs),
         \A i \in 1 .. n : fs[i] = es[i], NEW at \in 0 .. n
  PROVE  /\ Path(fs, at) = Path(es, at)
         /\ ClearedAt(fs, at) = ClearedAt(es, at)
<1>1. Len(es) \in Nat /\ Len(fs) \in Nat /\ n \in Nat BY LenProperties
<1>2. at \in 0 .. Len(es) /\ (at = 0 \/ at \in 1 .. n) BY <1>1
<1>3. Path(fs, at) = Path(es, at) BY <1>2 DEF Path
<1>4. ToSet(Path(es, at)) \subseteq 1 .. at BY <1>2, PathRange
<1>5. \A i \in ToSet(Path(es, at)) : i \in 1 .. n /\ fs[i] = es[i] BY <1>1, <1>4
<1>6. ClearedIds(fs, at) = ClearedIds(es, at) BY <1>3, <1>5 DEF ClearedIds
<1>7. \A i \in ClearedIds(es, at) : fs[i] = es[i] BY <1>5 DEF ClearedIds
<1>8. ClearedAt(fs, at) = ClearedAt(es, at) BY <1>6, <1>7 DEF ClearedAt
<1> QED BY <1>3, <1>8

LEMMA ToldOfPart ==
  ASSUME NEW es \in Seq(EntryRow), PathsAscend(es), NEW n \in 0 .. Len(es)
  PROVE  /\ ToldBy(SubSeq(es, 1, n)) \subseteq ToldBy(es)
         /\ EntriesPlain(es) => EntriesPlain(SubSeq(es, 1, n))
         /\ EntriesApart(es) => EntriesApart(SubSeq(es, 1, n))
<1> DEFINE fs == SubSeq(es, 1, n)
<1>1. /\ fs \in Seq(EntryRow) /\ PathsAscend(fs) /\ Len(fs) = n /\ Len(es) \in Nat
      /\ \A i \in 1 .. n : fs[i] = es[i]
  BY TreeCut, LenProperties
<1> HIDE DEF fs
<1>2. /\ DOMAIN fs = 1 .. n /\ DOMAIN es = 1 .. Len(es)
      /\ \A i \in DOMAIN fs : i \in DOMAIN es /\ fs[i] = es[i]
  BY <1>1, LenProperties
<1>3. ToldBy(fs) \subseteq ToldBy(es) BY <1>2 DEF ToldBy
<1>4. EntriesPlain(es) => EntriesPlain(fs) BY <1>2 DEF EntriesPlain
<1>5. ASSUME EntriesApart(es) PROVE EntriesApart(fs)
 <2> SUFFICES ASSUME NEW a \in DOMAIN fs, NEW i \in ToSet(fs[a].path), NEW j \in ToSet(fs[a].path),
                     NEW k \in ToSet(fs[a].path), i < k, k < j, fs[k].kind = "reset"
              PROVE  Of(fs[i].msg) \cap Of(fs[j].msg) \subseteq {0}
   BY DEF EntriesApart
 <2>1. a \in 0 .. Len(fs) /\ Path(fs, a) = fs[a].path BY <1>1, <1>2 DEF Path
 <2>2. ToSet(fs[a].path) \subseteq DOMAIN fs BY <1>1, <2>1, PathRange
 <2> QED BY <1>2, <1>5, <2>2 DEF EntriesApart
<1> QED BY <1>3, <1>4, <1>5 DEF fs

-----------------------------------------------------------------------------
(* What is appended.                                                       *)

NoReset(new) == \A k \in 1 .. Len(new) : new[k].kind # "reset"

LEMMA ToldMany ==
  ASSUME NEW es \in Seq(EntryRow), PathsAscend(es), NEW at \in 0 .. Len(es),
         NEW new \in Seq(NewIn(es)), NEW fs, fs = AppendMany(es, at, new)
  PROVE  /\ ToldBy(fs) = ToldBy(es) \cup ToldBy(new)
         /\ NoReset(new) => ClearedAt(fs, End(es, at, new)) = ClearedAt(es, at)
         /\ \A a \in 0 .. Len(es) : /\ Path(fs, a) = Path(es, a)
                                    /\ ClearedAt(fs, a) = ClearedAt(es, a)
         /\ EntriesPlain(es) /\ EntriesPlain(new) => EntriesPlain(fs)
         /\ EntriesApart(es) /\ ToldBy(new) \cap ClearedAt(es, at) \subseteq {0}
              /\ (NoReset(new) \/ Len(new) <= 1) => EntriesApart(fs)
<1> DEFINE n == Len(es)
           m == Len(new)
<1>1. /\ fs \in Seq(EntryRow) /\ PathsAscend(fs) /\ Len(fs) = n + m /\ n \in Nat /\ m \in Nat
      /\ \A i \in 1 .. n : fs[i] = es[i]
      /\ \A k \in 1 .. m : /\ fs[n + k].kind = new[k].kind /\ fs[n + k].msg = new[k].msg
                           /\ ToSet(fs[n + k].path) = ToSet(Path(es, at)) \cup (n + 1 .. n + k)
  BY ManyIs DEF Extends
<1>2. DOMAIN fs = 1 .. n + m /\ DOMAIN es = 1 .. n /\ DOMAIN new = 1 .. m
  BY <1>1, LenProperties
<1> HIDE DEF n, m
<1>3. \A i \in 1 .. n + m : i \in 1 .. n \/ (i - n \in 1 .. m /\ i = n + (i - n)) BY <1>1
<1>4. \A k \in 1 .. m : n + k \in 1 .. n + m BY <1>1
<1>5. \A i \in 1 .. n : i \in 1 .. n + m BY <1>1
<1>6. ToldBy(fs) = ToldBy(es) \cup ToldBy(new)
 <2>1. ASSUME NEW x \in ToldBy(fs) PROVE x \in ToldBy(es) \cup ToldBy(new)
  <3>1. PICK i \in 1 .. n + m : x \in Of(fs[i].msg) BY <1>2, <2>1 DEF ToldBy
  <3>2. CASE i \in 1 .. n BY <1>1, <1>2, <3>1, <3>2 DEF ToldBy
  <3>3. CASE i - n \in 1 .. m /\ i = n + (i - n)
   <4>1. PICK k \in 1 .. m : i = n + k BY <3>3
   <4> QED BY <1>1, <1>2, <3>1, <4>1 DEF ToldBy
  <3> QED BY <1>3, <3>2, <3>3
 <2>2. ASSUME NEW x \in ToldBy(es) PROVE x \in ToldBy(fs)
  <3>1. PICK i \in 1 .. n : x \in Of(es[i].msg) BY <1>2, <2>2 DEF ToldBy
  <3> QED BY <1>1, <1>2, <1>5, <3>1 DEF ToldBy
 <2>3. ASSUME NEW x \in ToldBy(new) PROVE x \in ToldBy(fs)
  <3>1. PICK k \in 1 .. m : x \in Of(new[k].msg) BY <1>2, <2>3 DEF ToldBy
  <3>2. n + k \in DOMAIN fs /\ x \in Of(fs[n + k].msg) BY <1>1, <1>2, <1>4, <3>1
  <3> QED BY <3>2 DEF ToldBy
 <2> QED BY <2>1, <2>2, <2>3
<1>7. ASSUME NEW a \in 0 .. n
      PROVE  Path(fs, a) = Path(es, a) /\ ClearedAt(fs, a) = ClearedAt(es, a)
 <2>1. n \in 0 .. Len(es) /\ n <= Len(fs) BY <1>1 DEF n
 <2> QED BY <1>1, <2>1, ClearedStays
<1>8. at \in 0 .. n /\ ToSet(Path(es, at)) \subseteq 1 .. n
 <2>1. ToSet(Path(es, at)) \subseteq DOMAIN es BY PathRange
 <2> QED BY <1>2, <2>1 DEF n
<1>9. ASSUME NoReset(new) PROVE ClearedAt(fs, End(es, at, new)) = ClearedAt(es, at)
 <2>1. CASE new = <<>> BY <1>7, <1>8, <2>1 DEF End
 <2>2. CASE new # <<>>
  <3>1. m # 0 /\ End(es, at, new) = n + m BY <2>2, EmptySeq DEF End, n, m
  <3>2. m \in 1 .. m /\ n + m # 0 BY <1>1, <3>1
  <3>3. Path(fs, n + m) = fs[n + m].path BY <3>2 DEF Path
  <3>4. ToSet(Path(fs, n + m)) = ToSet(Path(es, at)) \cup (n + 1 .. n + m)
    BY <1>1, <3>2, <3>3
  <3>5. \A k \in n + 1 .. n + m : fs[k].kind # "reset"
   <4>1. ASSUME NEW k \in n + 1 .. n + m PROVE fs[k].kind # "reset"
    <5>1. k - n \in 1 .. m /\ k = n + (k - n) BY <1>1
    <5>2. PICK l \in 1 .. m : k = n + l BY <5>1
    <5> QED BY <1>1, <1>9, <5>2 DEF NoReset, m
   <4> QED BY <4>1
  <3>6. \A k \in 1 .. n, i \in n + 1 .. n + m : ~(i < k) BY <1>1
  <3>7. ClearedIds(fs, n + m) = ClearedIds(es, at)
    BY <1>1, <1>8, <3>4, <3>5, <3>6 DEF ClearedIds
  <3>8. \A i \in ClearedIds(es, at) : fs[i] = es[i] BY <1>1, <1>8 DEF ClearedIds
  <3>9. ClearedAt(fs, n + m) = ClearedAt(es, at) BY <3>7, <3>8 DEF ClearedAt
  <3> QED BY <3>1, <3>9
 <2> QED BY <2>1, <2>2
<1>10. ASSUME EntriesPlain(es), EntriesPlain(new) PROVE EntriesPlain(fs)
 <2>1. ASSUME NEW i \in DOMAIN fs
       PROVE  /\ fs[i].kind = "message" => fs[i].msg.role # "summary"
              /\ fs[i].kind = "reset" => Of(fs[i].msg) = {0}
  <3>1. CASE i \in 1 .. n
   <4>1. i \in DOMAIN es /\ fs[i] = es[i] BY <1>1, <1>2, <3>1
   <4> QED BY <1>10, <4>1 DEF EntriesPlain
  <3>2. CASE i - n \in 1 .. m /\ i = n + (i - n)
   <4>1. PICK k \in 1 .. m : i = n + k BY <3>2
   <4>2. k \in DOMAIN new /\ fs[i].kind = new[k].kind /\ fs[i].msg = new[k].msg
     BY <1>1, <1>2, <4>1
   <4> QED BY <1>10, <4>2 DEF EntriesPlain
  <3> QED BY <1>2, <1>3, <2>1, <3>1, <3>2
 <2> QED BY <2>1 DEF EntriesPlain
<1>11. ASSUME EntriesApart(es), ToldBy(new) \cap ClearedAt(es, at) \subseteq {0},
              NoReset(new) \/ Len(new) <= 1
       PROVE  EntriesApart(fs)
 <2> SUFFICES ASSUME NEW a \in DOMAIN fs, NEW i \in ToSet(fs[a].path), NEW j \in ToSet(fs[a].path),
                     NEW k \in ToSet(fs[a].path), i < k, k < j, fs[k].kind = "reset"
              PROVE  Of(fs[i].msg) \cap Of(fs[j].msg) \subseteq {0}
   BY DEF EntriesApart
 <2>1. CASE a \in 1 .. n
  <3>1. fs[a] = es[a] /\ a \in DOMAIN es BY <1>1, <1>2, <2>1
  <3>2. a \in 0 .. Len(es) /\ Path(es, a) = es[a].path BY <1>1, <2>1 DEF Path, n
  <3>3. ToSet(es[a].path) \subseteq DOMAIN es BY <3>2, PathRange
  <3>4. fs[i] = es[i] /\ fs[j] = es[j] /\ fs[k] = es[k] BY <1>1, <1>2, <3>1, <3>3
  <3> QED BY <1>11, <3>1, <3>4 DEF EntriesApart
 <2>2. CASE a - n \in 1 .. m /\ a = n + (a - n)
  <3>1. PICK b \in 1 .. m : a = n + b BY <2>2
  <3>2. ToSet(fs[a].path) = ToSet(Path(es, at)) \cup (n + 1 .. n + b) BY <1>1, <3>1
  <3>3. k \notin n + 1 .. n + b
   <4> SUFFICES ASSUME k \in n + 1 .. n + b PROVE FALSE OBVIOUS
   <4>1. k - n \in 1 .. m /\ k = n + (k - n) BY <1>1, <3>1
   <4>2. PICK l \in 1 .. m : k = n + l BY <4>1
   <4>3. new[l].kind = "reset" BY <1>1, <4>2
   <4>4. m <= 1 BY <1>11, <4>3 DEF NoReset, m
   <4>5. \A x \in 1 .. n : x < n + l BY <1>1
   <4>6. \A x \in n + 1 .. n + b : x <= n + l BY <1>1, <4>4
   <4>7. j \in 1 .. n \/ j \in n + 1 .. n + b BY <1>8, <3>2
   <4>8. j <= k /\ j \in Int /\ k \in Int
    <5>1. CASE j \in 1 .. n
     <6>1. j < n + l BY <4>5, <5>1
     <6> QED BY <1>1, <4>2, <5>1, <6>1
    <5>2. CASE j \in n + 1 .. n + b
     <6>1. j <= n + l BY <4>6, <5>2
     <6> QED BY <1>1, <4>2, <5>2, <6>1
    <5> QED BY <4>7, <5>1, <5>2
   <4>9. ~(k < j) BY <4>8
   <4> QED BY <4>9
  <3>4. k \in ToSet(Path(es, at)) /\ k \in 1 .. n BY <1>8, <3>2, <3>3
  <3>5. i \in ToSet(Path(es, at)) /\ i \in 1 .. n
   <4>1. \A x \in n + 1 .. n + b : ~(x < k) BY <1>1, <3>4
   <4> QED BY <1>8, <3>2, <4>1
  <3>6. fs[k] = es[k] /\ fs[i] = es[i] BY <1>1, <3>4, <3>5
  <3>7. CASE j \in ToSet(Path(es, at))
   <4>1. j \in 1 .. n /\ fs[j] = es[j] BY <1>1, <1>8, <3>7
   <4>2. at # 0 BY <1>8, <3>7, PathRange
   <4>3. at \in DOMAIN es /\ Path(es, at) = es[at].path BY <1>1, <1>2, <1>8, <4>2 DEF Path
   <4> QED BY <1>11, <3>4, <3>5, <3>6, <3>7, <4>1, <4>3 DEF EntriesApart
  <3>8. CASE j \in n + 1 .. n + b
   <4>1. j - n \in 1 .. m /\ j = n + (j - n) BY <1>1, <3>1, <3>8
   <4>2. PICK l \in 1 .. m : j = n + l BY <4>1
   <4>3. Of(fs[j].msg) \subseteq ToldBy(new) BY <1>1, <1>2, <4>2 DEF ToldBy
   <4>4. Of(fs[i].msg) \subseteq ClearedAt(es, at)
     BY <3>4, <3>5, <3>6 DEF ClearedAt, ClearedIds
   <4> QED BY <1>11, <4>3, <4>4
  <3> QED BY <3>2, <3>7, <3>8
 <2> QED BY <1>2, <1>3, <2>1, <2>2
<1> QED BY <1>6, <1>7, <1>9, <1>10, <1>11 DEF n

-----------------------------------------------------------------------------
(* A conversation tells what its section of the path tells.                 *)

\* The ids of a stretch that come later than every clear on the way.
LEMMA SectionAfter ==
  ASSUME NEW es \in Seq(EntryRow), NEW ids, NEW n \in 0 .. Len(es), Ascend(ids, n)
  PROVE  /\ ToSet(AfterLastReset(es, ids)) \subseteq ToSet(ids)
         /\ \A j \in ToSet(AfterLastReset(es, ids)) : \A k \in ToSet(ids) :
              es[k].kind \in Boundary => k < j
<1> DEFINE T == OfKind(es, ids, Boundary)
           l == LastOf(T)
           q == AfterLastReset(es, ids)
<1>1. ids \in Seq(Nat) /\ Len(ids) \in Nat /\ DOMAIN ids = 1 .. Len(ids) /\ T \in SUBSET (1 .. Len(ids))
  BY LenProperties DEF Ascend, OfKind
<1>2. l \in 0 .. Len(ids) /\ \A k \in T : k <= l
 <2> HIDE DEF T
 <2> QED BY <1>1, LastIs
<1>3. q = SubSeq(ids, l + 1, Len(ids)) BY SectionIs
<1> HIDE DEF l, q
<1>4. /\ q \in Seq(Nat) /\ Len(q) = Len(ids) - l
      /\ \A k \in 1 .. Len(ids) - l : q[k] = ids[l + k]
 <2>1. l + 1 \in Int /\ Len(ids) \in Int /\ \A k \in l + 1 .. Len(ids) : ids[k] \in Nat
   BY <1>1, <1>2, ElementOfSeq
 <2>2. /\ q \in Seq(Nat)
       /\ Len(q) = IF l + 1 <= Len(ids) THEN Len(ids) - (l + 1) + 1 ELSE 0
       /\ \A k \in 1 .. Len(ids) - (l + 1) + 1 : q[k] = ids[l + 1 + k - 1]
   BY <1>3, <2>1, SubSeqProperties
 <2>3. Len(q) = Len(ids) - l
  <3>1. Len(q) = IF l + 1 <= Len(ids) THEN Len(ids) - (l + 1) + 1 ELSE 0 BY <2>2
  <3>2. l \in 0 .. Len(ids) BY <1>2
  <3>3. Len(ids) \in Nat BY <1>1
  <3>4. CASE l + 1 <= Len(ids) BY <3>1, <3>2, <3>3, <3>4
  <3>5. CASE ~(l + 1 <= Len(ids))
   <4>1. l = Len(ids) BY <3>2, <3>3, <3>5
   <4> QED BY <3>1, <3>3, <3>5, <4>1
  <3> QED BY <3>4, <3>5
 <2>4. ASSUME NEW k \in 1 .. Len(ids) - l PROVE q[k] = ids[l + k]
  <3>1. k \in 1 .. Len(ids) - (l + 1) + 1 /\ l + 1 + k - 1 = l + k BY <1>1, <1>2
  <3> QED BY <2>2, <3>1
 <2> QED BY <2>2, <2>3, <2>4
<1>5. DOMAIN q = 1 .. Len(ids) - l BY <1>4, LenProperties
<1>6. ASSUME NEW j \in ToSet(q)
      PROVE  \E x \in 1 .. Len(ids) : l < x /\ ids[x] = j
 <2>1. PICK k \in 1 .. Len(ids) - l : q[k] = j BY <1>5 DEF ToSet
 <2>2. l + k \in 1 .. Len(ids) /\ l < l + k BY <1>1, <1>2
 <2> QED BY <1>4, <2>1, <2>2
<1>7. ASSUME NEW j \in ToSet(q), NEW k \in ToSet(ids), es[k].kind \in Boundary PROVE k < j
 <2>1. PICK x \in 1 .. Len(ids) : l < x /\ ids[x] = j BY <1>6
 <2>2. PICK y \in 1 .. Len(ids) : ids[y] = k BY <1>1 DEF ToSet
 <2>3. y \in T BY <1>7, <2>2 DEF OfKind
 <2>4. y < x BY <1>1, <1>2, <2>1, <2>3
 <2> QED BY <2>1, <2>2, <2>4 DEF Ascend
<1>8. ToSet(q) \subseteq ToSet(ids) BY <1>1, <1>6 DEF ToSet
<1> QED BY <1>7, <1>8 DEF q

LEMMA ApplyTells ==
  ASSUME NEW es \in Seq(EntryRow), NEW q \in Seq(DOMAIN es)
  PROVE  /\ \A m \in ToSet(ApplyLastCompaction(es, q)) : \E i \in ToSet(q) : m = es[i].msg
         /\ EntriesPlain(es) => SummaryFirst(ApplyLastCompaction(es, q))
<1> DEFINE C == OfKind(es, q, {"compaction"})
           c == LastOf(C)
           k == KeptAfter(es, q, c)
           rest == SubSeq(q, k + 1, Len(q))
<1>1. /\ Len(q) \in Nat /\ \A i \in 1 .. Len(q) : q[i] \in DOMAIN es
      /\ q \in Seq(Nat) /\ DOMAIN es \subseteq Nat /\ DOMAIN q = 1 .. Len(q)
 <2>1. DOMAIN es \subseteq Nat BY LenProperties
 <2> QED BY <2>1, LenProperties, ElementOfSeq, SeqMonotonic
<1>2. C \in SUBSET (1 .. Len(q)) BY DEF OfKind
<1>3. c \in 0 .. Len(q)
 <2> HIDE DEF C
 <2> QED BY <1>1, <1>2, LastIs
<1>4. ApplyLastCompaction(es, q) = IF c = 0 THEN Messages(es, q)
                                   ELSE <<es[q[c]].msg>> \o Messages(es, rest)
  BY ApplyIs
<1> HIDE DEF C
<1>5. k \in 0 .. Len(q)
 <2>1. PlacesOf(q, es[q[c]].kept) \in SUBSET (1 .. Len(q)) BY DEF PlacesOf
 <2>2. FirstOf(PlacesOf(q, es[q[c]].kept)) \in 0 .. Len(q) BY <1>1, <2>1, FirstIs
 <2>3. 0 \in 0 .. Len(q) BY <1>1
 <2> QED BY <1>3, <2>2, <2>3, KeptAfterIs
<1> HIDE DEF c, k
<1>6. rest \in Seq(Nat) /\ ToSet(rest) \subseteq ToSet(q)
 <2> DEFINE l == k + 1
            front == SubSeq(q, 1, l - 1)
 <2>1. l \in 1 .. Len(q) + 1 /\ rest = SubSeq(q, l, Len(q))
  <3>1. Len(q) \in Nat BY <1>1
  <3>2. l \in 1 .. Len(q) + 1 BY <1>5, <3>1, SMTT(30)
  <3> QED BY <3>2
 <2> HIDE DEF l, rest
 <2>2. front \in Seq(Nat) /\ rest \in Seq(Nat) /\ q = front \o rest BY <1>1, <2>1, Halves
 <2>3. front \in Seq(Nat) /\ q = front \o rest BY <2>2
 <2> HIDE DEF front
 <2>4. ToSet(front \o rest) = ToSet(front) \cup ToSet(rest) BY <2>2, <2>3, SetOfConcat
 <2> QED BY <2>2, <2>3, <2>4
<1> HIDE DEF rest
<1>7. /\ Messages(es, q) \in Seq(Said) /\ Messages(es, rest) \in Seq(Said)
      /\ ToSet(Messages(es, q)) = {es[i].msg : i \in ToSet(q) \cap Talk(es)}
      /\ ToSet(Messages(es, rest)) = {es[i].msg : i \in ToSet(rest) \cap Talk(es)}
  BY <1>1, <1>6, MessagesIs, MessagesSet
<1>8. ASSUME EntriesPlain(es)
      PROVE  /\ \A m \in ToSet(Messages(es, q)) : m.role # "summary"
             /\ \A m \in ToSet(Messages(es, rest)) : m.role # "summary"
  BY <1>7, <1>8 DEF EntriesPlain, Talk
<1>9. CASE c = 0
 <2>1. ApplyLastCompaction(es, q) = Messages(es, q) BY <1>4, <1>9
 <2>2. EntriesPlain(es) => SummaryFirst(Messages(es, q))
  <3> SUFFICES ASSUME EntriesPlain(es), NEW i \in 1 .. Len(Messages(es, q)),
                      Messages(es, q)[i].role = "summary"
               PROVE  FALSE
    BY DEF SummaryFirst
  <3> DEFINE s == Messages(es, q)
  <3>1. s \in Seq(Said) /\ s[i].role = "summary" /\ i \in 1 .. Len(s) BY <1>7
  <3>2. \A m \in ToSet(s) : m.role # "summary" BY <1>8
  <3> HIDE DEF s
  <3>3. s[i] \in ToSet(s) BY <3>1, LenProperties DEF ToSet
  <3> QED BY <3>1, <3>2, <3>3
 <2> QED BY <1>7, <2>1, <2>2
<1>10. CASE c # 0
 <2>1. c \in 1 .. Len(q) BY <1>1, <1>3, <1>10
 <2>2. es[q[c]] \in EntryRow /\ q[c] \in ToSet(q)
   BY <1>1, <2>1, LenProperties, ElementOfSeq DEF ToSet
 <2> DEFINE m == es[q[c]].msg
            s == Messages(es, rest)
 <2>3. m \in Said BY <2>2 DEF EntryRow
 <2>4. ApplyLastCompaction(es, q) = <<m>> \o s BY <1>4, <1>10
 <2>5. s \in Seq(Said) /\ (EntriesPlain(es) => \A x \in ToSet(s) : x.role # "summary")
   BY <1>7, <1>8
 <2>6. \A x \in ToSet(s) : \E i \in ToSet(q) : x = es[i].msg BY <1>6, <1>7
 <2>7. \E i \in ToSet(q) : m = es[i].msg BY <2>2
 <2> HIDE DEF m, s
 <2>8. ToSet(<<m>> \o s) = {m} \cup ToSet(s)
  <3> DEFINE one == <<m>>
  <3>1. one \in Seq(Said) /\ ToSet(one) = {m} BY <2>3, SetOfOne
  <3>2. s \in Seq(Said) BY <2>5
  <3> HIDE DEF one
  <3>3. ToSet(one \o s) = ToSet(one) \cup ToSet(s) BY <3>1, <3>2, SetOfConcat
  <3> QED BY <3>1, <3>3 DEF one
 <2>9. EntriesPlain(es) => SummaryFirst(<<m>> \o s) BY <2>3, <2>5, SummaryBefore
 <2> QED BY <2>4, <2>6, <2>7, <2>8, <2>9
<1> QED BY <1>9, <1>10

\* A conversation: told, and not before a clear.
LEMMA ContextTells ==
  ASSUME NEW es \in Seq(EntryRow), PathsAscend(es), EntriesPlain(es), EntriesApart(es),
         NEW at \in 0 .. Len(es)
  PROVE  /\ Context(es, at) \in Seq(Said) /\ SummaryFirst(Context(es, at))
         /\ Covered(Context(es, at)) \subseteq ToldBy(es)
         /\ Covered(Context(es, at)) \cap ClearedAt(es, at) \subseteq {0}
<1> DEFINE ids == Path(es, at)
           q == AfterLastReset(es, ids)
           all == Recorded(es, at)
<1>1. Ascend(ids, at) /\ ToSet(ids) \subseteq DOMAIN es /\ at \in 0 .. Len(es)
  BY PathAscends, PathRange
<1>2. q \in Seq(DOMAIN es) /\ ToSet(q) \subseteq ToSet(ids)
  BY <1>1, SectionAscends, SectionAfter DEF SectionOf
<1>3. \A j \in ToSet(q) : \A k \in ToSet(ids) : es[k].kind = "reset" => k < j
 <2>1. \A j \in ToSet(q) : \A k \in ToSet(ids) : es[k].kind \in Boundary => k < j
   BY <1>1, SectionAfter
 <2> HIDE DEF q, ids
 <2> QED BY <2>1 DEF Boundary
<1>4. all \in Seq(Said) /\ all = ApplyLastCompaction(es, q) BY RecordedIsSeq DEF Recorded
<1>5. SummaryFirst(all) /\ \A m \in ToSet(all) : \E i \in ToSet(q) : m = es[i].msg
  BY <1>2, <1>4, ApplyTells
<1> HIDE DEF all, q
<1>6. \A x \in Covered(all) : \E i \in ToSet(q) : x \in Of(es[i].msg)
  BY <1>4, <1>5, CoveredBy
<1>7. Covered(all) \subseteq ToldBy(es) BY <1>1, <1>2, <1>6 DEF ToldBy
<1>8. ASSUME NEW x \in Covered(all), x \in ClearedAt(es, at) PROVE x = 0
 <2>1. PICK j \in ToSet(q) : x \in Of(es[j].msg) BY <1>6
 <2>2. PICK i \in ToSet(ids) : /\ x \in Of(es[i].msg)
                               /\ \E k \in ToSet(ids) : i < k /\ es[k].kind = "reset"
   BY <1>8 DEF ClearedAt, ClearedIds
 <2>3. PICK k \in ToSet(ids) : i < k /\ es[k].kind = "reset" BY <2>2
 <2>4. k < j /\ j \in ToSet(ids) BY <1>2, <1>3, <2>3
 <2>5. at \in DOMAIN es /\ ids = es[at].path
  <3>1. at # 0 BY <2>3, SetOfNone DEF Path
  <3> QED BY <3>1, LenProperties DEF Path
 <2> QED BY <2>1, <2>2, <2>3, <2>4, <2>5 DEF EntriesApart
<1>9. Context(es, at) = WithoutDangling(all) BY DEF Context, all
<1>10. Context(es, at) \in Seq(Said) /\ ToSet(Context(es, at)) \subseteq ToSet(all)
  BY <1>4, <1>9, UndangledIsSeq
<1>11. Covered(Context(es, at)) \subseteq Covered(all) BY <1>10, SetsOfPart
<1>12. SummaryFirst(Context(es, at))
  BY <1>4, <1>5, <1>9, SummaryStaysFirst DEF WithoutDangling
<1> QED BY <1>7, <1>8, <1>10, <1>11, <1>12

-----------------------------------------------------------------------------
(* What a capture tells.                                                   *)

LEMMA SaysTell ==
  ASSUME NEW ms \in Seq(Said)
  PROVE  /\ ToldBy(Says(ms)) = Covered(ms) /\ NoReset(Says(ms))
         /\ (\A m \in ToSet(ms) : m.role # "summary") => EntriesPlain(Says(ms))
<1>1. DOMAIN ms = 1 .. Len(ms) /\ DOMAIN Says(ms) = 1 .. Len(ms) /\ Len(Says(ms)) = Len(ms)
 <2>1. DOMAIN ms = 1 .. Len(ms) /\ Len(ms) \in Nat BY LenProperties
 <2> QED BY <2>1 DEF Says
<1>2. \A k \in 1 .. Len(ms) : Says(ms)[k].msg = ms[k] /\ Says(ms)[k].kind = "message"
  BY <1>1 DEF Says, MessageEntry, Entry
<1>3. ToldBy(Says(ms)) = Covered(ms) BY <1>1, <1>2, CoveredBy DEF ToldBy
<1>4. NoReset(Says(ms)) BY <1>1, <1>2 DEF NoReset
<1>5. (\A m \in ToSet(ms) : m.role # "summary") => EntriesPlain(Says(ms))
  BY <1>1, <1>2 DEF EntriesPlain, ToSet
<1> QED BY <1>3, <1>4, <1>5

LEMMA MoreTell ==
  ASSUME NEW es, NEW e \in Plain(es), NEW new \in Seq(Plain(es))
  PROVE  /\ ToldBy(<<e>> \o new) = Of(e.msg) \cup ToldBy(new)
         /\ NoReset(new) /\ e.kind # "reset" => NoReset(<<e>> \o new)
         /\ EntriesPlain(new) /\ e.kind \notin {"message", "reset"} => EntriesPlain(<<e>> \o new)
<1> DEFINE s == <<e>> \o new
<1>1. /\ s \in Seq(Plain(es)) /\ Len(s) = Len(new) + 1 /\ Len(new) \in Nat
      /\ s[1] = e /\ \A k \in 1 .. Len(new) : s[k + 1] = new[k]
 <2>1. <<e>> \in Seq(Plain(es)) /\ Len(<<e>>) = 1 /\ <<e>>[1] = e BY SeqDef
 <2>2. /\ s \in Seq(Plain(es)) /\ Len(s) = 1 + Len(new) /\ Len(new) \in Nat
       /\ \A i \in 1 .. 1 + Len(new) : s[i] = IF i <= 1 THEN <<e>>[i] ELSE new[i - 1]
   BY <2>1, ConcatProperties, LenProperties
 <2> HIDE DEF s
 <2>3. 1 \in 1 .. 1 + Len(new) /\ s[1] = e BY <2>1, <2>2
 <2>4. ASSUME NEW k \in 1 .. Len(new) PROVE s[k + 1] = new[k]
  <3>1. k + 1 \in 1 .. 1 + Len(new) /\ ~(k + 1 <= 1) /\ k + 1 - 1 = k BY <2>2
  <3> QED BY <2>2, <3>1
 <2> QED BY <2>2, <2>3, <2>4
<1> HIDE DEF s
<1>2. DOMAIN s = 1 .. Len(new) + 1 /\ DOMAIN new = 1 .. Len(new) BY <1>1, LenProperties
<1>3. \A i \in 1 .. Len(new) + 1 : i = 1 \/ \E k \in 1 .. Len(new) : i = k + 1
 <2>1. ASSUME NEW i \in 1 .. Len(new) + 1, i # 1 PROVE \E k \in 1 .. Len(new) : i = k + 1
  <3>1. i - 1 \in 1 .. Len(new) /\ i = i - 1 + 1 BY <1>1, <2>1
  <3> QED BY <3>1
 <2> QED BY <2>1
<1>4. 1 \in 1 .. Len(new) + 1 /\ \A k \in 1 .. Len(new) : k + 1 \in 1 .. Len(new) + 1
  BY <1>1
<1>5. ToldBy(s) = Of(e.msg) \cup ToldBy(new)
 <2>1. ASSUME NEW x \in ToldBy(s) PROVE x \in Of(e.msg) \cup ToldBy(new)
  <3>1. PICK i \in 1 .. Len(new) + 1 : x \in Of(s[i].msg) BY <1>2, <2>1 DEF ToldBy
  <3> QED BY <1>1, <1>2, <1>3, <3>1 DEF ToldBy
 <2>2. Of(e.msg) \subseteq ToldBy(s) BY <1>1, <1>2, <1>4 DEF ToldBy
 <2>3. ASSUME NEW x \in ToldBy(new) PROVE x \in ToldBy(s)
  <3>1. PICK k \in 1 .. Len(new) : x \in Of(new[k].msg) BY <1>2, <2>3 DEF ToldBy
  <3>2. k + 1 \in DOMAIN s /\ s[k + 1] = new[k] BY <1>1, <1>2, <1>4
  <3> QED BY <3>1, <3>2 DEF ToldBy
 <2> QED BY <2>1, <2>2, <2>3
<1>6. ASSUME NoReset(new), e.kind # "reset" PROVE NoReset(s)
 <2>1. \A i \in 1 .. Len(new) + 1 : s[i].kind # "reset"
   BY <1>1, <1>3, <1>6, ZenonT(40) DEF NoReset
 <2> QED BY <1>1, <2>1 DEF NoReset
<1>7. ASSUME EntriesPlain(new), e.kind \notin {"message", "reset"} PROVE EntriesPlain(s)
 <2> SUFFICES ASSUME NEW i \in 1 .. Len(new) + 1
              PROVE  /\ s[i].kind = "message" => s[i].msg.role # "summary"
                     /\ s[i].kind = "reset" => Of(s[i].msg) = {0}
   BY <1>2 DEF EntriesPlain
 <2>1. CASE i = 1 BY <1>1, <1>7, <2>1
 <2>2. ASSUME NEW k \in 1 .. Len(new), i = k + 1
       PROVE  /\ s[i].kind = "message" => s[i].msg.role # "summary"
              /\ s[i].kind = "reset" => Of(s[i].msg) = {0}
  <3>1. s[i] = new[k] /\ k \in DOMAIN new BY <1>1, <1>2, <2>2
  <3> QED BY <1>7, <3>1 DEF EntriesPlain
 <2> QED BY <1>3, <2>1, <2>2
<1> QED BY <1>5, <1>6, <1>7 DEF s

LEMMA CondensedTells ==
  ASSUME LedgerTyped, NEW summary \in Said, summary.role = "summary", NEW after \in Seq(Said),
         \A m \in ToSet(after) : m.role # "summary",
         NEW new, new = CondensedEntries(summary, after)
  PROVE  /\ ToldBy(new) \subseteq summary.of \cup Covered(after)
         /\ summary.of \cup Covered(after)
              \subseteq ToldBy(new) \cup Covered(Context(entries, leaf))
         /\ NoReset(new) /\ EntriesPlain(new)
<1> DEFINE live == Context(entries, leaf)
           shared == SharedWith(live, after)
           rest == SubSeq(after, Len(shared) + 1, Len(after))
<1>0. entries \in Seq(EntryRow) /\ PathsAscend(entries) /\ leaf \in 0 .. Len(entries)
  BY DEF LedgerTyped
<1>1. live \in Seq(Said) BY <1>0, RecordedIsSeq
<1>2. /\ Keeps(live, after) =>
           /\ new = <<CompactionEntry(summary, FirstKept(entries, leaf, Head(after)))>> \o Says(rest)
           /\ rest \in Seq(Said) /\ after = shared \o rest
      /\ ~Keeps(live, after) => new = <<CompactionEntry(summary, NoMark)>> \o Says(after)
  BY <1>0, CondensedIs, SMTT(30)
<1>3. /\ shared \in Seq(Said)
      /\ shared # <<>> => \E from \in 1 .. Len(live) : shared = SubSeq(live, from, Len(live))
  BY <1>1, SharedIs
<1> DEFINE mark == IF Keeps(live, after) THEN FirstKept(entries, leaf, Head(after)) ELSE NoMark
           tail == IF Keeps(live, after) THEN rest ELSE after
           e == CompactionEntry(summary, mark)
<1>4. mark \in Int /\ mark <= Len(entries)
 <2>1. /\ FirstKept(entries, leaf, Head(after)) \in Int
       /\ FirstKept(entries, leaf, Head(after)) <= Len(entries)
   BY <1>0, FirstKeptIs
 <2>2. NoMark \in Int /\ NoMark <= Len(entries) BY <1>0, LenProperties DEF NoMark
 <2> QED BY <2>1, <2>2
<1>5. Covered(shared) \subseteq Covered(live)
 <2>1. CASE shared = <<>> BY <2>1, CoveredNone
 <2>2. CASE shared # <<>>
  <3>1. PICK from \in 1 .. Len(live) : shared = SubSeq(live, from, Len(live)) BY <1>3, <2>2
  <3>2. from \in 1 .. Len(live) + 1 BY <1>1, LenProperties
  <3> QED BY <1>1, <3>1, <3>2, CoveredParts
 <2> QED BY <2>1, <2>2
<1> HIDE DEF shared, rest, live
<1>6. /\ tail \in Seq(Said) /\ Covered(tail) \subseteq Covered(after)
      /\ Covered(after) \subseteq Covered(live) \cup Covered(tail)
      /\ \A m \in ToSet(tail) : m.role # "summary"
 <2>1. CASE Keeps(live, after)
  <3>1. rest \in Seq(Said) /\ after = shared \o rest /\ tail = rest BY <1>2, <2>1
  <3>2. /\ Covered(after) = Covered(shared) \cup Covered(rest)
        /\ ToSet(after) = ToSet(shared) \cup ToSet(rest)
    BY <1>3, <3>1, SetsOfConcat, SetOfConcat
  <3> QED BY <1>5, <3>1, <3>2
 <2>2. CASE ~Keeps(live, after) BY <2>2
 <2> QED BY <2>1, <2>2
<1>7. new = <<e>> \o Says(tail) BY <1>2
<1> HIDE DEF tail, mark
<1>8. e \in Plain(entries) /\ e.kind = "compaction" /\ e.msg = summary
  BY <1>0, <1>4, EntriesIn
<1> HIDE DEF e
<1>9. Says(tail) \in Seq(Plain(entries)) BY <1>0, <1>6, SaysIs
<1>10. ToldBy(Says(tail)) = Covered(tail) /\ NoReset(Says(tail)) /\ EntriesPlain(Says(tail))
  BY <1>6, SaysTell
<1>11. ToldBy(new) = Of(summary) \cup Covered(tail) /\ NoReset(new) /\ EntriesPlain(new)
  BY <1>7, <1>8, <1>9, <1>10, MoreTell
<1>12. Of(summary) = summary.of BY DEF Of
<1> QED BY <1>6, <1>11, <1>12 DEF live

LEMMA SubSeqOne ==
  ASSUME NEW ms \in Seq(Said), ms # <<>>
  PROVE  SubSeq(ms, 1, 1) = <<ms[1]>> /\ ms[1] \in Said
<1>1. Len(ms) \in Nat /\ Len(ms) # 0 BY EmptySeq, LenProperties
<1>2. 2 \in 1 .. Len(ms) + 1 /\ 2 - 1 = 1 /\ 1 \in 1 .. Len(ms) BY <1>1
<1>3. ms[1] \in Said BY <1>2, ElementOfSeq
<1> DEFINE a == SubSeq(ms, 1, 1)
<1>4. a \in Seq(Said) /\ Len(a) = 1 BY <1>2, Halves
<1>5. a[1] = ms[1]
 <2>1. 1 \in Int /\ \A i \in 1 .. 1 : ms[i] \in Said BY <1>3
 <2>2. \A i \in 1 .. 1 - 1 + 1 : a[i] = ms[1 + i - 1] BY <2>1, SubSeqProperties
 <2>3. 1 \in 1 .. 1 - 1 + 1 /\ 1 + 1 - 1 = 1 OBVIOUS
 <2> QED BY <2>2, <2>3
<1> HIDE DEF a
<1>6. <<ms[1]>> \in Seq(Said) /\ Len(<<ms[1]>>) = 1 /\ <<ms[1]>>[1] = ms[1] BY <1>3
<1>7. \A i \in 1 .. Len(a) : a[i] = <<ms[1]>>[i] BY <1>4, <1>5, <1>6
<1>8. a = <<ms[1]>> BY <1>4, <1>6, <1>7, SeqEqual
<1> QED BY <1>3, <1>8 DEF a

LEMMA CaptureTells ==
  ASSUME LedgerTyped, EntriesPlain(entries), EntriesApart(entries),
         NEW ms \in Seq(Said), SummaryFirst(ms), NEW seen \in Seq(Said),
         NEW new, new = CaptureEntries(ms, seen)
  PROVE  /\ new \in Seq(Plain(entries))
         /\ ToldBy(new) \subseteq Covered(ms) \cup {0}
         /\ Covered(ms) \subseteq ToldBy(new) \cup ToldBy(entries) \cup Covered(seen)
         /\ NoReset(new) /\ EntriesPlain(new)
<1> DEFINE at == SummaryAt(ms)
           after == SubSeq(ms, at + 1, Len(ms))
           rest == SubSeq(ms, Len(seen) + 1, Len(ms))
<1>0. entries \in Seq(EntryRow) /\ PathsAscend(entries) /\ leaf \in 0 .. Len(entries)
  BY DEF LedgerTyped
<1>1. /\ new \in Seq(Plain(entries)) /\ at \in 0 .. Len(ms)
      /\ at # 0 => ms[at] \in Said /\ after \in Seq(Said)
      /\ IsPrefix(seen, ms) /\ (seen # <<>> \/ at = 0) => new = Says(rest)
      /\ at # 0 /\ ~(IsPrefix(seen, ms) /\ seen # <<>>) => new = CondensedEntries(ms[at], after)
      /\ at = 0 /\ ~IsPrefix(seen, ms) => new = <<CheckpointReset>> \o Says(ms)
  BY <1>0, CaptureIs
<1>2. Len(ms) \in Nat /\ Len(seen) \in Nat BY LenProperties
<1>3. /\ at # 0 => at = 1 /\ ms[at].role = "summary"
      /\ at = 0 => \A m \in ToSet(ms) : m.role # "summary"
 <2> DEFINE U == {k \in 1 .. Len(ms) : ms[k].role = "summary"}
 <2>1. U \in SUBSET (1 .. Len(ms)) /\ at = FirstOf(U) BY DEF SummaryAt
 <2>2. \A k \in 1 .. Len(ms) : ms[k].role = "summary" => k \in U OBVIOUS
 <2>3. \A k \in U : k = 1 /\ ms[k].role = "summary" BY DEF SummaryFirst
 <2>4. DOMAIN ms = 1 .. Len(ms) BY LenProperties
 <2> HIDE DEF U, at
 <2>5. (at = 0 <=> U = {}) /\ (U # {} => at \in U) BY <1>2, <2>1, FirstIs
 <2> QED BY <2>2, <2>3, <2>4, <2>5 DEF ToSet
<1> HIDE DEF at
<1>4. CASE IsPrefix(seen, ms) /\ (seen # <<>> \/ at = 0)
 <2>1. /\ Len(seen) <= Len(ms) /\ rest \in Seq(Said) /\ ms = seen \o rest BY <1>4, PrefixIs
 <2>2. \A m \in ToSet(rest) : m.role # "summary"
  <3>1. CASE seen # <<>>
   <4> DEFINE k == Len(seen) + 1
   <4>1. Len(seen) # 0 BY <3>1, EmptySeq
   <4>2. k \in 1 .. Len(ms) + 1 /\ k > 1 /\ rest = SubSeq(ms, k, Len(ms))
     BY <1>2, <2>1, <4>1
   <4> HIDE DEF k, rest
   <4> QED BY <4>2, CoveredParts
  <3>2. CASE at = 0
   <4> HIDE DEF rest
   <4>1. ToSet(ms) = ToSet(seen) \cup ToSet(rest) BY <2>1, SetOfConcat
   <4> QED BY <1>3, <3>2, <4>1
  <3> QED BY <1>4, <3>1, <3>2
 <2> HIDE DEF rest
 <2>3. new = Says(rest) BY <1>1, <1>4
 <2>4. Covered(ms) = Covered(seen) \cup Covered(rest) BY <2>1, SetsOfConcat
 <2>5. ToldBy(new) = Covered(rest) /\ NoReset(new) /\ EntriesPlain(new)
   BY <2>1, <2>2, <2>3, SaysTell
 <2> QED BY <1>1, <2>4, <2>5
<1>5. CASE at # 0 /\ ~(IsPrefix(seen, ms) /\ seen # <<>>)
 <2>1. at = 1 /\ ms[1] \in Said /\ ms[1].role = "summary" /\ new = CondensedEntries(ms[1], after)
   BY <1>1, <1>3, <1>5
 <2>2. 2 \in 1 .. Len(ms) + 1 /\ 2 - 1 = 1 /\ after = SubSeq(ms, 2, Len(ms)) /\ Len(ms) # 0
   BY <1>1, <1>2, <1>5, <2>1
 <2> HIDE DEF after
 <2>3. /\ after \in Seq(Said) /\ SubSeq(ms, 1, 1) \in Seq(Said)
       /\ Covered(ms) = Covered(SubSeq(ms, 1, 1)) \cup Covered(after)
       /\ \A m \in ToSet(after) : m.role # "summary"
   BY <2>2, CoveredParts
 <2>4. SubSeq(ms, 1, 1) = <<ms[1]>>
  <3>1. ms # <<>> BY <2>2, EmptySeq
  <3> QED BY <3>1, SubSeqOne
 <2>5. Covered(SubSeq(ms, 1, 1)) = ms[1].of BY <2>1, <2>4, CoveredOne DEF Of
 <2>6. /\ ToldBy(new) \subseteq ms[1].of \cup Covered(after)
       /\ ms[1].of \cup Covered(after) \subseteq ToldBy(new) \cup Covered(Context(entries, leaf))
       /\ NoReset(new) /\ EntriesPlain(new)
   BY <2>1, <2>3, CondensedTells
 <2>7. Covered(Context(entries, leaf)) \subseteq ToldBy(entries) BY <1>0, ContextTells
 <2> QED BY <1>1, <2>3, <2>5, <2>6, <2>7
<1>6. CASE at = 0 /\ ~IsPrefix(seen, ms)
 <2>1. new = <<CheckpointReset>> \o Says(ms) BY <1>1, <1>6
 <2>2. /\ CheckpointReset \in Plain(entries) /\ CheckpointReset.kind = "checkpoint_reset"
       /\ CheckpointReset.msg = NoMessage /\ Says(ms) \in Seq(Plain(entries))
   BY <1>0, EntriesIn, SaysIs
 <2>3. ToldBy(Says(ms)) = Covered(ms) /\ NoReset(Says(ms)) /\ EntriesPlain(Says(ms))
   BY <1>3, <1>6, SaysTell
 <2>4. ToldBy(new) = Of(NoMessage) \cup Covered(ms) /\ NoReset(new) /\ EntriesPlain(new)
   BY <2>1, <2>2, <2>3, MoreTell
 <2>5. Of(NoMessage) = {0} BY DEF Of, NoMessage
 <2> QED BY <1>1, <2>4, <2>5
<1> QED BY <1>1, <1>4, <1>5, <1>6

-----------------------------------------------------------------------------
(* Where no two tasks overlap: one task at a time has begun to move the     *)
(* session, and a compaction that waits is cancelled before a turn streams. *)

Early == {"free", "asleep", "summarising"}
Midturn == {"streaming", "capturing"}
InTurn == {"streaming", "capturing", "closing"}

AloneOf(f, b, k) ==
  /\ b.pc \in Early \cup {"reading", "writing", "activating", "announcing", "announced"}
  /\ b.pc # "free" => b.kind = "compact"
  /\ f.pc # "asleep" /\ (f.pc = "free" => f.kind = "none")
  /\ f.pc \in InTurn => f.kind = "turn"
  /\ f.pc # "free" => b.pc \in Early
  /\ b.pc \in {"asleep", "summarising"} /\ ~b.cancel => k
  /\ f.pc \in InTurn => b.pc = "free"
  /\ f.pc = "announced" \/ f.pc = "stopping" => b.pc = "free" \/ b.cancel
  /\ f.kind = "compact" /\ f.pc \notin {"free", "stopping"} => b.pc = "free"
  /\ f.kind \in {"clear", "branch"} => b.pc \in {"free", "asleep"}

Alone == op["side"] = Idle /\ AloneOf(op["fg"], op["idle"], known)

\* The records of the tasks, when one of them changes.
OneMoves(p, pc, kind) ==
  /\ op'[p].pc = pc /\ op'[p].kind = kind /\ (p = "idle" => op'[p].cancel = op[p].cancel)
  /\ \A q \in Task \ {p} : op'[q] = op[q]

LEMMA IdleFields == /\ Idle.pc = "free" /\ Idle.kind = "none" /\ Idle.cancel = FALSE
                    /\ Idle.summary = {} /\ Idle.tail = <<>> /\ Idle.seed = <<>>
  BY DEF Idle

LEMMA TaskIs == Task = {"fg", "side", "idle"}
  BY DEF Task

\* A task that is on its way is the submission in hand or the idle compaction.
LEMMA OnTheWay ==
  ASSUME Alone, NEW p \in Task, op[p].pc # "free"
  PROVE  p = "fg" \/ p = "idle"
  BY IdleFields, TaskIs DEF Alone

LEMMA MayStartIs ==
  ASSUME ~Overlaps, NEW p, NEW pcs, MayStart(p, pcs)
  PROVE  p = "fg" /\ op["fg"].pc = "free" /\ op["idle"].pc \in pcs
  BY DEF MayStart, Free

LEMMA AloneMoves ==
  ASSUME op \in [Task -> OpRec], known \in BOOLEAN, ~Overlaps, Alone, NEW p \in Task,
         NEW pc, NEW kind, OneMoves(p, pc, kind),
         \/ known' = known
         \/ known' = FALSE /\ p = "idle" /\ pc \notin {"asleep", "summarising"},
         p = "fg" \/ p = "idle",
         p = "idle" =>
           \/ pc \in {"reading", "writing", "activating", "announcing", "announced"}
                /\ kind = "compact" /\ op["fg"].pc = "free"
           \/ pc = "summarising" /\ kind = "compact" /\ (op["idle"].cancel \/ known)
                /\ op["fg"].pc = "free",
         p = "fg" =>
           /\ pc \notin {"free", "asleep", "announced", "stopping"} /\ op["idle"].pc \in Early
           /\ pc \in InTurn => kind = "turn" /\ op["idle"].pc = "free"
           /\ kind = "compact" => op["idle"].pc = "free"
           /\ kind \in {"clear", "branch"} => op["idle"].pc \in {"free", "asleep"}
  PROVE  Alone'
<1>1. "fg" \in Task /\ "side" \in Task /\ "idle" \in Task BY TaskIs
<1>2. CASE p = "fg"
 <2>1. op'["idle"] = op["idle"] /\ op'["side"] = op["side"] /\ known' = known
   BY <1>1, <1>2 DEF OneMoves
 <2>2. AloneOf(op'["fg"], op'["idle"], known')
   BY <1>2, <2>1 DEF OneMoves, Alone, AloneOf, Early, InTurn
 <2> QED BY <2>1, <2>2 DEF Alone
<1>3. CASE p = "idle"
 <2>1. op'["fg"] = op["fg"] /\ op'["side"] = op["side"] BY <1>1, <1>3 DEF OneMoves
 <2>2. AloneOf(op'["fg"], op'["idle"], known')
   BY <1>3, <2>1 DEF OneMoves, Alone, AloneOf, Early, InTurn
 <2> QED BY <2>1, <2>2 DEF Alone
<1> QED BY <1>2, <1>3

\* A task that ends.
LEMMA AloneEnds ==
  ASSUME op \in [Task -> OpRec], Alone, NEW p \in Task, op' = [op EXCEPT ![p] = Idle], known' = known
  PROVE  Alone'
<1>1. "fg" \in Task /\ "side" \in Task /\ "idle" \in Task BY TaskIs
<1>2. op'[p] = Idle /\ \A q \in Task \ {p} : op'[q] = op[q] OBVIOUS
<1>3. op'["side"] = Idle BY <1>1, <1>2 DEF Alone
<1>4. op'["fg"] = op["fg"] \/ op'["fg"] = Idle BY <1>1, <1>2
<1>5. op'["idle"] = op["idle"] \/ op'["idle"] = Idle BY <1>1, <1>2
<1>6. p = "fg" \/ op'["fg"] = op["fg"] BY <1>1, <1>2
<1>7. AloneOf(op'["fg"], op'["idle"], known')
  BY <1>4, <1>5, IdleFields DEF Alone, AloneOf, Early, InTurn
<1> QED BY <1>3, <1>7 DEF Alone

\* Where an operation begins to seed.
LEMMA StartsSeed ==
  ASSUME op \in [Task -> OpRec], NEW p \in Task, NEW record \in OpRec, NEW es, NEW at, NEW t,
         StartSeed(p, record, es, at, t)
  PROVE  /\ op' = [op EXCEPT ![p] = op'[p]] /\ op'[p].pc = "reading" /\ op'[p].kind = record.kind
         /\ op'[p].cancel = record.cancel /\ op'[p].on = t /\ op'[p].seed = Context(es, at)
         /\ op'[p].prior = record.prior /\ op'[p].first = record.first /\ op'[p].last = record.last
         /\ \A q \in Task \ {p} : op'[q] = op[q]
<1> DEFINE o == [record EXCEPT !.pc = "reading", !.on = t, !.seed = Context(es, at)]
<1>1. op' = [op EXCEPT ![p] = o] BY DEF StartSeed
<1>2. /\ o.pc = "reading" /\ o.kind = record.kind /\ o.cancel = record.cancel /\ o.on = t
      /\ o.seed = Context(es, at) /\ o.prior = record.prior /\ o.first = record.first
      /\ o.last = record.last
  BY DEF OpRec
<1> HIDE DEF o
<1>3. op'[p] = o /\ \A q \in Task \ {p} : op'[q] = op[q] BY <1>1
<1> QED BY <1>1, <1>2, <1>3

-----------------------------------------------------------------------------
(* What each operation does to the session.                                *)

\* What a task is doing when its thread is being seeded.
Moved(p, kind, first, last) ==
  /\ current' = None /\ thread' = NextThread
  /\ checkpoints' = checkpoints \ {NextThread}
  /\ graph' = [graph EXCEPT ![NextThread] = <<>>]
  /\ UNCHANGED <<rows, cursor, known, job, spoken>>
  /\ OneMoves(p, "reading", kind)
  /\ op'[p].on = NextThread /\ op'[p].seed = Context(entries', leaf')
  /\ op'[p].prior = Prior /\ op'[p].first = first /\ op'[p].last = last

LEMMA MoveIs ==
  ASSUME Sound, NEW p \in Task, NEW record \in OpRec, NEW es, NEW at,
         Move(p, record, es, at), spoken' = spoken, p = "idle" => record.cancel = op[p].cancel
  PROVE  /\ entries' = es /\ leaf' = at
         /\ Moved(p, record.kind, record.first, record.last)
<1> DEFINE u == [record EXCEPT !.prior = Prior]
<1>0. op \in [Task -> OpRec] BY DEF Sound, Typed
<1>1. /\ u.prior = Prior /\ u.kind = record.kind /\ u.cancel = record.cancel
      /\ u.first = record.first /\ u.last = record.last
  BY DEF OpRec
<1>2. u \in OpRec
 <2>1. Len(entries) \in Nat /\ leaf \in 0 .. Len(entries)
   BY LenProperties DEF Sound, Typed, LedgerTyped
 <2>2. leaf \in Nat /\ thread \in Thread /\ current \in Thread \cup {None}
   BY <2>1 DEF Sound, Typed, ThreadsTyped
 <2>3. Prior \in Places BY <2>2 DEF Prior, Places
 <2> QED BY <2>3 DEF OpRec
<1>3. /\ entries' = es /\ leaf' = at /\ current' = None /\ thread' = NextThread
      /\ StartSeed(p, u, es, at, NextThread) /\ UNCHANGED <<rows, cursor, known, job>>
  BY DEF Move
<1>4. checkpoints' = checkpoints \ {NextThread} /\ graph' = [graph EXCEPT ![NextThread] = <<>>]
  BY <1>3 DEF StartSeed
<1> HIDE DEF u
<1> QED BY <1>0, <1>1, <1>2, <1>3, <1>4, StartsSeed DEF Moved, OneMoves

LEMMA ClearIs ==
  ASSUME Sound, ~Overlaps, NEW p \in Task, Clear(p)
  PROVE  /\ p = "fg" /\ op["fg"].pc = "free" /\ op["idle"].pc \in {"free", "asleep"}
         /\ entries' = AppendMany(entries, leaf, <<ResetBoundaryEntry>>)
         /\ leaf' = Len(entries) + 1 /\ Len(entries') = Len(entries) + 1
         /\ Moved(p, "clear", Len(entries) + 1, Len(entries) + 1)
<1> DEFINE es == Placed(entries, leaf, ResetBoundaryEntry)
           record == [Idle EXCEPT !.kind = "clear", !.first = Len(es), !.last = Len(es)]
           new == <<ResetBoundaryEntry>>
<1>1. MayStart(p, {"free", "asleep"}) /\ Move(p, record, es, Len(es)) /\ UNCHANGED <<spoken, crashes>>
  BY DEF Clear
<1>2. /\ entries \in Seq(EntryRow) /\ PathsAscend(entries) /\ leaf \in 0 .. Len(entries)
      /\ Len(entries) \in Nat
  BY Facts
<1>3. ResetBoundaryEntry \in Plain(entries) /\ ResetBoundaryEntry \in EntryIn
  BY <1>2, EntriesIn DEF Plain, NewIn
<1>4. new \in Seq(Plain(entries)) /\ Len(new) = 1 BY <1>3
<1>5. es = AppendMany(entries, leaf, new) BY <1>2, <1>3, PlacedIsMany
<1>6. Len(es) = Len(entries) + 1 /\ Len(es) \in Nat
 <2>1. new \in Seq(NewIn(entries)) BY <1>4, PlainSeq
 <2> HIDE DEF new, es
 <2>2. Len(es) = Len(entries) + Len(new) BY <1>2, <1>5, <2>1, ManyIs
 <2> QED BY <1>2, <1>4, <2>2
<1> HIDE DEF es
<1>7. /\ record \in OpRec /\ record.kind = "clear" /\ record.first = Len(es)
      /\ record.last = Len(es)
  BY <1>6, IdleIs DEF OpRec, OpKinds
<1> HIDE DEF record
<1>8. p = "fg" /\ op["fg"].pc = "free" /\ op["idle"].pc \in {"free", "asleep"}
  BY <1>1, MayStartIs
<1>9. /\ entries' = es /\ leaf' = Len(es) /\ Moved(p, record.kind, record.first, record.last)
  BY <1>1, <1>7, <1>8, MoveIs
<1> QED BY <1>5, <1>6, <1>7, <1>8, <1>9

LEMMA BranchIs ==
  ASSUME Sound, ~Overlaps, NEW p \in Task, NEW at \in DOMAIN entries, Branch(p, at)
  PROVE  /\ p = "fg" /\ op["fg"].pc = "free" /\ op["idle"].pc \in {"free", "asleep"}
         /\ entries' = entries /\ leaf' = at /\ at \in 1 .. Len(entries)
         /\ Moved(p, "branch", 0, 0)
<1> DEFINE record == [Idle EXCEPT !.kind = "branch"]
<1>1. MayStart(p, {"free", "asleep"}) /\ Move(p, record, entries, at) /\ UNCHANGED <<spoken, crashes>>
  BY DEF Branch
<1>2. entries \in Seq(EntryRow) /\ at \in 1 .. Len(entries) BY Facts, LenProperties
<1>3. /\ record \in OpRec /\ record.kind = "branch" /\ record.first = 0 /\ record.last = 0
 <2>1. Idle.first = 0 /\ Idle.last = 0 BY DEF Idle
 <2> QED BY <2>1, IdleIs DEF OpRec, OpKinds
<1> HIDE DEF record
<1>4. p = "fg" /\ op["fg"].pc = "free" /\ op["idle"].pc \in {"free", "asleep"}
  BY <1>1, MayStartIs
<1>5. entries' = entries /\ leaf' = at /\ Moved(p, record.kind, record.first, record.last)
  BY <1>1, <1>3, <1>4, MoveIs
<1> QED BY <1>2, <1>3, <1>4, <1>5

\* What a compaction appends.
CompactedEntries(o) ==
  LET kept == IF o.tail = <<>> THEN NoMark ELSE FirstKept(entries, leaf, Head(o.tail))
  IN  <<CompactionEntry(SummaryMessage(o.summary), kept)>> \o
      (IF kept = NoMark THEN Says(o.tail) ELSE <<>>)

LEMMA SummarisedIs ==
  ASSUME Sound, Alone, ~Overlaps, NEW p \in Task, Summarised(p), NEW o, o = op[p]
  PROVE  /\ o.pc = "summarising" /\ ~o.cancel /\ o.kind = "compact" /\ (p = "fg" \/ p = "idle")
         /\ p = "idle" => op["fg"].pc = "free"
         /\ CompactedEntries(o) \in Seq(Plain(entries))
         /\ entries' = AppendMany(entries, leaf, CompactedEntries(o))
         /\ leaf' = Len(entries) + Len(CompactedEntries(o))
         /\ Len(CompactedEntries(o)) \in Nat \ {0}
         /\ Len(entries') = Len(entries) + Len(CompactedEntries(o))
         /\ Moved(p, "compact", Len(entries) + 1, Len(entries'))
<1> DEFINE kept == IF o.tail = <<>> THEN NoMark ELSE FirstKept(entries, leaf, Head(o.tail))
           again == IF kept = NoMark THEN Says(o.tail) ELSE <<>>
           e == CompactionEntry(SummaryMessage(o.summary), kept)
           new == <<e>> \o again
           es == AppendMany(entries, leaf, new)
           record == [o EXCEPT !.first = Len(entries) + 1, !.last = Len(es),
                               !.summary = {}, !.tail = <<>>]
<1>1. /\ op[p].pc = "summarising" /\ ~op[p].cancel /\ MayGoOn(p)
      /\ Move(p, record, es, Len(es)) /\ UNCHANGED boundVars
  BY DEF Summarised
<1>2. /\ entries \in Seq(EntryRow) /\ PathsAscend(entries) /\ leaf \in 0 .. Len(entries)
      /\ Len(entries) \in Nat /\ op[p] \in OpRec /\ OpSound(op[p], rows)
  BY Facts
<1>3. SummaryMessage(o.summary) \in Said BY <1>2 DEF SummaryMessage, Said, OpRec
<1>4. kept \in Int /\ kept <= Len(entries)
 <2>1. FirstKept(entries, leaf, Head(o.tail)) \in Int
         /\ FirstKept(entries, leaf, Head(o.tail)) <= Len(entries)
   BY <1>2, FirstKeptIs
 <2>2. NoMark = -1 BY DEF NoMark
 <2> QED BY <1>2, <2>1, <2>2
<1> HIDE DEF kept
<1>5. again \in Seq(Plain(entries)) BY <1>2, SaysIs, EmptySeq DEF OpRec
<1> HIDE DEF again
<1>6. e \in Plain(entries) BY <1>2, <1>3, <1>4, EntriesIn
<1> HIDE DEF e
<1>7. /\ new \in Seq(Plain(entries)) /\ new # <<>> BY <1>5, <1>6, PlainMore
<1> HIDE DEF new
<1>8. /\ Len(es) = Len(entries) + Len(new) /\ Len(new) \in Nat /\ Len(new) # 0
  BY <1>2, <1>7, EmptySeq, PlainSeq, ManyIs
<1> HIDE DEF es
<1>9. /\ record \in OpRec /\ record.kind = "compact" /\ record.first = Len(entries) + 1
      /\ record.last = Len(es) /\ record.cancel = o.cancel
 <2>1. Len(entries) + 1 \in Nat /\ Len(es) \in Nat /\ {} \in SUBSET Nat /\ <<>> \in Seq(Said)
   BY <1>2, <1>8, EmptySeq
 <2>2. o.kind = "compact" BY <1>1, <1>2 DEF OpSound
 <2> QED BY <1>2, <2>1, <2>2 DEF OpRec, OpKinds
<1> HIDE DEF record
<1>10. entries' = es /\ leaf' = Len(es) /\ Moved(p, record.kind, record.first, record.last)
 <2>1. spoken' = spoken BY <1>1 DEF boundVars
 <2> QED BY <1>1, <1>9, <2>1, MoveIs
<1>11. (p = "fg" \/ p = "idle") /\ (p = "idle" => op["fg"].pc = "free")
  BY <1>1, OnTheWay DEF MayGoOn, Free
<1>12. new = CompactedEntries(o) BY DEF CompactedEntries, new, e, again, kept
<1>13. o.kind = "compact" BY <1>1, <1>2 DEF OpSound
<1> QED BY <1>1, <1>7, <1>8, <1>9, <1>10, <1>11, <1>12, <1>13 DEF es

LEMMA AloneMoved ==
  ASSUME Sound, ~Overlaps, Alone, NEW p \in Task,
         \/ Clear(p) \/ Summarised(p) \/ \E at \in DOMAIN entries : Branch(p, at)
  PROVE  Alone'
<1>1. op \in [Task -> OpRec] /\ known \in BOOLEAN BY DEF Sound, Typed
<1>2. ASSUME Clear(p) PROVE Alone'
 <2>1. /\ p = "fg" /\ op["idle"].pc \in {"free", "asleep"} /\ OneMoves(p, "reading", "clear")
       /\ known' = known
   BY <1>2, ClearIs DEF Moved
 <2> QED BY <1>1, <2>1, AloneMoves DEF Early, InTurn
<1>3. ASSUME NEW at \in DOMAIN entries, Branch(p, at) PROVE Alone'
 <2>1. /\ p = "fg" /\ op["idle"].pc \in {"free", "asleep"} /\ OneMoves(p, "reading", "branch")
       /\ known' = known
   BY <1>3, BranchIs DEF Moved
 <2> QED BY <1>1, <2>1, AloneMoves DEF Early, InTurn
<1>4. ASSUME Summarised(p) PROVE Alone'
 <2>1. /\ op[p].pc = "summarising" /\ op[p].kind = "compact" /\ (p = "fg" \/ p = "idle")
       /\ p = "idle" => op["fg"].pc = "free"
       /\ OneMoves(p, "reading", "compact") /\ known' = known
   BY <1>4, SummarisedIs DEF Moved
 <2>2. p = "fg" => op["idle"].pc = "free" BY <2>1 DEF Alone, AloneOf
 <2> QED BY <1>1, <2>1, <2>2, AloneMoves DEF Early, InTurn
<1> QED BY <1>2, <1>3, <1>4

LEMMA AloneSeeds ==
  ASSUME Sound, ~Overlaps, Alone, NEW p \in Task,
         SeedReads(p) \/ SeedWrites(p) \/ SeedActivates(p)
  PROVE  Alone'
<1>1. op \in [Task -> OpRec] /\ known \in BOOLEAN BY DEF Sound, Typed
<1>2. /\ known' = known
      /\ \E pc \in {"writing", "activating", "announcing"} : OneMoves(p, pc, op[p].kind)
      /\ op[p].pc \in {"reading", "writing", "activating"}
 <2>1. CASE SeedReads(p)
  <3>1. OneMoves(p, "writing", op[p].kind) BY <1>1, <2>1 DEF SeedReads, OneMoves, OpRec
  <3> QED BY <2>1, <3>1 DEF SeedReads
 <2>2. CASE SeedWrites(p)
  <3>1. OneMoves(p, "activating", op[p].kind) BY <1>1, <2>2 DEF SeedWrites, OneMoves, OpRec
  <3> QED BY <2>2, <3>1 DEF SeedWrites
 <2>3. CASE SeedActivates(p)
  <3>1. OneMoves(p, "announcing", op[p].kind)
    BY <1>1, <2>3 DEF SeedActivates, OneMoves, OpRec
  <3> QED BY <2>3, <3>1 DEF SeedActivates
 <2> QED BY <2>1, <2>2, <2>3
<1>3. PICK pc \in {"writing", "activating", "announcing"} : OneMoves(p, pc, op[p].kind)
  BY <1>2
<1>4. p = "fg" \/ p = "idle" BY <1>2, OnTheWay
<1>5. p = "idle" => op["idle"].kind = "compact" /\ op["fg"].pc = "free"
  BY <1>2 DEF Alone, AloneOf, Early
<1>6. p = "fg" => /\ op["idle"].pc \in Early
                  /\ op["fg"].kind = "compact" => op["idle"].pc = "free"
                  /\ op["fg"].kind \in {"clear", "branch"} => op["idle"].pc \in {"free", "asleep"}
  BY <1>2 DEF Alone, AloneOf
<1> QED BY <1>1, <1>2, <1>3, <1>4, <1>5, <1>6, AloneMoves DEF InTurn

LEMMA AloneOver ==
  ASSUME Sound, Alone, NEW p \in Task, SeedFails(p) \/ CommandEnds(p) \/ Stops(p)
  PROVE  Alone'
<1>1. op' = [op EXCEPT ![p] = Idle] /\ known' = known /\ op \in [Task -> OpRec]
  BY DEF SeedFails, CommandEnds, Stops, Sound, Typed
<1> QED BY <1>1, AloneEnds

\* The idle task is told to stop.
LEMMA CancelIs ==
  ASSUME op \in [Task -> OpRec], NEW p \in Task, p # "idle", NEW o \in OpRec,
         CancelIdle([op EXCEPT ![p] = o])
  PROVE  /\ op'[p] = o /\ known' = FALSE
         /\ op'["idle"].pc = op["idle"].pc /\ op'["idle"].kind = op["idle"].kind
         /\ op'["idle"].tail = op["idle"].tail /\ op'["idle"].summary = op["idle"].summary
         /\ op'["idle"].cancel = (op["idle"].cancel \/ (known /\ op["idle"].pc # "free"))
         /\ \A q \in Task \ {p, "idle"} : op'[q] = op[q]
<1>1. "idle" \in Task BY TaskIs
<1> DEFINE f == [op EXCEPT ![p] = o]
           c == f["idle"].cancel \/ (known /\ ~Free("idle"))
<1>2. op' = [f EXCEPT !["idle"].cancel = c] /\ known' = FALSE BY DEF CancelIdle
<1>3. f["idle"] = op["idle"] /\ f[p] = o /\ f \in [Task -> OpRec]
      /\ \A q \in Task \ {p} : f[q] = op[q]
  BY <1>1
<1> HIDE DEF f
<1>4. c = (op["idle"].cancel \/ (known /\ op["idle"].pc # "free")) BY <1>3 DEF Free
<1> HIDE DEF c
<1>5. op'[p] = o /\ \A q \in Task \ {p, "idle"} : op'[q] = op[q] BY <1>2, <1>3
<1>6. op'["idle"] = [op["idle"] EXCEPT !.cancel = c] BY <1>1, <1>2, <1>3
<1>7. op["idle"] \in OpRec BY <1>1
<1>8. \A k \in DOMAIN op["idle"] \ {"cancel"} : op'["idle"][k] = op["idle"][k] BY <1>6
<1>9. DOMAIN op["idle"] = DOMAIN Idle BY <1>7 DEF OpRec, Idle
<1>10. {"pc", "kind", "tail", "summary", "cancel"} \subseteq DOMAIN op["idle"]
  BY <1>9 DEF Idle
<1>11. op'["idle"].cancel = c BY <1>6, <1>10
<1>12. /\ op'["idle"].pc = op["idle"].pc /\ op'["idle"].kind = op["idle"].kind
       /\ op'["idle"].tail = op["idle"].tail /\ op'["idle"].summary = op["idle"].summary
  BY <1>8, <1>10
<1> QED BY <1>2, <1>4, <1>5, <1>11, <1>12

LEMMA AloneCancels ==
  ASSUME op \in [Task -> OpRec], Alone, NEW o \in OpRec, o.pc \in {"stopping", "announced"},
         op["fg"].pc # "announced", CancelIdle([op EXCEPT !["fg"] = o]),
         op["idle"].pc \in Early,
         o.kind = "compact" /\ o.pc # "stopping" => op["idle"].pc = "free",
         o.kind \in {"clear", "branch"} => op["idle"].pc \in {"free", "asleep"}
  PROVE  Alone'
<1>1. "fg" \in Task /\ "side" \in Task /\ "idle" \in Task BY TaskIs
<1>2. /\ op'["fg"] = o /\ known' = FALSE
      /\ op'["idle"].pc = op["idle"].pc /\ op'["idle"].kind = op["idle"].kind
      /\ op'["idle"].cancel = (op["idle"].cancel \/ (known /\ op["idle"].pc # "free"))
      /\ op'["side"] = op["side"]
  BY <1>1, CancelIs
<1>3. AloneOf(op'["fg"], op'["idle"], known') BY <1>2 DEF Alone, AloneOf, Early, InTurn
<1> QED BY <1>2, <1>3 DEF Alone

LEMMA AloneCompacts ==
  ASSUME Sound, ~Overlaps, Alone, NEW p \in Task, Compact(p)
  PROVE  Alone'
<1> DEFINE o == [op[p] EXCEPT !.kind = "compact", !.pc = "stopping"]
<1>1. /\ MayStart(p, {"free", "asleep", "summarising"})
      /\ CancelIdle([op EXCEPT ![p].kind = "compact", ![p].pc = "stopping"])
  BY DEF Compact
<1>2. p = "fg" /\ op["fg"].pc = "free" /\ op["idle"].pc \in Early
  BY <1>1, MayStartIs DEF Early
<1>3. op \in [Task -> OpRec] BY DEF Sound, Typed
<1>4. [op EXCEPT ![p].kind = "compact", ![p].pc = "stopping"] = [op EXCEPT ![p] = o] BY <1>3
<1>5. o \in OpRec /\ o.pc = "stopping" /\ o.kind = "compact"
 <2>1. op[p] \in OpRec BY <1>3
 <2>2. "compact" \in OpKinds /\ "stopping" \in PCs BY DEF OpKinds, PCs
 <2> QED BY <2>1, <2>2 DEF OpRec
<1> HIDE DEF o
<1>6. CancelIdle([op EXCEPT !["fg"] = o]) BY <1>1, <1>2, <1>4
<1> QED BY <1>2, <1>3, <1>5, <1>6, AloneCancels

LEMMA AnnounceIs ==
  ASSUME Sound, Alone, NEW p \in Task, Announce(p)
  PROVE  /\ op[p].pc = "announcing" /\ (p = "fg" \/ p = "idle")
         /\ p = "idle" => /\ op' = [op EXCEPT ![p].pc = "announced"] /\ known' = FALSE
         /\ p = "fg" => /\ [op["fg"] EXCEPT !.pc = "announced"] \in OpRec
                        /\ CancelIdle([op EXCEPT !["fg"] = [op["fg"] EXCEPT !.pc = "announced"]])
<1>1. op \in [Task -> OpRec] /\ op[p].pc = "announcing" BY DEF Sound, Typed, Announce
<1>2. p = "fg" \/ p = "idle" BY <1>1, OnTheWay
<1>3. ASSUME p = "fg"
      PROVE  /\ [op["fg"] EXCEPT !.pc = "announced"] \in OpRec
             /\ CancelIdle([op EXCEPT !["fg"] = [op["fg"] EXCEPT !.pc = "announced"]])
 <2>1. CancelIdle([op EXCEPT !["fg"].pc = "announced"]) BY <1>3 DEF Announce
 <2>2. [op EXCEPT !["fg"].pc = "announced"] = [op EXCEPT !["fg"] = [op["fg"] EXCEPT !.pc = "announced"]]
   BY <1>1, <1>3
 <2>3. op["fg"] \in OpRec BY <1>1, TaskIs
 <2> QED BY <2>1, <2>2, <2>3 DEF OpRec, PCs
<1> QED BY <1>1, <1>2, <1>3 DEF Announce

LEMMA AloneAnnounces ==
  ASSUME Sound, ~Overlaps, Alone, NEW p \in Task, Announce(p)
  PROVE  Alone'
<1>1. op \in [Task -> OpRec] /\ known \in BOOLEAN BY DEF Sound, Typed
<1>2. CASE p = "idle"
 <2>1. /\ op[p].pc = "announcing" /\ op' = [op EXCEPT ![p].pc = "announced"] /\ known' = FALSE
   BY <1>2, AnnounceIs
 <2>2. OneMoves(p, "announced", op[p].kind) BY <1>1, <2>1 DEF OneMoves, OpRec
 <2>3. op["idle"].kind = "compact" /\ op["fg"].pc = "free"
   BY <1>2, <2>1 DEF Alone, AloneOf, Early
 <2> QED BY <1>1, <1>2, <2>1, <2>2, <2>3, AloneMoves
<1>3. CASE p = "fg"
 <2> DEFINE o == [op["fg"] EXCEPT !.pc = "announced"]
 <2>1. op["fg"].pc = "announcing" /\ o \in OpRec /\ CancelIdle([op EXCEPT !["fg"] = o])
   BY <1>3, AnnounceIs
 <2>2. o.pc = "announced" /\ o.kind = op["fg"].kind BY <1>1, <1>3 DEF OpRec
 <2> HIDE DEF o
 <2>3. /\ op["idle"].pc \in Early
       /\ op["fg"].kind = "compact" => op["idle"].pc = "free"
       /\ op["fg"].kind \in {"clear", "branch"} => op["idle"].pc \in {"free", "asleep"}
   BY <2>1 DEF Alone, AloneOf
 <2> QED BY <1>1, <2>1, <2>2, <2>3, AloneCancels
<1> QED BY <1>2, <1>3, AnnounceIs

LEMMA AloneSummarises ==
  ASSUME Sound, ~Overlaps, Alone, NEW p \in Task, Summarise(p)
  PROVE  Alone'
<1>1. op \in [Task -> OpRec] /\ known \in BOOLEAN BY DEF Sound, Typed
<1>2. /\ \/ op[p].pc = "stopping" /\ ~op["idle"].cancel
         \/ p = "idle" /\ op[p].pc = "asleep" /\ ~op[p].cancel
      /\ MayGoOn(p) /\ UNCHANGED known
  BY DEF Summarise
<1>3. OneMoves(p, "summarising", op[p].kind)
 <2> DEFINE ms == Context(entries, leaf)
            s(cut) == Covered(SubSeq(ms, 1, cut - 1))
            t(cut) == SubSeq(ms, cut, Len(ms))
 <2>1. PICK cut \in Cuts(ms) :
         op' = [op EXCEPT ![p].pc = "summarising", ![p].summary = s(cut), ![p].tail = t(cut)]
   BY DEF Summarise
 <2> HIDE DEF s, t, ms
 <2>2. op[p] \in OpRec BY <1>1
 <2> QED BY <1>1, <2>1, <2>2 DEF OneMoves, OpRec
<1>9. p = "idle" => op["fg"].pc = "free" BY <1>2 DEF MayGoOn, Free
<1>4. op[p].kind = "compact" /\ (p = "fg" \/ p = "idle")
 <2>1. OpSound(op[p], rows) BY Facts
 <2>2. op[p].pc = "stopping" \/ op[p].pc = "asleep" BY <1>2
 <2>3. p = "fg" \/ p = "idle" BY <2>2, OnTheWay
 <2> QED BY <2>1, <2>2, <2>3 DEF OpSound, Alone, AloneOf
<1>5. p = "idle" => op["idle"].pc = "asleep" /\ (op["idle"].cancel \/ known)
 <2>1. op["fg"].pc = "free" /\ p = "idle" => op["idle"].pc # "stopping"
   BY DEF Alone, AloneOf, Early
 <2> QED BY <1>2, <1>9, <2>1 DEF Alone, AloneOf
<1>6. p = "fg" => op["idle"].pc = "free" BY <1>2, <1>4 DEF Alone, AloneOf
<1> QED BY <1>1, <1>2, <1>3, <1>4, <1>5, <1>6, <1>9, AloneMoves DEF Early, InTurn

LEMMA AloneTurns ==
  ASSUME Sound, ~Overlaps, Alone, StartTurn \/ TurnOpens \/ TurnStops \/ TurnCaptures
  PROVE  Alone'
<1>1. op \in [Task -> OpRec] /\ known \in BOOLEAN /\ "fg" \in Task
  BY TaskIs DEF Sound, Typed
<1>2. CASE StartTurn
 <2>1. op["fg"].pc = "free" /\ op["idle"].pc \in Early /\ known' = known
   BY <1>2, MayStartIs DEF StartTurn, Early
 <2>2. \E pc \in {"reading", "announcing"} : OneMoves("fg", pc, "turn")
  <3>0. [Idle EXCEPT !.kind = "turn"] \in OpRec /\ [Idle EXCEPT !.kind = "turn"].kind = "turn"
    BY IdleIs DEF OpRec, OpKinds
  <3>1. CASE ReseedPending
   <4>1. StartSeed("fg", [Idle EXCEPT !.kind = "turn"], entries, leaf, thread)
     BY <1>2, <3>1 DEF StartTurn
   <4>2. OneMoves("fg", "reading", "turn") BY <1>1, <3>0, <4>1, StartsSeed DEF OneMoves
   <4> QED BY <4>2
  <3>2. CASE ~ReseedPending
   <4>1. op' = [op EXCEPT !["fg"] = [Idle EXCEPT !.kind = "turn", !.pc = "announcing"]]
     BY <1>2, <3>2 DEF StartTurn
   <4>2. OneMoves("fg", "announcing", "turn") BY <1>1, <4>1, IdleIs DEF OneMoves, OpRec
   <4> QED BY <4>2
  <3> QED BY <3>1, <3>2
 <2> QED BY <1>1, <2>1, <2>2, AloneMoves DEF InTurn
<1>3. CASE TurnOpens
 <2>1. op["fg"].kind = "turn" /\ op["fg"].pc = "announced" /\ ~op["idle"].cancel /\ known' = known
   BY <1>3 DEF TurnOpens
 <2>2. OneMoves("fg", "streaming", "turn")
   BY <1>1, <1>3, <2>1 DEF TurnOpens, OneMoves, OpRec
 <2>3. op["idle"].pc = "free" BY <2>1 DEF Alone, AloneOf
 <2> QED BY <1>1, <2>1, <2>2, <2>3, AloneMoves DEF Early, InTurn
<1>4. CASE TurnStops \/ TurnCaptures
 <2>1. op["fg"].pc \in InTurn /\ known' = known
   BY <1>4 DEF TurnStops, TurnCaptures, Streaming, InTurn
 <2>2. \E pc \in {"capturing", "closing"} : OneMoves("fg", pc, op["fg"].kind)
   BY <1>1, <1>4 DEF TurnStops, TurnCaptures, OneMoves, OpRec
 <2>3. op["idle"].pc = "free" /\ op["fg"].kind = "turn" BY <2>1 DEF Alone, AloneOf
 <2> QED BY <1>1, <2>1, <2>2, <2>3, AloneMoves DEF Early, InTurn
<1> QED BY <1>2, <1>3, <1>4

LEMMA TurnEndsIs ==
  ASSUME Sound, Alone, TurnEnds
  PROVE  /\ op["fg"].pc = "closing" /\ op'["fg"] = Idle /\ op'["side"] = op["side"]
         /\ op["idle"].pc = "free"
         /\ \/ op'["idle"] = op["idle"] /\ known' = known
            \/ op'["idle"].pc = "asleep" /\ op'["idle"].kind = "compact" /\ known' = TRUE
         /\ UNCHANGED <<ledgerVars, threadVars, job, boundVars>>
<1>1. op \in [Task -> OpRec] /\ known \in BOOLEAN /\ Task = {"fg", "side", "idle"}
  BY TaskIs DEF Sound, Typed
<1> DEFINE waits == AutoCompact /\ Free("idle")
           new == IF waits THEN [Idle EXCEPT !.kind = "compact", !.pc = "asleep"] ELSE op["idle"]
<1>2. /\ op["fg"].pc = "closing" /\ known' = (known \/ waits)
      /\ op' = [op EXCEPT !["fg"] = Idle,
                          !["idle"] = IF waits THEN [Idle EXCEPT !.kind = "compact", !.pc = "asleep"]
                                      ELSE @]
      /\ UNCHANGED <<ledgerVars, threadVars, job, boundVars>>
  BY DEF TurnEnds
<1>3. op' = [[op EXCEPT !["fg"] = Idle] EXCEPT !["idle"] = new] BY <1>1, <1>2
<1>4. op'["fg"] = Idle /\ op'["side"] = op["side"] /\ op'["idle"] = new BY <1>1, <1>3
<1>5. waits => new.pc = "asleep" /\ new.kind = "compact" BY IdleIs DEF OpRec
<1>6. op["idle"].pc = "free" BY <1>2 DEF Alone, AloneOf, InTurn
<1>7. CASE waits
 <2>1. known' = TRUE BY <1>2, <1>7
 <2> QED BY <1>2, <1>4, <1>5, <1>6, <1>7, <2>1
<1>8. CASE ~waits
 <2>1. known' = known BY <1>1, <1>2, <1>8
 <2> QED BY <1>2, <1>4, <1>6, <1>8, <2>1
<1> QED BY <1>7, <1>8

LEMMA AloneNext ==
  ASSUME Sound, ~Overlaps, Alone, [Next]_vars
  PROVE  Alone'
<1>1. ASSUME NEW p \in Task,
             \/ Clear(p) \/ Compact(p) \/ \E at \in DOMAIN entries : Branch(p, at)
             \/ Summarise(p) \/ Summarised(p)
             \/ SeedReads(p) \/ SeedWrites(p) \/ SeedActivates(p) \/ SeedFails(p)
             \/ Announce(p) \/ CommandEnds(p) \/ Stops(p)
      PROVE  Alone'
  BY <1>1, AloneMoved, AloneCompacts, AloneSummarises, AloneSeeds, AloneOver, AloneAnnounces
<1>2. CASE StartTurn \/ TurnOpens \/ TurnStops \/ TurnCaptures BY <1>2, AloneTurns
<1>3. CASE TurnEnds
 <2>1. AloneOf(op'["fg"], op'["idle"], known')
   BY <1>3, TurnEndsIs, IdleFields DEF Alone, AloneOf, Early, InTurn
 <2> QED BY <1>3, <2>1, TurnEndsIs DEF Alone
<1>4. CASE Restart
 <2>1. op' = [p \in Task |-> Idle] /\ Task = {"fg", "side", "idle"}
   BY <1>4, TaskIs DEF Restart
 <2>2. op'["fg"] = Idle /\ op'["side"] = Idle /\ op'["idle"] = Idle BY <2>1
 <2> QED BY <2>2, IdleFields DEF Alone, AloneOf, Early, InTurn
<1>5. CASE UNCHANGED <<op, known>> BY <1>5 DEF Alone
<1>6. TurnSpeaks \/ TurnCondenses \/ (\E w \in Worker : PersistJob(w)) \/ UNCHANGED vars
        => UNCHANGED <<op, known>>
  BY DEF TurnSpeaks, TurnCondenses, PersistJob, vars, taskVars
<1> QED BY <1>1, <1>2, <1>3, <1>4, <1>5, <1>6 DEF Next

-----------------------------------------------------------------------------
(* What is kept where tasks do not overlap: nothing that was said is gone,  *)
(* and nothing that was cleared is where the session goes on.               *)

\* Ids that may be in the conversation at a leaf, when s messages have been written.
Fits(ids, es, at, s) == ids \subseteq 0 .. s /\ ids \cap ClearedAt(es, at) \subseteq {0}
Known(ids, es) == ids \subseteq ToldBy(es) \cup {0}

\* A graph that holds ms and whose cursor has seen what the ledger tells.
Live(ms, seen, es, at, s) ==
  SummaryFirst(ms) /\ Fits(Covered(ms), es, at, s) /\ Known(Covered(seen), es)

LedgerKept(es, s) == EntriesPlain(es) /\ EntriesApart(es) /\ ToldBy(es) \subseteq 0 .. s

ThreadKept(c, t, g, u, es, at, s) ==
  c \in {None, t} /\ (c # None => Live(g[t], u[t], es, at, s))

SeedKept(o, c, t, g, es, at, s) ==
  /\ c = None /\ t = o.on
  /\ Live(o.seed, o.seed, es, at, s)
  /\ o.pc = "reading" => g[o.on] = <<>>
  /\ o.pc = "writing" => o.base = <<>>
  /\ o.pc = "activating" => g[o.on] = o.seed

\* The entries there were when an operation began, and where it would go back to.
EntriesBefore(o, es) == IF o.first = 0 THEN es ELSE SubSeq(es, 1, o.first - 1)
PriorKept(o, g, u, es, s) ==
  /\ o.first # 0 => o.first <= Len(es)
  /\ o.prior.leaf <= Len(EntriesBefore(o, es))
  /\ 1 .. s \subseteq ToldBy(EntriesBefore(o, es))
  /\ o.prior.current # None => o.prior.thread # o.on
  /\ ThreadKept(o.prior.current, o.prior.thread, g, u, EntriesBefore(o, es), o.prior.leaf, s)

TailKept(o, es, at, s) ==
  /\ \A m \in ToSet(o.tail) : m.role # "summary"
  /\ Fits(o.summary \cup Covered(o.tail), es, at, s)

OpKept(o, c, t, g, u, es, at, s) ==
  /\ o.pc \in {"reading", "writing", "activating"} =>
       SeedKept(o, c, t, g, es, at, s) /\ (o.kind # "turn" => PriorKept(o, g, u, es, s))
  /\ o.pc \in {"announcing", "announced"} => c # None
  /\ o.pc = "summarising" /\ ~o.cancel => TailKept(o, es, at, s)

TurnKept(f, c, saved) == (f.pc \in InTurn => c = f.on) /\ (f.pc \in Midturn => c \in saved)

\* What a turn has said and not captured.
Unsaid(f, t, g) == IF f.pc \in Midturn THEN Covered(g[t]) ELSE {}

LedgerIsKept == LedgerKept(entries, spoken)
ThreadIsKept == ThreadKept(current, thread, graph, cursor, entries, leaf, spoken)
OpIsKept(p) == OpKept(op[p], current, thread, graph, cursor, entries, leaf, spoken)
TurnIsKept == TurnKept(op["fg"], current, checkpoints)
AllIsKept == 1 .. spoken \subseteq ToldBy(entries) \cup Unsaid(op["fg"], thread, graph)
Kept == /\ LedgerIsKept /\ ThreadIsKept /\ (\A p \in Task : OpIsKept(p))
        /\ TurnIsKept /\ AllIsKept

\* Entries that are appended behind a leaf change nothing of this.
LEMMA FitsGrows ==
  ASSUME NEW es \in Seq(EntryRow), PathsAscend(es), NEW at \in 0 .. Len(es), NEW s \in Nat,
         LedgerKept(es, s), NEW new \in Seq(NewIn(es)), EntriesPlain(new),
         NoReset(new) \/ Len(new) <= 1, Fits(ToldBy(new), es, at, s),
         NEW fs, fs = AppendMany(es, at, new), NEW bt, bt = End(es, at, new)
  PROVE  /\ LedgerKept(fs, s) /\ ToldBy(fs) = ToldBy(es) \cup ToldBy(new)
         /\ fs \in Seq(EntryRow) /\ PathsAscend(fs) /\ bt \in 0 .. Len(fs)
         /\ Len(es) <= Len(fs) /\ Len(fs) = Len(es) + Len(new) /\ Len(es) \in Nat
         /\ \A ids : Known(ids, es) => Known(ids, fs)
         /\ \A ids : \A a \in 0 .. Len(es) : Fits(ids, es, a, s) => Fits(ids, fs, a, s)
         /\ NoReset(new) => \A ids : Fits(ids, es, at, s) => Fits(ids, fs, bt, s)
         /\ \A n \in 0 .. Len(es) : SubSeq(fs, 1, n) = SubSeq(es, 1, n)
<1>1. /\ ToldBy(fs) = ToldBy(es) \cup ToldBy(new)
      /\ NoReset(new) => ClearedAt(fs, bt) = ClearedAt(es, at)
      /\ \A a \in 0 .. Len(es) : ClearedAt(fs, a) = ClearedAt(es, a)
      /\ EntriesPlain(fs) /\ EntriesApart(fs)
  BY ToldMany DEF LedgerKept, Fits
<1>2. /\ Extends(fs, es) /\ bt \in 0 .. Len(fs) /\ Len(fs) = Len(es) + Len(new)
      /\ Len(es) \in Nat /\ Len(fs) \in Nat /\ Len(new) \in Nat
  BY ManyIs
<1>3. LedgerKept(fs, s) BY <1>1 DEF LedgerKept, Fits
<1>4. \A ids : Known(ids, es) => Known(ids, fs) BY <1>1 DEF Known
<1>5. /\ \A ids : \A a \in 0 .. Len(es) : Fits(ids, es, a, s) => Fits(ids, fs, a, s)
      /\ NoReset(new) => \A ids : Fits(ids, es, at, s) => Fits(ids, fs, bt, s)
  BY <1>1 DEF Fits
<1>6. ASSUME NEW n \in 0 .. Len(es) PROVE SubSeq(fs, 1, n) = SubSeq(es, 1, n)
 <2>1. n \in 0 .. Len(fs) BY <1>2
 <2>2. /\ Len(SubSeq(es, 1, n)) = n /\ \A i \in 1 .. n : SubSeq(es, 1, n)[i] = es[i]
       /\ SubSeq(es, 1, n) \in Seq(EntryRow)
   BY TreeCut
 <2>3. /\ Len(SubSeq(fs, 1, n)) = n /\ \A i \in 1 .. n : SubSeq(fs, 1, n)[i] = fs[i]
       /\ SubSeq(fs, 1, n) \in Seq(EntryRow)
   BY <1>2, <2>1, TreeCut DEF Extends
 <2>4. \A i \in 1 .. n : fs[i] = es[i] BY <1>2 DEF Extends
 <2> QED BY <2>2, <2>3, <2>4, SeqEqual, ZenonT(40)
<1> QED BY <1>1, <1>2, <1>3, <1>4, <1>5, <1>6 DEF Extends

LEMMA OpGrows ==
  ASSUME NEW es \in Seq(EntryRow), PathsAscend(es), NEW at \in 0 .. Len(es), NEW s \in Nat,
         LedgerKept(es, s), NEW new \in Seq(NewIn(es)), EntriesPlain(new),
         NoReset(new), Fits(ToldBy(new), es, at, s),
         NEW fs, fs = AppendMany(es, at, new), NEW bt, bt = End(es, at, new),
         NEW o \in OpRec, NEW c, NEW t, NEW g, NEW u, OpKept(o, c, t, g, u, es, at, s)
  PROVE  OpKept(o, c, t, g, u, fs, bt, s)
<1>1. /\ ToldBy(es) \subseteq ToldBy(fs) /\ Len(es) <= Len(fs) /\ Len(es) \in Nat /\ Len(fs) \in Nat
      /\ \A ids : Known(ids, es) => Known(ids, fs)
      /\ \A ids : \A a \in 0 .. Len(es) : Fits(ids, es, a, s) => Fits(ids, fs, a, s)
      /\ \A ids : Fits(ids, es, at, s) => Fits(ids, fs, bt, s)
      /\ \A n \in 0 .. Len(es) : SubSeq(fs, 1, n) = SubSeq(es, 1, n)
  BY FitsGrows, LenProperties
<1>2. SeedKept(o, c, t, g, es, at, s) => SeedKept(o, c, t, g, fs, bt, s)
  BY <1>1 DEF SeedKept, Live
<1>3. TailKept(o, es, at, s) => TailKept(o, fs, bt, s) BY <1>1 DEF TailKept
<1>4. ASSUME PriorKept(o, g, u, es, s) PROVE PriorKept(o, g, u, fs, s)
 <2>1. o.first \in Nat /\ o.prior.leaf \in Nat BY DEF OpRec, Places
 <2>2. CASE o.first = 0
  <3>1. EntriesBefore(o, es) = es /\ EntriesBefore(o, fs) = fs BY <2>2 DEF EntriesBefore
  <3>2. o.prior.leaf \in 0 .. Len(es) BY <1>1, <1>4, <2>1, <3>1 DEF PriorKept
  <3> QED BY <1>1, <1>4, <2>1, <2>2, <3>1, <3>2 DEF PriorKept, ThreadKept, Live
 <2>3. CASE o.first # 0
  <3>1. o.first - 1 \in 0 .. Len(es) BY <1>1, <1>4, <2>1, <2>3 DEF PriorKept
  <3>2. EntriesBefore(o, fs) = EntriesBefore(o, es) BY <1>1, <2>3, <3>1 DEF EntriesBefore
  <3>3. o.first <= Len(fs) BY <1>1, <1>4, <2>1, <2>3 DEF PriorKept
  <3> QED BY <1>4, <3>2, <3>3 DEF PriorKept
 <2> QED BY <2>2, <2>3
<1> QED BY <1>2, <1>3, <1>4 DEF OpKept

\* Entries that tell what fits are appended at the leaf.
LEMMA AppendKept ==
  ASSUME Sound, LedgerIsKept, NEW new \in Seq(NewIn(entries)), EntriesPlain(new), NoReset(new),
         Fits(ToldBy(new), entries, leaf, spoken), Appends(new), UNCHANGED spoken
  PROVE  /\ LedgerIsKept' /\ ToldBy(entries') = ToldBy(entries) \cup ToldBy(new)
         /\ \A ids : Known(ids, entries) => Known(ids, entries')
         /\ \A ids : Fits(ids, entries, leaf, spoken) => Fits(ids, entries', leaf', spoken)
         /\ \A o \in OpRec : \A c, t, g, u :
              OpKept(o, c, t, g, u, entries, leaf, spoken)
                => OpKept(o, c, t, g, u, entries', leaf', spoken)
<1>1. /\ entries \in Seq(EntryRow) /\ PathsAscend(entries) /\ leaf \in 0 .. Len(entries)
      /\ spoken \in Nat /\ LedgerKept(entries, spoken)
  BY Facts DEF LedgerIsKept
<1>2. entries' = AppendMany(entries, leaf, new) /\ leaf' = End(entries, leaf, new)
  BY DEF Appends
<1>3. /\ LedgerKept(entries', spoken) /\ ToldBy(entries') = ToldBy(entries) \cup ToldBy(new)
      /\ \A ids : Known(ids, entries) => Known(ids, entries')
      /\ \A ids : Fits(ids, entries, leaf, spoken) => Fits(ids, entries', leaf', spoken)
  BY <1>1, <1>2, FitsGrows
<1>4. ASSUME NEW o \in OpRec, NEW c, NEW t, NEW g, NEW u,
             OpKept(o, c, t, g, u, entries, leaf, spoken)
      PROVE  OpKept(o, c, t, g, u, entries', leaf', spoken)
  BY <1>1, <1>2, <1>4, OpGrows
<1> QED BY <1>3, <1>4 DEF LedgerIsKept

\* The thread in use is captured.
LEMMA CaptureKept ==
  ASSUME Sound, Seated, LedgerIsKept, ThreadIsKept, current # None, NEW t, t = thread,
         Capture(t), UNCHANGED <<graph, spoken>>
  PROVE  /\ LedgerIsKept'
         /\ ThreadKept(current, thread, graph', cursor', entries', leaf', spoken)
         /\ ToldBy(entries) \subseteq ToldBy(entries')
         /\ Known(Covered(graph[thread]), entries')
         /\ \A o \in OpRec : \A c, n, g, u :
              OpKept(o, c, n, g, u, entries, leaf, spoken)
                => OpKept(o, c, n, g, u, entries', leaf', spoken)
<1>1. /\ LedgerTyped /\ graph \in [Thread -> Seq(Said)] /\ cursor \in [Thread -> Seq(Said)]
      /\ thread \in Thread /\ Len(entries) \in Nat
  BY Facts
<1>2. current = thread /\ Live(graph[thread], cursor[thread], entries, leaf, spoken)
  BY DEF ThreadIsKept, ThreadKept
<1> DEFINE ms == graph[thread]
           new == CaptureEntries(ms, cursor[thread])
<1>3. ms \in Seq(Said) /\ cursor[thread] \in Seq(Said) BY <1>1
<1>4. /\ Len(entries) + Len(new) <= MaxEntries
      /\ entries' = AppendMany(entries, leaf, new)
      /\ leaf' = IF new = <<>> THEN leaf ELSE Len(entries')
      /\ cursor' = [cursor EXCEPT ![thread] = ms]
 <2>1. thread < rows BY <1>2 DEF Seated
 <2> QED BY <2>1 DEF Capture
<1>5. /\ new \in Seq(Plain(entries)) /\ ToldBy(new) \subseteq Covered(ms) \cup {0}
      /\ Covered(ms) \subseteq ToldBy(new) \cup ToldBy(entries) \cup Covered(cursor[thread])
      /\ NoReset(new) /\ EntriesPlain(new)
  BY <1>1, <1>2, <1>3, CaptureTells DEF LedgerIsKept, LedgerKept, Live
<1> HIDE DEF new, ms
<1>6. new \in Seq(NewIn(entries)) BY <1>5, PlainSeq
<1>7. Appends(new)
 <2>1. Len(entries') = Len(entries) + Len(new) BY <1>1, <1>4, <1>6, ManyIs DEF LedgerTyped
 <2> QED BY <1>4, <2>1 DEF Appends, End
<1>8. Fits(Covered(ms), entries, leaf, spoken) /\ Known(Covered(cursor[thread]), entries)
      /\ SummaryFirst(ms)
  BY <1>2 DEF Live, ms
<1>9. Fits(ToldBy(new), entries, leaf, spoken)
 <2>1. spoken \in Nat BY Facts
 <2> QED BY <1>5, <1>8, <2>1 DEF Fits
<1>10. /\ LedgerIsKept' /\ ToldBy(entries') = ToldBy(entries) \cup ToldBy(new)
       /\ \A ids : Fits(ids, entries, leaf, spoken) => Fits(ids, entries', leaf', spoken)
       /\ \A o \in OpRec : \A c, n, g, u :
            OpKept(o, c, n, g, u, entries, leaf, spoken)
              => OpKept(o, c, n, g, u, entries', leaf', spoken)
  BY <1>5, <1>6, <1>7, <1>9, AppendKept
<1>11. Known(Covered(ms), entries') BY <1>5, <1>8, <1>10 DEF Known
<1>12. cursor'[thread] = ms /\ graph'[thread] = ms BY <1>1, <1>4 DEF ms
<1>13. ThreadKept(current, thread, graph', cursor', entries', leaf', spoken)
  BY <1>2, <1>8, <1>10, <1>11, <1>12 DEF ThreadKept, Live
<1> QED BY <1>10, <1>11, <1>13 DEF ms

-----------------------------------------------------------------------------
(* The tasks beside the one that moves.                                     *)

\* Where one task is past its beginnings, what the others rely on is the ledger alone.
LEMMA OthersWait ==
  ASSUME Alone, NEW p \in Task, op[p].pc # "free",
         p = "idle" => op["fg"].pc = "free" \/ op[p].pc \notin Early
  PROVE  /\ \A q \in Task \ {p} : op[q].pc \in Early
         /\ (p = "fg" \/ p = "idle")
         /\ p = "idle" => op["fg"].pc = "free" /\ op["side"].pc = "free"
<1>1. p = "fg" \/ p = "idle" BY OnTheWay
<1> QED BY <1>1, TaskIs, IdleFields DEF Alone, AloneOf, Early

LEMMA WaitingIs ==
  ASSUME NEW o, o.pc \in Early, NEW c, NEW t, NEW g, NEW u, NEW es, NEW at, NEW s,
         OpKept(o, c, t, g, u, es, at, s)
  PROVE  \A c2, t2, g2, u2 : OpKept(o, c2, t2, g2, u2, es, at, s)
  BY DEF OpKept, Early

LEMMA IdleKept == \A c, t, g, u, es, at, s : OpKept(Idle, c, t, g, u, es, at, s)
  BY IdleFields DEF OpKept

\* A task that is over, where nothing else changes.
LEMMA OverKept ==
  ASSUME Sound, Kept, NEW p \in Task, op' = [op EXCEPT ![p] = Idle],
         UNCHANGED <<entries, leaf, current, thread, graph, cursor, checkpoints, spoken>>,
         op[p].pc \notin Midturn
  PROVE  Kept'
<1>1. /\ op'[p] = Idle /\ \A q \in Task \ {p} : op'[q] = op[q] BY Facts
<1>2. ASSUME NEW q \in Task PROVE OpIsKept(q)' BY <1>1, IdleKept DEF Kept, OpIsKept
<1>3. "fg" \in Task /\ (op'["fg"] = op["fg"] \/ (op'["fg"] = Idle /\ op["fg"].pc \notin Midturn))
  BY <1>1, TaskIs
<1>4. TurnIsKept' /\ AllIsKept'
  BY <1>3, IdleFields DEF Kept, TurnIsKept, AllIsKept, TurnKept, Unsaid, InTurn, Midturn
<1> QED BY <1>2, <1>4 DEF Kept, LedgerIsKept, ThreadIsKept

LEMMA StopsKept ==
  ASSUME Sound, Kept, NEW p \in Task, Stops(p)
  PROVE  Kept'
<1>1. /\ op' = [op EXCEPT ![p] = Idle] /\ op[p].pc \notin Midturn
      /\ UNCHANGED <<entries, leaf, current, thread, graph, cursor, checkpoints, spoken>>
  BY DEF Stops, Midturn, ledgerVars, threadVars, boundVars
<1> QED BY <1>1, OverKept

\* One task's record changes and nothing else.
LEMMA RecordKept ==
  ASSUME Sound, Kept, NEW p \in Task, \A q \in Task \ {p} : op'[q] = op[q],
         UNCHANGED <<entries, leaf, current, thread, graph, cursor, checkpoints, spoken>>,
         OpIsKept(p)', p = "fg" => op'[p].pc \notin InTurn /\ op[p].pc \notin InTurn
  PROVE  Kept'
<1>1. ASSUME NEW q \in Task PROVE OpIsKept(q)' BY <1>1 DEF Kept, OpIsKept
<1>2. op'["fg"] = op["fg"] \/ (op'["fg"].pc \notin InTurn /\ op["fg"].pc \notin InTurn)
  BY TaskIs
<1>3. TurnIsKept' /\ AllIsKept'
  BY <1>2 DEF Kept, TurnIsKept, AllIsKept, TurnKept, Unsaid, InTurn, Midturn
<1> QED BY <1>1, <1>3 DEF Kept, LedgerIsKept, ThreadIsKept

\* The conversation at a leaf is one a thread can go on from.
LEMMA ContextLives ==
  ASSUME NEW es \in Seq(EntryRow), PathsAscend(es), NEW at \in 0 .. Len(es), NEW s,
         LedgerKept(es, s)
  PROVE  Live(Context(es, at), Context(es, at), es, at, s)
  BY ContextTells DEF LedgerKept, Live, Fits, Known

\* The leaf goes elsewhere and a thread is seeded for it.
LEMMA MoveKept ==
  ASSUME Sound, Seated, Sound', Kept, NEW p \in Task, NEW kind, NEW first, NEW last,
         Moved(p, kind, first, last), \A q \in Task \ {p} : op[q].pc \in {"free", "asleep"},
         op[p].pc \notin InTurn, LedgerIsKept', ToldBy(entries) \subseteq ToldBy(entries'),
         \/ first = 0 /\ entries' = entries
         \/ first = Len(entries) + 1 /\ first <= Len(entries')
              /\ SubSeq(entries', 1, Len(entries)) = entries
  PROVE  Kept'
<1> DEFINE o == op'[p]
<1>1. /\ current' = None /\ thread' = NextThread
      /\ graph' = [graph EXCEPT ![NextThread] = <<>>]
      /\ cursor' = cursor /\ spoken' = spoken
      /\ o.pc = "reading" /\ o.kind = kind /\ \A q \in Task \ {p} : op'[q] = op[q]
      /\ o.on = NextThread /\ o.seed = Context(entries', leaf')
      /\ o.prior = Prior /\ o.first = first
  BY DEF Moved, OneMoves
<1>2. /\ entries \in Seq(EntryRow) /\ leaf \in 0 .. Len(entries) /\ Len(entries) \in Nat
      /\ graph \in [Thread -> Seq(Said)] /\ thread \in Thread
  BY Facts
<1>3. /\ entries' \in Seq(EntryRow) /\ PathsAscend(entries') /\ leaf' \in 0 .. Len(entries')
      /\ thread' \in Thread
  BY DEF Sound, Typed, LedgerTyped, ThreadsTyped
<1>4. graph'[NextThread] = <<>> /\ \A t \in Thread \ {NextThread} : graph'[t] = graph[t]
  BY <1>1, <1>2, <1>3
<1>5. Live(o.seed, o.seed, entries', leaf', spoken')
  BY <1>1, <1>3, ContextLives DEF LedgerIsKept
<1>6. SeedKept(o, current', thread', graph', entries', leaf', spoken')
  BY <1>1, <1>4, <1>5 DEF SeedKept
<1>7. op["fg"].pc \notin Midturn /\ op'["fg"].pc \notin InTurn
  BY <1>1, TaskIs DEF InTurn, Midturn
<1>8. 1 .. spoken \subseteq ToldBy(entries) BY <1>7 DEF Kept, AllIsKept, Unsaid
<1>9. EntriesBefore(o, entries') = entries
 <2>1. CASE first = 0 /\ entries' = entries BY <1>1, <2>1 DEF EntriesBefore
 <2>2. CASE first = Len(entries) + 1 /\ SubSeq(entries', 1, Len(entries)) = entries
   BY <1>1, <1>2, <2>2 DEF EntriesBefore
 <2> QED BY <2>1, <2>2
<1>10. PriorKept(o, graph', cursor', entries', spoken')
 <2>1. Prior.leaf = leaf /\ Prior.thread = thread /\ Prior.current = current BY DEF Prior
 <2>2. ThreadKept(current, thread, graph, cursor, entries, leaf, spoken)
   BY DEF Kept, ThreadIsKept
 <2>3. current # None => thread # NextThread
   BY <2>2, Facts, Threads DEF ThreadKept, NextThread, ReseedPending, Seated
 <2>4. ThreadKept(current, thread, graph', cursor, entries, leaf, spoken)
   BY <1>2, <1>4, <2>2, <2>3 DEF ThreadKept
 <2>5. first # 0 => first <= Len(entries') OBVIOUS
 <2> QED BY <1>1, <1>2, <1>8, <1>9, <2>1, <2>3, <2>4, <2>5 DEF PriorKept
<1> HIDE DEF o
<1>11. OpKept(o, current', thread', graph', cursor', entries', leaf', spoken')
  BY <1>1, <1>6, <1>10 DEF OpKept
<1>12. ASSUME NEW q \in Task PROVE OpIsKept(q)'
 <2>1. CASE q = p BY <1>11, <2>1 DEF OpIsKept, o
 <2>2. CASE q # p BY <1>1, <2>2 DEF OpIsKept, OpKept
 <2> QED BY <2>1, <2>2
<1>13. ThreadIsKept' /\ TurnIsKept' /\ AllIsKept'
  BY <1>1, <1>7, <1>8 DEF ThreadIsKept, ThreadKept, TurnIsKept, AllIsKept, TurnKept, Unsaid,
                          InTurn, Midturn
<1> QED BY <1>12, <1>13 DEF Kept

\* Entries with which a move begins.
LEMMA MoveAppends ==
  ASSUME Sound, Kept, NEW new \in Seq(NewIn(entries)), EntriesPlain(new),
         NoReset(new) \/ Len(new) <= 1, Fits(ToldBy(new), entries, leaf, spoken),
         entries' = AppendMany(entries, leaf, new), UNCHANGED spoken
  PROVE  /\ LedgerIsKept' /\ ToldBy(entries) \subseteq ToldBy(entries')
         /\ SubSeq(entries', 1, Len(entries)) = entries
         /\ Len(entries') = Len(entries) + Len(new)
<1>1. /\ entries \in Seq(EntryRow) /\ PathsAscend(entries) /\ leaf \in 0 .. Len(entries)
      /\ spoken \in Nat /\ LedgerKept(entries, spoken) /\ Len(entries) \in Nat
  BY Facts DEF Kept, LedgerIsKept
<1>2. /\ LedgerKept(entries', spoken) /\ ToldBy(entries') = ToldBy(entries) \cup ToldBy(new)
      /\ Len(entries') = Len(entries) + Len(new)
      /\ \A n \in 0 .. Len(entries) : SubSeq(entries', 1, n) = SubSeq(entries, 1, n)
 <2> DEFINE bt == End(entries, leaf, new)
 <2> QED BY <1>1, FitsGrows
<1>3. SubSeq(entries, 1, Len(entries)) = entries BY <1>1
<1> QED BY <1>1, <1>2, <1>3 DEF LedgerIsKept

LEMMA ClearKept ==
  ASSUME Sound, Seated, Sound', ~Overlaps, Alone, Kept, NEW p \in Task, Clear(p)
  PROVE  Kept'
<1>1. /\ p = "fg" /\ op["fg"].pc = "free" /\ op["idle"].pc \in {"free", "asleep"}
      /\ entries' = AppendMany(entries, leaf, <<ResetBoundaryEntry>>)
      /\ Len(entries') = Len(entries) + 1
      /\ Moved(p, "clear", Len(entries) + 1, Len(entries) + 1)
  BY ClearIs
<1> DEFINE new == <<ResetBoundaryEntry>>
<1>2. entries \in Seq(EntryRow) /\ Len(entries) \in Nat /\ spoken \in Nat BY Facts
<1>3. ResetBoundaryEntry \in NewIn(entries) BY <1>2, EntriesIn DEF Plain
<1>4. /\ new \in Seq(NewIn(entries)) /\ Len(new) = 1 /\ EntriesPlain(new) /\ ToldBy(new) = {0}
 <2>1. new \in Seq(NewIn(entries)) /\ Len(new) = 1 /\ DOMAIN new = {1}
       /\ new[1] = ResetBoundaryEntry
   BY <1>3
 <2>2. ResetBoundaryEntry.kind = "reset" /\ Of(ResetBoundaryEntry.msg) = {0}
   BY DEF ResetBoundaryEntry, Entry, NoMessage, Of
 <2> HIDE DEF new
 <2>3. EntriesPlain(new) BY <2>1, <2>2 DEF EntriesPlain
 <2>4. ToldBy(new) = {0} BY <2>1, <2>2 DEF ToldBy
 <2> QED BY <2>1, <2>3, <2>4
<1>10. entries' = AppendMany(entries, leaf, new) BY <1>1
<1> HIDE DEF new
<1>5. Fits(ToldBy(new), entries, leaf, spoken) /\ UNCHANGED spoken
 <2>1. UNCHANGED spoken BY <1>1 DEF Moved
 <2>2. ToldBy(new) \subseteq 0 .. spoken /\ ToldBy(new) \subseteq {0} BY <1>2, <1>4
 <2> QED BY <2>1, <2>2 DEF Fits
<1>6. /\ LedgerIsKept' /\ ToldBy(entries) \subseteq ToldBy(entries')
      /\ SubSeq(entries', 1, Len(entries)) = entries
 <2>1. /\ NoReset(new) \/ Len(new) <= 1
       /\ new \in Seq(NewIn(entries)) /\ EntriesPlain(new)
   BY <1>4
 <2> QED BY <1>5, <1>10, <2>1, MoveAppends
<1>7. \A q \in Task \ {p} : op[q].pc \in {"free", "asleep"}
  BY <1>1, TaskIs, IdleFields DEF Alone
<1>8. op[p].pc \notin InTurn /\ Len(entries) + 1 <= Len(entries') BY <1>1, <1>2 DEF InTurn
<1> QED BY <1>1, <1>6, <1>7, <1>8, MoveKept

LEMMA BranchKept ==
  ASSUME Sound, Seated, Sound', ~Overlaps, Alone, Kept, NEW p \in Task,
         NEW at \in DOMAIN entries, Branch(p, at)
  PROVE  Kept'
<1>1. /\ p = "fg" /\ op["fg"].pc = "free" /\ op["idle"].pc \in {"free", "asleep"}
      /\ entries' = entries /\ Moved(p, "branch", 0, 0)
  BY BranchIs
<1>2. LedgerIsKept' BY <1>1 DEF Kept, LedgerIsKept, Moved
<1>3. \A q \in Task \ {p} : op[q].pc \in {"free", "asleep"}
  BY <1>1, TaskIs, IdleFields DEF Alone
<1>4. op[p].pc \notin InTurn BY <1>1 DEF InTurn
<1> QED BY <1>1, <1>2, <1>3, <1>4, MoveKept

LEMMA SummarisedKept ==
  ASSUME Sound, Seated, Sound', ~Overlaps, Alone, Kept, NEW p \in Task, Summarised(p)
  PROVE  Kept'
<1> DEFINE o == op[p]
           new == CompactedEntries(o)
           kept == IF o.tail = <<>> THEN NoMark ELSE FirstKept(entries, leaf, Head(o.tail))
           again == IF kept = NoMark THEN Says(o.tail) ELSE <<>>
           e == CompactionEntry(SummaryMessage(o.summary), kept)
<1>1. /\ o.pc = "summarising" /\ ~o.cancel /\ o.kind = "compact" /\ (p = "fg" \/ p = "idle")
      /\ p = "idle" => op["fg"].pc = "free"
      /\ new \in Seq(Plain(entries)) /\ Len(new) \in Nat \ {0}
      /\ entries' = AppendMany(entries, leaf, new)
      /\ Len(entries') = Len(entries) + Len(new)
      /\ Moved(p, "compact", Len(entries) + 1, Len(entries'))
  BY SummarisedIs
<1>2. /\ entries \in Seq(EntryRow) /\ PathsAscend(entries) /\ leaf \in 0 .. Len(entries)
      /\ Len(entries) \in Nat /\ spoken \in Nat /\ o \in OpRec
  BY Facts
<1>3. TailKept(o, entries, leaf, spoken) BY <1>1 DEF Kept, OpIsKept, OpKept
<1>4. new = <<e>> \o again BY DEF CompactedEntries
<1>5. e \in Plain(entries) /\ Of(e.msg) = o.summary /\ e.kind = "compaction"
 <2>1. SummaryMessage(o.summary) \in Said /\ Of(SummaryMessage(o.summary)) = o.summary
   BY <1>2 DEF SummaryMessage, Said, OpRec, Of
 <2>2. kept \in Int /\ kept <= Len(entries)
  <3>1. /\ FirstKept(entries, leaf, Head(o.tail)) \in Int
        /\ FirstKept(entries, leaf, Head(o.tail)) <= Len(entries)
    BY <1>2, FirstKeptIs
  <3> QED BY <1>2, <3>1 DEF NoMark
 <2> HIDE DEF kept
 <2> QED BY <1>2, <2>1, <2>2, EntriesIn
<1>6. /\ again \in Seq(Plain(entries)) /\ ToldBy(again) \subseteq Covered(o.tail)
      /\ NoReset(again) /\ EntriesPlain(again)
 <2>0. o.tail \in Seq(Said) BY <1>2 DEF OpRec
 <2>1. /\ Says(o.tail) \in Seq(Plain(entries)) /\ ToldBy(Says(o.tail)) = Covered(o.tail)
       /\ NoReset(Says(o.tail)) /\ EntriesPlain(Says(o.tail))
   BY <1>2, <1>3, <2>0, SaysIs, SaysTell DEF TailKept
 <2>2. /\ <<>> \in Seq(Plain(entries)) /\ ToldBy(<<>>) = {} /\ NoReset(<<>>)
       /\ EntriesPlain(<<>>)
   BY EmptySeq DEF ToldBy, NoReset, EntriesPlain
 <2> HIDE DEF kept, o
 <2> QED BY <2>1, <2>2
<1> HIDE DEF e, again
<1>7. /\ ToldBy(new) = o.summary \cup ToldBy(again) /\ NoReset(new) /\ EntriesPlain(new)
  BY <1>4, <1>5, <1>6, MoreTell
<1>8. new \in Seq(NewIn(entries)) BY <1>1, PlainSeq
<1> HIDE DEF new
<1>9. Fits(ToldBy(new), entries, leaf, spoken) /\ UNCHANGED spoken
  BY <1>1, <1>3, <1>6, <1>7 DEF Fits, TailKept, Moved
<1>10. /\ LedgerIsKept' /\ ToldBy(entries) \subseteq ToldBy(entries')
       /\ SubSeq(entries', 1, Len(entries)) = entries
  BY <1>1, <1>7, <1>8, <1>9, MoveAppends
<1>11. \A q \in Task \ {p} : op[q].pc \in {"free", "asleep"}
  BY <1>1, TaskIs, IdleFields DEF Alone, AloneOf
<1>12. op[p].pc \notin InTurn /\ Len(entries) + 1 <= Len(entries') BY <1>1, <1>2 DEF InTurn
<1> QED BY <1>1, <1>10, <1>11, <1>12, MoveKept

\* What is added to nothing is all there is.
LEMMA AddedToNone ==
  ASSUME NEW new \in Seq(Said)
  PROVE  AddMessages(<<>>, new) = new
<1>1. \A m : ~Contains(<<>>, m) BY EmptySeq, HeldIs, SetOfNone
<1>2. ToSet(new) \subseteq {m \in ToSet(new) : m.role = "summary" \/ ~Contains(<<>>, m)}
  BY <1>1
<1>3. Only(new, {m \in ToSet(new) : m.role = "summary" \/ ~Contains(<<>>, m)}) = new
  BY <1>2, OnlyAll
<1> QED BY <1>3 DEF AddMessages

\* The task that seeds, and the tasks beside it.
LEMMA SeedingIs ==
  ASSUME Sound, Alone, Kept, NEW p \in Task, op[p].pc \in {"reading", "writing", "activating"}
  PROVE  /\ SeedKept(op[p], current, thread, graph, entries, leaf, spoken)
         /\ op[p].kind # "turn" => PriorKept(op[p], graph, cursor, entries, spoken)
         /\ op[p] \in OpRec /\ op[p].on \in Thread /\ current = None
         /\ \A q \in Task \ {p} : op[q].pc \in Early
         /\ op["fg"].pc \notin InTurn
         /\ 1 .. spoken \subseteq ToldBy(entries)
<1>1. /\ SeedKept(op[p], current, thread, graph, entries, leaf, spoken)
      /\ op[p].kind # "turn" => PriorKept(op[p], graph, cursor, entries, spoken)
  BY DEF Kept, OpIsKept, OpKept
<1>2. op[p] \in OpRec /\ op[p].on \in Thread BY Facts DEF OpSound
<1>3. op[p].pc # "free" /\ op[p].pc \notin Early BY DEF Early
<1>4. /\ \A q \in Task \ {p} : op[q].pc \in Early
      /\ p = "fg" \/ (p = "idle" /\ op["fg"].pc = "free")
  BY <1>3, OthersWait
<1>5. op["fg"].pc \notin InTurn /\ op["fg"].pc \notin Midturn BY <1>4 DEF InTurn, Midturn
<1>6. 1 .. spoken \subseteq ToldBy(entries) BY <1>5 DEF Kept, AllIsKept, Unsaid
<1> QED BY <1>1, <1>2, <1>4, <1>5, <1>6 DEF SeedKept

\* A step of a task that seeds, where the ledger stays.
LEMMA SeedStepKept ==
  ASSUME Sound, Alone, Kept, NEW p \in Task, op[p].pc \in {"reading", "writing", "activating"},
         \A q \in Task \ {p} : op'[q] = op[q], UNCHANGED <<entries, leaf, spoken>>,
         OpIsKept(p)', ThreadIsKept', op'[p].pc \notin InTurn
  PROVE  Kept'
<1>1. /\ \A q \in Task \ {p} : op[q].pc \in Early
      /\ op["fg"].pc \notin InTurn /\ 1 .. spoken \subseteq ToldBy(entries)
  BY SeedingIs
<1>2. ASSUME NEW q \in Task, q # p PROVE OpIsKept(q)'
 <2>1. OpKept(op[q], current, thread, graph, cursor, entries, leaf, spoken)
   BY DEF Kept, OpIsKept
 <2>2. op[q].pc \in Early /\ op'[q] = op[q] BY <1>1, <1>2
 <2>3. OpKept(op[q], current', thread', graph', cursor', entries, leaf, spoken)
   BY <2>1, <2>2, WaitingIs
 <2> QED BY <2>2, <2>3 DEF OpIsKept
<1>3. op'["fg"].pc \notin InTurn /\ op'["fg"].pc \notin Midturn
  BY <1>1, TaskIs DEF InTurn, Midturn
<1>4. TurnIsKept' /\ AllIsKept' /\ LedgerIsKept'
  BY <1>1, <1>3 DEF Kept, TurnIsKept, AllIsKept, TurnKept, Unsaid, InTurn, Midturn, LedgerIsKept
<1> QED BY <1>2, <1>4 DEF Kept

LEMMA SeedReadsKept ==
  ASSUME Sound, Alone, Kept, NEW p \in Task, SeedReads(p)
  PROVE  Kept'
<1>1. /\ op[p].pc = "reading" /\ op' = [op EXCEPT ![p].pc = "writing", ![p].base = graph[op[p].on]]
      /\ UNCHANGED <<entries, leaf, spoken, current, thread, graph, cursor>>
  BY DEF SeedReads, ledgerVars, threadVars, boundVars
<1>2. /\ SeedKept(op[p], current, thread, graph, entries, leaf, spoken)
      /\ op[p].kind # "turn" => PriorKept(op[p], graph, cursor, entries, spoken)
      /\ op[p] \in OpRec /\ op \in [Task -> OpRec]
  BY <1>1, SeedingIs, Facts
<1>3. /\ op'[p].pc = "writing" /\ op'[p].base = graph[op[p].on] /\ op'[p].on = op[p].on
      /\ op'[p].seed = op[p].seed /\ op'[p].prior = op[p].prior /\ op'[p].first = op[p].first
      /\ op'[p].kind = op[p].kind
      /\ \A q \in Task \ {p} : op'[q] = op[q]
  BY <1>1, <1>2 DEF OpRec
<1>4. SeedKept(op'[p], current', thread', graph', entries', leaf', spoken')
  BY <1>1, <1>2, <1>3 DEF SeedKept
<1>5. op'[p].kind # "turn" => PriorKept(op'[p], graph', cursor', entries', spoken')
  BY <1>1, <1>2, <1>3 DEF PriorKept, EntriesBefore
<1>6. OpIsKept(p)' BY <1>3, <1>4, <1>5 DEF OpIsKept, OpKept
<1>7. ThreadIsKept' BY <1>1 DEF Kept, ThreadIsKept
<1> QED BY <1>1, <1>3, <1>6, <1>7, SeedStepKept DEF InTurn

LEMMA SeedWritesKept ==
  ASSUME Sound, Alone, Kept, NEW p \in Task, SeedWrites(p)
  PROVE  Kept'
<1>1. /\ op[p].pc = "writing" /\ op' = [op EXCEPT ![p].pc = "activating", ![p].base = <<>>]
      /\ graph' = [graph EXCEPT ![op[p].on] = AddMessages(op[p].base, op[p].seed)]
      /\ UNCHANGED <<entries, leaf, spoken, current, thread, cursor>>
  BY DEF SeedWrites, ledgerVars, boundVars
<1>2. /\ SeedKept(op[p], current, thread, graph, entries, leaf, spoken)
      /\ op[p].kind # "turn" => PriorKept(op[p], graph, cursor, entries, spoken)
      /\ op[p] \in OpRec /\ op \in [Task -> OpRec] /\ op[p].on \in Thread
      /\ graph \in [Thread -> Seq(Said)] /\ current = None
  BY <1>1, SeedingIs, Facts
<1>3. /\ op'[p].pc = "activating" /\ op'[p].on = op[p].on
      /\ op'[p].seed = op[p].seed /\ op'[p].prior = op[p].prior /\ op'[p].first = op[p].first
      /\ op'[p].kind = op[p].kind
      /\ \A q \in Task \ {p} : op'[q] = op[q]
  BY <1>1, <1>2 DEF OpRec
<1>4. graph'[op[p].on] = op[p].seed /\ \A t : t # op[p].on => graph'[t] = graph[t]
 <2>1. op[p].base = <<>> /\ op[p].seed \in Seq(Said) BY <1>1, <1>2 DEF SeedKept, OpRec
 <2>2. graph' = [graph EXCEPT ![op[p].on] = op[p].seed] BY <1>1, <2>1, AddedToNone
 <2> QED BY <1>2, <2>2
<1>5. SeedKept(op'[p], current', thread', graph', entries', leaf', spoken')
  BY <1>1, <1>2, <1>3, <1>4 DEF SeedKept
<1>6. op'[p].kind # "turn" => PriorKept(op'[p], graph', cursor', entries', spoken')
 <2> DEFINE prior == op[p].prior
            es == EntriesBefore(op[p], entries)
 <2>1. SUFFICES ASSUME op[p].kind # "turn"
                PROVE  PriorKept(op'[p], graph', cursor', entries', spoken')
   BY <1>3
 <2>2. PriorKept(op[p], graph, cursor, entries, spoken) BY <1>2, <2>1
 <2>3. prior.current # None => graph'[prior.thread] = graph[prior.thread]
   BY <1>4, <2>2 DEF PriorKept
 <2>4. ThreadKept(prior.current, prior.thread, graph, cursor, es, prior.leaf, spoken)
   BY <2>2 DEF PriorKept
 <2>5. ThreadKept(prior.current, prior.thread, graph', cursor, es, prior.leaf, spoken)
   BY <2>3, <2>4 DEF ThreadKept
 <2>6. EntriesBefore(op'[p], entries') = es BY <1>1, <1>3 DEF EntriesBefore
 <2> HIDE DEF es
 <2> QED BY <1>1, <1>3, <2>2, <2>5, <2>6 DEF PriorKept, es
<1>7. OpIsKept(p)' BY <1>3, <1>5, <1>6 DEF OpIsKept, OpKept
<1>8. ThreadIsKept' BY <1>1, <1>2 DEF ThreadIsKept, ThreadKept
<1> QED BY <1>1, <1>3, <1>7, <1>8, SeedStepKept DEF InTurn

LEMMA SeedActivatesKept ==
  ASSUME Sound, Alone, Kept, NEW p \in Task, SeedActivates(p)
  PROVE  Kept'
<1> DEFINE t == op[p].on
<1>1. /\ op[p].pc = "activating" /\ op' = [op EXCEPT ![p].pc = "announcing", ![p].seed = <<>>]
      /\ cursor' = [cursor EXCEPT ![t] = IF t \in checkpoints THEN graph[t] ELSE op[p].seed]
      /\ current' = t /\ UNCHANGED <<entries, leaf, spoken, thread, graph>>
  BY DEF SeedActivates, ledgerVars, boundVars
<1>2. /\ SeedKept(op[p], current, thread, graph, entries, leaf, spoken)
      /\ op[p] \in OpRec /\ op \in [Task -> OpRec] /\ t \in Thread
      /\ cursor \in [Thread -> Seq(Said)]
  BY <1>1, SeedingIs, Facts
<1>3. /\ op'[p].pc = "announcing" /\ \A q \in Task \ {p} : op'[q] = op[q]
  BY <1>1, <1>2 DEF OpRec
<1>4. graph[t] = op[p].seed /\ thread = t /\ Live(op[p].seed, op[p].seed, entries, leaf, spoken)
  BY <1>1, <1>2 DEF SeedKept
<1>5. cursor'[t] = op[p].seed /\ graph'[t] = op[p].seed BY <1>1, <1>2, <1>4
<1> HIDE DEF t
<1>6. ThreadIsKept' BY <1>1, <1>4, <1>5 DEF ThreadIsKept, ThreadKept
<1>7. current' # None BY <1>1, <1>2, Threads
<1>8. OpIsKept(p)' BY <1>3, <1>7 DEF OpIsKept, OpKept
<1> QED BY <1>1, <1>3, <1>6, <1>8, SeedStepKept DEF InTurn

\* Of the ledger as it was less is told.
LEMMA LedgerBefore ==
  ASSUME Sound, LedgerIsKept, NEW n \in 0 .. Len(entries)
  PROVE  LedgerKept(SubSeq(entries, 1, n), spoken)
<1>1. entries \in Seq(EntryRow) /\ PathsAscend(entries) BY Facts
<1>2. /\ ToldBy(SubSeq(entries, 1, n)) \subseteq ToldBy(entries)
      /\ EntriesPlain(SubSeq(entries, 1, n)) /\ EntriesApart(SubSeq(entries, 1, n))
  BY <1>1, ToldOfPart DEF LedgerIsKept, LedgerKept
<1> QED BY <1>2 DEF LedgerIsKept, LedgerKept

\* A task that seeds beside another has nothing to take back from it.
LEMMA SeedsBeside ==
  ASSUME Sound, Alone, NEW p \in Task, op[p].pc \in {"reading", "writing", "activating"},
         op[p].kind # "turn"
  PROVE  \A q \in Task \ {p} : op[q].pc \in {"free", "asleep"}
<1>1. /\ \A q \in Task \ {p} : op[q].pc \in Early
      /\ p = "fg" \/ p = "idle"
      /\ p = "idle" => op["fg"].pc = "free" /\ op["side"].pc = "free"
  BY OthersWait DEF Early
<1>2. op[p].kind \in {"clear", "branch", "compact"} BY Facts DEF OpSound, OpRec, OpKinds
<1>3. CASE p = "idle" BY <1>1, <1>3, TaskIs
<1>4. CASE p = "fg"
 <2>1. op["idle"].pc \in {"free", "asleep"} /\ op["side"].pc = "free"
   BY <1>2, <1>4, IdleFields DEF Alone, AloneOf
 <2> QED BY <1>4, <2>1, TaskIs
<1> QED BY <1>1, <1>3, <1>4

LEMMA SeedFailsKept ==
  ASSUME Sound, Alone, Kept, NEW p \in Task, SeedFails(p)
  PROVE  Kept'
<1> DEFINE o == op[p]
<1>1. /\ o.pc \in {"reading", "writing", "activating"} /\ Rollback(o)
      /\ op' = [op EXCEPT ![p] = Idle] /\ UNCHANGED <<cursor, spoken>>
      /\ \E ms : graph' = [graph EXCEPT ![o.on] = ms]
  BY DEF SeedFails, Seeding, boundVars
<1>2. /\ SeedKept(o, current, thread, graph, entries, leaf, spoken)
      /\ o.kind # "turn" => PriorKept(o, graph, cursor, entries, spoken)
      /\ o \in OpRec /\ o.on \in Thread /\ current = None
      /\ \A q \in Task \ {p} : op[q].pc \in Early
      /\ op["fg"].pc \notin InTurn /\ 1 .. spoken \subseteq ToldBy(entries)
  BY <1>1, SeedingIs
<1>3. op'[p] = Idle /\ \A q \in Task \ {p} : op'[q] = op[q] BY <1>1, Facts
<1>4. \A t : t # o.on => graph'[t] = graph[t] BY <1>1, Facts
<1>5. op'["fg"].pc \notin InTurn /\ op'["fg"].pc \notin Midturn
  BY <1>2, <1>3, TaskIs, IdleFields DEF InTurn, Midturn
<1>6. CASE o.kind # "turn" /\ CanRestore(o)
 <2>1. /\ entries' = EntriesBefore(o, entries) /\ leaf' = o.prior.leaf
       /\ current' = o.prior.current /\ thread' = o.prior.thread
   BY <1>1, <1>6 DEF Rollback, EntriesBefore
 <2>2. PriorKept(o, graph, cursor, entries, spoken) BY <1>2, <1>6
 <2>3. LedgerKept(entries', spoken)
  <3>1. CASE o.first = 0 BY <2>1, <3>1 DEF EntriesBefore, Kept, LedgerIsKept
  <3>2. CASE o.first # 0
   <4>1. o.first - 1 \in 0 .. Len(entries)
    <5>1. o.first \in Nat /\ Len(entries) \in Nat /\ o.first <= Len(entries)
      BY <1>2, <2>2, <3>2, Facts DEF PriorKept, OpRec
    <5> QED BY <3>2, <5>1
   <4>2. entries' = SubSeq(entries, 1, o.first - 1) BY <2>1, <3>2 DEF EntriesBefore
   <4> QED BY <4>1, <4>2, LedgerBefore DEF Kept
  <3> QED BY <3>1, <3>2
 <2>4. ThreadKept(current', thread', graph, cursor, entries', leaf', spoken)
   BY <2>1, <2>2 DEF PriorKept
 <2>5. current' # None => graph'[thread'] = graph[thread'] BY <1>4, <2>1, <2>2 DEF PriorKept
 <2>6. ThreadKept(current', thread', graph', cursor', entries', leaf', spoken')
   BY <1>1, <2>4, <2>5 DEF ThreadKept
 <2>7. ASSUME NEW q \in Task PROVE OpIsKept(q)'
  <3>1. op'[q].pc \in {"free", "asleep"} BY <1>1, <1>3, <1>6, SeedsBeside, IdleFields
  <3> QED BY <3>1 DEF OpIsKept, OpKept
 <2>8. TurnIsKept' /\ AllIsKept'
   BY <1>1, <1>5, <2>1, <2>2 DEF TurnIsKept, AllIsKept, TurnKept, PriorKept
 <2> QED BY <1>1, <2>3, <2>6, <2>7, <2>8 DEF Kept, LedgerIsKept, ThreadIsKept
<1>7. CASE ~(o.kind # "turn" /\ CanRestore(o))
 <2>1. UNCHANGED <<entries, leaf, current, thread>> BY <1>1, <1>7 DEF Rollback, ledgerVars
 <2>2. ThreadIsKept' /\ OpIsKept(p)'
   BY <1>2, <1>3, <2>1, IdleKept DEF ThreadIsKept, ThreadKept, OpIsKept, Kept
 <2> QED BY <1>1, <1>3, <2>1, <2>2, SeedStepKept, IdleFields DEF InTurn
<1> QED BY <1>6, <1>7

-----------------------------------------------------------------------------
(* Compactions begin, are announced and end.                                *)

LEMMA SummariseKept ==
  ASSUME Sound, Kept, NEW p \in Task, Summarise(p)
  PROVE  Kept'
<1> DEFINE ms == Context(entries, leaf)
           s(cut) == Covered(SubSeq(ms, 1, cut - 1))
           t(cut) == SubSeq(ms, cut, Len(ms))
<1>1. PICK cut \in Cuts(ms) :
        op' = [op EXCEPT ![p].pc = "summarising", ![p].summary = s(cut), ![p].tail = t(cut)]
  BY DEF Summarise
<1>2. /\ op[p].pc \in {"stopping", "asleep"}
      /\ UNCHANGED <<entries, leaf, current, thread, graph, cursor, checkpoints, spoken>>
  BY DEF Summarise, ledgerVars, threadVars, boundVars
<1>3. op \in [Task -> OpRec] /\ op[p] \in OpRec BY Facts
<1>4. /\ op'[p].pc = "summarising" /\ op'[p].summary = s(cut) /\ op'[p].tail = t(cut)
      /\ \A q \in Task \ {p} : op'[q] = op[q]
 <2> HIDE DEF s, t, ms
 <2> QED BY <1>1, <1>3 DEF OpRec
<1>5. Live(ms, ms, entries, leaf, spoken) /\ ms \in Seq(Said)
 <2>1. /\ entries \in Seq(EntryRow) /\ PathsAscend(entries) /\ leaf \in 0 .. Len(entries)
       /\ LedgerKept(entries, spoken)
   BY Facts DEF Kept, LedgerIsKept
 <2> QED BY <2>1, ContextLives, RecordedIsSeq
<1> HIDE DEF ms
<1>6. cut \in 1 .. Len(ms) + 1 /\ (cut > 1 \/ ms = <<>>)
 <2>1. Len(ms) \in Nat /\ (Len(ms) = 0 => ms = <<>>) BY <1>5, LenProperties, EmptySeq
 <2>2. cut \in 2 .. Len(ms) \/ cut = Len(ms) + 1 BY <1>1 DEF Cuts
 <2> QED BY <2>1, <2>2
<1>7. /\ Covered(ms) = s(cut) \cup Covered(t(cut))
      /\ \A m \in ToSet(t(cut)) : m.role # "summary"
 <2>1. /\ Covered(ms) = s(cut) \cup Covered(t(cut))
       /\ cut > 1 => \A m \in ToSet(t(cut)) : m.role # "summary"
   BY <1>5, <1>6, CoveredParts DEF Live
 <2>2. ms = <<>> => ToSet(t(cut)) = {}
  <3>1. SUFFICES ASSUME ms = <<>> PROVE ToSet(t(cut)) = {} OBVIOUS
  <3>2. cut = 1 /\ Len(ms) = 0 BY <1>6, <3>1, EmptySeq
  <3>3. t(cut) = <<>> BY <3>1, <3>2
  <3> QED BY <3>3, SetOfNone
 <2> QED BY <1>6, <2>1, <2>2
<1> HIDE DEF s, t
<1>8. TailKept(op'[p], entries', leaf', spoken')
  BY <1>2, <1>4, <1>5, <1>7 DEF TailKept, Live
<1>9. OpIsKept(p)' BY <1>4, <1>8 DEF OpIsKept, OpKept
<1> QED BY <1>2, <1>4, <1>9, RecordKept DEF InTurn

\* The idle task is told to stop, and one task goes on.
LEMMA CancelKept ==
  ASSUME Sound, Kept, NEW o \in OpRec, CancelIdle([op EXCEPT !["fg"] = o]),
         UNCHANGED <<entries, leaf, current, thread, graph, cursor, checkpoints, spoken>>,
         op["fg"].pc \notin InTurn, o.pc = "stopping" \/ (o.pc = "announced" /\ current # None),
         op["idle"].pc \in Early
  PROVE  Kept'
<1>1. op \in [Task -> OpRec] /\ known \in BOOLEAN /\ "fg" \in Task /\ "idle" \in Task
      /\ op["idle"] \in OpRec
  BY Facts, TaskIs
<1>2. /\ op'["fg"] = o /\ op'["idle"].pc = op["idle"].pc
      /\ op'["idle"].tail = op["idle"].tail /\ op'["idle"].summary = op["idle"].summary
      /\ op'["idle"].cancel = (op["idle"].cancel \/ (known /\ op["idle"].pc # "free"))
      /\ op'["side"] = op["side"]
  BY <1>1, CancelIs, TaskIs
<1>3. op["idle"].cancel => op'["idle"].cancel BY <1>1, <1>2
<1>4. OpIsKept("fg")' BY <1>2 DEF OpIsKept, OpKept
<1>5. OpIsKept("side")' BY <1>2, TaskIs DEF Kept, OpIsKept
<1>6. OpIsKept("idle")'
 <2>1. OpIsKept("idle") BY <1>1 DEF Kept
 <2> QED BY <1>2, <1>3, <2>1 DEF OpIsKept, OpKept, TailKept, Early
<1>7. TurnIsKept' /\ AllIsKept'
  BY <1>2 DEF Kept, TurnIsKept, AllIsKept, TurnKept, Unsaid, InTurn, Midturn
<1> QED BY <1>4, <1>5, <1>6, <1>7, TaskIs DEF Kept, LedgerIsKept, ThreadIsKept

LEMMA CompactKept ==
  ASSUME Sound, ~Overlaps, Kept, NEW p \in Task, Compact(p)
  PROVE  Kept'
<1> DEFINE o == [op[p] EXCEPT !.kind = "compact", !.pc = "stopping"]
<1>1. /\ MayStart(p, {"free", "asleep", "summarising"})
      /\ CancelIdle([op EXCEPT ![p].kind = "compact", ![p].pc = "stopping"])
      /\ UNCHANGED <<entries, leaf, current, thread, graph, cursor, checkpoints, spoken>>
  BY DEF Compact, ledgerVars, threadVars
<1>2. p = "fg" /\ op["fg"].pc = "free" /\ op["idle"].pc \in Early
  BY <1>1, MayStartIs DEF Early
<1>3. op \in [Task -> OpRec] BY Facts
<1>4. [op EXCEPT ![p].kind = "compact", ![p].pc = "stopping"] = [op EXCEPT ![p] = o] BY <1>3
<1>5. o \in OpRec /\ o.pc = "stopping"
 <2>1. op[p] \in OpRec BY <1>3
 <2>2. "compact" \in OpKinds /\ "stopping" \in PCs BY DEF OpKinds, PCs
 <2> QED BY <2>1, <2>2 DEF OpRec
<1> HIDE DEF o
<1>6. CancelIdle([op EXCEPT !["fg"] = o]) BY <1>1, <1>2, <1>4
<1>7. op["fg"].pc \notin InTurn BY <1>2 DEF InTurn
<1> QED BY <1>1, <1>2, <1>5, <1>6, <1>7, CancelKept

LEMMA AnnounceKept ==
  ASSUME Sound, Alone, Kept, NEW p \in Task, Announce(p)
  PROVE  Kept'
<1>1. /\ op[p].pc = "announcing" /\ (p = "fg" \/ p = "idle")
      /\ UNCHANGED <<entries, leaf, current, thread, graph, cursor, checkpoints, spoken>>
  BY AnnounceIs DEF Announce, ledgerVars, threadVars, boundVars
<1>2. current # None BY <1>1 DEF Kept, OpIsKept, OpKept
<1>3. CASE p = "idle"
 <2>1. op' = [op EXCEPT ![p].pc = "announced"] BY <1>3, AnnounceIs
 <2>2. op'[p].pc = "announced" /\ \A q \in Task \ {p} : op'[q] = op[q]
   BY <2>1, Facts DEF OpRec
 <2>3. OpIsKept(p)' BY <1>1, <1>2, <2>2 DEF OpIsKept, OpKept
 <2> QED BY <1>1, <1>3, <2>2, <2>3, RecordKept
<1>4. CASE p = "fg"
 <2> DEFINE o == [op["fg"] EXCEPT !.pc = "announced"]
 <2>1. o \in OpRec /\ CancelIdle([op EXCEPT !["fg"] = o]) BY <1>4, AnnounceIs
 <2>2. o.pc = "announced" BY Facts, TaskIs DEF OpRec
 <2> HIDE DEF o
 <2>3. op["idle"].pc \in Early /\ op["fg"].pc \notin InTurn
   BY <1>1, <1>4 DEF Alone, AloneOf, InTurn
 <2> QED BY <1>1, <1>2, <2>1, <2>2, <2>3, CancelKept
<1> QED BY <1>1, <1>3, <1>4

LEMMA CommandEndsKept ==
  ASSUME Sound, Seated, Alone, Kept, NEW p \in Task, CommandEnds(p)
  PROVE  Kept'
<1>1. /\ op[p].pc = "announced" /\ op' = [op EXCEPT ![p] = Idle]
      /\ UNCHANGED <<current, graph, checkpoints, thread, spoken>>
      /\ Capture(thread) \/ UNCHANGED <<entries, leaf, cursor>>
  BY DEF CommandEnds, ledgerVars, boundVars
<1>2. current # None BY <1>1 DEF Kept, OpIsKept, OpKept
<1>3. CASE UNCHANGED <<entries, leaf, cursor>> BY <1>1, <1>3, OverKept DEF Midturn
<1>4. CASE Capture(thread)
 <2>1. /\ LedgerIsKept'
       /\ ThreadKept(current, thread, graph', cursor', entries', leaf', spoken)
       /\ ToldBy(entries) \subseteq ToldBy(entries')
       /\ \A o \in OpRec : \A c, n, g, u :
            OpKept(o, c, n, g, u, entries, leaf, spoken)
              => OpKept(o, c, n, g, u, entries', leaf', spoken)
   BY <1>1, <1>2, <1>4, CaptureKept DEF Kept
 <2>2. /\ op'[p] = Idle /\ \A q \in Task \ {p} : op'[q] = op[q] /\ op[q] \in OpRec
   BY <1>1, Facts
 <2>3. op[p].pc \notin Early /\ op[p].pc # "free" BY <1>1 DEF Early
 <2>4. \A q \in Task \ {p} : op[q].pc \in Early BY <2>3, OthersWait
 <2>5. ASSUME NEW q \in Task PROVE OpIsKept(q)'
  <3>1. CASE q = p BY <2>2, <3>1, IdleKept DEF OpIsKept
  <3>2. CASE q # p
   <4>1. OpKept(op[q], current, thread, graph, cursor, entries, leaf, spoken)
     BY DEF Kept, OpIsKept
   <4>2. OpKept(op[q], current, thread, graph, cursor, entries', leaf', spoken)
     BY <2>1, <2>2, <3>2, <4>1
   <4>3. OpKept(op[q], current', thread', graph', cursor', entries', leaf', spoken)
     BY <2>4, <3>2, <4>2, WaitingIs
   <4> QED BY <1>1, <2>2, <3>2, <4>3 DEF OpIsKept
  <3> QED BY <3>1, <3>2
 <2>6. op["fg"].pc \notin InTurn /\ op'["fg"].pc \notin InTurn
   BY <1>1, <2>2, <2>4, TaskIs, IdleFields DEF InTurn, Early
 <2>7. TurnIsKept' /\ AllIsKept'
   BY <1>1, <2>1, <2>6 DEF Kept, TurnIsKept, AllIsKept, TurnKept, Unsaid, InTurn, Midturn
 <2> QED BY <1>1, <2>1, <2>5, <2>7 DEF Kept, ThreadIsKept
<1> QED BY <1>1, <1>3, <1>4

LEMMA StartTurnKept ==
  ASSUME Sound, ~Overlaps, Alone, Kept, StartTurn
  PROVE  Kept'
<1>1. /\ MayStart("fg", {"free", "asleep", "summarising"})
      /\ UNCHANGED <<entries, leaf, current, cursor, thread, spoken>>
  BY DEF StartTurn, ledgerVars
<1>2. op["fg"].pc = "free" /\ op["idle"].pc \in Early /\ "fg" \in Task
  BY <1>1, MayStartIs, TaskIs DEF Early
<1>3. /\ op \in [Task -> OpRec] /\ entries \in Seq(EntryRow) /\ PathsAscend(entries)
      /\ leaf \in 0 .. Len(entries) /\ thread \in Thread /\ graph \in [Thread -> Seq(Said)]
  BY Facts
<1>4. op["fg"].pc \notin InTurn /\ op["fg"].pc \notin Midturn BY <1>2 DEF InTurn, Midturn
<1>5. 1 .. spoken \subseteq ToldBy(entries) BY <1>4 DEF Kept, AllIsKept, Unsaid
<1>6. CASE ReseedPending
 <2> DEFINE record == [Idle EXCEPT !.kind = "turn"]
 <2>1. StartSeed("fg", record, entries, leaf, thread) BY <1>6 DEF StartTurn
 <2>2. record \in OpRec /\ record.kind = "turn" BY IdleIs DEF OpRec, OpKinds
 <2> HIDE DEF record
 <2>3. /\ op'["fg"].pc = "reading" /\ op'["fg"].kind = "turn" /\ op'["fg"].on = thread
       /\ op'["fg"].seed = Context(entries, leaf)
       /\ \A q \in Task \ {"fg"} : op'[q] = op[q]
   BY <1>2, <1>3, <2>1, <2>2, StartsSeed
 <2>4. current = None BY <1>6 DEF ReseedPending, Kept, ThreadIsKept, ThreadKept
 <2>5. graph' = [graph EXCEPT ![thread] = <<>>] BY <2>1 DEF StartSeed
 <2>6. graph'[thread] = <<>> BY <1>3, <2>5
 <2>7. Live(op'["fg"].seed, op'["fg"].seed, entries, leaf, spoken)
   BY <1>3, <2>3, ContextLives DEF Kept, LedgerIsKept
 <2>8. OpIsKept("fg")' BY <1>1, <2>3, <2>4, <2>6, <2>7 DEF OpIsKept, OpKept, SeedKept
 <2>9. ASSUME NEW q \in Task, q # "fg" PROVE OpIsKept(q)'
  <3>1. op[q].pc \in Early BY <1>2, <2>9, TaskIs, IdleFields DEF Alone, Early
  <3>2. OpKept(op[q], current, thread, graph, cursor, entries, leaf, spoken)
    BY DEF Kept, OpIsKept
  <3>3. OpKept(op[q], current', thread', graph', cursor', entries, leaf, spoken)
    BY <3>1, <3>2, WaitingIs
  <3> QED BY <1>1, <2>3, <2>9, <3>3 DEF OpIsKept
 <2>10. ThreadIsKept' /\ TurnIsKept' /\ AllIsKept' /\ LedgerIsKept'
   BY <1>1, <1>5, <2>3, <2>4 DEF Kept, ThreadIsKept, ThreadKept, TurnIsKept, TurnKept, AllIsKept,
                                 Unsaid, LedgerIsKept, InTurn, Midturn
 <2> QED BY <2>8, <2>9, <2>10 DEF Kept
<1>7. CASE ~ReseedPending
 <2>1. /\ op' = [op EXCEPT !["fg"] = [Idle EXCEPT !.kind = "turn", !.pc = "announcing"]]
       /\ UNCHANGED <<graph, checkpoints>>
   BY <1>7 DEF StartTurn
 <2>2. op'["fg"].pc = "announcing" /\ \A q \in Task \ {"fg"} : op'[q] = op[q]
   BY <1>2, <1>3, <2>1, IdleIs DEF OpRec
 <2>3. current # None BY <1>3, <1>7, Threads DEF ReseedPending
 <2>4. OpIsKept("fg")' BY <1>1, <2>2, <2>3 DEF OpIsKept, OpKept
 <2> QED BY <1>1, <1>2, <1>4, <2>1, <2>2, <2>4, RecordKept DEF InTurn
<1> QED BY <1>6, <1>7

\* While a turn runs nothing else does.
LEMMA TurnAlone ==
  ASSUME Sound, Alone, NEW p \in Task, p # "fg", op["idle"].pc = "free", op'[p] = op[p]
  PROVE  OpIsKept(p)'
<1>1. op[p].pc = "free" BY TaskIs, IdleFields DEF Alone
<1> QED BY <1>1 DEF OpIsKept, OpKept

\* A message more in the thread in use.
LEMMA SayKept ==
  ASSUME Sound, Kept, NEW t, t = thread, current = thread, NEW m \in Said, m.id = spoken + 1,
         m.role # "summary", Say(t, m),
         UNCHANGED <<entries, leaf, current, thread, cursor>>,
         op["fg"].pc \notin Midturn \/ current \in checkpoints
  PROVE  /\ LedgerIsKept' /\ ThreadIsKept' /\ current \in checkpoints'
         /\ 1 .. spoken' \subseteq ToldBy(entries) \cup Covered(graph'[thread])
<1>1. /\ graph \in [Thread -> Seq(Said)] /\ thread \in Thread /\ spoken \in Nat
      /\ entries \in Seq(EntryRow) /\ PathsAscend(entries) /\ leaf \in 0 .. Len(entries)
  BY Facts
<1>2. /\ graph' = [graph EXCEPT ![t] = Append(@, m)] /\ checkpoints' = checkpoints \cup {t}
      /\ spoken' = spoken + 1
  BY DEF Say
<1>3. graph'[thread] = Append(graph[thread], m) /\ graph[thread] \in Seq(Said) BY <1>1, <1>2
<1>4. Live(graph[thread], cursor[thread], entries, leaf, spoken)
  BY <1>1, Threads DEF Kept, ThreadIsKept, ThreadKept
<1>5. /\ Covered(graph'[thread]) = Covered(graph[thread]) \cup {spoken + 1}
      /\ SummaryFirst(graph'[thread])
 <2>1. Of(m) = {spoken + 1} BY DEF Of
 <2> QED BY <1>3, <1>4, <2>1, CoveredAppend DEF Live
<1>6. ToldBy(entries) \subseteq 0 .. spoken BY DEF Kept, LedgerIsKept, LedgerKept
<1>7. spoken + 1 \notin ClearedAt(entries, leaf)
 <2>1. ClearedAt(entries, leaf) \subseteq ToldBy(entries) BY <1>1, ClearedIsTold
 <2> QED BY <1>1, <1>6, <2>1
<1>8. Fits(Covered(graph'[thread]), entries, leaf, spoken + 1)
  BY <1>1, <1>4, <1>5, <1>7 DEF Live, Fits
<1>9. Live(graph'[thread], cursor[thread], entries, leaf, spoken + 1)
  BY <1>4, <1>5, <1>8 DEF Live
<1>10. ThreadIsKept' BY <1>2, <1>9 DEF ThreadIsKept, ThreadKept
<1>11. LedgerIsKept'
 <2>1. ToldBy(entries) \subseteq 0 .. spoken + 1 BY <1>1, <1>6
 <2> QED BY <1>2, <2>1 DEF Kept, LedgerIsKept, LedgerKept
<1>12. 1 .. spoken \subseteq ToldBy(entries) \cup Covered(graph[thread])
  BY DEF Kept, AllIsKept, Unsaid
<1>13. 1 .. spoken + 1 \subseteq ToldBy(entries) \cup Covered(graph'[thread])
  BY <1>1, <1>5, <1>12
<1> QED BY <1>2, <1>10, <1>11, <1>13

LEMMA TurnOpensKept ==
  ASSUME Sound, Alone, Kept, TurnOpens
  PROVE  Kept'
<1>1. /\ op["fg"].pc = "announced" /\ ~op["idle"].cancel
      /\ Say(thread, TextMessage(spoken + 1))
      /\ op' = [op EXCEPT !["fg"].pc = "streaming", !["fg"].on = thread]
      /\ UNCHANGED <<entries, leaf, current, thread, cursor>>
  BY DEF TurnOpens, ledgerVars
<1>2. current = thread BY <1>1, TaskIs DEF Kept, OpIsKept, OpKept, ThreadIsKept, ThreadKept
<1>3. /\ TextMessage(spoken + 1) \in Said /\ TextMessage(spoken + 1).id = spoken + 1
      /\ TextMessage(spoken + 1).role # "summary"
 <2>1. spoken + 1 \in Nat BY Facts
 <2>2. TextMessage(spoken + 1) \in Said BY <2>1, Words
 <2> QED BY <2>2 DEF TextMessage
<1>4. op["fg"].pc \notin Midturn BY <1>1 DEF Midturn
<1>5. /\ LedgerIsKept' /\ ThreadIsKept' /\ current \in checkpoints'
      /\ 1 .. spoken' \subseteq ToldBy(entries) \cup Covered(graph'[thread])
  BY <1>1, <1>2, <1>3, <1>4, SayKept
<1>6. /\ op'["fg"].pc = "streaming" /\ op'["fg"].on = thread
      /\ \A q \in Task \ {"fg"} : op'[q] = op[q]
  BY <1>1, Facts, TaskIs DEF OpRec
<1>7. op["idle"].pc = "free" BY <1>1 DEF Alone, AloneOf
<1>8. ASSUME NEW q \in Task PROVE OpIsKept(q)'
  BY <1>6, <1>7, <1>8, TurnAlone DEF OpIsKept, OpKept
<1>9. TurnIsKept' /\ AllIsKept'
  BY <1>1, <1>2, <1>5, <1>6 DEF TurnIsKept, TurnKept, AllIsKept, Unsaid, Midturn
<1> QED BY <1>5, <1>8, <1>9 DEF Kept

\* Where a turn streams.
LEMMA StreamingIs ==
  ASSUME Sound, Alone, Kept, op["fg"].pc \in InTurn
  PROVE  /\ op["idle"].pc = "free" /\ current = op["fg"].on
         /\ op["fg"].pc \in Midturn => current = thread /\ thread \in checkpoints
  BY Facts, Threads DEF Alone, AloneOf, Kept, TurnIsKept, TurnKept, ThreadIsKept, ThreadKept

LEMMA TurnSpeaksKept ==
  ASSUME Sound, Alone, Kept, TurnSpeaks
  PROVE  Kept'
<1> DEFINE t == op["fg"].on
<1>1. /\ op["fg"].pc = "streaming"
      /\ \E m \in {ToolMessage(spoken + 1, Last(graph[t]).id), TextMessage(spoken + 1),
                   CallMessage(spoken + 1)} :
           Say(t, m) /\ (m = ToolMessage(spoken + 1, Last(graph[t]).id) => Asked)
      /\ UNCHANGED <<entries, leaf, current, thread, cursor, op>>
 <2>1. CASE Asked BY <2>1 DEF TurnSpeaks, Streaming, ledgerVars, taskVars
 <2>2. CASE ~Asked
  <3>1. \/ Say(t, TextMessage(spoken + 1))
        \/ Say(t, CallMessage(spoken + 1))
    BY <2>2 DEF TurnSpeaks
  <3>2. TextMessage(spoken + 1) # ToolMessage(spoken + 1, Last(graph[t]).id)
        /\ CallMessage(spoken + 1) # ToolMessage(spoken + 1, Last(graph[t]).id)
    BY DEF TextMessage, CallMessage, ToolMessage
  <3> QED BY <3>1, <3>2 DEF TurnSpeaks, Streaming, ledgerVars, taskVars
 <2> QED BY <2>1, <2>2
<1>2. /\ op["idle"].pc = "free" /\ current = t /\ current = thread /\ thread \in checkpoints
      /\ op["fg"].pc \in Midturn
  BY <1>1, StreamingIs DEF InTurn, Midturn
<1> HIDE DEF t
<1>3. PICK m \in {ToolMessage(spoken + 1, Last(graph[t]).id), TextMessage(spoken + 1),
                  CallMessage(spoken + 1)} :
        Say(t, m) /\ (m = ToolMessage(spoken + 1, Last(graph[t]).id) => Asked)
  BY <1>1
<1>4. m \in Said /\ m.id = spoken + 1 /\ m.role # "summary"
 <2>1. spoken + 1 \in Nat /\ thread \in Thread /\ graph \in [Thread -> Seq(Said)]
   BY Facts, SMTT(30)
 <2>2. Asked => Last(graph[t]) \in Said BY <1>2, <2>1, LastOfThem DEF Asked, t
 <2>3. m = ToolMessage(spoken + 1, Last(graph[t]).id) => Last(graph[t]).id \in Nat
   BY <1>3, <2>2 DEF Said
 <2>4. m \in Said BY <1>3, <2>1, <2>3, Words
 <2>5. m.id = spoken + 1 /\ m.role # "summary"
   BY <1>3 DEF ToolMessage, TextMessage, CallMessage
 <2> QED BY <2>4, <2>5
<1>5. /\ LedgerIsKept' /\ ThreadIsKept' /\ current \in checkpoints'
      /\ 1 .. spoken' \subseteq ToldBy(entries) \cup Covered(graph'[thread])
  BY <1>1, <1>2, <1>3, <1>4, SayKept
<1>6. ASSUME NEW q \in Task PROVE OpIsKept(q)'
  BY <1>1, <1>2, <1>6, TurnAlone DEF OpIsKept, OpKept
<1>7. TurnIsKept' /\ AllIsKept'
  BY <1>1, <1>2, <1>5 DEF TurnIsKept, TurnKept, AllIsKept, Unsaid, t
<1> QED BY <1>5, <1>6, <1>7 DEF Kept

LEMMA TurnCondensesKept ==
  ASSUME Sound, Alone, Kept, TurnCondenses
  PROVE  Kept'
<1> DEFINE t == op["fg"].on
           ms == graph[t]
           a(cut) == SubSeq(ms, 1, cut - 1)
           b(cut) == SubSeq(ms, cut, Len(ms))
<1>1. PICK cut \in Cuts(ms) : graph' = [graph EXCEPT ![t] = <<SummaryMessage(Covered(a(cut)))>> \o b(cut)]
 <2>1. graph \in [Thread -> Seq(Said)] BY Facts
 <2> QED BY <2>1 DEF TurnCondenses
<1>2. /\ op["fg"].pc = "streaming"
      /\ UNCHANGED <<entries, leaf, current, thread, cursor, checkpoints, op, spoken>>
  BY DEF TurnCondenses, Streaming, ledgerVars, taskVars, boundVars
<1>3. /\ op["idle"].pc = "free" /\ current = t /\ current = thread /\ thread \in checkpoints
      /\ op["fg"].pc \in Midturn
  BY <1>2, StreamingIs DEF InTurn, Midturn
<1>4. thread \in Thread /\ graph \in [Thread -> Seq(Said)] /\ ms \in Seq(Said)
  BY <1>3, Facts
<1>5. ms = graph[thread] /\ Live(ms, cursor[thread], entries, leaf, spoken)
  BY <1>3, <1>4, Threads DEF Kept, ThreadIsKept, ThreadKept
<1> HIDE DEF ms, t
<1>6. cut \in 1 .. Len(ms) + 1 /\ (cut > 1 \/ ms = <<>>)
 <2>1. Len(ms) \in Nat /\ (Len(ms) = 0 => ms = <<>>) BY <1>4, LenProperties, EmptySeq
 <2>2. cut \in 2 .. Len(ms) \/ cut = Len(ms) + 1 BY <1>1 DEF Cuts
 <2> QED BY <2>1, <2>2
<1>7. /\ a(cut) \in Seq(Said) /\ b(cut) \in Seq(Said)
      /\ Covered(ms) = Covered(a(cut)) \cup Covered(b(cut))
      /\ \A m \in ToSet(b(cut)) : m.role # "summary"
 <2>1. /\ a(cut) \in Seq(Said) /\ b(cut) \in Seq(Said)
       /\ Covered(ms) = Covered(a(cut)) \cup Covered(b(cut))
       /\ cut > 1 => \A m \in ToSet(b(cut)) : m.role # "summary"
   BY <1>4, <1>5, <1>6, CoveredParts DEF Live
 <2>2. ms = <<>> => ToSet(b(cut)) = {}
  <3>1. SUFFICES ASSUME ms = <<>> PROVE ToSet(b(cut)) = {} OBVIOUS
  <3>2. cut = 1 /\ Len(ms) = 0 BY <1>6, <3>1, EmptySeq
  <3>3. b(cut) = <<>> BY <3>1, <3>2
  <3> QED BY <3>3, SetOfNone
 <2> QED BY <1>6, <2>1, <2>2
<1> DEFINE m == SummaryMessage(Covered(a(cut)))
           now == <<m>> \o b(cut)
<1>8. m \in Said /\ Of(m) = Covered(a(cut)) BY <1>7, CoveredIs DEF SummaryMessage, Said, Of
<1>9. graph'[thread] = now BY <1>1, <1>3, <1>4
<1> HIDE DEF a, b, m
<1>10. SummaryFirst(now) /\ Covered(now) = Covered(ms) BY <1>7, <1>8, SummaryBefore
<1> HIDE DEF now
<1>11. Live(graph'[thread], cursor[thread], entries, leaf, spoken)
  BY <1>5, <1>9, <1>10 DEF Live
<1>12. ThreadIsKept' /\ LedgerIsKept' /\ TurnIsKept' /\ AllIsKept'
  BY <1>2, <1>3, <1>5, <1>9, <1>10, <1>11
     DEF Kept, ThreadIsKept, ThreadKept, LedgerIsKept, TurnIsKept, AllIsKept, Unsaid
<1>13. ASSUME NEW q \in Task PROVE OpIsKept(q)'
  BY <1>2, <1>3, <1>13, TurnAlone DEF OpIsKept, OpKept
<1> QED BY <1>12, <1>13, SMTT(30) DEF Kept

LEMMA TurnStopsKept ==
  ASSUME Sound, Alone, Kept, TurnStops
  PROVE  Kept'
<1>1. /\ op["fg"].pc = "streaming" /\ op' = [op EXCEPT !["fg"].pc = "capturing"]
      /\ UNCHANGED <<entries, leaf, current, thread, graph, cursor, checkpoints, spoken>>
  BY DEF TurnStops, Streaming, ledgerVars, threadVars, boundVars
<1>2. /\ op'["fg"].pc = "capturing" /\ op'["fg"].on = op["fg"].on
      /\ \A q \in Task \ {"fg"} : op'[q] = op[q]
  BY <1>1, Facts, TaskIs, SMTT(30) DEF OpRec
<1>3. op["idle"].pc = "free" BY <1>1, StreamingIs DEF InTurn
<1>4. ASSUME NEW q \in Task PROVE OpIsKept(q)'
  BY <1>2, <1>3, <1>4, TurnAlone DEF OpIsKept, OpKept
<1>5. TurnIsKept' /\ AllIsKept'
  BY <1>1, <1>2 DEF Kept, TurnIsKept, TurnKept, AllIsKept, Unsaid, InTurn, Midturn
<1> QED BY <1>1, <1>4, <1>5 DEF Kept, ThreadIsKept, LedgerIsKept

LEMMA TurnCapturesKept ==
  ASSUME Sound, Seated, Alone, Kept, TurnCaptures
  PROVE  Kept'
<1>1. /\ op["fg"].pc = "capturing" /\ op' = [op EXCEPT !["fg"].pc = "closing"]
      /\ Capture(thread) /\ UNCHANGED <<current, thread, graph, checkpoints, spoken>>
  BY DEF TurnCaptures, boundVars
<1>2. /\ op["idle"].pc = "free" /\ current = op["fg"].on /\ current = thread
      /\ op["fg"].pc \in Midturn /\ thread \in Thread /\ current # None
  BY <1>1, StreamingIs, Facts, Threads DEF InTurn, Midturn
<1>3. /\ op'["fg"].pc = "closing" /\ op'["fg"].on = op["fg"].on
      /\ \A q \in Task \ {"fg"} : op'[q] = op[q]
  BY <1>1, Facts, TaskIs DEF OpRec
<1>4. /\ LedgerIsKept'
      /\ ThreadKept(current, thread, graph', cursor', entries', leaf', spoken)
      /\ ToldBy(entries) \subseteq ToldBy(entries')
      /\ Known(Covered(graph[thread]), entries')
  BY <1>1, <1>2, CaptureKept DEF Kept
<1>5. ASSUME NEW q \in Task PROVE OpIsKept(q)'
  BY <1>2, <1>3, <1>5, TurnAlone DEF OpIsKept, OpKept
<1>6. 1 .. spoken \subseteq ToldBy(entries')
 <2>1. 1 .. spoken \subseteq ToldBy(entries) \cup Covered(graph[thread])
   BY <1>2 DEF Kept, AllIsKept, Unsaid
 <2>2. 0 \notin 1 .. spoken OBVIOUS
 <2> QED BY <1>4, <2>1, <2>2 DEF Known
<1>7. TurnIsKept' /\ AllIsKept' /\ ThreadIsKept'
  BY <1>1, <1>2, <1>3, <1>4, <1>6 DEF TurnIsKept, TurnKept, AllIsKept, Unsaid, Midturn, ThreadIsKept
<1> QED BY <1>4, <1>5, <1>7 DEF Kept

LEMMA TurnEndsKept ==
  ASSUME Sound, Alone, Kept, TurnEnds
  PROVE  Kept'
<1>1. /\ op["fg"].pc = "closing" /\ op'["fg"] = Idle /\ op'["side"] = op["side"]
      /\ op'["idle"] = op["idle"] \/ op'["idle"].pc = "asleep"
      /\ UNCHANGED <<entries, leaf, current, thread, graph, cursor, checkpoints, spoken>>
  BY TurnEndsIs DEF ledgerVars, threadVars, boundVars
<1>2. OpIsKept("fg")' /\ OpIsKept("side")' /\ OpIsKept("idle")'
  BY <1>1, TaskIs, IdleKept DEF Kept, OpIsKept, OpKept
<1>3. TurnIsKept' /\ AllIsKept'
  BY <1>1, IdleFields DEF Kept, TurnIsKept, TurnKept, AllIsKept, Unsaid, InTurn, Midturn
<1> QED BY <1>1, <1>2, <1>3, TaskIs DEF Kept, ThreadIsKept, LedgerIsKept

\* A background run adds its progress at the leaf, which tells nothing.
LEMMA PersistJobKept ==
  ASSUME Sound, Kept, NEW w \in Worker, PersistJob(w)
  PROVE  Kept'
<1>1. UNCHANGED <<current, thread, graph, cursor, checkpoints, op, spoken>>
  BY DEF PersistJob, threadVars, taskVars, boundVars
<1>2. CASE UNCHANGED ledgerVars
  BY <1>1, <1>2 DEF ledgerVars, Kept, LedgerIsKept, ThreadIsKept, OpIsKept, TurnIsKept, AllIsKept
<1>3. CASE entries' = Placed(entries, leaf, JobEntry(w)) /\ leaf' = Len(entries')
 <2> DEFINE e == JobEntry(w)
            new == <<e>>
 <2>1. /\ entries \in Seq(EntryRow) /\ PathsAscend(entries) /\ leaf \in 0 .. Len(entries)
       /\ Len(entries) \in Nat /\ spoken \in Nat /\ op \in [Task -> OpRec] /\ LedgerTyped
   BY Facts
 <2>2. /\ e \in NewIn(entries) /\ e.kind = "job" /\ e.msg = NoMessage BY <2>1, EntriesIn
 <2>3. Of(NoMessage) = {0} BY DEF NoMessage, Of
 <2> HIDE DEF e
 <2>4. /\ new \in Seq(NewIn(entries)) /\ Len(new) = 1 /\ DOMAIN new = {1} /\ new[1] = e
       /\ new # <<>>
   BY <2>2
 <2>5. NoReset(new) /\ EntriesPlain(new) /\ ToldBy(new) = {0}
  <3>1. \A i \in DOMAIN new : new[i] = e BY <2>4
  <3>2. NoReset(new) /\ EntriesPlain(new) BY <2>2, <2>4, <3>1 DEF NoReset, EntriesPlain
  <3> QED BY <2>2, <2>3, <2>4, <3>2 DEF ToldBy
 <2>6. e \in EntryIn BY <2>2 DEF NewIn
 <2>7. Placed(entries, leaf, e) = AppendMany(entries, leaf, new) BY <2>1, <2>6, PlacedIsMany
 <2>8. entries' = AppendMany(entries, leaf, new) BY <1>3, <2>7 DEF e
 <2> HIDE DEF new
 <2>9. Len(entries') = Len(entries) + 1 BY <2>1, <2>4, <2>8, ManyIs, SMTT(30)
 <2>10. Appends(new) BY <1>3, <2>4, <2>8, <2>9 DEF Appends, End
 <2>11. Fits(ToldBy(new), entries, leaf, spoken) BY <2>1, <2>5 DEF Fits
 <2>12. /\ LedgerIsKept' /\ ToldBy(entries) \subseteq ToldBy(entries')
        /\ \A ids : Known(ids, entries) => Known(ids, entries')
        /\ \A ids : Fits(ids, entries, leaf, spoken) => Fits(ids, entries', leaf', spoken)
        /\ \A o \in OpRec : \A c, t, g, u :
             OpKept(o, c, t, g, u, entries, leaf, spoken)
               => OpKept(o, c, t, g, u, entries', leaf', spoken)
   BY <1>1, <2>4, <2>5, <2>10, <2>11, AppendKept DEF Kept
 <2>13. ThreadIsKept' BY <1>1, <2>12 DEF Kept, ThreadIsKept, ThreadKept, Live
 <2>14. ASSUME NEW q \in Task PROVE OpIsKept(q)'
  <3>1. op[q] \in OpRec BY <2>1
  <3> QED BY <1>1, <2>12, <3>1 DEF Kept, OpIsKept
 <2>15. TurnIsKept' /\ AllIsKept' BY <1>1, <2>12 DEF Kept, TurnIsKept, AllIsKept
 <2> QED BY <2>12, <2>13, <2>14, <2>15 DEF Kept
<1> QED BY <1>2, <1>3 DEF PersistJob

\* A start captures what the process that died had not, and every task is gone.
LEMMA RestartKept ==
  ASSUME Sound, Seated, Kept, Restart
  PROVE  Kept'
<1> DEFINE live == current # None /\ current \in checkpoints
<1>1. /\ op' = [p \in Task |-> Idle]
      /\ IF live THEN Capture(current) ELSE UNCHANGED <<ledgerVars, cursor>>
      /\ IF live /\ ~Dangling(entries', leaf')
         THEN thread' = current /\ UNCHANGED current
         ELSE current' = None
      /\ UNCHANGED <<graph, checkpoints, spoken>>
  BY DEF Restart
<1>2. None \notin checkpoints /\ "fg" \in Task
 <2>1. None \notin Thread /\ checkpoints \in SUBSET Thread BY Threads, Facts
 <2> QED BY <2>1, TaskIs
<1>3. /\ \A q \in Task : op'[q] = Idle
      /\ \A q \in Task : OpIsKept(q)'
      /\ TurnIsKept'
 <2>1. \A q \in Task : op'[q] = Idle BY <1>1
 <2> QED BY <1>2, <2>1, IdleKept, IdleFields DEF OpIsKept, TurnIsKept, TurnKept, InTurn, Midturn
<1>4. CASE live
 <2>1. current = thread /\ current # None BY <1>4 DEF Kept, ThreadIsKept, ThreadKept
 <2>2. Capture(current) BY <1>1, <1>4
 <2>3. /\ LedgerIsKept'
       /\ ThreadKept(current, thread, graph', cursor', entries', leaf', spoken)
       /\ ToldBy(entries) \subseteq ToldBy(entries')
       /\ Known(Covered(graph[thread]), entries')
   BY <1>1, <2>1, <2>2, CaptureKept DEF Kept
 <2>4. \/ thread' = current /\ current' = current
       \/ current' = None
   BY <1>1
 <2>5. ThreadIsKept' BY <1>1, <2>1, <2>3, <2>4 DEF ThreadIsKept, ThreadKept
 <2>6. AllIsKept'
  <3>1. 1 .. spoken \subseteq ToldBy(entries) \cup Covered(graph[thread])
    BY DEF Kept, AllIsKept, Unsaid
  <3>2. 1 .. spoken \subseteq ToldBy(entries')
   <4>1. ASSUME NEW x \in 1 .. spoken PROVE x \in ToldBy(entries')
    <5>1. x # 0 BY <4>1, Facts
    <5> QED BY <2>3, <3>1, <4>1, <5>1 DEF Known
   <4> QED BY <4>1
  <3> QED BY <1>1, <3>2 DEF AllIsKept
 <2> QED BY <1>3, <2>3, <2>5, <2>6 DEF Kept
<1>5. CASE ~live
 <2>1. UNCHANGED <<entries, leaf, cursor>> /\ current' = None BY <1>1, <1>5 DEF ledgerVars
 <2>2. LedgerIsKept' /\ ThreadIsKept'
   BY <1>1, <2>1 DEF Kept, LedgerIsKept, ThreadIsKept, ThreadKept
 <2>3. op["fg"].pc \notin Midturn
   BY <1>2, <1>5 DEF Kept, ThreadIsKept, ThreadKept, TurnIsKept, TurnKept
 <2>4. AllIsKept' BY <1>1, <2>1, <2>3 DEF Kept, AllIsKept, Unsaid
 <2> QED BY <1>3, <2>2, <2>4 DEF Kept
<1> QED BY <1>4, <1>5

-----------------------------------------------------------------------------
LEMMA InitAlone == Init => Alone
<1> SUFFICES ASSUME Init PROVE Alone OBVIOUS
<1>1. op["fg"] = Idle /\ op["side"] = Idle /\ op["idle"] = Idle BY TaskIs DEF Init
<1> QED BY <1>1, IdleFields DEF Alone, AloneOf, Early, InTurn

LEMMA InitKept == Init => Kept
<1> SUFFICES ASSUME Init PROVE Kept OBVIOUS
<1>1. /\ entries = <<>> /\ DOMAIN entries = {} /\ leaf = 0 /\ spoken = 0
      /\ current = 0 /\ thread = 0
  BY DEF Init
<1>2. \A q \in Task : op[q] = Idle BY DEF Init
<1>3. graph[0] = <<>> /\ cursor[0] = <<>> BY Threads DEF Init
<1>4. ToldBy(entries) = {} /\ EntriesPlain(entries) /\ EntriesApart(entries)
  BY <1>1 DEF ToldBy, EntriesPlain, EntriesApart
<1>5. SummaryFirst(<<>>) BY EmptySeq DEF SummaryFirst
<1>6. LedgerIsKept /\ ThreadIsKept
 <2>1. current \in {None, thread} /\ Live(graph[thread], cursor[thread], entries, leaf, spoken)
   BY <1>1, <1>3, <1>5, CoveredNone DEF Live, Fits, Known
 <2>2. LedgerIsKept BY <1>1, <1>4 DEF LedgerIsKept, LedgerKept
 <2> QED BY <2>1, <2>2 DEF ThreadIsKept, ThreadKept
<1>7. ASSUME NEW q \in Task PROVE OpIsKept(q) BY <1>2, IdleKept DEF OpIsKept
<1>8. op["fg"].pc = "free" BY <1>2, TaskIs, IdleFields
<1>9. TurnIsKept /\ AllIsKept
 <2>1. 1 .. spoken = {} BY <1>1
 <2> QED BY <1>8, <2>1 DEF TurnIsKept, TurnKept, AllIsKept, InTurn, Midturn
<1> QED BY <1>6, <1>7, <1>9 DEF Kept

LEMMA KeptNext ==
  ASSUME Sound, Seated, Sound', ~Overlaps, Alone, Kept, [Next]_vars
  PROVE  Kept'
<1>1. ASSUME NEW p \in Task,
             \/ Clear(p) \/ Compact(p) \/ \E at \in DOMAIN entries : Branch(p, at)
             \/ Summarise(p) \/ Summarised(p)
      PROVE  Kept'
  BY <1>1, ClearKept, CompactKept, BranchKept, SummariseKept, SummarisedKept
<1>2. ASSUME NEW p \in Task,
             \/ SeedReads(p) \/ SeedWrites(p) \/ SeedActivates(p) \/ SeedFails(p)
             \/ Announce(p) \/ CommandEnds(p) \/ Stops(p)
      PROVE  Kept'
  BY <1>2, SeedReadsKept, SeedWritesKept, SeedActivatesKept, SeedFailsKept, AnnounceKept,
     CommandEndsKept, StopsKept
<1>3. CASE StartTurn \/ TurnOpens \/ TurnSpeaks \/ TurnCondenses \/ TurnStops
  BY <1>3, StartTurnKept, TurnOpensKept, TurnSpeaksKept, TurnCondensesKept, TurnStopsKept
<1>4. CASE TurnCaptures \/ TurnEnds \/ Restart
  BY <1>4, TurnCapturesKept, TurnEndsKept, RestartKept
<1>5. ASSUME NEW w \in Worker, PersistJob(w) PROVE Kept' BY <1>5, PersistJobKept
<1>6. CASE UNCHANGED vars
  BY <1>6 DEF vars, ledgerVars, threadVars, taskVars, boundVars, Kept, LedgerIsKept, ThreadIsKept,
              OpIsKept, TurnIsKept, AllIsKept
<1> QED BY <1>1, <1>2, <1>3, <1>4, <1>5, <1>6 DEF Next

\* What was said is what the entries tell, where no turn is on its way.
LEMMA KeepsAll == ASSUME Kept PROVE NothingLost
<1> SUFFICES ASSUME Quiet
             PROVE  1 .. spoken \subseteq Covered([i \in DOMAIN entries |-> entries[i].msg])
  BY DEF NothingLost
<1>1. op["fg"].pc \notin Midturn BY TaskIs DEF Quiet, Midturn
<1>2. 1 .. spoken \subseteq ToldBy(entries) BY <1>1 DEF Kept, AllIsKept, Unsaid
<1> DEFINE ms == [i \in DOMAIN entries |-> entries[i].msg]
<1>3. ToldBy(entries) \subseteq Covered(ms)
 <2>1. \A i \in DOMAIN entries : ms[i] = entries[i].msg /\ ms[i] \in ToSet(ms) BY DEF ToSet
 <2> QED BY <2>1 DEF ToldBy, Covered, Of
<1> QED BY <1>2, <1>3

LEMMA KeepsCleared == ASSUME Sound, Kept PROVE ClearedStaysCleared
<1> DEFINE ids == Path(entries, leaf)
           T == OfKind(entries, ids, {"reset"})
           at == LastOf(T)
           ms == [k \in 1 .. at |-> entries[ids[k]].msg]
           live == Covered(Context(entries, leaf))
<1>1. at = SelectLastInSeq(ids, LAMBDA i : entries[i].kind = "reset")
 <2>1. T = {k \in 1 .. Len(ids) : entries[ids[k]].kind = "reset"} BY DEF OfKind
 <2> HIDE DEF ids
 <2> QED BY <2>1 DEF SelectLastInSeq, LastOf
<1>2. SUFFICES ASSUME at # 0 PROVE Covered(ms) \cap live \subseteq {0}
  BY <1>1 DEF ClearedStaysCleared
<1>3. /\ entries \in Seq(EntryRow) /\ PathsAscend(entries) /\ leaf \in 0 .. Len(entries)
      /\ Len(entries) \in Nat
  BY Facts
<1>4. EntriesPlain(entries) /\ EntriesApart(entries) BY DEF Kept, LedgerIsKept, LedgerKept
<1>5. live \cap ClearedAt(entries, leaf) \subseteq {0} BY <1>3, <1>4, ContextTells
<1>6. /\ Len(ids) \in Nat /\ DOMAIN ids = 1 .. Len(ids)
      /\ \A k \in 1 .. Len(ids) : ids[k] \in DOMAIN entries
      /\ \A k, l \in 1 .. Len(ids) : k < l => ids[k] < ids[l]
 <2>1. Ascend(ids, leaf) BY <1>3, PathAscends
 <2>2. Len(ids) \in Nat /\ DOMAIN ids = 1 .. Len(ids) BY <2>1, LenProperties DEF Ascend
 <2>3. DOMAIN entries = 1 .. Len(entries) BY <1>3, LenProperties
 <2> HIDE DEF ids
 <2>4. \A k \in 1 .. Len(ids) : ids[k] \in 1 .. leaf BY <2>1 DEF Ascend
 <2> QED BY <1>3, <2>1, <2>2, <2>3, <2>4 DEF Ascend
<1>7. at \in 1 .. Len(ids) /\ entries[ids[at]].kind = "reset"
 <2>1. T \in SUBSET (1 .. Len(ids)) /\ \A k \in T : entries[ids[k]].kind = "reset"
   BY DEF OfKind
 <2> HIDE DEF T, ids
 <2>2. at \in T BY <1>2, <1>6, <2>1, LastIs
 <2> QED BY <2>1, <2>2
<1> HIDE DEF T, at
<1>8. ASSUME NEW k \in 1 .. at, NEW x \in Of(entries[ids[k]].msg), x \in live PROVE x = 0
 <2> HIDE DEF ids
 <2>1. k \in 1 .. Len(ids) /\ (k < at \/ k = at) BY <1>6, <1>7, <1>8
 <2>2. CASE k = at
  <3>1. x \in Of(entries[ids[at]].msg) BY <1>8, <2>2
  <3>2. ids[at] \in DOMAIN entries BY <1>6, <1>7
  <3>3. Of(entries[ids[at]].msg) = {0} BY <1>4, <1>7, <3>2 DEF EntriesPlain
  <3> QED BY <3>1, <3>3
 <2>3. CASE k < at
  <3>1. ids[k] \in ToSet(ids) /\ ids[at] \in ToSet(ids) /\ ids[k] < ids[at]
    BY <1>6, <1>7, <2>1, <2>3 DEF ToSet
  <3>2. ids[k] \in ClearedIds(entries, leaf) BY <1>7, <3>1 DEF ClearedIds, ids
  <3>3. x \in ClearedAt(entries, leaf) BY <1>8, <3>2 DEF ClearedAt
  <3> QED BY <1>5, <1>8, <3>3
 <2> QED BY <2>1, <2>2, <2>3
<1>9. \A x \in Covered(ms) : \E k \in 1 .. at : x \in Of(entries[ids[k]].msg)
 <2>1. \A m \in ToSet(ms) : \E k \in 1 .. at : m = entries[ids[k]].msg BY DEF ToSet
 <2>2. \A x \in Covered(ms) : \E m \in ToSet(ms) : x \in Of(m) BY DEF Covered, Of
 <2> HIDE DEF ms
 <2> QED BY <2>1, <2>2
<1> QED BY <1>8, <1>9

\* Where tasks do not overlap, all of this holds of every state.
LEMMA SessionKept == ASSUME ~Overlaps PROVE Spec => [](Sound /\ Seated /\ Alone /\ Kept)
<1>1. Init => Sound /\ Seated /\ Alone /\ Kept BY InitSound, InitSeated, InitAlone, InitKept
<1>2. Sound /\ Seated /\ Alone /\ Kept /\ [Next]_vars => (Sound /\ Seated /\ Alone /\ Kept)'
  BY NextSound, AloneNext, KeptNext
<1> QED BY <1>1, <1>2, PTL DEF Spec

\* Where tasks do not overlap, nothing that was said is missing from the ledger at rest,
\* whatever failed, was abandoned or crashed on the way (Ledger.capture, reseed_thread,
\* compact_context, resume_session).
THEOREM NothingIsLost == ASSUME ~Overlaps PROVE Spec => []NothingLost
<1>1. Spec => [](Sound /\ Seated /\ Alone /\ Kept) BY SessionKept
<1> QED BY <1>1, KeepsAll, PTL

\* Where tasks do not overlap, what was said before the last clear on the path is not in
\* the conversation that the ledger has for the next turn (clear_context, Ledger.context).
THEOREM ClearedIsGone == ASSUME ~Overlaps PROVE Spec => []ClearedStaysCleared
<1>1. Spec => [](Sound /\ Seated /\ Alone /\ Kept) BY SessionKept
<1> QED BY <1>1, KeepsCleared, PTL

=============================================================================
