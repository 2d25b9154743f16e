------------------------- MODULE ListRecords_proofs -------------------------
(***************************************************************************)
(* What ListRecords promises, for every size of a repository, every limit  *)
(* and every PDS.                                                          *)
(*                                                                         *)
(* The bytes of a page are a sum over its records, a recursive function.   *)
(* Induction is used in the form that a set of numbers with zero and every *)
(* successor is all of Nat.                                                *)
(***************************************************************************)
EXTENDS ListRecords, SequenceTheorems, FiniteSetTheorems, TLAPS

-----------------------------------------------------------------------------
(* The bytes of a page *)

\* Induction over the natural numbers for a set.
LEMMA SetInduction ==
    ASSUME NEW T \in SUBSET Nat, 0 \in T, \A n \in T : n + 1 \in T
    PROVE  T = Nat
<1> DEFINE Less == OpToRel(<, Nat)
<1>1. SUFFICES ASSUME Nat \ T # {} PROVE FALSE
  OBVIOUS
<1>2. PICK x \in Nat \ T : \A y \in Nat \ T : ~(<<y, x>> \in Less)
  <2>1. IsWellFoundedOn(Less, Nat)
    BY NatLessThanWellFounded
  <2> HIDE DEF Less
  <2> QED BY <1>1, <2>1, WFMin
<1>3. x # 0 /\ x - 1 \in Nat /\ x - 1 \notin T
  OBVIOUS
<1>4. <<x - 1, x>> \in Less
  BY <1>3 DEF OpToRel
<1> HIDE DEF Less
<1> QED BY <1>2, <1>3, <1>4

\* Some function satisfies the equations of a page's sums.
LEMMA SumsExist ==
    ASSUME NEW page \in Seq(Keys)
    PROVE  \E f : f = [n \in 0..Len(page) |-> IF n = 0 THEN 0 ELSE f[n - 1] + Size[page[n]]]
<1> DEFINE Upto(f, n) == \A i \in 0..n : f[i] = IF i = 0 THEN 0 ELSE f[i - 1] + Size[page[i]]
           T == {n \in Nat : n <= Len(page) => \E f \in [0..n -> Nat] : Upto(f, n)}
<1>0. Len(page) \in Nat /\ \A i \in 1..Len(page) : Size[page[i]] \in Nat
  BY ListAssumption, ElementOfSeq, LenProperties
<1>1. 0 \in T
  <2> DEFINE f == [i \in 0..0 |-> 0]
  <2>1. f \in [0..0 -> Nat] /\ Upto(f, 0)
    OBVIOUS
  <2> QED BY <2>1
<1>2. ASSUME NEW n \in T PROVE n + 1 \in T
  <2>1. SUFFICES ASSUME n + 1 <= Len(page) PROVE \E g \in [0..n + 1 -> Nat] : Upto(g, n + 1)
    <3> HIDE DEF Upto
    <3> QED OBVIOUS
  <2>2. PICK f \in [0..n -> Nat] : Upto(f, n)
    <3> HIDE DEF Upto
    <3>1. n \in Nat /\ n <= Len(page)
      BY <2>1, <1>0
    <3> QED BY <3>1
  <2> DEFINE g == [i \in 0..n + 1 |-> IF i = n + 1 THEN f[n] + Size[page[n + 1]] ELSE f[i]]
  <2>3. g \in [0..n + 1 -> Nat]
    BY <2>1, <2>2, <1>0
  <2>4. ASSUME NEW i \in 0..n + 1
        PROVE  g[i] = IF i = 0 THEN 0 ELSE g[i - 1] + Size[page[i]]
    <3>1. CASE i = n + 1
      BY <3>1
    <3>2. CASE i \in 0..n
      BY <3>2, <2>2
    <3> QED BY <3>1, <3>2
  <2> QED BY <2>3, <2>4
<1>3. T = Nat
  <2>1. T \subseteq Nat
    OBVIOUS
  <2> HIDE DEF T
  <2> QED BY <2>1, <1>1, <1>2, SetInduction
<1>4. PICK f \in [0..Len(page) -> Nat] : Upto(f, Len(page))
  BY <1>0, <1>3
<1>5. f = [n \in 0..Len(page) |-> IF n = 0 THEN 0 ELSE f[n - 1] + Size[page[n]]]
  BY <1>4
<1> QED BY <1>5

\* Hence the function that BytesTo chooses satisfies them.
LEMMA BytesToEquations ==
    ASSUME NEW page \in Seq(Keys)
    PROVE  BytesTo(page) = [n \in 0..Len(page) |->
                                IF n = 0 THEN 0 ELSE BytesTo(page)[n - 1] + Size[page[n]]]
<1> DEFINE Sums(f) == f = [n \in 0..Len(page) |-> IF n = 0 THEN 0 ELSE f[n - 1] + Size[page[n]]]
<1>1. BytesTo(page) = CHOOSE f : Sums(f)
  BY DEF BytesTo
<1>2. \E f : Sums(f)
  BY SumsExist
<1>3. Sums(CHOOSE f : Sums(f))
  <2> HIDE DEF Sums
  <2> QED BY <1>2
<1> QED BY <1>1, <1>3

LEMMA BytesToRecursion ==
    ASSUME NEW page \in Seq(Keys)
    PROVE  /\ BytesTo(page)[0] = 0
           /\ \A n \in 0..Len(page) - 1 :
                  BytesTo(page)[n + 1] = BytesTo(page)[n] + Size[page[n + 1]]
<1> DEFINE b == BytesTo(page)
<1>1. b = [n \in 0..Len(page) |-> IF n = 0 THEN 0 ELSE b[n - 1] + Size[page[n]]]
  BY BytesToEquations
<1>2. Len(page) \in Nat
  BY LenProperties
<1> HIDE DEF b
<1>3. b[0] = 0
  BY <1>1, <1>2
<1>4. ASSUME NEW n \in 0..Len(page) - 1 PROVE b[n + 1] = b[n] + Size[page[n + 1]]
  <2>1. n + 1 \in 0..Len(page) /\ n + 1 # 0 /\ (n + 1) - 1 = n
    BY <1>2
  <2> QED BY <1>1, <2>1
<1> QED BY <1>3, <1>4 DEF b

LEMMA BytesToType ==
    ASSUME NEW page \in Seq(Keys)
    PROVE  \A n \in 0..Len(page) : BytesTo(page)[n] \in Nat
<1> DEFINE T == {n \in Nat : n <= Len(page) => BytesTo(page)[n] \in Nat}
<1>0. Len(page) \in Nat /\ \A i \in 1..Len(page) : Size[page[i]] \in Nat
  BY ListAssumption, ElementOfSeq, LenProperties
<1>1. 0 \in T
  BY BytesToRecursion
<1>2. ASSUME NEW n \in T PROVE n + 1 \in T
  BY BytesToRecursion, <1>0
<1>3. T = Nat
  <2>1. T \subseteq Nat
    OBVIOUS
  <2> HIDE DEF T
  <2> QED BY <2>1, <1>1, <1>2, SetInduction
<1> QED BY <1>0, <1>3

\* A page has as many bytes as its records, and pages add up.
LEMMA PageBytesType ==
    ASSUME NEW page \in Seq(Keys)
    PROVE  PageBytes(page) \in Nat
BY BytesToType, LenProperties DEF PageBytes

LEMMA PageBytesEmpty == PageBytes(<<>>) = 0
BY BytesToRecursion, EmptySeq, Len(<<>>) = 0 DEF PageBytes

LEMMA PageBytesConcat ==
    ASSUME NEW s \in Seq(Keys), NEW t \in Seq(Keys)
    PROVE  PageBytes(s \o t) = PageBytes(s) + PageBytes(t)
<1> DEFINE st == s \o t
           P == {n \in Nat : n <= Len(s) => BytesTo(st)[n] = BytesTo(s)[n]}
           Q == {n \in Nat : n <= Len(t) => BytesTo(st)[Len(s) + n] = PageBytes(s) + BytesTo(t)[n]}
<1>0. /\ Len(s) \in Nat /\ Len(t) \in Nat
      /\ st \in Seq(Keys)
      /\ Len(st) = Len(s) + Len(t)
      /\ \A i \in 1..Len(s) : st[i] = s[i]
      /\ \A i \in 1..Len(t) : st[Len(s) + i] = t[i]
  BY LenProperties, ConcatProperties
<1>1. /\ \A i \in 1..Len(s) : Size[s[i]] \in Nat
      /\ \A i \in 1..Len(t) : Size[t[i]] \in Nat
  BY ListAssumption, ElementOfSeq, <1>0
<1> HIDE DEF st
<1>2. 0 \in P
  BY BytesToRecursion, <1>0
<1>3. ASSUME NEW n \in P PROVE n + 1 \in P
  <2>1. SUFFICES ASSUME n + 1 <= Len(s) PROVE BytesTo(st)[n + 1] = BytesTo(s)[n + 1]
    OBVIOUS
  <2>2. n \in 0..Len(s) - 1 /\ n \in 0..Len(st) - 1 /\ n + 1 \in 1..Len(s)
    BY <2>1, <1>0
  <2>3. BytesTo(st)[n + 1] = BytesTo(st)[n] + Size[st[n + 1]]
    BY <2>2, <1>0, BytesToRecursion
  <2>4. BytesTo(s)[n + 1] = BytesTo(s)[n] + Size[s[n + 1]]
    BY <2>2, <1>0, BytesToRecursion
  <2> QED BY <2>1, <2>2, <2>3, <2>4, <1>0
<1>4. P = Nat
  <2>1. P \subseteq Nat
    OBVIOUS
  <2> HIDE DEF P
  <2> QED BY <2>1, <1>2, <1>3, SetInduction
<1>5. BytesTo(st)[Len(s)] = PageBytes(s)
  BY <1>4, <1>0 DEF PageBytes
<1>6. BytesTo(t)[0] = 0 /\ PageBytes(s) \in Nat
  BY BytesToRecursion, PageBytesType
<1>7. 0 \in Q
  BY <1>5, <1>6, <1>0
<1>8. ASSUME NEW n \in Q PROVE n + 1 \in Q
  <2>1. SUFFICES ASSUME n + 1 <= Len(t)
                 PROVE  BytesTo(st)[Len(s) + (n + 1)] = PageBytes(s) + BytesTo(t)[n + 1]
    OBVIOUS
  <2>2. n \in 0..Len(t) - 1 /\ Len(s) + n \in 0..Len(st) - 1 /\ n + 1 \in 1..Len(t)
    BY <2>1, <1>0
  <2>3. BytesTo(st)[(Len(s) + n) + 1] = BytesTo(st)[Len(s) + n] + Size[st[(Len(s) + n) + 1]]
    BY <2>2, <1>0, BytesToRecursion
  <2>4. (Len(s) + n) + 1 = Len(s) + (n + 1) /\ st[Len(s) + (n + 1)] = t[n + 1]
    BY <2>2, <1>0
  <2>5. BytesTo(t)[n + 1] = BytesTo(t)[n] + Size[t[n + 1]]
    BY <2>2, <1>0, BytesToRecursion
  <2>6. BytesTo(t)[n] \in Nat /\ BytesTo(st)[Len(s) + n] = PageBytes(s) + BytesTo(t)[n]
    BY <2>2, <1>0, BytesToType
  <2>7. Size[t[n + 1]] \in Nat
    BY <2>2, <1>1
  <2> HIDE DEF Q
  <2> QED BY <2>3, <2>4, <2>5, <2>6, <2>7, <1>6
<1>9. Q = Nat
  <2>1. Q \subseteq Nat
    OBVIOUS
  <2> HIDE DEF Q
  <2> QED BY <2>1, <1>7, <1>8, SetInduction
<1>10. BytesTo(st)[Len(s) + Len(t)] = PageBytes(s) + BytesTo(t)[Len(t)]
  <2>1. Len(t) \in Q
    BY <1>9, <1>0
  <2> QED BY <2>1, <1>0
<1> QED BY <1>10, <1>0 DEF PageBytes, st

-----------------------------------------------------------------------------
(* The records of a page *)

LEMMA ToSetConcat ==
    ASSUME NEW s \in Seq(Keys), NEW t \in Seq(Keys)
    PROVE  ToSet(s \o t) = ToSet(s) \cup ToSet(t)
<1> DEFINE st == s \o t
<1>0. /\ Len(s) \in Nat /\ Len(t) \in Nat
      /\ DOMAIN s = 1..Len(s) /\ DOMAIN t = 1..Len(t) /\ DOMAIN st = 1..Len(s) + Len(t)
      /\ \A i \in 1..Len(s) : st[i] = s[i]
      /\ \A i \in 1..Len(t) : st[Len(s) + i] = t[i]
  BY LenProperties, ConcatProperties
<1> HIDE DEF st
<1>1. ToSet(st) \subseteq ToSet(s) \cup ToSet(t)
  <2>1. SUFFICES ASSUME NEW i \in DOMAIN st PROVE st[i] \in ToSet(s) \cup ToSet(t)
    BY DEF ToSet
  <2>2. CASE i <= Len(s)
    BY <1>0, <2>2 DEF ToSet
  <2>3. CASE i > Len(s)
    <3>1. i - Len(s) \in 1..Len(t) /\ i = Len(s) + (i - Len(s))
      BY <1>0, <2>3
    <3>2. st[i] = t[i - Len(s)]
      BY <1>0, <3>1
    <3> QED BY <1>0, <3>1, <3>2 DEF ToSet
  <2> QED BY <1>0, <2>2, <2>3
<1>2. ToSet(s) \cup ToSet(t) \subseteq ToSet(st)
  <2>1. ASSUME NEW i \in DOMAIN s PROVE s[i] \in ToSet(st)
    BY <1>0 DEF ToSet
  <2>2. ASSUME NEW i \in DOMAIN t PROVE t[i] \in ToSet(st)
    <3>1. Len(s) + i \in DOMAIN st /\ st[Len(s) + i] = t[i]
      BY <1>0
    <3> QED BY <3>1 DEF ToSet
  <2> QED BY <2>1, <2>2 DEF ToSet
<1> QED BY <1>1, <1>2 DEF st

\* Records by descending key, each of them once.
Descending(s) == \A i, j \in DOMAIN s : i < j => s[i] > s[j]

LEMMA DescendingConcat ==
    ASSUME NEW s \in Seq(Keys), NEW t \in Seq(Keys), Descending(s), Descending(t),
           \A x \in ToSet(s), y \in ToSet(t) : x > y
    PROVE  Descending(s \o t)
<1> DEFINE st == s \o t
<1>0. /\ Len(s) \in Nat /\ Len(t) \in Nat
      /\ DOMAIN s = 1..Len(s) /\ DOMAIN t = 1..Len(t) /\ DOMAIN st = 1..Len(s) + Len(t)
      /\ \A i \in 1..Len(s) : st[i] = s[i]
      /\ \A i \in 1..Len(t) : st[Len(s) + i] = t[i]
  BY LenProperties, ConcatProperties
<1> HIDE DEF st
<1>1. SUFFICES ASSUME NEW i \in DOMAIN st, NEW j \in DOMAIN st, i < j PROVE st[i] > st[j]
  BY DEF Descending, st
<1>2. CASE j <= Len(s)
  BY <1>0, <1>1, <1>2 DEF Descending
<1>3. CASE i > Len(s)
  <2> DEFINE a == i - Len(s)
             b == j - Len(s)
  <2>1. a \in 1..Len(t) /\ b \in 1..Len(t) /\ a < b /\ i = Len(s) + a /\ j = Len(s) + b
    <3>1. /\ i \in 1..Len(s) + Len(t) /\ j \in 1..Len(s) + Len(t)
          /\ Len(s) \in Nat /\ Len(t) \in Nat
      BY <1>0
    <3> QED BY <3>1, <1>1, <1>3
  <2> HIDE DEF a, b
  <2>2. st[i] = t[a] /\ st[j] = t[b]
    BY <1>0, <2>1
  <2> QED BY <1>0, <2>1, <2>2 DEF Descending
<1>4. CASE i <= Len(s) /\ j > Len(s)
  <2> DEFINE b == j - Len(s)
  <2>1. b \in 1..Len(t) /\ j = Len(s) + b /\ i \in 1..Len(s)
    BY <1>0, <1>1, <1>4
  <2> HIDE DEF b
  <2>2. st[i] = s[i] /\ st[j] = t[b]
    BY <1>0, <2>1
  <2>3. s[i] \in ToSet(s) /\ t[b] \in ToSet(t)
    BY <1>0, <2>1 DEF ToSet
  <2> QED BY <2>2, <2>3
<1> QED BY <1>0, <1>2, <1>3, <1>4

LEMMA DescendingIsInjective ==
    ASSUME NEW s \in Seq(Keys), Descending(s)
    PROVE  IsInjective(s)
<1>1. DOMAIN s = 1..Len(s) /\ Len(s) \in Nat
  BY LenProperties
<1>2. \A i \in DOMAIN s : s[i] \in Nat
  <2>1. \A i \in DOMAIN s : s[i] \in Keys
    BY <1>1, ElementOfSeq
  <2> QED BY <2>1, ListAssumption
<1>3. SUFFICES ASSUME NEW i \in DOMAIN s, NEW j \in DOMAIN s, s[i] = s[j], i # j PROVE FALSE
  BY DEF IsInjective
<1>4. i < j \/ j < i
  BY <1>1, <1>3
<1> QED BY <1>2, <1>3, <1>4 DEF Descending

-----------------------------------------------------------------------------
(* Listings as parts of a repository *)

LEMMA RemovedRecord ==
    ASSUME NEW t \in Seq(Keys), NEW i \in 1..Len(t)
    PROVE  \E rest \in Seq(Keys) :
               /\ PageBytes(t) = PageBytes(rest) + PageBytes(<<t[i]>>)
               /\ ToSet(t) \subseteq ToSet(rest) \cup {t[i]}
<1> DEFINE k == t[i]
           t1 == SubSeq(t, 1, i - 1)
           t2 == SubSeq(t, i + 1, Len(t))
<1>0. Len(t) \in Nat /\ k \in Keys /\ <<k>> \in Seq(Keys)
  BY LenProperties, ElementOfSeq
<1>1. t1 \in Seq(Keys) /\ t2 \in Seq(Keys)
  <2>1. \A j \in 1..i - 1 : t[j] \in Keys
    BY <1>0, ElementOfSeq
  <2>2. \A j \in i + 1..Len(t) : t[j] \in Keys
    BY <1>0, ElementOfSeq
  <2> QED BY <2>1, <2>2, <1>0, SubSeqProperties
<1>2. t = (t1 \o <<k>>) \o t2
  <2>1. SubSeq(t, 1, i) = t1 \o <<k>>
    BY <1>0, SubSeqRecursiveSecond
  <2>2. SubSeq(t, 1, i) \o SubSeq(t, i + 1, Len(t)) = SubSeq(t, 1, Len(t))
    BY <1>0, ConcatAdjacentSubSeq
  <2>3. SubSeq(t, 1, Len(t)) = t
    BY SubSeqFull
  <2> QED BY <2>1, <2>2, <2>3
<1>3. ToSet(<<k>>) = {k}
  BY DEF ToSet
<1> HIDE DEF t1, t2, k
<1>4. t1 \o <<k>> \in Seq(Keys) /\ t1 \o t2 \in Seq(Keys)
  BY <1>0, <1>1, ConcatProperties
<1>5. /\ PageBytes(t) = PageBytes(t1 \o <<k>>) + PageBytes(t2)
      /\ PageBytes(t1 \o <<k>>) = PageBytes(t1) + PageBytes(<<k>>)
      /\ PageBytes(t1 \o t2) = PageBytes(t1) + PageBytes(t2)
  BY <1>0, <1>1, <1>2, <1>4, PageBytesConcat
<1>6. /\ PageBytes(t1) \in Nat /\ PageBytes(t2) \in Nat /\ PageBytes(<<k>>) \in Nat
  BY <1>0, <1>1, PageBytesType
<1>7. /\ ToSet(t) = ToSet(t1 \o <<k>>) \cup ToSet(t2)
      /\ ToSet(t1 \o <<k>>) = ToSet(t1) \cup {k}
      /\ ToSet(t1 \o t2) = ToSet(t1) \cup ToSet(t2)
  <2>1. ToSet(t1 \o <<k>>) = ToSet(t1) \cup ToSet(<<k>>)
    BY <1>0, <1>1, ToSetConcat
  <2>2. ToSet((t1 \o <<k>>) \o t2) = ToSet(t1 \o <<k>>) \cup ToSet(t2)
    BY <1>1, <1>4, ToSetConcat
  <2>3. ToSet(t1 \o t2) = ToSet(t1) \cup ToSet(t2)
    BY <1>1, ToSetConcat
  <2> QED BY <2>1, <2>2, <2>3, <1>2, <1>3
<1>8. PageBytes(t) = PageBytes(t1 \o t2) + PageBytes(<<k>>)
  BY <1>5, <1>6
<1> QED BY <1>4, <1>7, <1>8 DEF k

\* A listing without repetitions has no more bytes than one that has all its records.
LEMMA BytesOfSome ==
    ASSUME NEW s \in Seq(Keys), NEW t \in Seq(Keys), IsInjective(s), ToSet(s) \subseteq ToSet(t)
    PROVE  PageBytes(s) <= PageBytes(t)
<1> DEFINE Below(n) ==
               \A u, v \in Seq(Keys) :
                   Len(u) = n /\ IsInjective(u) /\ ToSet(u) \subseteq ToSet(v)
                   => PageBytes(u) <= PageBytes(v)
           T == {n \in Nat : Below(n)}
<1>1. 0 \in T
  <2>1. ASSUME NEW u \in Seq(Keys), NEW v \in Seq(Keys), Len(u) = 0
        PROVE  PageBytes(u) <= PageBytes(v)
    <3>1. u = <<>>
      BY <2>1, EmptySeq
    <3> QED BY <3>1, PageBytesEmpty, PageBytesType
  <2> QED BY <2>1
<1>2. ASSUME NEW n \in T PROVE n + 1 \in T
  <2>1. n \in Nat /\ Below(n)
    OBVIOUS
  <2>2. ASSUME NEW u \in Seq(Keys), NEW v \in Seq(Keys),
               Len(u) = n + 1, IsInjective(u), ToSet(u) \subseteq ToSet(v)
        PROVE  PageBytes(u) <= PageBytes(v)
    <3> DEFINE w == SubSeq(u, 1, n)
               k == u[n + 1]
    <3>0. DOMAIN u = 1..n + 1 /\ DOMAIN v = 1..Len(v) /\ \A j \in 1..n + 1 : u[j] \in Keys
      BY <2>2, LenProperties, ElementOfSeq
    <3>1. /\ w \in Seq(Keys) /\ Len(w) = n
          /\ \A j \in 1..n : w[j] = u[j]
      BY <2>1, <3>0, SubSeqProperties
    <3>2. u = w \o <<k>>
      <4>1. SubSeq(u, 1, n + 1) = SubSeq(u, 1, (n + 1) - 1) \o <<u[n + 1]>>
        BY <2>1, <2>2, SubSeqRecursiveSecond
      <4>2. SubSeq(u, 1, n + 1) = u /\ (n + 1) - 1 = n
        BY <2>1, <2>2, SubSeqFull
      <4> QED BY <4>1, <4>2
    <3>3. DOMAIN w = 1..n
      BY <3>1, LenProperties
    <3>4. k \in Keys /\ <<k>> \in Seq(Keys) /\ k \in ToSet(u)
      BY <2>1, <3>0 DEF ToSet
    <3> HIDE DEF w
    <3>5. IsInjective(w)
      BY <2>1, <2>2, <3>0, <3>1, <3>3 DEF IsInjective
    <3>6. ToSet(w) \subseteq ToSet(u) \ {k}
      BY <2>1, <2>2, <3>0, <3>1, <3>3 DEF IsInjective, ToSet
    <3>7. PICK i \in 1..Len(v) : v[i] = k
      BY <2>2, <3>0, <3>4 DEF ToSet
    <3> HIDE DEF k
    <3>8. PICK rest \in Seq(Keys) : /\ PageBytes(v) = PageBytes(rest) + PageBytes(<<k>>)
                                    /\ ToSet(v) \subseteq ToSet(rest) \cup {k}
      BY <3>7, RemovedRecord
    <3>9. ToSet(w) \subseteq ToSet(rest)
      BY <2>2, <3>6, <3>8
    <3>10. PageBytes(w) <= PageBytes(rest)
      BY <2>1, <3>1, <3>5, <3>9
    <3>11. PageBytes(u) = PageBytes(w) + PageBytes(<<k>>)
      BY <3>1, <3>2, <3>4, PageBytesConcat
    <3>12. PageBytes(w) \in Nat /\ PageBytes(rest) \in Nat /\ PageBytes(<<k>>) \in Nat
      BY <3>1, <3>4, PageBytesType
    <3> QED BY <3>8, <3>10, <3>11, <3>12
  <2> QED BY <2>1, <2>2
<1>3. T = Nat
  <2>1. T \subseteq Nat
    OBVIOUS
  <2> HIDE DEF T
  <2> QED BY <2>1, <1>1, <1>2, SetInduction
<1>4. Len(s) \in T
  BY <1>3, LenProperties
<1> QED BY <1>4

\* A listing without repetitions is no longer than the set of its records.
LEMMA LengthOfSome ==
    ASSUME NEW S, IsFiniteSet(S), NEW s \in Seq(Keys), IsInjective(s), ToSet(s) \subseteq S
    PROVE  Len(s) <= Cardinality(S) /\ Cardinality(S) \in Nat
<1>1. DOMAIN s = 1..Len(s) /\ Len(s) \in Nat /\ s \in [1..Len(s) -> Keys]
  BY LenProperties
<1>2. s \in Injection(1..Len(s), S)
  BY <1>1 DEF Injection, ToSet
<1>3. Cardinality(1..Len(s)) = Len(s)
  BY <1>1, FS_Interval
<1> QED BY <1>2, <1>3, FS_Injection, FS_CardinalityType

\* A finite set of keys can be put in a sequence.
LEMMA SequenceOfSet ==
    ASSUME NEW S, S \subseteq Keys, IsFiniteSet(S)
    PROVE  SetToSeq(S) \in Seq(Keys) /\ ToSet(SetToSeq(S)) = S
<1> DEFINE n == Cardinality(S)
<1>1. n \in Nat /\ ExistsBijection(1..n, S)
  BY FS_CardinalityType
<1>2. \E f \in [1..n -> S] : IsInjective(f)
  BY <1>1 DEF ExistsBijection, Bijection, Injection
<1>3. SetToSeq(S) \in [1..n -> S] /\ IsInjective(SetToSeq(S))
  BY <1>2 DEF SetToSeq
<1> HIDE DEF n
<1>4. SetToSeq(S) \in Injection(1..n, S)
  BY <1>3 DEF Injection
<1>5. Cardinality(1..n) = n
  BY <1>1, FS_Interval
<1>6. SetToSeq(S) \in Surjection(1..n, S)
  BY <1>4, <1>5, FS_Injection DEF n
<1>7. SetToSeq(S) \in Seq(Keys)
  BY <1>1, <1>3
<1>8. DOMAIN SetToSeq(S) = 1..n
  BY <1>3
<1>9. ToSet(SetToSeq(S)) = S
  BY <1>3, <1>6, <1>8 DEF Surjection, ToSet
<1> QED BY <1>7, <1>9

\* Whoever holds parts of a repository, each record once, and passes a limit, was given
\* a repository beyond it.
LEMMA LimitIsPassed ==
    ASSUME NEW S, S \subseteq Keys, IsFiniteSet(S),
           NEW s \in Seq(Keys), Descending(s), ToSet(s) \subseteq S,
           PageBytes(s) > MaxBytes \/ Len(s) > MaxRecords
    PROVE  Cardinality(S) > MaxRecords \/ PageBytes(SetToSeq(S)) > MaxBytes
<1>1. IsInjective(s)
  BY DescendingIsInjective
<1>2. CASE PageBytes(s) > MaxBytes
  <2>1. SetToSeq(S) \in Seq(Keys) /\ ToSet(SetToSeq(S)) = S
    BY SequenceOfSet
  <2>2. PageBytes(s) <= PageBytes(SetToSeq(S))
    BY <1>1, <2>1, BytesOfSome
  <2>3. PageBytes(s) \in Nat /\ PageBytes(SetToSeq(S)) \in Nat
    BY <2>1, PageBytesType
  <2> QED BY <1>2, <2>2, <2>3, ListAssumption
<1>3. CASE Len(s) > MaxRecords
  <2>1. Len(s) <= Cardinality(S) /\ Cardinality(S) \in Nat
    BY <1>1, LengthOfSome
  <2>2. Len(s) \in Nat
    BY LenProperties
  <2> QED BY <1>3, <2>1, <2>2, ListAssumption
<1> QED BY <1>2, <1>3

-----------------------------------------------------------------------------
(* The inductive invariant *)

\* What is counted is what is held, and within the limits.
CountedInv ==
    /\ totalRecords = Len(all)
    /\ totalBytes = PageBytes(all)
    /\ fetched = totalPages \/ (result # "none" /\ fetched = totalPages + 1)

\* What an honest PDS sent is in order, is of the repository, and is all that was there
\* throughout down to the cursor.
SentInv ==
    honest =>
        /\ Descending(all)
        /\ ToSet(all) \subseteq repo \cup past
        /\ result # "stalled"

DownToCursorInv ==
    honest /\ result = "none" =>
        /\ cursor = NoCursor => all = <<>>
        /\ cursor # NoCursor =>
               /\ \A k \in ToSet(all) : k >= cursor
               /\ \A k \in steady : k >= cursor => k \in ToSet(all)

DoneInv == honest /\ result = "done" => steady \subseteq ToSet(all)

FiniteInv == IsFiniteSet(repo) /\ IsFiniteSet(past)

IndInv ==
    /\ TypeOK /\ CountedInv /\ FiniteInv
    /\ SentInv /\ DownToCursorInv /\ DoneInv
    /\ RefusalJustified

LEMMA InitIndInv == Init => IndInv
<1>1. SUFFICES ASSUME Init PROVE IndInv
  OBVIOUS
<1>2. all = <<>> /\ all \in Seq(Keys) /\ Len(all) = 0 /\ DOMAIN all = {} /\ ToSet(all) = {}
  BY <1>1, EmptySeq DEF Init, ToSet
<1>3. TypeOK
  BY <1>1, <1>2, ListAssumption DEF Init, TypeOK
<1>4. CountedInv
  BY <1>1, <1>2, PageBytesEmpty DEF Init, CountedInv
<1>5. SentInv /\ DownToCursorInv /\ DoneInv
  BY <1>1, <1>2 DEF Init, SentInv, DownToCursorInv, DoneInv, Descending
<1>6. FiniteInv /\ RefusalJustified
  BY <1>1, ListAssumption, FS_EmptySet DEF Init, FiniteInv, RefusalJustified
<1> QED BY <1>3, <1>4, <1>5, <1>6 DEF IndInv

\* Any page keeps the types, the counts and the limits.
LEMMA FetchCounted ==
    ASSUME TypeOK, CountedInv, NEW page \in Seq(Keys), NEW next \in Keys \cup {NoCursor},
           Fetch(page, next)
    PROVE  TypeOK' /\ CountedInv'
<1>1. /\ PageBytes(page) \in Nat
      /\ Len(page) \in Nat
      /\ all \o page \in Seq(Keys)
      /\ Len(all \o page) = Len(all) + Len(page)
      /\ PageBytes(all \o page) = PageBytes(all) + PageBytes(page)
      /\ PageBytes(all) \in Nat /\ Len(all) \in Nat
  BY PageBytesType, PageBytesConcat, LenProperties, ConcatProperties DEF TypeOK
<1>2. CASE LimitExceeded(page)
  BY <1>2 DEF Fetch, TypeOK, CountedInv, repoVars
<1>3. CASE ~LimitExceeded(page)
  <2>1. /\ all' = all \o page
        /\ totalPages' = totalPages + 1
        /\ totalRecords' = totalRecords + Len(page)
        /\ totalBytes' = totalBytes + PageBytes(page)
        /\ fetched' = fetched + 1
        /\ cursor' \in {cursor, next}
        /\ result' \in {"none", "done", "stalled"}
        /\ result = "none"
        /\ UNCHANGED <<honest, repo, past, steady>>
    BY <1>3 DEF Fetch, repoVars
  <2>2. /\ totalPages + 1 \in 0..MaxPages
        /\ totalRecords + Len(page) \in 0..MaxRecords
        /\ totalBytes + PageBytes(page) \in 0..MaxBytes
    BY <1>1, <1>3, ListAssumption DEF LimitExceeded, TypeOK
  <2>3. TypeOK'
    BY <1>1, <2>1, <2>2 DEF TypeOK
  <2>4. CountedInv'
    BY <1>1, <2>1 DEF CountedInv, TypeOK
  <2> QED BY <2>3, <2>4
<1> QED BY <1>2, <1>3

\* A page of an honest PDS is of records below all that were sent before.
LEMMA HonestPage ==
    ASSUME IndInv, honest, result = "none", NEW page \in Pages, Descending(page)
    PROVE  /\ page \in Seq(Keys)
           /\ ToSet(page) \subseteq Rest
           /\ \A x \in ToSet(all), y \in ToSet(page) : x > y
           /\ Descending(all \o page)
           /\ ToSet(all \o page) = ToSet(all) \cup ToSet(page)
<1>1. PICK n \in 0..PageLimit : page \in [1..n -> Rest]
  BY DEF Pages
<1>2. Rest \subseteq Keys
  BY DEF Rest, IndInv, TypeOK
<1>3. n \in Nat
  BY <1>1, ListAssumption
<1>4. page \in Seq(Keys)
  BY <1>1, <1>2, <1>3
<1>5. ToSet(page) \subseteq Rest
  BY <1>1 DEF ToSet
<1>6. all \in Seq(Keys) /\ Descending(all)
  BY DEF IndInv, TypeOK, SentInv
<1>7. ASSUME NEW x \in ToSet(all), NEW y \in ToSet(page) PROVE x > y
  <2>1. DOMAIN all = 1..Len(all) /\ x \in Keys
    BY <1>6, ElementOfSeq, LenProperties DEF ToSet
  <2>2. cursor # NoCursor
    <3>1. SUFFICES ASSUME cursor = NoCursor PROVE FALSE
      OBVIOUS
    <3>2. all = <<>>
      BY <3>1 DEF IndInv, DownToCursorInv
    <3> QED BY <3>2 DEF ToSet
  <2>3. x >= cursor /\ y < cursor /\ y \in Keys
    BY <1>2, <1>5, <2>2 DEF Rest, IndInv, DownToCursorInv
  <2>4. x \in Nat /\ y \in Nat /\ cursor \in Nat
    BY <2>1, <2>2, <2>3, ListAssumption DEF IndInv, TypeOK
  <2> QED BY <2>3, <2>4
<1> QED BY <1>4, <1>5, <1>6, <1>7, DescendingConcat, ToSetConcat

LEMMA HonestFetchSent ==
    ASSUME IndInv, HonestFetch
    PROVE  IndInv'
<1>1. honest /\ result = "none"
  BY DEF HonestFetch, Fetch
<1>2. PICK page \in Pages :
          /\ Descending(page)
          /\ \A k \in ToSet(page), other \in Rest \ ToSet(page) : k > other
          /\ \/ page # <<>> /\ Fetch(page, page[Len(page)])
             \/ Rest \ ToSet(page) = {} /\ Fetch(page, NoCursor)
  BY DEF HonestFetch, Descending
<1> DEFINE next == IF page # <<>> /\ Fetch(page, page[Len(page)]) THEN page[Len(page)] ELSE NoCursor
<1>3. /\ page \in Seq(Keys)
      /\ ToSet(page) \subseteq Rest
      /\ Descending(all \o page)
      /\ ToSet(all \o page) = ToSet(all) \cup ToSet(page)
  BY <1>1, <1>2, HonestPage
<1>4. Rest \subseteq repo /\ repo \subseteq Keys /\ Keys \subseteq Nat \ {NoCursor}
  BY ListAssumption DEF Rest, IndInv, TypeOK
<1>5. /\ Fetch(page, next)
      /\ \/ next = NoCursor /\ Rest \subseteq ToSet(page)
         \/ page # <<>> /\ next = page[Len(page)]
  BY <1>2
<1>6. ASSUME page # <<>>, next = page[Len(page)]
      PROVE  next \in ToSet(page) /\ next \in Keys /\ \A k \in ToSet(page) : k >= next
  <2>1. Len(page) \in Nat \ {0} /\ DOMAIN page = 1..Len(page)
    BY <1>3, <1>6, LenProperties, EmptySeq
  <2>2. \A i \in DOMAIN page : page[i] \in Keys
    BY <1>3, <2>1, ElementOfSeq
  <2>3. ASSUME NEW i \in DOMAIN page PROVE page[i] >= page[Len(page)]
    <3>1. i = Len(page) \/ i < Len(page)
      BY <2>1
    <3>2. page[i] \in Keys /\ page[Len(page)] \in Keys
      BY <2>1, <2>2
    <3>3. page[i] \in Nat /\ page[Len(page)] \in Nat
      BY <3>2, <1>4
    <3> QED BY <1>2, <2>1, <3>1, <3>3 DEF Descending
  <2> QED BY <1>6, <2>1, <2>2, <2>3 DEF ToSet
<1>7. next \in Keys \cup {NoCursor}
  BY <1>5, <1>6
<1> HIDE DEF next
<1>8. TypeOK' /\ CountedInv'
  BY <1>3, <1>5, <1>7, FetchCounted DEF IndInv
<1>9. UNCHANGED <<honest, repo, past, steady>>
  BY <1>5 DEF Fetch, repoVars
<1>10. FiniteInv'
  BY <1>9 DEF IndInv, FiniteInv
<1>11. CASE LimitExceeded(page)
  <2>1. result' = "limit" /\ all' = all /\ fetched' = fetched + 1
    BY <1>5, <1>11 DEF Fetch
  <2>2. SentInv' /\ DownToCursorInv' /\ DoneInv'
    BY <2>1, <1>1, <1>9 DEF IndInv, SentInv, DownToCursorInv, DoneInv
  <2>3. RefusalJustified'
    <3> DEFINE S == repo \cup past
    <3>1. S \subseteq Keys /\ IsFiniteSet(S)
      BY FS_Union DEF IndInv, TypeOK, FiniteInv
    <3>2. ToSet(all \o page) \subseteq S
      BY <1>1, <1>3, <1>4 DEF IndInv, SentInv
    <3>3. /\ all \o page \in Seq(Keys)
          /\ Len(all \o page) = totalRecords + Len(page)
          /\ PageBytes(all \o page) = totalBytes + PageBytes(page)
      BY <1>3, ConcatProperties, PageBytesConcat DEF IndInv, TypeOK, CountedInv
    <3> HIDE DEF S
    <3>4. CASE totalPages + 1 > MaxPages
      <4>1. fetched' > MaxPages
        BY <1>1, <2>1, <3>4 DEF IndInv, CountedInv
      <4> QED BY <2>1, <4>1 DEF RefusalJustified
    <3>5. CASE ~(totalPages + 1 > MaxPages)
      <4>1. PageBytes(all \o page) > MaxBytes \/ Len(all \o page) > MaxRecords
        BY <1>11, <3>3, <3>5 DEF LimitExceeded
      <4>2. Cardinality(S) > MaxRecords \/ PageBytes(SetToSeq(S)) > MaxBytes
        BY <1>3, <3>1, <3>2, <3>3, <4>1, LimitIsPassed
      <4>3. repo' \cup past' = S
        BY <1>9 DEF S
      <4> QED BY <2>1, <4>2, <4>3 DEF RefusalJustified
    <3> QED BY <3>4, <3>5
  <2> QED BY <1>8, <1>10, <2>2, <2>3 DEF IndInv
<1>12. CASE ~LimitExceeded(page)
  <2>1. all' = all \o page
    BY <1>5, <1>12 DEF Fetch
  <2>2. steady \subseteq repo
    BY DEF IndInv, TypeOK
  <2>3. ASSUME NEW k \in steady, k \in ToSet(page) \/ k \notin Rest
        PROVE  k \in ToSet(all')
    <3>1. CASE k \in ToSet(page)
      BY <1>3, <2>1, <3>1
    <3>2. CASE k \notin Rest
      <4>1. cursor # NoCursor /\ ~(k < cursor)
        BY <2>2, <3>2 DEF Rest
      <4>2. k >= cursor
        BY <4>1, <2>2, <1>4 DEF IndInv, TypeOK
      <4> QED BY <1>1, <1>3, <2>1, <4>1, <4>2 DEF IndInv, DownToCursorInv
    <3> QED BY <2>3, <3>1, <3>2
  <2>4. Descending(all') /\ ToSet(all') \subseteq repo' \cup past'
    BY <1>1, <1>3, <1>4, <1>9, <2>1 DEF IndInv, SentInv
  <2>5. CASE next = NoCursor /\ Rest \subseteq ToSet(page)
    <3>1. result' = "done"
      BY <1>5, <1>12, <2>5 DEF Fetch, LastPage
    <3>2. \A k \in steady : k \in ToSet(all')
      BY <2>3, <2>5
    <3>3. SentInv' /\ DownToCursorInv' /\ DoneInv'
      BY <3>1, <3>2, <2>4, <1>9 DEF SentInv, DownToCursorInv, DoneInv
    <3>4. RefusalJustified'
      BY <3>1 DEF RefusalJustified
    <3> QED BY <1>8, <1>10, <3>3, <3>4 DEF IndInv
  <2>6. CASE page # <<>> /\ next = page[Len(page)]
    <3>1. next \in ToSet(page) /\ next \in Keys /\ \A k \in ToSet(page) : k >= next
      BY <1>6, <2>6
    <3>2. next # NoCursor /\ next # cursor
      BY <3>1, <1>3, <1>4 DEF Rest
    <3>3. cursor' = next /\ result' = "none"
      BY <1>1, <1>5, <1>12, <3>2 DEF Fetch, LastPage, Stalled
    <3>4. ASSUME NEW k \in steady, k >= next PROVE k \in ToSet(all')
      <4>1. SUFFICES ASSUME k \in Rest, k \notin ToSet(page) PROVE FALSE
        BY <2>3
      <4>2. next > k
        BY <1>2, <3>1, <4>1
      <4> QED BY <4>2, <3>1, <3>4, <1>4, <2>2
    <3>5. ASSUME NEW k \in ToSet(all') PROVE k >= next
      <4>1. CASE k \in ToSet(page)
        BY <4>1, <3>1
      <4>2. CASE k \in ToSet(all)
        <5>1. k > next
          BY <1>1, <1>2, <3>1, <4>2, HonestPage
        <5>2. k \in Nat
          BY <4>2, <1>1, <1>4, ListAssumption DEF IndInv, SentInv, TypeOK
        <5> QED BY <5>1, <5>2, <3>1, <1>4
      <4> QED BY <1>3, <2>1, <4>1, <4>2
    <3>6. SentInv' /\ DownToCursorInv' /\ DoneInv'
      BY <3>2, <3>3, <3>4, <3>5, <2>4, <1>9 DEF SentInv, DownToCursorInv, DoneInv
    <3>7. RefusalJustified'
      BY <3>3 DEF RefusalJustified
    <3> QED BY <1>8, <1>10, <3>6, <3>7 DEF IndInv
  <2> QED BY <1>5, <2>5, <2>6
<1> QED BY <1>11, <1>12

LEMMA NextIndInv == IndInv /\ [Next]_vars => IndInv'
<1>1. SUFFICES ASSUME IndInv, [Next]_vars PROVE IndInv'
  OBVIOUS
<1>2. CASE FetchFails
  BY <1>1, <1>2 DEF FetchFails, repoVars, IndInv, TypeOK, CountedInv, FiniteInv, SentInv,
                    DownToCursorInv, DoneInv, RefusalJustified
<1>3. CASE HonestFetch
  BY <1>1, <1>3, HonestFetchSent
<1>4. CASE ArbitraryFetch
  <2>1. PICK page \in ArbitraryPages, next \in Keys \cup {NoCursor} : Fetch(page, next)
    BY <1>4 DEF ArbitraryFetch
  <2>2. page \in Seq(Keys)
    BY ListAssumption
  <2>3. TypeOK' /\ CountedInv'
    BY <1>1, <2>1, <2>2, FetchCounted DEF IndInv
  <2>4. ~honest' /\ repo' = repo /\ past' = past
    BY <1>4, <2>1 DEF ArbitraryFetch, Fetch, repoVars
  <2>5. FiniteInv'
    BY <1>1, <2>4 DEF IndInv, FiniteInv
  <2> QED BY <2>3, <2>4, <2>5 DEF IndInv, SentInv, DownToCursorInv, DoneInv, RefusalJustified
<1>5. CASE result = "none" /\ OwnerDeletes
  <2>1. PICK k \in repo : /\ repo' = repo \ {k} /\ past' = past \cup {k} /\ steady' = steady \ {k}
                          /\ UNCHANGED <<honest, clientVars>>
    BY <1>5 DEF OwnerDeletes
  <2>2. TypeOK'
    BY <1>1, <2>1 DEF IndInv, TypeOK, clientVars
  <2>3. CountedInv' /\ SentInv' /\ DownToCursorInv' /\ DoneInv'
    BY <1>1, <2>1 DEF IndInv, CountedInv, SentInv, DownToCursorInv, DoneInv, clientVars
  <2>4. FiniteInv'
    BY <1>1, <2>1, FS_AddElement, FS_RemoveElement DEF IndInv, FiniteInv
  <2>5. RefusalJustified'
    BY <1>1, <1>5, <2>1 DEF RefusalJustified, clientVars
  <2> QED BY <2>2, <2>3, <2>4, <2>5 DEF IndInv
<1>6. CASE result = "none" /\ OwnerPosts
  <2>1. PICK k \in Keys : /\ \A other \in repo \cup past : k > other
                          /\ repo' = repo \cup {k}
                          /\ UNCHANGED <<honest, past, steady, clientVars>>
    BY <1>6 DEF OwnerPosts
  <2>2. k \notin past
    BY <2>1, ListAssumption
  <2>3. TypeOK'
    BY <1>1, <2>1, <2>2 DEF IndInv, TypeOK, clientVars
  <2>4. CountedInv' /\ SentInv' /\ DownToCursorInv' /\ DoneInv'
    BY <1>1, <2>1 DEF IndInv, CountedInv, SentInv, DownToCursorInv, DoneInv, clientVars
  <2>5. FiniteInv'
    BY <1>1, <2>1, FS_AddElement DEF IndInv, FiniteInv
  <2>6. RefusalJustified'
    BY <1>1, <1>6, <2>1 DEF RefusalJustified, clientVars
  <2> QED BY <2>3, <2>4, <2>5, <2>6 DEF IndInv
<1>7. CASE UNCHANGED vars
  BY <1>1, <1>7 DEF vars, clientVars, repoVars, IndInv, TypeOK, CountedInv, FiniteInv, SentInv,
                    DownToCursorInv, DoneInv, RefusalJustified
<1> QED BY <1>1, <1>2, <1>3, <1>4, <1>5, <1>6, <1>7 DEF Next, Ended

-----------------------------------------------------------------------------
(* The theorems *)

\* The listing keeps IndInv.
THEOREM Invariance == Spec => []IndInv
BY InitIndInv, NextIndInv, PTL DEF Spec

\* Every variable keeps its type, whatever the PDS answers; with it the counters never
\* pass their limits (listAllRecordsWithLimits).
THEOREM TypeCorrect == Spec => []TypeOK
<1>1. IndInv => TypeOK
  BY DEF IndInv
<1> QED BY <1>1, Invariance, PTL

\* However a PDS repeats cursors and sends pages of any size, what is held stays within
\* the limits and one page beyond them is fetched at most.
THEOREM ListingIsBounded == Spec => []WithinLimits
<1>1. IndInv => WithinLimits
  BY ListAssumption DEF IndInv, TypeOK, CountedInv, WithinLimits
<1> QED BY <1>1, Invariance, PTL

\* A listing of an honest PDS that succeeds has every record that existed throughout,
\* none of them twice, for repositories and pages of any size.
THEOREM ListingIsComplete == Spec => []ListingComplete
<1>1. IndInv => ListingComplete
  BY DescendingIsInjective DEF IndInv, TypeOK, SentInv, DoneInv, ListingComplete
<1> QED BY <1>1, Invariance, PTL

\* An honest PDS is never taken to stall, and is refused for a limit only when its
\* collection has had more records or bytes than that, or more pages were fetched.
THEOREM RefusalsAreJustified == Spec => []RefusalJustified
<1>1. IndInv => RefusalJustified
  BY DEF IndInv
<1> QED BY <1>1, Invariance, PTL

=============================================================================
