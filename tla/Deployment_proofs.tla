-------------------------- MODULE Deployment_proofs --------------------------
(***************************************************************************)
(* What Deployment promises, for every file, environment and numeral.      *)
(*                                                                         *)
(* The first half is about the operators: validateSchedule accepts every   *)
(* item that the documents list and none that is not readable, and what    *)
(* loads is in range.  The second is the invariant of the container.       *)
(***************************************************************************)
EXTENDS Deployment, SequenceTheorems, FiniteSetTheorems, TLAPS

-----------------------------------------------------------------------------
(* Cutting a sequence of tokens *)

LEMMA LeastElement ==
    ASSUME NEW T \in SUBSET Nat, T # {}
    PROVE  \E x \in T : \A y \in T : x <= y
<1> DEFINE Less == OpToRel(<, Nat)
<1>1. IsWellFoundedOn(Less, Nat)
  BY NatLessThanWellFounded
<1>2. \A x, y \in Nat : y < x => <<y, x>> \in Less
  BY DEF OpToRel
<1> HIDE DEF Less
<1>3. PICK x \in T : \A y \in T : ~(<<y, x>> \in Less)
  BY <1>1, WFMin
<1>4. \A y \in T : ~(y < x)
  BY <1>2, <1>3
<1> QED BY <1>4

LEMMA HasConcat ==
    ASSUME NEW S, NEW a \in Seq(S), NEW b \in Seq(S), NEW token
    PROVE  Has(a \o b, token) <=> Has(a, token) \/ Has(b, token)
<1> DEFINE ab == a \o b
<1>0. /\ Len(a) \in Nat /\ Len(b) \in Nat
      /\ DOMAIN a = 1..Len(a) /\ DOMAIN b = 1..Len(b) /\ DOMAIN ab = 1..Len(a) + Len(b)
      /\ \A i \in 1..Len(a) : ab[i] = a[i]
      /\ \A i \in 1..Len(b) : ab[Len(a) + i] = b[i]
  BY LenProperties, ConcatProperties
<1> HIDE DEF ab
<1>1. ASSUME NEW i \in DOMAIN ab, ab[i] = token PROVE Has(a, token) \/ Has(b, token)
  <2>1. CASE i <= Len(a)
    BY <1>0, <1>1, <2>1 DEF Has
  <2>2. CASE i > Len(a)
    <3>1. i \in 1..Len(a) + Len(b) /\ Len(a) \in Nat /\ Len(b) \in Nat
      BY <1>0
    <3>2. i - Len(a) \in 1..Len(b) /\ i = Len(a) + (i - Len(a))
      BY <3>1, <2>2
    <3> QED BY <1>0, <1>1, <3>2 DEF Has
  <2> QED BY <1>0, <2>1, <2>2
<1>2. ASSUME NEW i \in DOMAIN a, a[i] = token PROVE Has(ab, token)
  BY <1>0, <1>2 DEF Has
<1>3. ASSUME NEW i \in DOMAIN b, b[i] = token PROVE Has(ab, token)
  <2>1. Len(a) + i \in DOMAIN ab /\ ab[Len(a) + i] = token
    BY <1>0, <1>3
  <2> QED BY <2>1 DEF Has
<1>4. Has(ab, token) <=> Has(a, token) \/ Has(b, token)
  BY <1>1, <1>2, <1>3 DEF Has
<1> QED BY <1>4 DEF ab

\* The place where Cut cuts is the only first occurrence.
LEMMA CutAt ==
    ASSUME NEW S, NEW s \in Seq(S), NEW token, NEW i \in DOMAIN s,
           s[i] = token, \A j \in 1..i - 1 : s[j] # token
    PROVE  Cut(s, token) = [before |-> SubSeq(s, 1, i - 1), after |-> SubSeq(s, i + 1, Len(s))]
<1> DEFINE First(n) == s[n] = token /\ \A j \in 1..n - 1 : s[j] # token
           c == CHOOSE n \in DOMAIN s : First(n)
<1>1. DOMAIN s = 1..Len(s) /\ Len(s) \in Nat
  BY LenProperties
<1>2. c \in DOMAIN s /\ First(c)
  <2>1. First(i)
    OBVIOUS
  <2> HIDE DEF First
  <2> QED BY <2>1
<1>3. Cut(s, token) = [before |-> SubSeq(s, 1, c - 1), after |-> SubSeq(s, c + 1, Len(s))]
  BY DEF Cut
<1> HIDE DEF c
<1>4. c = i
  <2>1. c \in Int /\ i \in Int /\ c >= 1 /\ i >= 1
    BY <1>1, <1>2
  <2>2. ~(c < i) /\ ~(i < c)
    BY <1>2, <2>1
  <2> QED BY <2>1, <2>2
<1> QED BY <1>3, <1>4

\* A sequence is what is before the token, the token, and what is after it.
LEMMA CutParts ==
    ASSUME NEW S, NEW s \in Seq(S), NEW token \in S, Has(s, token)
    PROVE  /\ Cut(s, token).before \in Seq(S)
           /\ Cut(s, token).after \in Seq(S)
           /\ ~Has(Cut(s, token).before, token)
           /\ s = (Cut(s, token).before \o <<token>>) \o Cut(s, token).after
<1>1. DOMAIN s = 1..Len(s) /\ Len(s) \in Nat
  BY LenProperties
<1> DEFINE T == {i \in DOMAIN s : s[i] = token}
<1>2. PICK i \in T : \A y \in T : i <= y
  <2>1. T \subseteq DOMAIN s /\ DOMAIN s \subseteq Nat
    BY <1>1
  <2>2. T # {}
    BY DEF Has
  <2> HIDE DEF T
  <2> QED BY <2>1, <2>2, LeastElement
<1>3. i \in 1..Len(s) /\ s[i] = token /\ \A j \in 1..i - 1 : s[j] # token
  <2>1. i \in 1..Len(s) /\ s[i] = token
    BY <1>1, <1>2
  <2>2. ASSUME NEW j \in 1..i - 1, s[j] = token PROVE FALSE
    <3>1. j \in DOMAIN s /\ ~(i <= j)
      BY <1>1, <2>1
    <3> QED BY <1>2, <2>2, <3>1
  <2> QED BY <2>1, <2>2
<1>4. Cut(s, token) = [before |-> SubSeq(s, 1, i - 1), after |-> SubSeq(s, i + 1, Len(s))]
  BY <1>1, <1>3, CutAt
<1> DEFINE a == SubSeq(s, 1, i - 1)
           b == SubSeq(s, i + 1, Len(s))
<1>5. /\ a \in Seq(S) /\ b \in Seq(S)
      /\ Len(a) = i - 1
      /\ \A j \in 1..i - 1 : a[j] = s[j]
  <2>1. \A j \in 1..Len(s) : s[j] \in S
    BY ElementOfSeq
  <2>2. (\A j \in 1..i - 1 : s[j] \in S) /\ \A j \in i + 1..Len(s) : s[j] \in S
    BY <2>1, <1>3
  <2> QED BY <1>1, <1>3, <2>2, SubSeqProperties
<1>6. ~Has(a, token)
  <2>1. DOMAIN a = 1..i - 1
    BY <1>5, LenProperties
  <2> HIDE DEF a
  <2> QED BY <1>3, <1>5, <2>1 DEF Has
<1>7. s = (a \o <<token>>) \o b
  <2>0. 1 \in 1..Len(s) /\ i \in 1..Len(s) /\ i - 1 \in Int
    BY <1>1, <1>3
  <2>1. SubSeq(s, 1, i) = a \o <<s[i]>>
    BY <2>0, SubSeqRecursiveSecond
  <2>2. SubSeq(s, 1, i) \o SubSeq(s, i + 1, Len(s)) = SubSeq(s, 1, Len(s))
    <3>1. 1 \in 1..Len(s) + 1 /\ i \in 1 - 1..Len(s) /\ Len(s) \in i..Len(s)
      BY <1>1, <2>0
    <3> QED BY <3>1, ConcatAdjacentSubSeq
  <2>3. SubSeq(s, 1, Len(s)) = s
    BY SubSeqFull
  <2> QED BY <1>3, <2>1, <2>2, <2>3
<1> HIDE DEF a, b
<1>8. Cut(s, token).before = a /\ Cut(s, token).after = b
  BY <1>4 DEF a, b
<1> QED BY <1>5, <1>6, <1>7, <1>8

\* Cut undoes a concatenation.
LEMMA CutConcat ==
    ASSUME NEW S, NEW a \in Seq(S), NEW b \in Seq(S), NEW token \in S, ~Has(a, token)
    PROVE  /\ Cut((a \o <<token>>) \o b, token) = [before |-> a, after |-> b]
           /\ Has((a \o <<token>>) \o b, token)
           /\ (a \o <<token>>) \o b \in Seq(S)
<1> DEFINE at == a \o <<token>>
           s == at \o b
           i == Len(a) + 1
<1>1. /\ Len(a) \in Nat /\ Len(b) \in Nat
      /\ DOMAIN a = 1..Len(a)
      /\ <<token>> \in Seq(S) /\ Len(<<token>>) = 1 /\ <<token>>[1] = token
  BY LenProperties
<1>2. /\ at \in Seq(S) /\ Len(at) = Len(a) + 1
      /\ at[Len(a) + 1] = token
      /\ \A j \in 1..Len(a) : at[j] = a[j]
  <2>1. /\ at \in Seq(S) /\ Len(at) = Len(a) + 1
        /\ \A j \in 1..Len(a) + 1 : at[j] = IF j <= Len(a) THEN a[j] ELSE <<token>>[j - Len(a)]
    BY <1>1, ConcatProperties
  <2> HIDE DEF at
  <2> QED BY <1>1, <2>1
<1> HIDE DEF at
<1>3. /\ s \in Seq(S) /\ Len(s) = (Len(a) + 1) + Len(b)
      /\ \A j \in 1..Len(a) + 1 : s[j] = at[j]
  <2>1. /\ s \in Seq(S) /\ Len(s) = Len(at) + Len(b)
        /\ \A j \in 1..Len(at) + Len(b) : s[j] = IF j <= Len(at) THEN at[j] ELSE b[j - Len(at)]
    BY <1>2, ConcatProperties
  <2> HIDE DEF s
  <2> QED BY <1>1, <1>2, <2>1
<1>4. DOMAIN s = 1..Len(s)
  BY <1>3, LenProperties
<1> HIDE DEF s
<1>5. i \in DOMAIN s /\ s[i] = token /\ \A j \in 1..i - 1 : s[j] # token
  <2>1. i \in 1..Len(s) /\ i \in 1..Len(a) + 1
    BY <1>1, <1>3
  <2>2. s[i] = token
    BY <1>2, <1>3, <2>1
  <2>3. ASSUME NEW j \in 1..i - 1 PROVE s[j] # token
    <3>1. j \in 1..Len(a) /\ j \in 1..Len(a) + 1
      BY <1>1
    <3>2. s[j] = a[j]
      BY <1>2, <1>3, <3>1
    <3> QED BY <1>1, <3>1, <3>2 DEF Has
  <2> QED BY <1>4, <2>1, <2>2, <2>3
<1>6. Cut(s, token) = [before |-> SubSeq(s, 1, i - 1), after |-> SubSeq(s, i + 1, Len(s))]
  <2> HIDE DEF i
  <2> QED BY <1>3, <1>5, CutAt
<1>7. SubSeq(s, 1, i - 1) = a
  <2>1. SubSeq(s, 1, Len(a)) = SubSeq(at, 1, Len(a))
    BY <1>1, <1>2, SubSeqOfConcat1 DEF s
  <2>2. SubSeq(at, 1, Len(a)) = SubSeq(a, 1, Len(a))
    BY <1>1, SubSeqOfConcat1 DEF at
  <2> QED BY <1>1, <2>1, <2>2, SubSeqFull
<1>8. SubSeq(s, i + 1, Len(s)) = b
  <2>1. SubSeq(s, i + 1, Len(s)) = SubSeq(b, (i + 1) - Len(at), Len(s) - Len(at))
    BY <1>1, <1>2, <1>3, SubSeqOfConcat2 DEF s
  <2>2. (i + 1) - Len(at) = 1 /\ Len(s) - Len(at) = Len(b)
    BY <1>1, <1>2, <1>3
  <2> QED BY <2>1, <2>2, SubSeqFull
<1>9. Has(s, token)
  BY <1>5 DEF Has
<1> QED BY <1>3, <1>6, <1>7, <1>8, <1>9 DEF s, at

-----------------------------------------------------------------------------
(* The numbers of a schedule *)

Tokens == STRING \cup {"*", "/", "-", "+"}

LEMMA HasShort ==
    ASSUME NEW t, NEW u, NEW token
    PROVE  /\ ~Has(<<>>, token)
           /\ Has(<<t>>, token) <=> t = token
           /\ Has(<<t, u>>, token) <=> t = token \/ u = token
BY DEF Has

LEMMA ShortInSeq ==
    ASSUME NEW S, NEW t \in S, NEW u \in S
    PROVE  /\ <<t>> \in Seq(S) /\ <<t>> # <<>>
           /\ <<t, u>> \in Seq(S) /\ <<t, u>> # <<>>
OBVIOUS

LEMMA OperatorTokens == "-" \in Tokens /\ "/" \in Tokens
BY DEF Tokens

\* Cut undoes Join.
LEMMA CutJoin ==
    ASSUME NEW a \in Seq(Tokens), NEW b \in Seq(Tokens), NEW token \in Tokens, ~Has(a, token)
    PROVE  /\ Cut(Join(a, token, b), token).before = a
           /\ Cut(Join(a, token, b), token).after = b
           /\ Has(Join(a, token, b), token)
           /\ Join(a, token, b) \in Seq(Tokens)
<1> DEFINE s == Join(a, token, b)
<1>1. s = (a \o <<token>>) \o b
  BY DEF Join
<1> HIDE DEF s
<1>2. /\ Cut(s, token) = [before |-> a, after |-> b]
      /\ Has(s, token)
      /\ s \in Seq(Tokens)
  BY <1>1, CutConcat
<1> QED BY <1>2 DEF s

LEMMA JoinCut ==
    ASSUME NEW s \in Seq(Tokens), NEW token \in Tokens, Has(s, token)
    PROVE  /\ Cut(s, token).before \in Seq(Tokens)
           /\ Cut(s, token).after \in Seq(Tokens)
           /\ ~Has(Cut(s, token).before, token)
           /\ s = Join(Cut(s, token).before, token, Cut(s, token).after)
BY CutParts DEF Join

LEMMA HasJoin ==
    ASSUME NEW a \in Seq(Tokens), NEW b \in Seq(Tokens), NEW token \in Tokens, NEW other
    PROVE  Has(Join(a, token, b), other) <=> Has(a, other) \/ token = other \/ Has(b, other)
<1>1. <<token>> \in Seq(Tokens) /\ a \o <<token>> \in Seq(Tokens)
  BY ShortInSeq, ConcatProperties
<1>2. Has(a \o <<token>>, other) <=> Has(a, other) \/ token = other
  BY <1>1, HasConcat, HasShort
<1>3. Has((a \o <<token>>) \o b, other) <=> Has(a \o <<token>>, other) \/ Has(b, other)
  BY <1>1, HasConcat
<1> QED BY <1>2, <1>3 DEF Join

LEMMA ShortSequences ==
    ASSUME NEW S, NEW s \in Seq(S)
    PROVE  /\ Len(s) = 1 => s = <<s[1]>> /\ s[1] \in S
           /\ Len(s) = 2 => s = <<s[1], s[2]>> /\ s[1] \in S /\ s[2] \in S
<1>1. DOMAIN s = 1..Len(s) /\ \A i \in 1..Len(s) : s[i] \in S
  BY LenProperties, ElementOfSeq
<1>2. ASSUME Len(s) = 1 PROVE s = <<s[1]>> /\ s[1] \in S
  BY <1>1, <1>2
<1>3. ASSUME Len(s) = 2 PROVE s = <<s[1], s[2]>> /\ s[1] \in S /\ s[2] \in S
  BY <1>1, <1>3
<1> QED BY <1>2, <1>3

LEMMA WrittenIs ==
    ASSUME NEW n, NEW s
    PROVE  s \in Written(n) <=>
               \E t \in DOMAIN Value : \/ n = Value[t] /\ (s = <<t>> \/ s = <<"+", t>>)
                                       \/ n = -Value[t] /\ s = <<"-", t>>
BY DEF Written

LEMMA AtoiIs ==
    ASSUME NEW s \in Seq(Tokens), NEW n
    PROVE  n \in Atoi(s) <=>
               \E t \in DOMAIN Value : \/ n = Value[t] /\ (s = <<t>> \/ s = <<"+", t>>)
                                       \/ n = -Value[t] /\ s = <<"-", t>>
<1>1. CASE Len(s) = 1 /\ s[1] \in DOMAIN Value
  <2>1. Atoi(s) = {Value[s[1]]}
    BY <1>1 DEF Atoi
  <2>2. PICK u \in DOMAIN Value : s = <<u>> /\ Atoi(s) = {Value[u]}
    BY <1>1, <2>1, ShortSequences
  <2>3. \A t : (s = <<t>> <=> t = u) /\ s # <<"+", t>> /\ s # <<"-", t>>
    BY <2>2
  <2> QED BY <2>2, <2>3
<1>2. CASE Len(s) = 2 /\ s[1] = "+" /\ s[2] \in DOMAIN Value
  <2>1. Atoi(s) = {Value[s[2]]}
    BY <1>2 DEF Atoi
  <2>2. s = <<"+", s[2]>>
    BY <1>2, ShortSequences
  <2> QED BY <1>2, <2>1, <2>2
<1>3. CASE Len(s) = 2 /\ s[1] = "-" /\ s[2] \in DOMAIN Value
  <2>1. Atoi(s) = {-Value[s[2]]}
    BY <1>3 DEF Atoi
  <2>2. s = <<"-", s[2]>>
    BY <1>3, ShortSequences
  <2> QED BY <1>3, <2>1, <2>2
<1>4. CASE /\ ~(Len(s) = 1 /\ s[1] \in DOMAIN Value)
           /\ ~(Len(s) = 2 /\ s[1] = "+" /\ s[2] \in DOMAIN Value)
           /\ ~(Len(s) = 2 /\ s[1] = "-" /\ s[2] \in DOMAIN Value)
  <2>1. Atoi(s) = {}
    BY <1>4 DEF Atoi
  <2> QED BY <1>4, <2>1
<1> QED BY <1>1, <1>2, <1>3, <1>4

\* Atoi reads what is written.
LEMMA AtoiWritten ==
    ASSUME NEW s \in Seq(Tokens), NEW n
    PROVE  n \in Atoi(s) <=> s \in Written(n)
BY AtoiIs, WrittenIs

\* A number that is read is negative only after a minus sign, and otherwise one that a
\* numeral has.
LEMMA AtoiNumber ==
    ASSUME NEW s \in Seq(Tokens), NEW n \in Atoi(s)
    PROVE  /\ n \in Int
           /\ n >= 0 => n \in {Value[t] : t \in DOMAIN Value}
           /\ ~Has(s, "-") => n >= 0
<1>1. PICK t \in DOMAIN Value : \/ n = Value[t] /\ (s = <<t>> \/ s = <<"+", t>>)
                                \/ n = -Value[t] /\ s = <<"-", t>>
  BY AtoiIs
<1>2. Value[t] \in Nat
  BY NumeralAssumption
<1>3. ~Has(s, "-") => s # <<"-", t>>
  BY DEF Has
<1> QED BY <1>1, <1>2, <1>3

\* A numeral by itself.
LEMMA NumeralItem ==
    ASSUME NEW t \in DOMAIN Value
    PROVE  /\ <<t>> \in Seq(Tokens) /\ <<t>> # <<>> /\ <<t>> # <<"*">>
           /\ ~Has(<<t>>, "-") /\ ~Has(<<t>>, "/")
           /\ Value[t] \in Atoi(<<t>>)
           /\ Value[t] \in Nat
<1>1. t \in Tokens /\ t # "*" /\ t # "-" /\ t # "/" /\ Value[t] \in Nat
  BY NumeralAssumption DEF Tokens
<1>2. <<t>> \in Seq(Tokens) /\ <<t>> # <<>> /\ ~Has(<<t>>, "-") /\ ~Has(<<t>>, "/")
  BY <1>1, HasShort, ShortInSeq
<1>3. Value[t] \in Atoi(<<t>>)
  BY <1>2, AtoiIs
<1>4. <<t>> # <<"*">>
  BY <1>1
<1> QED BY <1>1, <1>2, <1>3, <1>4

-----------------------------------------------------------------------------
(* The items of a schedule *)

Bounds == [lower : Nat, upper : Nat]

\* What checks the bounds lets these through.
Passes(b, r) == b = Skip \/ InBounds(b, r)

\* An item without its step, as parseCronItem and parseCronStep parse it.
ParseBase(s) ==
    CASE s = <<"*">>   -> {Skip}
      [] Has(s, "-")   -> ParseRange(s)
      [] OTHER         -> ParseValue(s)

\* A single number that passes is a written one of its field.
LEMMA ValueReadable ==
    ASSUME NEW s \in Seq(Tokens), ~Has(s, "-"), NEW r \in Bounds,
           NEW b \in ParseValue(s), Passes(b, r)
    PROVE  \E n \in Numbers(r) : s \in Written(n)
<1>1. PICK n \in Atoi(s) : b = <<n, n>>
  BY DEF ParseValue
<1>2. s \in Written(n) /\ n \in Nat /\ n \in {Value[t] : t \in DOMAIN Value}
  BY <1>1, AtoiWritten, AtoiNumber
<1>3. b[1] = n /\ b[2] = n /\ b # Skip
  BY <1>1, <1>2 DEF Skip
<1>4. n \in r.lower..r.upper
  BY <1>2, <1>3 DEF Passes, InBounds, Bounds
<1> QED BY <1>2, <1>4 DEF Numbers

\* A range that passes is one of written numbers of its field, in order.
LEMMA RangeReadable ==
    ASSUME NEW s \in Seq(Tokens), Has(s, "-"), NEW r \in Bounds,
           NEW b \in ParseRange(s), Passes(b, r)
    PROVE  \E p \in Numbers(r) \X Numbers(r) :
               /\ p[1] <= p[2]
               /\ \E low \in Written(p[1]), high \in Written(p[2]) : s = Join(low, "-", high)
<1> DEFINE low == Cut(s, "-").before
           high == Cut(s, "-").after
<1>1. /\ low \in Seq(Tokens) /\ high \in Seq(Tokens)
      /\ ~Has(low, "-")
      /\ s = Join(low, "-", high)
  BY JoinCut, OperatorTokens
<1>2. ParseRange(s) = Atoi(low) \X Atoi(high)
  BY DEF ParseRange
<1> HIDE DEF low, high
<1>3. PICK m \in Atoi(low), n \in Atoi(high) : b = <<m, n>>
  BY <1>2
<1>4. /\ low \in Written(m) /\ high \in Written(n)
      /\ m \in Nat /\ m \in {Value[t] : t \in DOMAIN Value}
      /\ n \in Int /\ (n >= 0 => n \in {Value[t] : t \in DOMAIN Value})
  BY <1>1, <1>3, AtoiWritten, AtoiNumber
<1>5. b[1] = m /\ b[2] = n /\ b # Skip
  BY <1>3, <1>4 DEF Skip
<1>6. r.lower <= m /\ n <= r.upper /\ m <= n
  BY <1>5 DEF Passes, InBounds
<1>7. m \in Numbers(r) /\ n \in Numbers(r)
  BY <1>4, <1>6 DEF Numbers, Bounds
<1>8. <<m, n>> \in Numbers(r) \X Numbers(r) /\ <<m, n>>[1] = m /\ <<m, n>>[2] = n
  BY <1>7
<1> QED BY <1>1, <1>4, <1>6, <1>8

LEMMA ReadableBasesHave ==
    ASSUME NEW s, NEW r,
           \/ s = <<"*">>
           \/ \E n \in Numbers(r) : s \in Written(n)
           \/ \E p \in Numbers(r) \X Numbers(r) :
                  /\ p[1] <= p[2]
                  /\ \E low \in Written(p[1]), high \in Written(p[2]) : s = Join(low, "-", high)
    PROVE  s \in ReadableBases(r)
<1> DEFINE Ordered == {q \in Numbers(r) \X Numbers(r) : q[1] <= q[2]}
           Ranges(p) == {Join(low, "-", high) : low \in Written(p[1]), high \in Written(p[2])}
           wild == {<<"*">>}
           single == UNION {Written(n) : n \in Numbers(r)}
           double == UNION {Ranges(p) : p \in Ordered}
<1>1. ReadableBases(r) = wild \cup single \cup double
  BY DEF ReadableBases
<1>2. s = <<"*">> => s \in wild
  OBVIOUS
<1>3. ASSUME NEW n \in Numbers(r), s \in Written(n) PROVE s \in single
  BY <1>3
<1>4. ASSUME NEW p \in Numbers(r) \X Numbers(r), p[1] <= p[2],
             NEW low \in Written(p[1]), NEW high \in Written(p[2]), s = Join(low, "-", high)
      PROVE  s \in double
  <2>1. p \in Ordered
    BY <1>4
  <2>2. s \in Ranges(p)
    BY <1>4
  <2> HIDE DEF Ordered, Ranges
  <2> QED BY <2>1, <2>2
<1> HIDE DEF wild, single, double
<1> QED BY <1>1, <1>2, <1>3, <1>4

LEMMA BaseReadable ==
    ASSUME NEW s \in Seq(Tokens), NEW r \in Bounds, NEW b \in ParseBase(s), Passes(b, r)
    PROVE  s \in ReadableBases(r)
<1>1. CASE s = <<"*">>
  BY <1>1, ReadableBasesHave
<1>2. CASE s # <<"*">> /\ Has(s, "-")
  <2>1. b \in ParseRange(s)
    BY <1>2 DEF ParseBase
  <2> QED BY <1>2, <2>1, RangeReadable, ReadableBasesHave
<1>3. CASE s # <<"*">> /\ ~Has(s, "-")
  <2>1. b \in ParseValue(s)
    BY <1>3 DEF ParseBase
  <2> QED BY <1>3, <2>1, ValueReadable, ReadableBasesHave
<1> QED BY <1>1, <1>2, <1>3

LEMMA StepReadable ==
    ASSUME NEW s \in Seq(Tokens), NEW n \in Atoi(s), UsableStep(n)
    PROVE  s \in ReadableSteps
<1>1. n \in Int /\ n > 0 /\ s \in Written(n)
  BY AtoiNumber, AtoiWritten DEF UsableStep
<1>2. PICK t \in DOMAIN Value : Value[t] = n
  BY <1>1, AtoiNumber
<1> QED BY <1>1, <1>2 DEF ReadableSteps

\* The first direction: what the parser accepts is readable.
LEMMA ItemReadable ==
    ASSUME NEW s \in Seq(Tokens), NEW r \in Bounds, ValidItem(s, r)
    PROVE  s \in ReadableItems(r)
<1>0. PICK b \in ParseCronItem(s) : Passes(b, r)
  BY DEF ValidItem, Passes
<1>1. CASE Has(s, "/")
  <2> DEFINE base == Cut(s, "/").before
             step == Cut(s, "/").after
  <2>1. /\ base \in Seq(Tokens) /\ step \in Seq(Tokens)
        /\ s = Join(base, "/", step)
    BY <1>1, JoinCut, OperatorTokens
  <2>2. ParseCronItem(s) = IF \A n \in Atoi(step) : ~UsableStep(n) THEN {} ELSE ParseBase(base)
    BY <1>1 DEF ParseCronItem, ParseCronStep, ParseBase
  <2> HIDE DEF base, step
  <2>3. b \in ParseBase(base) /\ \E n \in Atoi(step) : UsableStep(n)
    BY <1>0, <2>2
  <2>4. base \in ReadableBases(r) /\ step \in ReadableSteps
    BY <1>0, <2>1, <2>3, BaseReadable, StepReadable
  <2> QED BY <2>1, <2>4 DEF ReadableItems
<1>2. CASE ~Has(s, "/")
  <2>1. ParseCronItem(s) = ParseBase(s)
    BY <1>2 DEF ParseCronItem, ParseBase
  <2> QED BY <1>0, <2>1, BaseReadable DEF ReadableItems
<1> QED BY <1>1, <1>2

\* A wildcard, a numeral of the field or a range of them passes.
LEMMA DocumentedBase ==
    ASSUME NEW r \in Bounds, NEW s,
           \/ s = <<"*">>
           \/ \E t \in NumeralsIn(r.lower, r.upper) : s = <<t>>
           \/ s \in DocumentedRanges(r)
    PROVE  /\ s \in Seq(Tokens) /\ s # <<>> /\ ~Has(s, "/")
           /\ \E b \in ParseBase(s) : Passes(b, r)
<1>1. CASE s = <<"*">>
  <2>1. "*" \in Tokens /\ "*" # "/"
    BY DEF Tokens
  <2>2. ParseBase(s) = {Skip}
    <3>1. ~Has(<<"*">>, "-")
      BY DEF Has
    <3> QED BY <1>1, <3>1 DEF ParseBase
  <2> QED BY <1>1, <2>1, <2>2, HasShort, ShortInSeq DEF Passes
<1>2. ASSUME NEW t \in NumeralsIn(r.lower, r.upper), s = <<t>>
      PROVE  /\ s \in Seq(Tokens) /\ s # <<>> /\ ~Has(s, "/")
             /\ \E b \in ParseBase(s) : Passes(b, r)
  <2>1. t \in DOMAIN Value /\ Value[t] \in r.lower..r.upper
    BY DEF NumeralsIn
  <2>2. /\ s \in Seq(Tokens) /\ s # <<>> /\ s # <<"*">>
        /\ ~Has(s, "-") /\ ~Has(s, "/") /\ Value[t] \in Atoi(s)
    BY <1>2, <2>1, NumeralItem
  <2>3. ParseBase(s) = ParseValue(s)
    BY <2>2 DEF ParseBase
  <2>4. <<Value[t], Value[t]>> \in ParseBase(s)
    BY <2>2, <2>3 DEF ParseValue
  <2>5. InBounds(<<Value[t], Value[t]>>, r)
    BY <2>1 DEF InBounds, Bounds
  <2> QED BY <2>2, <2>4, <2>5 DEF Passes
<1>3. CASE s \in DocumentedRanges(r)
  <2>1. PICK t \in NumeralsIn(r.lower, r.upper), u \in NumeralsIn(r.lower, r.upper) :
            Value[t] <= Value[u] /\ s = Join(<<t>>, "-", <<u>>)
    BY <1>3 DEF DocumentedRanges
  <2>2. /\ t \in DOMAIN Value /\ Value[t] \in r.lower..r.upper
        /\ u \in DOMAIN Value /\ Value[u] \in r.lower..r.upper
    BY DEF NumeralsIn
  <2>3. /\ <<t>> \in Seq(Tokens) /\ ~Has(<<t>>, "-") /\ ~Has(<<t>>, "/") /\ Value[t] \in Atoi(<<t>>)
        /\ <<u>> \in Seq(Tokens) /\ ~Has(<<u>>, "/") /\ Value[u] \in Atoi(<<u>>)
    BY <2>2, NumeralItem
  <2>4. /\ Cut(s, "-").before = <<t>> /\ Cut(s, "-").after = <<u>>
        /\ Has(s, "-") /\ s \in Seq(Tokens)
    <3> DEFINE low == <<t>>
               high == <<u>>
    <3>1. low \in Seq(Tokens) /\ ~Has(low, "-") /\ high \in Seq(Tokens) /\ s = Join(low, "-", high)
      BY <2>1, <2>3
    <3> HIDE DEF low, high
    <3>2. /\ Cut(s, "-").before = low /\ Cut(s, "-").after = high
          /\ Has(s, "-") /\ s \in Seq(Tokens)
      BY <3>1, CutJoin, OperatorTokens
    <3> QED BY <3>2 DEF low, high
  <2>5. ~Has(s, "/")
    <3>1. "-" # "/"
      OBVIOUS
    <3> QED BY <2>1, <2>3, <3>1, HasJoin, OperatorTokens
  <2>6. s # <<>> /\ s # <<"*">>
    <3>1. ~Has(<<>>, "-") /\ ~Has(<<"*">>, "-")
      BY DEF Has
    <3> QED BY <2>4, <3>1
  <2>7. ParseBase(s) = Atoi(<<t>>) \X Atoi(<<u>>)
    BY <2>4, <2>6 DEF ParseBase, ParseRange
  <2>8. <<Value[t], Value[u]>> \in ParseBase(s)
    BY <2>3, <2>7
  <2>9. InBounds(<<Value[t], Value[u]>>, r)
    BY <2>1, <2>2 DEF InBounds, Bounds
  <2> QED BY <2>4, <2>5, <2>6, <2>8, <2>9 DEF Passes
<1> QED BY <1>1, <1>2, <1>3

\* The second direction: the parser accepts what the documents list.
LEMMA DocumentedItem ==
    ASSUME NEW r \in Bounds, NEW s \in DocumentedItems(r)
    PROVE  ValidItem(s, r)
<1>1. CASE s = <<"*">> \/ (\E t \in NumeralsIn(r.lower, r.upper) : s = <<t>>) \/ s \in DocumentedRanges(r)
  <2>1. s # <<>> /\ ~Has(s, "/") /\ \E b \in ParseBase(s) : Passes(b, r)
    BY <1>1, DocumentedBase
  <2>2. ParseCronItem(s) = ParseBase(s)
    BY <2>1 DEF ParseCronItem, ParseBase
  <2> QED BY <2>1, <2>2 DEF ValidItem, Passes
<1>2. ASSUME NEW base \in {<<"*">>} \cup DocumentedRanges(r), NEW t \in NumeralsIn(1, r.upper),
             s = Join(base, "/", <<t>>)
      PROVE  ValidItem(s, r)
  <2>1. base \in Seq(Tokens) /\ ~Has(base, "/") /\ \E b \in ParseBase(base) : Passes(b, r)
    BY <1>2, DocumentedBase
  <2>2. t \in DOMAIN Value /\ Value[t] >= 1
    BY DEF NumeralsIn
  <2>3. <<t>> \in Seq(Tokens) /\ Value[t] \in Atoi(<<t>>) /\ UsableStep(Value[t])
    BY <2>2, NumeralItem DEF UsableStep
  <2>4. Cut(s, "/").before = base /\ Cut(s, "/").after = <<t>> /\ Has(s, "/")
    <3> DEFINE step == <<t>>
    <3>1. step \in Seq(Tokens) /\ s = Join(base, "/", step)
      BY <1>2, <2>3
    <3> HIDE DEF step
    <3>2. Cut(s, "/").before = base /\ Cut(s, "/").after = step /\ Has(s, "/")
      BY <2>1, <3>1, CutJoin, OperatorTokens
    <3> QED BY <3>2 DEF step
  <2>5. ParseCronItem(s) = ParseBase(base)
    BY <2>3, <2>4 DEF ParseCronItem, ParseCronStep, ParseBase
  <2>6. s # <<>>
    BY <2>4 DEF Has
  <2> QED BY <2>1, <2>5, <2>6 DEF ValidItem, Passes
<1>3. \/ s = <<"*">> \/ (\E t \in NumeralsIn(r.lower, r.upper) : s = <<t>>) \/ s \in DocumentedRanges(r)
      \/ \E base \in {<<"*">>} \cup DocumentedRanges(r), t \in NumeralsIn(1, r.upper) :
             s = Join(base, "/", <<t>>)
  <2>1. s \in DocumentedValues(r) => \E t \in NumeralsIn(r.lower, r.upper) : s = <<t>>
    BY DEF DocumentedValues
  <2>2. s \in DocumentedSteps(r) =>
            \E base \in {<<"*">>} \cup DocumentedRanges(r), t \in NumeralsIn(1, r.upper) :
                s = Join(base, "/", <<t>>)
    BY DEF DocumentedSteps
  <2> QED BY <2>1, <2>2 DEF DocumentedItems
<1> QED BY <1>1, <1>2, <1>3

\* validateSchedule accepts the documented schedules, and only readable ones.
LEMMA SchedulesAccepted ==
    ASSUME NEW s \in Schedule
    PROVE  /\ IsCronExpression(s) => ValidSchedule(s)
           /\ ValidSchedule(s) => IsReadable(s)
<1>1. \A f \in 1..5 : CronRanges[f] \in Bounds
  <2>1. \A f \in 1..5 : f = 1 \/ f = 2 \/ f = 3 \/ f = 4 \/ f = 5
    OBVIOUS
  <2> QED BY <2>1 DEF CronRanges, Bounds
<1>2. \A f \in 1..5 : /\ Documented[f] = DocumentedItems(CronRanges[f])
                      /\ Readable[f] = ReadableItems(CronRanges[f])
  BY DEF Documented, Readable
<1>3. ASSUME Len(s.fields) = 5, NEW f \in 1..5, NEW i \in DOMAIN s.fields[f]
      PROVE  /\ s.fields[f][i] \in Documented[f] => ValidItem(s.fields[f][i], CronRanges[f])
             /\ ValidItem(s.fields[f][i], CronRanges[f]) => s.fields[f][i] \in Readable[f]
  <2>1. s.fields \in Seq(Seq(Seq(STRING)))
    BY DEF Schedule
  <2>2. s.fields[f] \in Seq(Seq(STRING))
    BY <1>3, <2>1, ElementOfSeq
  <2>3. s.fields[f][i] \in Seq(STRING)
    BY <2>2, ElementOfSeq, LenProperties
  <2>4. s.fields[f][i] \in Seq(Tokens)
    BY <2>3, SeqMonotonic, STRING \subseteq Tokens DEF Tokens
  <2> QED BY <1>1, <1>2, <2>4, DocumentedItem, ItemReadable
<1> QED BY <1>3 DEF ValidSchedule, IsCronExpression, IsReadable

-----------------------------------------------------------------------------
(* What loads *)

\* No timeout of the range wraps around.
LEMMA DurationIsExact ==
    ASSUME NEW seconds \in 1..MaxTimeoutSeconds
    PROVE  /\ Duration(seconds) = seconds * Second
           /\ Duration(seconds) \in 1..MaxTimeoutSeconds * Second
<1> DEFINE x == seconds * Second
           top == MaxTimeoutSeconds * Second
           half == DurationRange \div 2
<1>1. /\ MaxTimeoutSeconds \in Nat /\ Second \in Nat \ {0} /\ DurationRange \in Nat \ {0}
      /\ top < half
  BY ConfigAssumption
<1>2. x \in 1..top
  <2>1. \A a, b, c \in Nat : a <= b => a * c <= b * c
    OBVIOUS
  <2>2. \A a, b \in Nat : a >= 1 /\ b >= 1 => a * b >= 1 /\ a * b \in Nat
    OBVIOUS
  <2> QED BY <1>1, <2>1, <2>2
<1>3. half \in Nat /\ half <= DurationRange
  BY <1>1
<1>4. top \in Nat
  BY <1>1
<1>5. Duration(seconds) = IF x % DurationRange >= half THEN (x % DurationRange) - DurationRange
                          ELSE x % DurationRange
  BY DEF Duration
<1> HIDE DEF x, top, half
<1>6. x < half /\ x \in Nat /\ x < DurationRange
  BY <1>1, <1>2, <1>3, <1>4
<1>7. x % DurationRange = x
  BY <1>1, <1>6
<1>8. Duration(seconds) = x
  BY <1>3, <1>5, <1>6, <1>7
<1> QED BY <1>2, <1>8 DEF x, top

\* A file has at most one configuration, of its own values, and has it when they are in
\* range.
LEMMA LoadIs ==
    ASSUME NEW f \in RawConfig
    PROVE  /\ AtMostOne(Load(f))
           /\ \A cfg \in Load(f) :
                  /\ cfg \in Config
                  /\ cfg.schedule = f.schedule
                  /\ cfg.slackAllowedHost = f.slackAllowedHost
                  /\ cfg.timeout \in {s * Second : s \in f.timeoutSeconds \cap 1..MaxTimeoutSeconds}
           /\ Load(f) # {} <=>
                  /\ f.decodes
                  /\ \E days \in f.retentionDays : days >= 1
                  /\ \E seconds \in f.timeoutSeconds : seconds \in 1..MaxTimeoutSeconds
<1>1. /\ f.retentionDays \subseteq Int /\ f.timeoutSeconds \subseteq Int
      /\ f.schedule \in Schedule /\ f.slackAllowedHost \in DOMAIN Canonical
      /\ AtMostOne(f.retentionDays) /\ AtMostOne(f.timeoutSeconds)
  BY DEF RawConfig
<1>2. MaxTimeoutSeconds \in Nat
  BY ConfigAssumption
<1> DEFINE Made(days, seconds) ==
               [retentionDays |-> days, timeout |-> Duration(seconds), schedule |-> f.schedule,
                slackAllowedHost |-> f.slackAllowedHost]
           D == {d \in f.retentionDays : d > 0}
           S == {s \in f.timeoutSeconds : InRange(s)}
<1>3. D = {d \in f.retentionDays : d >= 1}
  BY <1>1
<1>4. S = f.timeoutSeconds \cap 1..MaxTimeoutSeconds
  BY <1>1, <1>2 DEF InRange
<1>5. Load(f) = IF f.decodes THEN {Made(days, seconds) : days \in D, seconds \in S} ELSE {}
  BY DEF Load, ValidateConfig
<1>6. AtMostOne(D) /\ AtMostOne(S)
  BY <1>1 DEF AtMostOne
<1>7. D \subseteq Nat \ {0}
  BY <1>1
<1> HIDE DEF D, S, Made
<1>8. AtMostOne(Load(f))
  BY <1>5, <1>6 DEF AtMostOne
<1>9. ASSUME NEW cfg \in Load(f)
      PROVE  /\ cfg \in Config
             /\ cfg.schedule = f.schedule
             /\ cfg.slackAllowedHost = f.slackAllowedHost
             /\ cfg.timeout \in {s * Second : s \in f.timeoutSeconds \cap 1..MaxTimeoutSeconds}
  <2>1. PICK days \in D, seconds \in S : cfg = Made(days, seconds)
    BY <1>5, <1>9
  <2>2. seconds \in f.timeoutSeconds \cap 1..MaxTimeoutSeconds /\ days \in Nat \ {0}
    BY <1>4, <1>7
  <2>3. /\ Duration(seconds) = seconds * Second
        /\ Duration(seconds) \in 1..MaxTimeoutSeconds * Second
    BY <2>2, DurationIsExact
  <2>4. cfg \in Config /\ cfg.schedule = f.schedule
        /\ cfg.slackAllowedHost = f.slackAllowedHost /\ cfg.timeout = Duration(seconds)
    BY <1>1, <2>1, <2>2, <2>3 DEF Made, Config
  <2> QED BY <2>2, <2>3, <2>4
<1>10. Load(f) # {} <=> f.decodes /\ D # {} /\ S # {}
  BY <1>5
<1>11. D # {} <=> \E days \in f.retentionDays : days >= 1
  BY <1>3
<1>12. S # {} <=> \E seconds \in f.timeoutSeconds : seconds \in 1..MaxTimeoutSeconds
  BY <1>4
<1> QED BY <1>8, <1>9, <1>10, <1>11, <1>12

\* print-schedule accepts the servable files, and prints only what is readable.
LEMMA PrintScheduleIs ==
    ASSUME NEW f \in RawConfig
    PROVE  /\ Servable(f) => PrintSchedule(f) # {}
           /\ PrintSchedule(f) # {} => OtherwiseInRange(f) /\ IsReadable(f.schedule)
           /\ \A s \in PrintSchedule(f) : s \in Schedule /\ IsReadable(s)
<1>1. f.schedule \in Schedule
  BY DEF RawConfig
<1>2. \A s \in PrintSchedule(f) : s = f.schedule /\ ValidSchedule(s)
  BY LoadIs DEF PrintSchedule
<1>3. PrintSchedule(f) # {} <=> Load(f) # {} /\ ValidSchedule(f.schedule)
  BY LoadIs DEF PrintSchedule
<1>4. /\ IsCronExpression(f.schedule) => ValidSchedule(f.schedule)
      /\ ValidSchedule(f.schedule) => IsReadable(f.schedule)
  BY <1>1, SchedulesAccepted
<1>5. Load(f) # {} <=> OtherwiseInRange(f)
  BY LoadIs DEF OtherwiseInRange
<1> QED BY <1>1, <1>2, <1>3, <1>4, <1>5 DEF Servable

\* What a run may have loaded from a file.
Usable(app, f) ==
    LET cfg   == app.config
        creds == app.credentials
    IN  /\ cfg.retentionDays >= 1
        /\ cfg.timeout \in {s * Second : s \in f.timeoutSeconds \cap 1..MaxTimeoutSeconds}
        /\ \A url \in {creds.success, creds.failure} :
               url.form # "unset" =>
                   /\ url.form = "https"
                   /\ Canonical[url.host] # ""
                   /\ Canonical[url.host] = Canonical[f.slackAllowedHost]

LEMMA LoadAppConfigIs ==
    ASSUME NEW f \in RawConfig, NEW e \in Environment
    PROVE  /\ AtMostOne(LoadAppConfig(f, e))
           /\ \A app \in LoadAppConfig(f, e) : app \in AppConfigs /\ Usable(app, f)
<1> DEFINE creds == [success |-> e.success, failure |-> e.failure]
<1>1. /\ e.success \in Webhook /\ e.failure \in Webhook
      /\ creds.success = e.success /\ creds.failure = e.failure
      /\ creds \in [success : Webhook, failure : Webhook]
  BY DEF Environment
<1>2. \A c \in LoadCredentials(e) : c = creds /\ ValidWebhook(e.success) /\ ValidWebhook(e.failure)
  BY DEF LoadCredentials
<1> HIDE DEF creds
<1>3. ASSUME NEW app \in LoadAppConfig(f, e)
      PROVE  /\ app.config \in Load(f) /\ app.credentials = creds
             /\ app = [config |-> app.config, credentials |-> creds]
             /\ ValidWebhook(e.success) /\ ValidWebhook(e.failure)
             /\ SlackAllowed(app.config, creds)
  <2>1. PICK p \in Load(f) \X LoadCredentials(e) :
            SlackAllowed(p[1], p[2]) /\ app = [config |-> p[1], credentials |-> p[2]]
    BY <1>3 DEF LoadAppConfig
  <2>2. p[1] \in Load(f) /\ p[2] \in LoadCredentials(e)
    OBVIOUS
  <2> QED BY <1>2, <2>1, <2>2
<1>4. AtMostOne(LoadAppConfig(f, e))
  BY <1>3, LoadIs DEF AtMostOne
<1>5. ASSUME NEW app \in LoadAppConfig(f, e) PROVE app \in AppConfigs /\ Usable(app, f)
  <2>1. /\ app.config \in Config
        /\ app.config.slackAllowedHost = f.slackAllowedHost
        /\ app.config.timeout \in {s * Second : s \in f.timeoutSeconds \cap 1..MaxTimeoutSeconds}
    BY <1>3, <1>5, LoadIs
  <2>2. app \in AppConfigs
    BY <1>1, <1>3, <1>5, <2>1 DEF AppConfigs
  <2>3. app.config.retentionDays >= 1
    BY <2>1 DEF Config
  <2>4. ASSUME NEW url \in {creds.success, creds.failure}, url.form # "unset"
        PROVE  /\ url.form = "https"
               /\ Canonical[url.host] # ""
               /\ Canonical[url.host] = Canonical[f.slackAllowedHost]
    <3>1. ValidWebhook(url)
      BY <1>1, <1>3, <1>5, <2>4
    <3>2. SlackAllowed(app.config, creds)
      BY <1>3, <1>5
    <3> QED BY <2>1, <2>4, <3>1, <3>2 DEF ValidWebhook, SlackAllowed, HostsAllowed, HostAllowed
  <2>5. app.credentials = creds
    BY <1>3, <1>5
  <2> QED BY <2>1, <2>2, <2>3, <2>4, <2>5 DEF Usable
<1> QED BY <1>4, <1>5

LEMMA SmallSet ==
    ASSUME NEW S, AtMostOne(S)
    PROVE  Cardinality(S) <= 1
<1>1. CASE S = {}
  BY <1>1, FS_EmptySet
<1>2. CASE S # {}
  <2>1. PICK x : S = {x}
    BY <1>2 DEF AtMostOne
  <2>2. Cardinality(S) = 1
    BY <2>1, FS_Singleton
  <2> QED BY <2>2
<1> QED BY <1>1, <1>2

-----------------------------------------------------------------------------
(* The inductive invariant *)

Types ==
    /\ file \in RawConfig /\ env \in Environment
    /\ pc \in {"down", "starting", "writing", "execing", "serving"}
    /\ printed \in Schedule
    /\ crontab \in {Missing, Empty} \/ \E line \in Schedule : crontab = {<<line>>}
    /\ edits \in 0..MaxEdits /\ faults \in 0..MaxFaults

\* Only a readable line is ever written, and the cron process has its file.
WrittenInv ==
    /\ pc = "writing" => IsReadable(printed)
    /\ \A lines \in crontab : \A i \in DOMAIN lines : IsReadable(lines[i])
    /\ pc = "serving" => crontab # Missing

\* There is at most one verdict, and it is a right one.
JudgedInv ==
    /\ AtMostOne(judged)
    /\ \A j \in judged :
           /\ j.file \in RawConfig /\ j.accepted \in BOOLEAN
           /\ Servable(j.file) => j.accepted
           /\ j.accepted => OtherwiseInRange(j.file) /\ IsReadable(j.file.schedule)

\* There is at most one run, and it works with what its file says.
ActiveInv ==
    /\ AtMostOne(active)
    /\ \A r \in active :
           r.file \in RawConfig /\ r.loaded \in AppConfigs /\ Usable(r.loaded, r.file)

IndInv == Types /\ WrittenInv /\ JudgedInv /\ ActiveInv

LEMMA NoScheduleType == NoSchedule \in Schedule
<1>1. <<>> \in Seq(Seq(Seq(STRING)))
  BY EmptySeq
<1> QED BY <1>1 DEF NoSchedule, Schedule

LEMMA InitIndInv == Init => IndInv
<1>1. SUFFICES ASSUME Init PROVE IndInv
  OBVIOUS
<1>2. PICK s \in Settings : file = s.file /\ env = s.env
  BY <1>1 DEF Init
<1>3. file \in RawConfig /\ env \in Environment
  BY <1>2, DeploymentAssumption
<1>4. Types
  BY <1>1, <1>3, NoScheduleType, DeploymentAssumption DEF Init, Types
<1>5. WrittenInv /\ JudgedInv /\ ActiveInv
  BY <1>1 DEF Init, WrittenInv, JudgedInv, ActiveInv, AtMostOne, Missing, NoVerdict, NoRun
<1> QED BY <1>4, <1>5 DEF IndInv

LEMMA JudgeStep == IndInv /\ Judge => IndInv'
<1>1. SUFFICES ASSUME IndInv, Judge PROVE IndInv'
  OBVIOUS
<1> DEFINE output == PrintSchedule(file)
<1>2. /\ Servable(file) => output # {}
      /\ output # {} => OtherwiseInRange(file) /\ IsReadable(file.schedule)
      /\ \A s \in output : s \in Schedule /\ IsReadable(s)
  BY <1>1, PrintScheduleIs DEF IndInv, Types
<1>3. /\ judged' = {[file |-> file, accepted |-> output # {}]}
      /\ pc' = IF output # {} THEN "writing" ELSE "down"
      /\ printed' = IF output = {} THEN NoSchedule ELSE CHOOSE s \in output : TRUE
      /\ UNCHANGED <<file, env, crontab, active, edits, faults>>
  BY <1>1 DEF Judge, Proceeds
<1> HIDE DEF output
<1>4. output # {} => printed' \in output
  BY <1>3
<1>5. Types'
  BY <1>1, <1>2, <1>3, <1>4, NoScheduleType DEF IndInv, Types
<1>6. WrittenInv'
  BY <1>1, <1>2, <1>3, <1>4 DEF IndInv, WrittenInv
<1>7. JudgedInv'
  <2> DEFINE verdict == [file |-> file, accepted |-> output # {}]
  <2>1. verdict.file = file /\ (verdict.accepted <=> output # {}) /\ verdict.accepted \in BOOLEAN
    BY Zenon
  <2> HIDE DEF verdict
  <2>2. judged' = {verdict}
    BY <1>3 DEF verdict
  <2>3. file \in RawConfig
    BY <1>1 DEF IndInv, Types
  <2>4. \A j \in judged' : j = verdict
    BY <2>2
  <2> QED BY <1>2, <2>1, <2>3, <2>4 DEF JudgedInv, AtMostOne
<1>8. ActiveInv'
  BY <1>1, <1>3 DEF IndInv, ActiveInv
<1> QED BY <1>5, <1>6, <1>7, <1>8 DEF IndInv

LEMMA NextIndInv == IndInv /\ [Next]_vars => IndInv'
<1>1. SUFFICES ASSUME IndInv, [Next]_vars PROVE IndInv'
  OBVIOUS
<1>2. CASE Judge
  BY <1>1, <1>2, JudgeStep
<1>3. CASE WriteCrontab
  <2>1. printed \in Schedule /\ IsReadable(printed) /\ crontab' = {<<printed>>} /\ pc' = "execing"
    BY <1>1, <1>3 DEF IndInv, Types, WrittenInv, WriteCrontab
  <2>2. Types'
    BY <1>1, <1>3, <2>1 DEF IndInv, Types, WriteCrontab
  <2>3. WrittenInv'
    <3>1. ASSUME NEW lines \in crontab', NEW i \in DOMAIN lines PROVE IsReadable(lines[i])
      <4>1. lines = <<printed>> /\ i = 1 /\ lines[i] = printed
        BY <2>1
      <4> QED BY <2>1, <4>1
    <3> QED BY <2>1, <3>1 DEF WrittenInv
  <2>4. JudgedInv' /\ ActiveInv'
    BY <1>1, <1>3 DEF IndInv, JudgedInv, ActiveInv, WriteCrontab
  <2> QED BY <2>2, <2>3, <2>4 DEF IndInv
<1>4. CASE WriteFails
  <2>1. Types'
    BY <1>1, <1>4, DeploymentAssumption DEF IndInv, Types, WriteFails
  <2>2. WrittenInv'
    <3>1. ASSUME NEW lines \in crontab', NEW i \in DOMAIN lines PROVE IsReadable(lines[i])
      <4>1. crontab' = crontab \/ crontab' = {<<>>}
        BY <1>4 DEF WriteFails, Empty
      <4>2. CASE crontab' = {<<>>}
        BY <4>2
      <4> QED BY <1>1, <4>1, <4>2 DEF IndInv, WrittenInv
    <3> QED BY <1>4, <3>1 DEF WrittenInv, WriteFails
  <2>3. JudgedInv' /\ ActiveInv'
    BY <1>1, <1>4 DEF IndInv, JudgedInv, ActiveInv, WriteFails
  <2> QED BY <2>1, <2>2, <2>3 DEF IndInv
<1>5. CASE Exec
  BY <1>1, <1>5 DEF IndInv, Types, WrittenInv, JudgedInv, ActiveInv, Exec
<1>6. CASE Fire
  <2>1. Types' /\ WrittenInv' /\ JudgedInv'
    BY <1>1, <1>6 DEF IndInv, Types, WrittenInv, JudgedInv, Fire
  <2>2. ActiveInv'
    <3>1. /\ AtMostOne(LoadAppConfig(file, env))
          /\ \A app \in LoadAppConfig(file, env) : app \in AppConfigs /\ Usable(app, file)
      BY <1>1, LoadAppConfigIs DEF IndInv, Types
    <3>2. active' = {[loaded |-> app, file |-> file] : app \in LoadAppConfig(file, env)}
      BY <1>6 DEF Fire
    <3>3. file \in RawConfig
      BY <1>1 DEF IndInv, Types
    <3>4. \A r \in active' : r.file = file /\ r.loaded \in LoadAppConfig(file, env)
                             /\ r = [loaded |-> r.loaded, file |-> file]
      BY <3>2
    <3>5. AtMostOne(active')
      BY <3>1, <3>4 DEF AtMostOne
    <3> QED BY <3>1, <3>3, <3>4, <3>5 DEF ActiveInv
  <2> QED BY <2>1, <2>2 DEF IndInv
<1>7. CASE RunEnds
  BY <1>1, <1>7 DEF IndInv, Types, WrittenInv, JudgedInv, ActiveInv, RunEnds, NoRun, AtMostOne
<1>8. CASE Crash
  BY <1>1, <1>8, DeploymentAssumption
     DEF IndInv, Types, WrittenInv, JudgedInv, ActiveInv, Crash, NoRun, AtMostOne
<1>9. CASE Restart
  BY <1>1, <1>9 DEF IndInv, Types, WrittenInv, JudgedInv, ActiveInv, Restart
<1>10. CASE Edit
  BY <1>1, <1>10, DeploymentAssumption DEF IndInv, Types, WrittenInv, JudgedInv, ActiveInv, Edit
<1>11. CASE Recreate
  BY <1>1, <1>11, DeploymentAssumption
     DEF IndInv, Types, WrittenInv, JudgedInv, ActiveInv, Recreate, NoRun, Missing, AtMostOne
<1>12. CASE UNCHANGED vars
  BY <1>1, <1>12 DEF vars, IndInv, Types, WrittenInv, JudgedInv, ActiveInv
<1> QED BY <1>1, <1>2, <1>3, <1>4, <1>5, <1>6, <1>7, <1>8, <1>9, <1>10, <1>11, <1>12 DEF Next

-----------------------------------------------------------------------------
(* The theorems *)

\* The container keeps IndInv.
THEOREM Invariance == Spec => []IndInv
BY InitIndInv, NextIndInv, PTL DEF Spec

\* Every variable keeps its type: a run's timeout is a positive duration of at most the
\* maximum, although the multiplication of seconds wraps around for larger values
\* (validateConfig and the conversion after it).
THEOREM TypeCorrect == Spec => []TypeOK
<1>1. IndInv => TypeOK
  <2>1. SUFFICES ASSUME IndInv PROVE TypeOK
    OBVIOUS
  <2>2. Cardinality(active) <= 1 /\ Cardinality(judged) <= 1
    BY <2>1, SmallSet DEF IndInv, JudgedInv, ActiveInv
  <2>3. /\ \A r \in active : r.loaded \in AppConfigs /\ r.file \in RawConfig
        /\ \A j \in judged : j.file \in RawConfig /\ j.accepted \in BOOLEAN
    BY <2>1 DEF IndInv, JudgedInv, ActiveInv
  <2>4. \/ crontab \in {Missing, Empty}
        \/ \E lines \in crontab : crontab = {<<lines[1]>>} /\ lines[1] \in Schedule
    <3>1. ASSUME NEW line \in Schedule, crontab = {<<line>>}
          PROVE  \E lines \in crontab : crontab = {<<lines[1]>>} /\ lines[1] \in Schedule
      <4>1. <<line>> \in crontab /\ <<line>>[1] = line
        BY <3>1
      <4> QED BY <3>1, <4>1
    <3> QED BY <2>1, <3>1 DEF IndInv, Types
  <2> QED BY <2>1, <2>2, <2>3, <2>4 DEF IndInv, Types, TypeOK
<1> QED BY <1>1, Invariance, PTL

\* For all numerals and items of any length: print-schedule refuses no file whose values
\* are in range and whose schedule the documents list, and accepts none with another value
\* out of range or an item that leaves its field, is out of order or has no positive step
\* (validateSchedule and all it calls).
THEOREM SchedulesAreJudgedRight == Spec => []ScheduleJudgedRight
<1>1. IndInv => ScheduleJudgedRight
  BY DEF IndInv, JudgedInv, ScheduleJudgedRight
<1> QED BY <1>1, Invariance, PTL

\* Whatever is edited, crashes or fails to be written, the cron process serves only lines
\* that a start of its container let through, with items of their fields (entrypoint.sh).
THEOREM OnlyReadableLinesAreServed == Spec => []ServesOnlyReadableLines
<1>1. IndInv => ServesOnlyReadableLines
  BY DEF IndInv, WrittenInv, ServesOnlyReadableLines
<1> QED BY <1>1, Invariance, PTL

\* A run under way works with values in range that its own file has, and sends only to
\* webhooks of the host that file allows (LoadAppConfig).
THEOREM EveryRunIsUsable == Spec => []RunsAreUsable
<1>1. IndInv => RunsAreUsable
  BY DEF IndInv, ActiveInv, Usable, RunsAreUsable
<1> QED BY <1>1, Invariance, PTL

=============================================================================
