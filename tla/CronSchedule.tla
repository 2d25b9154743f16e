----------------------------- MODULE CronSchedule -----------------------------
(***************************************************************************)
(* validateSchedule (cmd/main.go): which cron expressions print-schedule   *)
(* lets through, as the code decides it; the language that the documents   *)
(* list, and a wider one that bounds what the code accepts beyond it.      *)
(*                                                                         *)
(* An item of a field is a sequence of tokens: "*", "/", "-", "+", the     *)
(* numerals, and anything else.  A parse that fails is the empty set, one  *)
(* that succeeds a set of one element.                                     *)
(***************************************************************************)
EXTENDS Integers, Sequences

CONSTANT Value    \* Value[t]: the number that the numeral t is read as

ASSUME NumeralAssumption ==
    /\ DOMAIN Value \subseteq STRING
    /\ \A t \in DOMAIN Value : Value[t] \in Nat
    /\ {"*", "/", "-", "+"} \cap DOMAIN Value = {}

\* cronRanges: minute, hour, day of month, month, day of week.
CronRanges == << [lower |-> 0, upper |-> 59], [lower |-> 0, upper |-> 23],
                 [lower |-> 1, upper |-> 31], [lower |-> 1, upper |-> 12],
                 [lower |-> 0, upper |-> 7] >>

-----------------------------------------------------------------------------
(* A defect that a run must find: it replaces the operator it precedes     *)

StepAtLeastZero(n) == n >= 0

-----------------------------------------------------------------------------
(* What the code does *)

Has(s, token) == \E i \in DOMAIN s : s[i] = token

\* SplitN(s, token, 2): before and after the first occurrence.
Cut(s, token) ==
    LET i == CHOOSE i \in DOMAIN s : s[i] = token /\ \A j \in 1..i-1 : s[j] # token
    IN  [before |-> SubSeq(s, 1, i - 1), after |-> SubSeq(s, i + 1, Len(s))]

\* strconv.Atoi takes one sign.
Atoi(s) ==
    CASE Len(s) = 1 /\ s[1] \in DOMAIN Value -> {Value[s[1]]}
      [] Len(s) = 2 /\ s[1] = "+" /\ s[2] \in DOMAIN Value -> {Value[s[2]]}
      [] Len(s) = 2 /\ s[1] = "-" /\ s[2] \in DOMAIN Value -> {-Value[s[2]]}
      [] OTHER -> {}

\* The signal of a wildcard to skip the bounds check.
Skip == <<-1, -1>>

ParseValue(s) == {<<n, n>> : n \in Atoi(s)}

ParseRange(s) == LET cut == Cut(s, "-") IN Atoi(cut.before) \X Atoi(cut.after)

UsableStep(n) == n > 0

ParseCronStep(s) ==
    LET cut == Cut(s, "/")
    IN  IF \A n \in Atoi(cut.after) : ~UsableStep(n) THEN {}
        ELSE CASE cut.before = <<"*">>   -> {Skip}
               [] Has(cut.before, "-")   -> ParseRange(cut.before)
               [] OTHER                  -> ParseValue(cut.before)

ParseCronItem(s) ==
    IF Has(s, "/") THEN ParseCronStep(s)
    ELSE CASE s = <<"*">> -> {Skip}
           [] Has(s, "-") -> ParseRange(s)
           [] OTHER       -> ParseValue(s)

InBounds(b, r) == r.lower <= b[1] /\ b[2] <= r.upper /\ b[1] <= b[2]

ValidItem(s, r) == s # <<>> /\ \E b \in ParseCronItem(s) : b = Skip \/ InBounds(b, r)

\* A schedule is its whitespace-separated fields, each a list of items, and whether it
\* contains a newline.
ValidSchedule(schedule) ==
    /\ ~schedule.newline
    /\ Len(schedule.fields) = 5
    /\ \A f \in 1..5 : \A i \in DOMAIN schedule.fields[f] :
           ValidItem(schedule.fields[f][i], CronRanges[f])

-----------------------------------------------------------------------------
(* The documented language: the items that docs/tasks/0007_docker_distribution *)
(* lists, which are "*", "*/n", "a-b", "a-b/n" and "a" within a field's range   *)

NumeralsIn(lower, upper) == {t \in DOMAIN Value : Value[t] \in lower..upper}

Join(before, token, after) == before \o <<token>> \o after

DocumentedValues(r) == {<<t>> : t \in NumeralsIn(r.lower, r.upper)}

DocumentedRanges(r) ==
    {Join(<<q[1]>>, "-", <<q[2]>>) :
         q \in {p \in NumeralsIn(r.lower, r.upper) \X NumeralsIn(r.lower, r.upper) :
                   Value[p[1]] <= Value[p[2]]}}

DocumentedSteps(r) ==
    {Join(b, "/", <<t>>) : b \in {<<"*">>} \cup DocumentedRanges(r), t \in NumeralsIn(1, r.upper)}

DocumentedItems(r) ==
    {<<"*">>} \cup DocumentedValues(r) \cup DocumentedRanges(r) \cup DocumentedSteps(r)

Documented == [f \in 1..5 |-> DocumentedItems(CronRanges[f])]

\* Five fields on one line, each a list of documented items.
IsCronExpression(schedule) ==
    /\ ~schedule.newline
    /\ Len(schedule.fields) = 5
    /\ \A f \in 1..5 : \A i \in DOMAIN schedule.fields[f] : schedule.fields[f][i] \in Documented[f]

-----------------------------------------------------------------------------
(* A wider language, for what is accepted beyond the documents: the same   *)
(* items of numbers that may have a sign, also "a/n", with any positive    *)
(* step.  Its items still name only values of their field, in order.       *)

Written(n) ==
    {<<t>> : t \in {u \in DOMAIN Value : Value[u] = n}}
    \cup {<<"+", t>> : t \in {u \in DOMAIN Value : Value[u] = n}}
    \cup {<<"-", t>> : t \in {u \in DOMAIN Value : -Value[u] = n}}

Numbers(r) == {Value[t] : t \in DOMAIN Value} \cap r.lower..r.upper

ReadableBases(r) ==
    {<<"*">>}
    \cup (UNION {Written(n) : n \in Numbers(r)})
    \cup (UNION {{Join(low, "-", high) : low \in Written(p[1]), high \in Written(p[2])} :
                     p \in {q \in Numbers(r) \X Numbers(r) : q[1] <= q[2]}})

ReadableSteps == UNION {Written(Value[t]) : t \in {u \in DOMAIN Value : Value[u] > 0}}

ReadableItems(r) ==
    ReadableBases(r) \cup {Join(b, "/", step) : b \in ReadableBases(r), step \in ReadableSteps}

Readable == [f \in 1..5 |-> ReadableItems(CronRanges[f])]

IsReadable(schedule) ==
    /\ ~schedule.newline
    /\ Len(schedule.fields) = 5
    /\ \A f \in 1..5 : \A i \in DOMAIN schedule.fields[f] : schedule.fields[f][i] \in Readable[f]

=============================================================================
