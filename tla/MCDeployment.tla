---------------------------- MODULE MCDeployment ----------------------------
(***************************************************************************)
(* Files and environments for model checking Deployment: every short item  *)
(* at the boundaries of every field of a schedule, and the values of the   *)
(* other keys one at a time.                                               *)
(***************************************************************************)
EXTENDS Deployment, TLC

MCValue ==
    ("0" :> 0) @@ ("1" :> 1) @@ ("7" :> 7) @@ ("8" :> 8) @@ ("12" :> 12) @@ ("13" :> 13)
    @@ ("23" :> 23) @@ ("24" :> 24) @@ ("31" :> 31) @@ ("32" :> 32) @@ ("59" :> 59) @@ ("60" :> 60)

\* The numerals around the bounds of field f.
Numerals(f) ==
    LET r == CronRanges[f]
    IN  {t \in DOMAIN MCValue : MCValue[t] \in {0, r.lower, r.upper, r.upper + 1}}

Items(f) ==
    LET tokens   == Numerals(f) \cup {"*", "/", "-", "+", "x"}
        signs    == {<<>>, <<"+">>, <<"-">>}
        infix    == {<<a, op>> \o sign \o <<b>> : a \in Numerals(f) \cup {"*"}, b \in Numerals(f),
                                                  op \in {"-", "/"}, sign \in signs}
        stepped  == {<<a, "-", b, "/", c>> : a \in Numerals(f), b \in Numerals(f), c \in {"0", "7"}}
        anything == UNION {[1..n -> tokens] : n \in 0..IF f = 5 THEN 3 ELSE 2}
    IN  infix \cup stepped \cup anything

Every == <<<<"*">>>>

\* A schedule whose field f is the list of items, and whose others are "*".
WithField(f, items) == [newline |-> FALSE, fields |-> [[i \in 1..5 |-> Every] EXCEPT ![f] = items]]

Daily == WithField(2, <<<<"7">>>>)
Hourly == WithField(1, <<<<"0">>>>)

OddSchedules ==
    {[Daily EXCEPT !.newline = TRUE], NoSchedule,
     [newline |-> FALSE, fields |-> <<Every, Every, Every, Every>>],
     [newline |-> FALSE, fields |-> <<Every, Every, Every, Every, Every, Every>>],
     WithField(1, <<<<"0">>, <<"60">>>>), WithField(5, <<<<"1", "-", "7">>, <<"0">>>>),
     WithField(4, <<<<"1">>, <<>>>>)}

Good == [decodes |-> TRUE, retentionDays |-> {1}, timeoutSeconds |-> {3},
         schedule |-> Daily, slackAllowedHost |-> "slack"]

\* 8 and 9 seconds of four units are 0 and 4 in 32 values.
OddFiles ==
    {[Good EXCEPT !.decodes = FALSE], [Good EXCEPT !.schedule = Hourly],
     [Good EXCEPT !.slackAllowedHost = " "], [Good EXCEPT !.slackAllowedHost = "Slack"],
     [Good EXCEPT !.slackAllowedHost = "other"]}
    \cup {[Good EXCEPT !.retentionDays = d] : d \in {{}, {0}, {-1}, {2}}}
    \cup {[Good EXCEPT !.timeoutSeconds = s] : s \in {{}, {0}, {-7}, {1}, {4}, {8}, {9}}}

MCEditedFiles ==
    {Good, [Good EXCEPT !.decodes = FALSE], [Good EXCEPT !.schedule = Hourly],
     [Good EXCEPT !.slackAllowedHost = "other"]}

MCCanonical == ("" :> "") @@ (" " :> "") @@ ("slack" :> "slack") @@ ("Slack" :> "slack")
               @@ ("slack:443" :> "slack") @@ ("other" :> "other")

Url(form, host) == [form |-> form, host |-> host]
Unset == Url("unset", "")

Silent == [handle |-> TRUE, password |-> TRUE, success |-> Unset, failure |-> Unset]

Both == [Silent EXCEPT !.success = Url("https", "slack:443"), !.failure = Url("https", "Slack")]

MCEnvs == {Silent, Both}

OddEnvs ==
    {[Silent EXCEPT !.success = s, !.failure = f] :
         s \in {Unset, Url("https", "slack:443")}, f \in {Unset, Url("https", "Slack"), Url("https", "other")}}
    \cup {[handle |-> h, password |-> ~h, success |-> Unset, failure |-> Unset] : h \in BOOLEAN}
    \cup {[handle |-> TRUE, password |-> TRUE, success |-> Url("unusable", "slack"), failure |-> Unset]}

\* Every schedule with one environment, and every other pair of file and environment.
ScheduleFiles ==
    {[Good EXCEPT !.schedule = s] :
         s \in OddSchedules \cup UNION {{WithField(f, <<item>>) : item \in Items(f)} : f \in 1..5}}

MCSettings ==
    [file : ScheduleFiles, env : {Silent}] \cup [file : OddFiles \cup MCEditedFiles, env : OddEnvs]

=============================================================================
