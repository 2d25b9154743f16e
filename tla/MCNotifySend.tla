----------------------------- MODULE MCNotifySend -----------------------------
(***************************************************************************)
(* Outcomes and a small retry policy for model checking NotifySend.        *)
(***************************************************************************)
EXTENDS NotifySend

MCHeaders == {[form |-> "absent", value |-> 0]}

\* One byte, three bytes, ones that are escaped, and one that is not to be shown; and
\* every place of a wide character at the cut.
Texts == {<<>>, <<"LF", "a">>, <<"<">>, <<"&", ">">>, <<"a", "<", "&">>}
Prefixes == UNION {[1..n -> {"a", "kana"}] : n \in 0..2}

Long == <<"kana", "a", "kana", "kana", "<">>

Outcome(res, err, host, account) == [result |-> res, err |-> err, host |-> host, account |-> account]
Result(targets, deleted, failed) == {[targets |-> targets, deleted |-> deleted, failed |-> failed]}
Failed(rkey, kind) == [rkey |-> rkey, kind |-> kind]

\* A run that succeeded, one that ended early, and ones with a failed post or two.
MCOutcomes ==
    {Outcome(Result(1, 1, <<>>), {}, <<"esc">>, t \o Long) : t \in Prefixes}
    \cup {Outcome({}, {t}, <<"a">>, Long) : t \in Texts}
    \cup {Outcome({}, {}, <<>>, Long)}
    \cup {Outcome(Result(2, 0, <<Failed(t, <<"a">>), Failed(<<"&">>, <<"kana">>)>>), {}, <<"&">>, <<>>) : t \in Texts}
    \cup {Outcome(Result(2, 1, <<Failed(t, <<">">>)>>), {}, <<"a">>, <<>>) : t \in Texts}

=============================================================================
