------------------------------ MODULE SlackText ------------------------------
(***************************************************************************)
(* internal/notify/payload.go: what buildPayload makes of an outcome.      *)
(*                                                                         *)
(* A text is a sequence of characters.  Limits count bytes, so a value of  *)
(* a payload is a sequence of bytes, each the k-th of its character.       *)
(***************************************************************************)
EXTENDS Integers, Sequences

Seqs == INSTANCE SequencesExt

CONSTANTS
    Control,            \* the control characters, the line feed among them
    Wide,               \* the characters of three bytes; all others have one
    MaxPayloadLength,   \* maxPayloadLength
    MarkerLength        \* of truncatedMarker

ASSUME PayloadAssumption ==
    /\ "LF" \in Control /\ {"&", "<", ">"} \cap Control = {}
    /\ MarkerLength \in Nat /\ MaxPayloadLength \in Nat
    /\ MarkerLength <= MaxPayloadLength

Width(char) == IF char \in Wide THEN 3 ELSE 1

Marker == [i \in 1..MarkerLength |-> [char |-> "marker", k |-> 1]]

-----------------------------------------------------------------------------
(* Defects that the runs must find: each replaces the operator it precedes *)

CutsAnywhere(bytes) == MaxPayloadLength - MarkerLength

-----------------------------------------------------------------------------
(* Sanitizing, escaping and truncating *)

\* Sanitize: ControlChars.
Sanitize(text) == Seqs!FlattenSeq([i \in DOMAIN text |-> IF text[i] \in Control THEN <<>> ELSE <<text[i]>>])

\* strings.ReplaceAll
Replaced(text, char, entity) ==
    Seqs!FlattenSeq([i \in DOMAIN text |-> IF text[i] = char THEN entity ELSE <<text[i]>>])

\* The ampersand first, lest those of the others be escaped again.
EscapeSlackMarkup(text) ==
    LET amp == Replaced(text, "&", <<"&", "a", "m", "p", ";">>)
        lt  == Replaced(amp, "<", <<"&", "l", "t", ";">>)
    IN  Replaced(lt, ">", <<"&", "g", "t", ";">>)

SanitizeForPayload(text) == EscapeSlackMarkup(Sanitize(text))

Bytes(text) ==
    Seqs!FlattenSeq([i \in DOMAIN text |-> [k \in 1..Width(text[i]) |-> [char |-> text[i], k |-> k]]])

\* The last start of a rune at or below the naive offset.
TruncationCutPoint(bytes) ==
    CHOOSE cut \in 0..MaxPayloadLength - MarkerLength :
        /\ cut = 0 \/ bytes[cut + 1].k = 1
        /\ \A n \in cut + 1..MaxPayloadLength - MarkerLength : bytes[n + 1].k # 1

Truncate(bytes) ==
    IF Len(bytes) <= MaxPayloadLength THEN bytes
    ELSE SubSeq(bytes, 1, TruncationCutPoint(bytes)) \o Marker

-----------------------------------------------------------------------------
(* The payload *)

\* An outcome has at most one result, with the numbers of targets and deletions and the
\* failures, and at most one error; of an error it has its kind.
IsFailure(outcome) ==
    outcome.err # {} \/ outcome.result = {} \/ \E r \in outcome.result : r.failed # <<>>

\* Lines with a line feed between them.
Joined(lines) == Seqs!FlattenSeq([i \in DOMAIN lines |-> IF i > 1 THEN <<"LF">> \o lines[i] ELSE lines[i]])

\* A line for each failed post.
FailedPosts(failed) ==
    Joined([i \in DOMAIN failed |->
                SanitizeForPayload(failed[i].rkey) \o <<":">> \o SanitizeForPayload(failed[i].kind)])

\* The field that says what failed, if the outcome has it.
Detail(outcome) ==
    IF outcome.err # {}
    THEN {[title |-> "Error", value |-> Truncate(Bytes(SanitizeForPayload(kind)))] : kind \in outcome.err}
    ELSE {[title |-> "Failed posts", value |-> Truncate(Bytes(FailedPosts(r.failed)))] :
             r \in {res \in outcome.result : res.failed # <<>>}}

BuildPayload(outcome) ==
    [host    |-> Truncate(Bytes(SanitizeForPayload(outcome.host))),
     account |-> Truncate(Bytes(SanitizeForPayload(outcome.account))),
     counts  |-> {<<r.targets, r.deleted>> : r \in outcome.result},
     detail  |-> Detail(outcome),
     color   |-> IF IsFailure(outcome) THEN "danger" ELSE "good"]

-----------------------------------------------------------------------------
(* What a value is to show, character by character *)

Shown(char) ==
    CASE char \in Control -> <<>>
      [] char = "&" -> <<"&", "a", "m", "p", ";">>
      [] char = "<" -> <<"&", "l", "t", ";">>
      [] char = ">" -> <<"&", "g", "t", ";">>
      [] OTHER -> <<char>>

ShownText(text) == Seqs!FlattenSeq([i \in DOMAIN text |-> Shown(text[i])])

WholeRunes(bytes) ==
    \A i \in DOMAIN bytes :
        /\ bytes[i].k > 1 => i > 1 /\ bytes[i - 1] = [char |-> bytes[i].char, k |-> bytes[i].k - 1]
        /\ bytes[i].k < Width(bytes[i].char) =>
               i < Len(bytes) /\ bytes[i + 1] = [char |-> bytes[i].char, k |-> bytes[i].k + 1]

\* All of the text if it fits, and otherwise as many whole runes of it as do, and the marker.
Fits(value, text) ==
    LET full == Bytes(text)
        room == MaxPayloadLength - MarkerLength
    IN  IF Len(full) <= MaxPayloadLength THEN value = full
        ELSE \E n \in 0..room :
                 /\ value = SubSeq(full, 1, n) \o Marker
                 /\ WholeRunes(SubSeq(full, 1, n))
                 /\ \A k \in n + 1..room : ~WholeRunes(SubSeq(full, 1, k))

=============================================================================
