------------------------------- MODULE Account -------------------------------
(***************************************************************************)
(* The account that a run cleans, outside the program: the records that a  *)
(* PDS holds for it, the pinned post of its profile, and its owner, who    *)
(* posts, pins and deletes with other clients while runs are under way.    *)
(* What the program relies on is modelled from how internal/atproto uses   *)
(* it: a record key names a record of one collection for good, and         *)
(* deleting a record that is absent succeeds.                              *)
(***************************************************************************)
EXTENDS Integers

CONSTANTS
    Records,   \* the records that may exist: [rkey, type, created]
    Initial    \* those that exist at first

\* What ListPosts makes of a record: one of the four post types, or a record that
\* does not decode.
PostTypes == {"original", "reply", "quote", "repost"}

NoPin == 0

ASSUME RecordsAssumption ==
    /\ Records \subseteq [rkey : Nat \ {NoPin}, type : PostTypes \cup {"malformed"}, created : Int]
    /\ Initial \subseteq Records

VARIABLES
    live,     \* the records that exist
    gone,     \* those that existed and were deleted
    pinned    \* the record key of the profile's pinnedPost

accountVars == <<live, gone, pinned>>

AccountInit ==
    /\ live = Initial
    /\ gone = {}
    /\ pinned = NoPin

AccountTypeOK ==
    /\ live \subseteq Records
    /\ gone \subseteq Records \ live
    /\ pinned \in {NoPin} \cup {rec.rkey : rec \in Records}

Erase(rec) ==
    /\ live' = live \ {rec}
    /\ gone' = gone \cup (live \cap {rec})
    /\ UNCHANGED pinned

Publish(rec) ==
    /\ rec \in Records \ (live \cup gone)
    /\ live' = live \cup {rec}
    /\ UNCHANGED <<gone, pinned>>

Pin(rec) ==
    /\ rec \in live
    /\ rec.type # "repost"
    /\ pinned' = rec.rkey
    /\ UNCHANGED <<live, gone>>

Unpin ==
    /\ pinned # NoPin
    /\ pinned' = NoPin
    /\ UNCHANGED <<live, gone>>

\* Everything the owner may do; what is pinned stays pinned when it is deleted.
Owner ==
    \/ \E rec \in Records : Publish(rec) \/ Pin(rec)
    \/ \E rec \in live : Erase(rec)
    \/ Unpin

=============================================================================
