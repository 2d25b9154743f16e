----------------------------- MODULE ListRecords -----------------------------
(***************************************************************************)
(* Client.listAllRecordsWithLimits (internal/atproto/posts.go): following  *)
(* the cursor of com.atproto.repo.listRecords over one collection, within  *)
(* limits on bytes, pages and records.                                     *)
(*                                                                         *)
(* The PDS is either honest, and lists a repository by descending record   *)
(* key while the owner posts and deletes, or arbitrary, and answers with   *)
(* any page and any cursor.                                                *)
(***************************************************************************)
EXTENDS Integers, Sequences, FiniteSets, SequencesExt

CONSTANTS
    Keys,             \* the record keys of the collection: positive, newer ones greater
    Initial,          \* those that exist at first
    Size,             \* Size[k]: the bytes of record k's value
    MaxBytes,         \* maxListTotalBytes
    MaxPages,         \* maxListPages
    MaxRecords,       \* maxListRecords
    PageLimit,        \* listRecordsPageLimit, the most records an honest page has
    ArbitraryPages    \* the pages that an arbitrary PDS may send

NoCursor == 0

ASSUME ListAssumption ==
    /\ Keys \subseteq Nat \ {NoCursor}
    /\ Initial \subseteq Keys /\ IsFiniteSet(Initial)
    /\ Size \in [Keys -> Nat]
    /\ MaxBytes \in Nat /\ MaxPages \in Nat /\ MaxRecords \in Nat
    /\ PageLimit \in Nat \ {0}
    /\ ArbitraryPages \subseteq Seq(Keys)

VARIABLES
    honest,        \* which sort of PDS this is
    repo,          \* the keys of the collection's records
    past,          \* the keys that were deleted
    steady,        \* history: the keys that exist since the listing began
    cursor,        \* the cursor of the last page
    all,           \* the records accumulated
    totalPages, totalRecords, totalBytes,
    fetched,       \* history: how many pages were fetched
    result         \* how the listing ended, "none" before

clientVars == <<cursor, all, totalPages, totalRecords, totalBytes, fetched, result>>
repoVars   == <<repo, past, steady>>
vars       == <<honest, repoVars, clientVars>>

\* BytesTo(page)[n]: the bytes of the first n records of the page.
BytesTo(page) ==
    LET sum[n \in 0..Len(page)] == IF n = 0 THEN 0 ELSE sum[n - 1] + Size[page[n]] IN sum

PageBytes(page) == BytesTo(page)[Len(page)]

-----------------------------------------------------------------------------
(* Defects that the runs must find: each replaces the operator it precedes *)

ChecksPagesBefore(page) ==
    \/ totalBytes > MaxBytes
    \/ totalPages > MaxPages
    \/ totalRecords > MaxRecords
IgnoresPages(page) ==
    \/ totalBytes + PageBytes(page) > MaxBytes
    \/ totalRecords + Len(page) > MaxRecords
ShortPageEnds(next, page) == next = NoCursor \/ Len(page) < PageLimit
StallsUnlessGreater(next) == next <= cursor

-----------------------------------------------------------------------------
(* The client *)

\* The limits, checked before a page is accumulated.
LimitExceeded(page) ==
    \/ totalBytes + PageBytes(page) > MaxBytes
    \/ totalPages + 1 > MaxPages
    \/ totalRecords + Len(page) > MaxRecords

LastPage(next, page) == next = NoCursor

Stalled(next) == next = cursor

Init ==
    /\ honest \in BOOLEAN
    /\ repo = Initial
    /\ past = {}
    /\ steady = Initial
    /\ cursor = NoCursor
    /\ all = <<>>
    /\ totalPages = 0 /\ totalRecords = 0 /\ totalBytes = 0
    /\ fetched = 0
    /\ result = "none"

\* A request that fails for good ends the listing.
FetchFails ==
    /\ result = "none"
    /\ result' = "error"
    /\ UNCHANGED <<honest, repoVars, cursor, all, totalPages, totalRecords, totalBytes, fetched>>

\* One turn of the loop, for an answer with this page and cursor.
Fetch(page, next) ==
    /\ result = "none"
    /\ fetched' = fetched + 1
    /\ IF LimitExceeded(page)
       THEN result' = "limit" /\ UNCHANGED <<cursor, all, totalPages, totalRecords, totalBytes>>
       ELSE /\ all' = all \o page
            /\ totalPages' = totalPages + 1
            /\ totalRecords' = totalRecords + Len(page)
            /\ totalBytes' = totalBytes + PageBytes(page)
            /\ IF LastPage(next, page)
               THEN result' = "done" /\ UNCHANGED cursor
               ELSE IF Stalled(next)
                    THEN result' = "stalled" /\ UNCHANGED cursor
                    ELSE cursor' = next /\ UNCHANGED result
    /\ UNCHANGED <<honest, repoVars>>

-----------------------------------------------------------------------------
(* The PDS and the owner *)

\* What an honest PDS has to list from the cursor on, newest first.
Rest == {k \in repo : cursor = NoCursor \/ k < cursor}

Pages == UNION {[1..n -> Rest] : n \in 0..PageLimit}

\* An honest page: the newest of them in order, at most PageLimit; the cursor is the
\* oldest key of the page, and is absent only when nothing is left.
HonestFetch ==
    /\ honest
    /\ \E page \in Pages :
        LET left == Rest \ ToSet(page)
        IN  /\ \A i, j \in DOMAIN page : i < j => page[i] > page[j]
            /\ \A k \in ToSet(page), other \in left : k > other
            /\ \/ page # <<>> /\ Fetch(page, page[Len(page)])
               \/ left = {} /\ Fetch(page, NoCursor)

ArbitraryFetch ==
    /\ ~honest
    /\ \E page \in ArbitraryPages, next \in Keys \cup {NoCursor} : Fetch(page, next)

\* The owner deletes a record, or posts one newer than any before.
OwnerDeletes ==
    \E k \in repo :
        /\ repo' = repo \ {k}
        /\ past' = past \cup {k}
        /\ steady' = steady \ {k}
        /\ UNCHANGED <<honest, clientVars>>

OwnerPosts ==
    \E k \in Keys :
        /\ \A other \in repo \cup past : k > other
        /\ repo' = repo \cup {k}
        /\ UNCHANGED <<honest, past, steady, clientVars>>

Ended == result # "none" /\ UNCHANGED vars

Next ==
    \/ FetchFails
    \/ HonestFetch
    \/ ArbitraryFetch
    \/ honest /\ result = "none" /\ (OwnerDeletes \/ OwnerPosts)
    \/ Ended

Spec == Init /\ [][Next]_vars

-----------------------------------------------------------------------------
(* Properties *)

\* Every variable has its type.
TypeOK ==
    /\ honest \in BOOLEAN
    /\ repo \subseteq Keys /\ past \subseteq Keys \ repo /\ steady \subseteq repo
    /\ cursor \in Keys \cup {NoCursor}
    /\ all \in Seq(Keys)
    /\ totalPages \in 0..MaxPages
    /\ totalRecords \in 0..MaxRecords
    /\ totalBytes \in 0..MaxBytes
    /\ fetched \in Nat
    /\ result \in {"none", "done", "error", "limit", "stalled"}

\* However an arbitrary PDS repeats cursors and sends pages of any size, the listing ends
\* within its limits: at no moment is more held than MaxRecords and MaxBytes, since a page
\* is measured before it is accumulated, and one page beyond the limit is fetched at most.
WithinLimits ==
    /\ Len(all) <= MaxRecords
    /\ PageBytes(all) <= MaxBytes
    /\ fetched <= MaxPages + 1

\* From an honest PDS a listing that succeeds has every record that existed
\* throughout, and no record twice, whatever the owner posts and deletes meanwhile.
ListingComplete ==
    honest /\ result = "done" => steady \subseteq ToSet(all) /\ IsInjective(all)

\* An honest PDS is never refused without reason: it is not taken to stall although
\* its cursors descend, and a limit is reported only for a collection that has had
\* more records or bytes than that limit, or more pages to fetch (the error returns
\* of listAllRecordsWithLimits).
RefusalJustified ==
    honest =>
        /\ result # "stalled"
        /\ result = "limit" =>
               \/ Cardinality(repo \cup past) > MaxRecords
               \/ PageBytes(SetToSeq(repo \cup past)) > MaxBytes
               \/ fetched > MaxPages

=============================================================================
