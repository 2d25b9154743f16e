------------------------------ MODULE ClientSetup ------------------------------
(***************************************************************************)
(* atproto.NewClient and the connections of the client it returns: the     *)
(* handle is resolved to a DID over DNS or HTTPS, the DID to its document, *)
(* the document to a PDS whose addresses are looked up and verified once   *)
(* (internal/atproto/client.go, did.go, http.go).                          *)
(*                                                                         *)
(* DNS changes meanwhile, and the caller's context may end at any time.    *)
(* Of the retry loop around a fetch (RetryDoer) this module keeps that     *)
(* what fails for a transient reason is tried again, up to MaxRetries.     *)
(***************************************************************************)
EXTENDS Integers, FiniteSets, Sequences

CONSTANTS
    DIDs,           \* the DIDs that a name server or a handle's host may name
    Supported,      \* those of a method that didDocumentURL knows
    DocumentHost,   \* DocumentHost[d]: the host that publishes d's document
    HandleHost,     \* the host that the handle names
    Hosts,
    Addresses,
    Safe,           \* the addresses that isUnsafeIP lets pass
    Answers,        \* what DNS may answer for a host, {} when it has no address
    Documents,      \* the service lists that a DID document may hold
    MaxRetries      \* defaultRetryPolicy.MaxRetries

Service == [pds : BOOLEAN, https : BOOLEAN, host : Hosts]

ASSUME SetupAssumption ==
    /\ Supported \subseteq DIDs
    /\ HandleHost \in Hosts
    /\ DocumentHost \in [Supported -> Hosts]
    /\ Safe \subseteq Addresses
    /\ Answers \subseteq SUBSET Addresses
    /\ Documents \subseteq Seq(Service)
    /\ MaxRetries \in Nat

VARIABLES
    addresses,    \* what DNS answers for each host at this moment
    ctxEnded,     \* whether the caller's context has ended
    wellFormed,   \* whether the handle has no invalidHandleChars
    pc,           \* where NewClient is; "ready" when it has returned a client
    attempt,      \* the retries of the fetch under way
    did,          \* the DID that resolveHandle returned
    endpoint,     \* the service that resolveDIDDocument returned
    verified,     \* restrictedDoer: the addresses that validatePDSEndpoint returned
    pinned,       \* restrictedDoer.pinnedIP
    txt,          \* history: what the TXT lookup came to
    wellKnown,    \* history: the DID that the handle's host named
    fetches,      \* history: the hosts of the requests, and what DNS said of each
    refused,      \* history: whether a host was refused as untrusted
    reached       \* history: the addresses that the client's requests went to

worldVars == <<addresses, ctxEnded>>
setupVars == <<wellFormed, pc, attempt, did, endpoint, verified, pinned, txt, wellKnown,
               fetches, refused, reached>>
vars      == <<worldVars, setupVars>>

NoDID      == "noDID"
NoAddress  == "noAddress"
NoEndpoint == <<>>
Trusted(answer) == answer # {} /\ answer \subseteq Safe

-----------------------------------------------------------------------------
(* Defects that the runs must find: each replaces the operator it precedes *)

AnyOf(dids) == dids # {}
ChecksFirstAttempt(host, n) ==
    IF n > 0 \/ Trusted(addresses[host]) THEN {"trusted"} ELSE {"untrusted", "lookupError"}
RetriesRefusal(verdict) == FALSE
DialsByName == addresses[endpoint.host]
RetriesOnceMore(n) == n <= MaxRetries

-----------------------------------------------------------------------------
(* The decisions of the code *)

\* Whether the TXT records resolve the handle: equal ones count once, and different
\* ones contradict each other.
Unique(dids) == Cardinality(dids) = 1

\* What checkRequestHostSafety may make of a host, for the n-th retry as for the first
\* attempt.
HostCheck(host, n) ==
    {"lookupError", IF Trusted(addresses[host]) THEN "trusted" ELSE "untrusted"}

\* An SSRFError is permanent: the retry loop gives up at once.
Permanent(verdict) == verdict = "untrusted"

\* Whether the n-th attempt may be followed by another.
MayRetry(n) == n < MaxRetries

\* The addresses that a request of the client may be sent to: restrictedDoer rewrites it
\* to the pinned address, and newRestrictedDialContext dials none but verified ones.
Dialled == {pinned} \cap verified

\* Whether a TXT lookup that failed like this ends resolveHandle without trying HTTPS.
NoFallback(answer) == ctxEnded \/ answer.kind \in {"timedOut", "ended"}

-----------------------------------------------------------------------------

Init ==
    /\ addresses \in [Hosts -> Answers]
    /\ ctxEnded = FALSE
    /\ wellFormed \in BOOLEAN
    /\ pc = "dns"
    /\ attempt = 0
    /\ did = NoDID
    /\ endpoint = NoEndpoint
    /\ verified = {}
    /\ pinned = NoAddress
    /\ txt = [kind |-> "unasked", dids |-> {}]
    /\ wellKnown = NoDID
    /\ fetches = {}
    /\ refused = FALSE
    /\ reached = {}

Fail == pc' = "failed"

\* resolveHandle refuses a handle that would change the URLs built from it.
RejectHandle ==
    /\ pc = "dns" /\ ~wellFormed
    /\ Fail
    /\ UNCHANGED <<worldVars, wellFormed, attempt, did, endpoint, verified, pinned, txt, wellKnown,
                   fetches, refused, reached>>

\* What LookupTXT may come to: records, of which only DIDs count; an answer that
\* there are none, or another error; its own timeout; the end of the context.
TXTAnswers ==
    [kind : {"records"}, dids : SUBSET DIDs]
    \cup [kind : {"error", "timedOut"} \cup (IF ctxEnded THEN {"ended"} ELSE {}), dids : {{}}]

ResolveViaDNS(answer) ==
    /\ pc = "dns" /\ wellFormed
    /\ answer \in TXTAnswers
    /\ ctxEnded => answer.kind = "ended"
    /\ txt' = answer
    /\ IF Unique(answer.dids)
       THEN did' \in answer.dids /\ pc' = "document"
       ELSE did' = did /\ pc' = IF NoFallback(answer) THEN "failed" ELSE "https"
    /\ UNCHANGED <<worldVars, wellFormed, attempt, endpoint, verified, pinned, wellKnown, fetches,
                   refused, reached>>

\* The host that the next fetch goes to.
Fetching == pc = "https" \/ (pc = "document" /\ did \in Supported)
FetchHost == IF pc = "https" THEN HandleHost ELSE DocumentHost[did]

\* An attempt of a fetch: the check of its host, and the request if that passes.
Attempted(verdict) ==
    /\ Fetching
    /\ verdict \in HostCheck(FetchHost, attempt)
    /\ refused' = (refused \/ verdict = "untrusted")
    /\ fetches' = IF verdict = "trusted"
                  THEN fetches \cup {[host |-> FetchHost, answer |-> addresses[FetchHost]]}
                  ELSE fetches

\* The lookup failed, or the request did: 429, 5xx or a transport error.
FetchRetried ==
    /\ \E verdict \in {"trusted", "untrusted", "lookupError"} :
           Attempted(verdict) /\ ~Permanent(verdict)
    /\ MayRetry(attempt) /\ ~ctxEnded
    /\ attempt' = attempt + 1
    /\ UNCHANGED <<worldVars, wellFormed, pc, did, endpoint, verified, pinned, txt, wellKnown, reached>>

\* The last attempt failed, or the host was refused, or it redirected, or what it
\* answered is not usable.
FetchFails ==
    /\ \E verdict \in {"trusted", "untrusted", "lookupError"} :
           /\ Attempted(verdict)
           /\ \/ Permanent(verdict)
              \/ ~MayRetry(attempt) \/ ctxEnded
              \/ verdict = "trusted"
    /\ Fail
    /\ UNCHANGED <<worldVars, wellFormed, attempt, did, endpoint, verified, pinned, txt, wellKnown,
                   reached>>

\* The handle's host names a DID.
ResolveViaHTTPS(d) ==
    /\ pc = "https" /\ ~ctxEnded
    /\ Attempted("trusted")
    /\ wellKnown' = d
    /\ did' = d
    /\ pc' = "document"
    /\ attempt' = 0
    /\ UNCHANGED <<worldVars, wellFormed, endpoint, verified, pinned, txt, reached>>

UnsupportedDID ==
    /\ pc = "document" /\ did \notin Supported
    /\ Fail
    /\ UNCHANGED <<worldVars, wellFormed, attempt, did, endpoint, verified, pinned, txt, wellKnown,
                   fetches, refused, reached>>

\* The document arrives; the first service of the PDS type counts.
ReadDocument(services) ==
    /\ pc = "document" /\ ~ctxEnded
    /\ Attempted("trusted")
    /\ \/ \E i \in DOMAIN services :
              /\ services[i].pds /\ \A j \in 1..i - 1 : ~services[j].pds
              /\ endpoint' = services[i] /\ pc' = "validate"
       \/ (\A i \in DOMAIN services : ~services[i].pds) /\ Fail /\ UNCHANGED endpoint
    /\ UNCHANGED <<worldVars, wellFormed, attempt, did, verified, pinned, txt, wellKnown, reached>>

\* validatePDSEndpoint: one lookup, after which the client exists.
Validate ==
    /\ pc = "validate" /\ ~ctxEnded
    /\ endpoint.https /\ Trusted(addresses[endpoint.host])
    /\ verified' = addresses[endpoint.host]
    /\ pinned' \in verified'
    /\ pc' = "ready"
    /\ UNCHANGED <<worldVars, wellFormed, attempt, did, endpoint, txt, wellKnown, fetches, refused,
                   reached>>

\* It is not https, or not trusted, or its lookup fails.
RejectEndpoint ==
    /\ pc = "validate"
    /\ refused' = (refused \/ ~endpoint.https \/ ~Trusted(addresses[endpoint.host]))
    /\ Fail
    /\ UNCHANGED <<worldVars, wellFormed, attempt, did, endpoint, verified, pinned, txt, wellKnown,
                   fetches, reached>>

\* A request of the client, with the password or the session.
Request ==
    /\ pc = "ready" /\ ~ctxEnded
    /\ \E a \in Dialled : reached' = reached \cup {a}
    /\ UNCHANGED <<worldVars, wellFormed, pc, attempt, did, endpoint, verified, pinned, txt, wellKnown,
                   fetches, refused>>

DNSChanges(host, answer) ==
    /\ addresses' = [addresses EXCEPT ![host] = answer]
    /\ UNCHANGED <<ctxEnded, setupVars>>

ContextEnds ==
    /\ ~ctxEnded
    /\ ctxEnded' = TRUE
    /\ UNCHANGED <<addresses, setupVars>>

Next ==
    \/ RejectHandle
    \/ \E answer \in TXTAnswers : ResolveViaDNS(answer)
    \/ FetchRetried
    \/ FetchFails
    \/ \E d \in DIDs : ResolveViaHTTPS(d)
    \/ UnsupportedDID
    \/ \E services \in Documents : ReadDocument(services)
    \/ Validate
    \/ RejectEndpoint
    \/ Request
    \/ \E host \in Hosts, answer \in Answers : DNSChanges(host, answer)
    \/ ContextEnds

Spec == Init /\ [][Next]_vars

-----------------------------------------------------------------------------
(* Properties *)

\* Every variable has its type.
TypeOK ==
    /\ addresses \in [Hosts -> Answers]
    /\ ctxEnded \in BOOLEAN /\ wellFormed \in BOOLEAN /\ refused \in BOOLEAN
    /\ pc \in {"dns", "https", "document", "validate", "ready", "failed"}
    /\ attempt \in 0..MaxRetries
    /\ did \in DIDs \cup {NoDID}
    /\ wellKnown \in DIDs \cup {NoDID}
    /\ endpoint \in Service \cup {NoEndpoint}
    /\ verified \subseteq Addresses
    /\ pinned \in Addresses \cup {NoAddress}
    /\ txt \in [kind : {"unasked", "records", "error", "timedOut", "ended"}, dids : SUBSET DIDs]
    /\ fetches \subseteq [host : Hosts, answer : Answers]
    /\ reached \subseteq Addresses

\* However DNS changes after the client was built, its requests go to one address
\* only, and every address that the PDS had when it was verified was a trusted one
\* (validatePDSEndpoint, restrictedDoer).
RequestsStayPinned ==
    /\ Cardinality(reached) <= 1
    /\ reached \subseteq verified
    /\ verified \subseteq Safe

\* No request of the resolution, no retry either, goes out unless a check of its host
\* made for that very attempt has passed (hostSafetyCheckedDoer).
EveryAttemptChecked == \A f \in fetches : Trusted(f.answer)

\* A client is for the account that the handle names: a DID that DNS names alone has
\* precedence, contradicting ones are never chosen from, and the handle's host is
\* asked only if DNS names none (resolveHandle).
AccountOfHandle ==
    /\ pc \in {"validate", "ready"} =>
           /\ did \in Supported
           /\ IF Cardinality(txt.dids) = 1 THEN did \in txt.dids ELSE did = wellKnown
    /\ wellKnown # NoDID => Cardinality(txt.dids) # 1

\* Once a host is refused nothing else is tried with it, no retry and no other way
\* of resolving the handle (SSRFError.Permanent, resolveHandle, resolveDIDDocument).
RefusalIsFinal == refused => pc = "failed"

-----------------------------------------------------------------------------
(* What a comment says *)

\* errors.go, of "no record, multiple ambiguous records, NXDOMAIN, timeout, or any
\* other resolver-level error": "the fallback decision in resolveHandle treats all of
\* these uniformly".  So a failed lookup under a live context is not the end.
AllDNSFailuresFallBack ==
    [][pc = "dns" /\ wellFormed /\ ~ctxEnded /\ ~Unique(txt'.dids) /\ txt' # txt => pc' = "https"]_vars

=============================================================================
