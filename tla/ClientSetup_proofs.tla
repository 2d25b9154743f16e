-------------------------- MODULE ClientSetup_proofs --------------------------
(***************************************************************************)
(* Proofs about ClientSetup: for any hosts, DIDs, documents and answers of *)
(* DNS, however they change, a client is for the account that its handle   *)
(* names and sends its requests to one verified address, nothing is asked  *)
(* of a host that was not checked, and a refusal ends the set-up.          *)
(***************************************************************************)
EXTENDS ClientSetup, FiniteSetTheorems, TLAPS

-----------------------------------------------------------------------------
(* The inductive invariant *)

\* A DID is held from the resolution of the handle on, and is what DNS names alone or
\* else what the handle's host names, which is asked only after DNS.
ResolvedInv ==
    /\ pc \in {"dns", "https"} => wellKnown = NoDID
    /\ pc = "https" => Cardinality(txt.dids) # 1
    /\ pc \in {"document", "validate", "ready"} =>
           IF Cardinality(txt.dids) = 1 THEN did \in txt.dids ELSE did = wellKnown
    /\ pc \in {"validate", "ready"} => did \in Supported
    /\ wellKnown # NoDID => Cardinality(txt.dids) # 1

\* Nothing is verified and no request sent before the client exists; then the requests
\* go to the pinned address, which was verified.
PinnedInv ==
    /\ pc # "ready" => verified = {} /\ reached = {}
    /\ pc = "ready" => pinned \in verified
    /\ pc = "validate" => endpoint \in Service
    /\ verified \subseteq Safe
    /\ reached \subseteq {pinned} \cap verified

IndInv == TypeOK /\ ResolvedInv /\ PinnedInv /\ EveryAttemptChecked /\ RefusalIsFinal

-----------------------------------------------------------------------------
(* The first state *)

LEMMA InitIndInv == Init => IndInv
<1> SUFFICES ASSUME Init PROVE IndInv
  OBVIOUS
<1>1. TypeOK
  <2>1. 0 \in 0..MaxRetries
    BY SetupAssumption
  <2> QED
    BY <2>1 DEF Init, TypeOK
<1>2. ResolvedInv /\ PinnedInv /\ EveryAttemptChecked /\ RefusalIsFinal
  BY DEF Init, ResolvedInv, PinnedInv, EveryAttemptChecked, RefusalIsFinal
<1> QED
  BY <1>1, <1>2 DEF IndInv

-----------------------------------------------------------------------------
(* The steps of NewClient *)

\* A step that ends the set-up, and leaves what was resolved as it is, keeps everything.
LEMMA FailKeeps ==
    ASSUME IndInv, pc # "ready", Fail, refused' \in BOOLEAN,
           UNCHANGED <<worldVars, wellFormed, attempt, did, endpoint, verified, pinned, txt, wellKnown,
                       reached>>,
           fetches' \subseteq [host : Hosts, answer : Answers], \A f \in fetches' : Trusted(f.answer)
    PROVE  IndInv'
<1> USE DEF IndInv, Fail, worldVars
<1>1. TypeOK'
  BY DEF TypeOK
<1>2. ResolvedInv'
  BY DEF ResolvedInv
<1>3. PinnedInv'
  BY DEF PinnedInv
<1>4. EveryAttemptChecked' /\ RefusalIsFinal'
  BY DEF EveryAttemptChecked, RefusalIsFinal
<1> QED
  BY <1>1, <1>2, <1>3, <1>4

LEMMA RejectHandleKeeps == IndInv /\ RejectHandle => IndInv'
<1> SUFFICES ASSUME IndInv, RejectHandle PROVE IndInv'
  OBVIOUS
<1> QED
  BY FailKeeps DEF RejectHandle, IndInv, TypeOK, EveryAttemptChecked

LEMMA UnsupportedDIDKeeps == IndInv /\ UnsupportedDID => IndInv'
<1> SUFFICES ASSUME IndInv, UnsupportedDID PROVE IndInv'
  OBVIOUS
<1> QED
  BY FailKeeps DEF UnsupportedDID, IndInv, TypeOK, EveryAttemptChecked

LEMMA RejectEndpointKeeps == IndInv /\ RejectEndpoint => IndInv'
<1> SUFFICES ASSUME IndInv, RejectEndpoint PROVE IndInv'
  OBVIOUS
<1>1. refused' \in BOOLEAN
  BY DEF RejectEndpoint
<1> QED
  BY <1>1, FailKeeps DEF RejectEndpoint, IndInv, TypeOK, EveryAttemptChecked

\* The TXT lookup settles the DID, sends the resolution to the handle's host, or ends it.
LEMMA ResolveViaDNSKeeps ==
    ASSUME IndInv, NEW answer \in TXTAnswers, ResolveViaDNS(answer)
    PROVE  IndInv'
<1> USE DEF IndInv
<1>1. /\ pc = "dns" /\ txt' = answer /\ pc' \in {"document", "https", "failed"}
      /\ UNCHANGED <<addresses, ctxEnded, wellFormed, attempt, endpoint, verified, pinned, wellKnown,
                     fetches, refused, reached>>
      /\ pc' = "document" => Cardinality(answer.dids) = 1 /\ did' \in answer.dids
      /\ pc' = "https" => Cardinality(answer.dids) # 1
      /\ did' \in answer.dids \cup {did}
  BY DEF ResolveViaDNS, worldVars, Unique
<1>2. answer \in [kind : {"unasked", "records", "error", "timedOut", "ended"}, dids : SUBSET DIDs]
  BY DEF TXTAnswers
<1>3. TypeOK'
  BY <1>1, <1>2 DEF TypeOK
<1>4. ResolvedInv'
  BY <1>1 DEF ResolvedInv
<1>5. PinnedInv' /\ EveryAttemptChecked' /\ RefusalIsFinal'
  BY <1>1 DEF PinnedInv, EveryAttemptChecked, RefusalIsFinal
<1> QED
  BY <1>3, <1>4, <1>5

\* A request follows only a check of its host that passed, and only a check that refuses
\* the host makes it refused.
LEMMA AttemptedFacts ==
    ASSUME IndInv, NEW verdict, Attempted(verdict)
    PROVE  /\ pc \in {"https", "document"}
           /\ pc = "document" => did \in Supported
           /\ fetches' \subseteq [host : Hosts, answer : Answers]
           /\ \A f \in fetches' : Trusted(f.answer)
           /\ refused' \in BOOLEAN
           /\ refused' => Permanent(verdict)
<1> USE DEF IndInv
<1>1. pc \in {"https", "document"} /\ (pc = "document" => did \in Supported)
  BY DEF Attempted, Fetching
<1>2. FetchHost \in Hosts
  BY <1>1, SetupAssumption DEF FetchHost
<1>3. addresses[FetchHost] \in Answers
  BY <1>2 DEF TypeOK
<1>4. verdict = "trusted" => Trusted(addresses[FetchHost])
  BY DEF Attempted, HostCheck
<1>5. fetches' \subseteq fetches \cup
          (IF verdict = "trusted" THEN {[host |-> FetchHost, answer |-> addresses[FetchHost]]} ELSE {})
  BY DEF Attempted
<1>6. fetches' \subseteq [host : Hosts, answer : Answers] /\ \A f \in fetches' : Trusted(f.answer)
  BY <1>2, <1>3, <1>4, <1>5 DEF TypeOK, EveryAttemptChecked
<1>7. ~refused
  BY <1>1 DEF RefusalIsFinal
<1>8. refused' \in BOOLEAN /\ (refused' => Permanent(verdict))
  BY <1>7 DEF Attempted, Permanent
<1> QED
  BY <1>1, <1>6, <1>8

LEMMA FetchRetriedKeeps == IndInv /\ FetchRetried => IndInv'
<1> SUFFICES ASSUME IndInv, FetchRetried PROVE IndInv'
  OBVIOUS
<1> USE DEF IndInv
<1>1. PICK verdict : Attempted(verdict) /\ ~Permanent(verdict)
  BY DEF FetchRetried
<1>2. /\ pc \in {"https", "document"} /\ refused' = FALSE
      /\ fetches' \subseteq [host : Hosts, answer : Answers] /\ \A f \in fetches' : Trusted(f.answer)
  BY <1>1, AttemptedFacts
<1>3. /\ attempt' = attempt + 1 /\ attempt < MaxRetries
      /\ UNCHANGED <<addresses, ctxEnded, wellFormed, pc, did, endpoint, verified, pinned, txt,
                     wellKnown, reached>>
  BY DEF FetchRetried, MayRetry, worldVars
<1>4. attempt' \in 0..MaxRetries
  BY <1>3, SetupAssumption DEF TypeOK
<1>5. TypeOK'
  BY <1>2, <1>3, <1>4 DEF TypeOK
<1>6. ResolvedInv' /\ PinnedInv'
  BY <1>3 DEF ResolvedInv, PinnedInv
<1>7. EveryAttemptChecked' /\ RefusalIsFinal'
  BY <1>2 DEF EveryAttemptChecked, RefusalIsFinal
<1> QED
  BY <1>5, <1>6, <1>7

LEMMA FetchFailsKeeps == IndInv /\ FetchFails => IndInv'
<1> SUFFICES ASSUME IndInv, FetchFails PROVE IndInv'
  OBVIOUS
<1>1. PICK verdict : Attempted(verdict)
  BY DEF FetchFails
<1>2. /\ pc # "ready" /\ refused' \in BOOLEAN
      /\ fetches' \subseteq [host : Hosts, answer : Answers] /\ \A f \in fetches' : Trusted(f.answer)
  BY <1>1, AttemptedFacts
<1> QED
  BY <1>2, FailKeeps DEF FetchFails

LEMMA ResolveViaHTTPSKeeps ==
    ASSUME IndInv, NEW d \in DIDs, ResolveViaHTTPS(d)
    PROVE  IndInv'
<1> USE DEF IndInv
<1>1. /\ pc = "https" /\ pc' = "document" /\ wellKnown' = d /\ did' = d /\ attempt' = 0
      /\ UNCHANGED <<addresses, ctxEnded, wellFormed, endpoint, verified, pinned, txt, reached>>
      /\ Attempted("trusted")
  BY DEF ResolveViaHTTPS, worldVars
<1>2. /\ refused' = FALSE
      /\ fetches' \subseteq [host : Hosts, answer : Answers] /\ \A f \in fetches' : Trusted(f.answer)
  BY <1>1, AttemptedFacts DEF Permanent
<1>3. TypeOK'
  <2>1. attempt' \in 0..MaxRetries
    BY <1>1, SetupAssumption
  <2> QED
    BY <1>1, <1>2, <2>1 DEF TypeOK
<1>4. ResolvedInv' /\ PinnedInv'
  BY <1>1 DEF ResolvedInv, PinnedInv
<1>5. EveryAttemptChecked' /\ RefusalIsFinal'
  BY <1>2 DEF EveryAttemptChecked, RefusalIsFinal
<1> QED
  BY <1>3, <1>4, <1>5

LEMMA ReadDocumentKeeps ==
    ASSUME IndInv, NEW services \in Documents, ReadDocument(services)
    PROVE  IndInv'
<1> USE DEF IndInv
<1>1. /\ pc = "document" /\ Attempted("trusted")
      /\ UNCHANGED <<addresses, ctxEnded, wellFormed, attempt, did, verified, pinned, txt, wellKnown,
                     reached>>
  BY DEF ReadDocument, worldVars
<1>2. /\ refused' = FALSE /\ did \in Supported
      /\ fetches' \subseteq [host : Hosts, answer : Answers] /\ \A f \in fetches' : Trusted(f.answer)
  BY <1>1, AttemptedFacts DEF Permanent
<1>3. \/ pc' = "failed" /\ endpoint' = endpoint
      \/ pc' = "validate" /\ endpoint' \in Service
  <2>1. \A i \in DOMAIN services : services[i] \in Service
    BY SetupAssumption
  <2>2. \/ \E i \in DOMAIN services : endpoint' = services[i] /\ pc' = "validate"
        \/ pc' = "failed" /\ endpoint' = endpoint
    BY Zenon DEF ReadDocument, Fail
  <2> QED
    BY <2>1, <2>2
<1>4. TypeOK'
  BY <1>1, <1>2, <1>3 DEF TypeOK
<1>5. ResolvedInv'
  BY <1>1, <1>2, <1>3 DEF ResolvedInv
<1>6. PinnedInv'
  BY <1>1, <1>3 DEF PinnedInv
<1>7. EveryAttemptChecked' /\ RefusalIsFinal'
  BY <1>2 DEF EveryAttemptChecked, RefusalIsFinal
<1> QED
  BY <1>4, <1>5, <1>6, <1>7

LEMMA ValidateKeeps == IndInv /\ Validate => IndInv'
<1> SUFFICES ASSUME IndInv, Validate PROVE IndInv'
  OBVIOUS
<1> USE DEF IndInv
<1>1. /\ pc = "validate" /\ pc' = "ready" /\ verified' = addresses[endpoint.host] /\ pinned' \in verified'
      /\ Trusted(addresses[endpoint.host])
      /\ UNCHANGED <<addresses, ctxEnded, wellFormed, attempt, did, endpoint, txt, wellKnown, fetches,
                     refused, reached>>
  BY DEF Validate, worldVars
<1>2. verified' \subseteq Addresses /\ verified' \subseteq Safe
  BY <1>1, SetupAssumption DEF Trusted
<1>3. reached = {} /\ ~refused
  BY <1>1 DEF PinnedInv, RefusalIsFinal
<1>4. TypeOK'
  BY <1>1, <1>2 DEF TypeOK
<1>5. ResolvedInv'
  BY <1>1 DEF ResolvedInv
<1>6. PinnedInv'
  BY <1>1, <1>2, <1>3 DEF PinnedInv
<1>7. EveryAttemptChecked' /\ RefusalIsFinal'
  BY <1>1, <1>3 DEF EveryAttemptChecked, RefusalIsFinal
<1> QED
  BY <1>4, <1>5, <1>6, <1>7

\* A request goes to the pinned address.
LEMMA RequestKeeps == IndInv /\ Request => IndInv'
<1> SUFFICES ASSUME IndInv, Request PROVE IndInv'
  OBVIOUS
<1> USE DEF IndInv
<1>1. /\ pc = "ready"
      /\ UNCHANGED <<addresses, ctxEnded, wellFormed, pc, attempt, did, endpoint, verified, pinned, txt,
                     wellKnown, fetches, refused>>
  BY DEF Request, worldVars
<1>2. reached' \subseteq {pinned} \cap verified
  BY DEF Request, Dialled, PinnedInv
<1>3. TypeOK'
  BY <1>1, <1>2 DEF TypeOK
<1>4. ResolvedInv' /\ EveryAttemptChecked' /\ RefusalIsFinal'
  BY <1>1 DEF ResolvedInv, EveryAttemptChecked, RefusalIsFinal
<1>5. PinnedInv'
  BY <1>1, <1>2 DEF PinnedInv
<1> QED
  BY <1>3, <1>4, <1>5

\* The world changes, and nothing of NewClient with it.
LEMMA WorldKeeps ==
    ASSUME IndInv, UNCHANGED setupVars, addresses' \in [Hosts -> Answers], ctxEnded' \in BOOLEAN
    PROVE  IndInv'
BY DEF IndInv, setupVars, TypeOK, ResolvedInv, PinnedInv, EveryAttemptChecked, RefusalIsFinal

LEMMA NextKeeps == IndInv /\ [Next]_vars => IndInv'
<1> SUFFICES ASSUME IndInv, [Next]_vars PROVE IndInv'
  OBVIOUS
<1>1. addresses \in [Hosts -> Answers] /\ ctxEnded \in BOOLEAN
  BY DEF IndInv, TypeOK
<1>2. ASSUME NEW host \in Hosts, NEW answer \in Answers, DNSChanges(host, answer)
      PROVE  IndInv'
  BY <1>1, <1>2, WorldKeeps DEF DNSChanges
<1>3. CASE ContextEnds \/ UNCHANGED vars
  BY <1>1, <1>3, WorldKeeps DEF ContextEnds, vars, worldVars
<1> QED
  BY <1>2, <1>3, RejectHandleKeeps, ResolveViaDNSKeeps, FetchRetriedKeeps, FetchFailsKeeps,
     ResolveViaHTTPSKeeps, UnsupportedDIDKeeps, ReadDocumentKeeps, ValidateKeeps,
     RejectEndpointKeeps, RequestKeeps DEF Next

LEMMA Invariance == Spec => []IndInv
BY InitIndInv, NextKeeps, PTL DEF Spec

-----------------------------------------------------------------------------
(* What it gives *)

\* Every variable keeps its type, whatever DNS and the hosts answer.
THEOREM TypeCorrect == Spec => []TypeOK
<1>1. IndInv => TypeOK
  BY DEF IndInv
<1> QED
  BY <1>1, Invariance, PTL

\* The requests of a client go to one address, which was trusted when it was verified,
\* however often DNS changes its answer afterwards (validatePDSEndpoint, restrictedDoer).
THEOREM RequestsDoStayPinned == Spec => []RequestsStayPinned
<1>1. IndInv => RequestsStayPinned
  <2> SUFFICES ASSUME IndInv PROVE RequestsStayPinned
    OBVIOUS
  <2>1. reached \subseteq {pinned} /\ reached \subseteq verified /\ verified \subseteq Safe
    BY DEF IndInv, PinnedInv
  <2>2. IsFiniteSet({pinned}) /\ Cardinality({pinned}) = 1
    BY FS_Singleton
  <2>3. Cardinality(reached) <= 1
    BY <2>1, <2>2, FS_Subset
  <2> QED
    BY <2>1, <2>3 DEF RequestsStayPinned
<1> QED
  BY <1>1, Invariance, PTL

\* No request of the resolution goes out unless a check made for that attempt passed,
\* the retries included (hostSafetyCheckedDoer).
THEOREM AttemptsAreChecked == Spec => []EveryAttemptChecked
<1>1. IndInv => EveryAttemptChecked
  BY DEF IndInv
<1> QED
  BY <1>1, Invariance, PTL

\* A client is for the DID that DNS names alone, or else for the one that the handle's
\* host names (resolveHandle).
THEOREM ClientsAreOfTheHandle == Spec => []AccountOfHandle
<1>1. IndInv => AccountOfHandle
  BY DEF IndInv, ResolvedInv, AccountOfHandle
<1> QED
  BY <1>1, Invariance, PTL

\* A host that was refused ends the set-up for good (SSRFError.Permanent).
THEOREM RefusalsAreFinal == Spec => []RefusalIsFinal
<1>1. IndInv => RefusalIsFinal
  BY DEF IndInv
<1> QED
  BY <1>1, Invariance, PTL

=============================================================================
