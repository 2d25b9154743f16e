---------------------------- MODULE MCClientSetup ----------------------------
(***************************************************************************)
(* Two accounts that a handle may name, of which one is published by the   *)
(* host of its own domain, and a PDS that shares that host or not.         *)
(***************************************************************************)
EXTENDS ClientSetup

MCDIDs      == {"did:plc:a", "did:web:b", "did:key:c"}
MCSupported == {"did:plc:a", "did:web:b"}
MCHosts     == {"web", "pds"}
MCDocumentHost == [d \in MCSupported |-> IF d = "did:web:b" THEN "web" ELSE "pds"]

PDS(https, host) == [pds |-> TRUE, https |-> https, host |-> host]
Other == [pds |-> FALSE, https |-> TRUE, host |-> "web"]
\* No address, one, two, and one of them not to be trusted.
MCAnswers == {{}, {"public1"}, {"public1", "public2"}, {"public2", "private"}}

MCDocuments == {<<Other>>, <<Other, PDS(TRUE, "pds"), PDS(TRUE, "web")>>, <<PDS(FALSE, "pds")>>}

=============================================================================
