----------------------------- MODULE MCRetryDoer -----------------------------
(***************************************************************************)
(* Constants for model checking RetryDoer: the headers a server may send.  *)
(***************************************************************************)
EXTENDS RetryDoer

MCHeaders == {[form |-> "absent", value |-> 0], [form |-> "seconds", value |-> -1],
              [form |-> "seconds", value |-> 1], [form |-> "seconds", value |-> 9],
              [form |-> "date", value |-> 4], [form |-> "junk", value |-> 0]}

\* A server that asks a client to wait longer than any MaxDelay here.
SlowDownHeaders == {[form |-> "absent", value |-> 0], [form |-> "seconds", value |-> 60]}

=============================================================================
