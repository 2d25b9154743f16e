------------------------------ MODULE AppConfig ------------------------------
(***************************************************************************)
(* internal/config: what Load makes of the TOML file, LoadCredentials of   *)
(* the environment, and LoadAppConfig of both.                             *)
(*                                                                         *)
(* A result is the empty set when the code returns an error, and otherwise *)
(* has one element.  A key that the file leaves out is the empty set too.  *)
(***************************************************************************)
EXTENDS Integers

CONSTANTS
    MaxTimeoutSeconds,   \* maxExecutionTimeoutSeconds
    Second,              \* time.Second
    DurationRange,       \* how many values a time.Duration has, 2^64 in Go
    Canonical            \* Canonical[h]: a host without port and surrounding space, in one case

ASSUME ConfigAssumption ==
    /\ MaxTimeoutSeconds \in Nat /\ Second \in Nat \ {0} /\ DurationRange \in Nat \ {0}
    /\ MaxTimeoutSeconds * Second < DurationRange \div 2

\* How a webhook's variable may read: not set, no usable https URL, or one.
UrlForms == {"unset", "unusable", "https"}

-----------------------------------------------------------------------------
(* Defects that the runs must find: each replaces the operator it precedes *)

LowerBoundOnly(seconds) == seconds > 0
SuccessHostOnly(creds, allowed) ==
    creds.success.form = "unset" \/ Canonical[creds.success.host] = Canonical[allowed]

-----------------------------------------------------------------------------
(* The file *)

InRange(seconds) == seconds > 0 /\ seconds <= MaxTimeoutSeconds

\* time.Duration(seconds) * time.Second wraps around as a signed integer does.
Duration(seconds) ==
    LET d == (seconds * Second) % DurationRange
    IN  IF d >= DurationRange \div 2 THEN d - DurationRange ELSE d

\* validateConfig; a missing schedule is left for print-schedule to refuse.
ValidateConfig(raw) ==
    {[retentionDays |-> days, timeout |-> Duration(seconds), schedule |-> raw.schedule,
      slackAllowedHost |-> raw.slackAllowedHost] :
         days \in {d \in raw.retentionDays : d > 0},
         seconds \in {s \in raw.timeoutSeconds : InRange(s)}}

\* A file that is not there, is no TOML or has an unknown key does not decode.
Load(file) == IF file.decodes THEN ValidateConfig(file) ELSE {}

-----------------------------------------------------------------------------
(* The environment *)

ValidWebhook(url) == url.form \in {"unset", "https"}

\* LoadCredentials: the webhooks are optional, handle and password are not.
LoadCredentials(env) ==
    IF env.handle /\ env.password /\ ValidWebhook(env.success) /\ ValidWebhook(env.failure)
    THEN {[success |-> env.success, failure |-> env.failure]}
    ELSE {}

HostAllowed(url, allowed) == url.form = "unset" \/ Canonical[url.host] = Canonical[allowed]

\* checkWebhookHostAllowed for both webhooks.
HostsAllowed(creds, allowed) ==
    HostAllowed(creds.success, allowed) /\ HostAllowed(creds.failure, allowed)

\* validateSlackAllowedHost: a webhook needs an allowed host that is not blank.
SlackAllowed(cfg, creds) ==
    \/ creds.success.form = "unset" /\ creds.failure.form = "unset"
    \/ Canonical[cfg.slackAllowedHost] # "" /\ HostsAllowed(creds, cfg.slackAllowedHost)

LoadAppConfig(file, env) ==
    {[config |-> pair[1], credentials |-> pair[2]] :
        pair \in {p \in Load(file) \X LoadCredentials(env) : SlackAllowed(p[1], p[2])}}

=============================================================================
