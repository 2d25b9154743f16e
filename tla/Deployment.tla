----------------------------- MODULE Deployment -----------------------------
(***************************************************************************)
(* The container of docker-compose.yml: entrypoint.sh runs print-schedule, *)
(* writes a crontab and becomes the cron process, which starts the program *)
(* that loads the configuration again; the operator edits the mounted file *)
(* and recreates the container meanwhile, and whatever ends is restarted.  *)
(*                                                                         *)
(* The cron process reads its crontab once and starts no job while the one *)
(* before it runs.  What a run does with its configuration is CleanupRun.  *)
(***************************************************************************)
EXTENDS AppConfig, CronSchedule, FiniteSets

CONSTANTS
    Settings,      \* the TOML files and environments there may be at first
    EditedFiles,   \* the files the operator may save instead
    Envs,          \* the environments the container may be created with again
    MaxEdits,      \* bound on edits and recreations
    MaxFaults      \* bound on crashes and failed writes

\* The types of a file, an environment and what is loaded of them.
Schedule == [newline : BOOLEAN, fields : Seq(Seq(Seq(STRING)))]
AtMostOne(S) == \A x, y \in S : x = y
RawConfig == {raw \in [decodes : BOOLEAN, retentionDays : SUBSET Int, timeoutSeconds : SUBSET Int,
                       schedule : Schedule, slackAllowedHost : DOMAIN Canonical] :
                  AtMostOne(raw.retentionDays) /\ AtMostOne(raw.timeoutSeconds)}
Webhook == [form : UrlForms, host : DOMAIN Canonical]
Environment == [handle : BOOLEAN, password : BOOLEAN, success : Webhook, failure : Webhook]
Config == [retentionDays : Nat \ {0}, timeout : 1..MaxTimeoutSeconds * Second,
           schedule : Schedule, slackAllowedHost : DOMAIN Canonical]
AppConfigs == [config : Config, credentials : [success : Webhook, failure : Webhook]]

ASSUME DeploymentAssumption ==
    /\ Settings \subseteq [file : RawConfig, env : Environment]
    /\ EditedFiles \subseteq RawConfig
    /\ Envs \subseteq Environment
    /\ MaxEdits \in Nat /\ MaxFaults \in Nat

VARIABLES
    file,       \* config.toml, mounted from the host
    env,        \* the container's environment
    pc,         \* down, or where entrypoint.sh is
    printed,    \* what SCHEDULE is set to: print-schedule's output
    crontab,    \* /tmp/crontab: missing, empty, or with one line
    active,     \* the run under way, if any, and the file and environment it loaded
    judged,     \* history: the file of the last print-schedule, and its verdict
    edits, faults

vars == <<file, env, pc, printed, crontab, active, judged, edits, faults>>

\* The crontab is the set of files at its path, a file the sequence of its lines'
\* schedules.
Missing == {}
Empty == {<<>>}

NoRun == {}
NoVerdict == {}

-----------------------------------------------------------------------------
(* Defects that the runs must find: each replaces the operator it precedes *)

IgnoresStatus(output) == TRUE
LeavesDown(state) == FALSE

-----------------------------------------------------------------------------
(* The container *)

\* runPrintSchedule: the schedule of a file that loads, if it is one.
PrintSchedule(f) == {s \in {cfg.schedule : cfg \in Load(f)} : ValidSchedule(s)}

\* entrypoint.sh goes on only if print-schedule succeeded.
Proceeds(output) == output # {}

\* restart: unless-stopped
Restarts(state) == state = "down"

NoSchedule == [newline |-> FALSE, fields |-> <<>>]

Init ==
    /\ \E s \in Settings : file = s.file /\ env = s.env
    /\ pc = "starting"
    /\ printed = NoSchedule
    /\ crontab = Missing
    /\ active = NoRun
    /\ judged = NoVerdict
    /\ edits = 0
    /\ faults = 0

\* if ! SCHEDULE=$(bsky-cleaner print-schedule ...)
Judge ==
    /\ pc = "starting"
    /\ LET output == PrintSchedule(file) IN
           /\ judged' = {[file |-> file, accepted |-> output # {}]}
           /\ pc' = IF Proceeds(output) THEN "writing" ELSE "down"
           /\ printed' = IF output = {} THEN NoSchedule ELSE CHOOSE s \in output : TRUE
    /\ UNCHANGED <<file, env, crontab, active, edits, faults>>

\* printf ... > /tmp/crontab
WriteCrontab ==
    /\ pc = "writing"
    /\ crontab' = {<<printed>>}
    /\ pc' = "execing"
    /\ UNCHANGED <<file, env, printed, active, judged, edits, faults>>

\* The file cannot be opened, or opened and not filled; the script goes on.
WriteFails ==
    /\ pc = "writing"
    /\ faults < MaxFaults
    /\ faults' = faults + 1
    /\ crontab' \in {crontab, Empty}
    /\ pc' = "execing"
    /\ UNCHANGED <<file, env, printed, active, judged, edits>>

\* Every line of the crontab is one that the documents list.
DocumentedLines == \A lines \in crontab : \A i \in DOMAIN lines : IsCronExpression(lines[i])

\* exec supercronic /tmp/crontab, which needs the file, and which may refuse a line that
\* the documents do not list.
Exec ==
    /\ pc = "execing"
    /\ \/ crontab # Missing /\ pc' = "serving"
       \/ (crontab = Missing \/ ~DocumentedLines) /\ pc' = "down"
    /\ UNCHANGED <<file, env, printed, crontab, active, judged, edits, faults>>

\* The cron process starts the program, whose run loads the file as it is now; when
\* that fails the run ends with exit code 1.
Fire ==
    /\ pc = "serving"
    /\ crontab \notin {Missing, Empty}
    /\ active = NoRun
    /\ active' = {[loaded |-> app, file |-> file] : app \in LoadAppConfig(file, env)}
    /\ UNCHANGED <<file, env, pc, printed, crontab, judged, edits, faults>>

RunEnds ==
    /\ active # NoRun
    /\ active' = NoRun
    /\ UNCHANGED <<file, env, pc, printed, crontab, judged, edits, faults>>

\* The container's main process dies, and all others with it; its files stay.
Crash ==
    /\ pc # "down"
    /\ faults < MaxFaults
    /\ faults' = faults + 1
    /\ pc' = "down"
    /\ active' = NoRun
    /\ UNCHANGED <<file, env, printed, crontab, judged, edits>>

Restart ==
    /\ Restarts(pc)
    /\ pc' = "starting"
    /\ UNCHANGED <<file, env, printed, crontab, active, judged, edits, faults>>

\* The operator saves another file, which the container sees at once.
Edit ==
    /\ edits < MaxEdits
    /\ edits' = edits + 1
    /\ file' \in EditedFiles
    /\ UNCHANGED <<env, pc, printed, crontab, active, judged, faults>>

\* The operator changes the variables and has the container created anew.
Recreate ==
    /\ edits < MaxEdits
    /\ edits' = edits + 1
    /\ env' \in Envs
    /\ pc' = "starting"
    /\ crontab' = Missing
    /\ active' = NoRun
    /\ UNCHANGED <<file, printed, judged, faults>>

Next ==
    \/ Judge
    \/ WriteCrontab
    \/ WriteFails
    \/ Exec
    \/ Fire
    \/ RunEnds
    \/ Crash
    \/ Restart
    \/ Edit
    \/ Recreate

Fairness == WF_vars(Judge) /\ WF_vars(WriteCrontab) /\ WF_vars(Exec) /\ WF_vars(Restart)

Spec == Init /\ [][Next]_vars /\ Fairness

-----------------------------------------------------------------------------
(* Properties *)

\* Every variable has its type: there is one container, with one run and one verdict,
\* and a run's timeout is a positive duration of at most the maximum, whatever overflows.
TypeOK ==
    /\ file \in RawConfig
    /\ env \in Environment
    /\ pc \in {"down", "starting", "writing", "execing", "serving"}
    /\ printed \in Schedule
    /\ crontab \in {Missing, Empty} \/ \E lines \in crontab : crontab = {<<lines[1]>>} /\ lines[1] \in Schedule
    /\ Cardinality(active) <= 1 /\ \A r \in active : r.loaded \in AppConfigs /\ r.file \in RawConfig
    /\ Cardinality(judged) <= 1 /\ \A j \in judged : j.file \in RawConfig /\ j.accepted \in BOOLEAN
    /\ edits \in 0..MaxEdits
    /\ faults \in 0..MaxFaults

\* The values of a file other than its schedule are in range.
OtherwiseInRange(f) ==
    /\ f.decodes
    /\ \E days \in f.retentionDays : days >= 1
    /\ \E seconds \in f.timeoutSeconds : seconds \in 1..MaxTimeoutSeconds

\* A file from which the container can serve, said without the code's parser.
Servable(f) == OtherwiseInRange(f) /\ IsCronExpression(f.schedule)

\* print-schedule refuses no file whose values are in range and whose schedule has only
\* the items that the documents list, and accepts none with another value out of range,
\* or an item that, read as numbers, leaves its field, is out of order or has no positive
\* step.  In between it is free, and uses that: it accepts "5/2", "+5" and "*/100", which
\* the documents do not list (validateSchedule and the functions it calls,
\* validateConfig).
ScheduleJudgedRight ==
    \A j \in judged :
        /\ Servable(j.file) => j.accepted
        /\ j.accepted => OtherwiseInRange(j.file) /\ IsReadable(j.file.schedule)

\* The cron process never serves a line that no start of this container let through:
\* neither after a refusal nor after a write that failed on an earlier line is there one
\* with items out of their fields (entrypoint.sh, fail-closed).
ServesOnlyReadableLines ==
    pc = "serving" =>
        crontab # Missing /\ \A lines \in crontab : \A i \in DOMAIN lines : IsReadable(lines[i])

\* A run under way works with values that are in range, taken from the file that was
\* there when it started: a timeout of as many seconds as written there, whatever the
\* arithmetic, and only webhooks of the allowed host, for both channels
\* (LoadAppConfig and all it calls).
RunsAreUsable ==
    \A r \in active :
        LET cfg   == r.loaded.config
            creds == r.loaded.credentials
        IN  /\ cfg.retentionDays >= 1
            /\ cfg.timeout \in {s * Second : s \in r.file.timeoutSeconds \cap 1..MaxTimeoutSeconds}
            /\ \A url \in {creds.success, creds.failure} :
                   url.form # "unset" =>
                       /\ url.form = "https"
                       /\ Canonical[url.host] # ""
                       /\ Canonical[url.host] = Canonical[r.file.slackAllowedHost]

\* Whatever was wrong before, a container whose file is servable from some time on and
\* that faults only finitely often ends up serving, without anybody starting it: the
\* crash loop of a refused start, or of a line that the cron process refuses, is left by
\* mending the file (docker-compose.yml).
Recovers == <>[]Servable(file) => <>[](pc = "serving")

=============================================================================
