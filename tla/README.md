# A verification of bsky-cleaner

bsky-cleaner deletes the posts of one Bluesky account that are older than a
retention period, except the pinned one.  It is a short-lived process: cron starts
it, it logs in, lists, deletes, tells Slack, and exits with a code.  What makes it
worth verifying is that its effect is irreversible and happens over a network: the
account changes under it, requests and answers get lost, runs may overlap or be
killed, and the owner learns of all this only through an exit code and a message.

This directory holds TLA+ models of the program, TLC configurations that check
them on small instances, and TLAPS proofs.  File names below are relative to the
root of the repository.

## 1. The system

| Component | State | Operations | Interacts with |
|---|---|---|---|
| `cmd/main.go` `run` | none of its own; the execution-timeout context | setup, one cleanup pass, notification, exit code | all of the below |
| `internal/runner` `Run` | `Result`: targets, deleted, failed | login, list, judge, delete each | `atproto.Client`, `cleanup` |
| `internal/cleanup` | none | `SelectDeletionTargets` | pure |
| `internal/atproto` `Client` | `did`, `session`, pinned PDS address | `NewClient`, `Login`, `ListPosts`, `DeleteRecord` | DNS, handle host, DID document host, PDS, through `retry.Doer` |
| `internal/atproto` paging | cursor, totals, accumulated records | `listAllRecordsWithLimits` | PDS |
| `internal/retry` `Doer` | loop counter, open response body | `Do` | the inner HTTP client, the clock, the caller's context |
| `internal/notify` | none | `Send`: choose the channel, build the payload, post it | Slack, through `retry.Doer` |
| `internal/config` | none | load and validate TOML and environment | files, environment |
| `cmd/main.go` schedule | none | `validateSchedule`, `print-schedule` | `entrypoint.sh` |
| `entrypoint.sh`, `docker-compose.yml` | the crontab, the container's processes | start, write the crontab, become supercronic, restart | the mounted file, Docker, the program |
| `internal/report`, `internal/sanitize` | none | formatting | standard output |
| `scripts/bump_release_version` | three files of the repository | two-phase update | the file system |
| `.github/workflows/release.yml` | the tags of the image registry, the GitHub release | build, check, push four tags, publish | registry |

Outside the program, but part of the models: the PDS that holds the account's
records, its owner who uses other clients meanwhile, and the network.

**What is hard.**  The pinned post and the listing are read at different moments
from a repository that its owner changes.  A delete may be applied although its
answer was lost, or after its run is over.  Two contexts with deadlines bound
everything (the execution timeout and the notification's 15 seconds), and each
HTTP attempt has a third.  A run goes on after a failed delete but must stop on any
error before the deletes.  Two runs of host cron may overlap.  A PDS may misbehave
in its paging.  Durations may overflow, limits are compared at boundaries.  The list of
hazards, each at its line, is in `PROJECT.json`.

**What makes each component correct.**

* *run and Run*: only records that were eligible at one moment are ever erased,
  nothing is erased by a run that failed before its deletes or was not to apply,
  only the account that was resolved is touched; the report, the exit code and the
  notification tell the truth and agree; every run ends.
* *paging*: a listing that succeeds is complete and without duplicates, and none
  takes more memory or more requests than its limits say.
* *retry loop*: only what is worth it is retried, and at most `MaxRetries` times; waits honour
  the server's hint and the policy; no body leaks; the call ends with its context.
* *handle resolution*: the DID is unique and its source has precedence; DNS failures fall back;
  credentials go only to addresses that were verified.
* *notification*: at most one channel, one message per attempt, never an effect on the exit
  code; what `Send` returns is what is known to have happened; a payload is complete, or cut where it may be.
* *configuration, schedule, container*: everything that is accepted is usable, nothing that is
  rejected has an effect, and a container recovers once its file is mended.
* *bump tool, release*: no mixture of versions is taken for a success.

## 2. The modules

| Module | Models | Code |
|---|---|---|
| `RetryDoer` | one call of `retry.Doer.Do`, in discrete time | `internal/retry/doer.go`, `clock.go` |
| `RetryDoer_proofs` | its inductive invariants and six theorems | |
| `Account` | the records, the pin and the owner (external) | as `internal/atproto` uses them |
| `RetentionPolicy` | the abstract promise: authorised once, erase only what was authorised | `README.md`, "retention" |
| `CleanupRun` | runs of the whole program over an account | `cmd/main.go` `run`, `runner.go`, `cleanup.go`, `session.go`, `posts.go`, `delete.go` |
| `CleanupRun_proofs` | its inductive invariant, seven theorems and the refinement of `RetentionPolicy` | |
| `ListRecords` | following cursors within limits | `posts.go` `listAllRecordsWithLimits` |
| `ListRecords_proofs` | induction over sums, its inductive invariant and four theorems | |
| `ClientSetup` | resolving a handle to a client bound to one address | `client.go`, `did.go`, `http.go`, `errors.go` |
| `ClientSetup_proofs` | its inductive invariant and five theorems | |
| `SlackText` | the payload: sanitizing, escaping, truncating | `internal/notify/payload.go`, `internal/sanitize` |
| `NotifySend` | one call of `notify.Send`, composed with `RetryDoer` | `internal/notify/notify.go` |
| `NotifySend_proofs` | its inductive invariant over that of `RetryDoer`, induction over texts, and three theorems | |
| `AppConfig` | what is made of a file and an environment | `internal/config` |
| `CronSchedule` | `validateSchedule`, the language that the documents list, and a wider one | `cmd/main.go`, `docs/tasks/0007_docker_distribution` |
| `Deployment` | the container, its operator and its crashes, over the two modules above | `entrypoint.sh`, `docker-compose.yml`, `cmd/main.go` |
| `Deployment_proofs` | the parser between the two languages, its inductive invariant and four theorems | |
| `BumpRelease` | calls of the version bump tool over its three files | `scripts/bump_release_version/main.go` |
| `BumpRelease_proofs` | its inductive invariant and four theorems | |
| `ReleasePipeline` | runs of the release workflow over tags, registry and releases | `.github/workflows/release.yml`, `scripts/check-existing-tag.sh` |
| `ReleasePipeline_proofs` | its inductive invariant, two theorems and an action property | |
| `MCRetryDoer`, `MCCleanupRun`, `MCListRecords`, `MCClientSetup`, `MCNotifySend`, `MCDeployment`, `MCBumpRelease`, `MCReleasePipeline` | small instances for TLC | |

### RetryDoer

`pc` says where `Do` is: about to send (`attempt`), draining an intermediate
response (`drain`), in `Clock.Sleep` (`sleep`) or `returned`.  `log` records for
each attempt its outcome, its Retry-After hint and when it began and ended;
`bodies` what became of its response body.  The six kinds of outcome are the cases
that `classify` tells apart.  Time is an integer; it passes only in the inner
client, while draining and in `Sleep`, so the model is a transcript of the loop's
timing.  `AttemptTimeout` is the inner client's own bound (`xrpcRequestTimeout`, `requestTimeout`); the
client that fetches a DID or its document has none, which is an `AttemptTimeout` as large as the deadline,
and `BudgetHonoured` then says no more than `DeadlineHonoured`.  `AttemptReturns` and `AttemptRetried` are one turn of the loop up to the
early returns at lines 105-116; `DrainDone`/`DrainAborts` are `drainAndClose`,
`SleepDone`/`SleepCutShort` the wait, and `CloneFails` is the early return of
`cloneForAttempt`.  `BaseDelay << attempt` wraps modulo `DurationRange`, which is
2^64 in Go.  A 429's date header is relative to the time at which it arrives.

### Account, RetentionPolicy and CleanupRun

`Account` is what lies outside: `live` and `gone` records, the `pinned` key, and an
owner who posts, pins, unpins and deletes at any time.

A run of `CleanupRun` goes through the phases `setup`, `login`, `posts`, `reposts`,
`pin`, `delete`, `notify`, `exit`.  Its variables are those of the code:
`session`, the inventory that `ListPosts` accumulates, `Result`'s `targets`,
`deleted` and `failed`; `call` is the delete under way with its attempt and the
answer that has come back.  A delete request is put into the set `requests` and
stays there until the PDS handles it (`PDSErases`, `PDSRefuses`), however late and
even if its run has moved on, timed out or been killed; a retry puts a further one
there.  Losing an answer is the answer `"none"`, losing a request is
`PDSRefuses` with `"none"`.  `timeUp` is the end of the execution-timeout context: after it
`DeleteSent` is no longer possible and every remaining target fails
(`DeleteNotSent`), as `http.Client` fails under an ended context.  Calls that only read are
one step or fail (`CallFails`); that each is a retry loop of its own changes
nothing for this module.  A post that does not decode is a record of its own type; a repost that does not is
such a failure too, with the same end.  `erased`, `atStart` and `pinSeen` are history.

`RetentionPolicy` is the abstract specification.  A run is authorised at one moment,
once, for records that are older than its threshold and not pinned at that very
moment, and whatever is erased must have been authorised.  `CleanupRun!Promise`
is the refinement: `authorised` is `targets` for an applying run, `judged` are the
runs that have read the pin.  It shows that the targets never change after the
selection and that inventory and pin are judged together although they were
read at different moments.

### ListRecords

`Fetch(page, next)` is one turn of the loop for any answer; `HonestFetch` restricts
the answer to what a PDS that lists by descending key may say while the owner
posts and deletes, `ArbitraryFetch` lets it be any of a set of pages with any
cursor.  `steady` is history: the keys that existed throughout.

### ClientSetup

`pc` follows `NewClient`: the TXT lookup (`dns`), the fetch from the handle's host
(`https`), the fetch of the DID document (`document`), `validatePDSEndpoint`
(`validate`), then `ready` or `failed`.  `addresses` is what DNS answers for each host right
now and changes at any step (`DNSChanges`), as the caller's context may end at any step
(`ContextEnds`).  `TXTAnswers` lists what a lookup comes to; its own timeout is told apart
from other errors because line 175 of `did.go` does so.  A fetch is an attempt of
`hostSafetyCheckedDoer` (`Attempted`: the host check and, if that passes, the request), repeated by
`FetchRetried`; success is `ResolveViaHTTPS` or `ReadDocument`.  `verified` and `pinned`
are the fields of `restrictedDoer`, which `Dialled` uses as `Do` and
`newRestrictedDialContext` do.  A refusal is an `SSRFError`.

Left out: for its resolution requests the shared `http.Client` looks the host up once more
when it connects, so what `EveryAttemptChecked` says is that the check is made for
each attempt, not which address the connection then goes to.  Only requests to
the PDS carry credentials, and those are pinned.

### NotifySend and SlackText

`NotifySend` extends `RetryDoer`: each step of the loop is a step of `Send`.  `stage` is
`choose` up to the request, `call` in the loop, then `returned`; `Skip` is the early return
without a webhook, `Post` builds the payload.  With each attempt (`CallAttempt`)
`perAttemptTimeoutDoer` makes a context, which is released at once if there is no body and
with the body otherwise (`contexts`); the loop closes intermediate bodies (`CallDrain`),
`send` the last one (`SendReturns`).  `arrivals` is the channel's side and external: a message is
taken with a 2xx, and perhaps although the answer is a 5xx or none, then or later (`Arrives`).
A message that arrives twice is possible and not judged; `SendTruthful` says when.

`SlackText` is `buildPayload` over texts of characters, and over bytes where limits count.  `Fits` states the intent in
another way: character by character, and the longest prefix of whole runes.  The code escapes before it
truncates, so an entity may be cut; that is what the code does and `Fits` allows it.  Left out: texts that
are not UTF-8, the wording of `errorKind` and of the summary, the redacting of URLs in logs.

### AppConfig, CronSchedule and Deployment

`AppConfig` has `Load`, `LoadCredentials` and `LoadAppConfig` as operators that return no result
or one.  A webhook is its form and its host; `Canonical` stands for the comparison of hosts,
which ignores case, port and surrounding space.  Durations wrap modulo `DurationRange`.
`CronSchedule` follows `validateSchedule` token by token: where it cuts, what `strconv.Atoi`
reads, and the pair of −1 by which a wildcard skips the bounds.  Two languages are given by
generation, without the parser.  `IsCronExpression` is the documented one: five fields of the items
`*`, `*/n`, `a-b`, `a-b/n` and `a` within the field's range
(`docs/tasks/0007_docker_distribution/01_requirements.md:54`, `02_architecture.md:162`).  The code accepts
more (section 5), so the documented language bounds it only from below.
`IsReadable` bounds it from above: the same items of numbers that may have a sign, also `a/n`, with any
positive step.  It still keeps each number within its field, ranges in order and steps positive.  Neither
says which of the items in between supercronic can follow.

`Deployment` has the operator's `file` and `env`, the script's `pc`, its variable `printed`
(`SCHEDULE`), the `crontab`, and at most one run of the program (`active`) with what it loaded.
`Judge`, `WriteCrontab` and `Exec` are lines of `entrypoint.sh`, `Fire` is the cron process
starting the program, `Restart` is Docker's restart policy.  The writing may fail, which the script does not
notice, and the container may end anywhere (`Crash`); files survive that, but not a
recreation.  An edited schedule takes effect only at the next start, while every other key
is read by the next run.  After a failed write the container may serve an old line or
none; that is in the model, and only that such a line was let through is checked.  supercronic,
Docker and the operator are external.  supercronic takes the lines that the documents list and may
refuse any other (`Exec`), upon which the container goes down and is restarted.

### ReleasePipeline

`run[r]` is a run of the workflow: where it is, its tag, how it was started, the commit it checked
out, how many of its four names it has pushed, and whether its artifacts are there.  `MayStart`
is the concurrency group of a tag; a run that enters the queue replaces one that waits there, as
GitHub does.  `Check` is `check-existing-tag.sh`, whose inspection may come to no answer;
`Push` and `PushLost` push the next name, the latter without learning of it; `Create`
is the second job, with or without all files; a published release of the tag stops it, a draft does not,
and of several drafts the model keeps the newest.  `Fails` is any failing step and both timeouts.  Runs that ended are
started again as a whole (`Rerun`) or from the second job (`RerunFailedJob`), artifacts expire, and the
maintainer may move a tag.  `registry` and `releases` are the outside; `given` is history.

Left out: names of another form than a version, which fail at once, and an operator who deletes images or releases.

### BumpRelease

A file is the versions at the places where its pattern may find one, the rest of its
text, and its mode.  `pc` follows `run`: `prepare` is the loop of phase 1 (`Prepare`
for each target, `Validated` after the last), then `create`, `fill`, `chmod` and
`rename` are the steps of `writeFileAtomic` for one target.  Each of them may fail (`WriteFails`),
and the process may be killed before each (`Kill`); closing the temporary file, which
can fail too, belongs to the step before the rename.  `temp` is the temporary file,
`prepared` what phase 1 built in memory.  Calls follow one another, with the same or
another version, and between them the developer edits, removes and restores the
targets (`Edit`).  `before` and `broken` are history.

Left out: edits while a call is at work, which it would overwrite, and a clean-up that
itself fails, whose error the code ignores.

## 3. The runs

| Run | Configuration | Question | Result |
|---|---|---|---|
| `retry` | `MCRetryDoer.cfg` | retries, bodies, waits, deadlines and budget of a call | holds |
| `notify_drain` | `MCNotifyDrain.cfg` | does draining abort a call only under an ended context? (comment at `doer.go:189`) | violated |
| `cleanup` | `MCCleanupRun.cfg` | one run, all its failures, safety, refinement and termination | holds |
| `two_runs` | `MCTwoRuns.cfg` | do two overlapping runs keep the retention policy's promise? | holds |
| `listing` | `MCListRecords.cfg` | completeness, limits and termination of paging | holds |
| `setup` | `MCClientSetup.cfg` | which account, hosts and addresses a client is for, while DNS changes | holds |
| `dns_fallback` | `MCFallback.cfg` | do all DNS failures fall back to HTTPS? (comment at `errors.go:13`) | violated |
| `notify` | `MCNotifySend.cfg` | does `Send` tell the truth, release what it holds, and say what there is to say? | holds |
| `deployment` | `MCDeployment.cfg` | what is let through, what runs work with, and does the container come up once its file is mended? | holds |
| `release` | `MCRelease.cfg` | what concurrent, failing and repeated releases may do to what is published | holds |
| `release_latest` | `MCLatest.cfg` | is `latest` the newest release? (comment at `docker-compose.yml:18`) | violated |
| `bump` | `MCBumpRelease.cfg` | what a bump that fails or is killed leaves, and whether the next call repairs it | holds |

**Bounds and why they are enough.**

* `retry`: two retries, so that there is a first, a middle and a last attempt;
  durations of three bits, so that the second doubling overflows to a value that is
  not positive; `MaxDelay` 3 lies between the first and the second backoff; hints
  below `MaxDelay`, above it and above `MaxRetryAfter`; deadlines before the first attempt, in
  the middle of attempts and waits, at the moments they end, and never.
* `notify_drain`: the real constants of `internal/notify`, in half seconds.
* `cleanup`: a post, a repost and a record that does not decode, the last one posted
  by the owner or not; one retry, so that a request may be outstanding twice;
  both modes; the timeout and the kill at any step.
* `two_runs`: two posts and two thresholds, one of which equals a record's age exactly;
  no retries, timeouts or kills, which the other run has.  It checks the promise of `RetentionPolicy`; that
  exit code 0 means clean also when runs overlap, or after a run was killed, is the theorem
  `CleanExitIsClean`, which is about any set of runs.
* `listing`: six keys, pages of two, limits that an honest listing of the largest repository exceeds and
  that of the initial one does not; arbitrary pages that are empty, repeat, and exceed each limit.
* `setup`, `dns_fallback`: a `did:plc` whose document is at the host that is later the PDS, a
  `did:web` at the handle's own host, and a method that is not supported; none, one or two
  addresses, one of them not to be trusted; documents with no PDS, one without https, and two;
  one retry, so that DNS may change between two attempts.
* `notify`: two retries, as `retry` has, under a context that ends early or late; texts with a character of
  one and of three bytes at every place at the cut, characters that are escaped and ones that are not shown; one
  failed post and two; the failure webhook configured or not.
* `deployment`: for each field of a schedule every item of up to two tokens (three for the last
  field, whose bounds are the oddest) and the longer ones with two numbers, signs and steps, over numerals at, just
  above and at the bottom of the field's bounds, among them documented items, items that only the code accepts and
  items that nobody does; malformed schedules; each other key missing, at, and beyond its bounds;
  durations of five bits, so that one value wraps around to zero and one to a value that looks right.
  One edit or recreation and two faults, so that a fault may hit a start that follows an edit.
* `release`: two patch releases, which share every floating tag; two runs, each of either version, so that
  they compete for a name or for a group; two restarts, two commits and a bootstrap run.
  `release_latest`: the same, tagged from old to new, without restarts.
* `bump`: the three targets; two versions and an argument that only begins like one; files
  with one place for a version, with two, and with one that does not match; two calls, so that
  one may complete what the other left half done or replace it by another version.

**Fairness.**  `CleanupRun!FairSpec` assumes weak fairness of each run's own next step, no more:
every call of the program is bounded by a timeout (`xrpcRequestTimeout`, the
execution timeout, `notifyTimeout`) and after it fails or returns, so a run that
is not killed always goes on.  Nothing is assumed of the PDS, the network or the
owner, and `EveryRunEnds` holds without them.  `Deployment!Spec` assumes weak fairness of the
script's own steps, which are short and wait for nobody, and of Docker's restart (`restart:
unless-stopped`); nothing of the cron process, the runs or the operator.  Faults are finite, by
`MaxFaults`: a container that crashes for ever does not come up.

## 4. The proofs

`RetryDoer_proofs` proves, for every policy, latency, header and deadline,
`TypeOK`, `RetriesJustified`, `BodiesSettled`, `DeadlineHonoured` and
`BudgetHonoured`.  The assumptions are `PolicyAssumption` and
`EnvironmentAssumption`: delays are natural numbers.  None of the properties is inductive
alone.  The invariant `IndInv` adds `ControlInv` (what the log looks like at each
`pc`), `BodyInv` with `ReturnedBodyInv` (only the newest body is ever open) and
`TimeInv` (how much of the budget has been spent at each `pc`, and which attempt
may have begun at the deadline).  There is one lemma per part of the invariant and
one step per action in it; `Invariance` combines them.

`PacingHonoured` is false for arbitrary constants: a shift that wraps around may come out positive
and too small.  `PacingIsHonoured` therefore has the hypothesis `OverflowHarmless`: each shift is not
positive, which the code takes for `MaxDelay`, or no smaller than what was meant.  `NoOverflowHarmless` shows
that it holds wherever no shift wraps around, which is so for Go's 2^64 nanoseconds and the
policies of this repository; the run `retry` has values that overflow to something not positive.

`CleanupRun_proofs` proves, for every account, any set of overlapping runs with any
thresholds, and any number of retries, all safety properties of `CleanupRun`
(`TypeOK`, `ErasedWasEligible`, `FailsClosed`, `OwnAccountOnly`, `ReportTruthful`,
`CleanExitMeansClean`, `SignalsAgree`), and `Spec => Promise`: the runs implement
`RetentionPolicy`.  The assumptions are `RecordsAssumption` (a record has a key that is
not `NoPin`, one of the five types and a time) and `RunAssumption`.  The properties are not inductive for two
reasons, and the invariant `IndInv` adds what is missing:

* what is in the network outlives the run that sent it, so a request must carry its
  eligibility: it is of a target of its run (`RequestInv`), and a run's targets are those that
  `SelectDeletionTargets` chose from an inventory that decodes, once and for all (`SelectInv`,
  which needs to know where a run may be before it has judged, `PhaseInv`);
* an answer is believed after the account has moved on: what a run has listed exists or is
  gone for good (`ListInv`), so a record of which the PDS says "ok" is gone and stays gone
  (`CallInv`), and so does what the report says (`ReportInv`).  `ListInv` also says that the two
  listings together miss nothing that existed at the login and still does, which
  is what a clean exit rests on.

There is one lemma per action, with a step for each part of the invariant that the action
disturbs, and `NextKeeps` combines them.  For the refinement, `ReadPin` is the
moment of `Authorise`, `PDSErases` is `EraseAuthorised`, the owner's steps are the
owner's, and every other step leaves the account and the authorisations alone.

`ListRecords_proofs` proves `TypeOK`, `WithinLimits`, `ListingComplete` and `RefusalJustified` for
every repository that is finite at first, any record sizes and limits, and any pages of a misbehaving PDS.  Three things go into it:

* *sums.*  `PageBytes` is a recursive function.  That the bytes of two pages add up
  (`PageBytesConcat`) is an induction over a page, which `SetInduction` provides in the form of
  sets: a set of numbers with 0 that is closed under successors has all of them, by the
  well-foundedness of `<` (`WFMin`).
* *descending pages.*  `DownToCursorInv`: what is held reaches down to the cursor, so that nothing that
  existed throughout and lies above the cursor is missing; `SentInv`: what is held is in order,
  hence without duplicates.  The owner's posts are newer than the cursor, so neither is disturbed.
* *a refusal has a reason.*  What was held and is on the page were different records of the
  repository; `LimitIsPassed` concludes that the repository had as many and as large ones, because some
  records never have more bytes than all of them in any order (`BytesOfSome`).

`ClientSetup_proofs` proves all five safety properties of `ClientSetup` for any hosts, answers of DNS and
documents.  `ResolvedInv` says where the DID at hand came from at each `pc`, which is
needed because the reason for the fallback to HTTPS is forgotten when the document is fetched;
`PinnedInv` says that nothing is verified before the client exists, and that what
requests reached is at most the pinned address.  DNS may change at any step and disturbs
neither, which is the point of pinning.

`NotifySend_proofs` extends `RetryDoer_proofs` and uses its invariant while `Send` is in the loop: a
context is live exactly while a body is to be read (`ContextInv`), and an attempt that was acknowledged is the
last, has arrived, and is what the loop returns (`AcknowledgedInv`).  `StageInv` carries
what the loop guarantees at its end over to the return of `Send`.  Its third theorem, `PayloadsFit`, holds for
all texts, limits and markers.  That the payload is the one built of the outcome is a
two-line invariant (`PayloadInv`); the work is in `SlackText`, in three steps:

* *texts, by induction.*  `FlattenSeq` is a recursive function; `FlattenConcat` says that it goes from a
  concatenation to one.  Whatever is made of a text character by character is therefore a `Translation`, and
  two translations that agree on each character agree on each text (`TextInduction`, again from `SetInduction`).
* *escaping.*  Removing the control characters, then replacing `&`, `<` and `>` one after the other,
  is a translation; for one character it does what `Shown` says, because the entities have
  none of the characters replaced after them (`EntitiesStay`, the reason for the order in the
  code).  So it does for every text (`SanitizedIsShown`).
* *truncating.*  The bytes of a text are whole runes (`BytesAreRunes`), a prefix of them is too exactly if it
  ends before the start of one (`PrefixOfRunes`), and there is a last such place within the room
  (`CutPointExists`), which is where the code cuts (`TruncatedFits`).

It assumes `PayloadAssumption` (the marker fits; the line feed is a control character and the three characters
of markup are not) and `OutcomeAssumption` (texts are sequences of characters, and a run has at
most one error).

`BumpRelease_proofs` proves the four properties of `BumpRelease` for any list of distinct targets, any contents and any
number of calls.  `PrepareInv` relates what phase 1 holds in memory to what the call found,
`ProgressInv` relates `pc` to how many targets are written and to what the temporary file
holds.  `AlwaysRepeatable` rests on `BumpedFacts`: what was replaced still matches.

`ReleasePipeline_proofs` proves `FloatingTagsFirst`, `ReleaseMatchesImage` and the action property
`PublishedImagesStay` for any versions, commits and number of runs.  Checking and pushing are
not atomic; what protects a published image is that runs of the same tag exclude each other
(`ExclusiveInv`), so that what `Check` found is still so at the push (`UncheckedInv`).  The fourth name of a
version is its own and no other version's (`VersionNames`); a run that has come to it gave its
image to the first three (`PushedInv`).  For the release job, which may be started again
much later, `PublishedInv` says that the image of a run's own commit was published and stayed.

`Deployment_proofs` has two parts.  The first is about operators only.  `SchedulesAccepted` proves that
`ValidSchedule`, which cuts and reads as the code does, accepts every schedule that the documents list
(`DocumentedItem`) and only readable ones (`ItemReadable`), for all sequences of tokens and all numerals.
Either direction goes by what `Cut` does: to a text that was joined (`CutJoin`) the one, to a text that has the
token (`JoinCut`) the other, with a lemma for each form that an item's base may have, and the step.  `DurationIsExact` proves that an accepted timeout does not wrap around, from
`ConfigAssumption`: the largest accepted number of seconds fits into a duration, which holds of
`maxTimeoutSeconds` and 64 bits.  `LoadIs` and `LoadAppConfigIs` say what is loaded from a file.  The
second part is the invariant of the container: what is about to be written and what is in the crontab are readable
lines (`WrittenInv`), the verdict is a right one of its file (`JudgedInv`), and a run works with what its own
file says (`ActiveInv`).  `ServesOnlyReadableLines`, `ScheduleJudgedRight` and
`RunsAreUsable` follow.  The files, environments and numerals are assumed to have their types and a key of a file at most one value
(`DeploymentAssumption`, `NumeralAssumption`), no more.

## 5. Where the code and its documentation differ

Three runs refute a comment; none of them is about what is deleted.

* `notify_drain`: a 429 or 5xx whose body hangs runs into the deadline of its
  own attempt, and `drainAndClose` takes that for the end of the caller's
  context: the remaining retries are given up.
* `dns_fallback`: a TXT lookup that runs into its own three seconds is taken for the end of the
  caller's context, and the fallback to HTTPS is skipped.
* `release_latest`: two releases made at the same time push the floating tags in any order, and
  `latest` may end up at the older one.

Four smaller differences follow from the models without a run of their own.

*Schedules.*  The documents list the items `*`, `*/n`, `a-b`, `a-b/n` and `a`, and give as the reason that there
be no divergence from what supercronic and other implementations of cron accept
(`docs/tasks/0007_docker_distribution/01_requirements.md:54`, `02_architecture.md:162`).  `validateSchedule` also accepts

* a single value with a step, `5/2`, which a comment of the code names as a form (`cmd/main.go:165`);
* a sign where `strconv.Atoi` takes one: `+5`, `1-+5`, `*/+2`, and `0--0`;
* a step beyond the field, `*/100`, since "value is not range-checked further" (`cmd/main.go:199`).

Files with such items are among those of the run `deployment` and are accepted there.  None names a value outside
its field (`ScheduleJudgedRight`).  But whether the cron process takes such a line is no longer decided before it
starts: if it does not, the container passes print-schedule and restarts for ever, until the file is
mended (`Recovers`).

*Budgets and limits.*  With a
Retry-After of 4 s or more `Send`'s three attempts and two waits need 17 s, more than the
context of 15 s allows (`cmd/main.go:63`).  Exit code 3 also covers runs in which every
delete failed (`README.md:224`).  The limit on pages is checked after the fetch, so one page more is
fetched than `maxListPages` (`posts.go:40`), which `WithinLimits` states.

## 6. What is only model-checked, and what is not modelled

Liveness (`EveryRunEnds`, `Recovers`) is out of the prover's reach.  The three properties of section 5
are false.  Every other property of a run is proved.

Not modelled: flag parsing; the wording of reports, summaries, error kinds and logs; TOML, JSON,
headers and URLs; TLS; `ResolveHostname` and secret redaction; the preview tool, the image
build and continuous integration.  They have no state and decide nothing that the models tell apart.  The calendar
arithmetic of the threshold is a constant per run.

## 7. Plan

1. `RetryDoer` with proofs, `Account`, `RetentionPolicy`, `CleanupRun`, `ListRecords`, `CleanupRun`'s proofs (done).
2. `ClientSetup` (done): handle resolution over DNS and HTTPS under two deadlines, the DID
   document, verified and pinned addresses while DNS changes (`did.go`, `client.go`, `http.go`).
3. `SlackText` and `NotifySend` (done): the channel, its attempts and the webhook's side of a repeated request.
4. `CronSchedule` (done): `validateSchedule` between the documented items and a wider bound.
5. `BumpRelease` (done): two phases, renames, a crash between them and a second call.
6. `ReleasePipeline` (done): concurrent and repeated releases against the tags of a registry.
7. `AppConfig` and `Deployment` (done): the rules of `validate.go`, what an accepted configuration
   guarantees, and the container that serves it.
8. Proofs of the safety properties of `ListRecords`, `ClientSetup`, `NotifySend`, `Deployment`,
   `BumpRelease` and `ReleasePipeline`, and of `PacingHonoured` (done).
9. The proof of `PayloadFits`, by induction over texts (done).
10. Next: the safety half of termination: for the calls of a run, a measure that every step but the
    owner's lowers, so that what `EveryRunEnds` owes to fairness alone is told apart.
