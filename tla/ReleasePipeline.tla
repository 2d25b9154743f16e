---------------------------- MODULE ReleasePipeline ----------------------------
(***************************************************************************)
(* .github/workflows/release.yml: runs of the release workflow over the    *)
(* git tags, the image registry and the GitHub releases.  A run checks out *)
(* its tag, refuses a version that was published, builds the image and the *)
(* binary, pushes three floating tags and, last, the version's own, and    *)
(* creates the GitHub release in a second job.  Any step may fail, a run   *)
(* may be started again as a whole or from its second job, and a git tag   *)
(* may be moved meanwhile.                                                 *)
(***************************************************************************)
EXTENDS Integers, Sequences

CONSTANTS
    Versions,    \* tags vX.Y.Z, as <<X, Y, Z>>
    Commits,
    Runs,        \* the runs of the workflow that there may be
    Backports,   \* whether a version may be tagged after a newer one
    MaxReruns    \* bound: how often a run that ended is started again

NoCommit  == "no commit"
NoImage   == [tag |-> <<>>, commit |-> NoCommit]
NoRelease == [commit |-> NoCommit, draft |-> FALSE, complete |-> FALSE]

ASSUME PipelineAssumption ==
    /\ Versions \subseteq Nat \X Nat \X Nat
    /\ NoCommit \notin Commits
    /\ Backports \in BOOLEAN
    /\ MaxReruns \in Nat

\* latest, vX, vX.Y and vX.Y.Z are prefixes of a version of increasing length.
Prefix(v, k) == SubSeq(v, 1, k)
Names == {Prefix(v, k) : v \in Versions, k \in 0..3}

Older(v, w) ==
    \/ v[1] < w[1]
    \/ v[1] = w[1] /\ v[2] < w[2]
    \/ v[1] = w[1] /\ v[2] = w[2] /\ v[3] < w[3]

VARIABLES
    tags,       \* tags[v]: the commit of the git tag
    run,        \* run[r]: the state of a run of the workflow
    registry,   \* registry[name]: the image of that name
    releases,   \* releases[v]: the GitHub release
    reruns,     \* how many runs were started again
    given       \* history: the images that each name was ever given

vars == <<tags, run, registry, releases, reruns, given>>

InJobs == {"checkout", "check", "build", "push", "publish"}
Ended  == {"done", "failed", "cancelled"}

\* pc, version, event and input of a run; what it checked out; how many names it pushed;
\* whether the uploaded artifacts are there.
Unused == [pc |-> "unused", tag |-> <<>>, dispatched |-> FALSE, bootstrap |-> FALSE,
           commit |-> NoCommit, pushed |-> 0, artifacts |-> FALSE]

-----------------------------------------------------------------------------
(* Defects that the runs must find: each replaces the operator it precedes *)

StartsAtOnce(r) == TRUE
PatchTagFirst(v, k) == IF k = 0 THEN v ELSE Prefix(v, k - 1)
ChecksOutAgain(r) == tags[run[r].tag]

-----------------------------------------------------------------------------
(* The decisions of the workflow *)

\* concurrency: one run at a time in the group of a tag.
MayStart(r) == \A s \in Runs \ {r} : run[s].tag = run[r].tag => run[s].pc \notin InJobs

\* What docker manifest inspect comes to.
Inspect(v) == {"error", IF registry[v] = NoImage THEN "unknown" ELSE "exists"}

\* check-existing-tag.sh: only a tag that is known not to exist.
SafeToProceed(answer) == answer = "unknown"

\* The name that is pushed after k others.
NameToPush(v, k) == Prefix(v, k)

\* What the archive of the release was built from.
Archived(r) == run[r].commit

-----------------------------------------------------------------------------

Init ==
    /\ tags = [v \in Versions |-> NoCommit]
    /\ run = [r \in Runs |-> Unused]
    /\ registry = [n \in Names |-> NoImage]
    /\ releases = [v \in Versions |-> NoRelease]
    /\ reruns = 0
    /\ given = [n \in Names |-> {}]

\* A run enters the queue of its group, where it takes the place of one that waits there.
Queued(r, record) ==
    run' = [s \in Runs |->
        CASE s = r -> [record EXCEPT !.pc = "queued"]
          [] s # r /\ run[s].pc = "queued" /\ run[s].tag = record.tag -> [run[s] EXCEPT !.pc = "cancelled"]
          [] OTHER -> run[s]]

\* The maintainer pushes a tag, which may replace one of that name.
TagPushed(r, v, c) ==
    /\ run[r].pc = "unused"
    /\ tags[v] # c
    /\ Backports \/ \A w \in Versions : Older(v, w) => tags[w] = NoCommit
    /\ tags' = [tags EXCEPT ![v] = c]
    /\ Queued(r, [Unused EXCEPT !.tag = v])
    /\ UNCHANGED <<registry, releases, reruns, given>>

\* workflow_dispatch, by hand.
Dispatched(r, v, bootstrap) ==
    /\ run[r].pc = "unused"
    /\ Queued(r, [Unused EXCEPT !.tag = v, !.dispatched = TRUE, !.bootstrap = bootstrap])
    /\ UNCHANGED <<tags, registry, releases, reruns, given>>

\* A run that ended is started again, as a whole.
Rerun(r) ==
    /\ run[r].pc \in Ended /\ reruns < MaxReruns
    /\ reruns' = reruns + 1
    /\ Queued(r, [run[r] EXCEPT !.commit = NoCommit, !.pushed = 0, !.artifacts = FALSE])
    /\ UNCHANGED <<tags, registry, releases, given>>

\* Only its failed job, if that is publish-release.
RerunFailedJob(r) ==
    /\ run[r].pc = "failed" /\ run[r].pushed = 4 /\ reruns < MaxReruns
    /\ reruns' = reruns + 1
    /\ Queued(r, run[r])
    /\ UNCHANGED <<tags, registry, releases, given>>

Goes(r, to) == run' = [run EXCEPT ![r].pc = to]

\* The group is free; a run whose first job is done goes on with the second.
Start(r) ==
    /\ run[r].pc = "queued" /\ MayStart(r)
    /\ Goes(r, IF run[r].pushed = 4 THEN "publish" ELSE "checkout")
    /\ UNCHANGED <<tags, registry, releases, reruns, given>>

\* Checkout of what the tag is now; without the tag it fails.
Checkout(r) ==
    /\ run[r].pc = "checkout" /\ tags[run[r].tag] # NoCommit
    /\ run' = [run EXCEPT ![r].pc = IF run[r].bootstrap THEN "build" ELSE "check",
                          ![r].commit = tags[run[r].tag]]
    /\ UNCHANGED <<tags, registry, releases, reruns, given>>

\* Check existing vX.Y.Z tag.
Check(r) ==
    /\ run[r].pc = "check"
    /\ \E answer \in Inspect(run[r].tag) :
           Goes(r, IF SafeToProceed(answer) THEN "build" ELSE "failed")
    /\ UNCHANGED <<tags, registry, releases, reruns, given>>

\* The image, the binary, its archive and checksum, and their upload as artifacts.
Build(r) ==
    /\ run[r].pc = "build"
    /\ run' = [run EXCEPT ![r].pc = "push", ![r].artifacts = TRUE]
    /\ UNCHANGED <<tags, registry, releases, reruns, given>>

\* docker push of the next name, after which the run is as in record.
Pushed(r, record) ==
    LET name  == NameToPush(run[r].tag, run[r].pushed)
        image == [tag |-> run[r].tag, commit |-> run[r].commit]
    IN  /\ run[r].pc = "push"
        /\ registry' = [registry EXCEPT ![name] = image]
        /\ given' = [given EXCEPT ![name] = @ \cup {image}]
        /\ run' = [run EXCEPT ![r] = record]
        /\ UNCHANGED <<tags, releases, reruns>>

\* The first job ends with the fourth name.
Push(r) == Pushed(r, [run[r] EXCEPT !.pushed = @ + 1, !.pc = IF run[r].pushed = 3 THEN "publish" ELSE @])

\* The registry takes the image, but the push fails.
PushLost(r) == Pushed(r, [run[r] EXCEPT !.pc = "failed"])

\* gh release create: there must be the tag and no published release; a dispatched run
\* drafts it.  An earlier draft of the tag stops nothing, and is forgotten here.
Create(r, how) ==
    LET v == run[r].tag
    IN  /\ run[r].pc = "publish" /\ run[r].artifacts
        /\ tags[v] # NoCommit
        /\ releases[v] = NoRelease \/ releases[v].draft
        /\ releases' = [releases EXCEPT ![v] =
               [commit |-> Archived(r), draft |-> run[r].dispatched, complete |-> how = "done"]]
        /\ Goes(r, how)
        /\ UNCHANGED <<tags, registry, reruns, given>>

PublishRelease(r) == Create(r, "done")

\* The release is created, but not all its files get there.
PublishStops(r) == Create(r, "failed")

\* A step fails, or the job's timeout ends it.
Fails(r) ==
    /\ run[r].pc \in InJobs
    /\ Goes(r, "failed")
    /\ UNCHANGED <<tags, registry, releases, reruns, given>>

\* retention-days: the artifacts of a run that ended are gone after a day.
ArtifactsExpire(r) ==
    /\ run[r].pc \in Ended /\ run[r].artifacts
    /\ run' = [run EXCEPT ![r].artifacts = FALSE]
    /\ UNCHANGED <<tags, registry, releases, reruns, given>>

\* The maintainer has done all that there is to do.
Quiet == \A r \in Runs : run[r].pc \in Ended \cup {"unused"}
Done  == Quiet /\ UNCHANGED vars

Next ==
    \/ \E r \in Runs :
           \/ \E v \in Versions, c \in Commits : TagPushed(r, v, c)
           \/ \E v \in Versions, bootstrap \in BOOLEAN : Dispatched(r, v, bootstrap)
           \/ Rerun(r) \/ RerunFailedJob(r) \/ Start(r)
           \/ Checkout(r) \/ Check(r) \/ Build(r)
           \/ Push(r) \/ PushLost(r)
           \/ PublishRelease(r) \/ PublishStops(r)
           \/ Fails(r) \/ ArtifactsExpire(r)
    \/ Done

Spec == Init /\ [][Next]_vars

-----------------------------------------------------------------------------
(* Properties *)

\* A version that was published keeps its image, whatever fails, is repeated, dispatched,
\* tagged anew or running at the same time; only a bootstrap run may replace it, which is
\* told not to look (check-existing-tag.sh, concurrency).
PublishedImagesStay ==
    [][\A v \in Versions :
           registry[v] # NoImage /\ registry'[v] # registry[v] =>
               \E r \in Runs : run[r].tag = v /\ run[r].bootstrap /\ run[r].pc = "push"]_vars

\* A version is published last: by then its image was given to the three floating tags.
\* So a run that fails before leaves nothing that would keep the next from going through
\* (the order of the four pushes).
FloatingTagsFirst ==
    \A v \in Versions : registry[v] # NoImage =>
        \A k \in 0..2 : registry[v] \in given[Prefix(v, k)]

\* A GitHub release holds the binary of the very commit whose image is published under its
\* version, although it is created by another job, perhaps started again much later, after
\* the tag was moved; unless a bootstrap run was used on that version (needs, artifacts).
ReleaseMatchesImage ==
    \A v \in Versions : releases[v] # NoRelease =>
        \/ registry[v] # NoImage /\ registry[v].commit = releases[v].commit
        \/ \E r \in Runs : run[r].tag = v /\ run[r].bootstrap

-----------------------------------------------------------------------------
(* What comments of the repository say *)

\* docker-compose.yml: "`latest` tracks the newest patch release".  Asked only when all runs
\* are over and none failed, of versions that were tagged from old to new.
LatestIsNewest ==
    (\A r \in Runs : run[r].pc \in {"unused", "done"}) =>
        \A v \in Versions : registry[v] # NoImage => ~Older(registry[<<>>].tag, v)

=============================================================================
