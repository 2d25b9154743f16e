------------------------ MODULE ReleasePipeline_proofs ------------------------
(***************************************************************************)
(* Proofs about ReleasePipeline: for any versions, commits and number of   *)
(* runs, started again any number of times, a published image stays, the   *)
(* floating tags come before a version's own, and a release holds the      *)
(* commit of its image.                                                    *)
(***************************************************************************)
EXTENDS ReleasePipeline, SequenceTheorems, TLAPS

-----------------------------------------------------------------------------
(* The inductive invariant *)

RunRecord == [pc : {"unused", "queued"} \cup InJobs \cup Ended, tag : Versions \cup {<<>>},
              dispatched : BOOLEAN, bootstrap : BOOLEAN, commit : Commits \cup {NoCommit},
              pushed : Nat, artifacts : BOOLEAN]
Image == [tag : Versions, commit : Commits \cup {NoCommit}]

\* Every variable has its type.
Typed ==
    /\ tags \in [Versions -> Commits \cup {NoCommit}]
    /\ run \in [Runs -> RunRecord]
    /\ registry \in [Names -> Image \cup {NoImage}]
    /\ given \in [Names -> SUBSET Image]
    /\ releases \in [Versions -> [commit : Commits \cup {NoCommit}, draft : BOOLEAN, complete : BOOLEAN]]

\* Where a run is determines how many names it has pushed; it has a tag once it is used.
ProgressInv ==
    \A r \in Runs :
        /\ run[r].pc # "unused" => run[r].tag \in Versions
        /\ run[r].pc = "unused" => run[r] = Unused
        /\ run[r].pc = "queued" => run[r].pushed \in {0, 4}
        /\ run[r].pc \in {"checkout", "check", "build"} => run[r].pushed = 0
        /\ run[r].pc = "push" => run[r].pushed \in 0..3
        /\ run[r].pc = "publish" => run[r].pushed = 4

\* The runs of one tag are in their jobs one after the other (concurrency).
ExclusiveInv ==
    \A r, s \in Runs :
        run[r].pc \in InJobs /\ run[s].pc \in InJobs /\ run[r].tag = run[s].tag => r = s

\* What the check found is still so when the run pushes, unless it did not look.
UncheckedInv ==
    \A r \in Runs :
        run[r].pc \in {"build", "push"} /\ ~run[r].bootstrap => registry[run[r].tag] = NoImage

ImageOf(r) == [tag |-> run[r].tag, commit |-> run[r].commit]

\* The names that a run has pushed were given its image.
PushedInv ==
    \A r \in Runs : run[r].pc = "push" =>
        \A k \in 0..2 : k < run[r].pushed => ImageOf(r) \in given[Prefix(run[r].tag, k)]

Bootstrapped(v) == \E r \in Runs : run[r].tag = v /\ run[r].bootstrap

\* A run that pushed everything published the image of its commit, which stays, but for
\* bootstrap runs.
PublishedInv ==
    \A r \in Runs : run[r].pushed = 4 =>
        \/ registry[run[r].tag] # NoImage /\ registry[run[r].tag].commit = run[r].commit
        \/ Bootstrapped(run[r].tag)

IndInv ==
    /\ Typed /\ ProgressInv /\ ExclusiveInv /\ UncheckedInv /\ PushedInv /\ PublishedInv
    /\ FloatingTagsFirst /\ ReleaseMatchesImage

-----------------------------------------------------------------------------
(* Names *)

\* A version is a name, and no other name of any version is it.
LEMMA VersionNames ==
    ASSUME NEW v \in Versions
    PROVE  /\ v # <<>>
           /\ Prefix(v, 3) = v
           /\ v \in Names
           /\ \A k \in 0..3 : Prefix(v, k) \in Names
           /\ \A w \in Versions, k \in 0..3 : Prefix(w, k) = v => k = 3 /\ w = v
<1>1. ASSUME NEW w \in Versions
      PROVE  w \in Seq(Nat) /\ Len(w) = 3
  <2>1. w \in [1..3 -> Nat] /\ Len(w) = 3
    BY PipelineAssumption
  <2>2. w = [i \in 1..3 |-> w[i]]
    BY <2>1
  <2>3. [i \in 1..3 |-> w[i]] \in Seq(Nat)
    BY <2>1, IsASeq
  <2> QED
    BY <2>1, <2>2, <2>3
<1>2. ASSUME NEW w \in Versions, NEW k \in 0..3
      PROVE  Len(Prefix(w, k)) = k
  BY <1>1, SMT DEF Prefix
<1>3. ASSUME NEW w \in Versions
      PROVE  Prefix(w, 3) = w
  BY <1>1, SubSeqFull DEF Prefix
<1>4. v # <<>>
  <2>1. Len(v) = 3
    BY <1>1
  <2> QED
    BY <2>1
<1>5. \A k \in 0..3 : Prefix(v, k) \in Names
  BY DEF Names
<1>6. \A w \in Versions, k \in 0..3 : Prefix(w, k) = v => k = 3 /\ w = v
  BY <1>1, <1>2, <1>3
<1> QED
  BY <1>3, <1>4, <1>5, <1>6

-----------------------------------------------------------------------------
(* The first state, and steps that change nothing *)

LEMMA InitIndInv == Init => IndInv
<1> SUFFICES ASSUME Init PROVE IndInv
  OBVIOUS
<1> USE DEF Init
<1>1. Typed
  BY DEF Typed, Unused, RunRecord, NoRelease
<1>2. ProgressInv /\ ExclusiveInv /\ UncheckedInv /\ PushedInv /\ PublishedInv
  BY DEF ProgressInv, ExclusiveInv, UncheckedInv, PushedInv, PublishedInv, Unused, InJobs
<1>3. FloatingTagsFirst /\ ReleaseMatchesImage
  BY VersionNames DEF FloatingTagsFirst, ReleaseMatchesImage
<1> QED
  BY <1>1, <1>2, <1>3 DEF IndInv

LEMMA StutterKeeps == IndInv /\ UNCHANGED vars => IndInv'
<1> SUFFICES ASSUME IndInv, UNCHANGED vars PROVE IndInv'
  OBVIOUS
<1> USE DEF vars
<1>1. Typed'
  BY DEF IndInv, Typed
<1>2. ProgressInv' /\ ExclusiveInv' /\ UncheckedInv'
  BY DEF IndInv, ProgressInv, ExclusiveInv, UncheckedInv
<1>3. PushedInv' /\ PublishedInv'
  BY DEF IndInv, PushedInv, PublishedInv, Bootstrapped, ImageOf
<1>4. FloatingTagsFirst' /\ ReleaseMatchesImage'
  BY DEF IndInv, FloatingTagsFirst, ReleaseMatchesImage
<1> QED
  BY <1>1, <1>2, <1>3, <1>4 DEF IndInv

-----------------------------------------------------------------------------
(* Steps of one run that leave registry and releases alone *)

\* A run moves within its jobs, into them when its group is free, or out of them.
LEMMA MoveKeeps ==
    ASSUME IndInv, NEW r \in Runs, NEW new \in RunRecord,
           run[r].pc # "unused", new.pc # "unused", new.pc # "queued",
           new.tag = run[r].tag, new.bootstrap = run[r].bootstrap,
           new.pc \in {"checkout", "check", "build"} => new.pushed = 0,
           new.pc = "push" => new.pushed = 0,
           new.pc = "publish" => new.pushed = 4,
           new.pc \in InJobs => run[r].pc \in InJobs \/ MayStart(r),
           new.pc \in {"build", "push"} /\ ~new.bootstrap => registry[new.tag] = NoImage,
           new.pushed = 4 => run[r].pushed = 4 /\ new.commit = run[r].commit,
           run' = [run EXCEPT ![r] = new],
           UNCHANGED <<tags, registry, releases, reruns, given>>
    PROVE  IndInv'
<1> USE DEF IndInv
<1>1. Typed'
  BY DEF Typed
<1>2. /\ run'[r] = new
      /\ \A s \in Runs : s # r => run'[s] = run[s]
      /\ \A s \in Runs : run'[s].tag = run[s].tag /\ run'[s].bootstrap = run[s].bootstrap
  BY DEF Typed
<1>3. ProgressInv'
  BY <1>2 DEF ProgressInv
<1>4. ExclusiveInv'
  BY <1>2 DEF ExclusiveInv, MayStart
<1>5. UncheckedInv'
  BY <1>2 DEF UncheckedInv
<1>6. PushedInv'
  <2> SUFFICES ASSUME NEW s \in Runs, run'[s].pc = "push", NEW k \in 0..2, k < run'[s].pushed
               PROVE  ImageOf(s)' \in given[Prefix(run'[s].tag, k)]
    BY DEF PushedInv
  <2>1. s # r
    BY <1>2
  <2> QED
    BY <1>2, <2>1 DEF PushedInv, ImageOf
<1>7. \A v \in Versions : Bootstrapped(v) => Bootstrapped(v)'
  BY <1>2 DEF Bootstrapped
<1>8. PublishedInv'
  <2> SUFFICES ASSUME NEW s \in Runs, run'[s].pushed = 4
               PROVE  (\/ registry[run[s].tag] # NoImage /\ registry[run[s].tag].commit = run[s].commit
                       \/ Bootstrapped(run[s].tag))'
    BY DEF PublishedInv
  <2>1. run[s].pushed = 4 /\ run'[s].commit = run[s].commit /\ run'[s].tag = run[s].tag
    BY <1>2
  <2>2. run[s].tag \in Versions
    BY <2>1 DEF ProgressInv, Unused
  <2> QED
    BY <1>7, <2>1, <2>2 DEF PublishedInv
<1>9. FloatingTagsFirst' /\ ReleaseMatchesImage'
  BY <1>2 DEF FloatingTagsFirst, ReleaseMatchesImage
<1> QED
  BY <1>1, <1>3, <1>4, <1>5, <1>6, <1>8, <1>9

LEMMA StartKeeps ==
    ASSUME IndInv, NEW r \in Runs, Start(r)
    PROVE  IndInv'
<1> DEFINE new == [run[r] EXCEPT !.pc = IF run[r].pushed = 4 THEN "publish" ELSE "checkout"]
<1>1. run[r] \in RunRecord /\ run[r].pc = "queued" /\ run[r].pushed \in {0, 4}
  BY DEF IndInv, Typed, ProgressInv, Start
<1>2. new \in RunRecord /\ run' = [run EXCEPT ![r] = new]
  BY <1>1 DEF Start, Goes, RunRecord, InJobs
<1> QED
  BY <1>1, <1>2, MoveKeeps DEF Start, RunRecord

LEMMA CheckoutKeeps ==
    ASSUME IndInv, NEW r \in Runs, Checkout(r)
    PROVE  IndInv'
<1> DEFINE new == [run[r] EXCEPT !.pc = IF run[r].bootstrap THEN "build" ELSE "check",
                                 !.commit = tags[run[r].tag]]
<1>1. run[r] \in RunRecord /\ run[r].pc = "checkout" /\ run[r].pushed = 0 /\ run[r].tag \in Versions
  BY DEF IndInv, Typed, ProgressInv, Checkout
<1>2. tags[run[r].tag] \in Commits \cup {NoCommit}
  BY <1>1 DEF IndInv, Typed
<1>3. new \in RunRecord /\ run' = [run EXCEPT ![r] = new]
  BY <1>1, <1>2 DEF Checkout, RunRecord, InJobs
<1>4. /\ new.pc \in {"build", "check"} /\ new.tag = run[r].tag /\ new.bootstrap = run[r].bootstrap
      /\ new.pushed = 0 /\ (new.pc = "build" => new.bootstrap)
  BY <1>1 DEF RunRecord
<1>5. UNCHANGED <<tags, registry, releases, reruns, given>>
  BY DEF Checkout
<1> HIDE DEF new
<1>6. new.pc \in {"build", "push"} /\ ~new.bootstrap => registry[new.tag] = NoImage
  BY <1>4, Zenon
<1> QED
  <2>1. run[r].pc \in InJobs /\ run[r].pc # "unused" /\ new.pc # "unused" /\ new.pc # "queued"
        /\ new.pc # "push" /\ new.pc # "publish" /\ new.pushed # 4
    BY <1>1, <1>4 DEF InJobs
  <2> QED
    BY <1>3, <1>4, <1>5, <1>6, <2>1, MoveKeeps, Zenon

LEMMA CheckKeeps ==
    ASSUME IndInv, NEW r \in Runs, Check(r)
    PROVE  IndInv'
<1>1. PICK answer \in Inspect(run[r].tag) :
          Goes(r, IF SafeToProceed(answer) THEN "build" ELSE "failed")
  BY DEF Check
<1> DEFINE new == [run[r] EXCEPT !.pc = IF SafeToProceed(answer) THEN "build" ELSE "failed"]
<1>2. run[r] \in RunRecord /\ run[r].pc = "check" /\ run[r].pushed = 0
  BY DEF IndInv, Typed, ProgressInv, Check
<1>3. new \in RunRecord /\ run' = [run EXCEPT ![r] = new]
  BY <1>1, <1>2 DEF Goes, RunRecord, InJobs, Ended
<1>4. new.pc = "build" => registry[run[r].tag] = NoImage
  BY <1>1, <1>2 DEF Inspect, SafeToProceed, RunRecord
<1> QED
  BY <1>2, <1>3, <1>4, MoveKeeps DEF Check, RunRecord, InJobs

LEMMA BuildKeeps ==
    ASSUME IndInv, NEW r \in Runs, Build(r)
    PROVE  IndInv'
<1> DEFINE new == [run[r] EXCEPT !.pc = "push", !.artifacts = TRUE]
<1>1. run[r] \in RunRecord /\ run[r].pc = "build" /\ run[r].pushed = 0
  BY DEF IndInv, Typed, ProgressInv, Build
<1>2. new \in RunRecord /\ run' = [run EXCEPT ![r] = new]
  BY <1>1 DEF Build, RunRecord, InJobs
<1>3. ~run[r].bootstrap => registry[run[r].tag] = NoImage
  BY <1>1 DEF IndInv, UncheckedInv
<1>4. new.pc = "push" /\ new.tag = run[r].tag /\ new.bootstrap = run[r].bootstrap /\ new.pushed = 0
  BY <1>1 DEF RunRecord
<1>5. UNCHANGED <<tags, registry, releases, reruns, given>>
  BY DEF Build
<1> HIDE DEF new
<1>6. new.pc \in {"build", "push"} /\ ~new.bootstrap => registry[new.tag] = NoImage
  BY <1>3, <1>4, Zenon
<1> QED
  <2>1. run[r].pc \in InJobs /\ run[r].pc # "unused" /\ new.pc # "unused" /\ new.pc # "queued"
        /\ new.pc # "publish" /\ new.pushed # 4
    BY <1>1, <1>4 DEF InJobs
  <2> QED
    BY <1>2, <1>4, <1>5, <1>6, <2>1, MoveKeeps, Zenon

LEMMA FailsKeeps ==
    ASSUME IndInv, NEW r \in Runs, Fails(r)
    PROVE  IndInv'
<1> DEFINE new == [run[r] EXCEPT !.pc = "failed"]
<1>1. run[r] \in RunRecord /\ run[r].pc \in InJobs
  BY DEF IndInv, Typed, Fails
<1>2. new \in RunRecord /\ run' = [run EXCEPT ![r] = new]
  BY <1>1 DEF Fails, Goes, RunRecord, Ended
<1> QED
  BY <1>1, <1>2, MoveKeeps DEF Fails, RunRecord, InJobs

LEMMA ArtifactsExpireKeeps ==
    ASSUME IndInv, NEW r \in Runs, ArtifactsExpire(r)
    PROVE  IndInv'
<1> DEFINE new == [run[r] EXCEPT !.artifacts = FALSE]
<1>1. run[r] \in RunRecord /\ run[r].pc \in Ended
  BY DEF IndInv, Typed, ArtifactsExpire
<1>2. new \in RunRecord /\ run' = [run EXCEPT ![r] = new]
  BY <1>1 DEF ArtifactsExpire, RunRecord
<1> QED
  BY <1>1, <1>2, MoveKeeps DEF ArtifactsExpire, RunRecord, InJobs, Ended

-----------------------------------------------------------------------------
(* Steps that put a run into the queue *)

\* A run enters the queue, new or again, with nothing pushed or all of it; what it
\* displaces is cancelled.
LEMMA QueuedKeeps ==
    ASSUME IndInv, NEW r \in Runs, NEW record \in RunRecord,
           record.tag \in Versions, record.pushed \in {0, 4},
           run[r].pc # "unused" => record.tag = run[r].tag /\ record.bootstrap = run[r].bootstrap,
           record.pushed = 4 =>
               run[r].pushed = 4 /\ record.commit = run[r].commit /\ record.tag = run[r].tag,
           Queued(r, record),
           tags' \in [Versions -> Commits \cup {NoCommit}],
           UNCHANGED <<registry, releases, given>>
    PROVE  IndInv'
<1> USE DEF IndInv
<1> DEFINE new == [record EXCEPT !.pc = "queued"]
           cancelled(s) == [run[s] EXCEPT !.pc = "cancelled"]
<1>1. new \in RunRecord /\ new.pc = "queued" /\ new.tag = record.tag
      /\ new.bootstrap = record.bootstrap /\ new.pushed = record.pushed /\ new.commit = record.commit
  BY DEF RunRecord
<1>2. ASSUME NEW s \in Runs
      PROVE  /\ cancelled(s) \in RunRecord /\ cancelled(s).pc = "cancelled" /\ cancelled(s).tag = run[s].tag
             /\ cancelled(s).bootstrap = run[s].bootstrap /\ cancelled(s).pushed = run[s].pushed
             /\ cancelled(s).commit = run[s].commit
  <2>1. run[s] \in RunRecord
    BY DEF Typed
  <2> QED
    BY <2>1 DEF RunRecord, Ended
<1>3. /\ run' \in [Runs -> RunRecord]
      /\ run'[r] = new
      /\ \A s \in Runs : s # r => run'[s] = run[s] \/ (run[s].pc = "queued" /\ run'[s] = cancelled(s))
  <2>1. \A s \in Runs : s # r => run[s] \in RunRecord
    BY DEF Typed
  <2> QED
    BY <1>1, <1>2, <2>1 DEF Queued
<1> HIDE DEF new, cancelled
<1>4. \A s \in Runs : run'[s].pc \in InJobs => s # r /\ run'[s] = run[s]
  BY <1>1, <1>2, <1>3 DEF InJobs
<1>5. \A s \in Runs : run[s].pc # "unused" =>
          run'[s].tag = run[s].tag /\ run'[s].bootstrap = run[s].bootstrap
  BY <1>1, <1>2, <1>3
<1>6. Typed'
  BY <1>3 DEF Typed
<1>7. ProgressInv'
  <2> SUFFICES ASSUME NEW s \in Runs
               PROVE  (/\ run[s].pc # "unused" => run[s].tag \in Versions
                       /\ run[s].pc = "unused" => run[s] = Unused
                       /\ run[s].pc = "queued" => run[s].pushed \in {0, 4}
                       /\ run[s].pc \in {"checkout", "check", "build"} => run[s].pushed = 0
                       /\ run[s].pc = "push" => run[s].pushed \in 0..3
                       /\ run[s].pc = "publish" => run[s].pushed = 4)'
    BY DEF ProgressInv
  <2>1. CASE s = r
    BY <1>1, <1>3, <2>1
  <2>2. CASE run'[s] = run[s]
    BY <2>2 DEF ProgressInv
  <2>3. CASE run[s].pc = "queued" /\ run'[s] = cancelled(s)
    BY <1>2, <2>3 DEF ProgressInv
  <2> QED
    BY <1>3, <2>1, <2>2, <2>3
<1>8. ExclusiveInv' /\ UncheckedInv'
  BY <1>4 DEF ExclusiveInv, UncheckedInv, InJobs
<1>9. PushedInv'
  <2> SUFFICES ASSUME NEW s \in Runs, run'[s].pc = "push", NEW k \in 0..2, k < run'[s].pushed
               PROVE  ImageOf(s)' \in given[Prefix(run'[s].tag, k)]
    BY DEF PushedInv
  <2>1. run'[s] = run[s]
    BY <1>4 DEF InJobs
  <2> QED
    BY <2>1 DEF PushedInv, ImageOf
<1>10. \A v \in Versions : Bootstrapped(v) => Bootstrapped(v)'
  <2> SUFFICES ASSUME NEW v \in Versions, NEW s \in Runs, run[s].tag = v, run[s].bootstrap
               PROVE  Bootstrapped(v)'
    BY DEF Bootstrapped
  <2>1. run[s].pc # "unused"
    BY DEF ProgressInv, Unused
  <2> QED
    BY <1>5, <2>1 DEF Bootstrapped
<1>11. PublishedInv'
  <2> SUFFICES ASSUME NEW s \in Runs, run'[s].pushed = 4
               PROVE  (\/ registry[run[s].tag] # NoImage /\ registry[run[s].tag].commit = run[s].commit
                       \/ Bootstrapped(run[s].tag))'
    BY DEF PublishedInv
  <2>1. run[s].pushed = 4 /\ run'[s].commit = run[s].commit /\ run'[s].tag = run[s].tag
    BY <1>1, <1>2, <1>3
  <2>2. run[s].tag \in Versions
    BY <2>1 DEF ProgressInv, Unused
  <2> QED
    BY <1>10, <2>1, <2>2 DEF PublishedInv
<1>12. FloatingTagsFirst' /\ ReleaseMatchesImage'
  BY <1>10 DEF FloatingTagsFirst, ReleaseMatchesImage, Bootstrapped
<1> QED
  BY <1>6, <1>7, <1>8, <1>9, <1>11, <1>12

LEMMA TagPushedKeeps ==
    ASSUME IndInv, NEW r \in Runs, NEW v \in Versions, NEW c \in Commits, TagPushed(r, v, c)
    PROVE  IndInv'
<1> DEFINE record == [Unused EXCEPT !.tag = v]
<1>1. Unused \in RunRecord
  BY DEF Unused, RunRecord
<1>2. record \in RunRecord /\ record.tag = v /\ record.pushed = 0
  <2>1. record \in RunRecord /\ record.tag = v /\ record.pushed = Unused.pushed
    BY <1>1 DEF RunRecord
  <2> QED
    BY <2>1 DEF Unused
<1>3. tags' \in [Versions -> Commits \cup {NoCommit}]
  BY DEF TagPushed, IndInv, Typed
<1>4. run[r].pc = "unused" /\ Queued(r, record) /\ UNCHANGED <<registry, releases, given>>
  BY DEF TagPushed
<1> HIDE DEF record
<1> QED
  BY <1>2, <1>3, <1>4, QueuedKeeps

LEMMA DispatchedKeeps ==
    ASSUME IndInv, NEW r \in Runs, NEW v \in Versions, NEW bootstrap \in BOOLEAN,
           Dispatched(r, v, bootstrap)
    PROVE  IndInv'
<1> DEFINE record == [Unused EXCEPT !.tag = v, !.dispatched = TRUE, !.bootstrap = bootstrap]
<1>1. Unused \in RunRecord
  BY DEF Unused, RunRecord
<1>2. record \in RunRecord /\ record.tag = v /\ record.pushed = 0
  <2>1. record \in RunRecord /\ record.tag = v /\ record.pushed = Unused.pushed
    BY <1>1 DEF RunRecord
  <2> QED
    BY <2>1 DEF Unused
<1>3. tags' \in [Versions -> Commits \cup {NoCommit}]
  BY DEF Dispatched, IndInv, Typed
<1>4. run[r].pc = "unused" /\ Queued(r, record) /\ UNCHANGED <<registry, releases, given>>
  BY DEF Dispatched
<1> HIDE DEF record
<1> QED
  BY <1>2, <1>3, <1>4, QueuedKeeps

LEMMA RerunKeeps ==
    ASSUME IndInv, NEW r \in Runs, Rerun(r)
    PROVE  IndInv'
<1> DEFINE record == [run[r] EXCEPT !.commit = NoCommit, !.pushed = 0, !.artifacts = FALSE]
<1>1. run[r] \in RunRecord /\ run[r].tag \in Versions
  BY DEF IndInv, Typed, ProgressInv, Rerun, Ended
<1>2. record \in RunRecord
  BY <1>1 DEF RunRecord
<1>3. record.tag = run[r].tag /\ record.bootstrap = run[r].bootstrap /\ record.pushed = 0
  BY <1>1 DEF RunRecord
<1>4. tags' \in [Versions -> Commits \cup {NoCommit}]
  BY DEF Rerun, IndInv, Typed
<1>5. Queued(r, record) /\ UNCHANGED <<registry, releases, given>>
  BY DEF Rerun
<1> HIDE DEF record
<1> QED
  BY <1>1, <1>2, <1>3, <1>4, <1>5, QueuedKeeps

LEMMA RerunFailedJobKeeps ==
    ASSUME IndInv, NEW r \in Runs, RerunFailedJob(r)
    PROVE  IndInv'
<1>1. run[r] \in RunRecord /\ run[r].tag \in Versions /\ run[r].pushed = 4
  BY DEF IndInv, Typed, ProgressInv, RerunFailedJob
<1>2. tags' \in [Versions -> Commits \cup {NoCommit}]
  BY DEF RerunFailedJob, IndInv, Typed
<1> QED
  BY <1>1, <1>2, QueuedKeeps DEF RerunFailedJob

-----------------------------------------------------------------------------
(* Pushes and releases *)

\* What a push does to the names: a version's own name is written last, with the image
\* of the run, and only if it had none or the run did not look.
LEMMA PushedFacts ==
    ASSUME IndInv, NEW r \in Runs, NEW new, Pushed(r, new)
    PROVE  /\ run[r].pc = "push" /\ run[r].tag \in Versions /\ run[r].pushed \in 0..3
           /\ ImageOf(r) \in Image
           /\ registry' \in [Names -> Image \cup {NoImage}] /\ given' \in [Names -> SUBSET Image]
           /\ \A n \in Names : given[n] \subseteq given'[n]
           /\ ImageOf(r) \in given'[Prefix(run[r].tag, run[r].pushed)]
           /\ \A v \in Versions :
                  \/ registry'[v] = registry[v]
                  \/ /\ v = run[r].tag /\ run[r].pushed = 3 /\ registry'[v] = ImageOf(r)
                     /\ run[r].bootstrap \/ registry[v] = NoImage
           /\ run[r].pushed = 3 => registry'[run[r].tag] = ImageOf(r)
<1> USE DEF IndInv
<1> DEFINE name == NameToPush(run[r].tag, run[r].pushed)
<1>1. run[r].pc = "push" /\ run[r].tag \in Versions /\ run[r].pushed \in 0..3 /\ run[r] \in RunRecord
  BY DEF Pushed, ProgressInv, Typed
<1>2. ImageOf(r) \in Image
  BY <1>1 DEF ImageOf, Image, RunRecord
<1>3. name \in Names /\ name = Prefix(run[r].tag, run[r].pushed)
  BY <1>1, VersionNames DEF NameToPush
<1>4. /\ registry' = [registry EXCEPT ![name] = ImageOf(r)]
      /\ given' = [given EXCEPT ![name] = @ \cup {ImageOf(r)}]
  BY DEF Pushed, ImageOf
<1> HIDE DEF name
<1>5. registry' \in [Names -> Image \cup {NoImage}] /\ given' \in [Names -> SUBSET Image]
  BY <1>2, <1>3, <1>4 DEF Typed
<1>6. /\ \A n \in Names : given[n] \subseteq given'[n]
      /\ ImageOf(r) \in given'[name]
      /\ registry'[name] = ImageOf(r)
      /\ \A n \in Names : n # name => registry'[n] = registry[n]
  BY <1>3, <1>4 DEF Typed
<1>7. ASSUME NEW v \in Versions, registry'[v] # registry[v]
      PROVE  /\ v = run[r].tag /\ run[r].pushed = 3 /\ registry'[v] = ImageOf(r)
             /\ run[r].bootstrap \/ registry[v] = NoImage
  <2>1. v \in Names /\ name = v
    BY <1>6, <1>7, VersionNames
  <2>2. v = run[r].tag /\ run[r].pushed = 3
    BY <1>1, <1>3, <2>1, VersionNames
  <2>3. run[r].bootstrap \/ registry[v] = NoImage
    BY <1>1, <2>2 DEF UncheckedInv
  <2> QED
    BY <1>6, <2>1, <2>2, <2>3
<1>8. run[r].pushed = 3 => registry'[run[r].tag] = ImageOf(r)
  BY <1>1, <1>3, <1>6, VersionNames
<1> QED
  BY <1>1, <1>2, <1>3, <1>5, <1>6, <1>7, <1>8

LEMMA PushedKeeps ==
    ASSUME IndInv, NEW r \in Runs, NEW new \in RunRecord, Pushed(r, new),
           new.tag = run[r].tag, new.bootstrap = run[r].bootstrap, new.commit = run[r].commit,
           \/ new.pc = "push" /\ run[r].pushed < 3 /\ new.pushed = run[r].pushed + 1
           \/ new.pc = "publish" /\ run[r].pushed = 3 /\ new.pushed = 4
           \/ new.pc = "failed" /\ new.pushed = run[r].pushed
    PROVE  IndInv'
<1> USE DEF IndInv
<1>1. /\ run[r].pc = "push" /\ run[r].tag \in Versions /\ run[r].pushed \in 0..3
      /\ ImageOf(r) \in Image
      /\ registry' \in [Names -> Image \cup {NoImage}] /\ given' \in [Names -> SUBSET Image]
      /\ \A n \in Names : given[n] \subseteq given'[n]
      /\ ImageOf(r) \in given'[Prefix(run[r].tag, run[r].pushed)]
      /\ run[r].pushed = 3 => registry'[run[r].tag] = ImageOf(r)
  BY PushedFacts
<1>2. ASSUME NEW v \in Versions
      PROVE  \/ registry'[v] = registry[v]
             \/ /\ v = run[r].tag /\ run[r].pushed = 3 /\ registry'[v] = ImageOf(r)
                /\ run[r].bootstrap \/ registry[v] = NoImage
  BY PushedFacts
<1>3. /\ run' = [run EXCEPT ![r] = new] /\ UNCHANGED <<tags, releases, reruns>>
  BY DEF Pushed
<1>4. Typed'
  BY <1>1, <1>3 DEF Typed
<1>5. /\ run'[r] = new
      /\ \A s \in Runs : s # r => run'[s] = run[s]
      /\ \A s \in Runs : run'[s].tag = run[s].tag /\ run'[s].bootstrap = run[s].bootstrap
                         /\ run'[s].commit = run[s].commit
  BY <1>3 DEF Typed
<1>6. ProgressInv'
  BY <1>1, <1>5 DEF ProgressInv
<1>7. ExclusiveInv'
  BY <1>1, <1>5 DEF ExclusiveInv, InJobs
<1>8. UncheckedInv'
  <2> SUFFICES ASSUME NEW s \in Runs, run'[s].pc \in {"build", "push"}, ~run'[s].bootstrap
               PROVE  registry'[run'[s].tag] = NoImage
    BY DEF UncheckedInv
  <2>1. ~run[s].bootstrap /\ run'[s].tag = run[s].tag
    BY <1>5
  <2>2. CASE s = r
    <3>1. run[r].pushed # 3 /\ run'[s].tag = run[r].tag
      BY <1>1, <1>5, <2>2
    <3> QED
      BY <1>1, <1>2, <2>1, <2>2, <3>1 DEF UncheckedInv
  <2>3. CASE s # r
    <3>1. run[s].pc \in {"build", "push"}
      BY <1>5, <2>3
    <3>2. run[s].tag \in Versions /\ run[s].tag # run[r].tag
      BY <1>1, <2>3, <3>1 DEF ExclusiveInv, InJobs, ProgressInv
    <3> QED
      BY <1>2, <2>1, <3>1, <3>2 DEF UncheckedInv
  <2> QED
    BY <2>2, <2>3
<1>9. PushedInv'
  <2> SUFFICES ASSUME NEW s \in Runs, run'[s].pc = "push", NEW k \in 0..2, k < run'[s].pushed
               PROVE  ImageOf(s)' \in given'[Prefix(run'[s].tag, k)]
    BY DEF PushedInv
  <2>1. ImageOf(s)' = ImageOf(s) /\ run'[s].tag = run[s].tag
    BY <1>5 DEF ImageOf
  <2>2. run[s].pc = "push" /\ run[s].tag \in Versions
    BY <1>1, <1>5 DEF ProgressInv
  <2>3. k < run[s].pushed \/ (s = r /\ k = run[r].pushed)
    BY <1>1, <1>5
  <2>4. CASE k < run[s].pushed
    <3>1. ImageOf(s) \in given[Prefix(run[s].tag, k)]
      BY <2>2, <2>4 DEF PushedInv
    <3>2. Prefix(run[s].tag, k) \in Names
      BY <2>2, VersionNames
    <3> QED
      BY <1>1, <2>1, <3>1, <3>2
  <2> QED
    BY <1>1, <2>1, <2>3, <2>4
<1>10. ASSUME NEW v \in Versions
       PROVE  /\ Bootstrapped(v) => Bootstrapped(v)'
              /\ registry'[v] # registry[v] /\ registry[v] # NoImage => Bootstrapped(v)'
  BY <1>2, <1>5 DEF Bootstrapped
<1>11. ImageOf(r) # NoImage /\ ImageOf(r).commit = run[r].commit
  <2>1. run[r].tag # <<>>
    BY <1>1, VersionNames
  <2> QED
    BY <2>1 DEF ImageOf, NoImage
<1>12. PublishedInv'
  <2> SUFFICES ASSUME NEW s \in Runs, run'[s].pushed = 4
               PROVE  (\/ registry[run[s].tag] # NoImage /\ registry[run[s].tag].commit = run[s].commit
                       \/ Bootstrapped(run[s].tag))'
    BY DEF PublishedInv
  <2>1. run'[s].tag = run[s].tag /\ run'[s].commit = run[s].commit
    BY <1>5
  <2>2. CASE s = r
    BY <1>1, <1>5, <1>11, <2>1, <2>2
  <2>3. CASE s # r
    <3>1. run[s].pushed = 4
      BY <1>5, <2>3
    <3>2. run[s].tag \in Versions
      BY <3>1 DEF ProgressInv, Unused
    <3> QED
      BY <1>10, <2>1, <3>1, <3>2 DEF PublishedInv
  <2> QED
    BY <2>2, <2>3
<1>13. FloatingTagsFirst'
  <2> SUFFICES ASSUME NEW v \in Versions, registry'[v] # NoImage, NEW k \in 0..2
               PROVE  registry'[v] \in given'[Prefix(v, k)]
    BY DEF FloatingTagsFirst
  <2>1. Prefix(v, k) \in Names
    BY VersionNames
  <2>2. registry'[v] \in given[Prefix(v, k)]
    <3>1. CASE registry'[v] = registry[v]
      BY <3>1 DEF FloatingTagsFirst
    <3>2. CASE registry'[v] # registry[v]
      BY <1>1, <1>2, <3>2 DEF PushedInv
    <3> QED
      BY <3>1, <3>2
  <2> QED
    BY <1>1, <2>1, <2>2
<1>14. ReleaseMatchesImage'
  <2> SUFFICES ASSUME NEW v \in Versions, releases[v] # NoRelease
               PROVE  \/ registry'[v] # NoImage /\ registry'[v].commit = releases[v].commit
                      \/ Bootstrapped(v)'
    BY <1>3 DEF ReleaseMatchesImage, Bootstrapped
  <2> QED
    BY <1>10 DEF ReleaseMatchesImage, Bootstrapped
<1> QED
  BY <1>4, <1>6, <1>7, <1>8, <1>9, <1>12, <1>13, <1>14

LEMMA PushKeeps ==
    ASSUME IndInv, NEW r \in Runs, Push(r)
    PROVE  IndInv'
<1> DEFINE new == [run[r] EXCEPT !.pushed = @ + 1, !.pc = IF run[r].pushed = 3 THEN "publish" ELSE @]
<1>1. run[r] \in RunRecord /\ run[r].pc = "push" /\ run[r].pushed \in 0..3
  BY DEF IndInv, Typed, ProgressInv, Push, Pushed
<1>2. /\ new \in RunRecord /\ new.tag = run[r].tag /\ new.bootstrap = run[r].bootstrap
      /\ new.commit = run[r].commit
  <2>1. CASE run[r].pushed = 3
    <3>1. new = [run[r] EXCEPT !.pushed = @ + 1, !.pc = "publish"]
      BY <2>1
    <3>2. run[r].pushed + 1 \in Nat /\ "publish" \in InJobs
      BY <1>1 DEF InJobs
    <3> QED
      BY <1>1, <3>1, <3>2 DEF RunRecord
  <2>2. CASE run[r].pushed # 3
    <3>1. new = [run[r] EXCEPT !.pushed = @ + 1, !.pc = @]
      BY <2>2
    <3>2. run[r].pushed + 1 \in Nat
      BY <1>1
    <3> QED
      BY <1>1, <3>1, <3>2 DEF RunRecord
  <2> QED
    BY <2>1, <2>2
<1>3. \/ new.pc = "push" /\ run[r].pushed < 3 /\ new.pushed = run[r].pushed + 1
      \/ new.pc = "publish" /\ run[r].pushed = 3 /\ new.pushed = 4
  BY <1>1 DEF RunRecord
<1>4. Pushed(r, new)
  BY DEF Push
<1> HIDE DEF new
<1> QED
  BY <1>2, <1>3, <1>4, PushedKeeps

LEMMA PushLostKeeps ==
    ASSUME IndInv, NEW r \in Runs, PushLost(r)
    PROVE  IndInv'
<1> DEFINE new == [run[r] EXCEPT !.pc = "failed"]
<1>1. run[r] \in RunRecord
  BY DEF IndInv, Typed
<1>2. /\ new \in RunRecord /\ new.tag = run[r].tag /\ new.bootstrap = run[r].bootstrap
      /\ new.commit = run[r].commit /\ new.pc = "failed" /\ new.pushed = run[r].pushed
  BY <1>1 DEF RunRecord, Ended
<1>3. Pushed(r, new)
  BY DEF PushLost
<1> HIDE DEF new
<1> QED
  BY <1>2, <1>3, PushedKeeps

LEMMA CreateKeeps ==
    ASSUME IndInv, NEW r \in Runs, NEW how \in {"done", "failed"}, Create(r, how)
    PROVE  IndInv'
<1> USE DEF IndInv
<1>1. /\ run[r] \in RunRecord /\ run[r].pc = "publish" /\ run[r].tag \in Versions /\ run[r].pushed = 4
      /\ UNCHANGED <<tags, registry, reruns, given>> /\ run' = [run EXCEPT ![r].pc = how]
  BY DEF Typed, ProgressInv, Create, Goes
<1> DEFINE release == [commit |-> run[r].commit, draft |-> run[r].dispatched, complete |-> how = "done"]
<1>2. releases' = [releases EXCEPT ![run[r].tag] = release]
  BY DEF Create, Archived
<1>3. release.commit = run[r].commit
      /\ release \in [commit : Commits \cup {NoCommit}, draft : BOOLEAN, complete : BOOLEAN]
  <2>1. run[r].commit \in Commits \cup {NoCommit} /\ run[r].dispatched \in BOOLEAN
    BY <1>1 DEF RunRecord
  <2>2. (how = "done") \in BOOLEAN
    OBVIOUS
  <2> QED
    BY <2>1, <2>2
<1> HIDE DEF release
<1>4. /\ \A s \in Runs : s # r => run'[s] = run[s]
      /\ run'[r].pc = how /\ run'[r] \in RunRecord /\ run' \in [Runs -> RunRecord]
      /\ \A s \in Runs : run'[s].tag = run[s].tag /\ run'[s].bootstrap = run[s].bootstrap
                         /\ run'[s].commit = run[s].commit /\ run'[s].pushed = run[s].pushed
  BY <1>1 DEF Typed, RunRecord, Ended
<1>5. Typed'
  BY <1>1, <1>2, <1>3, <1>4 DEF Typed
<1>6. ProgressInv'
  BY <1>1, <1>4 DEF ProgressInv
<1>7. ExclusiveInv' /\ UncheckedInv'
  BY <1>1, <1>4 DEF ExclusiveInv, UncheckedInv, InJobs
<1>8. PushedInv'
  <2> SUFFICES ASSUME NEW s \in Runs, run'[s].pc = "push", NEW k \in 0..2, k < run'[s].pushed
               PROVE  ImageOf(s)' \in given[Prefix(run'[s].tag, k)]
    BY <1>1 DEF PushedInv
  <2>1. s # r
    BY <1>4
  <2> QED
    BY <1>4, <2>1 DEF PushedInv, ImageOf
<1>9. \A v \in Versions : Bootstrapped(v) => Bootstrapped(v)'
  BY <1>4 DEF Bootstrapped
<1>10. PublishedInv'
  <2> SUFFICES ASSUME NEW s \in Runs, run'[s].pushed = 4
               PROVE  (\/ registry[run[s].tag] # NoImage /\ registry[run[s].tag].commit = run[s].commit
                       \/ Bootstrapped(run[s].tag))'
    BY DEF PublishedInv
  <2>1. run[s].pushed = 4 /\ run[s].tag \in Versions
    BY <1>4 DEF ProgressInv, Unused
  <2> QED
    BY <1>1, <1>4, <1>9, <2>1 DEF PublishedInv
<1>11. FloatingTagsFirst'
  BY <1>1 DEF FloatingTagsFirst
<1>12. ReleaseMatchesImage'
  <2> SUFFICES ASSUME NEW v \in Versions, releases'[v] # NoRelease
               PROVE  \/ registry[v] # NoImage /\ registry[v].commit = releases'[v].commit
                      \/ Bootstrapped(v)'
    BY <1>1 DEF ReleaseMatchesImage, Bootstrapped
  <2>1. CASE v = run[r].tag
    <3>1. releases'[v].commit = run[r].commit
      BY <1>2, <1>3, <2>1 DEF Typed
    <3> QED
      BY <1>1, <1>9, <2>1, <3>1 DEF PublishedInv
  <2>2. CASE v # run[r].tag
    <3>1. releases'[v] = releases[v]
      BY <1>2, <2>2 DEF Typed
    <3> QED
      BY <1>9, <3>1 DEF ReleaseMatchesImage, Bootstrapped
  <2> QED
    BY <2>1, <2>2
<1> QED
  BY <1>5, <1>6, <1>7, <1>8, <1>10, <1>11, <1>12

-----------------------------------------------------------------------------
(* The theorems *)

LEMMA NextKeeps == IndInv /\ [Next]_vars => IndInv'
<1> SUFFICES ASSUME IndInv, [Next]_vars PROVE IndInv'
  OBVIOUS
<1>1. ASSUME NEW r \in Runs, NEW v \in Versions, NEW c \in Commits, TagPushed(r, v, c)
      PROVE  IndInv'
  BY <1>1, TagPushedKeeps
<1>2. ASSUME NEW r \in Runs, NEW v \in Versions, NEW bootstrap \in BOOLEAN,
             Dispatched(r, v, bootstrap)
      PROVE  IndInv'
  BY <1>2, DispatchedKeeps
<1>3. ASSUME NEW r \in Runs, Rerun(r) \/ RerunFailedJob(r) \/ Start(r)
      PROVE  IndInv'
  BY <1>3, RerunKeeps, RerunFailedJobKeeps, StartKeeps
<1>4. ASSUME NEW r \in Runs, Checkout(r) \/ Check(r) \/ Build(r)
      PROVE  IndInv'
  BY <1>4, CheckoutKeeps, CheckKeeps, BuildKeeps
<1>5. ASSUME NEW r \in Runs, Push(r) \/ PushLost(r)
      PROVE  IndInv'
  BY <1>5, PushKeeps, PushLostKeeps
<1>6. ASSUME NEW r \in Runs, PublishRelease(r) \/ PublishStops(r)
      PROVE  IndInv'
  BY <1>6, CreateKeeps DEF PublishRelease, PublishStops
<1>7. ASSUME NEW r \in Runs, Fails(r) \/ ArtifactsExpire(r)
      PROVE  IndInv'
  BY <1>7, FailsKeeps, ArtifactsExpireKeeps
<1>8. CASE Done
  BY <1>8, StutterKeeps DEF Done
<1>9. CASE UNCHANGED vars
  BY <1>9, StutterKeeps
<1> QED
  BY <1>1, <1>2, <1>3, <1>4, <1>5, <1>6, <1>7, <1>8, <1>9 DEF Next

LEMMA Invariance == Spec => []IndInv
<1>1. Init => IndInv
  BY InitIndInv
<1>2. IndInv /\ [Next]_vars => IndInv'
  BY NextKeeps
<1> QED
  BY <1>1, <1>2, PTL DEF Spec

\* By the time a version is published its image was given to all floating tags, for any
\* number of runs that fail, are started again and overtake each other (the order of
\* the four pushes in release.yml).
THEOREM FloatingTagsComeFirst == Spec => []FloatingTagsFirst
<1>1. IndInv => FloatingTagsFirst
  BY DEF IndInv
<1> QED
  BY <1>1, Invariance, PTL

\* A release holds the commit of the image that is published under its version, unless a
\* bootstrap run was used (the two jobs of release.yml).
THEOREM ReleasesMatchImages == Spec => []ReleaseMatchesImage
<1>1. IndInv => ReleaseMatchesImage
  BY DEF IndInv
<1> QED
  BY <1>1, Invariance, PTL

\* No run replaces a published image but a bootstrap run of its version
\* (check-existing-tag.sh and the concurrency group).
THEOREM PublishedImagesDoStay == Spec => PublishedImagesStay
<1> DEFINE Kept(v) == registry[v] # NoImage /\ registry'[v] # registry[v] =>
                          \E r \in Runs : run[r].tag = v /\ run[r].bootstrap /\ run[r].pc = "push"
<1>1. IndInv /\ [Next]_vars => [\A v \in Versions : Kept(v)]_vars
  <2> SUFFICES ASSUME IndInv, [Next]_vars, NEW v \in Versions
               PROVE  Kept(v)
    OBVIOUS
  <2>1. ASSUME NEW r \in Runs, Push(r) \/ PushLost(r)
        PROVE  Kept(v)
    <3>1. PICK new : Pushed(r, new)
      BY <2>1 DEF Push, PushLost
    <3>2. run[r].pc = "push"
      BY <3>1, PushedFacts
    <3>3. registry'[v] # registry[v] => v = run[r].tag /\ (run[r].bootstrap \/ registry[v] = NoImage)
      BY <3>1, PushedFacts
    <3> QED
      BY <3>2, <3>3
  <2>2. CASE UNCHANGED registry
    BY <2>2
  <2>3. UNCHANGED registry \/ \E r \in Runs : Push(r) \/ PushLost(r)
    BY DEF Next, vars, TagPushed, Dispatched, Rerun, RerunFailedJob, Start, Checkout, Check, Build,
           PublishRelease, PublishStops, Create, Fails, ArtifactsExpire, Done
  <2> QED
    BY <2>1, <2>2, <2>3
<1> QED
  BY <1>1, Invariance, PTL DEF Spec, PublishedImagesStay

=============================================================================
