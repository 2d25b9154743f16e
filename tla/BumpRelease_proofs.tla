-------------------------- MODULE BumpRelease_proofs --------------------------
(***************************************************************************)
(* Proofs about BumpRelease: for any list of targets, versions, contents   *)
(* and number of calls, whichever system calls fail and wherever the tool  *)
(* is killed, the targets change in order and as a whole, a success means  *)
(* that all hold the version, and the tool can always be called again.     *)
(***************************************************************************)
EXTENDS BumpRelease, SequenceTheorems, TLAPS

-----------------------------------------------------------------------------
(* The inductive invariant *)

\* The first k targets have their new content, the others what the call found.
Written(k) ==
    \A i \in DOMAIN Targets :
        files[Targets[i]] = IF i <= k THEN Bumped(before[Targets[i]], version) ELSE before[Targets[i]]

\* What phase 1 prepares for the i-th target, from a file that it found a version in.
PreparedFor(i) ==
    /\ prepared[i] = [path |-> Targets[i], file |-> Bumped(before[Targets[i]], version)]
    /\ before[Targets[i]] \in File
    /\ Matches(before[Targets[i]])

\* While no target failed phase 1, one is prepared for each that it went through.
PrepareInv ==
    /\ pc = "prepare" /\ invalid = {} =>
           Len(prepared) = next - 1 /\ \A i \in 1..next - 1 : PreparedFor(i)
    /\ pc \in Writing \cup {"ok"} =>
           Len(prepared) = Len(Targets) /\ \A i \in DOMAIN Targets : PreparedFor(i)

\* How far the call is determines how many targets are written, and what the temporary
\* file holds.
ProgressInv ==
    /\ pc \in {"prepare", "ok"} \cup Writing => version \in SemVer
    /\ pc \in {"idle", "usage", "prepare", "invalid"} => Written(0)
    /\ pc \in Writing => Written(next - 1)
    /\ pc \in Writing \ {"create"} => next <= Len(Targets)
    /\ pc = "ok" => Written(Len(Targets))
    /\ pc = "fill" => temp = Partial
    /\ pc = "chmod" => temp = [prepared[next].file EXCEPT !.mode = PrivateMode]
    /\ pc = "rename" => temp = prepared[next].file

IndInv == TypeOK /\ PrepareInv /\ ProgressInv /\ UpdatesInOrder /\ AlwaysRepeatable

-----------------------------------------------------------------------------
(* The operators *)

\* ReplaceAll keeps the number of places and the rest, writes the version over every
\* version, and so leaves one to find.
LEMMA BumpedFacts ==
    ASSUME NEW file \in File, NEW v \in SemVer
    PROVE  /\ Bumped(file, v) \in File
           /\ \A i \in DOMAIN Bumped(file, v).places :
                  Bumped(file, v).places[i] \in SemVer => Bumped(file, v).places[i] = v
           /\ Matches(file) => Matches(Bumped(file, v))
<1> DEFINE new == [i \in DOMAIN file.places |-> IF file.places[i] \in SemVer THEN v ELSE file.places[i]]
<1>1. file.places \in Seq(Arguments)
  BY DEF File
<1>2. DOMAIN file.places = 1..Len(file.places) /\ Len(file.places) \in Nat
  BY <1>1
<1>3. \A i \in 1..Len(file.places) : new[i] \in Arguments
  <2>1. \A i \in 1..Len(file.places) : file.places[i] \in Arguments
    BY <1>1
  <2>2. v \in Arguments
    BY BumpAssumption
  <2> QED
    BY <1>2, <2>1, <2>2
<1>4. new \in Seq(Arguments)
  <2>1. new = [i \in 1..Len(file.places) |-> new[i]]
    BY <1>2
  <2> HIDE DEF new
  <2>2. [i \in 1..Len(file.places) |-> new[i]] \in Seq(Arguments)
    BY <1>2, <1>3, IsASeq
  <2> QED
    BY <2>1, <2>2
<1>5. Bumped(file, v) = [file EXCEPT !.places = new]
  BY DEF Bumped
<1> HIDE DEF new
<1>6. Bumped(file, v) \in File /\ Bumped(file, v).places = new
  BY <1>4, <1>5 DEF File
<1>7. DOMAIN new = DOMAIN file.places
  BY DEF new
<1>8. \A i \in DOMAIN new : new[i] = IF file.places[i] \in SemVer THEN v ELSE file.places[i]
  BY DEF new
<1> QED
  BY <1>6, <1>7, <1>8 DEF Matches

\* The targets are paths, each of one index.
LEMMA TargetFacts ==
    /\ Len(Targets) \in Nat /\ DOMAIN Targets = 1..Len(Targets)
    /\ \A i \in DOMAIN Targets : Targets[i] \in Paths
    /\ \A i, j \in DOMAIN Targets : Targets[i] = Targets[j] => i = j
BY BumpAssumption DEF Paths

-----------------------------------------------------------------------------
(* The steps *)

LEMMA InitIndInv == Init => IndInv
<1> SUFFICES ASSUME Init PROVE IndInv
  OBVIOUS
<1>1. files \in [Paths -> File] /\ \A path \in Paths : Matches(files[path])
  BY BumpAssumption DEF Init
<1>2. TypeOK
  <2>1. prepared \in Seq([path : Paths, file : File])
    BY DEF Init
  <2>2. next \in 1..(Len(Targets) + 1) /\ calls \in 0..MaxCalls
    BY TargetFacts, BumpAssumption DEF Init
  <2> QED
    BY <1>1, <2>1, <2>2 DEF Init, TypeOK, Ended
<1>3. Written(0)
  BY TargetFacts DEF Init, Written
<1>4. PrepareInv /\ ProgressInv
  BY <1>3 DEF Init, PrepareInv, ProgressInv, Writing
<1>5. UpdatesInOrder
  BY <1>3, TargetFacts DEF Init, UpdatesInOrder, Written
<1> QED
  BY <1>1, <1>2, <1>4, <1>5 DEF IndInv, AlwaysRepeatable, Init

LEMMA CallKeeps ==
    ASSUME IndInv, NEW arg \in Arguments, Call(arg)
    PROVE  IndInv'
<1> USE DEF IndInv
<1>1. /\ calls' = calls + 1 /\ calls < MaxCalls /\ version' = arg /\ next' = 1 /\ prepared' = <<>>
      /\ invalid' = {} /\ temp' = NoTemp /\ before' = files /\ files' = files /\ broken' = broken
      /\ pc' = "prepare" \/ pc' = "usage"
      /\ pc' = "prepare" => arg \in SemVer
  BY DEF Call, ValidVersion
<1>2. TypeOK'
  <2>1. prepared' \in Seq([path : Paths, file : File])
    BY <1>1
  <2>2. next' \in 1..(Len(Targets) + 1) /\ calls' \in 0..MaxCalls
    BY <1>1, TargetFacts, BumpAssumption DEF TypeOK
  <2> QED
    BY <1>1, <2>1, <2>2 DEF TypeOK, Ended
<1>3. Written(0)'
  BY <1>1, TargetFacts DEF Written
<1>4. PrepareInv' /\ ProgressInv'
  BY <1>1, <1>3 DEF PrepareInv, ProgressInv, Writing
<1>5. UpdatesInOrder'
  BY <1>1, <1>3, TargetFacts DEF UpdatesInOrder, Written
<1>6. AlwaysRepeatable'
  BY <1>1 DEF AlwaysRepeatable
<1> QED
  BY <1>2, <1>4, <1>5, <1>6

\* A step that leaves the files and what the call found keeps what was written.
LEMMA WrittenKept ==
    ASSUME UNCHANGED <<files, before, version>>, NEW k
    PROVE  Written(k) = Written(k)'
BY DEF Written

\* Such a step keeps the order of the updates if the place where the call is says so.
LEMMA OrderKept ==
    ASSUME IndInv, UNCHANGED <<files, before, version>>,
           pc' \in {"idle", "usage", "prepare", "invalid"} => Written(0),
           pc' = "ioError" => next' - 2 \in 0..Len(Targets) /\ Written(next' - 2)
    PROVE  UpdatesInOrder'
<1>1. CASE pc' \in {"idle", "usage", "prepare", "invalid"}
  BY <1>1, TargetFacts, WrittenKept DEF UpdatesInOrder, Written
<1>2. CASE pc' = "ioError"
  BY <1>2, TargetFacts, WrittenKept DEF UpdatesInOrder, Written
<1>3. CASE pc' \notin {"idle", "usage", "prepare", "invalid", "ioError"}
  BY <1>3 DEF IndInv, UpdatesInOrder
<1> QED
  BY <1>1, <1>2, <1>3

LEMMA PrepareKeeps == IndInv /\ Prepare => IndInv'
<1> SUFFICES ASSUME IndInv, Prepare PROVE IndInv'
  OBVIOUS
<1> USE DEF IndInv
<1> DEFINE path == Targets[next]
           item == [path |-> path, file |-> Bumped(files[path], version)]
<1>1. /\ pc = "prepare" /\ next <= Len(Targets) /\ next' = next + 1
      /\ UNCHANGED <<files, pc, version, temp, calls, before, broken>>
      /\ \/ /\ files[path] # Absent /\ Matches(files[path])
            /\ prepared' = Append(prepared, item) /\ invalid' = invalid
         \/ invalid' = invalid \cup {path} /\ prepared' = prepared
  BY DEF Prepare
<1>2. next \in DOMAIN Targets /\ next \in Nat /\ path \in Paths /\ version \in SemVer
  BY <1>1, TargetFacts DEF TypeOK, ProgressInv
<1>3. files[path] \in File \cup {Absent} /\ before[path] = files[path]
  BY <1>1, <1>2 DEF TypeOK, ProgressInv, Written
<1>4. files[path] # Absent => item \in [path : Paths, file : File]
  BY <1>2, <1>3, BumpedFacts
<1> HIDE DEF item
<1>5. TypeOK'
  <2>1. prepared' \in Seq([path : Paths, file : File])
    <3>1. prepared \in Seq([path : Paths, file : File])
      BY DEF TypeOK
    <3>2. CASE prepared' = prepared
      BY <3>1, <3>2
    <3>3. CASE prepared' = Append(prepared, item) /\ files[path] # Absent
      BY <1>4, <3>1, <3>3
    <3> QED
      BY <1>1, <3>2, <3>3
  <2>2. next' \in 1..(Len(Targets) + 1)
    BY <1>1, <1>2, TargetFacts DEF TypeOK
  <2>3. invalid' \subseteq Paths
    BY <1>1, <1>2 DEF TypeOK
  <2> QED
    BY <1>1, <2>1, <2>2, <2>3 DEF TypeOK
<1>6. PrepareInv'
  <2> SUFFICES ASSUME invalid' = {}
               PROVE  Len(prepared') = next' - 1 /\ \A i \in 1..next' - 1 : PreparedFor(i)'
    BY <1>1 DEF PrepareInv, Writing
  <2>1. /\ prepared' = Append(prepared, item) /\ files[path] # Absent /\ Matches(files[path])
        /\ Len(prepared) = next - 1 /\ \A i \in 1..next - 1 : PreparedFor(i)
        /\ prepared \in Seq([path : Paths, file : File])
    BY <1>1 DEF PrepareInv, TypeOK
  <2>2. /\ Len(prepared') = next /\ prepared'[next] = item
        /\ \A i \in 1..next - 1 : prepared'[i] = prepared[i]
    BY <1>2, <1>4, <2>1
  <2>3. ASSUME NEW i \in 1..next' - 1
        PROVE  PreparedFor(i)'
    <3>1. CASE i = next
      <4>1. prepared'[i] = [path |-> Targets[i], file |-> Bumped(before[Targets[i]], version)]
        BY <1>3, <2>2, <3>1 DEF item
      <4> QED
        BY <1>1, <1>3, <2>1, <3>1, <4>1 DEF PreparedFor
    <3>2. CASE i # next
      <4>1. i \in 1..next - 1
        BY <1>1, <1>2, <3>2
      <4> QED
        BY <1>1, <2>1, <2>2, <4>1 DEF PreparedFor
    <3> QED
      BY <3>1, <3>2
  <2> QED
    BY <1>1, <1>2, <2>2, <2>3
<1>7. ProgressInv'
  BY <1>1, <1>2 DEF ProgressInv, Writing, Written
<1>8. UpdatesInOrder'
  BY <1>1, OrderKept DEF ProgressInv
<1>9. AlwaysRepeatable'
  BY <1>1 DEF AlwaysRepeatable
<1> QED
  BY <1>5, <1>6, <1>7, <1>8, <1>9

LEMMA ValidatedKeeps == IndInv /\ Validated => IndInv'
<1> SUFFICES ASSUME IndInv, Validated PROVE IndInv'
  OBVIOUS
<1> USE DEF IndInv
<1>1. /\ pc = "prepare" /\ next > Len(Targets) /\ next' = 1
      /\ pc' = "create" \/ pc' = "invalid"
      /\ pc' = "create" => invalid = {}
      /\ UNCHANGED <<files, version, prepared, invalid, temp, calls, before, broken>>
  BY DEF Validated, MayWrite
<1>2. next = Len(Targets) + 1
  BY <1>1, TargetFacts DEF TypeOK
<1>3. TypeOK'
  <2>1. next' \in 1..(Len(Targets) + 1)
    BY <1>1, TargetFacts
  <2> QED
    BY <1>1, <2>1 DEF TypeOK, Writing, Ended
<1>4. Written(0) /\ Written(0)'
  BY <1>1, WrittenKept DEF ProgressInv
<1>5. PrepareInv'
  BY <1>1, <1>2, TargetFacts DEF PrepareInv, PreparedFor, Writing
<1>6. ProgressInv'
  BY <1>1, <1>4 DEF ProgressInv, Writing
<1>7. UpdatesInOrder'
  BY <1>1, <1>4, OrderKept
<1>8. AlwaysRepeatable'
  BY <1>1 DEF AlwaysRepeatable
<1> QED
  BY <1>3, <1>5, <1>6, <1>7, <1>8

\* A step before the rename keeps everything if what it leaves in the temporary file is
\* what belongs there.
LEMMA TempStepKeeps ==
    ASSUME IndInv, NEW from \in Writing, NEW to \in Writing \ {"create"}, NEW file \in TempFile,
           TempStep(from, to, file),
           to = "fill" => file = Partial,
           to = "chmod" => file = [prepared[next].file EXCEPT !.mode = PrivateMode],
           to = "rename" => file = prepared[next].file
    PROVE  IndInv'
<1> USE DEF IndInv
<1>1. /\ pc = from /\ next <= Len(prepared) /\ pc' = to /\ temp' = file
      /\ UNCHANGED <<files, version, next, prepared, invalid, calls, before, broken>>
  BY DEF TempStep
<1>2. TypeOK'
  BY <1>1 DEF TypeOK
<1>3. PrepareInv' /\ next <= Len(Targets)
  BY <1>1 DEF PrepareInv, PreparedFor, Writing
<1>4. Written(next - 1)'
  BY <1>1 DEF ProgressInv, Written
<1>5. ProgressInv'
  BY <1>1, <1>3, <1>4 DEF ProgressInv, Writing
<1>6. UpdatesInOrder'
  BY <1>1, OrderKept DEF Writing
<1>7. AlwaysRepeatable'
  BY <1>1 DEF AlwaysRepeatable
<1> QED
  BY <1>2, <1>3, <1>5, <1>6, <1>7

\* What the call writes to the target it is at.
LEMMA NextFacts ==
    ASSUME IndInv, pc \in Writing, next <= Len(prepared)
    PROVE  /\ next \in DOMAIN Targets /\ PreparedFor(next) /\ version \in SemVer
           /\ prepared[next].path = Targets[next]
           /\ prepared[next].file = Bumped(before[Targets[next]], version)
           /\ prepared[next].file \in File /\ Matches(prepared[next].file)
<1>1. next \in DOMAIN Targets /\ PreparedFor(next) /\ version \in SemVer
  BY TargetFacts DEF IndInv, TypeOK, PrepareInv, ProgressInv
<1>2. /\ prepared[next].path = Targets[next]
      /\ prepared[next].file = Bumped(before[Targets[next]], version)
  BY <1>1 DEF PreparedFor
<1> QED
  BY <1>1, <1>2, BumpedFacts DEF PreparedFor

LEMMA CreateTempKeeps == IndInv /\ CreateTemp => IndInv'
<1> SUFFICES ASSUME IndInv, CreateTemp PROVE IndInv'
  OBVIOUS
<1>1. Partial \in TempFile
  BY DEF Partial, TempFile
<1> QED
  BY <1>1, TempStepKeeps DEF CreateTemp, Writing

LEMMA FillTempKeeps == IndInv /\ FillTemp => IndInv'
<1> SUFFICES ASSUME IndInv, FillTemp PROVE IndInv'
  OBVIOUS
<1> DEFINE file == [prepared[next].file EXCEPT !.mode = PrivateMode]
<1>1. pc = "fill" /\ next <= Len(prepared)
  BY DEF FillTemp, TempStep
<1>2. prepared[next].file \in File
  BY <1>1, NextFacts DEF Writing
<1>3. file \in TempFile
  BY <1>2 DEF File, TempFile
<1>4. temp.mode = PrivateMode
  BY <1>1 DEF IndInv, ProgressInv, Partial
<1>5. TempStep("fill", "chmod", file)
  BY <1>4 DEF FillTemp
<1>6. file = [prepared[next].file EXCEPT !.mode = PrivateMode]
  OBVIOUS
<1> HIDE DEF file
<1> QED
  BY <1>3, <1>5, <1>6, TempStepKeeps DEF Writing

LEMMA ChmodTempKeeps == IndInv /\ ChmodTemp => IndInv'
<1> SUFFICES ASSUME IndInv, ChmodTemp PROVE IndInv'
  OBVIOUS
<1>1. pc = "chmod" /\ next <= Len(prepared)
  BY DEF ChmodTemp, TempStep
<1> DEFINE file == prepared[next].file
<1>2. file \in File
  BY <1>1, NextFacts DEF Writing
<1>3. file \in TempFile
  BY <1>2 DEF File, TempFile
<1>4. temp = [file EXCEPT !.mode = PrivateMode]
  BY <1>1 DEF IndInv, ProgressInv
<1>5. RestoredMode(prepared[next]) = file.mode
  BY DEF RestoredMode
<1>6. [temp EXCEPT !.mode = RestoredMode(prepared[next])] = file
  <2> HIDE DEF file
  <2> QED
    BY <1>2, <1>4, <1>5 DEF File
<1>7. TempStep("chmod", "rename", file)
  BY <1>6 DEF ChmodTemp
<1>8. file = prepared[next].file
  OBVIOUS
<1> HIDE DEF file
<1> QED
  BY <1>3, <1>7, <1>8, TempStepKeeps DEF Writing

\* The rename puts the whole new file in the place of the next target.
LEMMA RenameKeeps == IndInv /\ Rename => IndInv'
<1> SUFFICES ASSUME IndInv, Rename PROVE IndInv'
  OBVIOUS
<1> USE DEF IndInv
<1>1. /\ pc = "rename" /\ pc' = "create" /\ next' = next + 1 /\ temp' = NoTemp
      /\ files' = [files EXCEPT ![prepared[next].path] = temp]
      /\ UNCHANGED <<version, prepared, invalid, calls, before, broken>>
  BY DEF Rename
<1>2. /\ next <= Len(Targets) /\ temp = prepared[next].file /\ Len(prepared) = Len(Targets)
      /\ Written(next - 1)
  BY <1>1 DEF ProgressInv, PrepareInv, Writing
<1>3. /\ next \in DOMAIN Targets /\ version \in SemVer
      /\ prepared[next].path = Targets[next]
      /\ temp = Bumped(before[Targets[next]], version)
      /\ temp \in File /\ Matches(temp)
  BY <1>1, <1>2, NextFacts DEF Writing
<1>4. files' = [files EXCEPT ![Targets[next]] = temp]
  BY <1>1, <1>3
<1>5. TypeOK'
  <2>1. next' \in 1..(Len(Targets) + 1)
    BY <1>1, <1>2, TargetFacts DEF TypeOK
  <2>2. files' \in [Paths -> File \cup {Absent}]
    BY <1>3, <1>4 DEF TypeOK
  <2> QED
    BY <1>1, <2>1, <2>2 DEF TypeOK, Writing
<1>6. PrepareInv'
  BY <1>1 DEF PrepareInv, PreparedFor, Writing
<1>7. ASSUME NEW i \in DOMAIN Targets
      PROVE  files'[Targets[i]] = IF i <= next THEN Bumped(before[Targets[i]], version)
                                               ELSE before[Targets[i]]
  <2>1. files[Targets[i]] = IF i <= next - 1 THEN Bumped(before[Targets[i]], version)
                                             ELSE before[Targets[i]]
    BY <1>2 DEF Written
  <2>2. Targets[i] \in Paths /\ i \in Nat /\ next \in Nat
    BY <1>3, TargetFacts
  <2>3. CASE i = next
    BY <1>3, <1>4, <2>2, <2>3 DEF TypeOK
  <2>4. CASE i # next
    <3>1. Targets[i] # Targets[next]
      BY <1>3, <2>4, TargetFacts
    <3>2. files'[Targets[i]] = files[Targets[i]]
      BY <1>4, <2>2, <3>1 DEF TypeOK
    <3>3. i <= next <=> i <= next - 1
      BY <2>2, <2>4
    <3> QED
      BY <2>1, <3>2, <3>3
  <2> QED
    BY <2>3, <2>4
<1>8. ProgressInv'
  <2>1. next' - 1 = next
    BY <1>1, <1>3, TargetFacts
  <2>2. Written(next - 1)'
    BY <1>1, <1>7, <2>1 DEF Written
  <2> QED
    BY <1>1, <1>3, <2>2 DEF ProgressInv, Writing
<1>9. UpdatesInOrder'
  <2>1. next \in 0..Len(Targets)
    BY <1>3, TargetFacts
  <2> QED
    BY <1>1, <1>7, <2>1 DEF UpdatesInOrder
<1>10. AlwaysRepeatable'
  BY <1>1, <1>3, <1>4 DEF AlwaysRepeatable, TypeOK
<1> QED
  BY <1>5, <1>6, <1>8, <1>9, <1>10

LEMMA WriteFailsKeeps == IndInv /\ WriteFails => IndInv'
<1> SUFFICES ASSUME IndInv, WriteFails PROVE IndInv'
  OBVIOUS
<1> USE DEF IndInv
<1>1. /\ pc \in Writing /\ next <= Len(prepared) /\ pc' = "ioError" /\ next' = next + 1 /\ temp' = NoTemp
      /\ UNCHANGED <<files, version, prepared, invalid, calls, before, broken>>
  BY DEF WriteFails
<1>2. next <= Len(Targets) /\ next \in Nat /\ next >= 1 /\ next' - 2 = next - 1
  BY <1>1 DEF PrepareInv, TypeOK
<1>3. TypeOK'
  <2>1. next' \in 1..(Len(Targets) + 1)
    BY <1>1, <1>2, TargetFacts
  <2> QED
    BY <1>1, <2>1 DEF TypeOK, Ended
<1>4. PrepareInv' /\ ProgressInv'
  BY <1>1 DEF PrepareInv, ProgressInv, Writing
<1>5. UpdatesInOrder'
  <2>1. Written(next' - 2)
    BY <1>1, <1>2 DEF ProgressInv
  <2>2. next' - 2 \in 0..Len(Targets)
    BY <1>2, TargetFacts
  <2> QED
    BY <1>1, <2>1, <2>2, OrderKept
<1>6. AlwaysRepeatable'
  BY <1>1 DEF AlwaysRepeatable
<1> QED
  BY <1>3, <1>4, <1>5, <1>6

LEMMA SucceedsKeeps == IndInv /\ Succeeds => IndInv'
<1> SUFFICES ASSUME IndInv, Succeeds PROVE IndInv'
  OBVIOUS
<1> USE DEF IndInv
<1>1. /\ pc = "create" /\ next > Len(prepared) /\ pc' = "ok"
      /\ UNCHANGED <<files, version, next, prepared, invalid, temp, calls, before, broken>>
  BY DEF Succeeds
<1>2. next - 1 = Len(Targets) /\ version \in SemVer /\ Written(next - 1)
  BY <1>1, TargetFacts DEF TypeOK, PrepareInv, ProgressInv, Writing
<1>3. Written(Len(Targets))'
  BY <1>1, <1>2 DEF Written
<1>4. TypeOK' /\ PrepareInv'
  BY <1>1 DEF TypeOK, PrepareInv, PreparedFor, Writing, Ended
<1>5. ProgressInv'
  BY <1>1, <1>2, <1>3 DEF ProgressInv, Writing
<1>6. UpdatesInOrder'
  BY <1>1, OrderKept
<1>7. AlwaysRepeatable'
  BY <1>1 DEF AlwaysRepeatable
<1> QED
  BY <1>4, <1>5, <1>6, <1>7

LEMMA KillKeeps == IndInv /\ Kill => IndInv'
<1> SUFFICES ASSUME IndInv, Kill PROVE IndInv'
  OBVIOUS
<1> USE DEF IndInv
<1>1. /\ pc' = "killed" /\ temp' = NoTemp
      /\ UNCHANGED <<files, version, next, prepared, invalid, calls, before, broken>>
  BY DEF Kill
<1>2. TypeOK' /\ PrepareInv' /\ ProgressInv'
  BY <1>1 DEF TypeOK, PrepareInv, ProgressInv, Writing, Ended
<1>3. UpdatesInOrder'
  BY <1>1, OrderKept
<1>4. AlwaysRepeatable'
  BY <1>1 DEF AlwaysRepeatable
<1> QED
  BY <1>2, <1>3, <1>4

LEMMA EditKeeps ==
    ASSUME IndInv, NEW path \in Paths, NEW file \in Contents \cup {Absent}, Edit(path, file)
    PROVE  IndInv'
<1> USE DEF IndInv
<1>1. /\ pc' = "idle" /\ files' = [files EXCEPT ![path] = file] /\ before' = files'
      /\ broken' = (IF Matches(file) THEN broken \ {path} ELSE broken \cup {path})
      /\ UNCHANGED <<version, next, prepared, invalid, temp, calls>>
  BY DEF Edit
<1>2. files' \in [Paths -> File \cup {Absent}]
  BY <1>1, BumpAssumption DEF TypeOK
<1>3. TypeOK'
  BY <1>1, <1>2 DEF TypeOK, Ended
<1>4. Written(0)'
  BY <1>1, TargetFacts DEF Written
<1>5. PrepareInv' /\ ProgressInv'
  BY <1>1, <1>4 DEF PrepareInv, ProgressInv, Writing
<1>6. UpdatesInOrder'
  BY <1>1, <1>4, TargetFacts DEF UpdatesInOrder, Written
<1>7. AlwaysRepeatable'
  <2> SUFFICES ASSUME NEW p \in Paths \ broken' PROVE Matches(files'[p])
    BY DEF AlwaysRepeatable
  <2>1. CASE p = path
    BY <1>1, <2>1 DEF TypeOK
  <2>2. CASE p # path
    BY <1>1, <2>2 DEF TypeOK, AlwaysRepeatable
  <2> QED
    BY <2>1, <2>2
<1> QED
  BY <1>3, <1>5, <1>6, <1>7

LEMMA NextKeeps == IndInv /\ [Next]_vars => IndInv'
<1> SUFFICES ASSUME IndInv, [Next]_vars PROVE IndInv'
  OBVIOUS
<1>1. CASE Done \/ UNCHANGED vars
  BY <1>1 DEF Done, vars, callVars, IndInv, TypeOK, PrepareInv, PreparedFor, ProgressInv, Written,
              UpdatesInOrder, AlwaysRepeatable
<1> QED
  BY <1>1, CallKeeps, PrepareKeeps, ValidatedKeeps, CreateTempKeeps, FillTempKeeps, ChmodTempKeeps,
     RenameKeeps, WriteFailsKeeps, SucceedsKeeps, KillKeeps, EditKeeps DEF Next

LEMMA Invariance == Spec => []IndInv
BY InitIndInv, NextKeeps, PTL DEF Spec

-----------------------------------------------------------------------------
(* What it gives *)

\* Every variable keeps its type: no target ever holds partial content or the mode of a
\* temporary file.
THEOREM TypeCorrect == Spec => []TypeOK
<1>1. IndInv => TypeOK
  BY DEF IndInv
<1> QED
  BY <1>1, Invariance, PTL

\* At any moment a first part of the targets is updated and the rest is as the call
\* found it, and nothing is unless every target passed validation (update).
THEOREM UpdatesAreInOrder == Spec => []UpdatesInOrder
<1>1. IndInv => UpdatesInOrder
  BY DEF IndInv
<1> QED
  BY <1>1, Invariance, PTL

\* After a success no target holds another version (run, ReplaceAll).
THEOREM SuccessDoesMeanBumped == Spec => []SuccessMeansBumped
<1>1. IndInv => SuccessMeansBumped
  <2> SUFFICES ASSUME IndInv, pc = "ok", NEW path \in Paths, NEW i \in DOMAIN files[path].places,
                      files[path].places[i] \in SemVer
               PROVE  files[path].places[i] = version
    BY DEF SuccessMeansBumped
  <2>1. PICK n \in DOMAIN Targets : path = Targets[n]
    BY DEF Paths
  <2>2. files[path] = Bumped(before[path], version) /\ before[path] \in File /\ version \in SemVer
    <3>1. Written(Len(Targets)) /\ PreparedFor(n) /\ version \in SemVer
      BY <2>1 DEF IndInv, ProgressInv, PrepareInv
    <3>2. n <= Len(Targets)
      BY TargetFacts
    <3> QED
      BY <2>1, <3>1, <3>2 DEF Written, PreparedFor
  <2> QED
    BY <2>2, BumpedFacts
<1> QED
  BY <1>1, Invariance, PTL

\* Whatever fails and wherever the tool is killed, the next call finds a version to
\* replace in every file that the developer has not broken (buildTargets).
THEOREM CallsAreRepeatable == Spec => []AlwaysRepeatable
<1>1. IndInv => AlwaysRepeatable
  BY DEF IndInv
<1> QED
  BY <1>1, Invariance, PTL

=============================================================================
