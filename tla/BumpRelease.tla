------------------------------ MODULE BumpRelease ------------------------------
(***************************************************************************)
(* scripts/bump_release_version: a call validates all target files, then   *)
(* replaces them one by one, each through a temporary file and a rename.   *)
(* Any of its system calls may fail, it may be killed between any two of   *)
(* them, and it is called again, with the same version or another.         *)
(* Between calls the developer edits, removes and restores the files.      *)
(***************************************************************************)
EXTENDS Integers, Sequences

CONSTANTS
    Targets,     \* buildTargets: the files in the order in which they are processed
    Arguments,   \* what the tool may be called with
    SemVer,      \* the arguments of the form vX.Y.Z
    Contents,    \* what the developer may leave in a file
    Modes,
    MaxCalls     \* bound: the calls of the tool

\* The temporary file is created with the mode of os.CreateTemp.
PrivateMode == "0600"

\* A file, by what its pattern sees: the versions at the places where one may be, of
\* which only those in SemVer match, and everything else.
File == [places : Seq(Arguments), rest : {"text"}, mode : Modes]
TempFile == [places : Seq(Arguments), rest : {"text", "partial"}, mode : Modes \cup {PrivateMode}]

ASSUME BumpAssumption ==
    /\ Targets \in Seq(STRING) /\ \A i, j \in DOMAIN Targets : Targets[i] = Targets[j] => i = j
    /\ SemVer \subseteq Arguments
    /\ Contents \subseteq File
    /\ PrivateMode \notin Modes
    /\ MaxCalls \in Nat

Paths   == {Targets[i] : i \in DOMAIN Targets}
Absent  == [places |-> <<>>, rest |-> "absent", mode |-> "none"]
NoTemp  == Absent
Partial == [places |-> <<>>, rest |-> "partial", mode |-> PrivateMode]

VARIABLES
    files,       \* files[path]
    pc,          \* where the call is, or how the last one ended
    version,     \* its argument
    next,        \* the target it is at
    prepared,    \* the contents and modes that phase 1 has prepared
    invalid,     \* validationErrs: the targets that failed phase 1
    temp,        \* the temporary file of the target
    calls,       \* the calls so far
    before,      \* history: the files when the call started
    broken       \* history: the files in which the developer left nothing to match

callVars == <<pc, version, next, prepared, invalid, temp, calls, before>>
vars     == <<files, callVars, broken>>

Writing == {"create", "fill", "chmod", "rename"}
Ended   == {"idle", "usage", "invalid", "ioError", "ok", "killed"}

-----------------------------------------------------------------------------
(* Defects that the runs must find: each replaces the operator it precedes *)

AcceptsPrefix(arg) == TRUE
ReplacesFirst(file, v) == [file EXCEPT !.places = [i \in DOMAIN @ |-> IF i = 1 THEN v ELSE @[i]]]
WritesTheValid == TRUE
KeepsPrivateMode(p) == PrivateMode

-----------------------------------------------------------------------------
(* The decisions of the code *)

\* validateVersion: the pattern is anchored to the whole argument.
ValidVersion(arg) == arg \in SemVer

\* Whether a target's pattern is found in the file.
Matches(file) == \E i \in DOMAIN file.places : file.places[i] \in SemVer

\* ReplaceAll: what matched, and nothing else, becomes the version.
Bumped(file, v) ==
    [file EXCEPT !.places = [i \in DOMAIN @ |-> IF @[i] \in SemVer THEN v ELSE @[i]]]

\* Whether phase 2 may start once every target went through phase 1.
MayWrite == invalid = {}

\* The mode that the temporary file gets before the rename.
RestoredMode(p) == p.file.mode

-----------------------------------------------------------------------------

Init ==
    /\ files \in [Paths -> {c \in Contents : Matches(c)}]
    /\ pc = "idle"
    /\ version = "none"
    /\ next = 1
    /\ prepared = <<>>
    /\ invalid = {}
    /\ temp = NoTemp
    /\ calls = 0
    /\ before = files
    /\ broken = {}

\* run: an argument that is not a version is refused.
Call(arg) ==
    /\ pc \in Ended /\ calls < MaxCalls
    /\ calls' = calls + 1
    /\ pc' = IF ValidVersion(arg) THEN "prepare" ELSE "usage"
    /\ version' = arg
    /\ next' = 1 /\ prepared' = <<>> /\ invalid' = {} /\ temp' = NoTemp
    /\ before' = files
    /\ UNCHANGED <<files, broken>>

\* Phase 1: a target that is absent, does not match or cannot be read is an error.
Prepare ==
    /\ pc = "prepare" /\ next <= Len(Targets)
    /\ LET path == Targets[next]
       IN  \/ /\ files[path] # Absent /\ Matches(files[path])
              /\ prepared' = Append(prepared, [path |-> path, file |-> Bumped(files[path], version)])
              /\ invalid' = invalid
           \/ invalid' = invalid \cup {path} /\ prepared' = prepared
    /\ next' = next + 1
    /\ UNCHANGED <<files, pc, version, temp, calls, before, broken>>

\* The end of phase 1: all targets are written, or none.
Validated ==
    /\ pc = "prepare" /\ next > Len(Targets)
    /\ pc' = IF MayWrite THEN "create" ELSE "invalid"
    /\ next' = 1
    /\ UNCHANGED <<files, version, prepared, invalid, temp, calls, before, broken>>

\* writeFileAtomic: the steps before the rename, and the rename.
TempStep(from, to, file) ==
    /\ pc = from /\ next <= Len(prepared)
    /\ pc' = to
    /\ temp' = file
    /\ UNCHANGED <<files, version, next, prepared, invalid, calls, before, broken>>

CreateTemp == TempStep("create", "fill", Partial)
FillTemp   == TempStep("fill", "chmod", [prepared[next].file EXCEPT !.mode = temp.mode])
ChmodTemp  == TempStep("chmod", "rename", [temp EXCEPT !.mode = RestoredMode(prepared[next])])

Rename ==
    /\ pc = "rename"
    /\ files' = [files EXCEPT ![prepared[next].path] = temp]
    /\ temp' = NoTemp
    /\ next' = next + 1
    /\ pc' = "create"
    /\ UNCHANGED <<version, prepared, invalid, calls, before, broken>>

\* One of these steps fails: the target is as it was, and the call is over.
WriteFails ==
    /\ pc \in Writing /\ next <= Len(prepared)
    /\ temp' = NoTemp
    /\ pc' = "ioError"
    /\ next' = next + 1
    /\ UNCHANGED <<files, version, prepared, invalid, calls, before, broken>>

Succeeds ==
    /\ pc = "create" /\ next > Len(prepared)
    /\ pc' = "ok"
    /\ UNCHANGED <<files, version, next, prepared, invalid, temp, calls, before, broken>>

\* The process is killed.
Kill ==
    /\ pc \notin Ended
    /\ pc' = "killed"
    /\ temp' = NoTemp
    /\ UNCHANGED <<files, version, next, prepared, invalid, calls, before, broken>>

\* Between two calls the developer changes a file, removes it or brings it back.
Edit(path, file) ==
    /\ pc \in Ended /\ calls < MaxCalls
    /\ files' = [files EXCEPT ![path] = file]
    /\ before' = files'
    /\ pc' = "idle"
    /\ broken' = IF Matches(file) THEN broken \ {path} ELSE broken \cup {path}
    /\ UNCHANGED <<version, next, prepared, invalid, temp, calls>>

Done == pc \in Ended /\ calls = MaxCalls /\ UNCHANGED vars

Next ==
    \/ \E arg \in Arguments : Call(arg)
    \/ Prepare \/ Validated
    \/ CreateTemp \/ FillTemp \/ ChmodTemp \/ Rename \/ WriteFails
    \/ Succeeds \/ Kill
    \/ \E path \in Paths, file \in Contents \cup {Absent} : Edit(path, file)
    \/ Done

Spec == Init /\ [][Next]_vars

-----------------------------------------------------------------------------
(* Properties *)

\* Every variable has its type: a target never holds partial content, nor the mode of a
\* temporary file (writeFileAtomic restores the mode before it renames).
TypeOK ==
    /\ files \in [Paths -> File \cup {Absent}]
    /\ before \in [Paths -> File \cup {Absent}]
    /\ pc \in {"prepare"} \cup Writing \cup Ended
    /\ version \in Arguments \cup {"none"}
    /\ next \in 1..(Len(Targets) + 1)
    /\ prepared \in Seq([path : Paths, file : File])
    /\ invalid \subseteq Paths /\ broken \subseteq Paths
    /\ temp \in TempFile \cup {NoTemp}
    /\ calls \in 0..MaxCalls

\* At any moment, so after a crash as well, the files are as the call found them but for
\* a first part of the targets, which have their whole new content and their former mode.
\* That part is empty unless every target passed validation, and a write that fails
\* ends it (update, writeFileAtomic).
UpdatesInOrder ==
    \E k \in 0..Len(Targets) :
        /\ \A i \in DOMAIN Targets :
               files[Targets[i]] = IF i <= k THEN Bumped(before[Targets[i]], version)
                                             ELSE before[Targets[i]]
        /\ pc \in {"idle", "usage", "prepare", "invalid"} => k = 0
        /\ pc = "ioError" => k = next - 2

\* After a success every place with a version, in every file, has the new one, whatever
\* earlier calls left behind half done (run, ReplaceAll).
SuccessMeansBumped ==
    pc = "ok" => \A path \in Paths : \A i \in DOMAIN files[path].places :
        files[path].places[i] \in SemVer => files[path].places[i] = version

\* No sequence of calls, failures and crashes leaves a file in which the next call would
\* find nothing to replace: only the developer can (validateVersion, buildTargets).
AlwaysRepeatable == \A path \in Paths \ broken : Matches(files[path])

=============================================================================
