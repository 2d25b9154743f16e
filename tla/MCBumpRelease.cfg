\* Two calls of the tool, with failures, a kill and edits anywhere between.
CONSTANTS
    Targets <- MCTargets
    Arguments <- MCArguments
    SemVer <- MCSemVer
    Contents <- MCContents
    Modes = {"0644", "0755"}
    MaxCalls = 2
SPECIFICATION Spec
INVARIANTS
    TypeOK
    UpdatesInOrder
    SuccessMeansBumped
    AlwaysRepeatable
