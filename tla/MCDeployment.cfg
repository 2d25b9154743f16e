\* One edit or recreation and two faults, over every short item at the boundaries of
\* every field, and durations of five bits so that eight seconds overflow.
CONSTANTS
    Value <- MCValue
    MaxTimeoutSeconds = 3
    Second = 4
    DurationRange = 32
    Canonical <- MCCanonical
    Settings <- MCSettings
    EditedFiles <- MCEditedFiles
    Envs <- MCEnvs
    MaxEdits = 1
    MaxFaults = 2
SPECIFICATION Spec
CHECK_DEADLOCK FALSE
INVARIANTS
    TypeOK
    ScheduleJudgedRight
    ServesOnlyReadableLines
    RunsAreUsable
PROPERTY Recovers
