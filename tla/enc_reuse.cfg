\* Two executions, the second takes the stage of the first over.
SPECIFICATION Spec
CONSTANTS
    MaxExec = 2
    MaxTries = 1
    MaxFaults = 1
INVARIANT SelectedFileIsThere
\* A medium whose encryption is settled rests.
CHECK_DEADLOCK FALSE
