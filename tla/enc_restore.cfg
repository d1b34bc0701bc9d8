\* One execution whose restore meets the reconciler.
SPECIFICATION Spec
CONSTANTS
    MaxExec = 1
    MaxTries = 1
    MaxFaults = 0
PROPERTY RestoreLeavesContent
\* A medium whose encryption is settled rests.
CHECK_DEADLOCK FALSE
