\* Two executions under either policy, every failure, one end of the process or
\* failing pass.
SPECIFICATION Spec
CONSTANTS
    MaxExec = 2
    MaxTries = 2
    MaxFaults = 1
PROPERTIES CopiesAreKept InterruptedWorkSettles
\* A medium whose encryption is settled rests.
CHECK_DEADLOCK FALSE
