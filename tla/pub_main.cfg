\* A video planned twice with one of two plans: retries, repairs, a cancelled
\* scan, an administrator and a crash.
SPECIFICATION Spec
CONSTANTS
    poster = poster
    encrypt = encrypt
    visible = visible
    extract = extract
    Steps <- AllSteps
    Required = {poster, encrypt}
    Visible = visible
    Encrypt = encrypt
    Retryable = {extract}
    Cancellable = {encrypt}
    Deps <- VideoDeps
    Plans <- PlainOrEncrypted
    MaxAttempts = 1
    MaxGen = 2
    MaxRound = 1
    MaxCrashes = 1
INVARIANTS
    TypeOK
    RowsFollowSteps
    SupersededIsOver
    PublishedIsBacked
    CountsAreCurrent
    FinishedRunIsQuiet
PROPERTIES
    OutcomeIsFinal
    DoneIsKept
    StartupIsQuiet
    ImplementsPromise
    RunIsDecided
    StepIsSettled
\* Every item may end published with nothing left to retry.
CHECK_DEADLOCK FALSE
