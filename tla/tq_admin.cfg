\* One task that administrators cancel, force, reset and retry while up to
\* two executions of it overlap, in a server west of Greenwich.
SPECIFICATION Spec
CONSTANTS
    t1 = t1
    t2 = t2
    video = video
    audio = audio
    gpu = gpu
    NoTask = NoTask
    Tasks = {t1}
    Types = {video, audio}
    TypeOf <- OneVideo
    ScanTasks = {}
    Published = {}
    AtomicTypes = {}
    Pausable = {}
    MaxAttempts <- TwoAttempts
    Limit <- OneEach
    Resources = {gpu}
    Capacity <- Unlimited
    Cost <- GpuEach
    Zone = "west"
    MaxExec = 2
    MaxResets = 2
    MaxCancels = 1
INVARIANTS RegisteredWhileOwned FreshLeaseHoldsReservation FreshWithinLimit
PROPERTY ImplementsLeasedWork
