\* Two tasks of two types, both enqueued by one scan, one of them optional work
\* of a published run; executors that settle their own rows; shared GPU budget.
SPECIFICATION Spec
CONSTANTS
    t1 = t1
    t2 = t2
    video = video
    audio = audio
    gpu = gpu
    NoTask = NoTask
    Tasks = {t1, t2}
    Types = {video, audio}
    TypeOf <- TwoTypes
    ScanTasks = {t1, t2}
    Published = {t1}
    AtomicTypes = {video}
    Pausable = {audio}
    MaxAttempts <- TwoAttempts
    Limit <- OneEach
    Resources = {gpu}
    Capacity <- OneGpu
    Cost <- GpuEach
    Zone = "utc"
    MaxExec = 2
    MaxResets = 0
    MaxCancels = 0
INVARIANTS TypeOK FreshWithinCapacity WaitingHasAttemptsLeft
PROPERTIES SettledByHolder RecoverySparesLive
