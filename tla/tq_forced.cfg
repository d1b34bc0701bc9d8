SPECIFICATION FairSpec
CONSTANTS
    t1 = t1
    t2 = t2
    video = video
    audio = audio
    gpu = gpu
    NoTask = NoTask
    Tasks = {t1}
    Types = {video, audio}
    TypeOf <- OneVideo
    ScanTasks = {}
    Published = {}
    AtomicTypes = {}
    Pausable = {}
    MaxAttempts <- TwoAttempts
    Limit <- OneEach
    Resources = {gpu}
    Capacity <- Unlimited
    Cost <- GpuEach
    Zone = "utc"
    MaxExec = 2
    MaxResets = 1
    MaxCancels = 1
PROPERTY ForcedCancelOnlyWhileHeld
