SPECIFICATION FairSpec
CONSTANTS
    t1 = t1
    t2 = t2
    video = video
    audio = audio
    gpu = gpu
    NoTask = NoTask
    Tasks = {t1}
    Types = {video, audio}
    TypeOf <- OneVideo
    ScanTasks = {t1}
    Published = {t1}
    AtomicTypes = {}
    Pausable = {}
    MaxAttempts <- TwoAttempts
    Limit <- OneEach
    Resources = {gpu}
    Capacity <- Unlimited
    Cost <- GpuEach
    Zone = "utc"
    MaxExec = 1
    MaxResets = 0
    MaxCancels = 0
PROPERTY ScanCancelReachesTasks
