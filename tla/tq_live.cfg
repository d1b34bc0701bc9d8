\* Liveness: one task, an executor that may hang, a server east of Greenwich
\* whose periodic recovery never sees a reservation as expired.
SPECIFICATION FairSpec
CONSTANTS
    t1 = t1
    t2 = t2
    video = video
    audio = audio
    gpu = gpu
    NoTask = NoTask
    Tasks = {t1}
    Types = {video, audio}
    TypeOf <- OneVideo
    ScanTasks = {t1}
    Published = {t1}
    AtomicTypes = {}
    Pausable = {}
    MaxAttempts <- TwoAttempts
    Limit <- OneEach
    Resources = {gpu}
    Capacity <- Unlimited
    Cost <- GpuEach
    Zone = "east"
    MaxExec = 2
    MaxResets = 1
    MaxCancels = 0
PROPERTIES OrphanReclaimed ReservationReturned
