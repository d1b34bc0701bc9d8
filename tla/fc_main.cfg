\* Libraries that take turns, editors of the policy, operators of the control
\* state; the server restarts once.
SPECIFICATION Spec
CONSTANTS
    poster = poster
    encrypt = encrypt
    step = step
    e1 = e1
    e2 = e2
    o1 = o1
    o2 = o2
    Types <- BothTypes
    Settings = {step}
    Editors = {e1, e2}
    Operators = {o1, o2}
    Edits <- SomeEdits
    BaseLimit <- BaseLimits
    None = None
    MaxInt64 = 127
    AgingInterval = 3
    AgingStep = 1
    RunNowAmount = 100
    Libraries = {0, 1, 2}
    NoLibrary <- NoLib
    Place <- Places
    Shared = {encrypt}
    Scenarios <- ThreeScenarios
    MaxWaiting = 2
INVARIANTS
    TypeOK
    PolicyInForceIsAccepted
    MemoryFollowsRevision
    OverridesAccumulate
PROPERTIES
    NoSecondTurn
    BackloggedLibraryServed
    HeldTypeComesToRest
