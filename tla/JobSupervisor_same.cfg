CONSTANTS
    o1 = o1  o2 = o2  a1 = a1  a2 = a2  r1 = r1  r2 = r2  m1 = m1  ap1 = ap1
    Runs = {r1}
    Attempts = {a1}
    Arms = {m1}
    ArmOf <- OneCellArm
    Declared = {}
    Cap = 2
    Requests = {1}
    AllocationOnly = {}
    Elapsed = {0, 2}
    Outcomes = {"SUCCEEDED", "FAILED", "INTERRUPTED", "TIMEOUT", "BUDGET_EXHAUSTED", "PREFLIGHT_FAILED"}
    Approvals = {ap1}
    Resources = {"cpu"}
    Slots <- OneSlot
    SharedLimit = 1
    Sharing = {}
    Owners = {o1, o2}
    JobOf <- SameJob
    Ask <- AskOne
    CellOf <- OneCell
    ResourceOf <- CpuOnly
    Impatient = {}
    MayDie = {o1, o2}
    RecoveryDies = "lost"  MayHold = TRUE  Permissible <- AllPermissible
    Operator = Operator  Nobody = Nobody
    NoRun = NoRun  NoAttempt = NoAttempt  NoApproval = NoApproval
    NoArm = NoArm  NoResource = NoResource  NoSlot = NoSlot
SPECIFICATION Spec
CHECK_DEADLOCK FALSE
INVARIANTS
    WorkIsFunded
    SuccessIsWhole
    StopPrecedesRelease
PROPERTIES
    LaunchedOnce
    NoReopenOverWork
    ImplementsLedger
