CONSTANTS
    o1 = o1  o2 = o2  a1 = a1  a2 = a2  r1 = r1  r2 = r2  m1 = m1  ap1 = ap1
    Runs = {r1, r2}
    Attempts = {a1, a2}
    Arms = {m1}
    ArmOf <- OneArm
    Declared = {}
    Cap = 2
    Requests = {1}
    AllocationOnly = {}
    Elapsed = {0, 2}
    Outcomes = {"SUCCEEDED", "FAILED", "INTERRUPTED", "TIMEOUT", "BUDGET_EXHAUSTED", "PREFLIGHT_FAILED"}
    Approvals = {}
    Resources = {"cpu"}
    Slots <- OneSlot
    SharedLimit = 1
    Sharing = {}
    Owners = {o1, o2}
    JobOf <- OwnJobs
    Ask <- AskOne
    CellOf <- OwnCells
    ResourceOf <- CpuOnly
    Impatient = {o1}
    MayDie = {o1}
    RecoveryDies = "never"  MayHold = FALSE  Permissible = {}
    Operator = Operator  Nobody = Nobody
    NoRun = NoRun  NoAttempt = NoAttempt  NoApproval = NoApproval
    NoArm = NoArm  NoResource = NoResource  NoSlot = NoSlot
SPECIFICATION FairSpec
CHECK_DEADLOCK FALSE
INVARIANTS
    WorkersWithinSlots
    UnsettledEndClosesArm
PROPERTIES
    ImplementsQueue
    EveryCallReturns
