CONSTANTS
    r1 = r1  r2 = r2  r3 = r3  a1 = a1  a2 = a2  a3 = a3  a4 = a4  m1 = m1  m2 = m2  ap1 = ap1
    Runs = {r1, r2}
    Attempts = {a1, a2}
    Arms = {m1}
    ArmOf <- OneArm
    Declared = {}
    Cap = 2
    Requests = {1, 2}
    AllocationOnly = {}
    Elapsed = {0, 1}
    Outcomes = {"SUCCEEDED", "TIMEOUT"}
    Approvals = {ap1}
    NoRun = NoRun  NoAttempt = NoAttempt  NoApproval = NoApproval
SPECIFICATION Spec
SYMMETRY RunSymmetry
CHECK_DEADLOCK FALSE
PROPERTY
    BusyArmStaysOpen
