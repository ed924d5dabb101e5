CONSTANTS
    a1 = a1  a2 = a2  a3 = a3  m1 = m1  m2 = m2
    Attempts = {a1, a2, a3}
    Arms = {m1, m2}
    Resources = {"cpu"}
    Slots <- OneSlot
    SharedLimit = 2
    Sharing = {a3}
    NoArm = NoArm  NoResource = NoResource  NoSlot = NoSlot
SPECIFICATION OneLost
CHECK_DEADLOCK FALSE
INVARIANTS
    TypeOK
    SlotsExclusive
PROPERTIES
    FifoInArm
    NeverPassedTwice
    TurnComesIfReconciled
    PermittedTurnComesAfterLoss
