CONSTANTS
    e1 = e1  e2 = e2  h1 = h1
    Ids = {e1, e2}
    Replays = {e2}
    Deferrable = {e1}
    HoldIds = {h1}
    SyncMayFail = TRUE
    PowerMayFail = TRUE
    MaxDamage = 1
    Absent = Absent  Torn = Torn  Unread = Unread  NoHead = NoHead
SPECIFICATION Spec
CHECK_DEADLOCK FALSE
INVARIANTS
    AlwaysOpens
    NoSilentLoss
PROPERTIES
    HeadNeverRegresses
    ImplementsLog
    NothingOverwritten
