CONSTANTS
    r1 = r1  r2 = r2  p1 = p1  p2 = p2  f = f  g = g  k = k  l = l
    Runners = {r1, r2}
    ProviderOf <- Provided
    Size = 4
    FoldOf <- FoldOfCell
    Folds = {f, g}
    CandidateOf <- CandidateOfCell
    Score <- Metric
    Slack = 1
    Controls = {k, l}
    Offers <- Prepared
    MaxStarts = 2
    Absent = Absent  None = None  Inconclusive = Inconclusive
SPECIFICATION Spec
CHECK_DEADLOCK FALSE
INVARIANTS
    OneControlPerFold
    SelectionStands
PROPERTIES
    ImplementsRunStore
