CONSTANTS
    trial = trial  test = test  figure = figure  pilot = pilot  sealed = sealed  history = history
    data = data  view = view  view2 = view2
    Items = {trial, test, figure}
    Artifacts = {figure}
    Tests = {trial, test}
    SourceOf <- Source
    Plans = {pilot, sealed}
    Blind = {sealed}
    PlanOf <- PlanOfBlock
    Reports = {history}
    ReportOf <- ReportOfBlock
    Marks <- Unexposed
    Grants = {data, view, view2}
    Covers <- Scope
    Expiry <- Until
    Renewals = {view2}
    Renews <- FromView
    Deadline = 2
    Requests <- Reading
    Already <- Setup
    Spoilable = {trial}
    MaxTime = 3
    MaxScopes = 2
    MaxTail = 1
SPECIFICATION Spec
CHECK_DEADLOCK FALSE
INVARIANTS
    BlindTestsAreBlind
