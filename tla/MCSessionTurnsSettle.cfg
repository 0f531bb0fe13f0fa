\* A Stop against the question of a run that started after its proof.
SPECIFICATION Spec
CONSTANTS
    None = None
    Posts = {p1, p2}
    Attaches = {}
    Stops = {s1}
    Outside = {}
    Handlers = {p1, p2}
    Runs = {p1, p2}
    MaxDrops = 0
    LossyUnsubscribe = FALSE
PROPERTY SettleSparesLiveRuns
CHECK_DEADLOCK FALSE
