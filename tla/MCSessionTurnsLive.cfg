\* One message, one Stop, a run from outside and one lost connection, with fairness.
SPECIFICATION FairSpec
CONSTANTS
    None = None
    Posts = {p1}
    Attaches = {}
    Stops = {s1}
    Outside = {x1}
    Handlers = {p1}
    Runs = {p1, x1}
    MaxDrops = 1
    LossyUnsubscribe = FALSE
INVARIANT StopProven
PROPERTY TurnEnds
PROPERTY StopIsAnswered
CHECK_DEADLOCK FALSE
