\* Two messages, the unsubscribe of the first one lost.
SPECIFICATION Spec
CONSTANTS
    None = None
    Posts = {p1, p2}
    Attaches = {}
    Stops = {}
    Outside = {}
    Handlers = {p1, p2}
    Runs = {p1, p2}
    MaxDrops = 0
    LossyUnsubscribe = TRUE
INVARIANT OwnOutcome
CHECK_DEADLOCK FALSE
