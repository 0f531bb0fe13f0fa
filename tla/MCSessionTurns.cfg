\* Two messages, an observer and a Stop on one session.
SPECIFICATION Spec
CONSTANTS
    None = None
    Posts = {p1, p2}
    Attaches = {o1}
    Stops = {s1}
    Outside = {}
    Handlers = {p1, p2, o1}
    Runs = {p1, p2}
    MaxDrops = 0
    LossyUnsubscribe = FALSE
SYMMETRY Symmetric
INVARIANT TypeOK
INVARIANT LiveTurnHoldsStream
PROPERTY PromiseKept
PROPERTY OnlyNamedRunsAreStopped
PROPERTY SettleOnProof
CHECK_DEADLOCK FALSE
