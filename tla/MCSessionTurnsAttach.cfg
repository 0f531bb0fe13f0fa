\* An observer whose decision is answered while another run parks.
SPECIFICATION Spec
CONSTANTS
    None = None
    Posts = {p1}
    Attaches = {o1}
    Stops = {}
    Outside = {x1}
    Handlers = {p1, o1}
    Runs = {p1, x1}
    MaxDrops = 0
    LossyUnsubscribe = FALSE
PROPERTY AttachStillParked
CHECK_DEADLOCK FALSE
