\* A decision that the gateway honours and whose reply is lost.
SPECIFICATION Spec
CONSTANTS
    None = None
    Approvals = {a1}
    Deciders = {d1}
    Stops = {}
INVARIANT DecisionsAreRecorded
CHECK_DEADLOCK FALSE
