\* Two decisions and a Stop over one approval, with restarts, lost replies and fairness.
SPECIFICATION FairSpec
CONSTANTS
    None = None
    Approvals = {a1}
    Deciders = {d1, d2}
    Stops = {s1}
INVARIANT DecisionsSerialized
INVARIANT ClosedCardIsSettled
INVARIANT CardTellsTheDecision
PROPERTY LedgerKept
PROPERTY ReservationEnds
PROPERTY StopSparesDecisions
CHECK_DEADLOCK FALSE
