SPECIFICATION ChannelSpec
CONSTANTS
  t1 = t1  t2 = t2  g1 = g1  g2 = g2  e1 = e1  e2 = e2  e3 = e3
  c1 = c1  c2 = c2  call1 = call1  call2 = call2  call3 = call3
  Turns = {t1, t2}
  Rules = {g1}
  Edits = {e1, e2}
  Beside = {e1, e2}
  Times = {1, 2}
  MaxGrants = 1
  Attempts = 2
  Retries = 2
  Absent = Absent
  MaxBreaks = 1
  Callers = {c1}
  Reason = Reason
  Bare = Bare
  Error = Error
  Nobody = Nobody
  MaxCalls = 0
  Commands = {}
  Plains = {}
  Asks = {}
INVARIANT RevokedIsGone
CHECK_DEADLOCK FALSE
