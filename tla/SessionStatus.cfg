CONSTANTS
  p1 = p1  p2 = p2  p3 = p3  good = good  bad = bad
  Connect = connect
  Posts = {p1, p2}
  Keys = {good, bad}
  FirstKey = good
  GoodKeys = {good}
  Limit = 2
  MaxAttempts = 2
  Statuses = {401, 403}
  MaxSessions = 3
  MaxFaults = 3
SPECIFICATION Spec
INVARIANTS EitherStatusReconnects
CHECK_DEADLOCK FALSE
