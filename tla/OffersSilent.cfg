CONSTANTS
  k1 = k1  k2 = k2  o1 = o1  o2 = o2  o3 = o3  r1 = r1  r2 = r2
  Callers = {k1}
  Managed = {k1}
  Ids = {o1}
  Custom = {"server"}
  First <- OneOffer
  Widget <- MCWidget
  Calls <- JustDeactivateAll
  Rivals = {r1, r2}
  Promoted = {r2}
  Prices <- MCPrices
  MyPrices = {2}
  FirstMarket <- MCMarket
  By = 1
  Floor = 2
  MaxEdits = 0
  MaxCalls = 1
  Faults = {"refuse"}
SPECIFICATION Spec
INVARIANTS DeactivatesAll
CHECK_DEADLOCK FALSE
