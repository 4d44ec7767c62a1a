CONSTANTS
  k1 = k1  k2 = k2  o1 = o1  o2 = o2  o3 = o3  r1 = r1  r2 = r2
  Callers = {k1}
  Managed = {k1}
  Ids = {o1}
  Custom = {"server"}
  First <- OneOffer
  Widget <- MCWidget
  Calls <- JustEdit
  Rivals = {r1, r2}
  Promoted = {r2}
  Prices <- MCPrices
  MyPrices = {2}
  FirstMarket <- MCMarket
  By = 1
  Floor = 2
  MaxEdits = 0
  MaxCalls = 1
  Faults = {"net", "expire", "refuse"}
SPECIFICATION Spec
PROPERTIES CustomFieldsKept
CHECK_DEADLOCK FALSE
