CONSTANTS
  s1 = s1  s2 = s2  o1 = o1  o2 = o2  o3 = o3  k1 = k1  k2 = k2
  i1 = i1  i2 = i2  i3 = i3
  Services = {s1, s2}
  Orders = {o1, o2}
  Products = {k1}
  Items <- MCItems
  Matches <- MCMatches1
  Amount <- MCAmount2
  Batches <- MCBatches
  StoreKind = "json"
  Faults = {"io", "stat", "send", "drop", "crash"}
  CallsLapsed = FALSE
SPECIFICATION Spec
SYMMETRY MCAlike
CHECK_DEADLOCK FALSE
INVARIANTS TypeOK AtMostOnce NoItemSoldTwice ExactQuantity ClaimIsExclusive RecordsTellTheTruth
PROPERTIES DeliveredIsFinal ImplementsLedger
