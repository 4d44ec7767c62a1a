CONSTANTS
  s1 = s1  s2 = s2  o1 = o1  o2 = o2  o3 = o3  k1 = k1  k2 = k2
  i1 = i1  i2 = i2  i3 = i3
  Services = {s1, s2}
  Orders = {o1, o2, o3}
  Products = {k1, k2}
  Items <- MCItems
  Matches <- MCMatches3
  Amount <- MCAmount3
  Batches <- MCBatches
  StoreKind = "memory"
  Faults = {}
  CallsLapsed = FALSE
SPECIFICATION Spec
CHECK_DEADLOCK FALSE
PROPERTIES LossOnlyByLostRace EverythingSettles
