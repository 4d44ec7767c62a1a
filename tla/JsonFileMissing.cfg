CONSTANTS
  t1 = t1  t2 = t2  t3 = t3  h1 = h1  h2 = h2  o1 = o1  o2 = o2
  Orders = {o1, o2}
  Tasks = {t1}
  Handles = {h1}
  HandleOf <- OneHandle
  Faults = {"stat"}
SPECIFICATION Spec
PROPERTIES ClaimFailsIfRecorded
CHECK_DEADLOCK FALSE
