CONSTANTS
  a = a  b = b  c = c  n1 = n1  n2 = n2  n3 = n3
  Day = 3
  Offers = {a, b, c}
  NodeOf <- MCNodeOf
  Entries <- OneName
  Sleep <- Never
  MaxPrice = 1
  Faults = {}
SPECIFICATION Spec
PROPERTIES QuietWhateverNamed
CHECK_DEADLOCK FALSE
