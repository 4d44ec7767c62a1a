CONSTANTS
  Ids = {1, 2, 3}
  Buyer <- MCBuyer
  Quantity <- MCQuantity
  Described = {1, 3}
  Labels <- MCLabels
  Marked = {2}
  Seller = 8
  MaxInt = 4
  Options <- MCOptions
  MaxNodes = 7
SPECIFICATION MCSpec
INVARIANTS OnlyTopLevelOnTop
CHECK_DEADLOCK FALSE
