CONSTANTS
  a = a  b = b  c = c  n1 = n1  n2 = n2  n3 = n3
  Day = 3
  Offers = {a, b, c}
  NodeOf <- MCNodeOf
  Entries <- DayAndNight
  Sleep <- NightSleep
  MaxPrice = 1
  Faults = {"net"}
SPECIFICATION Spec
PROPERTIES HoursKept
CHECK_DEADLOCK FALSE
