CONSTANTS
  o1 = o1  o2 = o2  c1 = c1
  Orders = {o1, o2}
  Chats = {c1}
  ChatOf <- SharedChat
  MaxMessages = 2
  Options = {"ignore_own", "emit_for_new", "welcome"}
  StoreKind = "json"
  Faults = {"stat", "stop"}
  MaxLapsed = 0
SPECIFICATION Spec
INVARIANTS HandedIsKnown
CHECK_DEADLOCK FALSE
