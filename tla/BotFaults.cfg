CONSTANTS
  o1 = o1  o2 = o2  c1 = c1
  Orders = {o1, o2}
  Chats = {c1}
  ChatOf <- SharedChat
  MaxMessages = 2
  Options = {"ignore_own", "emit_for_new", "welcome"}
  StoreKind = "json"
  Faults = {"fetch", "stat", "save", "handler", "drop", "stop"}
  MaxLapsed = 0
SPECIFICATION Spec
INVARIANTS TypeOK SavedBeforeHanded OrderHandedOnce MessagesHandedInOrder SeenIsThere
PROPERTIES PastIsNotEmitted EverythingHanded
CHECK_DEADLOCK FALSE
