CONSTANTS
  o1 = o1  o2 = o2  c1 = c1
  Orders = {o1, o2}
  Chats = {c1}
  ChatOf <- SharedChat
  MaxMessages = 2
  Options = {"ignore_own"}
  StoreKind = "sqlite"
  Faults = {}
  MaxLapsed = 0
SPECIFICATION Spec
INVARIANTS MessagesHandedInOrder
