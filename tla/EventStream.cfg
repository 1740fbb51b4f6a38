SPECIFICATION Spec
CONSTANTS
  Brokers = {"memory", "rabbitmq"}
  Streams = {"s1"}
  ChatOf <- OneStream
  Chats = {"c1", "c2"}
  Capacity = 2
  MaxEvents = 4
  Faulty = TRUE
INVARIANTS
  NoSendOnClosed
  OwnChatInOrder
  NoneSlipsThrough
PROPERTIES
  GoroutinesEnd
  EventuallySent
CHECK_DEADLOCK FALSE
