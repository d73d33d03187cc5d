CONSTANTS
  Messages = {m1}
  RequestIds = {q1, q2, q3}
  Others = {o1}
  v1 = v1
  v2 = v2
  Legacy <- MCLegacy
  NoTurn = NoTurn
  NoText = NoText
  NoReply = NoReply
  Sizes = {1, 2}
  MaxHistoryTurns = 2
  MaxHistoryBytes = 3
  MaxLineage = 3
  MaxBacklog = 2
  MaxFailures = 1
SPECIFICATION ChatSpec
INVARIANTS
  MessagesAccounted
  ContextIsConversation
PROPERTIES
  ImplementsPromise
  TurnsEnd
CHECK_DEADLOCK FALSE
