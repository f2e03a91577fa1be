CONSTANTS
  visitor = visitor
  reader = reader
  Calls <- Callers
  Menu <- Offered
  Users = Users
  Orders = Orders
  Email = Email
  Note = Note
  Tables <- TheTables
  Columns <- TheColumns
  PiiColumns <- Pii
  Shapes <- Contents
  Kinds <- AllKinds
  MaxAlters = 1
  Nothing = Nothing
SPECIFICATION LiveSpec
INVARIANTS
  OwnConnectionsReturned
  AnswersTrueToSource
CHECK_DEADLOCK FALSE
