SPECIFICATION SSASpec
CONSTANTS
  Client <- Ids
  client_num = 3
  min_client_num = 2
  threshold = 2
  MaxLost = 1
INVARIANTS MasksCancel OneSecretEach EnoughAnswersUnmask
PROPERTIES DecryptReturns HandlersAreForgotten
CHECK_DEADLOCK FALSE
