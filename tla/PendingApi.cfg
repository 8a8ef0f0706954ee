SPECIFICATION LiveSpec
CONSTANTS
  Msgs = {1, 2}
  Home <- InboxAndTrash
  Uid <- Distinct
  Google = TRUE
  Api = TRUE
  Trash = "move"
  Ops = {"swipe", "inbox"}
  MaxOps = 2
  Env = {"fault", "cancel", "crash"}
  MaxEnv = 1
CHECK_DEADLOCK FALSE
INVARIANTS GoneMeansDone
PROPERTIES RequestsServed
