SPECIFICATION Spec
CONSTANTS
  Msgs = {1, 2}
  Home <- OtherAndTrash
  Uid <- Distinct
  Google = TRUE
  Api = FALSE
  Trash = "move"
  Ops = {"delete", "destroy", "inbox", "empty"}
  MaxOps = 2
  Env = {"fault", "late", "cancel", "crash"}
  MaxEnv = 2
CHECK_DEADLOCK FALSE
INVARIANTS TypeOK GoneMeansDone
PROPERTIES DestroyedFromTrash RestoreServed
