SPECIFICATION Spec
CONSTANTS
  Msgs = {1, 2}
  Home <- InboxAndTrash
  Uid <- Distinct
  Google = TRUE
  Api = TRUE
  Trash = "move"
  Ops = {"archive", "delete", "destroy", "read", "unread", "open"}
  MaxOps = 3
  Env = {"partial", "fault", "crash", "cancel"}
  MaxEnv = 1
CHECK_DEADLOCK FALSE
INVARIANTS SeenConverges
PROPERTIES ClearedFlagAgrees
