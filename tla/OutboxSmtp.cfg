SPECIFICATION Spec
CONSTANTS
  Uids = {1}
  Accounts = {"a"}
  AccountOf <- OneAccount
  AutoCopy = {}
  Api = {}
  Forward = {}
  Content <- OwnFiles
  Flaky = {}
  Env = {"fault", "crash", "offline", "delete", "details", "retry", "force", "reauth"}
  MaxEnv = 4
INVARIANTS TypeOK NothingLost SendingHasWorker CompleteDelivery AtMostOnce
PROPERTY FailedStaysFailed
