SPECIFICATION Spec
CONSTANTS
  Uids = {1, 2}
  Accounts = {"a", "b"}
  AccountOf <- TwoAccounts
  AutoCopy = {"b"}
  Api = {"b"}
  Forward = {1}
  Content <- FirstIsMixed
  Flaky = {}
  Env = {"fault", "crash", "switch", "retry", "logout", "delete", "offline"}
  MaxEnv = 2
INVARIANTS NothingLost DeliveredTruthful CopyOnlyOfDelivered
