SPECIFICATION LiveSpec
CONSTANTS
  Uids = {1, 2, 3}
  Accounts = {"a"}
  AccountOf <- OneAccount
  AutoCopy = {}
  Api = {}
  Forward = {}
  Content <- NoFiles
  Flaky = {1}
  Env = {"fault", "crash", "offline"}
  MaxEnv = 1
PROPERTIES EventuallySettled NoStarvation
