SPECIFICATION ChainSpec
CONSTANTS
  n1 = n1
  n2 = n2
  Owner = Owner
  Nodes = {n1, n2}
  NodeOrder <- TheNodes
  Accounts = {n1, n2, Owner}
  AccountOrder <- TheAccounts
  Cid = Cid
  Containers = {Cid}
  Nobody = Nobody
  Alphabet = Alphabet
  BasicIncomeRate = BasicIncomeRate
  Rate = 1
  EpochDuration = 2
  ObjectSize = 2
  GIGABYTE = 2
  Restless = {n2}
  Sizes = {0, 2}
  MaxReports = 1
  Funds = 3
  MaxMoves = 2
  MaxTime = 4
  MaxEpoch = 4
  Amounts = {}
  Senders = {}
  Receivers = {}
  LockAccounts = {}
  Signers = {}
  Rates = {}
  Statistics = {}
  MaxSupply = 3
  MaxFailures = 1
PROPERTIES ServedArePaid
CHECK_DEADLOCK FALSE
