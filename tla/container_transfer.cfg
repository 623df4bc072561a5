SPECIFICATION Spec
CONSTANTS
  u1 = u1
  u2 = u2
  ir = ir
  c1 = c1
  c2 = c2
  c3 = c3
  d1 = d1
  n1 = n1
  n2 = n2
  Cids = {c1, c2}
  Content <- Plain
  Accounts = {u1, u2, ir}
  Nodes = {n1, n2}
  Names = {}
  NoName = NoName
  Keys = {}
  Contract = Contract
  Alphabet = Alphabet
  Committee = Committee
  AlphabetNodes = {}
  ContainerFee = 1
  AliasFee = 1
  EpochDuration = 2
  SECOND = 1
  ObjectSize = 2
  MaxReports = 1
  HEADER = 100
  BASE = 10
  Expire = 1
  Strangers = {}
  RecordSets = {}
  Signers <- WithNodes
  Receivers = {u2}
  Locks = {}
  Vectors = {0}
  ReplicaLists <- NoneOrOne
  Sizes = {1, 2}
  Objects = {0}
  EACLs = {FALSE}
  QuotaUsers = {}
  Limits = {}
  Funds <- NoFunds
  MaxRevision = 2
  MaxTime = 0
  MaxEpoch = 0
INVARIANTS TakenSpaceAlwaysSum
CHECK_DEADLOCK FALSE
