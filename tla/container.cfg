SPECIFICATION Spec
CONSTANTS
  u1 = u1
  u2 = u2
  ir = ir
  c1 = c1
  c2 = c2
  c3 = c3
  d1 = d1
  n1 = n1
  n2 = n2
  Cids = {c1, c2, c3}
  Content <- Named
  Accounts = {u1, u2, ir, n1}
  Nodes = {}
  Names = {d1}
  NoName = NoName
  Keys = {"CORS"}
  Contract = Contract
  Alphabet = Alphabet
  Committee = Committee
  AlphabetNodes = {ir, n1}
  ContainerFee = 1
  AliasFee = 1
  EpochDuration = 1
  SECOND = 2
  ObjectSize = 1
  MaxReports = 3
  HEADER = 100
  BASE = 10
  Expire = 1
  Strangers = {u2}
  RecordSets <- Written
  Signers <- WithOwners
  Receivers = {u1, u2}
  Locks = {1, 2}
  Vectors = {}
  ReplicaLists <- NoReplicas
  Sizes = {}
  Objects = {}
  EACLs = {TRUE, FALSE}
  QuotaUsers = {u1}
  Limits = {1}
  Funds <- Purses
  MaxRevision = 3
  MaxTime = 4
  MaxEpoch = 0
CONSTRAINT ExtrasApart
INVARIANTS TypeOK OwnersIndexed AliasesNameOne
PROPERTIES LockHolds
CHECK_DEADLOCK FALSE
