SPECIFICATION Spec
CONSTANTS
  n1 = n1
  n2 = n2
  n3 = n3
  n4 = n4
  u1 = u1
  Nodes = {n1, n2, n3, n4}
  Users = {u1}
  Contract = Contract
  Processing = Processing
  Nobody = Nobody
  Alphabet = Alphabet
  Ids = {1, 2}
  ConfigKeys = {"WithdrawFee"}
  ConfigValues = {1}
  WithdrawFee = "WithdrawFee"
  Deployments <- Uses
  Signers <- OneByOne
  Lists <- Smaller
  Amounts = {0, 2}
  MaxBalanceAmount = 9
  MaxHeight = 2
  BlockDiff = 1
  MaxDecisions <- TwiceAndOnce
  MaxDeposits = 2
INVARIANTS BallotsDistinct DecidedByQuorum DecidedOnce FundsAccounted
PROPERTIES OthersBallotsKept
CHECK_DEADLOCK FALSE
