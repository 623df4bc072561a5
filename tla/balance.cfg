SPECIFICATION Spec
CONSTANTS
  u1 = u1
  u2 = u2
  l1 = l1
  l2 = l2
  Accounts = {u1, u2, l1, l2}
  AccountOrder <- KeyOrder
  Nobody = Nobody
  Alphabet = Alphabet
  Containers = {c1}
  GIGABYTE = 1
  Amounts = {0, 1, 2}
  Senders = {u1, l1}
  Receivers = {u1, u2, l2}
  LockAccounts = {l1, l2}
  Signers <- Witnesses
  Rates = {1}
  Statistics <- Loads
  MaxSupply = 3
  MaxEpoch = 3
  MaxFailures = 1
INVARIANTS SupplyBacked MarksOrdered PaidOncePerAttempt
PROPERTIES TickPaysParents
CHECK_DEADLOCK FALSE
