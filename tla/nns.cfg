SPECIFICATION Spec
CONSTANTS
  o1 = o1
  o2 = o2
  Names <- Tree
  Domains <- Registered
  Addresses = {e}
  Targets <- Aliases
  LabelEnds <- Ends
  Owners = {o1, o2}
  Nobody = Nobody
  Committee = Committee
  Unregistered = Unregistered
  Data = {d, e}
  d = d
  e = e
  NoData = NoData
  InitialTLDs <- ComOnly
  InitialExpire = 1
  Expires = {0, 1}
  Year = 1
  MaxYears = 2
  DefaultRegisterPrice = 1
  MaxRegisterPrice = 1
  Prices = {1, 2}
  MaxRecordID = 1
  Signers <- EachAlone
  MaxTime = 2
  MaxExpiration = 2
  MaxRecords = 2
SYMMETRY Symmetry
INVARIANTS IndexesAgree LiveHasSoa RecordsInPlace
PROPERTIES DeadBranchesFrozen SerialTellsChange ImplementsLeases
