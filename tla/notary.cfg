SPECIFICATION Spec
CONSTANTS
  Committees <- Settings
  NoDomain = NoDomain
  NoRecord = NoRecord
  NoTx = NoTx
  Nonces = {1, 2, 3, 4, 5, 6, 7, 8}
  Lifetime = 0
  MaxTime <- Once
  MaxSent = 1
  MaxMishaps <- Once
INVARIANTS OneDesignation
PROPERTIES NotaryEnabled
