SPECIFICATION FairSpec
CONSTANTS
  a1 = a1
  a2 = a2
  p1 = p1
  Wallets = 2
  Pda = {p1}
  Authority = {a1, a2}
  AuthorityOf <- MCAuthorityOf
  WalletOf <- MCWalletOf
  Settlement = {a1, a2}
  Bad = {2}
  ListCap = 1
  MaxTx = 2
  MaxFaults = 1
INVARIANTS
  TypeOK
  CursorCovers
  SyncedMeansRead
  ListTrue
PROPERTIES
  KeepsUp
CHECK_DEADLOCK FALSE
