SPECIFICATION Spec
CONSTANTS
  a = a
  b = b
  c = c
  Deals = {1, 2}
  Price <- MCPrice
  AcceptFee = 10
  CreateFee = 20
  ShareFee = 3
  OperateFee = 1
  MaxAssets = 2
  Owners = {1, 2, 3}
  MaxOwners = 2
  MaxCoOwner = 2
  RegisterFee = 30
  Queries = 3
  Identities = {a, b, c}
  Balances = {0, 1}
  Batch = 2
  Attempts = 6
  Pools = 2
  PageSize = 2
  RingSize = 5
  ManyRows = 2
  SharesRows = 2
  SharesFee = 40
  PollAssets = 2
  Tracker = 8
  Word = 16
  Fees <- MCFees
  Commands <- MCCommands
  Rings <- MCRings
  MaxChanges = 2
INVARIANTS
  PaidInFull
  OwnersHadRoom
  BalancesRead
  PayoutsComplete
CHECK_DEADLOCK FALSE
