SPECIFICATION Spec
CONSTANTS
  EventIds = {0, 1}
  Deposits = {1, 2}
  AntiSpam = 1
  ResolveReward = 2
  ClaimReward = 1
  MaxFunds = 2
  Window = 2
  Offset = 1
  MaxTick = 4
  MaxChanges = 1
  Wrap = 16
INVARIANTS
  AnswersMatch
  Authorised
  ResultStands
  WindowOver
  PaysWhatIsAsked
  Backed
