SPECIFICATION Spec
CONSTANTS
  MinValue <- MCMinValue
  MaxValue = 3
  Slots = {0, 1, 2}
  PageSize = 2
  CCFFee = 7
  Offset = 1
  FirstTick = 2
  MaxTick = 3
  MaxChanges = 2
  Fees <- MCFees
  Stored <- MCStored
  Texts <- MCTexts
  Ballots <- MCBallots
  Tallies <- MCTallies
  Rings <- MCRings
INVARIANTS
  VoteCountsAsShown
  VoteFits
  SetIsValid
  FeePaid
  ListComplete
  VerdictSound
  NewestFirst
CHECK_DEADLOCK FALSE
