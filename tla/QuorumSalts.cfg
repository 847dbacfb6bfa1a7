SPECIFICATION Spec
CONSTANTS
  s1 = s1
  s2 = s2
  tx = tx
  b1 = b1
  b2 = b2
  Zero = Zero
  Computors = {0, 1, 2}
  Quorum = 2
  Ballots <- MCBallots
  Nexts <- MCNexts
INVARIANTS
  PassedMeansSalted
