SPECIFICATION FairSpec
CONSTANTS
  d1 = d1
  o1 = o1
  k1 = k1
  k2 = k2
  N = 2
  Requests <- OneRequest
  Orders <- OneOrder
  Calls <- TwoCalls
  Amounts = {1}
  Weight = 1
  Premium = 1
  MinGold = 1
  Opening = 1
  Stock = 1
  MaxBought = 1
  MaxDeducted = 1
  NoOrder = NoOrder
PROPERTIES StaleCloses
INVARIANTS GoldConserved BooksFollowGold HoldFollowsOwner HoldsCoveredButForced TransfersNeverCross
CHECK_DEADLOCK FALSE
