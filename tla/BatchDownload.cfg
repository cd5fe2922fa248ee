SPECIFICATION Spec
CONSTANTS
  b1 = b1
  b2 = b2
  Batches = {b1, b2}
  Starts = {0, 1, 3}
  MaxLeft = 1
  LinksOf <- TwoFiles
INVARIANTS TypeOK NothingSkipped NumbersFollowOrder SentOwnFile CleanWhenDone
PROPERTIES NearerWithEachStep
