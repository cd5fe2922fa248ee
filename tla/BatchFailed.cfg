SPECIFICATION Spec
CONSTANTS
  b1 = b1
  b2 = b2
  Batches = {b1}
  Starts = {0, 1, 2, 3}
  MaxLeft = 1
  LinksOf <- OneFile
INVARIANTS FailedMeansNotSent
