SPECIFICATION Spec
CONSTANTS
  Uploads = {u1, u2}
  Sizes = {3601, 172801}
  Parts = {0, 1, 30}
  TicksPerSecond = 2
  TimeBetween = 3
  MaxTime = 8
SYMMETRY Symmetry
INVARIANTS TypeOK LoneUploadShown PictureHonest
