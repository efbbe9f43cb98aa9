\* A display up to three pictures late, a queue that may be full, pictures of two sizes, a surface
\* of either kind each time.
SPECIFICATION FairSpec
CONSTANTS
  MaxFrame = 3
  Sizes = {1, 2}
  Formats = {1, 2}
  QueueMax = 2
  Lags = {1, 2, 3}
INVARIANTS NoTornPicture SurfaceFits
PROPERTIES NeverBack SurfaceStays PicturesAreShown
