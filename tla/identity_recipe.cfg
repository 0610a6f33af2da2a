SPECIFICATION Spec
CONSTANTS
  Listings <- AllListings
  WordSize = 16
  MaxRepeats = 2
  MaxPositions = 8
INVARIANTS
  SameShapeSameGeoid
  TwinsAgree
  DistinctShapesApart
