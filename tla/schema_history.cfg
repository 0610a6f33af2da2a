SPECIFICATION Spec
CONSTANTS
  Migrators = {m1, m2}
  Instances = {i1}
  Submissions <- TwoPlaces
  Slugs = {"public", "open"}
  ServiceSlug = "public"
  MaxRuns = 3
INVARIANTS
  TypeOK
  SchemaOfRevision
  SchemaWhole
  LatestStampIsRecipe
  CommittedRowsFit
  PublicCollectionExempt
PROPERTIES
  RecipeSwitchesEmpty
  PropertiesErased
CHECK_DEADLOCK FALSE
