CONSTANTS
  Instances = {"i1", "i2"}
  Options <- MCOptions
  Slugs = {"public", "open"}
  ServiceSlug = "public"
  MaxCrashes = 1
SPECIFICATION Spec
CHECK_DEADLOCK FALSE
INVARIANTS
  TypeOK
  StartsOnceMigrated
  ReadyOnZero
  PublicCollectionThere
PROPERTIES
  DryRunMutatesNothing
  AdoptsNothing
  Converges
