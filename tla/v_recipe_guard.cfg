SPECIFICATION Spec
CONSTANTS
  Migrators = {m1}
  Instances = {i1}
  Submissions <- TwoPlaces
  Slugs = {"public"}
  ServiceSlug = "public"
  MaxRuns = 2
PROPERTIES
  RecipeRefusesRows
CHECK_DEADLOCK FALSE
