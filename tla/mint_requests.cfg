SPECIFICATION MCSpec
CONSTANTS
  Requests = {r1, r2, r3}
  Jobs <- AllJobs
  r3 = r3
  g1 = g1
  g2 = g2
  g3 = g3
  x = x
  pub = pub
  plots = plots
  ed = ed
  vw = vw
  NoExt = NoExt
  NoColl = NoColl
  NoGrant = NoGrant
  Geoms = {g1, g2, g3}
  ExtIds = {x}
  Colls = {pub, plots}
  PublicColl = pub
  PublicWrite = {pub}
  Grants = {ed, vw}
  EditorGrants = {ed}
  MaxFeatures = 3
  SlugRetries = 3
INVARIANTS
  TypeOK
  GeoidUnique
  NoOrphanRows
  ExternalIdUnique
  AcceptedResolves
  NoSpuriousDrift
  OneRetrySuffices
  KeptBatchRecordsSubject
PROPERTIES
  RegisteredNeverRejected
  ImplementsRegistry
  EveryRequestEnds
