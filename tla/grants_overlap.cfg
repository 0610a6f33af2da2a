SPECIFICATION FairHSpec
CONSTANTS
  Requests = {r1, r2, r3}
  Jobs <- RaceJobs
  ann = ann
  bob = bob
  cyd = cyd
  annSub = annSub
  bobSub = bobSub
  newSub = newSub
  Emails = {ann, bob, cyd}
  Subjects = {annSub, bobSub, newSub}
  NoSubject = NoSubject
  Tables <- StartTables
INVARIANTS
  TypeOK
PROPERTIES
  SubjectStays
  RevokeRemovesOne
  OnlySysadminMakesOwners
  LastOwnerLostToOverlap
  HonoredUnlessOvertaken
  EveryRequestEnds
