SPECIFICATION HSpec
CONSTANTS
  Requests = {r1, r2}
  Jobs <- AllJobs
  ann = ann
  bob = bob
  cyd = cyd
  annSub = annSub
  bobSub = bobSub
  newSub = newSub
  Emails = {ann, bob, cyd}
  Subjects = {annSub, bobSub, newSub}
  NoSubject = NoSubject
  Tables <- StartTables
PROPERTIES
  OwnerRemains
