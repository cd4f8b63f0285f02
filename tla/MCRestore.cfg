CONSTANTS
  Entry = {e1}
  Photo = {p1, p2}
  Tab = {t1, t2}
  File = {f1, f2}
  Nothing = Nothing
  Quota = 1
  MaxZips = 2
  MaxInspects = 2
  MaxPhotoRequests = 1
SPECIFICATION Spec
CHECK_DEADLOCK FALSE
INVARIANTS
  UploadedPhotoIsKept
PROPERTIES
  RestoresWhatWasPreviewed
  StagesAreRemoved
