SPECIFICATION USpec
CONSTANTS
  b1 = b1
  b2 = b2
  f1 = f1
  f2 = f2
  l1 = l1
  l2 = l2
  Builds = {b1, b2}
  Files = {f1, f2}
  Target <- NoLinks
  Contents = {c0, c1}
  Empty = c0
  Big = {c1}
  Locations = {l1, l2}
  Location <- OwnLocation
  Failures = TRUE
  Edits = {b2}
  Directory = Directory
  None = None
INVARIANTS BlobsAreTheirDigest CleanUploadIsComplete
PROPERTY ObjectsNeverChange
CHECK_DEADLOCK FALSE
