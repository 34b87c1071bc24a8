\* An avatar replaced by another.
CONSTANTS
  Picture = {a1, a2}
  Path = {x1}
  File = {f1}
  BlobCall = {k1, k2}
  NoFile = NoFile
  UsedFile = UsedFile
  NoPicture = NoPicture
  MaxBlobCalls = 3
  MaxBlobFails = 1
SPECIFICATION BlobSpec
CHECK_DEADLOCK FALSE
INVARIANTS
  ReplacedAvatarsGo
