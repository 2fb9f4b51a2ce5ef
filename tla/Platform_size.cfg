\* The host restores a state saved by a build with another NV_MEMORY_SIZE.
SPECIFICATION Spec
CONSTANTS
  i1 = i1
  i2 = i2
  f1 = f1
  f2 = f2
  Images = {i1, i2}
  Blank = Blank
  Failures = {f1}
  NoFailure = NoFailure
  Localities = {0}
  Blobs <- MCBlobs
  Foreign <- MCOtherSize
  NoPlatform = NoPlatform
  NoCopy = NoCopy
INVARIANT RegionSize
