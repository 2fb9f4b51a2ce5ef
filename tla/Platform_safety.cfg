\* Two images, failures and localities; the host restores the states it saved.
SPECIFICATION Spec
CONSTANTS
  i1 = i1
  i2 = i2
  f1 = f1
  f2 = f2
  Images = {i1, i2}
  Blank = Blank
  Failures = {f1, f2}
  NoFailure = NoFailure
  Localities = {0, 1}
  Blobs <- MCBlobs
  Foreign = {}
  NoPlatform = NoPlatform
  NoCopy = NoCopy
INVARIANTS
  TypeOK
  TpmInitPrecondition
  Coherent
  RegionSize
  EntropyPrimed
PROPERTIES
  NvDeviceSpec
  FailureSticks
