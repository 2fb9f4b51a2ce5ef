\* Platform: the host restores a state saved by a build of another revision.
\* RuntimeState: two slots and two processes, any import may fail.
SPECIFICATION RestoreSpec
CONSTANTS
  i1 = i1
  i2 = i2
  f1 = f1
  f2 = f2
  Images = {i1, i2}
  Blank = Blank
  Failures = {f1}
  NoFailure = NoFailure
  Localities = {0}
  Blobs <- MCBlobs
  Foreign <- MCOtherRevision
  NoPlatform = NoPlatform
  NoCopy = NoCopy
  Slots = {1, 2}
  MaxProcesses = 2
INVARIANTS
  SequencesAreOfThisProcess
  
  NoHandleLeaks
PROPERTY PowerCycleHeals
