\* TestHarness: a commit can be torn after one byte and after two.
\* NvMem: offsets and lengths inside, at the end of and beyond three bytes, and
\* two whose sum does not fit their own width.
\* Command: lengths around the header, and above "2^32".
CONSTANTS
  NvSize = 3
  NvBytes = {0, 1}
  NvArgs = {0, 1, 2, 3, 7}
  U32Mod = 8
  UsizeMod = 16
  BlockSize = 2
  HostBytes = {1, 2}
  Amounts = {0, 1, 2, 3}
  NoBlock = NoBlock
  EntropyError = EntropyError
  RequestLens = {0, 5, 6, 7, 16, 22}
  HeaderSizes = {0, 5, 6, 7, 15}
  ResponseLens = {0, 2, 3}
  AnswerSizes = {2, 3}
  CmdU32Mod = 16
  LocalityBytes = {0, 4, 5, 31, 32, 255}
  PcrNumbers = {0, 15, 16, 19, 22, 24}
  BufferSizes = {31, 32, 63, 64}
  Localities = {0, 3}
  OtherAlg = OtherAlg
  MaxBuilds = 3
  NoArchive = NoArchive
  PlatformNames = {"_plat__NvCommit"}
  SymCryptNames = {"SymCryptCallbackAlloc"}
  LinkerNames = {"@feat.00"}
  ArchiveSets <- MCArchiveSets
  NoInput = NoInput
  Size = 3
  Bytes <- MCBytes
  Zero = 0
  NoFile = NoFile
SPECIFICATION PartsSpec
INVARIANTS
  NvAnswersWithNvData EveryByteFromHost
  HandedWhatHostGave AnswerIsInSlice PcrStartsAsItsAttributesSay
  LinksOneLayout ReferencesResolve FileIsSplice
PROPERTIES
  NvNamedBytesOnly NvStatusForetellsWrite NoBlockTwice
  CommittedIsLoaded CommittedOnceAlwaysStarts CommitReturns
