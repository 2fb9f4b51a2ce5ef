\* A buffer for every digest; numbers in the table and past it.
SPECIFICATION PcrSpec
CONSTANTS
  PcrNumbers = {0, 23, 24}
  BufferSizes = {64}
  Localities = {0, 3}
  OtherAlg = OtherAlg
INVARIANT NoValueIsRcPcr
