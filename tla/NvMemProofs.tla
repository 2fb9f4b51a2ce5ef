---------------------------- MODULE NvMemProofs ----------------------------
(***************************************************************************)
(* Proofs about NvMem for a region of every size, every offset and length  *)
(* and every width of arguments: sums do not wrap, so that the range tests *)
(* mean what they say, and what a comparison returned is what the next     *)
(* write of the same bytes does.                                           *)
(***************************************************************************)
EXTENDS NvMem, TLAPS

\* The region has all its bytes, and the last call returned what it should.
NvInv ==
  /\ nvregion \in [0 .. NvSize - 1 -> NvBytes]
  /\ NvAnswersWithNvData
  /\ nvcall.op = "status" =>
       /\ nvcall.to \in NvArgs /\ Len(nvcall.data) \in NvArgs
       /\ nvcall.data \in [1 .. Len(nvcall.data) -> NvBytes]
       /\ nvcall.ret = Changed(nvcall.to, nvcall.data)

-----------------------------------------------------------------------------
(* Sums and ranges.                                                        *)

\* usize has room for the sum of two u32.
LEMMA PlusIsExact ==
  ASSUME NEW a \in NvArgs, NEW b \in NvArgs
  PROVE  a \in Nat /\ b \in Nat /\ Plus(a, b) = a + b
<1>1. a \in Nat /\ b \in Nat /\ a + b < UsizeMod /\ UsizeMod \in Nat
  BY NvAssumption
<1>2. (a + b) % UsizeMod = a + b
  BY <1>1
<1> QED  BY <1>1, <1>2 DEF Plus

LEMMA InRangeIsExact ==
  ASSUME NEW a \in NvArgs, NEW n \in NvArgs
  PROVE  InRange(a, n) <=> a + n <= NvSize
BY PlusIsExact, NvAssumption DEF InRange

\* The bytes that are named are in the region, or there are none of them.
LEMMA NamedInRegion ==
  ASSUME NEW a \in NvArgs, NEW n \in NvArgs
  PROVE  (a + n <= NvSize)
           <=> (Named(a, n) \subseteq 0 .. NvSize - 1 /\ a <= NvSize)
<1>1. a \in Nat /\ n \in Nat /\ NvSize \in Nat
  BY PlusIsExact, NvAssumption
<1>2. ASSUME a + n <= NvSize
      PROVE  Named(a, n) \subseteq 0 .. NvSize - 1 /\ a <= NvSize
  BY <1>1, <1>2 DEF Named
<1>3. ASSUME Named(a, n) \subseteq 0 .. NvSize - 1, a <= NvSize
      PROVE  a + n <= NvSize
  <2>1. CASE n = 0
    BY <1>1, <1>3, <2>1
  <2>2. CASE n > 0
    <3>1. a + n - 1 \in Named(a, n)
      BY <1>1, <2>2 DEF Named
    <3> QED  BY <1>1, <1>3, <3>1
  <2> QED  BY <1>1, <2>1, <2>2
<1> QED  BY <1>2, <1>3

LEMMA MoveNeverPanics ==
  ASSUME NEW a \in NvArgs, NEW b \in NvArgs, NEW n \in NvArgs, MoveFits(a, b, n)
  PROVE  ~CopyPanics(a, b, n) /\ a + n <= NvSize /\ b + n <= NvSize
BY PlusIsExact, InRangeIsExact DEF MoveFits, CopyPanics

\* What the library compares or writes has the length it names.
LEMMA BufferLength ==
  ASSUME NEW n \in NvArgs, NEW data \in Buffers(n)
  PROVE  Len(data) = n /\ data \in [1 .. n -> NvBytes]
<1>1. n \in Nat
  BY NvAssumption
<1>2. data \in [1 .. n -> NvBytes]
  BY <1>1 DEF Buffers
<1> QED  BY <1>1, <1>2

\* What is left of the region and what is written over it are bytes.
LEMMA PatchIsRegion ==
  ASSUME NEW r \in [0 .. NvSize - 1 -> NvBytes], NEW a \in NvArgs,
         NEW n \in NvArgs, NEW data \in [1 .. n -> NvBytes]
  PROVE  Patch(r, a, data) \in [0 .. NvSize - 1 -> NvBytes]
<1>1. a \in Nat /\ n \in Nat /\ Len(data) = n /\ NvSize \in Nat
  BY NvAssumption
<1>2. ASSUME NEW i \in 0 .. NvSize - 1, i \in a .. a + n - 1
      PROVE  data[i - a + 1] \in NvBytes
  BY <1>1, <1>2
<1> QED  BY <1>1, <1>2 DEF Patch

LEMMA SliceIsBytes ==
  ASSUME NEW r \in [0 .. NvSize - 1 -> NvBytes], NEW a \in NvArgs,
         NEW n \in NvArgs, a + n <= NvSize
  PROVE  Slice(r, a, n) \in [1 .. n -> NvBytes]
BY NvAssumption DEF Slice

\* A write changes the region if and only if a comparison sees a difference.
LEMMA PatchChanges ==
  ASSUME NEW r \in [0 .. NvSize - 1 -> NvBytes], NEW a \in NvArgs,
         NEW n \in NvArgs, NEW data \in [1 .. n -> NvBytes], a + n <= NvSize
  PROVE  Patch(r, a, data) = r <=> Slice(r, a, Len(data)) = data
<1>1. a \in Nat /\ n \in Nat /\ Len(data) = n /\ NvSize \in Nat
  BY NvAssumption
<1>2. ASSUME Patch(r, a, data) = r
      PROVE  Slice(r, a, n) = data
  <2>1. ASSUME NEW k \in 1 .. n
        PROVE  r[a + k - 1] = data[k]
    <3>1. a + k - 1 \in 0 .. NvSize - 1 /\ a + k - 1 \in a .. a + n - 1
      BY <1>1
    <3>2. Patch(r, a, data)[a + k - 1] = data[a + k - 1 - a + 1]
      BY <1>1, <3>1 DEF Patch
    <3>3. a + k - 1 - a + 1 = k
      BY <1>1
    <3> QED  BY <1>2, <3>2, <3>3
  <2> QED  BY <2>1 DEF Slice
<1>3. ASSUME Slice(r, a, n) = data
      PROVE  Patch(r, a, data) = r
  <2>1. ASSUME NEW i \in a .. a + n - 1
        PROVE  data[i - a + 1] = r[i]
    <3>1. i - a + 1 \in 1 .. n /\ a + (i - a + 1) - 1 = i
      BY <1>1
    <3>2. Slice(r, a, n)[i - a + 1] = r[a + (i - a + 1) - 1]
      BY <3>1 DEF Slice
    <3> QED  BY <1>3, <3>1, <3>2
  <2> QED  BY <1>1, <2>1 DEF Patch
<1> QED  BY <1>1, <1>2, <1>3

-----------------------------------------------------------------------------
(* The steps.                                                              *)

LEMMA NvInvInit == NvInit => NvInv
BY NvAssumption DEF NvInit, NvInv, NvAnswersWithNvData, NoCall

LEMMA NvInvNext ==
  ASSUME NvInv, [NvNext]_nvvars
  PROVE  NvInv'
<1> USE DEF NvInv, NvAnswersWithNvData
<1>1. CASE UNCHANGED nvvars
  BY <1>1 DEF nvvars, Changed, InRange, Slice
<1>2. ASSUME NEW a \in NvArgs, NEW n \in NvArgs, NvMemoryRead(a, n)
      PROVE  NvInv'
  <2>1. InRange(a, n)
          <=> Named(a, n) \subseteq DOMAIN nvregion /\ a <= NvSize
    BY InRangeIsExact, NamedInRegion
  <2>2. /\ nvcall'.op = "read" /\ nvcall'.from = a /\ nvcall'.size = n
        /\ nvcall'.data = IF InRange(a, n) THEN Slice(nvregion, a, n)
                          ELSE FailedRead(n)
        /\ nvregion' = nvregion /\ nvaborted' = nvaborted
    BY <1>2 DEF NvMemoryRead, NvReturn
  <2> QED  BY <2>1, <2>2 DEF FailedRead, Slice
<1>3. ASSUME NEW a \in NvArgs, NEW n \in NvArgs, NvMemoryClear(a, n)
      PROVE  NvInv'
  <2>1. Patch(nvregion, a, [i \in 1 .. n |-> 0])
          \in [0 .. NvSize - 1 -> NvBytes]
    BY PatchIsRegion, NvAssumption
  <2>2. nvcall'.op = "clear" /\ nvaborted' = nvaborted
    BY <1>3 DEF NvMemoryClear, NvReturn
  <2>3. nvregion' \in [0 .. NvSize - 1 -> NvBytes]
    BY <1>3, <2>1 DEF NvMemoryClear
  <2> QED  BY <2>2, <2>3
<1>4. ASSUME NEW a \in NvArgs, NEW n \in NvArgs, NEW data \in Buffers(n),
             NvGetChangedStatus(a, data)
      PROVE  NvInv'
  BY <1>4, BufferLength
  DEF NvGetChangedStatus, NvReturn, Changed, InRange, Slice
<1>5. ASSUME NEW a \in NvArgs, NEW n \in NvArgs, NEW data \in Buffers(n),
             NvMemoryWrite(a, data)
      PROVE  NvInv'
  <2>1. Patch(nvregion, a, data) \in [0 .. NvSize - 1 -> NvBytes]
    BY PatchIsRegion, BufferLength
  <2> QED  BY <1>5, <2>1 DEF NvMemoryWrite, NvReturn
<1>6. ASSUME NEW a \in NvArgs, NEW b \in NvArgs, NEW n \in NvArgs,
             NvMemoryMove(a, b, n)
      PROVE  NvInv'
  <2>1. MoveFits(a, b, n) =>
          CopyWithin(nvregion, a, b, n) \in [0 .. NvSize - 1 -> NvBytes]
    BY MoveNeverPanics, PatchIsRegion, SliceIsBytes DEF CopyWithin
  <2> QED  BY <1>6, <2>1, MoveNeverPanics DEF NvMemoryMove, NvReturn
<1> QED  BY <1>1, <1>2, <1>3, <1>4, <1>5, <1>6 DEF NvNext

-----------------------------------------------------------------------------
\* No offset, length or overlap makes a call panic, and a read returns NV data
\* or zeros (nv_range, nv_memory_read, nv_memory_move).
THEOREM NvAnswers == NvSpec => []NvAnswersWithNvData
<1>1. NvInv /\ [NvNext]_nvvars => NvInv'
  BY NvInvNext
<1>2. NvInv => NvAnswersWithNvData
  BY DEF NvInv
<1> QED  BY <1>1, <1>2, NvInvInit, PTL DEF NvSpec

\* The region keeps all its bytes, and the last access returned what it should
\* (nvmem.rs, c_api).
THEOREM NvInvariant == NvSpec => []NvInv
<1>1. NvInv /\ [NvNext]_nvvars => NvInv'
  BY NvInvNext
<1> QED  BY <1>1, NvInvInit, PTL DEF NvSpec

\* What a write of data writes.
LEMMA PatchThere ==
  ASSUME NEW r \in [0 .. NvSize - 1 -> NvBytes], NEW a \in NvArgs,
         NEW data, Len(data) \in NvArgs, a + Len(data) <= NvSize,
         NEW k \in 0 .. Len(data) - 1
  PROVE  Patch(r, a, data)[a + k] = data[k + 1]
<1>1. a \in Nat /\ Len(data) \in Nat /\ NvSize \in Nat
  BY NvAssumption
<1>2. a + k \in 0 .. NvSize - 1 /\ a + k \in a .. a + Len(data) - 1
      /\ a + k - a + 1 = k + 1
  BY <1>1
<1>3. Patch(r, a, data)[a + k] = data[a + k - a + 1]
  BY <1>1, <1>2 DEF Patch
<1> QED  BY <1>2, <1>3

\* A call changes the bytes it names and no other, and a move gives each the
\* byte its source had, also where the ranges overlap (nv_memory_write,
\* nv_memory_clear, nv_memory_move).
THEOREM NvNamedOnly == NvSpec => NvNamedBytesOnly
<1> DEFINE Exact ==
      /\ Named(nvcall'.to, nvcall'.size) \subseteq DOMAIN nvregion
      /\ \A i \in DOMAIN nvregion \ Named(nvcall'.to, nvcall'.size) :
           nvregion'[i] = nvregion[i]
      /\ nvcall'.op = "move" =>
           \A k \in 0 .. nvcall'.size - 1 :
             nvregion'[nvcall'.to + k] = nvregion[nvcall'.from + k]
<1>1. ASSUME NvInv, NvNext, nvregion' # nvregion
      PROVE  Exact
  <2>1. nvregion \in [0 .. NvSize - 1 -> NvBytes]
    BY <1>1 DEF NvInv
  <2>2. ASSUME NEW a \in NvArgs, NEW n \in NvArgs, NvMemoryClear(a, n)
        PROVE  Exact
    <3> DEFINE zeros == [i \in 1 .. n |-> 0]
    <3>1. Len(zeros) = n
      BY NvAssumption
    <3>2. a + n <= NvSize /\ nvregion' = Patch(nvregion, a, zeros)
          /\ nvcall'.to = a /\ nvcall'.size = n /\ nvcall'.op = "clear"
      BY <1>1, <2>2, InRangeIsExact DEF NvMemoryClear, NvReturn
    <3> HIDE DEF zeros
    <3>3. Named(a, n) \subseteq 0 .. NvSize - 1
      BY <3>2, NamedInRegion
    <3>4. ASSUME NEW i \in (0 .. NvSize - 1) \ Named(a, n)
          PROVE  nvregion'[i] = nvregion[i]
      <4>1. i \in (0 .. NvSize - 1) \ Named(a, Len(zeros))
        BY <3>1
      <4>2. Patch(nvregion, a, zeros)[i] = nvregion[i]
        BY <2>1, <4>1 DEF Patch, Named
      <4> QED  BY <3>2, <4>2
    <3>5. Named(nvcall'.to, nvcall'.size) = Named(a, n)
      BY <3>2
    <3>6. \A i \in DOMAIN nvregion \ Named(nvcall'.to, nvcall'.size) :
            nvregion'[i] = nvregion[i]
      BY <2>1, <3>4, <3>5
    <3>7. nvcall'.op # "move"
      BY <3>2
    <3> QED  BY <2>1, <3>3, <3>5, <3>6, <3>7
  <2>3. ASSUME NEW a \in NvArgs, NEW n \in NvArgs, NEW data \in Buffers(n),
               NvMemoryWrite(a, data)
        PROVE  Exact
    <3>1. Len(data) = n /\ data \in [1 .. n -> NvBytes]
      BY BufferLength
    <3>2. a + n <= NvSize /\ nvregion' = Patch(nvregion, a, data)
          /\ nvcall'.to = a /\ nvcall'.size = n /\ nvcall'.op = "write"
      BY <1>1, <2>3, <3>1, InRangeIsExact DEF NvMemoryWrite, NvReturn
    <3>3. Named(a, n) \subseteq 0 .. NvSize - 1
      BY <3>2, NamedInRegion
    <3>4. ASSUME NEW i \in (0 .. NvSize - 1) \ Named(a, n)
          PROVE  nvregion'[i] = nvregion[i]
      <4>1. i \in (0 .. NvSize - 1) \ Named(a, Len(data))
        BY <3>1
      <4>2. Patch(nvregion, a, data)[i] = nvregion[i]
        BY <2>1, <4>1 DEF Patch, Named
      <4> QED  BY <3>2, <4>2
    <3>5. Named(nvcall'.to, nvcall'.size) = Named(a, n)
      BY <3>2
    <3>6. \A i \in DOMAIN nvregion \ Named(nvcall'.to, nvcall'.size) :
            nvregion'[i] = nvregion[i]
      BY <2>1, <3>4, <3>5
    <3>7. nvcall'.op # "move"
      BY <3>2
    <3> QED  BY <2>1, <3>3, <3>5, <3>6, <3>7
  <2>4. ASSUME NEW a \in NvArgs, NEW b \in NvArgs, NEW n \in NvArgs,
               NvMemoryMove(a, b, n)
        PROVE  Exact
    <3> DEFINE moved == Slice(nvregion, a, n)
    <3>1. a + n <= NvSize /\ b + n <= NvSize
          /\ nvregion' = Patch(nvregion, b, moved)
          /\ nvcall'.from = a /\ nvcall'.to = b /\ nvcall'.size = n
      BY <1>1, <2>4, MoveNeverPanics DEF NvMemoryMove, NvReturn, CopyWithin
    <3>2. Len(moved) = n
      BY NvAssumption DEF Slice
    <3>3. ASSUME NEW k \in 0 .. n - 1
          PROVE  moved[k + 1] = nvregion[a + k]
      <4>1. a \in Nat /\ n \in Nat
        BY NvAssumption
      <4>2. k + 1 \in 1 .. n /\ a + (k + 1) - 1 = a + k
        BY <4>1
      <4> QED  BY <4>2 DEF Slice
    <3> HIDE DEF moved
    <3>4. Named(b, n) \subseteq 0 .. NvSize - 1
      BY <3>1, NamedInRegion
    <3>5. ASSUME NEW i \in (0 .. NvSize - 1) \ Named(b, n)
          PROVE  nvregion'[i] = nvregion[i]
      <4>1. i \in (0 .. NvSize - 1) \ Named(b, Len(moved))
        BY <3>2
      <4>2. Patch(nvregion, b, moved)[i] = nvregion[i]
        BY <2>1, <4>1 DEF Patch, Named
      <4> QED  BY <3>1, <4>2
    <3>6. ASSUME NEW k \in 0 .. n - 1
          PROVE  nvregion'[b + k] = moved[k + 1]
      <4>1. Patch(nvregion, b, moved)[b + k] = moved[k + 1]
        BY <2>1, <3>1, <3>2, PatchThere
      <4> QED  BY <3>1, <4>1
    <3>7. \A k \in 0 .. n - 1 : nvregion'[b + k] = nvregion[a + k]
      BY <3>3, <3>6
    <3>8. Named(nvcall'.to, nvcall'.size) = Named(b, n)
      BY <3>1
    <3>9. \A i \in DOMAIN nvregion \ Named(nvcall'.to, nvcall'.size) :
            nvregion'[i] = nvregion[i]
      BY <2>1, <3>5, <3>8
    <3>10. \A k \in 0 .. nvcall'.size - 1 :
             nvregion'[nvcall'.to + k] = nvregion[nvcall'.from + k]
      BY <3>1, <3>7
    <3> QED  BY <2>1, <3>4, <3>8, <3>9, <3>10
  <2> QED
    BY <1>1, <2>2, <2>3, <2>4 DEF NvNext, NvMemoryRead, NvGetChangedStatus
<1>2. NvInv /\ [NvNext]_nvvars => [nvregion' # nvregion => Exact]_nvvars
  BY <1>1
<1> QED  BY <1>2, NvInvariant, PTL DEF NvSpec, NvNamedBytesOnly

\* What nv_is_different answers is what the write that follows does.
THEOREM NvStatusIsTrue == NvSpec => NvStatusForetellsWrite
<1> DEFINE Foretold ==
      /\ (nvcall.ret = 0) <=> (nvcall'.ret = 1 /\ nvregion' = nvregion)
      /\ (nvcall.ret = 1) <=> (nvregion' # nvregion)
      /\ (nvcall.ret = -1) <=> (nvcall'.ret = 0)
<1>1. ASSUME NvInv, NvNext, nvcall.op = "status", nvcall'.op = "write",
             nvcall'.to = nvcall.to, nvcall'.data = nvcall.data
      PROVE  Foretold
  <2>1. PICK a \in NvArgs, n \in NvArgs : \E data \in Buffers(n) :
          NvMemoryWrite(a, data)
    BY <1>1 DEF NvNext, NvMemoryRead, NvMemoryClear, NvGetChangedStatus,
                NvMemoryMove, NvReturn
  <2>2. PICK data \in Buffers(n) : NvMemoryWrite(a, data)
    BY <2>1
  <2>3. Len(data) = n /\ data \in [1 .. n -> NvBytes]
    BY BufferLength
  <2>4. nvcall.to = a /\ nvcall.data = data /\ nvcall.ret = Changed(a, data)
    BY <1>1, <2>2 DEF NvMemoryWrite, NvReturn, NvInv
  <2>5. CASE ~InRange(a, n)
    BY <2>2, <2>3, <2>4, <2>5 DEF NvMemoryWrite, NvReturn, Changed
  <2>6. CASE InRange(a, n)
    <3>1. nvregion' = Patch(nvregion, a, data) /\ nvcall'.ret = 1
      BY <2>2, <2>3, <2>6 DEF NvMemoryWrite, NvReturn
    <3>2. nvregion' = nvregion <=> Slice(nvregion, a, Len(data)) = data
      BY <1>1, <2>3, <2>6, <3>1, PatchChanges, InRangeIsExact DEF NvInv
    <3> QED  BY <2>3, <2>4, <2>6, <3>1, <3>2 DEF Changed
  <2> QED  BY <2>5, <2>6
<1>2. NvInv /\ [NvNext]_nvvars =>
        [nvcall.op = "status" /\ nvcall'.op = "write" /\ nvcall'.to = nvcall.to
           /\ nvcall'.data = nvcall.data => Foretold]_nvvars
  BY <1>1
<1> QED  BY <1>2, NvInvariant, PTL DEF NvSpec, NvStatusForetellsWrite
=============================================================================
