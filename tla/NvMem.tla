-------------------------------- MODULE NvMem --------------------------------
(***************************************************************************)
(* The accesses to NV memory (src/plat/api/nvmem.rs): the library names    *)
(* ranges of the region by u32 offsets and lengths, and the platform reads,*)
(* compares, writes, clears and moves bytes, or refuses.  Platform treats  *)
(* the region as one image; this module looks at its bytes.                *)
(*                                                                         *)
(* A panic here is in an extern "C" function and ends the process.         *)
(***************************************************************************)
EXTENDS Integers, Sequences

CONSTANTS
  NvSize,     \* NV_MEMORY_SIZE
  NvBytes,    \* the values of a byte
  NvArgs,     \* the offsets and lengths the library may name
  U32Mod,     \* 2^32, the range of an argument
  UsizeMod    \* 2^64, the range of the sums

ASSUME NvAssumption ==
  /\ NvSize \in Nat \ {0} /\ 0 \in NvBytes
  /\ U32Mod \in Nat \ {0} /\ NvArgs \subseteq 0 .. U32Mod - 1
  /\ UsizeMod \in Nat /\ 2 * U32Mod <= UsizeMod

VARIABLES
  nvregion,   \* NvState.region
  nvcall,     \* the last call, with what it returned
  nvaborted   \* TRUE: a call panicked

nvvars == <<nvregion, nvcall, nvaborted>>

\* What the library compares or writes.  Longer than the region, one value for
\* all bytes is enough: such a call is refused whatever it carries.
Buffers(n) ==
  IF n <= NvSize THEN [1 .. n -> NvBytes]
  ELSE {[i \in 1 .. n |-> b] : b \in NvBytes}

NoCall == [op |-> "none", from |-> 0, to |-> 0, size |-> 0,
           data |-> <<>>, ret |-> 0]

NvInit ==
  /\ nvregion = [i \in 0 .. NvSize - 1 |-> 0]
  /\ nvcall = NoCall
  /\ nvaborted = FALSE

-----------------------------------------------------------------------------
\* The sum of two arguments in their own width.
Plus32(a, b) == (a + b) % U32Mod

\* The sum of two arguments, converted to usize before.
Plus(a, b) == (a + b) % UsizeMod

\* region.get_mut(start .. start + len) is Some
InRange(start, len) ==
  /\ start <= Plus(start, len)
  /\ Plus(start, len) <= NvSize

Slice(r, start, len) == [i \in 1 .. len |-> r[start + i - 1]]

\* r with the bytes of data from start on
Patch(r, start, data) ==
  [i \in DOMAIN r |->
     IF i \in start .. start + Len(data) - 1 THEN data[i - start + 1] ELSE r[i]]

NvReturn(op, from, to, size, data, ret) ==
  /\ nvcall' = [op |-> op, from |-> from, to |-> to, size |-> size,
                data |-> data, ret |-> ret]
  /\ UNCHANGED nvaborted

\* What a failed read leaves in the caller's buffer.
FailedRead(n) == [i \in 1 .. n |-> 0]

NvMemoryRead(start, size) ==
  /\ UNCHANGED nvregion
  /\ \/ /\ InRange(start, size)
        /\ NvReturn("read", start, start, size, Slice(nvregion, start, size), 1)
     \/ /\ ~InRange(start, size)
        /\ NvReturn("read", start, start, size, FailedRead(size), 0)

\* What a comparison in which a failure means "the same" would return.
ChangedOrNot(start, data) ==
  IF InRange(start, Len(data)) /\ Slice(nvregion, start, Len(data)) # data
  THEN 1 ELSE 0

\* NV_INVALID_LOCATION is -1.
Changed(start, data) ==
  IF ~InRange(start, Len(data)) THEN -1
  ELSE IF Slice(nvregion, start, Len(data)) # data THEN 1 ELSE 0

NvGetChangedStatus(start, data) ==
  /\ UNCHANGED nvregion
  /\ NvReturn("status", start, start, Len(data), data, Changed(start, data))

NvMemoryWrite(start, data) ==
  \/ /\ InRange(start, Len(data))
     /\ nvregion' = Patch(nvregion, start, data)
     /\ NvReturn("write", start, start, Len(data), data, 1)
  \/ /\ ~InRange(start, Len(data))
     /\ UNCHANGED nvregion
     /\ NvReturn("write", start, start, Len(data), data, 0)

NvMemoryClear(start, size) ==
  \/ /\ InRange(start, size)
     /\ nvregion' = Patch(nvregion, start, [i \in 1 .. size |-> 0])
     /\ NvReturn("clear", start, start, size, <<>>, 1)
  \/ /\ ~InRange(start, size)
     /\ UNCHANGED nvregion
     /\ NvReturn("clear", start, start, size, <<>>, 0)

\* The two tests before the move.
MoveFits(source, dest, size) ==
  /\ Plus(source, size) <= NvSize
  /\ Plus(dest, size) <= NvSize

\* A copy of one byte after the other, from the first.
CopyForward(r, source, dest, size) ==
  LET copy[n \in 0 .. size] ==
        IF n = 0 THEN r
        ELSE [copy[n - 1] EXCEPT ![dest + n - 1] = copy[n - 1][source + n - 1]]
  IN  copy[size]

\* copy_within takes the source as it was, wherever the destination lies.
CopyWithin(r, source, dest, size) == Patch(r, dest, Slice(r, source, size))

\* copy_within panics when a range leaves the region.
CopyPanics(source, dest, size) ==
  \/ ~InRange(source, size)
  \/ ~InRange(dest, size)

NvMemoryMove(source, dest, size) ==
  \/ /\ ~MoveFits(source, dest, size)
     /\ UNCHANGED nvregion
     /\ NvReturn("move", source, dest, size, <<>>, 0)
  \/ /\ MoveFits(source, dest, size) /\ ~CopyPanics(source, dest, size)
     /\ nvregion' = CopyWithin(nvregion, source, dest, size)
     /\ NvReturn("move", source, dest, size, <<>>, 1)
  \/ /\ MoveFits(source, dest, size) /\ CopyPanics(source, dest, size)
     /\ nvaborted' = TRUE
     /\ UNCHANGED <<nvregion, nvcall>>

NvNext ==
  /\ ~nvaborted
  /\ \E a \in NvArgs, n \in NvArgs :
       \/ NvMemoryRead(a, n)
       \/ NvMemoryClear(a, n)
       \/ \E data \in Buffers(n) :
            NvGetChangedStatus(a, data) \/ NvMemoryWrite(a, data)
       \/ \E b \in NvArgs : NvMemoryMove(a, b, n)

NvSpec == NvInit /\ [][NvNext]_nvvars

-----------------------------------------------------------------------------
(* Properties                                                              *)

\* The bytes that [start, start + size) names, in unbounded arithmetic.
Named(start, size) == start .. start + size - 1

\* No offset, length or overlap makes a call panic, and whatever a read
\* returns, its buffer holds the bytes that were named or, if the region does
\* not have them all, zeros: nothing the caller's stack held before reaches the
\* library as NV data.  (nv_range, nv_memory_read and nv_memory_move, 126-152
\* and 169-197)
NvAnswersWithNvData ==
  /\ ~nvaborted
  /\ nvcall.op = "read" =>
       nvcall.data = IF /\ nvcall.from <= NvSize
                        /\ Named(nvcall.from, nvcall.size)
                             \subseteq DOMAIN nvregion
                     THEN Slice(nvregion, nvcall.from, nvcall.size)
                     ELSE [i \in 1 .. nvcall.size |-> 0]

\* A call changes bytes of the range it names as its target only, all of them
\* or none, and a move gives each the byte its source had before, also where
\* the two ranges overlap.  (159-197)
NvNamedBytesOnly ==
  [][nvregion' # nvregion =>
       /\ Named(nvcall'.to, nvcall'.size) \subseteq DOMAIN nvregion
       /\ \A i \in DOMAIN nvregion \ Named(nvcall'.to, nvcall'.size) :
            nvregion'[i] = nvregion[i]
       /\ nvcall'.op = "move" =>
            \A k \in 0 .. nvcall'.size - 1 :
              nvregion'[nvcall'.to + k] = nvregion[nvcall'.from + k]]_nvvars

\* NvGetChangedStatus foretells the write of the same bytes: 0, and the write
\* would succeed and change nothing; 1, and it would change the region; -1,
\* and it would be refused.  (nv_is_different and nv_memory_write, 154-162)
NvStatusForetellsWrite ==
  [][nvcall.op = "status" /\ nvcall'.op = "write" /\ nvcall'.to = nvcall.to
       /\ nvcall'.data = nvcall.data
     => /\ (nvcall.ret = 0) <=> (nvcall'.ret = 1 /\ nvregion' = nvregion)
        /\ (nvcall.ret = 1) <=> (nvregion' # nvregion)
        /\ (nvcall.ret = -1) <=> (nvcall'.ret = 0)]_nvvars
=============================================================================
