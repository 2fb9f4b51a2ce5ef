------------------------------- MODULE Entropy -------------------------------
(***************************************************************************)
(* The entropy source (src/plat/api/entropy.rs): it collects blocks from   *)
(* the host's callback, in as many pieces as the callback likes to give,   *)
(* keeps the last one for the health test of FIPS 140-2, and hands the     *)
(* library at most one block at a time.  The kept block is part of the     *)
(* platform state and travels with a saved state.                          *)
(*                                                                         *)
(* The callback writes where it likes in the slice it is handed, and       *)
(* returns what length it likes.  A draw before any block is kept fails an *)
(* assertion, which ends the process: the draw is an extern "C" function.  *)
(***************************************************************************)
EXTENDS Integers, Sequences, FiniteSetsExt

CONSTANTS
  BlockSize,     \* ENTROPY_BLOCK_SIZE
  HostBytes,     \* the bytes the callback may give
  Amounts,       \* the lengths the library asks for
  NoBlock,
  EntropyError   \* what a call that fails returns

\* A byte that nobody wrote is 0.
Blocks == [1 .. BlockSize -> HostBytes \cup {0}]

ASSUME EntropyAssumption ==
  /\ BlockSize \in Nat \ {0} /\ 0 \notin HostBytes /\ Amounts \subseteq Nat
  /\ NoBlock \notin Blocks

VARIABLES
  previous,    \* EntropyState.previous_block, or NoBlock
  savedblock,  \* previous_block in the host's saved state
  reading,     \* the call whose block is being collected, "no", or "aborted"
  amount,      \* the length the library asked for
  block,       \* the block under collection, or the last one
  written,     \* the sum of the lengths the callback returned for it
  shortfall,   \* history: its positions that a call answered for, with a
               \* length it was asked for, and did not write
  given,       \* what the last call returned: its bytes, or EntropyError
  asked,       \* history: how often this block's callback was called
  lastread,    \* history: the last block collected in full
  savedlast    \* history: lastread when the host's state was saved

entvars == <<previous, savedblock, reading, amount, block, written, shortfall,
             given, asked, lastread, savedlast>>
held == <<previous, savedblock, lastread, savedlast>>

EmptyBlock == [i \in 1 .. BlockSize |-> 0]

EntropyInit ==
  /\ previous = NoBlock /\ savedblock = NoBlock
  /\ reading = "no"
  /\ amount = 0
  /\ block = EmptyBlock /\ written = 0 /\ shortfall = {} /\ asked = 0
  /\ given = <<>>
  /\ lastread = NoBlock /\ savedlast = NoBlock

-----------------------------------------------------------------------------
\* plat_get_entropy: an amount of 0 primes the source, any other draws, and
\* get_entropy asserts that there is a block to compare with.
GetEntropy ==
  /\ reading = "no"
  /\ \E a \in Amounts :
       /\ amount' = a
       /\ reading' = CASE a = 0 -> "prime"
                      [] a > 0 /\ previous # NoBlock -> "draw"
                      [] OTHER -> "aborted"
  /\ block' = EmptyBlock /\ written' = 0 /\ shortfall' = {} /\ asked' = 0
  /\ UNCHANGED <<given, held>>

\* The process ends, by that assertion or otherwise, and another begins.
Restart ==
  /\ reading' = "no" /\ previous' = NoBlock /\ lastread' = NoBlock
  /\ amount' = 0 /\ given' = <<>>
  /\ block' = EmptyBlock /\ written' = 0 /\ shortfall' = {} /\ asked' = 0
  /\ UNCHANGED <<savedblock, savedlast>>

Requested == BlockSize - written

\* A check that believes any length but none.
LengthPositive(returned) == returned # 0

\* The lengths the callback may return.
LengthValid(returned) == returned # 0 /\ returned <= Requested

\* The call returns what it has to, and the collection ends.
Return(result) ==
  /\ given' = result
  /\ reading' = "no"
  /\ UNCHANGED amount

Fails == Return(EntropyError) /\ UNCHANGED <<block, written, shortfall, held>>

\* A draw that compares with the block of the priming only.
DrawForgets(b) ==
  /\ UNCHANGED previous
  /\ Return(IF previous = b THEN EntropyError
            ELSE SubSeq(b, 1, Min({amount, BlockSize})))

\* get_entropy, once its block is complete
Draw(b) ==
  \/ /\ previous = b              \* EntropyHealthTestFailed
     /\ UNCHANGED previous
     /\ Return(EntropyError)
  \/ /\ previous # b
     /\ previous' = b
     /\ Return(SubSeq(b, 1, Min({amount, BlockSize})))

\* initialize_entropy, once its block is complete
Prime(b) == previous' = b /\ Return(<<>>)

Complete(b) ==
  /\ \/ reading = "prime" /\ Prime(b)
     \/ reading = "draw" /\ Draw(b)
  /\ lastread' = b
  /\ UNCHANGED <<savedblock, savedlast>>

\* The positions a call answered for and did not write.  One that returned
\* more than it was asked for answered for none.
Unwritten(returned, wrote) ==
  IF returned <= Requested
  THEN (written + 1 .. written + returned) \ wrote
  ELSE {}

\* read_entropy_block calls get_crypt_random for the bytes that are left.  The
\* length it returns is all the crate knows of what it wrote.
CallbackReturns ==
  /\ reading \in {"prime", "draw"}
  /\ asked' = asked + 1
  /\ \E returned \in 0 .. Requested + 1 :
       \/ ~LengthValid(returned) /\ Fails
       \/ /\ LengthValid(returned)
          /\ written' = written + returned
          /\ \E wrote \in SUBSET (written + 1 .. BlockSize) :
               /\ shortfall' = shortfall \cup Unwritten(returned, wrote)
               /\ \E bytes \in [wrote -> HostBytes] :
                    block' = [i \in 1 .. BlockSize |->
                                IF i \in wrote THEN bytes[i] ELSE block[i]]
          /\ \/ /\ written' < BlockSize
                /\ UNCHANGED <<reading, amount, given, held>>
             \/ written' >= BlockSize /\ Complete(block')

CallbackFails ==
  /\ reading \in {"prime", "draw"}
  /\ asked' = asked + 1
  /\ Fails

\* save_state
EntropySave ==
  /\ reading = "no"
  /\ savedblock' = previous /\ savedlast' = lastread
  /\ UNCHANGED <<previous, reading, amount, block, written, shortfall,
                 given, asked, lastread>>

\* restore_state, in this process or in another
EntropyRestore ==
  /\ reading = "no"
  /\ previous' = savedblock /\ lastread' = savedlast
  /\ UNCHANGED <<savedblock, reading, amount, block, written, shortfall,
                 given, asked, savedlast>>

EntropyNext ==
  \/ GetEntropy \/ CallbackReturns \/ CallbackFails
  \/ EntropySave \/ EntropyRestore \/ Restart

EntropySpec == EntropyInit /\ [][EntropyNext]_entvars

-----------------------------------------------------------------------------
(* Properties                                                              *)

\* However the callback cuts a block into pieces, a byte the library gets is
\* the host's, unless a call that was asked for it returned a length covering
\* it and did not write it: then it is what the buffer started with, as of the
\* NoopPlatformCallbacks of lib.rs:90-97, and the crate cannot tell.  A length
\* beyond the request puts no byte in doubt.  And the callback is called at
\* most once for each byte of a block, so that one which gives nothing cannot
\* keep the library waiting.  (read_entropy_block, entropy.rs:31-54)
EveryByteFromHost ==
  /\ reading = "no" /\ given # EntropyError =>
       /\ \A i \in (1 .. Len(given)) \ shortfall : given[i] \in HostBytes
       /\ Len(given) <= BlockSize
  /\ asked <= BlockSize

\* No block is delivered that equals the one collected before it, neither
\* after refused draws, partial blocks and repeated priming nor after a
\* restore, which goes on from the saved block.  (entropy.rs:56-74)
NoBlockTwice ==
  [][reading = "draw" /\ reading' = "no" /\ given' \notin {EntropyError, <<>>}
     => lastread' # lastread]_entvars
=============================================================================
