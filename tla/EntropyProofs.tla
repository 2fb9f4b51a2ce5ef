--------------------------- MODULE EntropyProofs ---------------------------
(***************************************************************************)
(* Proofs about Entropy for every size of a block, every set of bytes,     *)
(* whatever lengths the host's callback returns and wherever it writes.    *)
(* The invariant says that the kept block is the last one collected, here  *)
(* and in the saved state, that a block under collection grows with each   *)
(* call, and that the bytes the callback answered for are the host's but   *)
(* those of the shortfall.                                                 *)
(***************************************************************************)
EXTENDS Entropy, TLAPS

USE DEF held

\* The kept block is the last one that was collected in full.
KeptIsLast == previous = lastread /\ savedblock = savedlast

\* A block under collection has been answered for up to its written bytes,
\* one for every call at least.
Collecting ==
  /\ reading \in {"no", "prime", "draw", "aborted"}
  /\ asked \in Nat /\ written \in Nat /\ amount \in Nat
  /\ reading # "no" => asked <= written /\ written < BlockSize

\* Those bytes are the host's, but for the shortfall.
FirstBytes ==
  /\ block \in Blocks
  /\ \A i \in (1 .. written) \ shortfall :
       i <= BlockSize => block[i] \in HostBytes

EntInv == KeptIsLast /\ Collecting /\ FirstBytes

-----------------------------------------------------------------------------
\* What Draw takes of a block is the first of its bytes.
LEMMA Prefix ==
  ASSUME NEW b \in Blocks, NEW n \in Nat
  PROVE  LET s == SubSeq(b, 1, Min({n, BlockSize}))
         IN  /\ \A i \in 1 .. Len(s) : i \in 1 .. BlockSize /\ s[i] = b[i]
             /\ Len(s) <= BlockSize
<1>1. Min({n, BlockSize}) \in Nat /\ Min({n, BlockSize}) <= BlockSize
  <2> DEFINE m == IF n <= BlockSize THEN n ELSE BlockSize
  <2>1. m \in {n, BlockSize} /\ \A y \in {n, BlockSize} : m <= y
    BY EntropyAssumption
  <2>2. \A x \in {n, BlockSize} :
          (\A y \in {n, BlockSize} : x <= y) => x = m
    BY EntropyAssumption
  <2>3. Min({n, BlockSize}) = m
    BY <2>1, <2>2 DEF Min
  <2> QED  BY <2>3, EntropyAssumption
<1> QED  BY <1>1, EntropyAssumption DEF Blocks

LEMMA InvInit == EntropyInit => EntInv
BY EntropyAssumption
DEF EntropyInit, EntInv, KeptIsLast, Collecting, FirstBytes, EmptyBlock,
    Blocks

-----------------------------------------------------------------------------
(* The steps.                                                              *)

\* What a call of the callback delivers to the library: nothing, an error, or
\* the first bytes of a block, the host's but for the shortfall.
Delivered ==
  \/ UNCHANGED given /\ reading' # "no"
  \/ given' \in {EntropyError, <<>>}
  \/ \E b \in Blocks :
       /\ \A i \in (1 .. BlockSize) \ shortfall' : b[i] \in HostBytes
       /\ given' = SubSeq(b, 1, Min({amount, BlockSize}))

\* A call of get_crypt_random, whatever it returns.
LEMMA CallbackKeeps ==
  ASSUME EntInv, CallbackReturns
  PROVE  EntInv' /\ asked' <= BlockSize /\ Delivered
<1> USE EntropyAssumption DEF EntInv, KeptIsLast, Collecting, FirstBytes
<1>1. /\ asked' = asked + 1 /\ asked' <= written + 1
      /\ written + 1 <= BlockSize /\ asked' <= BlockSize
  BY DEF CallbackReturns
<1>2. reading \in {"prime", "draw"}
  BY DEF CallbackReturns
<1>3. ASSUME Fails
      PROVE  EntInv' /\ Delivered
  BY <1>1, <1>3 DEF Fails, Return, Delivered
<1>4. ASSUME NEW returned \in 0 .. Requested + 1, LengthValid(returned),
             written' = written + returned,
             NEW wrote \in SUBSET (written + 1 .. BlockSize),
             shortfall' = shortfall \cup Unwritten(returned, wrote),
             NEW bytes \in [wrote -> HostBytes],
             block' = [i \in 1 .. BlockSize |->
                         IF i \in wrote THEN bytes[i] ELSE block[i]],
             \/ /\ written' < BlockSize
                /\ UNCHANGED <<reading, amount, given, held>>
             \/ written' >= BlockSize /\ Complete(block')
      PROVE  EntInv' /\ Delivered
  <2>1. returned \in Nat /\ returned >= 1 /\ returned <= Requested
    BY <1>4 DEF LengthValid, Requested
  <2>2. written' \in Nat /\ written' <= BlockSize /\ asked' <= written'
    BY <1>1, <1>4, <2>1 DEF Requested
  <2>3. block' \in Blocks
    BY <1>4 DEF Blocks
  <2>4. shortfall' = shortfall \cup ((written + 1 .. written') \ wrote)
    BY <1>4, <2>1 DEF Unwritten
  <2>5. \A i \in (1 .. written') \ shortfall' :
          i <= BlockSize => block'[i] \in HostBytes
    <3> SUFFICES ASSUME NEW i \in (1 .. written') \ shortfall', i <= BlockSize
                 PROVE  block'[i] \in HostBytes
      OBVIOUS
    <3>1. CASE i \in wrote
      BY <1>4, <2>2, <3>1
    <3>2. CASE i \notin wrote
      <4>1. i \in (1 .. written) \ shortfall
        BY <2>2, <2>4, <3>2
      <4> QED  BY <1>4, <2>2, <3>2, <4>1
    <3> QED  BY <3>1, <3>2
  <2>6. CASE written' < BlockSize /\ UNCHANGED <<reading, amount, given, held>>
    BY <1>1, <1>2, <2>2, <2>3, <2>5, <2>6 DEF Delivered
  <2>7. CASE written' >= BlockSize /\ Complete(block')
    <3>1. \A i \in (1 .. BlockSize) \ shortfall' : block'[i] \in HostBytes
      BY <2>2, <2>5, <2>7
    <3>2. Delivered
      BY <2>3, <2>7, <3>1 DEF Complete, Prime, Draw, Return, Delivered
    <3>3. EntInv'
      BY <1>1, <2>2, <2>3, <2>5, <2>7 DEF Complete, Prime, Draw, Return
    <3> QED  BY <3>2, <3>3
  <2> QED  BY <1>4, <2>6, <2>7
<1>5. \/ Fails
      \/ \E returned \in 0 .. Requested + 1 :
           /\ LengthValid(returned)
           /\ written' = written + returned
           /\ \E wrote \in SUBSET (written + 1 .. BlockSize) :
                /\ shortfall' = shortfall \cup Unwritten(returned, wrote)
                /\ \E bytes \in [wrote -> HostBytes] :
                     block' = [i \in 1 .. BlockSize |->
                                 IF i \in wrote THEN bytes[i] ELSE block[i]]
           /\ \/ /\ written' < BlockSize
                 /\ UNCHANGED <<reading, amount, given, held>>
              \/ written' >= BlockSize /\ Complete(block')
  BY DEF CallbackReturns
<1> HIDE DEF EntInv, KeptIsLast, Collecting, FirstBytes
<1>6. EntInv' /\ Delivered
  BY <1>3, <1>4, <1>5
<1> QED  BY <1>1, <1>6

\* Only one of the calls ends a collection, and only they count.
LEMMA InvNext ==
  ASSUME EntInv, [EntropyNext]_entvars
  PROVE  EntInv'
<1>1. CASE GetEntropy
  BY <1>1, EntropyAssumption
  DEF GetEntropy, EntInv, KeptIsLast, Collecting, FirstBytes, EmptyBlock,
      Blocks
<1>2. CASE CallbackReturns
  BY <1>2, CallbackKeeps
<1>3. CASE CallbackFails
  BY <1>3 DEF CallbackFails, Fails, Return, EntInv, KeptIsLast, Collecting,
              FirstBytes
<1>4. CASE EntropySave
  BY <1>4 DEF EntropySave, EntInv, KeptIsLast, Collecting, FirstBytes
<1>5. CASE EntropyRestore
  BY <1>5 DEF EntropyRestore, EntInv, KeptIsLast, Collecting, FirstBytes
<1>6. CASE Restart
  BY <1>6, EntropyAssumption
  DEF Restart, EntInv, KeptIsLast, Collecting, FirstBytes, EmptyBlock, Blocks
<1>7. CASE UNCHANGED entvars
  BY <1>7 DEF entvars, EntInv, KeptIsLast, Collecting, FirstBytes
<1> QED  BY <1>1, <1>2, <1>3, <1>4, <1>5, <1>6, <1>7 DEF EntropyNext

-----------------------------------------------------------------------------
\* The kept block is the last one collected, and the bytes of a block under
\* collection that the callback answered for are the host's but for the
\* shortfall (read_entropy_block, entropy.rs:31-54).
THEOREM EntropyInvariant == EntropySpec => []EntInv
<1>1. EntropyInit => EntInv
  BY InvInit
<1>2. EntInv /\ [EntropyNext]_entvars => EntInv'
  BY InvNext
<1> QED  BY <1>1, <1>2, PTL DEF EntropySpec

\* No block is delivered that equals the one collected before it: a draw that
\* does not fail has compared its block with that one (entropy.rs:56-74).
THEOREM NeverTwice == EntropySpec => NoBlockTwice
<1>1. EntInv /\ [EntropyNext]_entvars
        => [reading = "draw" /\ reading' = "no"
            /\ given' \notin {EntropyError, <<>>}
            => lastread' # lastread]_entvars
  <2> SUFFICES ASSUME EntInv, EntropyNext, reading = "draw", reading' = "no",
                      given' \notin {EntropyError, <<>>}
               PROVE  lastread' # lastread
    OBVIOUS
  <2>1. CallbackReturns
    BY DEF EntropyNext, GetEntropy, CallbackFails, Fails, Return, EntropySave,
           EntropyRestore, Restart
  <2>2. Complete(block')
    BY <2>1 DEF CallbackReturns, Fails, Return
  <2> QED  BY <2>2 DEF Complete, Draw, Return, EntInv, KeptIsLast
<1> QED  BY <1>1, EntropyInvariant, PTL DEF EntropySpec, NoBlockTwice

\* Every byte delivered is the host's, but one that a callback asked for it
\* said it wrote and did not, and the host is called at most once for each
\* byte of a block: for every callback (entropy.rs:31-54).
THEOREM AllFromHost == EntropySpec => []EveryByteFromHost
<1>1. EntropyInit => EveryByteFromHost
  BY EntropyAssumption DEF EntropyInit, EveryByteFromHost
<1>2. EntInv /\ EveryByteFromHost /\ [EntropyNext]_entvars => EveryByteFromHost'
  <2> SUFFICES ASSUME EntInv, EveryByteFromHost, [EntropyNext]_entvars
               PROVE  EveryByteFromHost'
    OBVIOUS
  <2>1. CASE CallbackReturns
    <3>1. asked' <= BlockSize
      BY <2>1, CallbackKeeps
    <3>2. Delivered
      BY <2>1, CallbackKeeps
    <3>3. CASE reading' # "no" \/ given' \in {EntropyError, <<>>}
      BY <3>1, <3>3, EntropyAssumption DEF EveryByteFromHost
    <3>4. ASSUME NEW b \in Blocks,
                 \A i \in (1 .. BlockSize) \ shortfall' : b[i] \in HostBytes,
                 given' = SubSeq(b, 1, Min({amount, BlockSize}))
          PROVE  EveryByteFromHost'
      BY <3>1, <3>4, Prefix DEF EveryByteFromHost, EntInv, Collecting
    <3> QED  BY <3>2, <3>3, <3>4 DEF Delivered
  <2>2. CASE GetEntropy
    BY <2>2, EntropyAssumption DEF GetEntropy, EveryByteFromHost
  <2>3. CASE CallbackFails
    BY <2>3, EntropyAssumption
    DEF CallbackFails, Fails, Return, EveryByteFromHost, EntInv, Collecting
  <2>4. CASE Restart
    BY <2>4, EntropyAssumption DEF Restart, EveryByteFromHost
  <2>5. CASE EntropySave \/ EntropyRestore \/ UNCHANGED entvars
    BY <2>5 DEF EntropySave, EntropyRestore, entvars, EveryByteFromHost
  <2> QED  BY <2>1, <2>2, <2>3, <2>4, <2>5 DEF EntropyNext
<1> QED  BY <1>1, <1>2, EntropyInvariant, PTL DEF EntropySpec
=============================================================================
