--------------------------------- MODULE Pcr ---------------------------------
(***************************************************************************)
(* How the library asks the platform for its PCRs (src/plat/api/pcr.rs):   *)
(* the attributes of each, which banks are active by default, and the      *)
(* value a PCR starts with, written into a buffer of the library's.        *)
(***************************************************************************)
EXTENDS Integers, Sequences

CONSTANTS
  PcrNumbers,      \* the numbers the library asks for
  BufferSizes,     \* the sizes of its buffers
  Localities,      \* the startup localities
  OtherAlg         \* an algorithm that is no hash

ASSUME PcrAssumption ==
  PcrNumbers \cup BufferSizes \cup Localities \subseteq Nat

NUM_PCRS == 24
HCRTM_PCR == 0
DEFAULT_ACTIVE_PCR_BANKS == {"SHA256", "SHA384"}
Algs == {"SHA1", "SHA256", "SHA384", "SHA512", OtherAlg}

VARIABLES
  pcrcall,     \* the last query of an initial value, and what it returned
  pcrbuffer,   \* the bytes it wrote to the library's buffer, from its start
  pcrlength    \* *pcr_length

pcrvars == <<pcrcall, pcrbuffer, pcrlength>>

NoQuery == [number |-> 0, alg |-> OtherAlg, locality |-> 0, size |-> 0,
            null |-> FALSE, rc |-> "none"]

PcrInit == pcrcall = NoQuery /\ pcrbuffer = <<>> /\ pcrlength = 0

-----------------------------------------------------------------------------
\* A mask of localities has one bit for each; those of localities 0 and 4.
LOCALITY_0 == 1
LOCALITY_4 == 16

Allows(mask, bit) == (mask \div bit) % 2 = 1

Attr(save, group, reset, extend) ==
  [state_save |-> save, do_not_increment_pcr_counter |-> group = 1,
   policy_auth_group |-> group, auth_values_group |-> group,
   reset_locality |-> reset, extend_locality |-> extend]

\* INIT_ATTRIBUTES
AttributesOf(p) ==
  CASE p \in 0 .. 15 -> Attr(TRUE, 0, 0, 31)
    [] p \in {16, 23} -> Attr(FALSE, 0, 15, 31)
    [] p \in 17 .. 18 -> Attr(FALSE, 0, 16, 28)
    [] p = 19 -> Attr(FALSE, 0, 16, 12)
    [] p = 20 -> Attr(FALSE, 1, 20, 14)
    [] p \in 21 .. 22 -> Attr(FALSE, 1, 20, 4)

\* plat_pcr_get_pcr_initialization_attributes
InitializationAttributes(p) == AttributesOf(IF p >= NUM_PCRS THEN 0 ELSE p)

\* digest_size; {} is None.
DigestSize(alg) ==
  CASE alg = "SHA1" -> {20} [] alg = "SHA256" -> {32}
    [] alg = "SHA384" -> {48} [] alg = "SHA512" -> {64}
    [] OTHER -> {}

\* A test of the bit below.
DefaultByteLow(p) ==
  IF Allows(AttributesOf(p).reset_locality, LOCALITY_4 \div 2) THEN 255 ELSE 0

\* The PCRs of the dynamic root of trust, which locality 4 resets, start with
\* ones.
DefaultByte(p) ==
  IF Allows(AttributesOf(p).reset_locality, LOCALITY_4) THEN 255 ELSE 0

InitialValue(p, n, l) ==
  [i \in 1 .. n |-> IF p = HCRTM_PCR /\ i = n THEN l ELSE DefaultByte(p)]

RoomFor(size, n) == size >= n

\* plat_pcr_get_initial_value_for_pcr
GetInitialValueForPcr ==
  \E p \in PcrNumbers, alg \in Algs, l \in Localities, size \in BufferSizes,
     null \in BOOLEAN :
    LET Answer(rc) ==
          pcrcall' = [number |-> p, alg |-> alg, locality |-> l, size |-> size,
                      null |-> null, rc |-> rc]
    IN \/ /\ p >= NUM_PCRS \/ null
          /\ Answer("TPM_RC_FAILURE")
          /\ pcrbuffer' = <<>> /\ UNCHANGED pcrlength
       \/ /\ p < NUM_PCRS /\ ~null
          /\ DigestSize(alg) = {}
          /\ Answer("TPM_RC_PCR")
          /\ pcrbuffer' = <<>> /\ pcrlength' = 0
       \/ /\ p < NUM_PCRS /\ ~null
          /\ \E n \in DigestSize(alg) :
               \/ /\ ~RoomFor(size, n)
                  /\ Answer("TPM_RC_FAILURE")
                  /\ pcrbuffer' = <<>> /\ UNCHANGED pcrlength
               \/ /\ RoomFor(size, n)
                  /\ Answer("TPM_RC_SUCCESS")
                  /\ pcrbuffer' = InitialValue(p, n, l) /\ pcrlength' = n

PcrNext == GetInitialValueForPcr

PcrSpec == PcrInit /\ [][PcrNext]_pcrvars

-----------------------------------------------------------------------------
(* Properties                                                              *)

\* What a PCR starts with agrees with what else the library is told about it.
\* A value is a whole digest of the length returned, within the library's
\* buffer, and every active bank has one if there is room; a PCR that is saved
\* over a restart starts with zeros, and the startup locality in PCR 0; one
\* starts with ones, as if it had never been reset, exactly if locality 0 may
\* not extend it.
\* (pcr.rs:56-110, 152-206)
PcrStartsAsItsAttributesSay ==
  /\ pcrcall.rc = "TPM_RC_SUCCESS" =>
       LET a == InitializationAttributes(pcrcall.number)
           body == {pcrbuffer[i] : i \in 1 .. Len(pcrbuffer) - 1}
           last == pcrbuffer[Len(pcrbuffer)]
       IN  /\ Len(pcrbuffer) = pcrlength /\ pcrlength <= pcrcall.size
           /\ body \in {{0}, {255}}
           /\ a.state_save => a.reset_locality = 0 /\ body = {0}
           /\ body = {255} <=> ~Allows(a.extend_locality, LOCALITY_0)
           /\ IF pcrcall.number = HCRTM_PCR THEN last = pcrcall.locality
              ELSE last \in body
  /\ pcrcall.rc # "TPM_RC_SUCCESS" => pcrbuffer = <<>>
  /\ pcrcall.rc = "TPM_RC_PCR" => pcrlength = 0
  /\ /\ pcrcall.alg \in DEFAULT_ACTIVE_PCR_BANKS /\ pcrcall.number < NUM_PCRS
     /\ ~pcrcall.null /\ pcrcall.size >= 64
     => pcrcall.rc \in {"none", "TPM_RC_SUCCESS"}

\* The answer for a PCR that the platform has no value for is TPM_RC_PCR, as
\* the doc of the function has it, and TPM_RC_FAILURE is left for a buffer that
\* is too small.  A number past the table gets TPM_RC_FAILURE whatever the
\* buffer.  (pcr.rs:146-149, 170-172)
NoValueIsRcPcr ==
  /\ pcrcall.rc # "none" /\ ~pcrcall.null
  /\ pcrcall.number >= NUM_PCRS /\ pcrcall.size >= 64
  => pcrcall.rc = "TPM_RC_PCR"
=============================================================================
