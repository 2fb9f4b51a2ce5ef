------------------------------ MODULE MCParts ------------------------------
(***************************************************************************)
(* Seven components that share no state, explored side by side: a          *)
(* behaviour moves one of them and leaves the others as they start.        *)
(***************************************************************************)
EXTENDS NvMem, Entropy, Command, Pcr, BuildScript, BuildNames, TestHarness

VARIABLE part   \* the component that moves

Parts == {"nvmem", "entropy", "command", "pcr", "script", "names", "harness"}

partsvars == <<part, nvvars, entvars, cmdvars, pcrvars, bldvars, archives, vars>>

PartsInit ==
  /\ part \in Parts
  /\ NvInit /\ EntropyInit /\ CmdInit /\ PcrInit /\ NamInit /\ BldInit /\ Init
  /\ part # "script" =>
       checkout = "v184" /\ features = [f \in DOMAIN features |-> FALSE]

PartsNext ==
  /\ UNCHANGED part
  /\ IF part = "nvmem" THEN NvNext ELSE UNCHANGED nvvars
  /\ IF part = "entropy" THEN EntropyNext ELSE UNCHANGED entvars
  /\ IF part = "command" THEN CmdNext ELSE UNCHANGED cmdvars
  /\ IF part = "pcr" THEN PcrNext ELSE UNCHANGED pcrvars
  /\ IF part = "script" THEN BldNext ELSE UNCHANGED bldvars
  /\ IF part = "names" THEN NamNext ELSE UNCHANGED archives
  /\ IF part = "harness" THEN Next ELSE UNCHANGED vars

\* A commit that was begun goes on, as in TestHarness.
PartsSpec ==
  PartsInit /\ [][PartsNext]_partsvars /\ WF_vars(CommitStep)

-----------------------------------------------------------------------------
(* The inputs                                                              *)

\* Two archives that define functions, use each other's, the platform's and
\* the C library's, and carry linker metadata of the same name.
MCArchiveSets ==
  {<<[defs |-> d, undefs |-> u], [defs |-> e, undefs |-> v]>> :
     d \in SUBSET {"ObjectFlush", "SymCryptCallbackAlloc", "@feat.00"},
     u \in SUBSET {"CryptHashBlock", "_plat__NvCommit", "memcpy"},
     e \in SUBSET {"CryptHashBlock", "@feat.00"},
     v \in SUBSET {"ObjectFlush", "_plat__NvCommit", "memcpy"}}

\* The image of a region whose bytes are told apart by position.
MCBytes == 0 .. 2
=============================================================================
