------------------------------- MODULE Platform -------------------------------
(***************************************************************************)
(* The life of one MsTpm185Platform: the platform state of src/plat/mod.rs *)
(* and src/plat/api/*.rs, the calls of the host, the callbacks of the TPM  *)
(* library, what the host keeps (its durable copy of the NV memory, a      *)
(* saved state), and crashes of the process.                               *)
(*                                                                         *)
(* One thread: who may call when is the subject of module Singleton.  The  *)
(* clock's registers are in module Clock.  The TPM library is external: it *)
(* makes callbacks in any number and order the code allows for, and of its *)
(* globals only what it has learned from the platform is kept.             *)
(***************************************************************************)
EXTENDS Integers

CONSTANTS
  Images,       \* contents of the NV memory that the library can write
  Blank,        \* an NV memory of zeros, as nv_enable makes it
  Failures,     \* (location, code) pairs of _plat__Fail
  NoFailure,
  Localities,   \* the localities the host uses
  Blobs,        \* NV blobs the host has, besides its durable copy
  Foreign,      \* saved states that another build of the crate made
  NoPlatform, NoCopy

ASSUME PlatformAssumption ==
  /\ Blank \notin Images
  /\ NoFailure \notin Failures
  /\ 0 \in Localities

\* An NV region: its contents, and whether it is NV_MEMORY_SIZE long.
Regions == [img : Images \cup {Blank}, full : BOOLEAN]

BlankRegion == [img |-> Blank, full |-> TRUE]

ASSUME BlobsAssumption ==
  /\ Blobs \subseteq Regions
  /\ \A b \in Blobs : b.img # Blank

VARIABLES
  plat,    \* PLATFORM: the platform state, or NoPlatform
  lib,     \* the library's globals, which outlive the platform
  call,    \* what the host's handle is doing
  disk,    \* the region commit_nv_state stored last, or NoCopy
  saved    \* the last state save_state returned, or NoCopy

vars == <<plat, lib, call, disk, saved>>

-----------------------------------------------------------------------------
(* MsTpm185PlatformState and its methods.                                  *)

PlatformStates ==
  [cancel : BOOLEAN, failure : Failures \cup {NoFailure},
   locality : Localities, nv : Regions, is_init : BOOLEAN,
   power_lost : BOOLEAN, primed : BOOLEAN]

NewPlatform ==
  [cancel |-> FALSE, failure |-> NoFailure, locality |-> 0,
   nv |-> BlankRegion, is_init |-> FALSE,
   power_lost |-> FALSE, primed |-> FALSE]

\* nv_enable: a region that is already there is kept.
NvEnable(p) ==
  IF p.is_init THEN p ELSE [p EXCEPT !.nv = BlankRegion, !.is_init = TRUE]

\* Mutant: the size of the blob is not checked.
BlobFitsAnySize(p, b) == ~p.is_init

\* nv_enable_from_blob: refused for an enabled region or a wrong size.
BlobFits(p, b) == ~p.is_init /\ b.full

NvEnableFromBlob(p, b) == [p EXCEPT !.nv = b, !.is_init = TRUE]

\* Mutant: the power loss is not recorded.
SignalPowerOnQuietly(p) == NvEnable(p)

SignalPowerOn(p) == NvEnable([p EXCEPT !.power_lost = TRUE])

\* Mutant: power off forgets the entropy block.
SignalPowerOffUnprimes(p) == [p EXCEPT !.is_init = FALSE, !.primed = FALSE]

SignalPowerOff(p) == [p EXCEPT !.is_init = FALSE]

\* Mutant: the last failure wins.
FailLast(p, f) == [p EXCEPT !.failure = f]

\* fail: the first failure wins.
Fail(p, f) == IF p.failure = NoFailure THEN [p EXCEPT !.failure = f] ELSE p

ResetFailure(p) == [p EXCEPT !.failure = NoFailure]

-----------------------------------------------------------------------------
(* The library's globals: the NV image they were computed from, the answer *)
(* to _plat__WasPowerLost since the last _TPM_Init (g_powerWasLost), and   *)
(* whether it was told (by a 0) that its entropy source is primed.         *)

LibStates ==
  [nv : Images \cup {Blank}, power : {"unasked", "kept", "lost"},
   primed : BOOLEAN]

LibAtStart == [nv |-> Blank, power |-> "unasked", primed |-> FALSE]

\* A saved state.  accepted: its size, magic, revision and variable count are
\* the ones of the running build (INJECTED_ApplyRuntimeState).
Snapshots == [plat : PlatformStates, lib : LibStates, accepted : BOOLEAN]

ASSUME ForeignAssumption == Foreign \subseteq Snapshots

ASSUME NullAssumption ==
  /\ NoPlatform \notin PlatformStates \cup Regions
  /\ NoCopy \notin Regions \cup Snapshots

-----------------------------------------------------------------------------
\* "none": no handle.  "ready": the handle is in no call.  The others: inside
\* TPM_Manufacture, _TPM_Init (before and after _plat__StartTpmInit) or
\* ExecuteCommand.
InC == {"manufacture", "init_enter", "init", "execute"}

Calls == {"none", "ready"} \cup InC

Init ==
  /\ plat = NoPlatform
  /\ lib = LibAtStart
  /\ call = "none"
  /\ disk = NoCopy
  /\ saved = NoCopy

\* The blobs the host can pass to initialize and to reset.
HostBlobs == Blobs \cup (IF disk = NoCopy THEN {} ELSE {disk})

-----------------------------------------------------------------------------
(* The host.  A call that is refused before it changes anything is a       *)
(* stuttering step: initialize on a live platform or with a wrong size, a  *)
(* saved state that does not deserialize, a command with a bad header.     *)

\* initialize with ColdInit, or ColdInitWithSize(NV_MEMORY_SIZE): the library
\* manufactures the TPM.
InitializeCold ==
  /\ plat = NoPlatform
  /\ plat' = SignalPowerOn(NvEnable(NewPlatform))
  /\ call' = "manufacture"
  /\ lib' = [lib EXCEPT !.primed = FALSE]   \* TPM_Manufacture primes it anew
  /\ UNCHANGED <<disk, saved>>

\* initialize with ColdInitWithPersistentState.
InitializeFromBlob ==
  /\ plat = NoPlatform
  /\ \E b \in HostBlobs :
       /\ BlobFits(NewPlatform, b)
       /\ plat' = SignalPowerOn(NvEnableFromBlob(NewPlatform, b))
  /\ call' = "init_enter"
  /\ UNCHANGED <<lib, disk, saved>>

\* Mutant: the region is not claimed, so that power on makes a blank one.
ResetBlanks ==
  /\ call = "ready"
  /\ plat' = SignalPowerOn(SignalPowerOff(plat))
  /\ call' = "init_enter"
  /\ UNCHANGED <<lib, disk, saved>>

\* reset(None): power off, claim the region as it is, power on.
Reset ==
  /\ call = "ready"
  /\ plat' = SignalPowerOn([SignalPowerOff(plat) EXCEPT !.is_init = TRUE])
  /\ call' = "init_enter"
  /\ UNCHANGED <<lib, disk, saved>>

\* reset(Some(blob)): a blob that is rejected leaves the device powered off,
\* and the handle in the host's hands.
ResetWithBlob ==
  /\ call = "ready"
  /\ LET off == SignalPowerOff(plat) IN
     \E b \in HostBlobs :
       \/ /\ BlobFits(off, b)
          /\ plat' = SignalPowerOn(NvEnableFromBlob(off, b))
          /\ call' = "init_enter"
       \/ /\ ~BlobFits(off, b)
          /\ plat' = off
          /\ UNCHANGED call
  /\ UNCHANGED <<lib, disk, saved>>

SetCancelFlag ==
  /\ call = "ready"
  /\ \E enabled \in BOOLEAN : plat' = [plat EXCEPT !.cancel = enabled]
  /\ UNCHANGED <<lib, call, disk, saved>>

SetLocality ==
  /\ call = "ready"
  /\ \E l \in Localities : plat' = [plat EXCEPT !.locality = l]
  /\ UNCHANGED <<lib, call, disk, saved>>

ExecuteCommand ==
  /\ call = "ready"
  /\ call' = "execute"
  /\ UNCHANGED <<plat, lib, disk, saved>>

SaveState ==
  /\ call = "ready"
  /\ saved' = [plat |-> plat, lib |-> lib, accepted |-> TRUE]
  /\ UNCHANGED <<plat, lib, call, disk>>

HostSnapshots == Foreign \cup (IF saved = NoCopy THEN {} ELSE {saved})

\* Mutant: the library's half is left out.
RestoreStateHalf ==
  /\ call = "ready"
  /\ \E s \in HostSnapshots : plat' = s.plat
  /\ UNCHANGED <<lib, call, disk, saved>>

\* INJECTED_ApplyRuntimeState: the library rejects a blob of another size or
\* revision and keeps its globals; else it overwrites them, and may then fail
\* to rebuild a sequence object, which it reports to the platform.
ApplyRuntimeState(s) ==
  \/ ~s.accepted /\ plat' = s.plat /\ lib' = lib
  \/ s.accepted /\ plat' = s.plat /\ lib' = s.lib
  \/ /\ s.accepted /\ lib' = s.lib
     /\ \E f \in Failures : plat' = Fail(s.plat, f)

\* restore_state: the platform's half is in place before the library's is
\* looked at, and stays there when the library rejects its own.
RestoreState ==
  /\ call = "ready"
  /\ \E s \in HostSnapshots : ApplyRuntimeState(s)
  /\ UNCHANGED <<call, disk, saved>>

\* Mutant: the platform is dropped, the handle is not.
DropKeepsHandle ==
  /\ call = "ready"
  /\ plat' = NoPlatform
  /\ UNCHANGED <<lib, call, disk, saved>>

\* The handle is dropped.
Drop ==
  /\ call = "ready"
  /\ plat' = NoPlatform
  /\ call' = "none"
  /\ UNCHANGED <<lib, disk, saved>>

\* The process dies, anywhere, by its own doing or not, and starts again with
\* fresh C globals.
Crash ==
  /\ plat' = NoPlatform
  /\ lib' = LibAtStart
  /\ call' = "none"
  /\ UNCHANGED <<disk, saved>>

-----------------------------------------------------------------------------
(* The C library: entering and leaving it, and its callbacks.              *)

\* TPM_Manufacture ends; on an error initialize gives up, PLATFORM stays.
ManufactureReturns ==
  /\ call = "manufacture"
  /\ call' \in {"init_enter", "none"}
  /\ UNCHANGED <<plat, lib, disk, saved>>

\* _TPM_Init calls _plat__StartTpmInit first.
StartTpmInit ==
  /\ call = "init_enter"
  /\ plat' = ResetFailure(plat)
  /\ lib' = [lib EXCEPT !.power = "unasked", !.primed = FALSE]
  /\ call' = "init"
  /\ UNCHANGED <<disk, saved>>

\* _TPM_Init has asked about power and computed its globals from NV memory.
TpmInitReturns ==
  /\ call = "init"
  /\ lib.power # "unasked"
  /\ lib' = [lib EXCEPT !.nv = plat.nv.img]
  /\ call' = "ready"
  /\ UNCHANGED <<plat, disk, saved>>

ExecuteReturns ==
  /\ call = "execute"
  /\ call' = "ready"
  /\ UNCHANGED <<plat, lib, disk, saved>>

\* _plat__NVEnable
PlatNvEnable ==
  /\ call \in {"manufacture", "init"}
  /\ plat' = NvEnable(plat)
  /\ UNCHANGED <<lib, call, disk, saved>>

\* _plat__NvMemoryWrite, _plat__NvMemoryClear, _plat__NvMemoryMove: the
\* library's own view of NV memory moves with what it stores.
PlatNvMemoryWrite ==
  /\ call \in {"manufacture", "init", "execute"}
  /\ \E i \in Images : /\ plat' = [plat EXCEPT !.nv.img = i]
                       /\ lib' = [lib EXCEPT !.nv = i]
  /\ UNCHANGED <<call, disk, saved>>

\* _plat__NvCommit hands the whole region to the host (when the host's callback
\* fails nothing changes but the return value).
PlatNvCommit ==
  /\ call \in {"manufacture", "init", "execute"}
  /\ disk' = plat.nv
  /\ UNCHANGED <<plat, lib, call, saved>>

\* _plat__Fail
PlatFail ==
  /\ call \in {"manufacture", "init", "execute"}
  /\ \E f \in Failures : plat' = Fail(plat, f)
  /\ UNCHANGED <<lib, call, disk, saved>>

\* _plat__WasPowerLost: reading the flag clears it.
PlatWasPowerLost ==
  /\ call = "init"
  /\ lib' = [lib EXCEPT !.power =
               IF plat.power_lost THEN "lost"
               ELSE IF @ = "unasked" THEN "kept" ELSE @]
  /\ plat' = [plat EXCEPT !.power_lost = FALSE]
  /\ UNCHANGED <<call, disk, saved>>

\* _plat__GetEntropy with length zero primes the source.  When the host's
\* callback fails the library is told -1, and the source stays as it was; what
\* the library does then is its own affair.
PlatPrimeEntropy ==
  /\ call \in {"manufacture", "init"}
  /\ \/ /\ plat' = [plat EXCEPT !.primed = TRUE]
        /\ lib' = [lib EXCEPT !.primed = TRUE]
     \/ /\ lib' = [lib EXCEPT !.primed = FALSE]
        /\ UNCHANGED plat
  /\ UNCHANGED <<call, disk, saved>>

\* _plat__GetEntropy with any other length, from a source that was never
\* primed: the assert fails, in an extern "C" function.  (From a primed one the
\* block that is kept changes, module Entropy.)
PlatGetEntropyAborts ==
  /\ call \in {"manufacture", "init", "execute"}
  /\ ~plat.primed
  /\ Crash

-----------------------------------------------------------------------------
Host ==
  \/ InitializeCold \/ InitializeFromBlob \/ Reset \/ ResetWithBlob
  \/ SetCancelFlag \/ SetLocality \/ ExecuteCommand
  \/ SaveState \/ RestoreState \/ Drop

Library ==
  \/ ManufactureReturns \/ StartTpmInit \/ TpmInitReturns \/ ExecuteReturns
  \/ PlatNvEnable \/ PlatNvMemoryWrite \/ PlatNvCommit \/ PlatFail
  \/ PlatWasPowerLost \/ PlatPrimeEntropy

Next == Host \/ Library \/ PlatGetEntropyAborts \/ Crash

Spec == Init /\ [][Next]_vars

-----------------------------------------------------------------------------
(* Properties.                                                             *)

Live == plat # NoPlatform

\* Every variable has its type, and only a live platform is called.
TypeOK ==
  /\ plat \in PlatformStates \cup {NoPlatform}
  /\ lib \in LibStates
  /\ call \in Calls
  /\ disk \in Regions \cup {NoCopy}
  /\ saved \in Snapshots \cup {NoCopy}
  /\ call # "none" => Live

\* The SAFETY comments of initialize and reset (mod.rs:177-178, 212):
\* TPM_Manufacture and _TPM_Init run on a region that is enabled, is as long as
\* the library was compiled for, and has a power loss to report, after any
\* history of failed resets, restores, drops and crashes.
TpmInitPrecondition ==
  /\ call \in {"manufacture", "init_enter", "init"} =>
       plat.is_init /\ plat.nv.full
  /\ call \in {"manufacture", "init_enter"} => plat.power_lost

\* Between calls the library and the platform agree: its globals come from the
\* image in the region, it was told of the last power loss and there is none it
\* was not told of.  Restoring a saved state keeps that, because both halves
\* are restored.
Coherent ==
  call \in {"ready", "execute"} =>
    lib.nv = plat.nv.img /\ lib.power = "lost" /\ ~plat.power_lost

\* A power cycle brings the two halves together again, whatever the host
\* restored before it: also after a restore_state whose platform half stayed in
\* force when the library rejected its own (mod.rs:337-344).
PowerCycleHeals == [][call = "init" /\ call' = "ready" => Coherent']_vars

\* A library that was told that its source is primed never meets get_entropy's
\* assert (entropy.rs:63): no reset, rejected blob, restore or new platform
\* loses the block behind its back, in this process or in one that a saved
\* state moves to.  The assert is left to a library that draws after its last
\* priming returned -1, or without one; nothing in the crate keeps it from that.
EntropyPrimed ==
  call \in {"manufacture", "init", "execute"} /\ lib.primed => plat.primed

\* The NV region is as long as the library was compiled for.
\* nvmem.rs:15-19: "The platform's NV region must therefore be exactly this
\* size, and a region of any other size is rejected".
RegionSize == Live => plat.nv.full

\* What a saved state must be like for a restore to be safe: the library takes
\* its half, and the two halves agree as Coherent says.
Restorable(s) ==
  /\ s.accepted /\ s.plat.nv.full
  /\ s.lib.nv = s.plat.nv.img /\ s.lib.power = "lost" /\ ~s.plat.power_lost
  /\ s.lib.primed => s.plat.primed

SavedRestorable == saved # NoCopy => Restorable(saved)

\* Inside _TPM_Init a power loss is pending or was told, and not both.
PowerPending ==
  call = "init" =>
    /\ lib.power = "unasked" => plat.power_lost
    /\ lib.power # "unasked" => lib.power = "lost" /\ ~plat.power_lost

\* The source is primed whenever the library thinks so, outside _TPM_Init's
\* entry, where the library is about to prime it.
PrimedTogether ==
  call \notin {"none", "init_enter"} /\ lib.primed => plat.primed

\* The inductive invariant, for a host whose saved states are all restorable.
IInv == /\ TypeOK /\ TpmInitPrecondition /\ Coherent /\ RegionSize
        /\ SavedRestorable /\ PowerPending /\ PrimedTogether

\* A recorded failure is neither replaced nor forgotten (failure.rs:38) until
\* the next _TPM_Init starts, a saved state is restored, or the platform goes.
FailureSticks ==
  [][Live /\ Live' /\ plat.failure # NoFailure /\ plat'.failure # plat.failure
       => call = "init_enter" \/ RestoreState]_vars

-----------------------------------------------------------------------------
(* Platform implements NvDevice.                                           *)

contentsMap == IF Live THEN plat.nv ELSE NoPlatform
runningMap == call \in InC
savedMap == IF saved = NoCopy THEN NoCopy ELSE saved.plat.nv

D == INSTANCE NvDevice WITH
       Images <- Regions \ {BlankRegion}, Blank <- BlankRegion,
       NoDevice <- NoPlatform, Elsewhere <- {s.plat.nv : s \in Foreign},
       contents <- contentsMap, running <- runningMap,
       durable <- disk, saved <- savedMap

\* The NV memory changes by the library's writes and the host's loads and
\* restores only: a reset, with a good blob, a bad one or none, never loses
\* what was not committed, and what the host persists is always a whole image.
NvDeviceSpec == D!Spec

\* "lost": an initialize that failed left the platform behind.
callMap ==
  CASE ~Live -> "none"
    [] Live /\ call = "none" -> "lost"
    [] Live /\ call \in {"init_enter", "init"} -> "init"
    [] OTHER -> call

S == INSTANCE Session WITH call <- callMap, Crashes <- TRUE

\* The calls come as Session says, the order in which Singleton makes them.
SessionSpec == S!Spec
=============================================================================
