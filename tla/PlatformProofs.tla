---------------------------- MODULE PlatformProofs ----------------------------
(***************************************************************************)
(* Proofs about Platform for any images, failures, localities and blobs.   *)
(* What they assume of the saved states that the host has from elsewhere   *)
(* (Foreign) is stated with each theorem, from the strongest assumption to *)
(* none: GoodStates, the states of another process with this build;        *)
(* FullStates, where the library's half may be rejected; any states.       *)
(***************************************************************************)
EXTENDS Platform, TLAPS

\* The states of elsewhere are like the ones that save_state returns here.
GoodStates == \A s \in Foreign : Restorable(s)

\* They hold an NV region as long as the library was compiled for.
FullStates == \A s \in Foreign : s.plat.nv.full

USE DEF Live, InC, Calls

\* The methods of the platform state return platform states.
LEMMA MethodTypes ==
  /\ NewPlatform \in PlatformStates
  /\ \A p \in PlatformStates :
       /\ NvEnable(p) \in PlatformStates
       /\ SignalPowerOn(p) \in PlatformStates
       /\ SignalPowerOff(p) \in PlatformStates
       /\ ResetFailure(p) \in PlatformStates
       /\ \A f \in Failures : Fail(p, f) \in PlatformStates
       /\ \A b \in Regions : NvEnableFromBlob(p, b) \in PlatformStates
<1>1. BlankRegion \in Regions
  BY DEF BlankRegion, Regions
<1>2. NewPlatform \in PlatformStates
  BY <1>1, PlatformAssumption DEF NewPlatform, PlatformStates
<1>3. ASSUME NEW p \in PlatformStates PROVE NvEnable(p) \in PlatformStates
  BY <1>1 DEF NvEnable, PlatformStates
<1>4. ASSUME NEW p \in PlatformStates PROVE SignalPowerOn(p) \in PlatformStates
  <2>1. [p EXCEPT !.power_lost = TRUE] \in PlatformStates
    BY DEF PlatformStates
  <2> QED
    BY <2>1, <1>3 DEF SignalPowerOn
<1>5. ASSUME NEW p \in PlatformStates
      PROVE  /\ SignalPowerOff(p) \in PlatformStates
             /\ ResetFailure(p) \in PlatformStates
  BY DEF SignalPowerOff, ResetFailure, PlatformStates
<1>6. ASSUME NEW p \in PlatformStates, NEW f \in Failures
      PROVE  Fail(p, f) \in PlatformStates
  BY DEF Fail, PlatformStates
<1>7. ASSUME NEW p \in PlatformStates, NEW b \in Regions
      PROVE  NvEnableFromBlob(p, b) \in PlatformStates
  BY DEF NvEnableFromBlob, PlatformStates
<1> QED
  BY <1>2, <1>3, <1>4, <1>5, <1>6, <1>7

\* What the methods do to the fields the invariant is about.
LEMMA PowerOffFields ==
  ASSUME NEW p \in PlatformStates
  PROVE  /\ SignalPowerOff(p) \in PlatformStates
         /\ SignalPowerOff(p).nv = p.nv
         /\ SignalPowerOff(p).is_init = FALSE
         /\ SignalPowerOff(p).power_lost = p.power_lost
         /\ SignalPowerOff(p).primed = p.primed
BY DEF SignalPowerOff, PlatformStates

LEMMA PowerOnFields ==
  ASSUME NEW p \in PlatformStates
  PROVE  /\ SignalPowerOn(p) \in PlatformStates
         /\ SignalPowerOn(p).is_init = TRUE
         /\ SignalPowerOn(p).power_lost = TRUE
         /\ SignalPowerOn(p).primed = p.primed
         /\ p.is_init => SignalPowerOn(p).nv = p.nv
<1>1. SignalPowerOn(p) \in PlatformStates
  BY MethodTypes
<1>2. /\ SignalPowerOn(p).is_init = TRUE /\ SignalPowerOn(p).power_lost = TRUE
      /\ SignalPowerOn(p).primed = p.primed
      /\ p.is_init => SignalPowerOn(p).nv = p.nv
  BY DEF SignalPowerOn, NvEnable, PlatformStates
<1> QED
  BY <1>1, <1>2

LEMMA BlobFields ==
  ASSUME NEW p \in PlatformStates, NEW b \in Regions
  PROVE  /\ NvEnableFromBlob(p, b) \in PlatformStates
         /\ NvEnableFromBlob(p, b).nv = b
         /\ NvEnableFromBlob(p, b).is_init = TRUE
         /\ NvEnableFromBlob(p, b).primed = p.primed
BY DEF NvEnableFromBlob, PlatformStates

LEMMA EnableFields ==
  ASSUME NEW p \in PlatformStates, p.is_init
  PROVE  NvEnable(p) \in PlatformStates /\ NvEnable(p).nv = p.nv
BY DEF NvEnable, PlatformStates

LEMMA FailFields ==
  ASSUME NEW p \in PlatformStates, NEW f \in Failures
  PROVE  Fail(p, f) \in PlatformStates /\ Fail(p, f).nv = p.nv
BY DEF Fail, PlatformStates

LEMMA ResetFailureFields ==
  ASSUME NEW p \in PlatformStates
  PROVE  ResetFailure(p) \in PlatformStates /\ ResetFailure(p).nv = p.nv
BY DEF ResetFailure, PlatformStates

\* No platform, no saved state, and a library that knows nothing.
LEMMA InitIInv == Init => IInv
<1> SUFFICES ASSUME Init PROVE IInv
  OBVIOUS
<1>1. TypeOK
  BY DEF Init, TypeOK, LibAtStart, LibStates
<1>2. TpmInitPrecondition /\ Coherent /\ RegionSize
  BY DEF Init, TpmInitPrecondition, Coherent, RegionSize
<1>3. SavedRestorable /\ PowerPending /\ PrimedTogether
  BY DEF Init, SavedRestorable, PowerPending, PrimedTogether
<1> QED
  BY <1>1, <1>2, <1>3 DEF IInv

\* InitializeCold: a manufactured platform is enabled, full and powered on.
LEMMA InitializeColdIInv ==
  ASSUME IInv, InitializeCold
  PROVE  IInv'
<1> USE PlatformAssumption, BlobsAssumption, NullAssumption
<1>1. TypeOK'
  <2>1. plat' \in PlatformStates
    BY MethodTypes DEF InitializeCold
  <2>2. lib' \in LibStates
    BY DEF InitializeCold, IInv, TypeOK, LibStates
  <2> QED
    BY <2>1, <2>2 DEF InitializeCold, IInv, TypeOK
<1>2. TpmInitPrecondition' /\ Coherent' /\ RegionSize'
  BY DEF InitializeCold, NewPlatform, BlankRegion, NvEnable, SignalPowerOn,
         IInv, TypeOK, PlatformStates, Regions, LibStates, TpmInitPrecondition,
         Coherent, RegionSize, SavedRestorable, PowerPending, PrimedTogether
<1>3. SavedRestorable' /\ PowerPending' /\ PrimedTogether'
  BY DEF InitializeCold, NewPlatform, BlankRegion, NvEnable, SignalPowerOn,
         IInv, TypeOK, PlatformStates, Regions, LibStates, TpmInitPrecondition,
         Coherent, RegionSize, SavedRestorable, PowerPending, PrimedTogether
<1> QED
  BY <1>1, <1>2, <1>3 DEF IInv

\* InitializeFromBlob: a blob is accepted only at full length.
LEMMA InitializeFromBlobIInv ==
  ASSUME IInv, InitializeFromBlob
  PROVE  IInv'
<1> USE PlatformAssumption, BlobsAssumption, NullAssumption
<1>1. TypeOK'
  <2>1. HostBlobs \subseteq Regions
    BY DEF HostBlobs, IInv, TypeOK
  <2>2. plat' \in PlatformStates
    BY <2>1, MethodTypes DEF InitializeFromBlob
  <2> QED
    BY <2>2 DEF InitializeFromBlob, IInv, TypeOK
<1>2. TpmInitPrecondition' /\ Coherent' /\ RegionSize'
  BY DEF InitializeFromBlob, HostBlobs, BlobFits, NvEnableFromBlob,
         NewPlatform, BlankRegion, NvEnable, SignalPowerOn, IInv, TypeOK,
         PlatformStates, Regions, LibStates, TpmInitPrecondition, Coherent,
         RegionSize, SavedRestorable, PowerPending, PrimedTogether
<1>3. SavedRestorable' /\ PowerPending' /\ PrimedTogether'
  BY DEF InitializeFromBlob, HostBlobs, BlobFits, NvEnableFromBlob,
         NewPlatform, BlankRegion, NvEnable, SignalPowerOn, IInv, TypeOK,
         PlatformStates, Regions, LibStates, TpmInitPrecondition, Coherent,
         RegionSize, SavedRestorable, PowerPending, PrimedTogether
<1> QED
  BY <1>1, <1>2, <1>3 DEF IInv

\* Reset: the region is claimed before the power comes back, so nothing
\* blanks it.
LEMMA ResetIInv ==
  ASSUME IInv, Reset
  PROVE  IInv'
<1> USE PlatformAssumption, BlobsAssumption, NullAssumption
<1>1. plat \in PlatformStates /\ call = "ready" /\ plat.nv.full
  BY DEF Reset, IInv, TypeOK, RegionSize
<1>2. call' = "init_enter" /\ UNCHANGED <<lib, disk, saved>>
  BY DEF Reset
<1> DEFINE claimed == [SignalPowerOff(plat) EXCEPT !.is_init = TRUE]
<1>3. /\ claimed \in PlatformStates /\ claimed.nv = plat.nv
      /\ claimed.is_init = TRUE /\ claimed.primed = plat.primed
  BY <1>1 DEF SignalPowerOff, PlatformStates
<1>4. plat' = SignalPowerOn(claimed)
  BY DEF Reset
<1> HIDE DEF claimed
<1>5. /\ plat' \in PlatformStates /\ plat'.nv = plat.nv /\ plat'.is_init
      /\ plat'.power_lost /\ plat'.primed = plat.primed
  BY <1>3, <1>4, PowerOnFields
<1>6. TypeOK'
  BY <1>2, <1>5 DEF IInv, TypeOK
<1>7. TpmInitPrecondition' /\ Coherent' /\ RegionSize'
  BY <1>1, <1>2, <1>5 DEF TpmInitPrecondition, Coherent, RegionSize
<1>8. SavedRestorable' /\ PowerPending' /\ PrimedTogether'
  BY <1>2 DEF IInv, SavedRestorable, PowerPending, PrimedTogether
<1> QED
  BY <1>6, <1>7, <1>8 DEF IInv

\* ResetWithBlob: a rejected blob leaves all but is_init alone.
LEMMA ResetWithBlobIInv ==
  ASSUME IInv, ResetWithBlob
  PROVE  IInv'
<1> USE PlatformAssumption, BlobsAssumption, NullAssumption
<1>1. /\ HostBlobs \subseteq Regions /\ plat \in PlatformStates
      /\ call = "ready" /\ plat.nv.full
  BY DEF ResetWithBlob, HostBlobs, IInv, TypeOK, RegionSize
<1>2. UNCHANGED <<lib, disk, saved>>
  BY DEF ResetWithBlob
<1> DEFINE off == SignalPowerOff(plat)
<1>3. /\ off \in PlatformStates /\ off.nv = plat.nv /\ off.primed = plat.primed
      /\ off.power_lost = plat.power_lost
  BY <1>1, PowerOffFields
<1>4. PICK b \in HostBlobs :
         \/ /\ b.full /\ plat' = SignalPowerOn(NvEnableFromBlob(off, b))
            /\ call' = "init_enter"
         \/ plat' = off /\ call' = call
  BY DEF ResetWithBlob, BlobFits
<1>5. CASE /\ b.full /\ plat' = SignalPowerOn(NvEnableFromBlob(off, b))
           /\ call' = "init_enter"
  <2> DEFINE loaded == NvEnableFromBlob(off, b)
  <2> HIDE DEF off
  <2>1. /\ loaded \in PlatformStates /\ loaded.nv = b /\ loaded.is_init = TRUE
        /\ loaded.primed = plat.primed
    <3>1. b \in Regions
      BY <1>1
    <3> QED
      BY <1>3, <3>1, BlobFields
  <2>2. plat' = SignalPowerOn(loaded)
    BY <1>5
  <2> HIDE DEF loaded
  <2>3. /\ plat' \in PlatformStates /\ plat'.nv = b /\ plat'.is_init
        /\ plat'.power_lost /\ plat'.primed = plat.primed
    BY <2>1, <2>2, PowerOnFields
  <2>4. TypeOK'
    BY <1>2, <1>5, <2>3 DEF IInv, TypeOK
  <2>5. TpmInitPrecondition' /\ Coherent' /\ RegionSize'
    BY <1>5, <2>3 DEF TpmInitPrecondition, Coherent, RegionSize
  <2>6. SavedRestorable' /\ PowerPending' /\ PrimedTogether'
    BY <1>2, <1>5 DEF IInv, SavedRestorable, PowerPending, PrimedTogether
  <2> QED
    BY <2>4, <2>5, <2>6 DEF IInv
<1>6. CASE plat' = off /\ call' = call
  <2>1. /\ plat' \in PlatformStates /\ plat'.nv = plat.nv
        /\ plat'.power_lost = plat.power_lost /\ plat'.primed = plat.primed
    BY <1>3, <1>6
  <2>2. TypeOK'
    BY <1>1, <1>2, <1>6, <2>1 DEF IInv, TypeOK
  <2>3. TpmInitPrecondition' /\ Coherent' /\ RegionSize'
    BY <1>1, <1>2, <1>6, <2>1
       DEF IInv, TpmInitPrecondition, Coherent, RegionSize
  <2>4. SavedRestorable' /\ PowerPending' /\ PrimedTogether'
    BY <1>1, <1>2, <1>6, <2>1
       DEF IInv, SavedRestorable, PowerPending, PrimedTogether
  <2> QED
    BY <2>2, <2>3, <2>4 DEF IInv
<1> QED
  BY <1>4, <1>5, <1>6

\* SetCancelFlag preserves the invariant.
LEMMA SetCancelFlagIInv ==
  ASSUME IInv, SetCancelFlag
  PROVE  IInv'
<1> USE PlatformAssumption, BlobsAssumption, NullAssumption
<1>1. TypeOK'
  BY DEF SetCancelFlag, IInv, TypeOK, PlatformStates, Regions, LibStates
<1>2. TpmInitPrecondition' /\ Coherent' /\ RegionSize'
  BY DEF SetCancelFlag, IInv, TypeOK, PlatformStates, Regions, LibStates,
         TpmInitPrecondition, Coherent, RegionSize, SavedRestorable,
         PowerPending, PrimedTogether
<1>3. SavedRestorable' /\ PowerPending' /\ PrimedTogether'
  BY DEF SetCancelFlag, IInv, TypeOK, PlatformStates, Regions, LibStates,
         TpmInitPrecondition, Coherent, RegionSize, SavedRestorable,
         PowerPending, PrimedTogether
<1> QED
  BY <1>1, <1>2, <1>3 DEF IInv

\* SetLocality preserves the invariant.
LEMMA SetLocalityIInv ==
  ASSUME IInv, SetLocality
  PROVE  IInv'
<1> USE PlatformAssumption, BlobsAssumption, NullAssumption
<1>1. TypeOK'
  BY DEF SetLocality, IInv, TypeOK, PlatformStates, Regions, LibStates
<1>2. TpmInitPrecondition' /\ Coherent' /\ RegionSize'
  BY DEF SetLocality, IInv, TypeOK, PlatformStates, Regions, LibStates,
         TpmInitPrecondition, Coherent, RegionSize, SavedRestorable,
         PowerPending, PrimedTogether
<1>3. SavedRestorable' /\ PowerPending' /\ PrimedTogether'
  BY DEF SetLocality, IInv, TypeOK, PlatformStates, Regions, LibStates,
         TpmInitPrecondition, Coherent, RegionSize, SavedRestorable,
         PowerPending, PrimedTogether
<1> QED
  BY <1>1, <1>2, <1>3 DEF IInv

\* ExecuteCommand preserves the invariant.
LEMMA ExecuteCommandIInv ==
  ASSUME IInv, ExecuteCommand
  PROVE  IInv'
<1> USE PlatformAssumption, BlobsAssumption, NullAssumption
<1>1. TypeOK'
  BY DEF ExecuteCommand, IInv, TypeOK, PlatformStates, Regions, LibStates
<1>2. TpmInitPrecondition' /\ Coherent' /\ RegionSize'
  BY DEF ExecuteCommand, IInv, TypeOK, PlatformStates, Regions, LibStates,
         TpmInitPrecondition, Coherent, RegionSize, SavedRestorable,
         PowerPending, PrimedTogether
<1>3. SavedRestorable' /\ PowerPending' /\ PrimedTogether'
  BY DEF ExecuteCommand, IInv, TypeOK, PlatformStates, Regions, LibStates,
         TpmInitPrecondition, Coherent, RegionSize, SavedRestorable,
         PowerPending, PrimedTogether
<1> QED
  BY <1>1, <1>2, <1>3 DEF IInv

\* SaveState: between calls platform and library agree, so their copy does.
LEMMA SaveStateIInv ==
  ASSUME IInv, SaveState
  PROVE  IInv'
<1> USE PlatformAssumption, BlobsAssumption, NullAssumption
<1>1. TypeOK'
  BY DEF SaveState, Snapshots, IInv, TypeOK, PlatformStates, Regions, LibStates
<1>2. TpmInitPrecondition' /\ Coherent' /\ RegionSize'
  BY DEF SaveState, Snapshots, IInv, TypeOK, PlatformStates, Regions,
         LibStates, TpmInitPrecondition, Coherent, RegionSize, SavedRestorable,
         PowerPending, PrimedTogether
<1>3. SavedRestorable' /\ PowerPending' /\ PrimedTogether'
  BY DEF SaveState, Snapshots, IInv, TypeOK, PlatformStates, Regions,
         LibStates, TpmInitPrecondition, Coherent, RegionSize, SavedRestorable,
         Restorable, PowerPending, PrimedTogether
<1> QED
  BY <1>1, <1>2, <1>3 DEF IInv

\* RestoreState: the two halves of a saved state agree with each other.
LEMMA RestoreStateIInv ==
  ASSUME GoodStates, IInv, RestoreState
  PROVE  IInv'
<1>1. PICK s \in HostSnapshots : ApplyRuntimeState(s)
  BY DEF RestoreState
<1>2. s \in Snapshots /\ Restorable(s)
  BY <1>1, ForeignAssumption
     DEF HostSnapshots, IInv, TypeOK, SavedRestorable, GoodStates
<1>3. call = "ready" /\ UNCHANGED <<call, disk, saved>>
  BY DEF RestoreState
<1>4. s.plat \in PlatformStates /\ s.lib \in LibStates
  BY <1>2 DEF Snapshots
<1>5. /\ lib' = s.lib
      /\ plat' = s.plat \/ \E f \in Failures : plat' = Fail(s.plat, f)
  BY <1>1, <1>2 DEF ApplyRuntimeState, Restorable
<1>6. /\ plat' \in PlatformStates /\ plat'.nv = s.plat.nv
      /\ plat'.power_lost = s.plat.power_lost /\ plat'.primed = s.plat.primed
  BY <1>4, <1>5 DEF Fail, PlatformStates
<1>7. TypeOK'
  BY <1>3, <1>4, <1>5, <1>6, NullAssumption DEF IInv, TypeOK
<1>8. TpmInitPrecondition' /\ Coherent' /\ RegionSize'
  BY <1>2, <1>3, <1>5, <1>6
     DEF Restorable, TpmInitPrecondition, Coherent, RegionSize
<1>9. PowerPending' /\ PrimedTogether'
  BY <1>2, <1>3, <1>5, <1>6 DEF Restorable, PowerPending, PrimedTogether
<1>10. SavedRestorable'
  BY <1>3 DEF IInv, SavedRestorable
<1> QED
  BY <1>7, <1>8, <1>9, <1>10 DEF IInv

\* Drop preserves the invariant.
LEMMA DropIInv ==
  ASSUME IInv, Drop
  PROVE  IInv'
<1> USE PlatformAssumption, BlobsAssumption, NullAssumption
<1>1. TypeOK'
  BY DEF Drop, IInv, TypeOK, PlatformStates, Regions, LibStates
<1>2. TpmInitPrecondition' /\ Coherent' /\ RegionSize'
  BY DEF Drop, IInv, TypeOK, PlatformStates, Regions, LibStates,
         TpmInitPrecondition, Coherent, RegionSize, SavedRestorable,
         PowerPending, PrimedTogether
<1>3. SavedRestorable' /\ PowerPending' /\ PrimedTogether'
  BY DEF Drop, IInv, TypeOK, PlatformStates, Regions, LibStates,
         TpmInitPrecondition, Coherent, RegionSize, SavedRestorable,
         PowerPending, PrimedTogether
<1> QED
  BY <1>1, <1>2, <1>3 DEF IInv

\* Crash preserves the invariant.
LEMMA CrashIInv ==
  ASSUME IInv, Crash
  PROVE  IInv'
<1> USE PlatformAssumption, BlobsAssumption, NullAssumption
<1>1. TypeOK'
  BY DEF Crash, LibAtStart, IInv, TypeOK, PlatformStates, Regions, LibStates
<1>2. TpmInitPrecondition' /\ Coherent' /\ RegionSize'
  BY DEF Crash, LibAtStart, IInv, TypeOK, PlatformStates, Regions, LibStates,
         TpmInitPrecondition, Coherent, RegionSize, SavedRestorable,
         PowerPending, PrimedTogether
<1>3. SavedRestorable' /\ PowerPending' /\ PrimedTogether'
  BY DEF Crash, LibAtStart, IInv, TypeOK, PlatformStates, Regions, LibStates,
         TpmInitPrecondition, Coherent, RegionSize, SavedRestorable,
         PowerPending, PrimedTogether
<1> QED
  BY <1>1, <1>2, <1>3 DEF IInv

\* ManufactureReturns preserves the invariant.
LEMMA ManufactureReturnsIInv ==
  ASSUME IInv, ManufactureReturns
  PROVE  IInv'
<1> USE PlatformAssumption, BlobsAssumption, NullAssumption
<1>1. TypeOK'
  BY DEF ManufactureReturns, IInv, TypeOK, PlatformStates, Regions, LibStates
<1>2. TpmInitPrecondition' /\ Coherent' /\ RegionSize'
  BY DEF ManufactureReturns, IInv, TypeOK, PlatformStates, Regions, LibStates,
         TpmInitPrecondition, Coherent, RegionSize, SavedRestorable,
         PowerPending, PrimedTogether
<1>3. SavedRestorable' /\ PowerPending' /\ PrimedTogether'
  BY DEF ManufactureReturns, IInv, TypeOK, PlatformStates, Regions, LibStates,
         TpmInitPrecondition, Coherent, RegionSize, SavedRestorable,
         PowerPending, PrimedTogether
<1> QED
  BY <1>1, <1>2, <1>3 DEF IInv

\* StartTpmInit preserves the invariant.
LEMMA StartTpmInitIInv ==
  ASSUME IInv, StartTpmInit
  PROVE  IInv'
<1> USE PlatformAssumption, BlobsAssumption, NullAssumption
<1>1. /\ plat \in PlatformStates /\ lib \in LibStates /\ call = "init_enter"
      /\ plat.is_init /\ plat.nv.full /\ plat.power_lost
  BY DEF StartTpmInit, IInv, TypeOK, TpmInitPrecondition
<1>2. /\ plat' \in PlatformStates /\ plat'.nv = plat.nv
      /\ plat'.is_init = plat.is_init /\ plat'.power_lost = plat.power_lost
  BY <1>1 DEF StartTpmInit, ResetFailure, PlatformStates
<1>3. lib' \in LibStates /\ lib'.power = "unasked" /\ lib'.primed = FALSE
  BY <1>1 DEF StartTpmInit, LibStates
<1>4. call' = "init" /\ UNCHANGED <<disk, saved>>
  BY DEF StartTpmInit
<1>5. TypeOK'
  BY <1>2, <1>3, <1>4 DEF IInv, TypeOK
<1>6. TpmInitPrecondition' /\ Coherent' /\ RegionSize'
  BY <1>1, <1>2, <1>4 DEF TpmInitPrecondition, Coherent, RegionSize
<1>7. SavedRestorable' /\ PowerPending' /\ PrimedTogether'
  BY <1>1, <1>2, <1>3, <1>4
     DEF IInv, SavedRestorable, PowerPending, PrimedTogether
<1> QED
  BY <1>5, <1>6, <1>7 DEF IInv

\* TpmInitReturns: the library was told of the power loss and computes its
\* globals from the region.
LEMMA TpmInitReturnsIInv ==
  ASSUME IInv, TpmInitReturns
  PROVE  IInv'
<1> USE PlatformAssumption, BlobsAssumption, NullAssumption
<1>1. TypeOK'
  BY DEF TpmInitReturns, IInv, TypeOK, PlatformStates, Regions, LibStates
<1>2. TpmInitPrecondition' /\ Coherent' /\ RegionSize'
  BY DEF TpmInitReturns, IInv, TypeOK, PlatformStates, Regions, LibStates,
         TpmInitPrecondition, Coherent, RegionSize, SavedRestorable,
         PowerPending, PrimedTogether
<1>3. SavedRestorable' /\ PowerPending' /\ PrimedTogether'
  BY DEF TpmInitReturns, IInv, TypeOK, PlatformStates, Regions, LibStates,
         TpmInitPrecondition, Coherent, RegionSize, SavedRestorable,
         PowerPending, PrimedTogether
<1> QED
  BY <1>1, <1>2, <1>3 DEF IInv

\* ExecuteReturns preserves the invariant.
LEMMA ExecuteReturnsIInv ==
  ASSUME IInv, ExecuteReturns
  PROVE  IInv'
<1> USE PlatformAssumption, BlobsAssumption, NullAssumption
<1>1. TypeOK'
  BY DEF ExecuteReturns, IInv, TypeOK, PlatformStates, Regions, LibStates
<1>2. TpmInitPrecondition' /\ Coherent' /\ RegionSize'
  BY DEF ExecuteReturns, IInv, TypeOK, PlatformStates, Regions, LibStates,
         TpmInitPrecondition, Coherent, RegionSize, SavedRestorable,
         PowerPending, PrimedTogether
<1>3. SavedRestorable' /\ PowerPending' /\ PrimedTogether'
  BY DEF ExecuteReturns, IInv, TypeOK, PlatformStates, Regions, LibStates,
         TpmInitPrecondition, Coherent, RegionSize, SavedRestorable,
         PowerPending, PrimedTogether
<1> QED
  BY <1>1, <1>2, <1>3 DEF IInv

\* PlatNvEnable preserves the invariant.
LEMMA PlatNvEnableIInv ==
  ASSUME IInv, PlatNvEnable
  PROVE  IInv'
<1> USE PlatformAssumption, BlobsAssumption, NullAssumption
<1>1. TypeOK'
  <2>1. plat \in PlatformStates
    BY DEF PlatNvEnable, IInv, TypeOK
  <2> QED
    BY <2>1, MethodTypes DEF PlatNvEnable, IInv, TypeOK
<1>2. TpmInitPrecondition' /\ Coherent' /\ RegionSize'
  BY DEF PlatNvEnable, NvEnable, BlankRegion, IInv, TypeOK, PlatformStates,
         Regions, LibStates, TpmInitPrecondition, Coherent, RegionSize,
         SavedRestorable, PowerPending, PrimedTogether
<1>3. SavedRestorable' /\ PowerPending' /\ PrimedTogether'
  BY DEF PlatNvEnable, NvEnable, BlankRegion, IInv, TypeOK, PlatformStates,
         Regions, LibStates, TpmInitPrecondition, Coherent, RegionSize,
         SavedRestorable, PowerPending, PrimedTogether
<1> QED
  BY <1>1, <1>2, <1>3 DEF IInv

\* PlatNvMemoryWrite preserves the invariant.
LEMMA PlatNvMemoryWriteIInv ==
  ASSUME IInv, PlatNvMemoryWrite
  PROVE  IInv'
<1> USE PlatformAssumption, BlobsAssumption, NullAssumption
<1>1. TypeOK'
  <2>1. PICK i \in Images : /\ plat' = [plat EXCEPT !.nv.img = i]
                            /\ lib' = [lib EXCEPT !.nv = i]
    BY DEF PlatNvMemoryWrite
  <2>2. plat \in PlatformStates /\ [plat.nv EXCEPT !.img = i] \in Regions
    BY DEF PlatNvMemoryWrite, IInv, TypeOK, PlatformStates, Regions
  <2>3. plat' = [plat EXCEPT !.nv = [plat.nv EXCEPT !.img = i]]
    BY <2>1, <2>2 DEF PlatformStates
  <2>4. plat' \in PlatformStates
    BY <2>2, <2>3 DEF PlatformStates
  <2>5. lib' \in LibStates
    BY <2>1 DEF IInv, TypeOK, LibStates
  <2> QED
    BY <2>4, <2>5 DEF PlatNvMemoryWrite, IInv, TypeOK
<1>2. TpmInitPrecondition' /\ Coherent' /\ RegionSize'
  BY DEF PlatNvMemoryWrite, IInv, TypeOK, PlatformStates, Regions, LibStates,
         TpmInitPrecondition, Coherent, RegionSize, SavedRestorable,
         PowerPending, PrimedTogether
<1>3. SavedRestorable' /\ PowerPending' /\ PrimedTogether'
  BY DEF PlatNvMemoryWrite, IInv, TypeOK, PlatformStates, Regions, LibStates,
         TpmInitPrecondition, Coherent, RegionSize, SavedRestorable,
         PowerPending, PrimedTogether
<1> QED
  BY <1>1, <1>2, <1>3 DEF IInv

\* PlatNvCommit preserves the invariant.
LEMMA PlatNvCommitIInv ==
  ASSUME IInv, PlatNvCommit
  PROVE  IInv'
<1> USE PlatformAssumption, BlobsAssumption, NullAssumption
<1>1. TypeOK'
  BY DEF PlatNvCommit, IInv, TypeOK, PlatformStates, Regions, LibStates
<1>2. TpmInitPrecondition' /\ Coherent' /\ RegionSize'
  BY DEF PlatNvCommit, IInv, TypeOK, PlatformStates, Regions, LibStates,
         TpmInitPrecondition, Coherent, RegionSize, SavedRestorable,
         PowerPending, PrimedTogether
<1>3. SavedRestorable' /\ PowerPending' /\ PrimedTogether'
  BY DEF PlatNvCommit, IInv, TypeOK, PlatformStates, Regions, LibStates,
         TpmInitPrecondition, Coherent, RegionSize, SavedRestorable,
         PowerPending, PrimedTogether
<1> QED
  BY <1>1, <1>2, <1>3 DEF IInv

\* PlatFail preserves the invariant.
LEMMA PlatFailIInv ==
  ASSUME IInv, PlatFail
  PROVE  IInv'
<1> USE PlatformAssumption, BlobsAssumption, NullAssumption
<1>1. TypeOK'
  BY DEF PlatFail, Fail, IInv, TypeOK, PlatformStates, Regions, LibStates
<1>2. TpmInitPrecondition' /\ Coherent' /\ RegionSize'
  BY DEF PlatFail, Fail, IInv, TypeOK, PlatformStates, Regions, LibStates,
         TpmInitPrecondition, Coherent, RegionSize, SavedRestorable,
         PowerPending, PrimedTogether
<1>3. SavedRestorable' /\ PowerPending' /\ PrimedTogether'
  BY DEF PlatFail, Fail, IInv, TypeOK, PlatformStates, Regions, LibStates,
         TpmInitPrecondition, Coherent, RegionSize, SavedRestorable,
         PowerPending, PrimedTogether
<1> QED
  BY <1>1, <1>2, <1>3 DEF IInv

\* PlatWasPowerLost preserves the invariant.
LEMMA PlatWasPowerLostIInv ==
  ASSUME IInv, PlatWasPowerLost
  PROVE  IInv'
<1> USE PlatformAssumption, BlobsAssumption, NullAssumption
<1>1. /\ plat \in PlatformStates /\ lib \in LibStates /\ call = "init"
      /\ plat.is_init /\ plat.nv.full
  BY DEF PlatWasPowerLost, IInv, TypeOK, TpmInitPrecondition
<1>2. /\ plat' \in PlatformStates /\ plat'.nv = plat.nv
      /\ plat'.is_init = plat.is_init /\ ~plat'.power_lost
      /\ plat'.primed = plat.primed
  BY <1>1 DEF PlatWasPowerLost, PlatformStates
<1>3. lib' \in LibStates /\ lib'.primed = lib.primed
  BY <1>1 DEF PlatWasPowerLost, LibStates
<1>4. lib'.power = "lost"
  <2>1. lib'.power = IF plat.power_lost THEN "lost"
                     ELSE IF lib.power = "unasked" THEN "kept" ELSE lib.power
    BY <1>1 DEF PlatWasPowerLost, LibStates
  <2> QED
    BY <1>1, <2>1 DEF IInv, PowerPending
<1>5. call' = call /\ UNCHANGED <<disk, saved>>
  BY DEF PlatWasPowerLost
<1>6. TypeOK'
  BY <1>2, <1>3, <1>5 DEF IInv, TypeOK
<1>7. TpmInitPrecondition' /\ Coherent' /\ RegionSize'
  BY <1>1, <1>2, <1>5 DEF TpmInitPrecondition, Coherent, RegionSize
<1>8. SavedRestorable' /\ PowerPending' /\ PrimedTogether'
  BY <1>1, <1>2, <1>3, <1>4, <1>5
     DEF IInv, SavedRestorable, PowerPending, PrimedTogether
<1> QED
  BY <1>6, <1>7, <1>8 DEF IInv

\* PlatPrimeEntropy preserves the invariant.
LEMMA PlatPrimeEntropyIInv ==
  ASSUME IInv, PlatPrimeEntropy
  PROVE  IInv'
<1> USE PlatformAssumption, BlobsAssumption, NullAssumption
<1>1. /\ plat \in PlatformStates /\ lib \in LibStates
      /\ call \in {"manufacture", "init"}
  BY DEF PlatPrimeEntropy, IInv, TypeOK
<1>2. /\ plat' \in PlatformStates /\ plat'.nv = plat.nv
      /\ plat'.is_init = plat.is_init /\ plat'.power_lost = plat.power_lost
      /\ lib'.primed => plat'.primed
  BY <1>1 DEF PlatPrimeEntropy, PlatformStates, LibStates
<1>3. lib' \in LibStates /\ lib'.power = lib.power
  BY <1>1 DEF PlatPrimeEntropy, LibStates
<1>4. call' = call /\ UNCHANGED <<disk, saved>>
  BY DEF PlatPrimeEntropy
<1>5. TypeOK'
  BY <1>2, <1>3, <1>4 DEF IInv, TypeOK
<1>6. TpmInitPrecondition' /\ Coherent' /\ RegionSize'
  BY <1>1, <1>2, <1>4 DEF IInv, TpmInitPrecondition, Coherent, RegionSize
<1>7. SavedRestorable' /\ PowerPending' /\ PrimedTogether'
  BY <1>1, <1>2, <1>3, <1>4
     DEF IInv, SavedRestorable, PowerPending, PrimedTogether
<1> QED
  BY <1>5, <1>6, <1>7 DEF IInv

-----------------------------------------------------------------------------
\* Every step preserves the inductive invariant.
LEMMA NextIInv ==
  ASSUME GoodStates, IInv, [Next]_vars
  PROVE  IInv'
<1>1. CASE Host
  BY <1>1, InitializeColdIInv, InitializeFromBlobIInv, ResetIInv,
     ResetWithBlobIInv, SetCancelFlagIInv, SetLocalityIInv, ExecuteCommandIInv,
     SaveStateIInv, RestoreStateIInv, DropIInv
     DEF Host
<1>2. CASE Library
  BY <1>2, ManufactureReturnsIInv, StartTpmInitIInv, TpmInitReturnsIInv,
     ExecuteReturnsIInv, PlatNvEnableIInv, PlatNvMemoryWriteIInv,
     PlatNvCommitIInv, PlatFailIInv, PlatWasPowerLostIInv, PlatPrimeEntropyIInv
     DEF Library
<1>3. CASE Crash
  BY <1>3, CrashIInv
<1>4. CASE UNCHANGED vars
  BY <1>4
     DEF vars, IInv, TypeOK, TpmInitPrecondition, Coherent, RegionSize,
         SavedRestorable, PowerPending, PrimedTogether
<1> QED
  BY <1>1, <1>2, <1>3, <1>4 DEF Next, PlatGetEntropyAborts

\* The inductive invariant holds of every reachable state.
THEOREM Invariant ==
  ASSUME GoodStates
  PROVE  Spec => []IInv
<1>1. IInv /\ [Next]_vars => IInv'
  BY NextIInv
<1> QED
  BY <1>1, InitIInv, PTL DEF Spec

\* Between calls the library's globals and the platform agree.
THEOREM AlwaysCoherent ==
  ASSUME GoodStates
  PROVE  Spec => []Coherent
<1>1. IInv => Coherent
  BY DEF IInv
<1> QED
  BY <1>1, Invariant, PTL

\* get_entropy's assert aborts no process whose library was told, by its last
\* priming, that the source is primed; what a library does that was told -1 is
\* not assumed.
THEOREM EntropyPrimedAsTold ==
  ASSUME GoodStates
  PROVE  Spec => /\ []EntropyPrimed
                 /\ [][PlatGetEntropyAborts => ~lib.primed]_vars
<1>1. IInv => EntropyPrimed
  BY DEF IInv, PrimedTogether, EntropyPrimed
<1>2. EntropyPrimed /\ [Next]_vars
        => [PlatGetEntropyAborts => ~lib.primed]_vars
  BY DEF EntropyPrimed, PlatGetEntropyAborts
<1> QED
  BY <1>1, <1>2, Invariant, PTL DEF Spec

-----------------------------------------------------------------------------
(* What holds whatever states the host restores, those of other builds     *)
(* included: the types, that _TPM_Init runs on an enabled region, and the  *)
(* agreement about power inside it.                                        *)

PowerInv ==
  /\ TypeOK
  /\ PowerPending
  /\ call \in {"manufacture", "init_enter", "init"} => plat.is_init
  /\ call \in {"manufacture", "init_enter"} => plat.power_lost

\* Power on leaves an enabled region and a power loss to report; enabling the
\* region and a failure lose neither.
LEMMA MethodPower ==
  ASSUME NEW p \in PlatformStates
  PROVE  /\ SignalPowerOn(p).is_init /\ SignalPowerOn(p).power_lost
         /\ NvEnable(p).is_init /\ NvEnable(p).power_lost = p.power_lost
         /\ \A f \in Failures : /\ Fail(p, f).is_init = p.is_init
                                 /\ Fail(p, f).power_lost = p.power_lost
<1>1. NvEnable(p).is_init /\ NvEnable(p).power_lost = p.power_lost
  BY DEF NvEnable, PlatformStates
<1>2. SignalPowerOn(p).is_init /\ SignalPowerOn(p).power_lost
  BY DEF SignalPowerOn, NvEnable, PlatformStates
<1>3. ASSUME NEW f \in Failures
      PROVE  /\ Fail(p, f).is_init = p.is_init
             /\ Fail(p, f).power_lost = p.power_lost
  BY DEF Fail, PlatformStates
<1> QED
  BY <1>1, <1>2, <1>3

\* The host's calls that end in the C library leave a power loss to report,
\* the others stay out of it.
LEMMA HostPower ==
  ASSUME PowerInv, Host
  PROVE  PowerInv'
<1> USE PlatformAssumption, BlobsAssumption, NullAssumption
    DEF PowerInv, TypeOK
<1>1. CASE InitializeCold
  <2>1. plat' \in PlatformStates /\ plat'.is_init /\ plat'.power_lost
    BY <1>1, MethodTypes, MethodPower DEF InitializeCold
  <2>2. lib' \in LibStates
    BY <1>1 DEF InitializeCold, LibStates
  <2> QED
    BY <1>1, <2>1, <2>2 DEF InitializeCold, PowerPending
<1>2. CASE InitializeFromBlob
  <2>1. PICK b \in Regions :
          plat' = SignalPowerOn(NvEnableFromBlob(NewPlatform, b))
    BY <1>2 DEF InitializeFromBlob, HostBlobs
  <2>2. plat' \in PlatformStates /\ plat'.is_init /\ plat'.power_lost
    BY <2>1, MethodTypes, MethodPower
  <2> QED
    BY <1>2, <2>2 DEF InitializeFromBlob, PowerPending
<1>3. CASE Reset
  <2>1. plat' \in PlatformStates /\ plat'.is_init /\ plat'.power_lost
    BY <1>3
       DEF Reset, SignalPowerOn, SignalPowerOff, NvEnable, PlatformStates
  <2> QED
    BY <1>3, <2>1 DEF Reset, PowerPending
<1>4. CASE ResetWithBlob
  <2>1. PICK b \in Regions :
          \/ /\ plat' = SignalPowerOn(NvEnableFromBlob(SignalPowerOff(plat), b))
             /\ call' = "init_enter"
          \/ plat' = SignalPowerOff(plat) /\ UNCHANGED call
    BY <1>4 DEF ResetWithBlob, HostBlobs
  <2>2. call = "ready" /\ UNCHANGED <<lib, disk, saved>>
    BY <1>4 DEF ResetWithBlob
  <2>3. SignalPowerOff(plat) \in PlatformStates
    BY <2>2, MethodTypes
  <2>4. CASE plat' = SignalPowerOff(plat) /\ UNCHANGED call
    BY <2>2, <2>3, <2>4 DEF PowerPending
  <2>5. CASE /\ plat' = SignalPowerOn(NvEnableFromBlob(SignalPowerOff(plat), b))
             /\ call' = "init_enter"
    <3>1. plat' \in PlatformStates /\ plat'.is_init /\ plat'.power_lost
      BY <2>3, <2>5, MethodTypes, MethodPower
    <3> QED
      BY <2>2, <2>5, <3>1 DEF PowerPending
  <2> QED
    BY <2>1, <2>4, <2>5
<1>5. CASE SetCancelFlag \/ SetLocality
  <2>1. plat' \in PlatformStates
    BY <1>5 DEF SetCancelFlag, SetLocality, PlatformStates
  <2> QED
    BY <1>5, <2>1 DEF SetCancelFlag, SetLocality, PowerPending
<1>6. CASE ExecuteCommand
  BY <1>6 DEF ExecuteCommand, PowerPending
<1>7. CASE SaveState
  BY <1>7 DEF SaveState, Snapshots, PowerPending
<1>8. CASE RestoreState
  <2>1. HostSnapshots \subseteq Snapshots
    BY ForeignAssumption DEF HostSnapshots
  <2>2. plat' \in PlatformStates /\ lib' \in LibStates
    BY <1>8, <2>1, MethodTypes DEF RestoreState, ApplyRuntimeState, Snapshots
  <2> QED
    BY <1>8, <2>2 DEF RestoreState, PowerPending
<1>9. CASE Drop
  BY <1>9 DEF Drop, PowerPending
<1> QED
  BY <1>1, <1>2, <1>3, <1>4, <1>5, <1>6, <1>7, <1>8, <1>9 DEF Host

\* Inside the library a power loss is told once, and only _TPM_Init asks.
LEMMA LibraryPower ==
  ASSUME PowerInv, Library
  PROVE  PowerInv'
<1> USE PlatformAssumption, NullAssumption DEF PowerInv, TypeOK
<1>1. plat \in PlatformStates
  BY DEF Library, ManufactureReturns, StartTpmInit, TpmInitReturns,
         ExecuteReturns, PlatNvEnable, PlatNvMemoryWrite, PlatNvCommit,
         PlatFail, PlatWasPowerLost, PlatPrimeEntropy
<1>2. CASE ManufactureReturns \/ ExecuteReturns
  BY <1>2 DEF ManufactureReturns, ExecuteReturns, PowerPending
<1>3. CASE StartTpmInit
  <2>1. /\ plat' \in PlatformStates /\ plat'.is_init /\ plat'.power_lost
        /\ lib' \in LibStates /\ lib'.power = "unasked"
    BY <1>1, <1>3 DEF StartTpmInit, ResetFailure, PlatformStates, LibStates
  <2> QED
    BY <1>3, <2>1 DEF StartTpmInit, PowerPending
<1>4. CASE TpmInitReturns
  <2>1. plat.nv.img \in Images \cup {Blank}
    BY <1>1 DEF PlatformStates, Regions
  <2> QED
    BY <1>4, <2>1 DEF TpmInitReturns, LibStates, PowerPending
<1>5. CASE PlatNvEnable \/ PlatFail
  <2>1. plat' \in PlatformStates
    BY <1>1, <1>5, MethodTypes DEF PlatNvEnable, PlatFail
  <2>2. /\ plat'.power_lost = plat.power_lost
        /\ plat.is_init => plat'.is_init
    BY <1>1, <1>5, MethodPower DEF PlatNvEnable, PlatFail
  <2> QED
    BY <1>5, <2>1, <2>2 DEF PlatNvEnable, PlatFail, PowerPending
<1>6. CASE PlatNvMemoryWrite
  <2>1. PICK i \in Images : /\ plat' = [plat EXCEPT !.nv.img = i]
                            /\ lib' = [lib EXCEPT !.nv = i]
    BY <1>6 DEF PlatNvMemoryWrite
  <2>2. /\ plat' \in PlatformStates /\ plat'.power_lost = plat.power_lost
        /\ plat.is_init => plat'.is_init
        /\ lib' \in LibStates /\ lib'.power = lib.power
    BY <1>1, <2>1 DEF PlatformStates, Regions, LibStates
  <2> QED
    BY <1>6, <2>2 DEF PlatNvMemoryWrite, PowerPending
<1>7. CASE PlatNvCommit
  BY <1>1, <1>7 DEF PlatNvCommit, PlatformStates, PowerPending
<1>8. CASE PlatWasPowerLost
  BY <1>1, <1>8
     DEF PlatWasPowerLost, PlatformStates, LibStates, PowerPending
<1>9. CASE PlatPrimeEntropy
  <2>1. /\ plat' \in PlatformStates /\ plat'.power_lost = plat.power_lost
        /\ plat'.is_init = plat.is_init /\ plat'.nv = plat.nv
    BY <1>1, <1>9 DEF PlatPrimeEntropy, PlatformStates
  <2>2. lib' \in LibStates /\ lib'.power = lib.power
    BY <1>9 DEF PlatPrimeEntropy, LibStates
  <2> QED
    BY <1>1, <1>9, <2>1, <2>2 DEF PlatPrimeEntropy, PowerPending
<1> QED
  BY <1>2, <1>3, <1>4, <1>5, <1>6, <1>7, <1>8, <1>9 DEF Library

\* The agreement about power holds of every reachable state.
THEOREM PowerInvariant == Spec => []PowerInv
<1>1. Init => PowerInv
  BY InitIInv DEF Init, IInv, PowerInv
<1>2. PowerInv /\ [Next]_vars => PowerInv'
  <2>1. ASSUME PowerInv, Crash PROVE PowerInv'
    BY <2>1 DEF Crash, LibAtStart, LibStates, PowerInv, TypeOK, PowerPending
  <2>2. ASSUME PowerInv, UNCHANGED vars PROVE PowerInv'
    BY <2>2 DEF vars, PowerInv, TypeOK, PowerPending
  <2> QED
    BY <2>1, <2>2, HostPower, LibraryPower DEF Next, PlatGetEntropyAborts
<1> QED
  BY <1>1, <1>2, PTL DEF Spec

\* Types, for any images, failures, localities and blobs, and any saved states.
THEOREM TypeCorrect == Spec => []TypeOK
<1>1. PowerInv => TypeOK
  BY DEF PowerInv
<1> QED
  BY <1>1, PowerInvariant, PTL

\* The library and the platform agree again after every _TPM_Init, whatever
\* states of other builds or revisions were restored before it.
THEOREM PowerCycleCoheres == Spec => PowerCycleHeals
<1>1. ASSUME PowerInv, Next, call = "init", call' = "ready" PROVE Coherent'
  <2>1. ~Host /\ ~Crash
    BY <1>1
       DEF Host, InitializeCold, InitializeFromBlob, Reset, ResetWithBlob,
           SetCancelFlag, SetLocality, ExecuteCommand, SaveState,
           RestoreState, Drop, Crash, PowerInv, TypeOK
  <2>2. TpmInitReturns
    BY <1>1, <2>1
       DEF Next, PlatGetEntropyAborts, Library, ManufactureReturns, StartTpmInit, ExecuteReturns,
           PlatNvEnable, PlatNvMemoryWrite, PlatNvCommit, PlatFail,
           PlatWasPowerLost, PlatPrimeEntropy
  <2> QED
    BY <1>1, <2>2
       DEF TpmInitReturns, Coherent, PowerInv, PowerPending, TypeOK,
           LibStates
<1>2. PowerInv /\ [Next]_vars =>
        [call = "init" /\ call' = "ready" => Coherent']_vars
  BY <1>1
<1> QED
  BY <1>2, PowerInvariant, PTL DEF Spec, PowerCycleHeals

-----------------------------------------------------------------------------
(* The length of the NV region, when the saved states hold full regions.   *)

SizeInv ==
  /\ PowerInv
  /\ RegionSize
  /\ saved # NoCopy => saved.plat.nv.full

\* A region that power on, enabling or a blob leaves is as long as before, or
\* NV_MEMORY_SIZE long.
LEMMA MethodSize ==
  ASSUME NEW p \in PlatformStates, p.nv.full
  PROVE  /\ SignalPowerOn(p).nv.full /\ SignalPowerOff(p).nv.full
         /\ NvEnable(p).nv.full /\ ResetFailure(p).nv.full
         /\ \A f \in Failures : Fail(p, f).nv.full
<1>1. NvEnable(p).nv.full
  BY DEF NvEnable, PlatformStates, BlankRegion
<1>2. SignalPowerOn(p).nv.full
  BY DEF SignalPowerOn, NvEnable, PlatformStates, BlankRegion
<1>3. SignalPowerOff(p).nv.full /\ ResetFailure(p).nv.full
  BY PowerOffFields, ResetFailureFields
<1>4. \A f \in Failures : Fail(p, f).nv.full
  BY FailFields
<1> QED
  BY <1>1, <1>2, <1>3, <1>4

\* A blob is loaded only when its size is NV_MEMORY_SIZE.
LEMMA LoadedSize ==
  ASSUME NEW p \in PlatformStates, NEW b \in Regions, BlobFits(p, b)
  PROVE  SignalPowerOn(NvEnableFromBlob(p, b)).nv.full
<1> DEFINE loaded == NvEnableFromBlob(p, b)
<1>1. loaded \in PlatformStates /\ loaded.nv.full
  BY BlobFields DEF BlobFits
<1> QED
  BY <1>1, MethodSize

\* The host's calls.
LEMMA HostSize ==
  ASSUME FullStates, SizeInv, Host
  PROVE  RegionSize' /\ (saved' # NoCopy => saved'.plat.nv.full)
<1> USE PlatformAssumption, NullAssumption DEF SizeInv, PowerInv, TypeOK
<1>1. HostBlobs \subseteq Regions
  BY BlobsAssumption DEF HostBlobs
<1>2. NewPlatform \in PlatformStates /\ NewPlatform.nv.full
  BY MethodTypes DEF NewPlatform, BlankRegion
<1>3. plat # NoPlatform => plat \in PlatformStates /\ plat.nv.full
  BY DEF RegionSize
<1>4. CASE InitializeCold
  <2>1. NvEnable(NewPlatform) \in PlatformStates /\ NvEnable(NewPlatform).nv.full
    BY <1>2, MethodTypes, MethodSize
  <2> QED
    BY <1>4, <2>1, MethodSize DEF InitializeCold, RegionSize
<1>5. CASE InitializeFromBlob
  BY <1>1, <1>2, <1>5, LoadedSize DEF InitializeFromBlob, RegionSize
<1>6. CASE Reset
  <2> DEFINE claimed == [SignalPowerOff(plat) EXCEPT !.is_init = TRUE]
  <2>1. plat \in PlatformStates /\ plat.nv.full
    BY <1>3, <1>6 DEF Reset
  <2>2. claimed \in PlatformStates /\ claimed.nv = plat.nv
    BY <2>1 DEF SignalPowerOff, PlatformStates
  <2>3. plat' = SignalPowerOn(claimed) /\ saved' = saved
    BY <1>6 DEF Reset
  <2> HIDE DEF claimed
  <2> QED
    BY <2>1, <2>2, <2>3, MethodSize DEF RegionSize
<1>7. CASE ResetWithBlob
  <2> DEFINE off == SignalPowerOff(plat)
  <2>1. off \in PlatformStates /\ off.nv.full
    BY <1>3, <1>7, PowerOffFields DEF ResetWithBlob
  <2>2. PICK b \in HostBlobs :
          \/ BlobFits(off, b) /\ plat' = SignalPowerOn(NvEnableFromBlob(off, b))
          \/ plat' = off
    BY <1>7 DEF ResetWithBlob
  <2>3. saved' = saved
    BY <1>7 DEF ResetWithBlob
  <2> HIDE DEF off
  <2> QED
    BY <1>1, <2>1, <2>2, <2>3, LoadedSize DEF RegionSize
<1>8. CASE SetCancelFlag \/ SetLocality
  BY <1>3, <1>8 DEF SetCancelFlag, SetLocality, PlatformStates, RegionSize
<1>9. CASE ExecuteCommand \/ Drop
  BY <1>3, <1>9 DEF ExecuteCommand, Drop, RegionSize
<1>10. CASE SaveState
  BY <1>3, <1>10 DEF SaveState, RegionSize
<1>11. CASE RestoreState
  <2>1. PICK s \in HostSnapshots : ApplyRuntimeState(s)
    BY <1>11 DEF RestoreState
  <2>2. s.plat \in PlatformStates /\ s.plat.nv.full
    BY ForeignAssumption DEF HostSnapshots, Snapshots, FullStates
  <2>3. plat' = s.plat \/ \E f \in Failures : plat' = Fail(s.plat, f)
    BY <2>1 DEF ApplyRuntimeState
  <2>4. plat'.nv.full
    BY <2>2, <2>3, MethodSize
  <2> QED
    BY <1>11, <2>4 DEF RestoreState, RegionSize
<1> QED
  BY <1>4, <1>5, <1>6, <1>7, <1>8, <1>9, <1>10, <1>11 DEF Host

\* The library's callbacks.
LEMMA LibrarySize ==
  ASSUME SizeInv, Library
  PROVE  RegionSize' /\ saved' = saved
<1> USE PlatformAssumption, NullAssumption DEF SizeInv, PowerInv, TypeOK
<1>1. plat \in PlatformStates /\ plat.nv.full
  BY DEF Library, ManufactureReturns, StartTpmInit, TpmInitReturns,
         ExecuteReturns, PlatNvEnable, PlatNvMemoryWrite, PlatNvCommit,
         PlatFail, PlatWasPowerLost, PlatPrimeEntropy, RegionSize
<1>2. CASE \/ ManufactureReturns \/ TpmInitReturns \/ ExecuteReturns
           \/ PlatNvCommit
  BY <1>1, <1>2
     DEF ManufactureReturns, TpmInitReturns, ExecuteReturns, PlatNvCommit,
         RegionSize
<1>3. CASE StartTpmInit \/ PlatNvEnable \/ PlatFail
  BY <1>1, <1>3, MethodSize DEF StartTpmInit, PlatNvEnable, PlatFail, RegionSize
<1>4. CASE PlatNvMemoryWrite
  BY <1>1, <1>4 DEF PlatNvMemoryWrite, PlatformStates, Regions, RegionSize
<1>5. CASE PlatWasPowerLost \/ PlatPrimeEntropy
  BY <1>1, <1>5
     DEF PlatWasPowerLost, PlatPrimeEntropy, PlatformStates, RegionSize
<1> QED
  BY <1>2, <1>3, <1>4, <1>5 DEF Library

\* The invariant about the length holds of every reachable state.
THEOREM SizeInvariant ==
  ASSUME FullStates
  PROVE  Spec => []SizeInv
<1>1. Init => RegionSize /\ saved = NoCopy
  BY DEF Init, RegionSize
<1>2. ASSUME SizeInv, [Next]_vars
      PROVE  RegionSize' /\ (saved' # NoCopy => saved'.plat.nv.full)
  <2>1. CASE Crash
    BY <1>2, <2>1 DEF Crash, RegionSize, SizeInv
  <2>2. CASE UNCHANGED vars
    BY <1>2, <2>2 DEF vars, RegionSize, SizeInv
  <2>3. CASE Library
    BY <1>2, <2>3, LibrarySize DEF SizeInv
  <2> QED
    BY <1>2, <2>1, <2>2, <2>3, HostSize DEF Next, PlatGetEntropyAborts
<1> DEFINE Size == RegionSize /\ (saved # NoCopy => saved.plat.nv.full)
<1>3. PowerInv /\ Size => SizeInv
  BY DEF SizeInv
<1>4. PowerInv /\ Size /\ [Next]_vars => Size'
  BY <1>2, <1>3
<1>5. Init => Size
  BY <1>1
<1> HIDE DEF Size
<1> QED
  BY <1>3, <1>4, <1>5, PowerInvariant, PTL DEF Spec

\* A region of another length gets in only through a saved state that holds
\* one: not through a blob, a failed reset or a rejected restore.
THEOREM RegionAlwaysFull ==
  ASSUME FullStates
  PROVE  Spec => []RegionSize
<1>1. SizeInv => RegionSize
  BY DEF SizeInv
<1> QED
  BY <1>1, SizeInvariant, PTL

\* TPM_Manufacture and _TPM_Init always run on an enabled, full-length region
\* with a power loss to report, also after a restore whose library half was
\* rejected.
THEOREM TpmInitSafe ==
  ASSUME FullStates
  PROVE  Spec => []TpmInitPrecondition
<1>1. SizeInv => TpmInitPrecondition
  BY DEF SizeInv, PowerInv, TypeOK, RegionSize, TpmInitPrecondition
<1> QED
  BY <1>1, SizeInvariant, PTL

-----------------------------------------------------------------------------
(* What no step may do to a live platform.                                 *)

\* A power cycle of a live platform keeps failure, cancel flag and locality.
LEMMA PowerCycleKeeps ==
  ASSUME TypeOK, Live, Reset \/ ResetWithBlob
  PROVE  /\ plat'.failure = plat.failure
         /\ plat'.cancel = plat.cancel /\ plat'.locality = plat.locality
  <1>1. plat \in PlatformStates
    BY DEF TypeOK, Live
  <1>2. CASE Reset
    BY <1>1, <1>2 DEF Reset, SignalPowerOn, SignalPowerOff, NvEnable,
       PlatformStates
  <1>3. CASE ResetWithBlob
    BY <1>1, <1>3 DEF ResetWithBlob, SignalPowerOn, SignalPowerOff, NvEnable,
       NvEnableFromBlob, PlatformStates
  <1> QED
    BY <1>2, <1>3

\* A callback of the library keeps the cancel flag and the locality, and,
\* outside _TPM_Init's entry, a failure that was recorded.
LEMMA CallbacksKeep ==
  ASSUME TypeOK, Live, Library
  PROVE  /\ plat'.cancel = plat.cancel /\ plat'.locality = plat.locality
         /\ plat.failure # NoFailure /\ call # "init_enter" =>
              plat'.failure = plat.failure
  <1>1. plat \in PlatformStates
    BY DEF TypeOK, Live
  <1>2. CASE ManufactureReturns \/ TpmInitReturns \/ ExecuteReturns \/ PlatNvCommit
    BY <1>2 DEF ManufactureReturns, TpmInitReturns, ExecuteReturns, PlatNvCommit
  <1>3. CASE StartTpmInit
    BY <1>1, <1>3 DEF StartTpmInit, ResetFailure, PlatformStates
  <1>4. CASE PlatNvEnable
    BY <1>1, <1>4 DEF PlatNvEnable, NvEnable, PlatformStates
  <1>5. CASE PlatNvMemoryWrite
    BY <1>1, <1>5 DEF PlatNvMemoryWrite, PlatformStates
  <1>6. CASE PlatFail
    BY <1>1, <1>6 DEF PlatFail, Fail, PlatformStates
  <1>7. CASE PlatWasPowerLost
    BY <1>1, <1>7 DEF PlatWasPowerLost, PlatformStates
  <1>8. CASE PlatPrimeEntropy
    BY <1>1, <1>8 DEF PlatPrimeEntropy, PlatformStates
  <1> QED
    BY <1>2, <1>3, <1>4, <1>5, <1>6, <1>7, <1>8 DEF Library

\* The host's other calls.
LEMMA HostKeeps ==
  ASSUME TypeOK, Live, Live', Host \/ Crash,
         ~Reset, ~ResetWithBlob, ~RestoreState
  PROVE  /\ plat'.failure = plat.failure
         /\ \/ plat'.cancel = plat.cancel /\ plat'.locality = plat.locality
            \/ call = "ready" /\ call' = "ready"
  <1>1. plat \in PlatformStates /\ plat # NoPlatform /\ plat' # NoPlatform
    BY DEF TypeOK, Live
  <1>2. CASE SetCancelFlag \/ SetLocality
    BY <1>1, <1>2 DEF SetCancelFlag, SetLocality, PlatformStates
  <1>3. CASE ExecuteCommand \/ SaveState
    BY <1>3 DEF ExecuteCommand, SaveState
  <1>4. ~InitializeCold /\ ~InitializeFromBlob /\ ~Drop /\ ~Crash
    BY <1>1 DEF InitializeCold, InitializeFromBlob, Drop, Crash
  <1> QED
    BY <1>2, <1>3, <1>4 DEF Host

\* For every set of failures: the first failure stays until _TPM_Init starts,
\* a state is restored or the platform goes (failure.rs:38).
THEOREM FailureKept == Spec => FailureSticks
  <1> DEFINE Sticks ==
        Live /\ Live' /\ plat.failure # NoFailure /\ plat'.failure # plat.failure
          => call = "init_enter" \/ RestoreState
  <1>1. ASSUME TypeOK, Next PROVE Sticks
    <2> SUFFICES ASSUME Live, Live', plat.failure # NoFailure,
                        call # "init_enter", ~RestoreState
                 PROVE  plat'.failure = plat.failure
      OBVIOUS
    <2>1. CASE Reset \/ ResetWithBlob
      BY <1>1, <2>1, PowerCycleKeeps
    <2>2. CASE Library
      BY <1>1, <2>2, CallbacksKeep
    <2>3. CASE (Host \/ Crash) /\ ~Reset /\ ~ResetWithBlob
      BY <1>1, <2>3, HostKeeps
    <2> QED
      BY <1>1, <2>1, <2>2, <2>3 DEF Next, PlatGetEntropyAborts
  <1>2. TypeOK /\ [Next]_vars => [Sticks]_vars
    BY <1>1
  <1> QED
    BY <1>2, TypeCorrect, PTL DEF Spec, FailureSticks

\* The cancel flag and the locality are the host's: neither the library nor a
\* power cycle changes them under a live platform.  (cancel.rs, locality.rs)
InputsHeldByHost ==
  [][/\ Live /\ Live'
     /\ plat'.cancel # plat.cancel \/ plat'.locality # plat.locality
     => call = "ready" /\ call' = "ready"]_vars

\* The cancel flag and the locality change between calls only, in the host's
\* hands.
THEOREM InputsKept == Spec => InputsHeldByHost
  <1> DEFINE Held ==
        /\ Live /\ Live'
        /\ plat'.cancel # plat.cancel \/ plat'.locality # plat.locality
        => call = "ready" /\ call' = "ready"
  <1>1. ASSUME TypeOK, Next PROVE Held
    <2> SUFFICES ASSUME Live, Live'
                 PROVE  \/ plat'.cancel = plat.cancel /\ plat'.locality = plat.locality
                        \/ call = "ready" /\ call' = "ready"
      OBVIOUS
    <2>1. CASE Reset \/ ResetWithBlob
      BY <1>1, <2>1, PowerCycleKeeps
    <2>2. CASE Library
      BY <1>1, <2>2, CallbacksKeep
    <2>3. CASE RestoreState
      BY <2>3 DEF RestoreState
    <2>4. CASE (Host \/ Crash) /\ ~Reset /\ ~ResetWithBlob /\ ~RestoreState
      BY <1>1, <2>4, HostKeeps
    <2> QED
      BY <1>1, <2>1, <2>2, <2>3, <2>4 DEF Next, PlatGetEntropyAborts
  <1>2. TypeOK /\ [Next]_vars => [Held]_vars
    BY <1>1
  <1> QED
    BY <1>2, TypeCorrect, PTL DEF Spec, InputsHeldByHost

-----------------------------------------------------------------------------
(* Platform implements NvDevice.                                           *)

USE DEF contentsMap, runningMap, savedMap

\* A blob of the host is one the device knows, or its durable copy.
LEMMA HostBlobsKnown ==
  ASSUME TypeOK, NEW b \in HostBlobs
  PROVE  b \in Regions /\ (b # BlankRegion \/ (disk # NoCopy /\ b = disk))
<1>1. CASE b \in Blobs
  BY <1>1, BlobsAssumption DEF BlankRegion
<1>2. CASE disk # NoCopy /\ b = disk
  BY <1>2 DEF TypeOK
<1> QED
  BY <1>1, <1>2 DEF HostBlobs

\* The host's calls are events of the device, or leave it alone.
LEMMA HostImplements ==
  ASSUME TypeOK, Host
  PROVE  D!Next \/ UNCHANGED D!vars
<1> USE PlatformAssumption, BlobsAssumption, NullAssumption DEF TypeOK
<1>1. \A p \in PlatformStates : /\ p # NoPlatform /\ p.nv # NoPlatform
                               /\ p.nv \in Regions
  BY DEF PlatformStates
<1>2. CASE InitializeCold
  <2>1. plat' \in PlatformStates /\ plat'.nv = BlankRegion
    BY <1>2, MethodTypes
       DEF InitializeCold, NewPlatform, SignalPowerOn, NvEnable
  <2> QED
    BY <1>1, <1>2, <2>1 DEF InitializeCold, D!Next, D!Fresh
<1>3. CASE InitializeFromBlob
  <2>1. PICK b \in HostBlobs :
          plat' = SignalPowerOn(NvEnableFromBlob(NewPlatform, b))
    BY <1>3 DEF InitializeFromBlob
  <2>2. b \in Regions /\ (b # BlankRegion \/ (disk # NoCopy /\ b = disk))
    BY <2>1, HostBlobsKnown
  <2>3. plat' \in PlatformStates /\ plat'.nv = b
    BY <2>1, <2>2, MethodTypes
       DEF NvEnableFromBlob, NewPlatform, SignalPowerOn, NvEnable
  <2> QED
    BY <1>1, <1>3, <2>2, <2>3 DEF InitializeFromBlob, D!Next, D!Load
<1>4. CASE Reset
  <2>1. plat \in PlatformStates /\ plat' \in PlatformStates /\ plat'.nv = plat.nv
    BY <1>4 DEF Reset, PlatformStates, SignalPowerOff, SignalPowerOn, NvEnable
  <2> QED
    BY <1>1, <1>4, <2>1 DEF Reset, D!Next, D!Enter
<1>5. CASE ResetWithBlob
  <2>1. plat \in PlatformStates
    BY <1>5 DEF ResetWithBlob
  <2>2. PICK b \in HostBlobs :
          \/ /\ plat' = SignalPowerOn(NvEnableFromBlob(SignalPowerOff(plat), b))
             /\ call' = "init_enter"
          \/ plat' = SignalPowerOff(plat) /\ UNCHANGED call
    BY <1>5 DEF ResetWithBlob
  <2>3. b \in Regions /\ (b # BlankRegion \/ (disk # NoCopy /\ b = disk))
    BY <2>2, HostBlobsKnown
  <2>4. CASE /\ plat' = SignalPowerOn(NvEnableFromBlob(SignalPowerOff(plat), b))
             /\ call' = "init_enter"
    <3> DEFINE off == SignalPowerOff(plat)
               loaded == NvEnableFromBlob(off, b)
    <3>2. off \in PlatformStates
      BY <2>1, PowerOffFields
    <3> HIDE DEF off
    <3>3. loaded \in PlatformStates /\ loaded.nv = b /\ loaded.is_init
      BY <2>3, <3>2, BlobFields
    <3>4. plat' = SignalPowerOn(loaded)
      BY <2>4 DEF off
    <3> HIDE DEF loaded
    <3>1. plat' \in PlatformStates /\ plat'.nv = b
      BY <3>3, <3>4, PowerOnFields
    <3> QED
      BY <1>1, <1>5, <2>3, <2>4, <3>1 DEF ResetWithBlob, D!Next, D!Load
  <2>5. CASE plat' = SignalPowerOff(plat) /\ UNCHANGED call
    <3>1. plat' \in PlatformStates /\ plat'.nv = plat.nv
      BY <2>1, <2>5 DEF PlatformStates, SignalPowerOff
    <3> QED
      BY <1>1, <1>5, <2>1, <2>5, <3>1 DEF ResetWithBlob, D!vars
  <2> QED
    BY <2>2, <2>4, <2>5
<1>6. CASE SetCancelFlag \/ SetLocality
  <2>1. plat \in PlatformStates /\ plat' \in PlatformStates /\ plat'.nv = plat.nv
    BY <1>6 DEF SetCancelFlag, SetLocality, PlatformStates
  <2> QED
    BY <1>1, <1>6, <2>1 DEF SetCancelFlag, SetLocality, D!vars
<1>7. CASE ExecuteCommand
  BY <1>1, <1>7 DEF ExecuteCommand, D!Next, D!Enter
<1>8. CASE SaveState
  <2>1. plat \in PlatformStates /\ saved' \in Snapshots /\ saved'.plat = plat
    BY <1>8 DEF SaveState, Snapshots
  <2> QED
    BY <1>1, <1>8, <2>1 DEF SaveState, D!Next, D!Save
<1>9. CASE RestoreState
  <2>1. PICK s \in HostSnapshots : ApplyRuntimeState(s)
    BY <1>9 DEF RestoreState
  <2>2. /\ call = "ready" /\ plat \in PlatformStates
        /\ UNCHANGED <<call, disk, saved>>
    BY <1>9 DEF RestoreState
  <2>3. /\ s.plat \in PlatformStates
        /\ (s \in Foreign \/ (saved # NoCopy /\ s = saved))
    BY <2>1, ForeignAssumption DEF HostSnapshots, Snapshots
  <2>4. plat' \in PlatformStates /\ plat'.nv = s.plat.nv
    <3>1. plat' = s.plat \/ \E f \in Failures : plat' = Fail(s.plat, f)
      BY <2>1 DEF ApplyRuntimeState
    <3> QED
      BY <2>3, <3>1, FailFields
  <2>5. contentsMap # NoPlatform /\ contentsMap' = s.plat.nv
    BY <1>1, <2>2, <2>4
  <2>6. /\ call \notin InC /\ UNCHANGED <<disk, savedMap, runningMap>>
    BY <2>2
  <2>7. CASE s \in Foreign
    <3>1. contentsMap' \in {r.plat.nv : r \in Foreign}
      BY <2>5, <2>7
    <3> QED
      BY <2>5, <2>6, <3>1 DEF D!Next, D!Restore
  <2>8. CASE saved # NoCopy /\ s = saved
    <3>1. savedMap = s.plat.nv /\ savedMap # NoCopy
      BY <1>1, <2>3, <2>8
    <3> QED
      BY <2>5, <2>6, <3>1 DEF D!Next, D!Restore
  <2> QED
    BY <2>3, <2>7, <2>8
<1>10. CASE Drop
  BY <1>10 DEF Drop, D!Next, D!Vanish
<1> QED
  BY <1>2, <1>3, <1>4, <1>5, <1>6, <1>7, <1>8, <1>9, <1>10 DEF Host

\* The library's callbacks write and commit, and nothing else of them shows.
LEMMA LibraryImplements ==
  ASSUME PowerInv, Library
  PROVE  D!Next \/ UNCHANGED D!vars
<1> USE PlatformAssumption, NullAssumption DEF PowerInv, TypeOK
<1>1. plat \in PlatformStates /\ plat # NoPlatform /\ call \in InC
  BY DEF Library, ManufactureReturns, StartTpmInit, TpmInitReturns,
         ExecuteReturns, PlatNvEnable, PlatNvMemoryWrite, PlatNvCommit,
         PlatFail, PlatWasPowerLost, PlatPrimeEntropy
<1>2. CASE ManufactureReturns \/ TpmInitReturns \/ ExecuteReturns
  BY <1>1, <1>2
     DEF ManufactureReturns, TpmInitReturns, ExecuteReturns, D!vars, D!Next,
         D!Leave
<1>3. CASE \/ StartTpmInit \/ PlatNvEnable \/ PlatFail \/ PlatWasPowerLost
           \/ PlatPrimeEntropy
  <2>1. plat' \in PlatformStates /\ plat'.nv = plat.nv /\ call' \in InC
    <3>1. CASE StartTpmInit
      BY <1>1, <3>1, ResetFailureFields DEF StartTpmInit
    <3>2. CASE PlatNvEnable
      <4>1. plat.is_init /\ plat' = NvEnable(plat) /\ call' = call
        BY <3>2 DEF PlatNvEnable
      <4> QED
        BY <1>1, <4>1, EnableFields
    <3>3. CASE PlatFail
      <4>1. PICK f \in Failures : plat' = Fail(plat, f)
        BY <3>3 DEF PlatFail
      <4>2. call' = call
        BY <3>3 DEF PlatFail
      <4> QED
        BY <1>1, <4>1, <4>2, FailFields
    <3>4. CASE PlatWasPowerLost
      BY <1>1, <3>4 DEF PlatWasPowerLost, PlatformStates
    <3>5. CASE PlatPrimeEntropy
      BY <1>1, <3>5 DEF PlatPrimeEntropy, PlatformStates
    <3> QED
      BY <1>3, <3>1, <3>2, <3>3, <3>4, <3>5
  <2>2. UNCHANGED <<disk, saved>>
    BY <1>3
       DEF StartTpmInit, PlatNvEnable, PlatFail, PlatWasPowerLost,
           PlatPrimeEntropy
  <2> QED
    BY <1>1, <2>1, <2>2 DEF D!vars
<1>4. CASE PlatNvMemoryWrite
  <2>1. PICK i \in Images : plat' = [plat EXCEPT !.nv.img = i]
    BY <1>4 DEF PlatNvMemoryWrite
  <2>2. plat' \in PlatformStates /\ plat'.nv \in Regions /\ plat'.nv.img = i
    BY <1>1, <2>1 DEF PlatformStates, Regions
  <2>3. plat'.nv # BlankRegion
    BY <2>2 DEF BlankRegion
  <2> QED
    BY <1>1, <1>4, <2>2, <2>3 DEF PlatNvMemoryWrite, D!Next, D!Write
<1>5. CASE PlatNvCommit
  BY <1>1, <1>5 DEF PlatNvCommit, D!Next, D!Commit
<1> QED
  BY <1>2, <1>3, <1>4, <1>5 DEF Library

\* Every power cycle, failed reset, save, restore, drop and crash leaves the NV
\* memory and its durable copy as NvDevice allows, whatever the host restores.
THEOREM ImplementsNvDevice == Spec => NvDeviceSpec
<1>1. Init => D!Init
  BY DEF Init, D!Init
<1>2. PowerInv /\ [Next]_vars => [D!Next]_(D!vars)
  <2>1. ASSUME Crash PROVE D!Next
    BY <2>1 DEF Crash, D!Next, D!Vanish
  <2>2. ASSUME UNCHANGED vars PROVE UNCHANGED D!vars
    BY <2>2 DEF vars, D!vars
  <2> QED
    BY <2>1, <2>2, HostImplements, LibraryImplements
    DEF Next, PlatGetEntropyAborts, PowerInv
<1> QED
  BY <1>1, <1>2, PowerInvariant, PTL DEF Spec, NvDeviceSpec, D!Spec

-----------------------------------------------------------------------------
(* Platform implements Session.                                            *)

\* The host's calls begin and end the session and enter the library.
LEMMA HostConverses ==
  ASSUME TypeOK, Host
  PROVE  S!Next \/ UNCHANGED callMap
<1> USE NullAssumption DEF TypeOK, callMap, S!Next
<1>1. \A p \in PlatformStates : p # NoPlatform
  OBVIOUS
<1>2. CASE InitializeCold \/ InitializeFromBlob
  <2>1. \A b \in HostBlobs : b \in Regions
    BY BlobsAssumption DEF HostBlobs
  <2>2. plat' \in PlatformStates
    BY <1>2, <2>1, MethodTypes DEF InitializeCold, InitializeFromBlob
  <2> QED
    BY <1>1, <1>2, <2>2 DEF InitializeCold, InitializeFromBlob, S!Insert
<1>3. CASE Reset \/ ResetWithBlob
  <2>1. call = "ready" /\ plat \in PlatformStates
    BY <1>3 DEF Reset, ResetWithBlob
  <2>2. plat' \in PlatformStates /\ call' \in {"ready", "init_enter"}
    <3>1. CASE Reset
      <4>1. [SignalPowerOff(plat) EXCEPT !.is_init = TRUE] \in PlatformStates
        BY <2>1 DEF SignalPowerOff, PlatformStates
      <4> QED
        BY <3>1, <4>1, MethodTypes DEF Reset
    <3>2. CASE ResetWithBlob
      <4>1. \A b \in HostBlobs : b \in Regions
        BY BlobsAssumption DEF HostBlobs
      <4>2. SignalPowerOff(plat) \in PlatformStates
        BY <2>1, MethodTypes
      <4> QED
        BY <2>1, <3>2, <4>1, <4>2, MethodTypes DEF ResetWithBlob
    <3> QED
      BY <1>3, <3>1, <3>2
  <2> QED
    BY <1>1, <2>1, <2>2 DEF S!Enter
<1>4. CASE SetCancelFlag \/ SetLocality \/ RestoreState
  <2>1. call = "ready" /\ call' = call /\ plat \in PlatformStates
    BY <1>4 DEF SetCancelFlag, SetLocality, RestoreState
  <2>2. plat' \in PlatformStates
    <3>1. CASE SetCancelFlag \/ SetLocality
      BY <2>1, <3>1 DEF SetCancelFlag, SetLocality, PlatformStates
    <3>2. CASE RestoreState
      <4>1. HostSnapshots \subseteq Snapshots
        BY ForeignAssumption DEF HostSnapshots
      <4> QED
        BY <3>2, <4>1, MethodTypes
           DEF RestoreState, ApplyRuntimeState, Snapshots
    <3> QED
      BY <1>4, <3>1, <3>2
  <2> QED
    BY <1>1, <2>1, <2>2
<1>5. CASE ExecuteCommand
  BY <1>5 DEF ExecuteCommand, S!Enter
<1>6. CASE SaveState
  BY <1>6 DEF SaveState
<1>7. CASE Drop
  BY <1>7 DEF Drop, S!Drop
<1> QED
  BY <1>2, <1>3, <1>4, <1>5, <1>6, <1>7 DEF Host

\* The library's returns end the calls, its callbacks do not show.
LEMMA LibraryConverses ==
  ASSUME TypeOK, TypeOK', Library
  PROVE  S!Next \/ UNCHANGED callMap
<1> USE NullAssumption DEF callMap, S!Next
<1>1. plat # NoPlatform /\ call \in InC
  BY DEF Library, ManufactureReturns, StartTpmInit, TpmInitReturns,
         ExecuteReturns, PlatNvEnable, PlatNvMemoryWrite, PlatNvCommit,
         PlatFail, PlatWasPowerLost, PlatPrimeEntropy, TypeOK
<1>2. CASE ManufactureReturns
  BY <1>1, <1>2 DEF ManufactureReturns, S!Manufactured
<1>3. CASE TpmInitReturns \/ ExecuteReturns
  BY <1>1, <1>3 DEF TpmInitReturns, ExecuteReturns, S!Leave
<1>4. CASE \/ StartTpmInit \/ PlatNvEnable \/ PlatNvMemoryWrite \/ PlatFail
           \/ PlatNvCommit \/ PlatWasPowerLost \/ PlatPrimeEntropy
  <2>1. \/ call' = call
        \/ call = "init_enter" /\ call' = "init"
    BY <1>4
       DEF StartTpmInit, PlatNvEnable, PlatNvMemoryWrite, PlatFail,
           PlatNvCommit, PlatWasPowerLost, PlatPrimeEntropy
  <2>2. plat' # NoPlatform
    BY <1>1, <2>1 DEF TypeOK
  <2> QED
    BY <1>1, <2>1, <2>2
<1> QED
  BY <1>2, <1>3, <1>4 DEF Library

\* Whatever the host restores, and wherever the process dies, the calls of the
\* platform are a session: the protocol that Singleton's threads keep to.
THEOREM ImplementsSession == Spec => SessionSpec
<1>1. Init => S!Init
  BY DEF Init, S!Init, callMap
<1>2. TypeOK /\ TypeOK' /\ [Next]_vars => [S!Next]_callMap
  <2>1. ASSUME TypeOK, TypeOK', Crash PROVE S!Next
    BY <2>1 DEF Crash, callMap, S!Next, S!Die
  <2>2. ASSUME UNCHANGED vars PROVE UNCHANGED callMap
    BY <2>2 DEF vars, callMap
  <2> QED
    BY <2>1, <2>2, HostConverses, LibraryConverses DEF Next, PlatGetEntropyAborts
<1> QED
  BY <1>1, <1>2, TypeCorrect, PTL DEF Spec, SessionSpec, S!Spec
=============================================================================
