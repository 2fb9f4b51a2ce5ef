------------------------- MODULE RuntimeStateProofs -------------------------
(***************************************************************************)
(* Proofs about RuntimeState for any number of slots and of processes, and *)
(* whichever imports fail.  The invariant adds to the properties what they *)
(* need of a state that waits at the host: that it was made of objects     *)
(* which could be exported.                                                *)
(***************************************************************************)
EXTENDS RuntimeState, FiniteSetTheorems, TLAPS

Snapshots ==
  [objects : [Slots -> SlotStates], started : BOOLEAN, failing : BOOLEAN,
   halfonly : BOOLEAN, importfailed : BOOLEAN]

RtTypes ==
  /\ process \in 1 .. MaxProcesses
  /\ objects \in [Slots -> SlotStates]
  /\ started \in BOOLEAN /\ failing \in BOOLEAN /\ halfonly \in BOOLEAN
  /\ importfailed \in BOOLEAN /\ misused \in BOOLEAN
  /\ handles \in Nat
  /\ snapshot \subseteq Snapshots

\* All sequences are of this process,
Healthy == \A i \in Slots : IsSequence(objects[i]) => Usable(objects[i])

\* or can be made so.
Importable(image) ==
  \A i \in Slots : IsSequence(image[i]) => image[i].home # Corrupt

\* What runs without a restore that was cut in half, and what no failed import
\* led to, is healthy,
HealthyHere == (Running /\ ~halfonly) \/ ~importfailed => Healthy

\* and so it was when it was saved.
HealthyThere ==
  \A v \in snapshot :
    (v.started /\ ~v.failing /\ ~v.halfonly) \/ ~v.importfailed
      => Importable(v.objects)

\* The slots that hold a handle of this process
Holding == {i \in Slots : objects[i].kind = "mldsa" /\ Usable(objects[i])}

RtInv ==
  /\ RtTypes
  /\ HealthyHere
  /\ HealthyThere
  /\ indexcache \in {"empty", "current"}
  /\ handles = Cardinality(Holding)
  /\ misused => importfailed

-----------------------------------------------------------------------------
(* One slot.                                                               *)

LEMMA FreeSlot ==
  Free \in SlotStates /\ ~IsSequence(Free) /\ Free.kind # "mldsa"
BY RuntimeAssumption DEF Free, SlotStates, IsSequence, None, Corrupt

\* An export has the type of a slot, and can be imported if the object was of
\* this process.
LEMMA ExportedSlot ==
  ASSUME process \in 1 .. MaxProcesses, NEW s \in SlotStates
  PROVE  /\ Export(s) \in SlotStates
         /\ IsSequence(s) /\ Usable(s) => Export(s).home # Corrupt
         /\ IsSequence(Export(s)) => IsSequence(s)
<1> DEFINE h == IF ~Usable(s) THEN Corrupt
                ELSE IF s.kind = "smac" THEN s.home ELSE None
<1>1. h \in Corrupt .. MaxProcesses /\ (Usable(s) => h # Corrupt)
  BY RuntimeAssumption DEF SlotStates, Usable, None, Corrupt
<1> HIDE DEF h
<1>2. CASE IsSequence(s)
  <2>1. Export(s) = [s EXCEPT !.exported = TRUE, !.home = h]
    BY <1>2 DEF Export, h
  <2>2. Export(s) \in SlotStates /\ Export(s).home = h
    BY <1>1, <2>1 DEF SlotStates
  <2> QED  BY <1>1, <1>2, <2>2
<1>3. CASE ~IsSequence(s)
  BY <1>3 DEF Export
<1> QED  BY <1>2, <1>3

\* An import and what follows it give an object of this process, if the object
\* could be exported.
LEMMA ImportedSlot ==
  ASSUME process \in 1 .. MaxProcesses, NEW s \in SlotStates
  PROVE  /\ Rebind(s) \in SlotStates /\ Rebind(Import(s)) \in SlotStates
         /\ IsSequence(s) /\ s.home # Corrupt => Usable(Rebind(Import(s)))
<1> DEFINE h == IF s.kind = "smac" \/ s.home = Corrupt THEN s.home ELSE process
<1>1. Import(s) \in SlotStates /\ Import(s).home = h /\ ~Import(s).exported
      /\ Import(s).kind = s.kind
  <2>1. h \in Corrupt .. MaxProcesses
    BY RuntimeAssumption DEF SlotStates, Corrupt
  <2>2. Import(s) = [s EXCEPT !.exported = FALSE, !.home = h]
    BY DEF Import
  <2> HIDE DEF h
  <2> QED  BY <2>1, <2>2 DEF SlotStates
<1>2. ASSUME NEW t \in SlotStates
      PROVE  Rebind(t) \in SlotStates
  BY RuntimeAssumption DEF Rebind, SlotStates, Corrupt
<1>3. ASSUME IsSequence(s), s.home # Corrupt
      PROVE  Usable(Rebind(Import(s)))
  BY <1>1, <1>3 DEF Rebind, HoldsHandle, SlotStates, Usable
<1> QED  BY <1>1, <1>2, <1>3

\* The slots after an import, all of them usable if none failed.
LEMMA ImportedSlots ==
  ASSUME process \in 1 .. MaxProcesses, NEW image \in [Slots -> SlotStates],
         NEW w \in BOOLEAN, NEW F
  PROVE  LET o == ImportSequenceObjectStates(image, w, F)
         IN  /\ o \in [Slots -> SlotStates]
             /\ F = {} /\ Importable(image) =>
                  \A i \in Slots : IsSequence(o[i]) => Usable(o[i])
<1> DEFINE o == ImportSequenceObjectStates(image, w, F)
<1>1. ASSUME NEW i \in Slots
      PROVE  o[i] \in {image[i], Rebind(image[i]), Rebind(Import(image[i]))}
  BY DEF ImportSequenceObjectStates
<1>2. DOMAIN o = Slots /\ o = [i \in Slots |-> o[i]]
  BY DEF ImportSequenceObjectStates
<1>3. ASSUME NEW i \in Slots
      PROVE  o[i] \in SlotStates
  BY <1>1, ImportedSlot
<1>4. ASSUME F = {}, Importable(image), NEW i \in Slots, IsSequence(o[i])
      PROVE  Usable(o[i])
  <2>1. CASE ~IsSequence(image[i])
    <3>1. o[i] = image[i]
      BY <2>1 DEF ImportSequenceObjectStates
    <3> QED  BY <1>4, <2>1, <3>1
  <2>2. CASE IsSequence(image[i])
    <3>1. o[i] = Rebind(Import(image[i]))
      BY <1>4, <2>2 DEF ImportSequenceObjectStates
    <3>2. image[i] \in SlotStates /\ image[i].home # Corrupt
      BY <1>4, <2>2 DEF Importable
    <3> QED  BY <2>2, <3>1, <3>2, ImportedSlot
  <2> QED  BY <2>1, <2>2
<1> HIDE DEF o
<1> QED  BY <1>2, <1>3, <1>4 DEF o

-----------------------------------------------------------------------------
(* Counting handles.                                                       *)

LEMMA HoldingIsFinite ==
  /\ IsFiniteSet(Holding) /\ Cardinality(Holding) \in Nat
  /\ Released(Slots) = Cardinality(Holding)
<1>1. Holding \in SUBSET Slots
  BY DEF Holding
<1>2. IsFiniteSet(Holding)
  BY <1>1, FS_Subset, RuntimeAssumption
<1> QED  BY <1>2, FS_CardinalityType DEF Released, Holding

\* No handle is held in slots that are free.
LEMMA NothingHeld ==
  (\A i \in Slots : objects[i].kind # "mldsa")
    => Holding = {} /\ Cardinality(Holding) = 0
BY FS_EmptySet DEF Holding

\* One slot is flushed.
LEMMA ReleasedOne ==
  ASSUME NEW i \in Slots
  PROVE  Released({i}) = IF i \in Holding THEN 1 ELSE 0
<1>1. {j \in {i} : objects[j].kind = "mldsa" /\ Usable(objects[j])}
        = IF i \in Holding THEN {i} ELSE {}
  BY DEF Holding
<1>2. Cardinality({}) = 0 /\ Cardinality({i}) = 1
  BY FS_EmptySet, FS_Singleton
<1> QED  BY <1>1, <1>2 DEF Released

\* While all is healthy there is nothing strange to flush.
LEMMA NothingStrange ==
  ASSUME RtInv, NEW I \in SUBSET Slots
  PROVE  Strange(I) => importfailed
BY DEF RtInv, HealthyHere, Healthy, Strange, IsSequence

-----------------------------------------------------------------------------
(* The steps.                                                              *)

LEMMA RtInvInit == RtInit => RtInv
<1> SUFFICES ASSUME RtInit PROVE RtInv
  OBVIOUS
<1>1. \A i \in Slots : objects[i] = Free
  BY DEF RtInit
<1>2. RtTypes
  <2>1. process \in 1 .. MaxProcesses
    BY RuntimeAssumption DEF RtInit
  <2>2. objects \in [Slots -> SlotStates]
    BY FreeSlot DEF RtInit
  <2> QED  BY <2>1, <2>2 DEF RtInit, RtTypes
<1>3. HealthyHere /\ HealthyThere
  BY <1>1, FreeSlot DEF RtInit, HealthyHere, HealthyThere, Healthy
<1>4. handles = Cardinality(Holding)
  BY <1>1, FreeSlot, NothingHeld DEF RtInit
<1> QED  BY <1>2, <1>3, <1>4 DEF RtInit, RtInv

\* A step that touches neither the slots nor what waits at the host, and
\* neither lets a library run nor forgets a failed import.
LEMMA OtherSteps ==
  ASSUME RtInv, RtTypes', indexcache' \in {"empty", "current"},
         UNCHANGED <<process, objects, handles, snapshot, misused>>,
         (Running /\ ~halfonly)' => Running /\ ~halfonly,
         importfailed' = importfailed
  PROVE  RtInv'
<1>1. Healthy' = Healthy /\ Holding' = Holding
  BY DEF Healthy, Holding, Usable
<1> QED  BY <1>1 DEF RtInv, HealthyHere, HealthyThere, Importable

LEMMA StartSequenceInv == RtInv /\ StartSequence => RtInv'
<1> SUFFICES ASSUME RtInv, StartSequence PROVE RtInv'
  OBVIOUS
<1>1. PICK i \in Slots, s \in NewSequences :
        /\ objects[i].kind = "free"
        /\ objects' = [objects EXCEPT ![i] = s]
        /\ handles' = handles + (IF s.kind = "mldsa" THEN 1 ELSE 0)
  BY DEF StartSequence
<1>2. s \in SlotStates /\ Usable(s)
  BY DEF NewSequences, Usable
<1>3. objects \in [Slots -> SlotStates] /\ handles \in Nat
  BY DEF RtInv, RtTypes
<1>4. UNCHANGED <<process, started, indexcache, failing, snapshot, halfonly,
                  importfailed, misused>>
  BY DEF StartSequence
<1>5. RtTypes'
  BY <1>1, <1>2, <1>3, <1>4 DEF RtInv, RtTypes
<1>6. Healthy => Healthy'
  BY <1>1, <1>2, <1>3, <1>4 DEF Healthy, Usable
<1>7. i \notin Holding
      /\ Holding' = IF s.kind = "mldsa" THEN Holding \cup {i} ELSE Holding
  BY <1>1, <1>2, <1>3, <1>4 DEF Holding, Usable
<1>8. handles' = Cardinality(Holding')
  <2>1. Cardinality(Holding \cup {i}) = Cardinality(Holding) + 1
    BY <1>7, HoldingIsFinite, FS_AddElement
  <2>2. CASE s.kind = "mldsa"
    BY <1>1, <1>7, <2>1, <2>2 DEF RtInv
  <2>3. CASE s.kind # "mldsa"
    BY <1>1, <1>3, <1>7, <2>3 DEF RtInv
  <2> QED  BY <2>2, <2>3
<1> QED  BY <1>4, <1>5, <1>6, <1>8
  DEF RtInv, HealthyHere, HealthyThere, Importable, Running

LEMMA EndSequenceInv == RtInv /\ EndSequence => RtInv'
<1> SUFFICES ASSUME RtInv, EndSequence PROVE RtInv'
  OBVIOUS
<1>1. PICK i \in Slots : Flush({i}) /\ objects' = [objects EXCEPT ![i] = Free]
  BY DEF EndSequence
<1>2. objects \in [Slots -> SlotStates] /\ handles \in Nat
  BY DEF RtInv, RtTypes
<1>3. UNCHANGED <<process, started, indexcache, failing, snapshot, halfonly,
                  importfailed>>
  BY DEF EndSequence
<1>4. Healthy => Healthy'
  BY <1>1, <1>2, <1>3, FreeSlot DEF Healthy, Usable
<1>5. Holding' = Holding \ {i}
  BY <1>1, <1>2, <1>3, FreeSlot DEF Holding, Usable
<1>6. handles' = Cardinality(Holding') /\ handles' \in Nat
  <2>1. IsFiniteSet(Holding) /\ IsFiniteSet(Holding')
    BY <1>5, HoldingIsFinite, FS_RemoveElement
  <2>2. Cardinality(Holding')
          = IF i \in Holding THEN Cardinality(Holding) - 1
            ELSE Cardinality(Holding)
    BY <1>5, <2>1, FS_RemoveElement
  <2>3. handles' = handles - (IF i \in Holding THEN 1 ELSE 0)
    BY <1>1, ReleasedOne DEF Flush
  <2>4. Cardinality(Holding') \in Nat
    BY <2>1, FS_CardinalityType
  <2> QED  BY <1>2, <2>2, <2>3, <2>4 DEF RtInv
<1>7. misused' \in BOOLEAN /\ (misused' => importfailed')
  BY <1>1, <1>3, NothingStrange DEF Flush, RtInv, RtTypes
<1>8. RtTypes'
  BY <1>1, <1>2, <1>3, <1>6, <1>7, FreeSlot DEF RtInv, RtTypes
<1> QED  BY <1>3, <1>4, <1>6, <1>7, <1>8
  DEF RtInv, HealthyHere, HealthyThere, Importable, Running

LEMMA StartupInv == RtInv /\ Startup => RtInv'
<1> SUFFICES ASSUME RtInv, Startup PROVE RtInv'
  OBVIOUS
<1>1. \A i \in Slots : objects'[i] = Free
  BY DEF Startup
<1>2. Healthy'
  BY <1>1, FreeSlot DEF Healthy
<1>3. handles' = 0
  BY HoldingIsFinite DEF Startup, Flush, RtInv, RtTypes
<1>4. Holding' = {}
  BY <1>1, FreeSlot DEF Holding
<1>5. handles' = Cardinality(Holding')
  BY <1>3, <1>4, FS_EmptySet
<1>6. misused' \in BOOLEAN /\ (misused' => importfailed')
  BY NothingStrange DEF Startup, Flush, RtInv, RtTypes
<1>7. RtTypes'
  BY <1>3, <1>6, FreeSlot DEF Startup, RtInv, RtTypes
<1> QED  BY <1>2, <1>5, <1>6, <1>7
  DEF Startup, RtInv, HealthyHere, HealthyThere, Importable

LEMMA RestartInv == RtInv /\ Restart => RtInv'
<1> SUFFICES ASSUME RtInv, Restart PROVE RtInv'
  OBVIOUS
<1>1. \A i \in Slots : objects'[i] = Free
  BY DEF Restart, Fresh
<1>2. Healthy'
  BY <1>1, FreeSlot DEF Healthy
<1>3. handles' = Cardinality(Holding')
  <2>1. Holding' = {}
    BY <1>1, FreeSlot DEF Holding
  <2> QED  BY <2>1, FS_EmptySet DEF Restart, Fresh
<1>4. process' \in 1 .. MaxProcesses
  BY RuntimeAssumption DEF Restart, RtInv, RtTypes
<1>5. objects' \in [Slots -> SlotStates]
  BY FreeSlot DEF Restart, Fresh
<1>6. RtTypes'
  BY <1>4, <1>5 DEF Restart, Fresh, RtInv, RtTypes
<1> QED  BY <1>2, <1>3, <1>6
  DEF Restart, Fresh, RtInv, HealthyHere, HealthyThere, Importable

LEMMA SaveInv == RtInv /\ Save => RtInv'
<1> SUFFICES ASSUME RtInv, Save PROVE RtInv'
  OBVIOUS
<1> DEFINE image == [i \in Slots |-> Export(objects[i])]
<1>1. process \in 1 .. MaxProcesses /\ objects \in [Slots -> SlotStates]
  BY DEF RtInv, RtTypes
<1>2. image \in [Slots -> SlotStates]
  BY <1>1, ExportedSlot
<1>3. ASSUME Healthy
      PROVE  Importable(image)
  <2>1. ASSUME NEW i \in Slots, IsSequence(image[i])
        PROVE  image[i].home # Corrupt
    <3>1. image[i] = Export(objects[i]) /\ objects[i] \in SlotStates
      BY <1>1
    <3>2. IsSequence(objects[i]) /\ Usable(objects[i])
      BY <1>1, <1>3, <2>1, <3>1, ExportedSlot DEF Healthy
    <3> QED  BY <1>1, <3>1, <3>2, ExportedSlot
  <2> QED  BY <2>1 DEF Importable
<1> HIDE DEF image
<1>4. snapshot' = {[objects |-> image, started |-> started,
                    failing |-> failing, halfonly |-> halfonly,
                    importfailed |-> importfailed]}
      /\ UNCHANGED <<process, objects, started, indexcache, failing, handles,
                     halfonly, importfailed>>
  BY DEF Save, image
<1>5. Healthy' = Healthy /\ Holding' = Holding
  BY <1>4 DEF Healthy, Holding, Usable
<1>6. snapshot' \subseteq Snapshots
  BY <1>2, <1>4 DEF RtInv, RtTypes, Snapshots
<1>7. HealthyThere'
  <2>1. ASSUME NEW v \in snapshot',
               (v.started /\ ~v.failing /\ ~v.halfonly) \/ ~v.importfailed
        PROVE  Importable(v.objects)
    <3>1. v.objects = image /\ v.started = started /\ v.failing = failing
          /\ v.halfonly = halfonly /\ v.importfailed = importfailed
      BY <1>4
    <3>2. Healthy
      BY <2>1, <3>1 DEF RtInv, HealthyHere, Running
    <3> QED  BY <1>3, <3>1, <3>2
  <2> QED  BY <2>1 DEF HealthyThere, Importable
<1>8. misused' \in BOOLEAN /\ (misused' => importfailed')
  BY DEF Save, RtInv, RtTypes, HealthyHere, Healthy
<1>9. RtTypes'
  BY <1>4, <1>6, <1>8 DEF RtInv, RtTypes
<1> QED  BY <1>4, <1>5, <1>7, <1>8, <1>9
  DEF RtInv, HealthyHere, Running

LEMMA RestoreAcceptedInv == RtInv /\ RestoreAccepted => RtInv'
<1> SUFFICES ASSUME RtInv, RestoreAccepted PROVE RtInv'
  OBVIOUS
<1> DEFINE Restored(v, F) ==
      /\ objects' = ImportSequenceObjectStates(v.objects, v.failing, F)
      /\ handles' = handles - Released(Slots) + Cardinality(
           {i \in Slots : objects'[i].kind = "mldsa" /\ Usable(objects'[i])})
      /\ misused' = (misused \/ Strange(Slots))
      /\ failing' = (v.failing \/ F # {})
      /\ importfailed' = (importfailed \/ v.importfailed \/ F # {})
      /\ started' = v.started
      /\ halfonly' = v.halfonly
<1>1. \E v \in snapshot : \E F : Restored(v, F)
  BY DEF RestoreAccepted
<1>2. PICK v \in snapshot : \E F : Restored(v, F)
  BY <1>1
<1>3. PICK F : Restored(v, F)
  BY <1>2
<1>4. indexcache' = "empty" /\ UNCHANGED <<process, snapshot>>
  BY DEF RestoreAccepted, NvIndexCacheInit
<1>5. /\ process \in 1 .. MaxProcesses /\ v \in Snapshots
      /\ v.objects \in [Slots -> SlotStates] /\ v.failing \in BOOLEAN
  BY DEF RtInv, RtTypes, Snapshots
<1>6. /\ objects' \in [Slots -> SlotStates]
      /\ F = {} /\ Importable(v.objects) => Healthy'
  BY <1>3, <1>4, <1>5, ImportedSlots DEF Healthy, Usable
<1>7. handles' = Cardinality(Holding') /\ handles' \in Nat
  <2>1. Holding' = {i \in Slots : objects'[i].kind = "mldsa"
                                   /\ Usable(objects'[i])}
    BY <1>4 DEF Holding, Usable
  <2>2. IsFiniteSet(Holding')
    BY FS_Subset, RuntimeAssumption DEF Holding
  <2>3. Cardinality(Holding') \in Nat
    BY <2>2, FS_CardinalityType
  <2>4. handles' = Cardinality(Holding) - Cardinality(Holding)
                     + Cardinality(Holding')
    BY <1>3, <2>1, HoldingIsFinite DEF RtInv
  <2> QED  BY <2>3, <2>4, HoldingIsFinite
<1>8. misused' \in BOOLEAN /\ (misused' => importfailed')
  BY <1>3, NothingStrange DEF RtInv, RtTypes
<1>9. HealthyHere'
  <2>1. (Running' /\ ~halfonly') \/ ~importfailed' => F = {}
    BY <1>3 DEF Running
  <2>2. (Running' /\ ~halfonly') \/ ~importfailed' => Importable(v.objects)
    BY <1>3 DEF Running, RtInv, HealthyThere
  <2> QED  BY <1>6, <2>1, <2>2 DEF HealthyHere
<1>10. RtTypes'
  BY <1>3, <1>4, <1>5, <1>6, <1>7, <1>8 DEF RtInv, RtTypes, Snapshots
<1> QED  BY <1>4, <1>7, <1>8, <1>9, <1>10
  DEF RtInv, HealthyThere, Importable

LEMMA RtInvNext ==
  ASSUME RtInv, [RtNext]_rtvars
  PROVE  RtInv'
<1>1. CASE UNCHANGED rtvars
  BY <1>1, OtherSteps DEF rtvars, RtInv, RtTypes, Running
<1>2. CASE UseIndex
  BY <1>2, OtherSteps DEF UseIndex, RtInv, RtTypes, Running
<1>3. CASE LibraryFails
  BY <1>3, OtherSteps DEF LibraryFails, RtInv, RtTypes, Running
<1>4. CASE PowerCycle
  BY <1>4, OtherSteps DEF PowerCycle, RtInv, RtTypes, Running
<1>5. CASE RestoreRejected
  BY <1>5, OtherSteps DEF RestoreRejected, RtInv, RtTypes, Running
<1> QED  BY <1>1, <1>2, <1>3, <1>4, <1>5, StartSequenceInv, EndSequenceInv,
  StartupInv, RestartInv, SaveInv, RestoreAcceptedInv DEF RtNext

-----------------------------------------------------------------------------
\* The invariant: a library that runs, and one that no failed import led to,
\* has objects of its own process, and each handle belongs to one of them
\* (runtime_state.c).
THEOREM RuntimeInvariant == RtSpec => []RtInv
<1>1. RtInv /\ [RtNext]_rtvars => RtInv'
  BY RtInvNext
<1> QED  BY <1>1, RtInvInit, PTL DEF RtSpec

\* No command meets a sequence object with a context, a method table or a
\* handle of another process (SequenceDataImport and the method pointers in
\* ImportSequenceObjectStates).
THEOREM OfThisProcess == RtSpec => []SequencesAreOfThisProcess
<1>1. RtInv => SequencesAreOfThisProcess
  BY DEF RtInv, HealthyHere, Healthy, SequencesAreOfThisProcess
<1> QED  BY <1>1, RuntimeInvariant, PTL

\* No command meets an index cache that is older than the index data: the one
\* step that overwrites the data under a cache also drops it (NvIndexCacheInit
\* in INJECTED_ApplyRuntimeState).
THEOREM CacheIsCurrent == RtSpec => []IndexCacheIsCurrent
<1>1. RtInv => IndexCacheIsCurrent
  BY DEF RtInv, IndexCacheIsCurrent
<1> QED  BY <1>1, RuntimeInvariant, PTL

\* No restore leaks a handle or releases one twice (ObjectFlush before the
\* slots are overwritten, in INJECTED_ApplyRuntimeState).
THEOREM HandlesAreAccounted == RtSpec => []NoHandleLeaks
<1>1. RtInv => NoHandleLeaks
  BY DEF RtInv, Holding, NoHandleLeaks
<1> QED  BY <1>1, RuntimeInvariant, PTL
=============================================================================
