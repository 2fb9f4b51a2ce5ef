---------------------------- MODULE RuntimeState ----------------------------
(***************************************************************************)
(* Saving and restoring the C library (src/overrides/src/runtime_state.c,  *)
(* src/src/tpmlib_state.rs) inside a running process or across processes.  *)
(* Most of the library's globals are plain data.  Three are not: a         *)
(* sequence object holds pointers or a crypto handle of its process, the   *)
(* NV index cache points into the globals, and the failure flag lives in   *)
(* the platform, whose half of the state is restored first.                *)
(*                                                                         *)
(* SequenceDataExport, SequenceDataImport and ObjectFlush are the TPM      *)
(* library's own and are modelled from how runtime_state.c uses them: an   *)
(* import that fails enters failure mode, returns, and leaves its slot as  *)
(* it was.                                                                 *)
(***************************************************************************)
EXTENDS Integers, FiniteSetsExt

CONSTANTS
  Slots,          \* the indexes of s_objects
  MaxProcesses    \* bound: how often the process is started

ASSUME RuntimeAssumption ==
  /\ Slots \subseteq Nat /\ IsFiniteSet(Slots)
  /\ MaxProcesses \in Nat \ {0}

VARIABLES
  process,      \* which process this is, from 1
  objects,      \* s_objects
  started,      \* g_initialized: TPM2_Startup has run
  indexcache,   \* the NV index cache: "empty", or what it has of
                \* s_indexOrderlyRam is "current" or "stale"
  failing,      \* the platform's failure flag
  handles,      \* how many crypto handles the process holds
  snapshot,     \* the host's saved state, a set of at most one
  halfonly,     \* history: the last restore stopped before the library's half
  importfailed, \* history: an import failed in this process
  misused       \* history: a context or handle was used that is not of here

rtvars == <<process, objects, started, indexcache, failing, handles,
            snapshot, halfonly, importfailed, misused>>

\* A hash context ("smac": one that holds method pointers) or an ML-DSA
\* handle.  mldsascheme: signScheme.scheme reads TPM_ALG_MLDSA, which for a
\* "smac" is left from a former tenant of the slot (for a "hash", where nothing
\* depends on it, it is FALSE).  home: the process
\* whose pointers the slot holds; None where the exported form has none, and
\* Corrupt after an export of something that could not be exported.
None == 0
Corrupt == -1

Free ==
  [kind |-> "free", mldsascheme |-> FALSE, exported |-> FALSE, home |-> None]

SlotStates ==
  [kind : {"free", "hash", "smac", "mldsa"}, mldsascheme : BOOLEAN,
   exported : BOOLEAN, home : Corrupt .. MaxProcesses]

\* What TPM2_HashSequenceStart, HMAC_Start and the ML-DSA sequences put there.
NewSequences ==
  {s \in SlotStates :
     /\ s.kind # "free" /\ ~s.exported /\ s.home = process
     /\ s.kind = "hash" => ~s.mldsascheme
     /\ s.kind = "mldsa" => s.mldsascheme}

\* ObjectIsSequence of an occupied slot
IsSequence(s) == s.kind # "free"
Usable(s) == ~s.exported /\ s.home = process

Fresh ==
  /\ objects' = [i \in Slots |-> Free]
  /\ started' = FALSE
  /\ indexcache' = "empty"
  /\ failing' = FALSE
  /\ handles' = 0
  /\ halfonly' = FALSE /\ importfailed' = FALSE /\ misused' = FALSE

RtInit ==
  /\ process = 1
  /\ objects = [i \in Slots |-> Free]
  /\ started = FALSE
  /\ indexcache = "empty"
  /\ failing = FALSE
  /\ handles = 0
  /\ snapshot = {}
  /\ halfonly = FALSE /\ importfailed = FALSE /\ misused = FALSE

-----------------------------------------------------------------------------
(* The library between saves and restores                                  *)

Running == started /\ ~failing

\* AllocateSequenceSlot leaves the scheme of its slot as it finds it.
StartSequence ==
  /\ Running
  /\ \E i \in Slots, s \in NewSequences :
       /\ objects[i].kind = "free"
       /\ objects' = [objects EXCEPT ![i] = s]
       /\ handles' = handles + (IF s.kind = "mldsa" THEN 1 ELSE 0)
  /\ UNCHANGED <<process, started, indexcache, failing, snapshot,
                 halfonly, importfailed, misused>>

\* Slots that are overwritten and not flushed.
ReleasedNone(I) == 0

\* How many handles of this process ObjectFlush releases in the slots I,
Released(I) ==
  Cardinality({i \in I : objects[i].kind = "mldsa" /\ Usable(objects[i])})

\* and whether it meets something there that is not one of them.
Strange(I) ==
  \E i \in I : objects[i].kind = "mldsa" /\ ~Usable(objects[i])

Flush(I) ==
  /\ handles' = handles - Released(I)
  /\ misused' = (misused \/ Strange(I))

EndSequence ==
  /\ Running
  /\ \E i \in Slots :
       /\ IsSequence(objects[i])
       /\ Flush({i})
       /\ objects' = [objects EXCEPT ![i] = Free]
  /\ UNCHANGED <<process, started, indexcache, failing, snapshot,
                 halfonly, importfailed>>

\* A command reads or writes an orderly index: it fills the cache, or takes
\* what the cache has.
UseIndex ==
  /\ Running
  /\ indexcache' = IF indexcache = "empty" THEN "current" ELSE indexcache
  /\ UNCHANGED <<process, objects, started, failing, handles, snapshot,
                 halfonly, importfailed, misused>>

LibraryFails ==
  /\ Running
  /\ failing' = TRUE
  /\ UNCHANGED <<process, objects, started, indexcache, handles,
                 snapshot, halfonly, importfailed, misused>>

\* MsTpm185Platform::reset leaves the object slots to TPM2_Startup.
PowerCycle ==
  /\ failing' = FALSE
  /\ started' = FALSE
  /\ UNCHANGED <<process, objects, indexcache, handles, snapshot, halfonly,
                 importfailed, misused>>

Startup ==
  /\ ~started /\ ~failing
  /\ started' = TRUE
  /\ Flush(Slots)
  /\ objects' = [i \in Slots |-> Free]
  /\ indexcache' = "empty"
  /\ halfonly' = FALSE
  /\ UNCHANGED <<process, failing, snapshot, importfailed>>

\* The process ends, and the host starts another.
Restart ==
  /\ process < MaxProcesses
  /\ process' = process + 1
  /\ Fresh
  /\ UNCHANGED snapshot

-----------------------------------------------------------------------------
(* Save                                                                    *)

\* SequenceDataExport: the exported form of an SMAC context keeps its method
\* pointers.
Export(s) ==
  IF ~IsSequence(s) THEN s
  ELSE [s EXCEPT !.exported = TRUE,
                 !.home = IF ~Usable(s) THEN Corrupt
                          ELSE IF s.kind = "smac" THEN s.home ELSE None]

\* get_runtime_state, INJECTED_GetRuntimeState, and the platform's half
Save ==
  /\ snapshot' = {[objects |-> [i \in Slots |-> Export(objects[i])],
                   started |-> started,
                   failing |-> failing, halfonly |-> halfonly,
                   importfailed |-> importfailed]}
  /\ misused' = (misused \/
       \E i \in Slots : IsSequence(objects[i]) /\ ~Usable(objects[i]))
  /\ UNCHANGED <<process, objects, started, indexcache, failing,
                 handles, halfonly, importfailed>>

-----------------------------------------------------------------------------
(* Restore                                                                 *)

\* The test for an ML-DSA sequence by the scheme alone.
HoldsHandleByScheme(s) == s.mldsascheme

\* signSeq or verifySeq is set, and the scheme is ML-DSA.
HoldsHandle(s) == s.kind = "mldsa" /\ s.mldsascheme

\* SequenceDataImport: contexts and handles are of this process again, but the
\* method pointers of an SMAC context.
Import(s) ==
  [s EXCEPT !.exported = FALSE,
            !.home = IF s.kind = "smac" \/ s.home = Corrupt THEN @ ELSE process]

\* The method pointers are set, unless the slot holds a handle.
Rebind(s) ==
  IF s.kind = "smac" /\ ~HoldsHandle(s) /\ s.home # Corrupt
  THEN [s EXCEPT !.home = process] ELSE s

\* ImportSequenceObjectStates of the slots image, where the imports of the
\* sequences F fail: it stops at the first failure it sees, and sees none when
\* the platform is in failure mode already.
ImportSequenceObjectStates(image, wasfailing, F) ==
  LET reached == IF wasfailing \/ F = {} THEN Slots
                 ELSE {i \in Slots : i < Min(F)}
  IN  [i \in Slots |->
         IF i \notin reached \/ ~IsSequence(image[i]) THEN image[i]
         ELSE Rebind(IF i \in F THEN image[i] ELSE Import(image[i]))]

\* The blob is copied over s_indexOrderlyRam, which the cache points into and
\* which is part of it; the cache is not.
Overwritten(cache) == IF cache = "empty" THEN "empty" ELSE "stale"

\* The cache as the copy leaves it.
NvIndexCacheKept(cache) == cache

\* The cache is dropped.
NvIndexCacheInit(cache) == "empty"

\* restore_state, INJECTED_ApplyRuntimeState with return value 0 or 4
RestoreAccepted ==
  /\ \E v \in snapshot :
     \E F \in SUBSET {i \in Slots : IsSequence(v.objects[i])} :
       /\ objects' = ImportSequenceObjectStates(v.objects, v.failing, F)
       /\ handles' = handles - Released(Slots) + Cardinality(
            {i \in Slots : objects'[i].kind = "mldsa" /\ Usable(objects'[i])})
       /\ misused' = (misused \/ Strange(Slots))
       /\ failing' = (v.failing \/ F # {})
       /\ importfailed' = (importfailed \/ v.importfailed \/ F # {})
       /\ started' = v.started
       /\ halfonly' = v.halfonly
  /\ indexcache' = NvIndexCacheInit(Overwritten(indexcache))
  /\ UNCHANGED <<process, snapshot>>

\* restore_state, INJECTED_ApplyRuntimeState with return value 2 or 3: the
\* platform's half of a state saved by another revision is in force.
RestoreRejected ==
  /\ failing' \in BOOLEAN
  /\ halfonly' = TRUE
  /\ UNCHANGED <<process, objects, started, indexcache, handles,
                 snapshot, importfailed, misused>>

RtNext ==
  \/ StartSequence \/ EndSequence \/ UseIndex \/ LibraryFails
  \/ PowerCycle \/ Startup \/ Restart
  \/ Save \/ RestoreAccepted \/ RestoreRejected

RtSpec == RtInit /\ [][RtNext]_rtvars

-----------------------------------------------------------------------------
(* Properties                                                              *)

\* A library that executes commands has no pointer or handle that is not of its
\* own process in the contexts and method pointers of its sequence objects,
\* whatever was saved where and whichever imports failed; only a restore that
\* stopped between its two halves is excepted.
\* (runtime_state.c:165-259, 329-390)
SequencesAreOfThisProcess ==
  Running /\ ~halfonly =>
    \A i \in Slots : IsSequence(objects[i]) => Usable(objects[i])

\* What a command finds in the NV index cache describes the index data of now:
\* no restore leaves an entry of the data it replaced, whatever this process
\* had cached, and whether or not the sequences were imported afterwards.
\* (runtime_state.c:373-386)
IndexCacheIsCurrent == indexcache # "stale"

\* The process holds as many crypto handles as its objects refer to: a restore
\* neither leaks those it overwrites nor releases one twice; and nothing that
\* is not a context or handle of this process is flushed or exported, unless an
\* import failed on the way to the current state.
\* (runtime_state.c:165-191, 364-371)
NoHandleLeaks ==
  /\ handles = Cardinality(
       {i \in Slots : objects[i].kind = "mldsa" /\ Usable(objects[i])})
  /\ misused => importfailed
=============================================================================
