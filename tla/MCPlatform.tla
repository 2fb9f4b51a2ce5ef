------------------------------ MODULE MCPlatform ------------------------------
(* Platform for TLC.                                                       *)
EXTENDS Platform

CONSTANTS i1, i2, f1, f2

\* A blob that is a TPM's NV memory, and one of the wrong length.
MCBlobs == {[img |-> i1, full |-> TRUE], [img |-> i1, full |-> FALSE]}

\* The state of a TPM with this region, saved between two commands.
SavedWith(region, accepted) ==
  [plat |-> [NewPlatform EXCEPT !.nv = region, !.is_init = TRUE,
                                !.primed = TRUE],
   lib |-> [nv |-> region.img, power |-> "lost", primed |-> TRUE],
   accepted |-> accepted]

\* Saved by a build with another NV_MEMORY_SIZE, same runtime state revision.
MCOtherSize == {SavedWith([img |-> i1, full |-> FALSE], TRUE)}

\* Saved by a build with another runtime state revision.
MCOtherRevision == {SavedWith([img |-> i2, full |-> TRUE], FALSE)}
=============================================================================
