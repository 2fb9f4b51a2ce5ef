-------------------------- MODULE SingletonOwnership --------------------------
(***************************************************************************)
(* Singleton, with its mutex, its program counters and its callbacks,      *)
(* implements Ownership and Session: the refinement mappings.              *)
(***************************************************************************)
EXTENDS Singleton

CONSTANTS Free, Lost

ASSUME FreeLostAssumption ==
  Free \notin Threads /\ Lost \notin Threads /\ Free # Lost

holderMap ==
  IF ~platform THEN Free
  ELSE IF \E t \in Threads : Claims(t) THEN CHOOSE t \in Threads : Claims(t)
  ELSE Lost

grantedMap == \E t \in Threads : owned[t] = 1

O == INSTANCE Ownership WITH holder <- holderMap, granted <- grantedMap

\* Whatever threads do, the platform passes between its users only as the
\* documentation of MsTpm185Platform says: claimed when free, granted to its
\* claimer, transferred, released by its owner, or lost for good.
OwnershipSpec == O!Spec

-----------------------------------------------------------------------------
\* The call that a thread inside the library is in.
CallOf(stage) ==
  CASE stage \in {"tpm_init", "reset_init"}   -> "init"
    [] stage \in {"get_state", "apply_state"} -> "state"
    [] OTHER -> stage

callMap ==
  IF ~platform THEN "none"
  ELSE IF Orphaned THEN "lost"
  ELSE IF \E t \in Threads : pc[t] \in InC
       THEN CallOf(pc[CHOOSE t \in Threads : pc[t] \in InC])
  ELSE "ready"

S == INSTANCE Session WITH call <- callMap, Crashes <- FALSE

\* All threads together have one conversation with the library: entered and
\* left call by call, begun by an initialize that found no platform, ended by
\* the drop of the handle; a platform that is lost ends it for good.
SessionSpec == S!Spec
=============================================================================
