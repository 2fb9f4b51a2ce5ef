----------------------------- MODULE MCRestore -----------------------------
(***************************************************************************)
(* The two halves of a restore, explored side by side: the platform under  *)
(* states of another build, and the library's globals across processes.    *)
(* They share no state: RuntimeState has what it needs of the platform's   *)
(* half, the failure flag and whether the library's half followed.         *)
(***************************************************************************)
EXTENDS MCPlatform, RuntimeState

VARIABLE part   \* the half that moves

Halves == {"platform", "library"}

RestoreInit == part \in Halves /\ Init /\ RtInit

RestoreNext ==
  /\ UNCHANGED part
  /\ IF part = "platform" THEN Next ELSE UNCHANGED vars
  /\ IF part = "library" THEN RtNext ELSE UNCHANGED rtvars

RestoreSpec == RestoreInit /\ [][RestoreNext]_<<part, vars, rtvars>>
=============================================================================
