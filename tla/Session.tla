-------------------------------- MODULE Session --------------------------------
(***************************************************************************)
(* The one conversation with the TPM library that a process can have       *)
(* (src/plat/mod.rs): a platform is inserted, the library is entered by    *)
(* one call after the other, the platform is dropped or lost.              *)
(* Singleton implements it for any number of threads, Platform for the     *)
(* state behind them: what justifies that Platform has one thread.         *)
(***************************************************************************)
CONSTANT Crashes   \* TRUE: the process may die and start again

\* "none": no platform.  "ready": no thread is inside the library.  "lost": the
\* platform stays and nobody has its handle.  The others: inside
\* TPM_Manufacture, _TPM_Init, ExecuteCommand, or the saving or restoring of
\* the library's half of a runtime state.
VARIABLE call

Init == call = "none"

\* initialize, which manufactures a TPM or starts one from a blob.
Insert == call = "none" /\ call' \in {"manufacture", "init"}

\* initialize goes on to _TPM_Init, or gives up and leaves the platform behind.
Manufactured == call = "manufacture" /\ call' \in {"init", "lost"}

\* A method of the handle.
Enter == call = "ready" /\ call' \in {"init", "execute", "state"}

Leave == call \in {"init", "execute", "state"} /\ call' = "ready"

\* The handle goes, and its platform with it unless drop panics.
Drop == call = "ready" /\ call' \in {"none", "lost"}

Die == Crashes /\ call' = "none"

Next == Insert \/ Manufactured \/ Enter \/ Leave \/ Drop \/ Die

Spec == Init /\ [][Next]_call
=============================================================================
