------------------------------- MODULE NvDevice -------------------------------
(***************************************************************************)
(* What the NV memory promises to the TPM library and to the host          *)
(* (src/plat/api/nvmem.rs, PlatformCallbacks::commit_nv_state): contents   *)
(* that change only when the running library writes them or the host loads *)
(* or restores them, and a durable copy that is always a whole image of    *)
(* the device.  A power cycle only enters the library: the contents do not *)
(* notice it.  Blank is what a device is made of, nothing ever writes it.  *)
(***************************************************************************)
CONSTANTS Images, Blank, NoDevice, NoCopy,
          Elsewhere   \* the images inside the saved states of elsewhere

VARIABLES contents,   \* the device's image, or NoDevice
          running,    \* TRUE: the TPM library is running
          durable,    \* the copy the host persisted last, or NoCopy
          saved       \* the image inside the host's saved state, or NoCopy

vars == <<contents, running, durable, saved>>

Init ==
  /\ contents = NoDevice /\ running = FALSE
  /\ durable = NoCopy /\ saved = NoCopy

\* A device manufactured from nothing.
Fresh ==
  /\ contents = NoDevice /\ contents' = Blank
  /\ ~running /\ running' = TRUE
  /\ UNCHANGED <<durable, saved>>

\* A new device, or the one that is there, gets its contents from a blob of
\* the host: one it knows, or its durable copy.
Load ==
  /\ \/ contents' \in Images
     \/ durable # NoCopy /\ contents' = durable
  /\ ~running /\ running' = TRUE
  /\ UNCHANGED <<durable, saved>>

\* The library is entered, to execute a command or after a power cycle.
Enter ==
  /\ contents # NoDevice
  /\ ~running /\ running' = TRUE
  /\ UNCHANGED <<contents, durable, saved>>

Leave ==
  /\ running /\ running' = FALSE
  /\ UNCHANGED <<contents, durable, saved>>

\* The library changes what is stored.
Write ==
  /\ running /\ contents' \in Images
  /\ UNCHANGED <<running, durable, saved>>

Commit ==
  /\ running /\ durable' = contents
  /\ UNCHANGED <<contents, running, saved>>

Save ==
  /\ contents # NoDevice /\ ~running /\ saved' = contents
  /\ UNCHANGED <<contents, running, durable>>

Restore ==
  /\ contents # NoDevice /\ ~running
  /\ \/ saved # NoCopy /\ contents' = saved
     \/ contents' \in Elsewhere
  /\ UNCHANGED <<running, durable, saved>>

\* The handle is dropped or the process dies.
Vanish ==
  /\ contents' = NoDevice /\ running' = FALSE
  /\ UNCHANGED <<durable, saved>>

Next == \/ Fresh \/ Load \/ Enter \/ Leave \/ Write \/ Commit
        \/ Save \/ Restore \/ Vanish

Spec == Init /\ [][Next]_vars
=============================================================================
