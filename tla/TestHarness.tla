----------------------------- MODULE TestHarness -----------------------------
(***************************************************************************)
(* The sample program (src/test-harness/src/main.rs): it keeps the NV      *)
(* region of one platform in a file.  The file is created on the first     *)
(* start, read whole on every later one, and overwritten in place by       *)
(* commit_nv_state: rewind, then write_all, which may take any number of   *)
(* writes.  The process may die between any two of these steps.            *)
(*                                                                         *)
(* What was written is in the file when the process dies: the program does *)
(* not sync, and the loss of power is not modelled.                        *)
(***************************************************************************)
EXTENDS Integers, Sequences

CONSTANTS
  Size,     \* NV_MEMORY_SIZE
  Bytes,    \* the values of a byte of the region
  Zero,     \* the byte a new region is filled with
  NoFile

ASSUME HarnessAssumption == Size \in Nat \ {0} /\ Zero \in Bytes

Images == [1 .. Size -> Bytes]
Files == UNION {[1 .. n -> Bytes] : n \in 0 .. 2 * Size}

ASSUME NoFileAssumption == NoFile \notin Files

VARIABLES
  file,      \* the content of the file, or NoFile
  pos,       \* the position of the program's file handle
  phase,     \* where main is
  region,    \* the NV region of the platform
  done,      \* how much of the image write_all has written
  before,    \* history: the file when the last commit began
  attempt,   \* history: the image the last commit was given
  clean,     \* history: the last commit returned Ok
  ever       \* history: some commit returned Ok

vars == <<file, pos, phase, region, done, before, attempt, clean, ever>>
commitVars == <<done, before, attempt, clean, ever>>

\* "off": not running; "created" or "opened": main has the file;
\* "lib": inside initialize or a command; "commit": inside commit_nv_state.
Phases == {"off", "created", "opened", "lib", "commit"}

BlankRegion == [i \in 1 .. Size |-> Zero]

Init ==
  /\ file = NoFile
  /\ pos = 0
  /\ phase = "off"
  /\ region = BlankRegion
  /\ before = <<>>
  /\ attempt = BlankRegion
  /\ done = 0
  /\ clean = FALSE
  /\ ever = FALSE

-----------------------------------------------------------------------------
(* main                                                                    *)

\* File::create
CreateFile ==
  /\ phase = "off" /\ file = NoFile
  /\ file' = <<>>
  /\ pos' = 0
  /\ phase' = "created"
  /\ UNCHANGED <<region, commitVars>>

\* OpenOptions::open, and read_to_end, which leaves the handle at the end
OpenFile ==
  /\ phase = "off" /\ file # NoFile
  /\ pos' = Len(file)
  /\ phase' = "opened"
  /\ UNCHANGED <<file, region, commitVars>>

InitializeCold ==
  /\ phase = "created"
  /\ region' = BlankRegion
  /\ phase' = "lib"
  /\ UNCHANGED <<file, pos, commitVars>>

InitializeFromFile ==
  /\ phase = "opened" /\ Len(file) = Size
  /\ region' = file
  /\ phase' = "lib"
  /\ UNCHANGED <<file, pos, commitVars>>

\* MismatchedBlobSize, and the unwrap panics.
InitializeRefused ==
  /\ phase = "opened" /\ Len(file) # Size
  /\ phase' = "off"
  /\ UNCHANGED <<file, pos, region, commitVars>>

\* The library writes to its NV memory.
LibraryWrites ==
  /\ phase = "lib"
  /\ \E i \in 1 .. Size, b \in Bytes : region' = [region EXCEPT ![i] = b]
  /\ UNCHANGED <<file, pos, phase, commitVars>>

\* main returns, a command fails and main panics, or the process is killed:
\* nothing is written on the way out.
Stop ==
  /\ phase # "off"
  /\ phase' = "off"
  /\ UNCHANGED <<file, pos, region, commitVars>>

-----------------------------------------------------------------------------
(* commit_nv_state                                                         *)

\* A commit that writes on from where the last read or write ended.
RewindNot == pos' = pos

Rewind == pos' = 0

CommitStart ==
  /\ phase = "lib"
  /\ Rewind
  /\ before' = file
  /\ attempt' = region
  /\ done' = 0
  /\ clean' = FALSE
  /\ phase' = "commit"
  /\ UNCHANGED <<file, region, ever>>

\* A commit that truncates the file, as fs::write would.
OverwriteTruncates(f, p, data) == SubSeq(f, 1, p) \o data

\* What is in the file after a write of data at the position p.
Overwrite(f, p, data) ==
  SubSeq(f, 1, p) \o data \o SubSeq(f, p + Len(data) + 1, Len(f))

\* write in the place of write_all.
WriteOnce ==
  /\ phase = "commit"
  /\ \E n \in 1 .. Size - done :
       /\ file' = Overwrite(file, pos, SubSeq(attempt, done + 1, done + n))
       /\ pos' = pos + n
       /\ done' = done + n
  /\ clean' = TRUE
  /\ ever' = TRUE
  /\ phase' = "lib"
  /\ UNCHANGED <<region, before, attempt>>

\* write_all: one write takes some of the bytes that are left, at least one.
Write ==
  /\ phase = "commit"
  /\ \E n \in 1 .. Size - done :
       /\ file' = Overwrite(file, pos, SubSeq(attempt, done + 1, done + n))
       /\ pos' = pos + n
       /\ done' = done + n
  /\ clean' = (done' = Size)
  /\ ever' = (ever \/ clean')
  /\ phase' = IF clean' THEN "lib" ELSE "commit"
  /\ UNCHANGED <<region, before, attempt>>

\* A failed write starts the commit over.
CommitRetries ==
  /\ phase = "commit"
  /\ pos' = 0
  /\ done' = 0
  /\ UNCHANGED <<file, phase, region, before, attempt, clean, ever>>

\* rewind or a write fails: commit_nv_state returns the error.
CommitFails ==
  /\ phase = "commit"
  /\ phase' = "lib"
  /\ UNCHANGED <<file, pos, region, commitVars>>

CommitStep == Write \/ CommitFails

Next ==
  \/ CreateFile \/ OpenFile
  \/ InitializeCold \/ InitializeFromFile \/ InitializeRefused
  \/ LibraryWrites \/ Stop
  \/ CommitStart \/ Write \/ CommitFails

\* The operating system answers every call of commit_nv_state.
Spec == Init /\ [][Next]_vars /\ WF_vars(CommitStep)

-----------------------------------------------------------------------------
(* Properties                                                              *)

\* Wherever the process dies, the file holds some first bytes of the image of
\* the last commit and after them what was there before: a torn commit mixes
\* two images at one place, and never loses, moves or adds a byte.
\* (commit_nv_state, main.rs:25-30)
FileIsSplice ==
  file # NoFile =>
    \E k \in 0 .. Size :
      file = SubSeq(attempt, 1, k) \o SubSeq(before, k + 1, Len(before))

\* A commit that returned Ok is what the next start loads, whatever happens in
\* between but another commit.  (main.rs:25-30 and 78-95)
CommittedIsLoaded ==
  [][InitializeFromFile /\ clean => region' = attempt]_vars

\* Once a commit has returned Ok, no start is refused again, however many
\* later commits are torn by a crash.  (main.rs:25-30 and 78-95)
CommittedOnceAlwaysStarts ==
  [][ever => ~InitializeRefused]_vars

\* Every commit returns to the library.  (main.rs:25-30)
CommitReturns == phase = "commit" ~> phase # "commit"
=============================================================================
