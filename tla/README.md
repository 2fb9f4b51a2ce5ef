# A TLA+ model of ms-tcg-tpm-sys

`ms-tcg-tpm-sys` wraps the TCG TPM reference library (C, single threaded, full
of globals) in a Rust crate. The crate supplies the `_plat__*` functions that
the C library calls (`src/src/plat/api/*.rs`), keeps their state in one global,
and hands the embedding program (the *host*) a handle with a safe API
(`src/src/plat/mod.rs`). This directory models that Rust layer and the C hooks
in `src/overrides/src/runtime_state.c`, checks it with TLC and proves the main
results with TLAPS. The C library itself is an empty submodule here: it is
external, and modelled by what `src/` shows of it. Paths below are relative to
the repository, which the modules and `PROJECT.json` see under `src/`.

## Inventory

| component | state | operations | talks to |
|---|---|---|---|
| singleton and handle (`src/plat/mod.rs`, `src/plat/api.rs`) | `PLATFORM: Mutex<Option<..>>`, the handle (`Send`, not `Sync`) | `initialize`, `reset`, `execute_command`, `save_state`, `restore_state`, `set_cancel_flag`, `set_locality`, `drop`; `platform!()` in every callback | host threads; the C library, which calls back on the same thread |
| NV memory (`nvmem.rs`) | the region, `is_init` | enable, enable from blob, disable, commit; read, compare, write, clear, move of byte ranges | host callback `commit_nv_state` |
| power (`power_plat.rs`) | `power_lost` | power on (resets the clock, enables NV), power off, was-power-lost | NV memory, clock |
| failure mode (`failure.rs`, `init.rs`) | location, code, flag | fail (first wins), reset at `_TPM_Init`, queries | runtime state import |
| cancel, locality (`cancel.rs`, `locality.rs`) | a flag, a byte | set by the host, read by the library | |
| command execution (`plat/mod.rs`) | none of its own | header check, truncation, the response pointer and its copy | the C library |
| PCR initialization (`pcr.rs`) | none; a table | attributes, active banks, initial values | the C library's buffers |
| clock (`clock.rs`) | rate, flags, four registers | read, adjust, was-reset, was-stopped | host callback `monotonic_timer` |
| entropy (`entropy.rs`) | previous block | prime, draw with health test | host callback `get_crypt_random` |
| runtime state (`tpmlib_state.rs`, `runtime_state.c`) | the C globals in a table; sequence objects, crypto handles, the NV index cache | get (with sequence export), apply (with flush, import, method pointers) | failure mode |
| test harness (`test-harness/src/main.rs`) | the nvram file | start, commit, smoke test | the whole crate |
| build script (`build.rs`) | `OUT_DIR` over all builds | compile, choose the layout, rename symbols, link | CMake, nm, objcopy, Cargo |
| virtual NV, vendor info, physical presence, self test | none | constants and stubs | |
| profile headers, scripts | none at run time | configuration, downloads | |

What is hard here. *Concurrency*: the mutex is never waited for, only
`try_lock`-ed, and a failure is an error in `initialize`, a panic in a method,
an abort in a callback; the guard must be gone before the C library is entered.
*Partial failure*: a failed `TPM_Manufacture`, a rejected blob in `reset`, a
restore that fails half way. *Restarts*: a power cycle that must not lose NV
memory, crashes between write and commit, states restored in another process.
*Numbers*: the clock's rounding, and registers that came from another timer.
*Protocol*: the C library relies on NV memory being enabled, a power loss being
reported once, and entropy being primed; sequence objects hold pointers and
handles of their process, which a saved state may not carry into another.
*Leavings*: a file or a directory in which an interrupted program left half its
work. `PROJECT.json` lists the hazards at
their lines, each with the properties that would catch it.

What makes each component correct: one user of the library at a time, no call
before initialization or after drop, every call returns (singleton); the
library's view of NV memory is the platform's, and only writes, loads and
restores change it (NV, power, runtime state); the first failure is the one
reported; host inputs stay the host's; time never goes back, loses nothing it
counted, and keeps to the rate (clock); the source is primed before it is drawn
from, no block is used twice in a row and every byte is the host's as far as
the crate can tell (entropy);
an access touches the bytes it names and no others (NV accesses); nothing of
another process is used, leaked or released twice (runtime state); the library
sees what the host gave and the host gets a whole answer (commands); a PCR
starts as its attributes say; what was committed is loaded, and no crash makes
the sample program unable to start again once it has committed (test harness);
one layout, renamed by one list (build script).

## Modules

| module | what it is |
|---|---|
| `Ownership` | abstract: the platform is free, claimed, granted, transferred, released, or lost |
| `Session` | abstract: one conversation with the library, call by call, for both `Singleton` and `Platform` |
| `Singleton` | the mutex, the `Option`, the handle and every thread's place in the crate |
| `SingletonOwnership` | the refinement mappings of `Singleton` to `Ownership` and `Session` |
| `NvDevice` | abstract: NV contents, the running library, the durable copy, the saved copy |
| `Platform` | the platform state, the host's calls, the callbacks, crashes; refines `NvDevice` and `Session` |
| `Clock` | `ClockState` with its exact integer arithmetic |
| `NvMem` | the five accesses to NV memory, byte by byte |
| `Entropy` | `EntropyState`, the host's pieces, the health test |
| `RuntimeState` | what is not plain data in the C globals, saved and restored |
| `Command` | one command in and out, and the locality |
| `Pcr` | the queries of `pcr.rs` |
| `TestHarness` | the sample program, its file, and crashes |
| `BuildScript`, `BuildNames` | builds in one `OUT_DIR`; the renaming of symbols |
| `MCSingleton`, `MCPlatform`, `MCClock` | constants for TLC |
| `MCRestore` | `Platform` and `RuntimeState`, the two halves of a restore, side by side |
| `MCParts` | seven components that share no state, side by side |
| `SingletonProofs`, `PlatformProofs`, `ClockProofs`, `NvMemProofs`, `EntropyProofs`, `RuntimeStateProofs`, `TestHarnessProofs`, `PartsProofs` | the theorems; `PartsProofs` has those of `Command`, `BuildScript`, `BuildNames` and `Pcr` |

### Singleton

`mutex` is the owner of `PLATFORM`'s guard, `platform` whether the `Option` is
`Some`, `owned[t]` the handles thread `t` owns, `pc[t]` its place in the crate.
A critical section is two steps, taking the guard and working under it, so that
another thread's `try_lock` can fail in between. `InitLock`, `InitBody`,
`ManufactureReturns` and `InitReturns` are the four parts of `initialize`; the
`Handle*` actions are the methods (`reset_lock`, `reset_body`, `reset_init` are
the three places of `reset`, and so on); `DropLock` and `DropBody` are
`Drop::drop`, also when it runs while a panic unwinds; `Callback*` are what
`platform!()` does inside the C library. `Move` is `Send`. Every `pc` in `InC`
is inside the C library, where any number of callbacks may follow.

A call can panic for three reasons. *Access*: `try_lock` fails in a method
(`HandlePanics`), in `drop` (`DropLock`) or in a callback (`CallbackAborts`,
where the `Option` may also be `None`); this is what the module's properties are
about. *The answer*: `execute_command_unchecked` panics on a pointer or size it
cannot use (`AnswerPanics`; `Command` says which). *Work under the guard*: a
callback overflows in `timer_read` or fails the assertion of `get_entropy`
(`CallbackPanics`; `Clock` and `Entropy` say when), and aborts the process. A
thread alone meets the last two. `Unwinds` is a panic that the program catches,
keeping the handle, or that drops the handle on its way.

Assumed: `initialize`, `drop` and the methods of the handle do not panic while
they hold the guard, so that the mutex is never poisoned; host callbacks do not
call the crate. Left out: `init_symcrypt`.

### Platform

`plat` is `MsTpm185PlatformState` without the clock, or `NoPlatform`; an NV
region is an image and whether it has the right length. `lib` keeps of the C
globals what they learned from the platform: the NV image they were computed
from, the answer about power, and whether entropy was primed. `call` is what
the handle is doing, `disk` the region `commit_nv_state` got last, `saved` the
last saved state. A method of the Rust state (`NvEnable`, `SignalPowerOn`,
`Fail`...) is an operator from state to state, and an action composes them in
the order of the code: `Reset` is `SignalPowerOn` of the region claimed after
`SignalPowerOff`; `ResetWithBlob` has the early return that leaves the device
off; `RestoreState` installs the platform's half whatever
`ApplyRuntimeState` then does. One thread suffices here: `Singleton` shows
that only one is ever inside, and both modules implement `Session`, the protocol
in which the calls follow each other. `Singleton` has the interleavings, and
`Platform` what the calls do to the state; that `Platform` makes no call
outside the protocol, and that threads keep to it, are two theorems about one
abstract module. Calls refused before they change anything are stuttering steps.

`primed` stands for `previous_block.is_some()`. A priming that fails returns -1
and leaves the block as it was (`PlatPrimeEntropy`); nothing here says that the
library draws no more after that, so it may, and where there is no block the
assertion of `get_entropy` ends the process (`PlatGetEntropyAborts`).

External, from how `src/` uses it: `TPM_Manufacture` primes entropy anew and
may write and commit NV memory; `_TPM_Init` calls `_plat__StartTpmInit` first,
asks about the power loss, and computes its globals from NV memory; both may
prime the source again, and any call may draw; a command
may write, commit and fail; the library never writes an all-zero image. Its
globals survive the drop of the handle and not a crash.

### Clock

Every register of `ClockState`, in integers, with the two floor divisions of
`timer_read`. `Started`, `Reported` and `Advanced` are the three parts of a
read; `ReadWraps` is the case in which `wrapping_sub` wraps, after which every
build panics (the module's comment says why). `Tick` is the host's timer,
`Migrate` a restore in a process whose timer shows anything.

### NvMem

`nvregion` is the region as a function on its offsets, `nvcall` the last call
with its arguments and result, `nvaborted` a panic in an `extern "C"` function.
`NvMemoryRead`, `NvGetChangedStatus`, `NvMemoryWrite`, `NvMemoryClear` and
`NvMemoryMove` are the five functions. Offsets and lengths are `u32`, their sums
`usize`: `Plus` has the width of the sum, so that a sum in 32 bits would show.
`CopyPanics` is when `copy_within` panics, next to `MoveFits`, the tests the
code makes before. The data pointers the library passes are taken to be valid.
For `Platform`, each of these calls is one write of an image.

### Entropy

`previous` is `previous_block`, `block` and `written` the block that
`read_entropy_block` collects, one `CallbackReturns` or `CallbackFails` for each
call of `get_crypt_random`. `Draw` and `Prime` are what `get_entropy` and
`initialize_entropy` do when it is complete. The callback is external: it writes
any of the bytes of its slice, returns any length, and the two need not agree.
The crate believes a length in range, and passes on what the buffer held where
the callback wrote less than it said: `NoopPlatformCallbacks` of `lib.rs` is
such a callback, which writes one byte and returns `buf.len()`. A byte nobody
wrote is 0, which no host byte is, so that it would be seen; `shortfall`
remembers the positions that a length in range covered and the call did not
write, and `EveryByteFromHost` excepts exactly these. The block is collected
before the comparison and dropped if it is equal. A draw before any block is
kept ends the process, and `Restart` is the next one. `EntropySave` and
`EntropyRestore` carry `previous` along with the platform's half of a state.

### RuntimeState

Most of the table in `runtime_state.c` is plain data, which `Platform` treats as
one value. This module has what is not: `objects`, the sequence objects with
their contexts, method pointers and ML-DSA handles (`home` is the process they
belong to), `handles`, which the process holds, `indexcache`, whether the NV
index cache has entries and whether they are of the index data of now (a restore
copies other data under them, `Overwritten`), and `failing`, the platform's
failure flag that `ImportSequenceObjectStates` reads after the
platform's half is in force. `Export`, `Import` and `Rebind` are
`SequenceDataExport`, `SequenceDataImport` and the method pointers set after it;
`Rebind` asks `HoldsHandle`, because the scheme of a slot is whatever its last
tenant left. `RestoreAccepted` is a restore in which the sequences `F` fail to
import, `RestoreRejected` one of another revision; `Restart` a new process.

Two facts the model makes plain. A failed import is seen through the failure
flag, so that while the restored flag is set already it is not seen, and shows
after the power cycle that clears it (`NoHandleLeaks` excepts what follows a
failed import). And a restore that is rejected may clear the flag of a library
whose slots are in exported form; `halfonly` marks that state, and
`SequencesAreOfThisProcess` excepts it until the next `TPM2_Startup`.

### Command

`Refuse` and `Enter` are the header check of `execute_command`, with the request
length reduced to 32 bits as the code does; `LibraryAnswers` is
`ExecuteCommand`, which may answer in the response slice, in its own static
buffer, or with a pointer it never should return; `TakeAnswer` is what the crate
makes of the pointer: nothing, a copy, or a panic, which the host may catch.
`SetLocalityByte` converts a byte to a `Locality` and back.

### Pcr

One action, `GetInitialValueForPcr`, with its refusals in the order of the code;
`AttributesOf` is the table, `InitializationAttributes` the query with its
fallback to PCR 0. The property relates the two queries: among other things, a
PCR starts with ones exactly if locality 0 may not extend it, two columns that
the code computes from different entries of the table. A number past the table
is refused with `TPM_RC_FAILURE`, where the doc has `TPM_RC_PCR`
(`Pcr_unknown`).

### TestHarness

`file` is the file or its absence, `phase` where `main` is, `region` the
platform's NV region. A commit is `CommitStart` (rewind) and any number of
`Write`s of some of the bytes that are left, each followed by a crash or not
(`Stop`), or `CommitFails`. `before` and `attempt` remember what a commit
found and what it was given. A start reads the file whole, and
`InitializeRefused` is the crate's `MismatchedBlobSize`. Bytes that were written
survive the death of the process; the loss of power is not modelled, since the
program never syncs. A process that dies between `File::create` and its first
commit leaves an empty file, and every later start is refused until the file is
removed: `CommittedOnceAlwaysStarts` is what holds of the code, and it begins
with the first commit that returned.

### BuildScript and BuildNames

`lib` is `OUT_DIR/lib` with the layout whose build made each archive, `copies`
the renamed archives in `OUT_DIR`, `prebuilt` the directory of
`TCG_TPM_LIB_DIR`. `CompileArchive` is CMake, one archive at a time;
`Collect` is `tpm_archives`, which tells the layout from what lies in the
directory; `NamespaceLibrary` is one `objcopy`. Between builds the checkout may
change, and a build may fail or be interrupted at every step. `BuildNames` is
the list of renames: `Renames` from what nm prints, `NameIn` the name after
objcopy, and the linker matches names.

## Runs

`TLC` finishes each passing run in about two minutes or less.

| run | question | bounds and why they are enough |
|---|---|---|
| `Singleton_safety` | who may be where, whatever overlaps; are all calls one conversation with the library; when does an access to `PLATFORM` panic; does every call return | 3 threads: one inside C, one in `initialize`, one that gets or moves the handle; no bound on calls |
| `Singleton_refusal` (violation) | is a refused `initialize` harmless | 2 threads |
| `Singleton_leak` (violation) | does a refusal mean that an instance is live | 1 thread, which fails to manufacture and tries again |
| `Platform_safety` | preconditions of the library, agreement, NV refinement, first failure, a primed source | 2 images, failures and localities, so that old and new differ; blobs of right and wrong size |
| `Restore_safety` | what a rejected restore leaves behind, and for how long; what the library's half may carry from one process or state to another | `Platform`: a state saved by a build of another revision, with another image. `RuntimeState`: 2 slots and 2 processes, so that one import succeeds and the next fails, and a state crosses to another process |
| `Platform_size` (violation) | does the region keep its size | a state saved by a build with another size |
| `Clock_safety` | does a slowed clock use more time than passed, or run ahead | 6 ticks per ms, limit one sixth as in the code; intervals to 7 ms (rounding up would show at 6) |
| `Clock_migration` | rate limits, time never back, time not lost to rounding, little left, with foreign timers | every adjustment; 3 ms of host and of TPM time |
| `Clock_fast` (violation) | is the clock within its tolerance | 5 ms of each |
| `Clock_migrate` (violation) | may the host's timer start again | 4 ms of each |
| `Parts_safety` | the properties of `NvMem`, `Entropy`, `Command`, `Pcr`, `BuildScript`, `BuildNames` and `TestHarness` | below |
| `Pcr_unknown` (violation) | does a PCR without a value get the answer the doc gives | one number past the table, a buffer for every digest |

`Parts_safety` explores seven components that share no state. `MCParts` picks
one (`part`), which moves while the others stay as they start, so that the
states add up and do not multiply. Its bounds: 3 bytes of NV memory, offsets and
lengths inside, at the end, beyond, and two whose sum does not fit `U32Mod`;
entropy blocks of 2 bytes, which come in one piece or two, written in full or
not, and two host bytes, so that a block may repeat; requests shorter than a
header, as long, longer, and above "4 GiB" (`CmdU32Mod` is 16); a PCR of each
kind and one past the table, buffers one byte around the digests; 3 builds
(`MaxBuilds`), so that one can be left over from a checkout that was changed and
changed back; two archives; and a region of 3 bytes of 3 values for the sample
program, whose commit is torn after one and after two bytes, over an image torn
before. `MCRestore` picks one of its two modules in the same way.
`MaxProcesses` and `MaxBuilds` are the bounds on counters.

Deadlock is not checked where the process may have aborted (`Singleton_*`,
`Clock_migration`, `Clock_migrate`) or where the exploration ends at its bounds
(`Clock_*`). `MaxNow` and `MaxTpmTime` bound the host's timer and stop reads at
a TPM time; there are no other bounds.

The six violations are findings; each is quoted in `PROJECT.json` with the
line of code and the line of the comment it contradicts. Two are about
concurrency and failure in `initialize`, one about `restore_state` installing
a region nobody measured, two about the clock, one about a return code.

`Restore_safety` shows the other side of `restore_state`. It installs the
platform's half before the library looks at its own, and a library that rejects
its half (another size, revision or count) leaves the two apart: `Coherent`
does not hold there, and commands run on globals computed from another NV
image. `PowerCycleHeals` says how far that reaches: to the next `_TPM_Init`,
which always brings them together.

**Fairness.** `FairSpec` assumes weak fairness of what a thread does inside the
crate (the code never waits, so a scheduled thread proceeds) and strong fairness
of the return from the C library: between callbacks its return is enabled,
during one it is not, so weak fairness would let it call back forever; no
command of the library is an endless loop of callbacks. No thread has to call
anything. `TestHarness`, and with it `MCParts`, assumes weak fairness of
`CommitStep`: the operating system answers every write, with some progress or an
error, and `write_all` has then less to do. Nothing else is assumed fair.

## Proofs

`tlapm` checks the eight proof modules; they need no assumption but the named
ones on constants, and these:

* `SingletonProofs`, for any set of threads. `IInv` adds to the type and
  `SingleInstance` two facts without which a step is not enough: the owner of
  the mutex is the thread whose place says so (`GuardHolder`), and a method
  runs where the handle is (`HandleOwned`). From it follow mutual exclusion in
  the C library, that callbacks find their platform, that an orphan stays
  sealed, and the refinements of `Ownership` (who has the platform) and
  `Session` (which call is in the library: entered when no other is, ended
  before the next, and the platform emptied between calls only, by drop).
  `AccessAlone` says when an access to `PLATFORM` panics: a `try_lock` fails
  only because the mutex is with another thread, which `GuardHolder` places in
  the middle of a call, and the `Option` is never `None` in a callback. Of the
  panics that need no other thread (`FailsByItself`: the answer, and work under
  the guard) it says nothing: they can happen to a thread alone, and
  `Clock_migrate` shows one.
  `CallsAdvance` is the part of `CallsReturn` that needs no fairness: each step
  of a call but its callbacks' lowers `StepsLeft`, which starts at four at most.
  `LostOnlyByFailure` says how far the finding of `Singleton_leak` reaches.
* `PlatformProofs`, for any images, failures, localities and blobs, in three
  layers by what is assumed of `Foreign`, the saved states that the host has
  from elsewhere.
  - Any states: the types hold, the first failure is kept, no step but the
    host's setters touches the cancel flag and the locality (`InputsKept`, which
    no run repeats: it is a property of frames), a power cycle makes library and
    platform agree, and `NvDevice` and `Session` are implemented. The invariant
    is `PowerInv`: NV memory is enabled inside `TPM_Manufacture` and
    `_TPM_Init`, and inside `_TPM_Init` a power loss is pending or told and not
    both.
  - States with a region of the right length (`FullStates`), which the library
    may reject: the region keeps its size, and `TPM_Manufacture` and
    `_TPM_Init` are entered as their `SAFETY` comments say (`SizeInv`).
    `Platform_size` shows that this cannot be dropped.
  - States that this build saved in another process (`GoodStates`; `Restorable`
    says what `save_state` makes of a state): the library agrees with the
    platform between calls, and one that was told that the source is primed
    finds a block to compare with: the assertion of `get_entropy` fails only for
    a library that draws after a priming that returned -1 or before any
    (`EntropyPrimedAsTold`). `IInv` adds that the state
    saved here is `Restorable` too (`SavedRestorable`), `PowerPending`, and the
    entropy half (`PrimedTogether`). `Restore_safety` shows what a state of
    another revision does instead.
* `ClockProofs`, for any rate, limit and timer, without the bounds mattering.
  The invariants state of the saved clock what they state of the running one,
  since a restore exchanges them. `Scaling` is the arithmetic: what a read
  uses is at most what passed, and at most what it added at the slowest rate.
  A read keeps the remainders of its two floor divisions small: what it leaves
  is at most two milliseconds, from whatever it started (`ReadLeavesLittle`).
  With the two, rounding does not add up: after any number of reads, power
  cycles and restores the TPM's time is behind the slowest rate by no more than
  two milliseconds of the host's (`ClockNotTooSlow`). In the other direction the
  tolerance does not hold (`Clock_fast`): each read can overcount, by less than
  one millisecond (`OvercountsByLessThanOne`). `RealNeverAhead`,
  `ReadsNeverPanic` and `SlowNeverAhead` assume `~Migration` (and that the
  library only slows the clock down, for the last).
* `NvMemProofs`, for a region of any size, any offsets and lengths and any width
  of the sums that holds two arguments (`NvAssumption`). `PlusIsExact` says that
  no sum wraps, `NamedInRegion` that the range test means what it says, and
  `PatchChanges` that a write changes something if and only if a comparison
  sees a difference; the three properties follow. `NvInv` adds what the last
  call returned.
* `EntropyProofs`, for blocks of any size, any lengths the callback returns and
  wherever it writes. `EntInv` says that the kept block is the last one
  collected (here and at the host), and that the bytes the callback answered for
  are the host's, but for the shortfall.
* `RuntimeStateProofs`, for any number of slots and processes and whichever
  imports fail. The invariant needs a half for the state that waits at the host
  (`HealthyThere`: made of objects that could be exported), since a restore
  makes it the running one, and counts handles as a cardinality, one object at
  a time. That the NV index cache is never older than the index data
  (`CacheIsCurrent`) rests on `NvIndexCacheInit` after the copy alone.
* `TestHarnessProofs`, for a region of any size and every way the operating
  system cuts a write. `Mixed` says what each byte of the file is; `Lengths`
  that the file never outgrows the region, without which a commit would not end
  where the file does, and a shorter file would not be made whole. From the same
  invariant, no step takes a byte off the file (`NeverShrinks`), and each write
  of a commit stores more of an image of `Size` bytes (`CommitTerminates`), the
  part of `CommitReturns` that needs no fairness.
* `PartsProofs`: `Command` for requests and headers of any size, where a header
  that fits the length in 32 bits fits it in full (`HeaderIsWithin`);
  `BuildScript` for any number of builds, where a directory whose build was
  whole is recognized as what it is (`WholeIsRecognized`,
  `PrebuiltIsRecognized`), and the copies made so far are of that layout and of
  this build (`BldStages`); `BuildNames` for any archives and names, where a
  symbol gets the prefix in all archives or in none (`SameName`) and the list
  made of them all has the names each archive must see (`ListedNames`); `Pcr`
  for any numbers, sizes and localities, where the table is gone through row by
  row and the bytes of a value are its default byte but for the last.

Every safety, action and refinement property of the passing runs is stated by a
theorem. Only model-checked: `CallsReturn` and `CommitReturns` (liveness under
fairness is out of the prover's reach; that no call and no commit goes round in
circles is proved), and that the violations exist. `WithinTolerance`,
`NeverPanics`, `RefusalIsHarmless`, `RefusedOnlyWhileLive` and `NoValueIsRcPcr`
do not hold of the code, and the theorems named above say how far each failure
reaches.

## Not modelled, and the plan

Every component of the crate that keeps state or computes something is modelled.
Left out:

* The C library (an empty submodule), but for what `src/` shows of it.
* Constants and stubs (`vendor_info.rs`, `pp_plat.rs`, `self_test.rs`,
  `nv_virtual.rs`), the profile headers and the scripts: no state, nothing to
  relate.
* In `build.rs`, the choice of tools (`find_tool` and its candidates are lists
  of names tried in order), CMake's definitions and flags, what is copied for
  Windows, SymCrypt's own libraries, and the precedence of environment
  variables: straight-line configuration.
* The power loss of the machine under the test harness, which would need a model
  of the page cache for a program that never syncs.

What would add most next: a refinement of `NvDevice`'s durable copy by the file
of `TestHarness`, which tears a commit that `NvDevice` has in one piece, so that
the abstract device would need an image that is a splice of two.
