------------------------------ MODULE Singleton ------------------------------
(***************************************************************************)
(* The process-wide singleton behind MsTpm185Platform (src/plat/mod.rs).   *)
(*                                                                         *)
(* PLATFORM is a Mutex<Option<MsTpm185PlatformImpl>> that is only ever     *)
(* try_lock-ed.  Threads reach it three ways:                              *)
(*   - initialize, an associated function any thread may call at any time; *)
(*   - the methods of the handle, which is Send but not Sync: the thread   *)
(*     that owns it is the only one that can call them;                    *)
(*   - the extern "C" callbacks (platform!() in api.rs), which run on the  *)
(*     thread that is inside the C library.                                *)
(*                                                                         *)
(* A critical section is two steps, one that takes the mutex and one that  *)
(* does the work and releases it, so that another thread's try_lock can    *)
(* fail in between.  What the sections do to the platform state is in      *)
(* module Platform; here only Some/None matters.                           *)
(*                                                                         *)
(* The mutex is never poisoned: the sections of the handle's methods and   *)
(* of initialize do not panic while they hold the guard, and a callback    *)
(* that panics under it (an overflow in the clock, the assert of the       *)
(* entropy source) is an extern "C" function and aborts the process.       *)
(***************************************************************************)
EXTENDS Integers

CONSTANTS Threads,     \* the threads of the embedding program
          NoThread     \* "nobody", as the owner of the mutex

ASSUME NoThreadAssumption == NoThread \notin Threads

VARIABLES
  mutex,      \* the thread that holds PLATFORM's guard, or NoThread
  platform,   \* TRUE: PLATFORM is Some(..)
  owned,      \* owned[t]: how many MsTpm185Platform values thread t owns
  pc,         \* pc[t]: where thread t is in the crate's code
  result,     \* result[t]: how t's last call ended, "none" while it runs
  aborted     \* TRUE: the process aborted

vars == <<mutex, platform, owned, pc, result, aborted>>

-----------------------------------------------------------------------------
(* Where a thread can be.                                                  *)

\* Inside the C library, as part of initialize.
InitInC == {"manufacture", "tpm_init"}

\* Inside the C library, as part of a method of the handle.
HandleInC == {"reset_init", "execute", "get_state", "apply_state"}

InC == InitInC \cup HandleInC

\* About to try_lock, in a method of the handle.
HandleLocking == {"reset_lock", "save_lock", "restore_lock", "set_lock"}

\* Holding the guard, in a method of the handle or in drop.
HandleBody == {"reset_body", "save_body", "restore_body", "set_body",
               "drop_body"}

\* Every place in which the thread still owns the handle it works on.
HandleStages == HandleInC \cup HandleLocking \cup HandleBody
                  \cup {"drop_lock", "unwind_lock"}

Stages == {"idle", "init_lock", "init_body"} \cup InitInC \cup HandleStages

Results == {"none", "Ok", "AlreadyInitialized", "Err", "panic"}

Init ==
  /\ mutex = NoThread
  /\ platform = FALSE
  /\ owned = [t \in Threads |-> 0]
  /\ pc = [t \in Threads |-> "idle"]
  /\ result = [t \in Threads |-> "none"]
  /\ aborted = FALSE

-----------------------------------------------------------------------------
(* Common moves.                                                           *)

Goto(t, stage) == pc' = [pc EXCEPT ![t] = stage]

\* The thread's call ends.
Return(t, r) ==
  /\ Goto(t, "idle")
  /\ result' = [result EXCEPT ![t] = r]

\* A panic that cannot unwind: in an extern "C" function, or in drop while
\* another panic unwinds.
Abort ==
  /\ aborted' = TRUE
  /\ UNCHANGED <<mutex, platform, owned, pc, result>>

\* try_lock succeeds, and the thread goes on with the guard in hand.
TakeGuard(t, stage) ==
  /\ mutex = NoThread
  /\ mutex' = t
  /\ Goto(t, stage)

Starts(t, stage) ==
  /\ pc[t] = "idle"
  /\ Goto(t, stage)
  /\ result' = [result EXCEPT ![t] = "none"]
  /\ UNCHANGED <<mutex, platform, owned, aborted>>

-----------------------------------------------------------------------------
(* MsTpm185Platform::initialize                                            *)

InitCall(t) == Starts(t, "init_lock")

\* Mutant: initialize tries again until it gets the mutex.
InitSpins(t) ==
  /\ mutex # NoThread
  /\ UNCHANGED vars

\* PLATFORM.try_lock().map_err(|_| Error::AlreadyInitialized)?
InitRefuse(t) ==
  /\ mutex # NoThread
  /\ Return(t, "AlreadyInitialized")
  /\ UNCHANGED <<mutex, platform, owned, aborted>>

InitLock(t) ==
  /\ pc[t] = "init_lock"
  /\ \/ /\ TakeGuard(t, "init_body")
        /\ UNCHANGED <<platform, owned, result, aborted>>
     \/ InitRefuse(t)

\* Mutant: the check takes the platform out of the Option (take, not is_some).
InitFoundTakes(t) ==
  /\ platform
  /\ Return(t, "AlreadyInitialized")
  /\ platform' = FALSE

\* PLATFORM is Some: another instance is live.
InitFound(t) ==
  /\ platform
  /\ Return(t, "AlreadyInitialized")
  /\ UNCHANGED platform

\* Mutant: the platform is inserted before the blob is validated.
InitRejectedLate(t) ==
  /\ ~platform
  /\ Return(t, "Err")
  /\ platform' = TRUE

\* The size or the blob is rejected, before the platform is inserted.
InitRejected(t) ==
  /\ ~platform
  /\ Return(t, "Err")
  /\ UNCHANGED platform

\* Mutants: a platform that is there is replaced; the C library is entered
\* before the platform is inserted.
InitInsertedAnyway(t) ==
  /\ platform' = TRUE
  /\ \E stage \in InitInC : Goto(t, stage)
  /\ UNCHANGED result

InitEntersFirst(t) ==
  /\ ~platform
  /\ \E stage \in InitInC : Goto(t, stage)
  /\ UNCHANGED <<platform, result>>

\* The platform is inserted, powered on, and the C library entered.
InitInserted(t) ==
  /\ ~platform
  /\ platform' = TRUE
  /\ \E stage \in InitInC : Goto(t, stage)
  /\ UNCHANGED result

\* The guard is held: refuse when PLATFORM is Some, fail when the size or the
\* blob is rejected, else insert the new platform, power it on, drop the guard
\* and enter the C library (through TPM_Manufacture unless a blob was loaded).
InitBody(t) ==
  /\ pc[t] = "init_body"
  /\ InitFound(t) \/ InitRejected(t) \/ InitInserted(t)
  /\ mutex' = NoThread
  /\ UNCHANGED <<owned, aborted>>

\* The thread is inside the C library and in none of its callbacks.
LibraryReturns(t, stage) == pc[t] = stage /\ mutex # t

\* TPM_Manufacture returned zero or not: on an error, initialize returns
\* without a handle and leaves PLATFORM as it is.
ManufactureReturns(t) ==
  /\ LibraryReturns(t, "manufacture")
  /\ \/ Goto(t, "tpm_init") /\ UNCHANGED result
     \/ Return(t, "Err")
  /\ UNCHANGED <<mutex, platform, owned, aborted>>

\* _TPM_Init returned: the caller gets the handle.
InitReturns(t) ==
  /\ LibraryReturns(t, "tpm_init")
  /\ owned' = [owned EXCEPT ![t] = @ + 1]
  /\ Return(t, "Ok")
  /\ UNCHANGED <<mutex, platform, aborted>>

-----------------------------------------------------------------------------
(* The methods of the handle.                                              *)

\* execute_command and save_state enter C before anything else, the others
\* lock first.  Dropping the handle enters Drop::drop.
HandleEntry == {"reset_lock", "restore_lock", "set_lock", "execute",
                "get_state", "drop_lock"}

HandleCall(t) ==
  /\ owned[t] > 0
  /\ \E stage \in HandleEntry : Starts(t, stage)

\* execute_command with a bad header, restore_state with a blob that does not
\* deserialize: an error before anything is touched.
HandleRefuses(t) ==
  /\ owned[t] > 0
  /\ pc[t] = "idle"
  /\ Return(t, "Err")
  /\ UNCHANGED <<mutex, platform, owned, aborted>>

\* A method of the handle panics with no guard in hand.  The program either
\* catches the panic, keeping the handle, or unwinds past the handle's owner
\* and runs Drop::drop.
Unwinds(t) ==
  /\ result' = [result EXCEPT ![t] = "panic"]
  /\ \E stage \in {"idle", "unwind_lock"} : Goto(t, stage)

\* PLATFORM.try_lock().unwrap() in a method
HandlePanics(t) ==
  /\ mutex # NoThread
  /\ Unwinds(t)
  /\ UNCHANGED <<mutex, platform, owned, aborted>>

BodyOf(stage) ==
  CASE stage = "reset_lock"   -> "reset_body"
    [] stage = "save_lock"    -> "save_body"
    [] stage = "restore_lock" -> "restore_body"
    [] stage = "set_lock"     -> "set_body"

HandleLock(t) ==
  /\ pc[t] \in HandleLocking
  /\ \/ /\ TakeGuard(t, BodyOf(pc[t]))
        /\ UNCHANGED <<platform, owned, result, aborted>>
     \/ HandlePanics(t)

\* reset: a rejected blob returns early, else on to _TPM_Init, guard dropped.
ResetBody(t) ==
  /\ pc[t] = "reset_body"
  /\ \/ Return(t, "Err")
     \/ Goto(t, "reset_init") /\ UNCHANGED result

\* restore_state: the guard is a temporary of the statement that replaces the
\* platform state, the library's half is applied after it.
RestoreBody(t) ==
  /\ pc[t] = "restore_body"
  /\ Goto(t, "apply_state")
  /\ UNCHANGED result

\* save_state, set_cancel_flag and set_locality end with their section.
LastBody(t) ==
  /\ pc[t] \in {"save_body", "set_body"}
  /\ Return(t, "Ok")

HandleUnlock(t) ==
  /\ ResetBody(t) \/ RestoreBody(t) \/ LastBody(t)
  /\ mutex' = NoThread
  /\ UNCHANGED <<platform, owned, aborted>>

\* The answer is in the request's buffer, at a null pointer, or does not fit the
\* caller's slice (module Command says which): a panic after ExecuteCommand.
AnswerPanics(t) == LibraryReturns(t, "execute") /\ Unwinds(t)

\* _TPM_Init and INJECTED_ApplyRuntimeState are the last thing their callers
\* do, ExecuteCommand's goes on to find the answer, and save_state to lock.
HandleReturns(t) ==
  /\ \/ AnswerPanics(t)
     \/ \E stage \in {"reset_init", "execute"} :
           LibraryReturns(t, stage) /\ Return(t, "Ok")
     \/ \E r \in {"Ok", "Err"} :
           LibraryReturns(t, "apply_state") /\ Return(t, r)
     \/ /\ LibraryReturns(t, "get_state")
        /\ Goto(t, "save_lock")
        /\ UNCHANGED result
  /\ UNCHANGED <<mutex, platform, owned, aborted>>

\* Mutant: the handle is copied.
MoveCopies(t, u) ==
  /\ t # u /\ owned[t] > 0
  /\ pc[t] = "idle" /\ pc[u] = "idle"
  /\ owned' = [owned EXCEPT ![u] = @ + 1]
  /\ UNCHANGED <<mutex, platform, pc, result, aborted>>

\* The handle changes hands: MsTpm185Platform is Send.
Move(t, u) ==
  /\ t # u /\ owned[t] > 0
  /\ pc[t] = "idle" /\ pc[u] = "idle"
  /\ owned' = [owned EXCEPT ![t] = @ - 1, ![u] = @ + 1]
  /\ UNCHANGED <<mutex, platform, pc, result, aborted>>

-----------------------------------------------------------------------------
(* Drop::drop                                                              *)

\* The handle is gone when drop ends, also when its try_lock().unwrap()
\* panics; a panic on the way out of another panic aborts the process.
DropLock(t) ==
  /\ pc[t] \in {"drop_lock", "unwind_lock"}
  /\ \/ /\ TakeGuard(t, "drop_body")
        /\ UNCHANGED <<platform, owned, result, aborted>>
     \/ /\ mutex # NoThread /\ pc[t] = "drop_lock"
        /\ owned' = [owned EXCEPT ![t] = @ - 1]
        /\ Return(t, "panic")
        /\ UNCHANGED <<mutex, platform, aborted>>
     \/ mutex # NoThread /\ pc[t] = "unwind_lock" /\ Abort

\* A call that came here by unwinding ends with its panic.
DropBody(t) ==
  /\ pc[t] = "drop_body"
  /\ platform' = FALSE
  /\ owned' = [owned EXCEPT ![t] = @ - 1]
  /\ mutex' = NoThread
  /\ Return(t, IF result[t] = "panic" THEN "panic" ELSE "Ok")
  /\ UNCHANGED aborted

-----------------------------------------------------------------------------
(* The extern "C" platform functions, called by the C library.             *)

\* platform!(): try_lock, then as_mut, both with expect.
CallbackEnter(t) ==
  /\ pc[t] \in InC
  /\ mutex = NoThread /\ platform
  /\ mutex' = t
  /\ UNCHANGED <<platform, owned, pc, result, aborted>>

\* platform!() panics: the mutex is taken, or PLATFORM is None.
CallbackAborts(t) ==
  /\ pc[t] \in InC
  /\ mutex # t
  /\ mutex # NoThread \/ ~platform
  /\ Abort

\* The platform function itself panics, with the guard: timer_read overflows or
\* its time does not fit 64 bits, get_entropy finds no block to compare with.
CallbackPanics(t) ==
  /\ pc[t] \in InC
  /\ mutex = t
  /\ Abort

\* The guard is a temporary: it is gone when the callback returns to C.
CallbackLeave(t) ==
  /\ pc[t] \in InC
  /\ mutex = t
  /\ mutex' = NoThread
  /\ UNCHANGED <<platform, owned, pc, result, aborted>>

-----------------------------------------------------------------------------
LibraryStep(t) == ManufactureReturns(t) \/ InitReturns(t) \/ HandleReturns(t)

LockStep(t) == InitLock(t) \/ HandleLock(t) \/ DropLock(t)

BodyStep(t) == InitBody(t) \/ HandleUnlock(t) \/ DropBody(t)

\* What the crate does once the thread has called it.
Works(t) == LockStep(t) \/ BodyStep(t) \/ CallbackLeave(t)

Step(t) ==
  \/ InitCall(t)
  \/ HandleCall(t)
  \/ HandleRefuses(t)
  \/ Works(t)
  \/ LibraryStep(t)
  \/ CallbackEnter(t)
  \/ CallbackAborts(t)
  \/ CallbackPanics(t)
  \/ \E u \in Threads : Move(t, u)

Next == ~aborted /\ \E t \in Threads : Step(t)

Spec == Init /\ [][Next]_vars

\* The crate runs on as long as its thread is scheduled, and the C library
\* returns in the end however many callbacks it makes.  No thread has to call.
Fairness == \A t \in Threads : /\ WF_vars(~aborted /\ Works(t))
                               /\ SF_vars(~aborted /\ LibraryStep(t))

FairSpec == Spec /\ Fairness

-----------------------------------------------------------------------------
(* Properties.                                                             *)

\* Every variable has its type; in particular a thread never owns two handles.
TypeOK ==
  /\ mutex \in Threads \cup {NoThread}
  /\ platform \in BOOLEAN
  /\ owned \in [Threads -> {0, 1}]
  /\ pc \in [Threads -> Stages]
  /\ result \in [Threads -> Results]
  /\ aborted \in BOOLEAN

\* The thread has a right to the platform: it owns the handle, or it inserted
\* the platform and has not been given the handle yet.
Claims(t) == owned[t] = 1 \/ pc[t] \in InitInC

\* At most one thread is ever inside the C library, whatever threads call
\* initialize and wherever the handle is sent: the library has no locks of its
\* own (mod.rs:19-24).
SingleEntry ==
  \A t, u \in Threads : pc[t] \in InC /\ pc[u] \in InC => t = u

\* A callback from C always finds the platform it belongs to: the expect of
\* "called platform function prior to initialization" (api.rs:10) never fires.
CallbackFindsPlatform == \A t \in Threads : pc[t] \in InC => platform

\* Only a single instance is live (mod.rs:94): one handle or one initialize
\* past its insertion, never both, and never while PLATFORM is None.
SingleInstance ==
  /\ \A t, u \in Threads : Claims(t) /\ Claims(u) => t = u
  /\ \A t \in Threads : owned[t] = 1 => pc[t] \notin InitInC
  /\ \A t \in Threads : Claims(t) => platform

\* Holding the guard, outside the C library.
Locked == {"init_body"} \cup HandleBody

\* The mutex names the one thread whose place in the code says it has it.
GuardHolder ==
  /\ \A t \in Threads : pc[t] \in Locked => mutex = t
  /\ mutex # NoThread => pc[mutex] \in Locked \cup InC

\* A method of the handle runs on the thread that owns the handle.
HandleOwned == \A t \in Threads : pc[t] \in HandleStages => owned[t] = 1

\* The inductive invariant: the mutex, the owner and the Option agree.
IInv == TypeOK /\ GuardHolder /\ HandleOwned /\ SingleInstance

\* PLATFORM is Some and nobody can ever drop it.
Orphaned == platform /\ \A t \in Threads : ~Claims(t)

\* An orphaned PLATFORM (failed TPM_Manufacture, or a drop that panicked) is
\* never entered again: no call of any thread gets back into the C library.
OrphanIsSealed ==
  [][Orphaned => Orphaned' /\ \A t \in Threads : pc'[t] \notin InC]_vars

\* Every call returns, with a value or by a panic, unless the process aborts:
\* nothing ever waits for the mutex (mod.rs:26-28).
CallsReturn ==
  \A t \in Threads : pc[t] # "idle" ~> pc[t] = "idle" \/ aborted

\* A thread panics, or the process aborts.
Panics ==
  \/ ~aborted /\ aborted'
  \/ \E t \in Threads : result[t] # "panic" /\ result'[t] = "panic"

\* Two threads are in the middle of a call.
Overlap == \E t, u \in Threads : t # u /\ pc[t] # "idle" /\ pc[u] # "idle"

\* The thread fails over what it was given, not over the way to it: an answer
\* that execute_command_unchecked cannot hand on, or a platform function that
\* panics over the state behind the guard it holds.
FailsByItself(t) ==
  \/ pc[t] = "execute" /\ mutex # t /\ result'[t] = "panic"
  \/ pc[t] \in InC /\ mutex = t /\ aborted'

\* initialize is refused before it has looked whether PLATFORM is Some.
RefusedUnseen ==
  \E t \in Threads : pc[t] = "init_lock" /\ pc'[t] = "idle"

\* try_lock never fails, and PLATFORM is never missing, but by the work of two
\* threads whose calls overlap: in a program that makes its calls one at a time
\* no panic or abort comes from the way a call reaches the platform, and no
\* initialize is refused for the mutex, whatever the calls return, however they
\* fail, and wherever the handle is sent.  (mod.rs:22-31, api.rs:4-12)
AccessFailsOnlyInOverlap ==
  [][\/ Panics /\ ~\E t \in Threads : FailsByItself(t)
     \/ RefusedUnseen
     => Overlap]_vars

\* mod.rs:94-97: initialize called while an instance is live returns
\* AlreadyInitialized; it has no other effect, so the live instance goes on:
\* while another thread's initialize looks, the process does not abort.
RefusalIsHarmless ==
  [][/\ \E t \in Threads : owned[t] = 1
     /\ \E u \in Threads : pc[u] = "init_body"
     => ~aborted']_vars

\* mod.rs:94-100: AlreadyInitialized means an instance is live (or another
\* initialize is making one); after a drop the next initialize succeeds.
RefusedOnlyWhileLive ==
  [][\A t \in Threads :
       pc[t] = "init_body" /\ result'[t] = "AlreadyInitialized"
         => \E u \in Threads : Claims(u)]_vars
=============================================================================
