--------------------------- MODULE SingletonProofs ---------------------------
(***************************************************************************)
(* Proofs about Singleton for any set of threads.                          *)
(***************************************************************************)
EXTENDS SingletonOwnership, TLAPS

\* The places of the code, expanded together.
USE DEF InitInC, HandleInC, InC, HandleLocking, HandleBody, HandleStages,
        Stages, Results, Locked

\* The program starts with the mutex free, PLATFORM None and no handle.
LEMMA InitIInv == Init => IInv
<1> SUFFICES ASSUME Init PROVE IInv
  OBVIOUS
<1>1. /\ mutex = NoThread /\ platform = FALSE /\ aborted = FALSE
      /\ \A t \in Threads : owned[t] = 0 /\ pc[t] = "idle"
  BY DEF Init
<1>2. TypeOK
  BY DEF Init, TypeOK
<1>3. GuardHolder
  BY <1>1 DEF GuardHolder
<1>4. HandleOwned
  BY <1>1 DEF HandleOwned
<1>5. SingleInstance
  BY <1>1 DEF SingleInstance, Claims
<1> QED
  BY <1>2, <1>3, <1>4, <1>5 DEF IInv

\* Starting a call: initialize, or a method of a handle the thread owns.
LEMMA StartIInv ==
  ASSUME IInv, NEW t \in Threads, InitCall(t) \/ HandleCall(t)
  PROVE  IInv'
<1>1. PICK stage \in HandleEntry \cup {"init_lock"} :
        Starts(t, stage) /\ (stage \in HandleEntry => owned[t] = 1)
  <2>1. CASE InitCall(t)
    BY <2>1 DEF InitCall, HandleEntry
  <2>2. CASE HandleCall(t)
    <3>1. owned[t] = 1
      BY <2>2 DEF HandleCall, IInv, TypeOK
    <3> QED
      BY <2>2, <3>1 DEF HandleCall
  <2> QED
    BY <2>1, <2>2
<1>2. /\ stage \in Stages /\ stage \notin Locked \cup InitInC
      /\ stage \in HandleStages => owned[t] = 1
  BY <1>1 DEF HandleEntry
<1> USE <1>1, <1>2 DEF Starts, Goto, IInv
<1>3. TypeOK'
  BY DEF TypeOK
<1>4. GuardHolder'
  BY NoThreadAssumption DEF GuardHolder, TypeOK
<1>5. HandleOwned'
  BY DEF HandleOwned, TypeOK
<1>6. SingleInstance'
  BY DEF SingleInstance, Claims, TypeOK
<1> QED
  BY <1>3, <1>4, <1>5, <1>6

\* An error before anything is touched changes no more than the result.
LEMMA HandleRefusesIInv ==
  ASSUME IInv, NEW t \in Threads, HandleRefuses(t)
  PROVE  IInv'
<1> USE NoThreadAssumption DEF HandleRefuses, Return, Goto
<1>1. TypeOK'
  BY DEF IInv, TypeOK, GuardHolder, HandleOwned, SingleInstance, Claims
<1>2. GuardHolder'
  BY DEF IInv, TypeOK, GuardHolder
<1>3. HandleOwned'
  BY DEF IInv, TypeOK, HandleOwned
<1>4. SingleInstance'
  BY DEF IInv, TypeOK, GuardHolder, HandleOwned, SingleInstance, Claims
<1> QED
  BY <1>1, <1>2, <1>3, <1>4 DEF IInv

\* initialize gets the guard or is refused.
LEMMA InitLockIInv ==
  ASSUME IInv, NEW t \in Threads, InitLock(t)
  PROVE  IInv'
<1> USE NoThreadAssumption DEF InitLock, InitRefuse, TakeGuard, Return, Goto
<1>1. TypeOK'
  BY DEF IInv, TypeOK, GuardHolder, HandleOwned, SingleInstance, Claims
<1>2. GuardHolder'
  BY DEF IInv, TypeOK, GuardHolder
<1>3. HandleOwned'
  BY DEF IInv, TypeOK, HandleOwned
<1>4. SingleInstance'
  BY DEF IInv, TypeOK, GuardHolder, HandleOwned, SingleInstance, Claims
<1> QED
  BY <1>1, <1>2, <1>3, <1>4 DEF IInv

\* A method of the handle gets the guard or panics.
LEMMA HandleLockIInv ==
  ASSUME IInv, NEW t \in Threads, HandleLock(t)
  PROVE  IInv'
<1> USE NoThreadAssumption
    DEF HandleLock, HandlePanics, Unwinds, BodyOf, TakeGuard, Return, Goto
<1>1. TypeOK'
  BY DEF IInv, TypeOK, GuardHolder, HandleOwned, SingleInstance, Claims
<1>2. GuardHolder'
  BY DEF IInv, TypeOK, GuardHolder
<1>3. HandleOwned'
  BY DEF IInv, TypeOK, HandleOwned
<1>4. SingleInstance'
  BY DEF IInv, TypeOK, GuardHolder, HandleOwned, SingleInstance, Claims
<1> QED
  BY <1>1, <1>2, <1>3, <1>4 DEF IInv

\* drop gets the guard, panics or aborts.
LEMMA DropLockIInv ==
  ASSUME IInv, NEW t \in Threads, DropLock(t)
  PROVE  IInv'
<1> USE NoThreadAssumption DEF DropLock, Abort, TakeGuard, Return, Goto
<1>1. TypeOK'
  <2>1. owned[t] = 1
    BY DEF IInv, HandleOwned
  <2>2. owned' \in {owned, [owned EXCEPT ![t] = 0]}
    BY <2>1
  <2> QED
    BY <2>2 DEF IInv, TypeOK
<1>2. GuardHolder'
  BY DEF IInv, TypeOK, GuardHolder
<1>3. HandleOwned'
  BY DEF IInv, TypeOK, HandleOwned
<1>4. SingleInstance'
  BY DEF IInv, TypeOK, GuardHolder, HandleOwned, SingleInstance, Claims
<1> QED
  BY <1>1, <1>2, <1>3, <1>4 DEF IInv

\* initialize inserts a platform only where there was none: nobody claimed it.
LEMMA InitBodyIInv ==
  ASSUME IInv, NEW t \in Threads, InitBody(t)
  PROVE  IInv'
<1> USE NoThreadAssumption
    DEF InitBody, InitFound, InitRejected, InitInserted, Return, Goto
<1>1. TypeOK'
  <2>1. pc[t] = "init_body" /\ owned' = owned
    OBVIOUS
  <2>2. mutex' \in Threads \cup {NoThread} /\ platform' \in BOOLEAN
    BY DEF IInv, TypeOK
  <2>3. result' \in [Threads -> Results] /\ pc' \in [Threads -> Stages]
    BY DEF IInv, TypeOK
  <2>4. aborted' \in BOOLEAN
    BY DEF IInv, TypeOK
  <2> QED
    BY <2>1, <2>2, <2>3, <2>4 DEF IInv, TypeOK
<1>2. GuardHolder'
  BY DEF IInv, TypeOK, GuardHolder
<1>3. HandleOwned'
  BY DEF IInv, TypeOK, HandleOwned
<1>4. SingleInstance'
  BY DEF IInv, TypeOK, GuardHolder, HandleOwned, SingleInstance, Claims
<1> QED
  BY <1>1, <1>2, <1>3, <1>4 DEF IInv

\* The critical section of a method ends.
LEMMA HandleUnlockIInv ==
  ASSUME IInv, NEW t \in Threads, HandleUnlock(t)
  PROVE  IInv'
<1> USE NoThreadAssumption
    DEF HandleUnlock, ResetBody, RestoreBody, LastBody, Return, Goto
<1>1. TypeOK'
  BY DEF IInv, TypeOK, GuardHolder, HandleOwned, SingleInstance, Claims
<1>2. GuardHolder'
  BY DEF IInv, TypeOK, GuardHolder
<1>3. HandleOwned'
  BY DEF IInv, TypeOK, HandleOwned
<1>4. SingleInstance'
  BY DEF IInv, TypeOK, GuardHolder, HandleOwned, SingleInstance, Claims
<1> QED
  BY <1>1, <1>2, <1>3, <1>4 DEF IInv

\* drop empties PLATFORM as its only claimer, which gives up the claim.
LEMMA DropBodyIInv ==
  ASSUME IInv, NEW t \in Threads, DropBody(t)
  PROVE  IInv'
<1> USE NoThreadAssumption DEF DropBody, Return, Goto
<1>1. TypeOK'
  <2>1. owned[t] = 1
    BY DEF IInv, HandleOwned
  <2>2. owned' = [owned EXCEPT ![t] = 0]
    BY <2>1
  <2> QED
    BY <2>2 DEF IInv, TypeOK
<1>2. GuardHolder'
  BY DEF IInv, TypeOK, GuardHolder
<1>3. HandleOwned'
  BY DEF IInv, TypeOK, HandleOwned
<1>4. SingleInstance'
  BY DEF IInv, TypeOK, GuardHolder, HandleOwned, SingleInstance, Claims
<1> QED
  BY <1>1, <1>2, <1>3, <1>4 DEF IInv

\* The C library returns; the one initialize in C gets the only handle.
LEMMA LibraryStepIInv ==
  ASSUME IInv, NEW t \in Threads, LibraryStep(t)
  PROVE  IInv'
<1> USE NoThreadAssumption
    DEF LibraryStep, LibraryReturns, ManufactureReturns, InitReturns,
        HandleReturns, AnswerPanics, Unwinds, Return, Goto
<1>1. TypeOK'
  BY DEF IInv, TypeOK, GuardHolder, HandleOwned, SingleInstance, Claims
<1>2. GuardHolder'
  BY DEF IInv, TypeOK, GuardHolder
<1>3. HandleOwned'
  BY DEF IInv, TypeOK, HandleOwned
<1>4. SingleInstance'
  BY DEF IInv, TypeOK, GuardHolder, HandleOwned, SingleInstance, Claims
<1> QED
  BY <1>1, <1>2, <1>3, <1>4 DEF IInv

\* A callback takes the guard, gives it back or aborts.
LEMMA CallbackIInv ==
  ASSUME IInv, NEW t \in Threads,
         \/ CallbackEnter(t) \/ CallbackAborts(t)
         \/ CallbackPanics(t) \/ CallbackLeave(t)
  PROVE  IInv'
<1> USE NoThreadAssumption
    DEF CallbackEnter, CallbackAborts, CallbackPanics, CallbackLeave, Abort
<1>1. TypeOK'
  BY DEF IInv, TypeOK, GuardHolder, HandleOwned, SingleInstance, Claims
<1>2. GuardHolder'
  BY DEF IInv, TypeOK, GuardHolder
<1>3. HandleOwned'
  BY DEF IInv, TypeOK, HandleOwned
<1>4. SingleInstance'
  BY DEF IInv, TypeOK, GuardHolder, HandleOwned, SingleInstance, Claims
<1> QED
  BY <1>1, <1>2, <1>3, <1>4 DEF IInv

\* The handle changes hands between two threads that are in no call.
LEMMA MoveIInv ==
  ASSUME IInv, NEW t \in Threads, NEW u \in Threads, Move(t, u)
  PROVE  IInv'
<1> USE NoThreadAssumption DEF Move
<1>1. owned[t] = 1 /\ owned[u] = 0
  BY DEF IInv, TypeOK, SingleInstance, Claims
<1>2. owned' = [owned EXCEPT ![t] = 0, ![u] = 1]
  BY <1>1 DEF IInv, TypeOK
<1>3. TypeOK'
  BY <1>2 DEF IInv, TypeOK
<1>4. GuardHolder'
  BY DEF IInv, TypeOK, GuardHolder
<1>5. HandleOwned'
  BY <1>2 DEF IInv, TypeOK, HandleOwned
<1>6. SingleInstance'
  BY <1>1, <1>2 DEF IInv, TypeOK, SingleInstance, Claims
<1> QED
  BY <1>3, <1>4, <1>5, <1>6 DEF IInv

\* Every step of every thread preserves the inductive invariant.
LEMMA NextIInv == IInv /\ [Next]_vars => IInv'
<1> SUFFICES ASSUME IInv, [Next]_vars PROVE IInv'
  OBVIOUS
<1>1. CASE UNCHANGED vars
  BY <1>1
     DEF vars, IInv, TypeOK, GuardHolder, HandleOwned, SingleInstance,
         Claims
<1>2. CASE Next
  <2>1. PICK t \in Threads : Step(t)
    BY <1>2 DEF Next
  <2>2. CASE InitCall(t) \/ HandleCall(t)
    BY <2>2, StartIInv
  <2>3. CASE HandleRefuses(t)
    BY <2>3, HandleRefusesIInv
  <2>4. CASE LockStep(t)
    BY <2>4, InitLockIInv, HandleLockIInv, DropLockIInv DEF LockStep
  <2>5. CASE BodyStep(t)
    BY <2>5, InitBodyIInv, HandleUnlockIInv, DropBodyIInv DEF BodyStep
  <2>6. CASE LibraryStep(t)
    BY <2>6, LibraryStepIInv
  <2>7. CASE \/ CallbackEnter(t) \/ CallbackAborts(t)
             \/ CallbackPanics(t) \/ CallbackLeave(t)
    BY <2>7, CallbackIInv
  <2>8. CASE \E u \in Threads : Move(t, u)
    BY <2>8, MoveIInv
  <2> QED
    BY <2>1, <2>2, <2>3, <2>4, <2>5, <2>6, <2>7, <2>8 DEF Step, Works
<1> QED
  BY <1>1, <1>2

-----------------------------------------------------------------------------
\* The inductive invariant holds of every reachable state.
THEOREM Invariant == Spec => []IInv
  BY InitIInv, NextIInv, PTL DEF Spec

\* Types, and that a thread never owns two handles, for any set of threads.
THEOREM TypeCorrect == Spec => []TypeOK
<1>1. IInv => TypeOK
  BY DEF IInv
<1> QED
  BY <1>1, Invariant, PTL

\* However many threads call initialize, one handle or one initialize past its
\* insertion has the platform, and the platform is there.
THEOREM OneInstance == Spec => []SingleInstance
<1>1. IInv => SingleInstance
  BY DEF IInv
<1> QED
  BY <1>1, Invariant, PTL

\* The C library, which has no locks, never runs on two threads at once.
THEOREM MutualExclusion == Spec => []SingleEntry
<1>1. IInv => SingleEntry
  BY DEF IInv, SingleEntry, HandleOwned, SingleInstance, Claims
<1> QED
  BY <1>1, Invariant, PTL

\* No callback from C finds PLATFORM empty.
THEOREM CallbacksFindPlatform == Spec => []CallbackFindsPlatform
<1>1. IInv => CallbackFindsPlatform
  BY DEF IInv, CallbackFindsPlatform, HandleOwned, SingleInstance, Claims
<1> QED
  BY <1>1, Invariant, PTL

-----------------------------------------------------------------------------
\* A PLATFORM that nobody claims stays Some, unclaimed and out of the library.
THEOREM OrphanStaysSealed == Spec => OrphanIsSealed
<1>1. ASSUME IInv, Next, Orphaned
      PROVE  Orphaned' /\ \A t \in Threads : pc'[t] \notin InC
  <2>1. PICK t \in Threads : Step(t)
    BY <1>1 DEF Next
  <2>2. \A u \in Threads : /\ owned[u] = 0
                           /\ pc[u] \notin InitInC \cup HandleStages
    BY <1>1 DEF Orphaned, Claims, IInv, TypeOK, HandleOwned
  <2>3. \/ InitCall(t) \/ InitLock(t) \/ InitBody(t)
    BY <2>1, <2>2
       DEF Step, HandleCall, HandleRefuses, Works, LockStep, HandleLock,
           DropLock, BodyStep, HandleUnlock, ResetBody, RestoreBody,
           LastBody, DropBody, LibraryStep, LibraryReturns,
           ManufactureReturns, InitReturns, HandleReturns, AnswerPanics,
           CallbackEnter, CallbackAborts, CallbackPanics, CallbackLeave, Move
  <2>4. /\ platform' = platform /\ owned' = owned
        /\ \E stage \in {"idle", "init_lock", "init_body"} :
              pc' = [pc EXCEPT ![t] = stage]
    BY <1>1, <2>3
       DEF Orphaned, InitCall, Starts, InitLock, InitRefuse, TakeGuard,
           InitBody, InitFound, InitRejected, InitInserted, Return, Goto
  <2> QED
    BY <1>1, <2>2, <2>4 DEF Orphaned, Claims, IInv, TypeOK
<1>2. IInv /\ [Next]_vars =>
        [Orphaned => Orphaned' /\ \A t \in Threads : pc'[t] \notin InC]_vars
  BY <1>1
<1> QED
  BY <1>2, Invariant, PTL DEF Spec, OrphanIsSealed

-----------------------------------------------------------------------------
(* A try_lock that fails means that another thread is inside a call.       *)

\* The mutex is with a thread that is in the middle of a call.
LEMMA HolderIsBusy ==
  ASSUME IInv, mutex # NoThread
  PROVE  mutex \in Threads /\ pc[mutex] # "idle"
BY DEF IInv, TypeOK, GuardHolder

\* A step that panics or aborts over the way to the platform finds the mutex
\* with somebody else.
LEMMA PanicMeetsHolder ==
  ASSUME IInv, NEW t \in Threads, Step(t), Panics, ~FailsByItself(t)
  PROVE  mutex # NoThread /\ mutex # t /\ pc[t] # "idle"
<1>1. CASE HandleLock(t) \/ DropLock(t)
  <2>1. pc[t] \notin {"idle"} \cup Locked \cup InC
    BY <1>1 DEF HandleLock, DropLock
  <2>2. mutex # t
    BY <2>1, NoThreadAssumption DEF IInv, GuardHolder
  <2>3. mutex # NoThread
    <3>1. ~UNCHANGED <<result, aborted>>
      BY DEF Panics
    <3> QED
      BY <1>1, <3>1 DEF HandleLock, HandlePanics, DropLock
  <2> QED
    BY <2>1, <2>2, <2>3
<1>2. CASE CallbackAborts(t)
  BY <1>2
     DEF CallbackAborts, IInv, HandleOwned, SingleInstance, Claims
<1>3. ~(InitCall(t) \/ HandleCall(t) \/ HandleRefuses(t) \/ InitLock(t)
          \/ CallbackEnter(t) \/ CallbackLeave(t)
          \/ (\E u \in Threads : Move(t, u)))
  BY DEF InitCall, HandleCall, Starts, HandleRefuses, InitLock, InitRefuse,
         TakeGuard, CallbackEnter, CallbackLeave, Move, Return, Panics, IInv,
         TypeOK
<1>4. ~BodyStep(t)
  <2>1. ~(InitBody(t) \/ HandleUnlock(t))
    BY DEF InitBody, InitFound, InitRejected, InitInserted, HandleUnlock,
           ResetBody, RestoreBody, LastBody, Return, Panics, IInv, TypeOK
  <2>2. ~DropBody(t)
    BY DEF DropBody, Return, Panics, IInv, TypeOK
  <2> QED
    BY <2>1, <2>2 DEF BodyStep
<1>5. ~CallbackPanics(t)
  BY DEF CallbackPanics, Abort, FailsByItself
<1>6. ~LibraryStep(t)
  <2>1. ~AnswerPanics(t)
    BY DEF AnswerPanics, LibraryReturns, Unwinds, FailsByItself, IInv, TypeOK
  <2> QED
    BY <2>1
       DEF LibraryStep, ManufactureReturns, InitReturns, HandleReturns, Return,
           Panics, IInv, TypeOK
<1> QED
  BY <1>1, <1>2, <1>3, <1>4, <1>5, <1>6 DEF Step, Works, LockStep

\* An initialize that is refused without a look finds the mutex taken.
LEMMA RefusedMeetsHolder ==
  ASSUME IInv, NEW t \in Threads, Step(t), NEW u \in Threads,
         pc[u] = "init_lock", pc'[u] = "idle"
  PROVE  mutex # NoThread /\ mutex # u
<1>1. mutex # u
  BY NoThreadAssumption DEF IInv, GuardHolder
<1>2. CASE InitLock(t)
  BY <1>1, <1>2 DEF InitLock, InitRefuse, TakeGuard, Return, Goto, IInv, TypeOK
<1>3. ~(InitCall(t) \/ HandleCall(t) \/ HandleRefuses(t))
  BY DEF InitCall, HandleCall, Starts, HandleRefuses, Return, Goto, IInv, TypeOK
<1>4. ~(HandleLock(t) \/ DropLock(t))
  BY DEF HandleLock, HandlePanics, Unwinds, DropLock, Abort, TakeGuard, Return,
         Goto, IInv, TypeOK
<1>5. ~BodyStep(t)
  BY DEF BodyStep, InitBody, InitFound, InitRejected, InitInserted,
         HandleUnlock, ResetBody, RestoreBody, LastBody, DropBody, Return,
         Goto, IInv, TypeOK
<1>6. ~LibraryStep(t)
  BY DEF LibraryStep, LibraryReturns, ManufactureReturns, InitReturns,
         HandleReturns, AnswerPanics, Unwinds, Return, Goto, IInv, TypeOK
<1>7. ~(CallbackEnter(t) \/ CallbackAborts(t) \/ CallbackPanics(t)
          \/ CallbackLeave(t) \/ (\E v \in Threads : Move(t, v)))
  BY DEF CallbackEnter, CallbackAborts, CallbackPanics, CallbackLeave, Abort,
         Move
<1> QED
  BY <1>2, <1>3, <1>4, <1>5, <1>6, <1>7 DEF Step, Works, LockStep

\* In a program whose calls never overlap every call gets the mutex and finds
\* the platform; what fails there, fails over what it was given.
THEOREM AccessAlone == Spec => AccessFailsOnlyInOverlap
<1> DEFINE Obstructed ==
      \/ Panics /\ ~\E t \in Threads : FailsByItself(t)
      \/ RefusedUnseen
<1>1. ASSUME IInv, Next, Panics, ~\E t \in Threads : FailsByItself(t)
      PROVE  Overlap
  <2>1. PICK t \in Threads : Step(t)
    BY <1>1 DEF Next
  <2>2. mutex # NoThread /\ mutex # t /\ pc[t] # "idle"
    BY <1>1, <2>1, PanicMeetsHolder
  <2>3. mutex \in Threads /\ pc[mutex] # "idle"
    BY <1>1, <2>2, HolderIsBusy
  <2> QED
    BY <2>2, <2>3 DEF Overlap
<1>2. ASSUME IInv, Next, RefusedUnseen
      PROVE  Overlap
  <2>1. PICK u \in Threads : pc[u] = "init_lock" /\ pc'[u] = "idle"
    BY <1>2 DEF RefusedUnseen
  <2>2. mutex # NoThread /\ mutex # u
    BY <1>2, <2>1, RefusedMeetsHolder DEF Next
  <2>3. mutex \in Threads /\ pc[mutex] # "idle"
    BY <1>2, <2>2, HolderIsBusy
  <2> QED
    BY <2>1, <2>2, <2>3 DEF Overlap
<1>3. IInv /\ [Next]_vars => [Obstructed => Overlap]_vars
  BY <1>1, <1>2
<1> QED
  BY <1>3, Invariant, PTL DEF Spec, AccessFailsOnlyInOverlap

-----------------------------------------------------------------------------
(* Singleton implements Ownership.                                         *)

\* The refinement mapping names the claimer, and says whether it has the
\* handle.
LEMMA HolderIsClaimer ==
  ASSUME IInv, NEW t \in Threads, Claims(t)
  PROVE  holderMap = t /\ grantedMap = (owned[t] = 1)
<1>1. platform /\ \A u \in Threads : Claims(u) => u = t
  BY DEF IInv, SingleInstance
<1>2. holderMap = t
  BY <1>1 DEF holderMap
<1>3. grantedMap <=> owned[t] = 1
  BY <1>1 DEF grantedMap, Claims
<1> QED
  BY <1>2, <1>3

\* The same of the state after a step.
LEMMA HolderIsClaimerNext ==
  ASSUME IInv', NEW t \in Threads, Claims(t)'
  PROVE  holderMap' = t /\ grantedMap' = (owned'[t] = 1)
<1>1. platform' /\ \A u \in Threads : Claims(u)' => u = t
  BY DEF IInv, SingleInstance
<1>2. holderMap' = t
  BY <1>1 DEF holderMap
<1>3. grantedMap' <=> owned'[t] = 1
  BY <1>1 DEF grantedMap, Claims
<1> QED
  BY <1>2, <1>3

\* A step that leaves PLATFORM, the handle and every claim alone is a stutter.
LEMMA SameClaims ==
  ASSUME UNCHANGED <<platform, owned>>,
         \A u \in Threads : pc'[u] \in InitInC <=> pc[u] \in InitInC
  PROVE  UNCHANGED <<holderMap, grantedMap>>
<1>1. \A u \in Threads : Claims(u)' <=> Claims(u)
  BY DEF Claims
<1>2. (CHOOSE u \in Threads : Claims(u)') = (CHOOSE u \in Threads : Claims(u))
  BY <1>1
<1> QED
  BY <1>1, <1>2 DEF holderMap, grantedMap

\* What remains of each action once the callbacks and the locks are abstracted.
LEMMA StepImplements ==
  ASSUME IInv, IInv', NEW t \in Threads, Step(t)
  PROVE  O!Next \/ UNCHANGED <<holderMap, grantedMap>>
<1>1. CASE InitCall(t) \/ HandleCall(t) \/ HandleRefuses(t) \/ HandleLock(t)
           \/ HandleUnlock(t) \/ HandleReturns(t) \/ InitLock(t)
           \/ CallbackEnter(t) \/ CallbackAborts(t) \/ CallbackPanics(t)
           \/ CallbackLeave(t)
  <2>1. UNCHANGED <<platform, owned>>
    BY <1>1
       DEF InitCall, HandleCall, Starts, HandleRefuses, HandleLock,
           HandlePanics, HandleUnlock, HandleReturns, InitLock, InitRefuse,
           CallbackEnter, CallbackAborts, CallbackPanics, CallbackLeave, Abort
  <2>2. \/ UNCHANGED pc
        \/ /\ pc[t] \notin InitInC
           /\ \E stage \in Stages \ InitInC : pc' = [pc EXCEPT ![t] = stage]
    BY <1>1
       DEF InitCall, HandleCall, HandleEntry, Starts, HandleRefuses,
           HandleLock, HandlePanics, Unwinds, BodyOf, TakeGuard, HandleUnlock,
           ResetBody, RestoreBody, LastBody, HandleReturns, AnswerPanics,
           LibraryReturns, InitLock, InitRefuse, CallbackEnter, CallbackAborts,
           CallbackPanics, CallbackLeave, Abort, Return, Goto
  <2>3. \A u \in Threads : pc'[u] \in InitInC <=> pc[u] \in InitInC
    BY <2>2 DEF IInv, TypeOK
  <2> QED
    BY <2>1, <2>3, SameClaims
<1>2. CASE InitBody(t)
  <2>1. CASE InitFound(t) \/ InitRejected(t)
    <3>1. \A u \in Threads : pc'[u] \in InitInC <=> pc[u] \in InitInC
      BY <1>2, <2>1
         DEF InitBody, InitFound, InitRejected, Return, Goto, IInv, TypeOK
    <3> QED
      BY <1>2, <2>1, <3>1, SameClaims DEF InitBody, InitFound, InitRejected
  <2>2. CASE InitInserted(t)
    <3>1. holderMap = Free
      BY <2>2 DEF InitInserted, holderMap
    <3>2. owned[t] = 0 /\ owned' = owned /\ Claims(t)'
      BY <1>2, <2>2
         DEF InitInserted, InitBody, Goto, Claims, IInv, TypeOK,
             SingleInstance
    <3>3. holderMap' = t /\ grantedMap' = (owned'[t] = 1)
      BY <3>2, HolderIsClaimerNext
    <3>4. (owned'[t] = 1) = FALSE
      BY <3>2
    <3> QED
      BY <3>1, <3>3, <3>4 DEF O!Next, O!Claim
  <2> QED
    BY <1>2, <2>1, <2>2 DEF InitBody
<1>3. CASE ManufactureReturns(t)
  <2>1. pc[t] = "manufacture" /\ UNCHANGED <<platform, owned>> /\ Claims(t)
    BY <1>3 DEF ManufactureReturns, LibraryReturns, Claims
  <2>2. holderMap = t
    BY <2>1, HolderIsClaimer
  <2>3. CASE Goto(t, "tpm_init")
    <3>1. \A u \in Threads : pc'[u] \in InitInC <=> pc[u] \in InitInC
      BY <2>1, <2>3 DEF Goto, IInv, TypeOK
    <3> QED
      BY <2>1, <3>1, SameClaims
  <2>4. CASE Return(t, "Err")
    <3>1. platform' /\ \A u \in Threads : ~Claims(u)' /\ owned'[u] = 0
      BY <2>1, <2>4 DEF Return, Goto, Claims, IInv, TypeOK, SingleInstance
    <3>2. holderMap' = Lost /\ grantedMap' = FALSE
      BY <3>1 DEF holderMap, grantedMap
    <3> QED
      BY <2>2, <3>2 DEF O!Next, O!Lose
  <2> QED
    BY <1>3, <2>3, <2>4 DEF ManufactureReturns
<1>4. CASE InitReturns(t)
  <2>1. owned[t] = 0 /\ owned'[t] = 1 /\ Claims(t) /\ Claims(t)'
    BY <1>4
       DEF InitReturns, LibraryReturns, Claims, IInv, TypeOK, SingleInstance
  <2>2. /\ holderMap = t /\ grantedMap = (owned[t] = 1)
        /\ holderMap' = t /\ grantedMap' = (owned'[t] = 1)
    BY <2>1, HolderIsClaimer, HolderIsClaimerNext
  <2>3. (owned[t] = 1) = FALSE /\ (owned'[t] = 1) = TRUE
    BY <2>1
  <2> QED
    BY <2>2, <2>3 DEF O!Next, O!Grant
<1>5. CASE DropLock(t)
  <2>1. owned[t] = 1 /\ Claims(t)
    BY <1>5 DEF DropLock, Claims, IInv, HandleOwned
  <2>2. CASE UNCHANGED owned
    <3>1. \A u \in Threads : pc'[u] \in InitInC <=> pc[u] \in InitInC
      BY <1>5, <2>1, <2>2
         DEF DropLock, TakeGuard, Abort, Return, Goto, IInv, TypeOK
    <3> QED
      BY <1>5, <2>2, <3>1, SameClaims DEF DropLock, Abort
  <2>3. CASE owned' # owned
    <3>1. holderMap = t
      BY <2>1, HolderIsClaimer
    <3>2. platform' /\ \A u \in Threads : ~Claims(u)' /\ owned'[u] = 0
      BY <1>5, <2>1, <2>3
         DEF DropLock, Abort, TakeGuard, Return, Goto, Claims, IInv, TypeOK,
             SingleInstance
    <3>3. holderMap' = Lost /\ grantedMap' = FALSE
      BY <3>2 DEF holderMap, grantedMap
    <3> QED
      BY <3>1, <3>3 DEF O!Next, O!Lose
  <2> QED
    BY <2>2, <2>3
<1>6. CASE DropBody(t)
  <2>1. owned[t] = 1 /\ Claims(t)
    BY <1>6 DEF DropBody, Claims, IInv, HandleOwned
  <2>2. holderMap = t /\ grantedMap = TRUE
    BY <2>1, HolderIsClaimer
  <2>3. \A u \in Threads : owned'[u] = 0
    BY <1>6, <2>1 DEF DropBody, Claims, IInv, TypeOK, SingleInstance
  <2>4. holderMap' = Free /\ grantedMap' = FALSE
    BY <1>6, <2>3 DEF DropBody, holderMap, grantedMap
  <2> QED
    BY <2>2, <2>4 DEF O!Next, O!Release
<1>7. ASSUME NEW u \in Threads, Move(t, u) PROVE O!Next
  <2>1. owned[t] = 1 /\ owned'[u] = 1 /\ Claims(t) /\ Claims(u)'
    BY <1>7 DEF Move, Claims, IInv, TypeOK, SingleInstance
  <2>2. /\ holderMap = t /\ grantedMap = TRUE
        /\ holderMap' = u /\ grantedMap' = TRUE
    BY <2>1, HolderIsClaimer, HolderIsClaimerNext
  <2> QED
    BY <2>2 DEF O!Next, O!Transfer
<1> QED
  BY <1>1, <1>2, <1>3, <1>4, <1>5, <1>6, <1>7
     DEF Step, Works, LockStep, BodyStep, LibraryStep

\* However many threads there are, the platform passes between them only as the
\* documentation of MsTpm185Platform says.
THEOREM ImplementsOwnership == Spec => OwnershipSpec
<1>1. Init => O!Init
  BY DEF Init, O!Init, holderMap, grantedMap
<1>2. IInv /\ IInv' /\ [Next]_vars => [O!Next]_<<holderMap, grantedMap>>
  <2>1. ASSUME IInv, IInv', Next PROVE O!Next \/ UNCHANGED <<holderMap, grantedMap>>
    BY <2>1, StepImplements DEF Next
  <2>2. ASSUME UNCHANGED vars PROVE UNCHANGED <<holderMap, grantedMap>>
    BY <2>2, SameClaims DEF vars
  <2> QED
    BY <2>1, <2>2
<1> QED
  BY <1>1, <1>2, Invariant, PTL DEF Spec, OwnershipSpec, O!Spec

-----------------------------------------------------------------------------
(* Singleton implements Session.                                           *)

\* The mapping names the call of the thread that is inside the library, and
\* otherwise says whether the owner of the handle is ready for one.
CallMapped ==
  \A t \in Threads :
    /\ pc[t] \in InC => callMap = CallOf(pc[t])
    /\ owned[t] = 1 /\ pc[t] \notin InC => callMap = "ready"

LEMMA CallIsMapped == IInv => CallMapped
<1> SUFFICES ASSUME IInv, NEW t \in Threads,
                    pc[t] \in InC \/ owned[t] = 1
             PROVE  IF pc[t] \in InC THEN callMap = CallOf(pc[t])
                                     ELSE callMap = "ready"
  BY DEF CallMapped
<1>1. Claims(t) /\ platform /\ ~Orphaned
  BY DEF Orphaned, Claims, IInv, HandleOwned, SingleInstance
<1>2. \A u \in Threads : pc[u] \in InC => u = t
  BY <1>1 DEF Claims, IInv, HandleOwned, SingleInstance
<1>3. CASE pc[t] \in InC
  <2>1. t = CHOOSE u \in Threads : pc[u] \in InC
    BY <1>2, <1>3
  <2> QED
    BY <1>1, <1>3, <2>1 DEF callMap
<1>4. CASE pc[t] \notin InC
  BY <1>1, <1>2, <1>4 DEF callMap
<1> QED
  BY <1>3, <1>4

\* The same of the state after a step.
LEMMA CallIsMappedNext == IInv' => CallMapped'
  BY CallIsMapped, PTL

\* A step in which no thread enters, leaves or changes its call, and no claim
\* is won or lost, is a stutter.
LEMMA SameCall ==
  ASSUME UNCHANGED platform,
         \A u \in Threads :
           /\ Claims(u)' <=> Claims(u)
           /\ pc'[u] = pc[u] \/ (pc[u] \notin InC /\ pc'[u] \notin InC)
  PROVE  UNCHANGED callMap
<1>1. \A u \in Threads : pc'[u] \in InC <=> pc[u] \in InC
  OBVIOUS
<1>2. (CHOOSE u \in Threads : pc'[u] \in InC)
        = (CHOOSE u \in Threads : pc[u] \in InC)
  BY <1>1
<1>3. Orphaned' <=> Orphaned
  BY DEF Orphaned
<1>4. CASE \E u \in Threads : pc[u] \in InC
  <2> DEFINE v == CHOOSE u \in Threads : pc[u] \in InC
  <2>1. v \in Threads /\ pc[v] \in InC
    BY <1>4
  <2>2. pc'[v] = pc[v]
    BY <2>1
  <2> HIDE DEF v
  <2>3. callMap = IF ~platform THEN "none" ELSE IF Orphaned THEN "lost"
                  ELSE CallOf(pc[v])
    BY <1>4 DEF callMap, v
  <2>4. callMap' = IF ~platform' THEN "none" ELSE IF Orphaned' THEN "lost"
                   ELSE CallOf(pc'[v])
    BY <1>1, <1>2, <1>4 DEF callMap, v, CallOf
  <2> QED
    BY <1>3, <2>2, <2>3, <2>4
<1>5. CASE ~\E u \in Threads : pc[u] \in InC
  BY <1>1, <1>3, <1>5 DEF callMap
<1> QED
  BY <1>4, <1>5

\* What remains of each action once the locks, the callbacks and the threads
\* are abstracted.
LEMMA StepConverses ==
  ASSUME IInv, IInv', NEW t \in Threads, Step(t)
  PROVE  S!Next \/ UNCHANGED callMap
<1> USE CallIsMapped, CallIsMappedNext DEF CallMapped
<1>1. CASE InitCall(t) \/ HandleRefuses(t) \/ HandleLock(t) \/ InitLock(t)
           \/ CallbackEnter(t) \/ CallbackAborts(t) \/ CallbackPanics(t)
           \/ CallbackLeave(t)
  <2>1. UNCHANGED <<platform, owned>>
    BY <1>1
       DEF InitCall, Starts, HandleRefuses, HandleLock, HandlePanics, Unwinds,
           InitLock, InitRefuse, CallbackEnter, CallbackAborts,
           CallbackPanics, CallbackLeave, Abort
  <2>2. \/ UNCHANGED pc
        \/ /\ pc[t] \notin InC
           /\ \E stage \in Stages \ InC : pc' = [pc EXCEPT ![t] = stage]
    BY <1>1
       DEF InitCall, Starts, HandleRefuses, HandleLock, HandlePanics, Unwinds,
           BodyOf,
           TakeGuard, InitLock, InitRefuse, CallbackEnter, CallbackAborts,
           CallbackPanics, CallbackLeave, Abort, Return, Goto
  <2>3. \A u \in Threads :
          pc'[u] = pc[u] \/ (pc[u] \notin InC /\ pc'[u] \notin InC)
    BY <2>2 DEF IInv, TypeOK
  <2>4. \A u \in Threads : Claims(u)' <=> Claims(u)
    BY <2>1, <2>3 DEF Claims
  <2> QED
    BY <2>1, <2>3, <2>4, SameCall
<1>2. CASE HandleCall(t)
  <2>1. PICK stage \in HandleEntry : Starts(t, stage)
    BY <1>2 DEF HandleCall
  <2>2. owned[t] = 1 /\ owned'[t] = 1 /\ pc[t] = "idle" /\ pc'[t] = stage
    BY <1>2, <2>1 DEF HandleCall, Starts, Goto, IInv, TypeOK
  <2>3. callMap = "ready"
    BY <2>2
  <2>4. callMap' = IF stage \in InC THEN CallOf(stage) ELSE "ready"
    BY <2>2
  <2> QED
    BY <2>3, <2>4 DEF HandleEntry, CallOf, S!Next, S!Enter
<1>3. CASE InitBody(t)
  <2>1. CASE InitFound(t) \/ InitRejected(t)
    <3>1. UNCHANGED <<platform, owned>>
      BY <1>3, <2>1 DEF InitBody, InitFound, InitRejected
    <3>2. \A u \in Threads :
            pc'[u] = pc[u] \/ (pc[u] \notin InC /\ pc'[u] \notin InC)
      BY <1>3, <2>1
         DEF InitBody, InitFound, InitRejected, Return, Goto, IInv, TypeOK
    <3>3. \A u \in Threads : Claims(u)' <=> Claims(u)
      BY <3>1, <3>2 DEF Claims
    <3> QED
      BY <3>1, <3>2, <3>3, SameCall
  <2>2. CASE InitInserted(t)
    <3>1. callMap = "none"
      BY <2>2 DEF InitInserted, callMap
    <3>2. pc'[t] \in InitInC
      BY <1>3, <2>2 DEF InitInserted, Goto, IInv, TypeOK
    <3> QED
      BY <3>1, <3>2 DEF CallOf, S!Next, S!Insert
  <2> QED
    BY <1>3, <2>1, <2>2 DEF InitBody
<1>4. CASE ManufactureReturns(t)
  <2>1. pc[t] = "manufacture" /\ UNCHANGED <<platform, owned>> /\ Claims(t)
    BY <1>4 DEF ManufactureReturns, LibraryReturns, Claims
  <2>2. callMap = "manufacture"
    BY <2>1 DEF CallOf
  <2>3. CASE Goto(t, "tpm_init")
    <3>1. callMap' = "init"
      BY <2>1, <2>3 DEF Goto, CallOf, IInv, TypeOK
    <3> QED
      BY <2>2, <3>1 DEF S!Next, S!Manufactured
  <2>4. CASE Return(t, "Err")
    <3>1. platform' /\ \A u \in Threads : ~Claims(u)'
      BY <2>1, <2>4 DEF Return, Goto, Claims, IInv, TypeOK, SingleInstance
    <3>2. callMap' = "lost"
      BY <3>1 DEF callMap, Orphaned
    <3> QED
      BY <2>2, <3>2 DEF S!Next, S!Manufactured
  <2> QED
    BY <1>4, <2>3, <2>4 DEF ManufactureReturns
<1>5. CASE InitReturns(t)
  <2>1. pc[t] = "tpm_init" /\ pc'[t] = "idle" /\ owned'[t] = 1
    BY <1>5
       DEF InitReturns, LibraryReturns, Return, Goto, Claims, IInv, TypeOK,
           SingleInstance
  <2> QED
    BY <2>1 DEF CallOf, S!Next, S!Leave
<1>6. CASE HandleUnlock(t)
  <2>1. owned[t] = 1 /\ owned'[t] = 1 /\ pc[t] \notin InC
    BY <1>6
       DEF HandleUnlock, ResetBody, RestoreBody, LastBody, IInv, HandleOwned
  <2>2. pc'[t] \in {"idle", "reset_init", "apply_state"}
    BY <1>6
       DEF HandleUnlock, ResetBody, RestoreBody, LastBody, Return, Goto, IInv,
           TypeOK
  <2> QED
    BY <2>1, <2>2 DEF CallOf, S!Next, S!Enter
<1>7. CASE HandleReturns(t)
  <2>1. pc[t] \in {"reset_init", "execute", "apply_state", "get_state"}
    BY <1>7 DEF HandleReturns, AnswerPanics, LibraryReturns
  <2>2. owned[t] = 1 /\ owned'[t] = 1
    BY <1>7, <2>1 DEF HandleReturns, IInv, HandleOwned
  <2>3. pc'[t] \in {"idle", "save_lock", "unwind_lock"}
    BY <1>7 DEF HandleReturns, AnswerPanics, Unwinds, Return, Goto, IInv, TypeOK
  <2> QED
    BY <2>1, <2>2, <2>3 DEF CallOf, S!Next, S!Leave
<1>8. CASE DropLock(t)
  <2>1. owned[t] = 1 /\ pc[t] \notin InC
    BY <1>8 DEF DropLock, IInv, HandleOwned
  <2>2. CASE UNCHANGED owned
    <3>1. owned'[t] = 1 /\ pc'[t] \notin InC
      BY <1>8, <2>1, <2>2
         DEF DropLock, TakeGuard, Abort, Return, Goto, IInv, TypeOK
    <3> QED
      BY <2>1, <3>1
  <2>3. CASE owned' # owned
    <3>1. platform' /\ \A u \in Threads : ~Claims(u)'
      BY <1>8, <2>1, <2>3
         DEF DropLock, Abort, TakeGuard, Return, Goto, Claims, IInv, TypeOK,
             SingleInstance
    <3>2. callMap = "ready" /\ callMap' = "lost"
      BY <2>1, <3>1 DEF callMap, Orphaned
    <3> QED
      BY <3>2 DEF S!Next, S!Drop
  <2> QED
    BY <2>2, <2>3
<1>9. CASE DropBody(t)
  <2>1. owned[t] = 1 /\ pc[t] \notin InC
    BY <1>9 DEF DropBody, IInv, HandleOwned
  <2>2. callMap' = "none"
    BY <1>9 DEF DropBody, callMap
  <2> QED
    BY <2>1, <2>2 DEF S!Next, S!Drop
<1>10. ASSUME NEW u \in Threads, Move(t, u) PROVE UNCHANGED callMap
  <2>1. /\ owned[t] = 1 /\ pc[t] \notin InC
        /\ owned'[u] = 1 /\ pc'[u] \notin InC
    BY <1>10 DEF Move, Claims, IInv, TypeOK, SingleInstance
  <2> QED
    BY <2>1
<1> QED
  BY <1>1, <1>2, <1>3, <1>4, <1>5, <1>6, <1>7, <1>8, <1>9, <1>10
     DEF Step, Works, LockStep, BodyStep, LibraryStep

\* However many threads there are, they have one conversation with the library,
\* call by call.
THEOREM ImplementsSession == Spec => SessionSpec
<1>1. Init => S!Init
  BY DEF Init, S!Init, callMap
<1>2. IInv /\ IInv' /\ [Next]_vars => [S!Next]_callMap
  <2>1. ASSUME IInv, IInv', Next PROVE S!Next \/ UNCHANGED callMap
    BY <2>1, StepConverses DEF Next
  <2>2. ASSUME UNCHANGED vars PROVE UNCHANGED callMap
    BY <2>2, SameCall DEF vars, Claims
  <2> QED
    BY <2>1, <2>2
<1> QED
  BY <1>1, <1>2, Invariant, PTL DEF Spec, SessionSpec, S!Spec

-----------------------------------------------------------------------------
(* How far a call can go, and how a platform is lost.                      *)

\* How many steps a call that has come to this place can still make, those of
\* its callbacks apart.
StepsLeft(stage) ==
  CASE stage = "idle" -> 0
    [] stage \in {"drop_body", "save_body", "set_body", "tpm_init",
                  "reset_init", "apply_state"} -> 1
    [] stage \in {"manufacture", "reset_body", "restore_body", "drop_lock",
                  "unwind_lock"} -> 2
    [] stage \in {"init_body", "execute"} \cup HandleLocking -> 3
    [] stage \in {"init_lock", "get_state"} -> 4

\* A call never goes back: whatever the other threads do meanwhile, and however
\* its try_lock ends, a step of it that is not a callback's leaves fewer to do.
CallsGoForward ==
  [][\A t \in Threads :
       pc[t] # "idle" /\ pc'[t] # pc[t]
         => StepsLeft(pc'[t]) < StepsLeft(pc[t])]_vars

\* PLATFORM becomes unreachable only when TPM_Manufacture fails under
\* initialize, or drop panics because another thread holds the mutex.
LostByFailure ==
  [][~Orphaned /\ Orphaned' =>
       \E t \in Threads :
         \/ pc[t] = "manufacture" /\ result'[t] = "Err"
         \/ /\ pc[t] = "drop_lock" /\ result'[t] = "panic"
            /\ mutex # NoThread]_vars

\* A step of one thread moves that thread only, and moves it on.
LEMMA StepGoesForward ==
  ASSUME IInv, NEW t \in Threads, Step(t), NEW u \in Threads,
         pc[u] # "idle", pc'[u] # pc[u]
  PROVE  StepsLeft(pc'[u]) < StepsLeft(pc[u])
<1> USE DEF StepsLeft, Return, Goto, TakeGuard, IInv, TypeOK
<1>1. CASE InitCall(t) \/ HandleCall(t) \/ HandleRefuses(t)
  <2>1. pc[t] = "idle" /\ \A v \in Threads : v # t => pc'[v] = pc[v]
    BY <1>1 DEF InitCall, HandleCall, Starts, HandleRefuses
  <2> QED
    BY <2>1
<1>2. CASE LockStep(t)
  <2>1. CASE InitLock(t)
    BY <2>1 DEF InitLock, InitRefuse
  <2>2. CASE HandleLock(t)
    BY <2>2 DEF HandleLock, HandlePanics, Unwinds, BodyOf
  <2>3. CASE DropLock(t)
    BY <2>3 DEF DropLock, Abort
  <2> QED
    BY <1>2, <2>1, <2>2, <2>3 DEF LockStep
<1>3. CASE BodyStep(t)
  <2>1. CASE InitBody(t)
    BY <2>1 DEF InitBody, InitFound, InitRejected, InitInserted
  <2>2. CASE HandleUnlock(t)
    BY <2>2 DEF HandleUnlock, ResetBody, RestoreBody, LastBody
  <2>3. CASE DropBody(t)
    BY <2>3 DEF DropBody
  <2> QED
    BY <1>3, <2>1, <2>2, <2>3 DEF BodyStep
<1>4. CASE LibraryStep(t)
  BY <1>4
     DEF LibraryStep, LibraryReturns, ManufactureReturns, InitReturns,
         HandleReturns, AnswerPanics, Unwinds
<1>5. ~(CallbackEnter(t) \/ CallbackAborts(t) \/ CallbackPanics(t)
          \/ CallbackLeave(t) \/ (\E v \in Threads : Move(t, v)))
  BY DEF CallbackEnter, CallbackAborts, CallbackPanics, CallbackLeave, Abort,
         Move
<1> QED
  BY <1>1, <1>2, <1>3, <1>4, <1>5 DEF Step, Works

\* No call goes round in circles: it takes at most four steps besides its
\* callbacks.  That the thread is scheduled for them, and that the library
\* returns, are the assumptions under which CallsReturn is checked.
THEOREM CallsAdvance == Spec => CallsGoForward
<1> DEFINE Forward ==
      \A t \in Threads :
        pc[t] # "idle" /\ pc'[t] # pc[t] => StepsLeft(pc'[t]) < StepsLeft(pc[t])
<1>1. ASSUME IInv, Next PROVE Forward
  BY <1>1, StepGoesForward DEF Next
<1>2. IInv /\ [Next]_vars => [Forward]_vars
  BY <1>1
<1> QED
  BY <1>2, Invariant, PTL DEF Spec, CallsGoForward

\* Nothing else leaves a PLATFORM behind that nobody can drop: not a refused or
\* rejected initialize, not a method that fails or panics.
THEOREM LostOnlyByFailure == Spec => LostByFailure
<1> DEFINE Failed ==
      \E t \in Threads :
        \/ pc[t] = "manufacture" /\ result'[t] = "Err"
        \/ /\ pc[t] = "drop_lock" /\ result'[t] = "panic"
           /\ mutex # NoThread
<1>1. ASSUME IInv, Next, ~Orphaned, Orphaned' PROVE Failed
  <2>1. PICK t \in Threads : Step(t)
    BY <1>1 DEF Next
  <2>2. \A u \in Threads : ~Claims(u)'
    BY <1>1 DEF Orphaned
  <2>3. platform' /\ ~(platform /\ \A u \in Threads : ~Claims(u))
    BY <1>1 DEF Orphaned
  <2>4. CASE \/ InitCall(t) \/ HandleCall(t) \/ HandleRefuses(t) \/ HandleLock(t)
             \/ InitLock(t) \/ HandleUnlock(t) \/ HandleReturns(t)
             \/ CallbackEnter(t) \/ CallbackAborts(t) \/ CallbackPanics(t)
             \/ CallbackLeave(t)
    <3>1. UNCHANGED <<platform, owned>>
      BY <2>4
         DEF InitCall, HandleCall, Starts, HandleRefuses, HandleLock,
             HandlePanics, HandleUnlock, HandleReturns, InitLock, InitRefuse,
             CallbackEnter, CallbackAborts, CallbackPanics, CallbackLeave,
             Abort
    <3>2. \/ UNCHANGED pc
          \/ pc[t] \notin InitInC /\ \A v \in Threads : v # t => pc'[v] = pc[v]
      BY <1>1, <2>4
         DEF InitCall, HandleCall, Starts, HandleRefuses, HandleLock,
             HandlePanics, Unwinds, TakeGuard, HandleUnlock, ResetBody,
             RestoreBody, LastBody, HandleReturns, AnswerPanics,
             LibraryReturns, InitLock, InitRefuse, CallbackEnter,
             CallbackAborts, CallbackPanics, CallbackLeave, Abort, Return,
             Goto, IInv, TypeOK
    <3> QED
      BY <2>2, <2>3, <3>1, <3>2 DEF Claims
  <2>5. CASE InitBody(t)
    <3>1. CASE InitFound(t) \/ InitRejected(t)
      <4>1. UNCHANGED <<platform, owned>>
        BY <2>5, <3>1 DEF InitBody, InitFound, InitRejected
      <4>2. pc[t] \notin InitInC /\ \A v \in Threads : v # t => pc'[v] = pc[v]
        BY <1>1, <2>5, <3>1
           DEF InitBody, InitFound, InitRejected, Return, Goto, IInv, TypeOK
      <4> QED
        BY <2>2, <2>3, <4>1, <4>2 DEF Claims
    <3>2. CASE InitInserted(t)
      <4>1. Claims(t)'
        BY <1>1, <3>2 DEF InitInserted, Goto, Claims, IInv, TypeOK
      <4> QED
        BY <2>2, <4>1
    <3> QED
      BY <2>5, <3>1, <3>2 DEF InitBody
  <2>6. CASE ManufactureReturns(t)
    <3>1. CASE Goto(t, "tpm_init")
      <4>1. Claims(t)'
        BY <1>1, <3>1 DEF Goto, Claims, IInv, TypeOK
      <4> QED
        BY <2>2, <4>1
    <3>2. CASE Return(t, "Err")
      BY <1>1, <2>6, <3>2
         DEF ManufactureReturns, LibraryReturns, Return, IInv, TypeOK
    <3> QED
      BY <2>6, <3>1, <3>2 DEF ManufactureReturns
  <2>7. CASE InitReturns(t)
    <3>1. owned'[t] = 1
      BY <1>1, <2>7
         DEF InitReturns, LibraryReturns, IInv, TypeOK, SingleInstance, Claims
    <3> QED
      BY <2>2, <3>1 DEF Claims
  <2>8. CASE DropLock(t)
    <3>1. owned[t] = 1
      BY <1>1, <2>8 DEF DropLock, IInv, HandleOwned
    <3>2. owned' # owned
      BY <2>2, <3>1 DEF Claims
    <3> QED
      BY <1>1, <2>8, <3>2 DEF DropLock, Abort, Return, IInv, TypeOK
  <2>9. CASE DropBody(t)
    BY <2>3, <2>9 DEF DropBody
  <2>10. ASSUME NEW u \in Threads, Move(t, u) PROVE FALSE
    <3>1. owned'[u] = 1
      BY <1>1, <2>10 DEF Move, Claims, IInv, TypeOK, SingleInstance
    <3> QED
      BY <2>2, <3>1 DEF Claims
  <2> QED
    BY <2>1, <2>4, <2>5, <2>6, <2>7, <2>8, <2>9, <2>10
       DEF Step, Works, LockStep, BodyStep, LibraryStep
<1>2. IInv /\ [Next]_vars => [~Orphaned /\ Orphaned' => Failed]_vars
  BY <1>1
<1> QED
  BY <1>2, Invariant, PTL DEF Spec, LostByFailure
=============================================================================
