------------------------------ MODULE Ownership ------------------------------
(***************************************************************************)
(* What the singleton promises its users (the doc comment of               *)
(* MsTpm185Platform, src/plat/mod.rs:91-100): the platform is free, or it  *)
(* is in the hands of exactly one thread, which is initializing it or owns *)
(* the handle, or it is lost for the rest of the process.                  *)
(***************************************************************************)
CONSTANTS Threads, Free, Lost

VARIABLES holder,   \* the thread that has the platform, or Free, or Lost
          granted   \* TRUE: the holder has been given the handle

Init == holder = Free /\ granted = FALSE

\* initialize inserts the platform.
Claim(t) == holder = Free /\ holder' = t /\ granted' = FALSE

\* initialize returns the handle.
Grant(t) == holder = t /\ ~granted /\ granted' = TRUE /\ UNCHANGED holder

\* The handle is sent to another thread.
Transfer(t, u) == holder = t /\ granted /\ holder' = u /\ UNCHANGED granted

\* The handle is dropped.
Release(t) == holder = t /\ granted /\ holder' = Free /\ granted' = FALSE

\* initialize fails after the insertion, or drop panics.
Lose(t) == holder = t /\ holder' = Lost /\ granted' = FALSE

Next == \E t \in Threads : \/ Claim(t)
                           \/ Grant(t)
                           \/ \E u \in Threads : Transfer(t, u)
                           \/ Release(t)
                           \/ Lose(t)

Spec == Init /\ [][Next]_<<holder, granted>>
=============================================================================
