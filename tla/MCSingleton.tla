----------------------------- MODULE MCSingleton -----------------------------
(* Singleton, with its refinement mapping, for TLC: the names of threads.  *)
EXTENDS SingletonOwnership

CONSTANTS t1, t2, t3
=============================================================================
