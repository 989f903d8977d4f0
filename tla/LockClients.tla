----------------------------- MODULE LockClients -----------------------------
(* The threads that use the primitives of SplCondvar, RrwLock, ZrLock,     *)
(* ConfigLock, RangeLock and Zthr.                                         *)
EXTENDS Integers, FiniteSets

CONSTANTS
    Procs,
    NoProc              \* no thread

ASSUME ClientsAssumption == IsFiniteSet(Procs) /\ NoProc \notin Procs
=============================================================================
