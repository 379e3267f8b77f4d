------------------------------- MODULE Mutex -------------------------------
(***************************************************************************)
(* What a lock of the monitor promises to the code that runs under it: at  *)
(* most one CPU is inside the protected section.  Every module that treats *)
(* a section under `Mutex::with` or `Claims::enter` as one step, or that   *)
(* guards a section with a holder variable, relies on this specification;  *)
(* the module Bakery is shown to implement it.                             *)
(***************************************************************************)
CONSTANTS
    CPUs,       \* the pinned physical CPUs, one participant each
    NoCPU       \* the value of holder while the lock is free

ASSUME NoCPUAssumption == NoCPU \notin CPUs

VARIABLE holder \* the CPU whose guard is alive, or NoCPU

MutexTypeOK == holder \in CPUs \cup {NoCPU}

MutexInit == holder = NoCPU

\* The guard is created: Claims::enter and Mutex::with return to the caller.
Acquire(c) == holder = NoCPU /\ holder' = c

\* The guard is dropped at the end of the protected section.
Release(c) == holder = c /\ holder' = NoCPU

MutexNext == \E c \in CPUs : Acquire(c) \/ Release(c)

MutexSpec == MutexInit /\ [][MutexNext]_holder
=============================================================================
