------------------------------- MODULE MCLocks -------------------------------
(***************************************************************************)
(* The mutex, and the paths that take several of them.  A behaviour is one *)
(* of Bakery or one of TrapLocks, by the choice of `part`: they share no   *)
(* variable, and TrapLocks rests on what Bakery promises.                  *)
(*                                                                         *)
(* In Bakery each CPU makes a bounded number of calls, and MaxNumber is    *)
(* small enough to be reached.                                             *)
(***************************************************************************)
EXTENDS Bakery

CONSTANT MaxCalls   \* calls of enter() per CPU

VARIABLES
    calls,      \* calls made so far
    holder, stage, path,
    part

INSTANCE TrapLocks WITH CPUs <- {0, 1}

budgetVars == <<vars, calls>>

BudgetNext ==
    \E c \in CPUs :
        \/ /\ pc[c] = "outside"
           /\ calls[c] < MaxCalls
           /\ StartChoosing(c)
           /\ calls' = [calls EXCEPT ![c] = @ + 1]
        \/ CallStep(c) /\ UNCHANGED calls

LocksInit ==
    /\ part \in {"bakery", "traps"}
    /\ BakeryInit /\ calls = [c \in CPUs |-> 0]
    /\ TrapLocksInit

LocksNext ==
    /\ UNCHANGED part
    /\ \/ part = "bakery" /\ BudgetNext /\ UNCHANGED <<holder, stage, path>>
       \/ part = "traps" /\ TrapLocksNext /\ UNCHANGED budgetVars

\* The fairness of the two, each for the behaviours that are its own.
LocksSpec ==
    /\ LocksInit /\ [][LocksNext]_<<budgetVars, holder, stage, path, part>>
    /\ \A c \in CPUs :
         /\ WF_budgetVars(part = "bakery" /\ CallStep(c) /\ UNCHANGED calls)
         /\ SF_budgetVars(part = "bakery" /\ SeeChosen(c) /\ UNCHANGED calls)
    /\ \A c \in {0, 1} :
         /\ WF_<<holder, stage, path>>(part = "traps" /\ Release(c))
         /\ WF_<<holder, stage, path>>(part = "traps" /\ Proceed(c))
         /\ SF_<<holder, stage, path>>(part = "traps" /\ Acquire(c))
=============================================================================
