------------------------------- MODULE Bakery -------------------------------
(***************************************************************************)
(* The Bakery lock of the monitor.  The code has two instances of the same *)
(* algorithm: `Claims` (psci.rs), which serialises CPU_ON claims, and      *)
(* `Mutex` (arch/aarch64/sync.rs), which protects USB, NETWORK, UART,      *)
(* DISTRIBUTOR and LIC.  It uses only loads and stores, so every load and  *)
(* every store of a shared slot is a step of its own here.                 *)
(*                                                                         *)
(* A slot is one machine word: bit 0 says that its owner is choosing, the  *)
(* other bits hold the owner's number.  A load or a store moves both parts *)
(* at once, so the word is modelled as a pair.  Numbers are bounded by     *)
(* u64::MAX >> 1, the constant MaxNumber.                                  *)
(***************************************************************************)
EXTENDS Integers

CONSTANTS
    N,          \* CPU_COUNT
    MaxNumber   \* u64::MAX >> 1, the largest number a slot can hold

ASSUME BakeryAssumption == /\ N \in Nat \ {0}
                           /\ MaxNumber \in Nat \ {0}

CPUs == 0 .. N - 1
NoCPU == N

VARIABLES
    slot,       \* slots[c]
    pc,         \* where CPU c is in enter()/with()
    cursor,     \* the index of the slot c's iterator reads next
    maximum     \* the maximum of the numbers c's scan has read so far

vars == <<slot, pc, cursor, maximum>>

Word == [choosing : BOOLEAN, number : 0 .. MaxNumber]
Free == [choosing |-> FALSE, number |-> 0]
Choosing == [choosing |-> TRUE, number |-> 0]

Phases == {"outside", "scan", "retry", "await_choice", "await_turn", "inside"}

BakeryTypeOK ==
    /\ slot \in [CPUs -> Word]
    /\ pc \in [CPUs -> Phases]
    /\ cursor \in [CPUs -> 0 .. N]
    /\ maximum \in [CPUs -> 0 .. MaxNumber]

BakeryInit ==
    /\ slot = [c \in CPUs |-> Free]
    /\ pc = [c \in CPUs |-> "outside"]
    /\ cursor = [c \in CPUs |-> 0]
    /\ maximum = [c \in CPUs |-> 0]
-----------------------------------------------------------------------------
(***************************************************************************)
(* The doorway: publish "choosing", read every slot in index order (the    *)
(* own one included), then publish the number or withdraw.                 *)
(***************************************************************************)
StartChoosing(c) ==
    /\ pc[c] \in {"outside", "retry"}
    /\ slot' = [slot EXCEPT ![c] = Choosing]
    /\ pc' = [pc EXCEPT ![c] = "scan"]
    /\ cursor' = [cursor EXCEPT ![c] = 0]
    /\ maximum' = [maximum EXCEPT ![c] = 0]

\* Mutant: the scan keeps the last number instead of the greatest.
ScanSlotLast(c) ==
    /\ pc[c] = "scan"
    /\ cursor[c] < N
    /\ maximum' = [maximum EXCEPT ![c] = slot[cursor[c]].number]
    /\ cursor' = [cursor EXCEPT ![c] = @ + 1]
    /\ UNCHANGED <<slot, pc>>

ScanSlot(c) ==
    /\ pc[c] = "scan"
    /\ cursor[c] < N
    /\ maximum' = [maximum EXCEPT ![c] = IF slot[cursor[c]].number > @
                                         THEN slot[cursor[c]].number ELSE @]
    /\ cursor' = [cursor EXCEPT ![c] = @ + 1]
    /\ UNCHANGED <<slot, pc>>

\* Mutant: the slot is not freed before the retry.
WithdrawChoosing(c) ==
    /\ pc[c] = "scan"
    /\ cursor[c] = N
    /\ maximum[c] = MaxNumber
    /\ pc' = [pc EXCEPT ![c] = "retry"]
    /\ UNCHANGED <<slot, cursor, maximum>>

\* The number space is exhausted: free the slot before trying again.
Withdraw(c) ==
    /\ pc[c] = "scan"
    /\ cursor[c] = N
    /\ maximum[c] = MaxNumber
    /\ slot' = [slot EXCEPT ![c] = Free]
    /\ pc' = [pc EXCEPT ![c] = "retry"]
    /\ UNCHANGED <<cursor, maximum>>

TakeNumber(c) ==
    /\ pc[c] = "scan"
    /\ cursor[c] = N
    /\ maximum[c] # MaxNumber
    /\ slot' = [slot EXCEPT ![c] = [choosing |-> FALSE, number |-> maximum[c] + 1]]
    /\ pc' = [pc EXCEPT ![c] = "await_choice"]
    /\ cursor' = [cursor EXCEPT ![c] = 0]
    /\ UNCHANGED maximum
-----------------------------------------------------------------------------
(***************************************************************************)
(* The wait: for each other slot, first until its owner is not choosing,   *)
(* then until its number is zero or not before the caller's.               *)
(***************************************************************************)

\* (theirs, other) >= (number, caller): `other` does not go before c.
NotBefore(other, c) ==
    \/ slot[other].number > slot[c].number
    \/ slot[other].number = slot[c].number /\ other >= c

SkipSelf(c) ==
    /\ pc[c] = "await_choice"
    /\ cursor[c] = c
    /\ cursor' = [cursor EXCEPT ![c] = @ + 1]
    /\ UNCHANGED <<slot, pc, maximum>>

\* Mutant: nobody waits for a chooser.
SeeChosenUnchecked(c) ==
    /\ pc[c] = "await_choice"
    /\ cursor[c] \in CPUs \ {c}
    /\ pc' = [pc EXCEPT ![c] = "await_turn"]
    /\ UNCHANGED <<slot, cursor, maximum>>

SeeChosen(c) ==
    /\ pc[c] = "await_choice"
    /\ cursor[c] \in CPUs \ {c}
    /\ ~slot[cursor[c]].choosing
    /\ pc' = [pc EXCEPT ![c] = "await_turn"]
    /\ UNCHANGED <<slot, cursor, maximum>>

\* Mutant: equal numbers are not ordered by the index.
SeeTurnTied(c) ==
    /\ pc[c] = "await_turn"
    /\ slot[cursor[c]].number = 0 \/ slot[cursor[c]].number >= slot[c].number
    /\ pc' = [pc EXCEPT ![c] = "await_choice"]
    /\ cursor' = [cursor EXCEPT ![c] = @ + 1]
    /\ UNCHANGED <<slot, maximum>>

SeeTurn(c) ==
    /\ pc[c] = "await_turn"
    /\ slot[cursor[c]].number = 0 \/ NotBefore(cursor[c], c)
    /\ pc' = [pc EXCEPT ![c] = "await_choice"]
    /\ cursor' = [cursor EXCEPT ![c] = @ + 1]
    /\ UNCHANGED <<slot, maximum>>

Enter(c) ==
    /\ pc[c] = "await_choice"
    /\ cursor[c] = N
    /\ pc' = [pc EXCEPT ![c] = "inside"]
    /\ UNCHANGED <<slot, cursor, maximum>>

\* The guard's Drop: one store of zero.
Leave(c) ==
    /\ pc[c] = "inside"
    /\ slot' = [slot EXCEPT ![c] = Free]
    /\ pc' = [pc EXCEPT ![c] = "outside"]
    /\ UNCHANGED <<cursor, maximum>>

\* A call of enter()/with() from its first store on.
CallStep(c) ==
    \/ pc[c] = "retry" /\ StartChoosing(c)
    \/ ScanSlot(c)
    \/ Withdraw(c)
    \/ TakeNumber(c)
    \/ SkipSelf(c)
    \/ SeeChosen(c)
    \/ SeeTurn(c)
    \/ Enter(c)
    \/ Leave(c)

BakeryNext == \E c \in CPUs : StartChoosing(c) \/ CallStep(c)

BakerySpec == BakeryInit /\ [][BakeryNext]_vars

(***************************************************************************)
(* A CPU that has called enter() keeps executing: interrupts are masked at *)
(* EL2 and no protected section blocks.  Nothing obliges a CPU to call.    *)
(***************************************************************************)
KeepsRunning == \A c \in CPUs : WF_vars(CallStep(c))

(***************************************************************************)
(* A CPU that spins on another's choosing bit samples it for ever, so a    *)
(* window that keeps reopening is seen at last.  Only the exhaustion of    *)
(* the number space, where withdrawn CPUs keep setting and clearing the    *)
(* bit, needs this.                                                        *)
(***************************************************************************)
KeepsSampling == \A c \in CPUs : SF_vars(SeeChosen(c))

BakeryFairSpec == BakerySpec /\ KeepsRunning /\ KeepsSampling
-----------------------------------------------------------------------------
(***************************************************************************)
(* MUTUAL EXCLUSION.  Two CPUs are never inside the protected section of   *)
(* one lock together, whatever the interleaving of their loads and stores  *)
(* and also while numbers run out (psci.rs Claims::enter, sync.rs          *)
(* Mutex::with).                                                           *)
(***************************************************************************)
MutualExclusion ==
    \A c, d \in CPUs : c # d => ~(pc[c] = "inside" /\ pc[d] = "inside")

(***************************************************************************)
(* FIRST COME, FIRST SERVED.  Whoever is inside goes before every CPU that *)
(* waits with a number, in the order of (number, CPU); a CPU that took its *)
(* number before another one started to choose has the smaller number, so  *)
(* it is never overtaken (psci.rs:97, sync.rs Mutex::with).                *)
(***************************************************************************)
ServedInOrder ==
    \A c, d \in CPUs :
        /\ pc[d] = "inside"
        /\ pc[c] \in {"await_choice", "await_turn"}
        => d # c /\ NotBefore(c, d)

(***************************************************************************)
(* Why the lock excludes.  Ahead(c, d): c holds a number and d, if it      *)
(* wants the lock, will find c in front of it; d has not yet got past c's  *)
(* slot and is not inside.                                                 *)
(***************************************************************************)
Ahead(c, d) ==
    \/ pc[d] \in {"outside", "retry"}
    \/ pc[d] = "scan" /\ (cursor[d] <= c \/ maximum[d] >= slot[c].number)
    \/ /\ pc[d] \in {"await_choice", "await_turn"}
       /\ cursor[d] <= c
       /\ ~NotBefore(c, d)

\* The word of c's slot in each phase of the call.
SlotFollowsPhase(c) ==
    /\ pc[c] \in {"outside", "retry"} => slot[c] = Free
    /\ pc[c] = "scan" => slot[c] = Choosing
    /\ pc[c] \in {"await_choice", "await_turn", "inside"} =>
            ~slot[c].choosing /\ slot[c].number > 0
    /\ pc[c] = "await_turn" => cursor[c] \in CPUs \ {c}

\* c is ahead of every CPU whose slot it has waited for.
PassedAreBehind(c) ==
    /\ pc[c] \in {"await_choice", "await_turn"} =>
            \A d \in CPUs \ {c} : d < cursor[c] => Ahead(c, d)
    /\ pc[c] = "inside" => \A d \in CPUs \ {c} : Ahead(c, d)

\* A CPU that starts choosing after c saw it idle will read c's number.
LateChooserIsBehind(c) ==
    pc[c] = "await_turn" /\ pc[cursor[c]] = "scan" => Ahead(c, cursor[c])

(***************************************************************************)
(* THE INDUCTIVE INVARIANT behind mutual exclusion: the slot's word and    *)
(* the phase of the call agree, a CPU is ahead of all whose slot it has    *)
(* waited for, and whoever starts choosing behind its back reads its       *)
(* number (psci.rs Claims::enter, sync.rs Mutex::with).                    *)
(***************************************************************************)
LockInvariant ==
    /\ BakeryTypeOK
    /\ \A c \in CPUs : /\ SlotFollowsPhase(c)
                        /\ PassedAreBehind(c)
                        /\ LateChooserIsBehind(c)

(***************************************************************************)
(* EVERY CALL GETS IN, from its first store on.  "Withdraw before retrying *)
(* so overflow cannot block a chooser" (psci.rs:79): the CPUs that find    *)
(* the numbers exhausted keep nobody out, and get in themselves later.     *)
(***************************************************************************)
CallIsServed == \A c \in CPUs : pc[c] = "scan" ~> pc[c] = "inside"

(***************************************************************************)
(* The lock implements the abstract lock.  The guard is alive exactly      *)
(* while its owner is inside.                                              *)
(***************************************************************************)
Holder == IF \E c \in CPUs : pc[c] = "inside"
          THEN CHOOSE c \in CPUs : pc[c] = "inside"
          ELSE NoCPU

AbstractLock == INSTANCE Mutex WITH holder <- Holder

ImplementsMutex == AbstractLock!MutexSpec
=============================================================================
