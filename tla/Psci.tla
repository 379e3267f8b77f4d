-------------------------------- MODULE Psci --------------------------------
(***************************************************************************)
(* Virtual CPU power control: `Machine` and `Participant` (psci.rs), the   *)
(* SMC handler and the dispatch loop of a parked CPU (vm/vcpu.rs), and the *)
(* entry and parking code of a CPU (arch/aarch64/entry.S).                 *)
(*                                                                         *)
(* The monitor runs on every physical CPU at once.  Each load or store of  *)
(* a shared field is a step.  The Bakery lock inside `request` is the      *)
(* abstract lock of the module Mutex, which the module Bakery implements.  *)
(* `entry` and `context` are relaxed accesses, so the two stores of a      *)
(* requester, and the two loads of the target, happen in either order;     *)
(* release/acquire accesses of `state` order them against the rest.        *)
(***************************************************************************)
EXTENDS Mutex, Integers

CONSTANTS
    CPU_COUNT,
    RAM_BASE, IPA_LIMIT,            \* guest memory is [RAM_BASE, IPA_LIMIT)
    RESIDENT_BASE, RESIDENT_SIZE,   \* less the monitor's own image
    Word32,                         \* 2^32: an SMC32 argument is cut to it
    Calls,                          \* the arguments x1, x2, x3 guests pass
    BootLaunch,                     \* what CPU 0 runs from the start
    NoLaunch

ASSUME PsciAssumption ==
    /\ CPU_COUNT \in Nat \ {0}
    /\ CPUs = 0 .. CPU_COUNT - 1
    /\ \A i \in {RAM_BASE, IPA_LIMIT, RESIDENT_BASE, RESIDENT_SIZE} : i \in Nat
    /\ Word32 \in Nat \ {0}
    /\ Calls \subseteq [x1 : Nat, x2 : Nat, x3 : Nat]

Fields == {"entry", "context"}
AnyLaunch == [Fields -> Nat]

ASSUME LaunchAssumption == /\ NoLaunch \notin AnyLaunch
                           /\ BootLaunch \notin AnyLaunch
                           /\ NoLaunch # BootLaunch

VARIABLES
    state,              \* Cpu::state
    physical_started,   \* Cpu::physical_started
    mailbox,            \* Cpu::entry and Cpu::context
    powered,            \* the firmware has started this physical CPU
    pc,                 \* what the CPU executes
    target,             \* argument of the CPU_ON call in progress
    launch,             \* argument of the CPU_ON call in progress
    status,             \* result of the CPU_ON call in progress
    todo,               \* fields still to be stored or loaded
    taken,              \* what take_launch has loaded, then what the guest runs
    event               \* the event register that SEV sets and WFE consumes

psciVars == <<holder, state, physical_started, mailbox, powered, pc, target,
              launch, status, todo, taken, event>>

States == {"ON", "OFF", "PENDING", "CLAIMED"}

\* Phases of a CPU_ON call, from the first instruction of `request`.
Claiming == {"load_state", "store_claimed", "unlock"}
Owning == {"store_launch", "check_started", "boot", "mark_started", "withdraw", "publish"}
Requesting == {"lock", "signal"} \cup Claiming \cup Owning

\* Phases of a CPU on its way into the guest.
Waking == {"dispatch", "wait", "take"}
Phases == {"absent", "secondary", "initialize", "guest", "off", "parked"}
          \cup Requesting \cup Waking

Statuses == {"none", "SUCCESS", "INVALID_PARAMS", "ALREADY_ON", "ON_PENDING", "DENIED"}

PsciTypeOK ==
    /\ MutexTypeOK
    /\ state \in [CPUs -> States]
    /\ physical_started \in [CPUs -> BOOLEAN]
    /\ mailbox \in [CPUs -> AnyLaunch]
    /\ powered \in [CPUs -> BOOLEAN]
    /\ pc \in [CPUs -> Phases]
    /\ target \in [CPUs -> CPUs]
    /\ launch \in [CPUs -> AnyLaunch]
    /\ status \in [CPUs -> Statuses]
    /\ todo \in [CPUs -> SUBSET Fields]
    /\ taken \in [CPUs -> AnyLaunch \cup {BootLaunch, NoLaunch}]
    /\ event \in [CPUs -> BOOLEAN]

ZeroLaunch == [f \in Fields |-> 0]

\* The boot CPU has minted the participants and entered the guest.
PsciInit ==
    /\ MutexInit
    /\ state = [c \in CPUs |-> IF c = 0 THEN "ON" ELSE "OFF"]
    /\ physical_started = [c \in CPUs |-> c = 0]
    /\ mailbox = [c \in CPUs |-> ZeroLaunch]
    /\ powered = [c \in CPUs |-> c = 0]
    /\ pc = [c \in CPUs |-> IF c = 0 THEN "guest" ELSE "absent"]
    /\ target = [c \in CPUs |-> c]
    /\ launch = [c \in CPUs |-> ZeroLaunch]
    /\ status = [c \in CPUs |-> "none"]
    /\ todo = [c \in CPUs |-> {}]
    /\ taken = [c \in CPUs |-> IF c = 0 THEN BootLaunch ELSE NoLaunch]
    /\ event = [c \in CPUs |-> FALSE]

Goto(c, phase) == pc' = [pc EXCEPT ![c] = phase]

\* DSB SY; SEV: every CPU's event register is set.
Sev == event' = [c \in CPUs |-> TRUE]
-----------------------------------------------------------------------------
(***************************************************************************)
(* CPU_ON: the arguments.                                                  *)
(***************************************************************************)
Functions32 == {"CPU_ON32", "AFFINITY32"}

argument(function, x) == IF function \in Functions32 THEN x % Word32 ELSE x

cpu_id(x) == x < CPU_COUNT

guest_entry(e) ==
    /\ e >= RAM_BASE
    /\ e % 4 = 0
    /\ e < IPA_LIMIT
    /\ ~(RESIDENT_BASE <= e /\ e < RESIDENT_BASE + RESIDENT_SIZE)

RequestOf(function, x) ==
    [f \in Fields |-> argument(function, IF f = "entry" THEN x.x2 ELSE x.x3)]

\* The launches a guest may ask for.
GuestLaunches ==
    {l \in {RequestOf(function, x) : function \in {"CPU_ON32", "CPU_ON64"}, x \in Calls} :
        guest_entry(l["entry"])}

\* A bad target returns before `request`; a bad entry still reaches the SEV.
CpuOn(c, function, x) ==
    /\ pc[c] = "guest"
    /\ cpu_id(argument(function, x.x1))
    /\ target' = [target EXCEPT ![c] = argument(function, x.x1)]
    /\ launch' = [launch EXCEPT ![c] = RequestOf(function, x)]
    /\ IF guest_entry(RequestOf(function, x)["entry"])
       THEN Goto(c, "lock") /\ UNCHANGED status
       ELSE Goto(c, "signal") /\ status' = [status EXCEPT ![c] = "INVALID_PARAMS"]
    /\ UNCHANGED <<holder, state, physical_started, mailbox, powered, todo, taken, event>>

(***************************************************************************)
(* CPU_ON: the claim, under the Bakery lock.                               *)
(***************************************************************************)
Lock(c) ==
    /\ pc[c] = "lock"
    /\ Acquire(c)
    /\ Goto(c, "load_state")
    /\ UNCHANGED <<state, physical_started, mailbox, powered, target, launch, status,
                   todo, taken, event>>

LoadState(c) ==
    /\ pc[c] = "load_state"
    /\ \/ state[target[c]] = "OFF" /\ Goto(c, "store_claimed") /\ UNCHANGED status
       \/ /\ state[target[c]] = "ON"
          /\ Goto(c, "unlock")
          /\ status' = [status EXCEPT ![c] = "ALREADY_ON"]
       \/ /\ state[target[c]] \in {"PENDING", "CLAIMED"}
          /\ Goto(c, "unlock")
          /\ status' = [status EXCEPT ![c] = "ON_PENDING"]
    /\ UNCHANGED <<holder, state, physical_started, mailbox, powered, target, launch,
                   todo, taken, event>>

StoreClaimed(c) ==
    /\ pc[c] = "store_claimed"
    /\ state' = [state EXCEPT ![target[c]] = "CLAIMED"]
    /\ Goto(c, "unlock")
    /\ UNCHANGED <<holder, physical_started, mailbox, powered, target, launch, status,
                   todo, taken, event>>

\* The guard is dropped on the early returns too.
Unlock(c) ==
    /\ pc[c] = "unlock"
    /\ Release(c)
    /\ IF status[c] = "none"
       THEN Goto(c, "store_launch") /\ todo' = [todo EXCEPT ![c] = Fields]
       ELSE Goto(c, "signal") /\ UNCHANGED todo
    /\ UNCHANGED <<state, physical_started, mailbox, powered, target, launch, status,
                   taken, event>>
-----------------------------------------------------------------------------
\* Mutant: the launch may be published before both fields are stored.
StoreFieldUnordered(c, f) ==
    /\ pc[c] = "store_launch"
    /\ f \in todo[c]
    /\ mailbox' = [mailbox EXCEPT ![target[c]][f] = launch[c][f]]
    /\ todo' = [todo EXCEPT ![c] = @ \ {f}]
    /\ Goto(c, "check_started")
    /\ UNCHANGED <<holder, state, physical_started, powered, target, launch, status,
                   taken, event>>

(***************************************************************************)
(* CPU_ON: the owner of the claim publishes the launch, after the physical *)
(* CPU has been booted once.                                               *)
(***************************************************************************)
StoreField(c, f) ==
    /\ pc[c] = "store_launch"
    /\ f \in todo[c]
    /\ mailbox' = [mailbox EXCEPT ![target[c]][f] = launch[c][f]]
    /\ todo' = [todo EXCEPT ![c] = @ \ {f}]
    /\ IF todo[c] = {f} THEN Goto(c, "check_started") ELSE UNCHANGED pc
    /\ UNCHANGED <<holder, state, physical_started, powered, target, launch, status,
                   taken, event>>

CheckStarted(c) ==
    /\ pc[c] = "check_started"
    /\ Goto(c, IF physical_started[target[c]] THEN "publish" ELSE "boot")
    /\ UNCHANGED <<holder, state, physical_started, mailbox, powered, target, launch,
                   status, todo, taken, event>>

(***************************************************************************)
(* The native CPU_ON of BL31.  It starts the physical CPU at the EL2       *)
(* trampoline, or returns an error; it always does for a CPU that runs.    *)
(***************************************************************************)
FirmwareCpuOn(c) ==
    /\ pc[c] = "boot"
    /\ ~powered[target[c]]
    /\ powered' = [powered EXCEPT ![target[c]] = TRUE]
    /\ pc' = [pc EXCEPT ![c] = "mark_started", ![target[c]] = "secondary"]
    /\ UNCHANGED <<holder, state, physical_started, mailbox, target, launch, status,
                   todo, taken, event>>

FirmwareError(c) ==
    /\ pc[c] = "boot"
    /\ Goto(c, "withdraw")
    /\ UNCHANGED <<holder, state, physical_started, mailbox, powered, target, launch,
                   status, todo, taken, event>>

\* boot_physical() != 0: the target is off again and the status is returned.
Withdraw(c) ==
    /\ pc[c] = "withdraw"
    /\ state' = [state EXCEPT ![target[c]] = "OFF"]
    /\ status' = [status EXCEPT ![c] = "DENIED"]
    /\ Goto(c, "signal")
    /\ UNCHANGED <<holder, physical_started, mailbox, powered, target, launch, todo,
                   taken, event>>

MarkStarted(c) ==
    /\ pc[c] = "mark_started"
    /\ physical_started' = [physical_started EXCEPT ![target[c]] = TRUE]
    /\ Goto(c, "publish")
    /\ UNCHANGED <<holder, state, mailbox, powered, target, launch, status, todo,
                   taken, event>>

Publish(c) ==
    /\ pc[c] = "publish"
    /\ state' = [state EXCEPT ![target[c]] = "PENDING"]
    /\ status' = [status EXCEPT ![c] = "SUCCESS"]
    /\ Goto(c, "signal")
    /\ UNCHANGED <<holder, physical_started, mailbox, powered, target, launch, todo,
                   taken, event>>

\* Mutant: CPU_ON does not signal.
SignalSilent(c) ==
    /\ pc[c] = "signal"
    /\ Goto(c, "guest")
    /\ target' = [target EXCEPT ![c] = c]
    /\ launch' = [launch EXCEPT ![c] = ZeroLaunch]
    /\ status' = [status EXCEPT ![c] = "none"]
    /\ UNCHANGED <<holder, state, physical_started, mailbox, powered, todo, taken, event>>

\* The SEV that ends every CPU_ON, and the return to the guest.
Signal(c) ==
    /\ pc[c] = "signal"
    /\ Sev
    /\ Goto(c, "guest")
    /\ target' = [target EXCEPT ![c] = c]
    /\ launch' = [launch EXCEPT ![c] = ZeroLaunch]
    /\ status' = [status EXCEPT ![c] = "none"]
    /\ UNCHANGED <<holder, state, physical_started, mailbox, powered, todo, taken>>
-----------------------------------------------------------------------------
(***************************************************************************)
(* CPU_OFF: virtual only; the physical CPU goes back to the dispatch loop. *)
(***************************************************************************)
PowerOff(c) ==
    /\ pc[c] = "guest"
    /\ state' = [state EXCEPT ![c] = "OFF"]
    /\ taken' = [taken EXCEPT ![c] = NoLaunch]
    /\ Goto(c, "off")
    /\ UNCHANGED <<holder, physical_started, mailbox, powered, target, launch, status,
                   todo, event>>

ParkVcpu(c) ==
    /\ pc[c] = "off"
    /\ Sev
    /\ Goto(c, "dispatch")
    /\ UNCHANGED <<holder, state, physical_started, mailbox, powered, target, launch,
                   status, todo, taken>>

(***************************************************************************)
(* A CPU that waits for its launch.                                        *)
(***************************************************************************)

\* secondary_el2_entry parks a CPU that the firmware delivers in a bad state.
SecondaryEntry(c) ==
    /\ pc[c] = "secondary"
    /\ Goto(c, "dispatch") \/ Goto(c, "parked")
    /\ UNCHANGED <<holder, state, physical_started, mailbox, powered, target, launch,
                   status, todo, taken, event>>

\* take_launch: the load of the state.
Dispatch(c) ==
    /\ pc[c] = "dispatch"
    /\ IF state[c] = "PENDING"
       THEN /\ Goto(c, "take")
            /\ todo' = [todo EXCEPT ![c] = Fields]
            /\ taken' = [taken EXCEPT ![c] = ZeroLaunch]
       ELSE Goto(c, "wait") /\ UNCHANGED <<todo, taken>>
    /\ UNCHANGED <<holder, state, physical_started, mailbox, powered, target, launch,
                   status, event>>

\* WFE returns when the event register is set, and clears it.
Wfe(c) ==
    /\ pc[c] = "wait"
    /\ event[c]
    /\ event' = [event EXCEPT ![c] = FALSE]
    /\ Goto(c, "dispatch")
    /\ UNCHANGED <<holder, state, physical_started, mailbox, powered, target, launch,
                   status, todo, taken>>

LoadField(c, f) ==
    /\ pc[c] = "take"
    /\ f \in todo[c]
    /\ taken' = [taken EXCEPT ![c][f] = mailbox[c][f]]
    /\ todo' = [todo EXCEPT ![c] = @ \ {f}]
    /\ UNCHANGED <<holder, state, physical_started, mailbox, powered, pc, target, launch,
                   status, event>>

\* Mutant: the CPU is ON before it has loaded its entry and context.
StoreOnEarly(c) ==
    /\ pc[c] = "take"
    /\ state' = [state EXCEPT ![c] = "ON"]
    /\ Goto(c, "initialize")
    /\ UNCHANGED <<holder, physical_started, mailbox, powered, target, launch, status,
                   todo, taken, event>>

StoreOn(c) ==
    /\ pc[c] = "take"
    /\ todo[c] = {}
    /\ state' = [state EXCEPT ![c] = "ON"]
    /\ Goto(c, "initialize")
    /\ UNCHANGED <<holder, physical_started, mailbox, powered, target, launch, status,
                   todo, taken, event>>

\* The CPU's interrupt interface is set up; a failure parks the CPU for good.
EnterPayload(c) ==
    /\ pc[c] = "initialize"
    /\ Goto(c, "guest") \/ Goto(c, "parked")
    /\ UNCHANGED <<holder, state, physical_started, mailbox, powered, target, launch,
                   status, todo, taken, event>>
-----------------------------------------------------------------------------
\* What a guest may do at any time, and need never do.
GuestStep(c) ==
    \/ \E function \in {"CPU_ON32", "CPU_ON64"}, x \in Calls : CpuOn(c, function, x)
    \/ PowerOff(c)

\* The monitor's and the firmware's own steps.
RequestStep(c) ==
    \/ LoadState(c)
    \/ StoreClaimed(c)
    \/ Unlock(c)
    \/ \E f \in Fields : StoreField(c, f)
    \/ CheckStarted(c)
    \/ FirmwareCpuOn(c)
    \/ FirmwareError(c)
    \/ Withdraw(c)
    \/ MarkStarted(c)
    \/ Publish(c)
    \/ Signal(c)

WakeStep(c) ==
    \/ ParkVcpu(c)
    \/ SecondaryEntry(c)
    \/ Dispatch(c)
    \/ Wfe(c)
    \/ \E f \in Fields : LoadField(c, f)
    \/ StoreOn(c)
    \/ EnterPayload(c)

PsciNext == \E c \in CPUs : GuestStep(c) \/ Lock(c) \/ RequestStep(c) \/ WakeStep(c)

PsciSpec == PsciInit /\ [][PsciNext]_psciVars

(***************************************************************************)
(* The monitor runs with interrupts masked and the firmware returns, so a  *)
(* CPU inside it makes progress; the Bakery lock admits every caller in    *)
(* turn (MCBakery: CallIsServed), hence strong fairness of Lock.  The      *)
(* guest promises nothing.                                                 *)
(***************************************************************************)
PsciFairSpec ==
    /\ PsciSpec
    /\ \A c \in CPUs : /\ WF_psciVars(RequestStep(c))
                       /\ WF_psciVars(WakeStep(c))
                       /\ SF_psciVars(Lock(c))
-----------------------------------------------------------------------------
(***************************************************************************)
(* AFFINITY_INFO: a claimed CPU is reported as pending.                    *)
(***************************************************************************)
affinity(t) == IF state[t] = "CLAIMED" THEN "PENDING" ELSE state[t]

\* c has claimed its target and has not yet published or withdrawn.
Owns(c) ==
    \/ pc[c] \in Owning
    \/ pc[c] = "unlock" /\ status[c] = "none"

\* The claim is made under the lock, of a CPU that is off.
ClaimIsLocked ==
    \A c \in CPUs :
        /\ pc[c] \in Claiming <=> holder = c
        /\ pc[c] = "store_claimed" => state[target[c]] = "OFF"
        /\ pc[c] \notin {"unlock", "signal"} => status[c] = "none"

(***************************************************************************)
(* ONE OWNER.  "Only the caller that claims OFF may publish a new context  *)
(* or boot hardware" (psci.rs:172): a CPU is claimed exactly while one     *)
(* caller, and only one, is between its claim and its publication,         *)
(* whatever the other CPUs request meanwhile.                              *)
(***************************************************************************)
OneOwner ==
    /\ \A c \in CPUs : Owns(c) => state[target[c]] = "CLAIMED"
    /\ \A c, d \in CPUs : Owns(c) /\ Owns(d) /\ target[c] = target[d] => c = d
    /\ \A t \in CPUs : state[t] = "CLAIMED" => \E c \in CPUs : Owns(c) /\ target[c] = t

(***************************************************************************)
(* NO SECOND BOOT.  The firmware is never asked to start a physical CPU    *)
(* that it has already started, although `physical_started` is written     *)
(* after the firmware call and outside the lock (psci.rs:198-205).         *)
(***************************************************************************)
NoSecondBoot == \A c \in CPUs : pc[c] = "boot" => ~powered[target[c]]

\* Who knows that a physical CPU runs.
StartedIsPowered ==
    /\ \A t \in CPUs : powered[t] <=> pc[t] # "absent"
    /\ \A t \in CPUs : physical_started[t] => powered[t]
    /\ \A t \in CPUs : powered[t] /\ ~physical_started[t] =>
            \E c \in CPUs : pc[c] = "mark_started" /\ target[c] = t
    /\ \A c \in CPUs : pc[c] \in {"boot", "mark_started"} => ~physical_started[target[c]]
    /\ \A c \in CPUs : pc[c] = "mark_started" => powered[target[c]]
    /\ \A t \in CPUs : state[t] \in {"PENDING", "ON"} => physical_started[t]
    /\ \A c \in CPUs : pc[c] = "publish" => physical_started[target[c]]

(***************************************************************************)
(* A GUEST RUNS ONLY WHILE ITS CPU IS ON.  When AFFINITY_INFO reports a    *)
(* CPU as OFF or pending, that CPU executes no guest code and no call for  *)
(* the guest; a CPU that waits for a launch is not reported as ON          *)
(* (psci.rs take_launch and power_off, vcpu.rs rust_cpu_dispatch).         *)
(***************************************************************************)
GuestRunsOnlyWhenOn ==
    \A c \in CPUs :
        /\ pc[c] \in Requesting \cup {"guest", "initialize"} => affinity(c) = "ON"
        /\ pc[c] \in {"absent", "secondary", "off", "dispatch", "wait"} => affinity(c) # "ON"
        /\ pc[c] = "take" => affinity(c) = "PENDING" /\ state[c] # "CLAIMED"

(***************************************************************************)
(* NO TORN LAUNCH.  What is published is the caller's entry and context,   *)
(* and what the target takes while its state is PENDING is what was        *)
(* published, in whatever order the relaxed accesses happen.  An entry     *)
(* outside guest memory gets no further than the argument check.           *)
(***************************************************************************)
LaunchIsWhole ==
    \A c \in CPUs :
        /\ pc[c] \in Requesting \ {"signal"} => launch[c] \in GuestLaunches
        /\ pc[c] \in Owning \ {"store_launch"} => mailbox[target[c]] = launch[c]
        /\ pc[c] = "store_launch" =>
                \A f \in Fields \ todo[c] : mailbox[target[c]][f] = launch[c][f]
        /\ pc[c] = "take" =>
                /\ taken[c] \in AnyLaunch
                /\ \A f \in Fields \ todo[c] : taken[c][f] = mailbox[c][f]

(***************************************************************************)
(* THE INDUCTIVE INVARIANT of virtual CPU power control (psci.rs).         *)
(***************************************************************************)
PowerInvariant ==
    /\ PsciTypeOK
    /\ ClaimIsLocked
    /\ OneOwner
    /\ StartedIsPowered
    /\ GuestRunsOnlyWhenOn
    /\ LaunchIsWhole

(***************************************************************************)
(* The virtual CPUs behave as the power domain a guest expects.  The       *)
(* launch of a pending CPU is what the mailbox holds, that of a running    *)
(* one is what its guest was started with.                                 *)
(***************************************************************************)
Power ==
    [t \in CPUs |-> IF affinity(t) = "OFF" THEN "off"
                    ELSE IF affinity(t) = "ON" THEN "on" ELSE "turning_on"]

HandedOver ==
    [t \in CPUs |-> IF state[t] = "PENDING" THEN mailbox[t]
                    ELSE IF state[t] = "ON" THEN taken[t] ELSE NoLaunch]

Guest == INSTANCE PowerDomain WITH
    Domain <- CPUs, BootCPU <- 0, Launches <- GuestLaunches,
    power <- Power, launch <- HandedOver

(***************************************************************************)
(* THE POWER DOMAIN.  CPU_ON, CPU_OFF and AFFINITY_INFO, seen by guests on *)
(* several CPUs, are the atomic operations of the module PowerDomain: a    *)
(* launch is handed over once, whole, and runs unchanged until CPU_OFF.    *)
(***************************************************************************)
ImplementsPowerDomain == Guest!PowerInit /\ [][Guest!PowerNext]_(Guest!powerVars)

(***************************************************************************)
(* CPU_ON COMPLETES. NO LOST WAKE-UP: a published launch is started; the   *)
(* target, which may be still booting, falling asleep in WFE, or on its    *)
(* way out of CPU_OFF, enters the guest with this launch (unless its own   *)
(* entry checks or its interrupt set-up park it). NO STUCK CLAIM: a        *)
(* claimed CPU is published or off again at last, so it can be requested   *)
(* again after a firmware error (psci.rs:200-203). And every call returns, *)
(* also when CPUs request each other: no caller waits for another CPU's    *)
(* launch.                                                                 *)
(***************************************************************************)
PublishedLaunchStarts ==
    \A t \in CPUs : \A x \in Calls :
        LET l == RequestOf("CPU_ON64", x)
        IN  state[t] = "PENDING" /\ mailbox[t] = l
                ~> (pc[t] = "guest" /\ taken[t] = l) \/ pc[t] = "parked"

CpuOnCompletes ==
    /\ PublishedLaunchStarts
    /\ \A t \in CPUs : state[t] = "CLAIMED" ~> state[t] # "CLAIMED"
    /\ \A c \in CPUs : pc[c] = "lock" ~> pc[c] = "guest"
=============================================================================
