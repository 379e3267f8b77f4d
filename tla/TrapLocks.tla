----------------------------- MODULE TrapLocks ------------------------------
(***************************************************************************)
(* The locks that a CPU takes between a trap or an interrupt and its       *)
(* return to the guest: rust_exception in main.rs, the dispatch of accesses*)
(* in vm/mmio.rs, the devices under vm/, the USB service in usb.rs and     *)
(* rust_irq.  The mutex is not re-entrant, locks are taken inside others,  *)
(* and interrupts stay masked while a CPU is in EL2.                       *)
(*                                                                         *)
(* A path is the sequence of its lock and unlock operations; what it does  *)
(* under the locks is in the other modules.  A lock is abstract, as in the *)
(* module Mutex, which Bakery implements.                                  *)
(***************************************************************************)
EXTENDS Integers, Sequences

CONSTANTS
    CPUs, NoCPU         \* the CPUs, and the holder of a free lock

Locks == {"USB", "UART", "NETWORK", "DISTRIBUTOR", "LIC"}

VARIABLES
    holder,             \* the CPU that holds each lock
    stage,              \* what each CPU is doing: a call of the handler
    path                \* what is left of its path

trapVars == <<holder, stage, path>>

Lock(l) == [op |-> "lock", lock |-> l]
Unlock(l) == [op |-> "unlock", lock |-> l]

\* Mutex::with
with(l, section) == <<Lock(l)>> \o section \o <<Unlock(l)>>
-----------------------------------------------------------------------------
(***************************************************************************)
(* usb.rs                                                                  *)
(***************************************************************************)
uart == with("UART", <<>>)
network == with("NETWORK", <<>>)

\* service_guest_console looks at the receive queue, and goes on to fill it
\* (receive) and to drain the transmit queue (peek_tx, consume_tx) if there is
\* reason to.
service_guest_console ==
    {uart, uart \o uart, uart \o uart \o uart, uart \o uart \o uart \o uart}

\* service_locked; a poll that fails skips the console.
service_locked == {network} \cup {c \o network : c \in service_guest_console}

\* service: nothing, a look at the line, or a poll.
service ==
    {<<>>, with("USB", uart)} \cup {with("USB", s \o uart) : s \in service_locked}

service_interrupt == {with("USB", s \o uart) : s \in service_locked}

service_network == with("USB", network)
-----------------------------------------------------------------------------
(***************************************************************************)
(* The devices under vm/ and the dispatch of an access.                    *)
(***************************************************************************)
\* Mutant: the queues are served before the device is unlocked.
kickInside == with("NETWORK", service_network)

\* emulate of the network: a queue or status write is served after it.
kick == network \o service_network

\* emulate of the interrupt controllers, which also decline an access.
distributor == with("DISTRIBUTOR", <<>>)
lic == distributor \o with("LIC", <<>>)

\* emulate: UART and network decode first, the others one after the other;
\* usb() serialises its read-modify-writes with the driver.
emulate == {uart, network, kick, distributor, lic, lic \o with("USB", <<>>)}

\* emulate_store_post_index tries both again once every device has declined.
post_index == {distributor, lic}

\* synchronize_distributor looks at the console's line if it is enabled.
synchronize_distributor == {<<>>, uart}

-----------------------------------------------------------------------------
(***************************************************************************)
(* rust_exception and rust_irq.                                            *)
(***************************************************************************)
TrapLocksInit ==
    /\ holder = [l \in Locks |-> NoCPU]
    /\ stage = [c \in CPUs |-> "guest"]
    /\ path = [c \in CPUs |-> <<>>]

\* One call after another; each starts where the last one has unlocked.
Call(c, from, to, paths) ==
    /\ stage[c] = from /\ path[c] = <<>>
    /\ stage' = [stage EXCEPT ![c] = to]
    /\ \E p \in paths : path' = [path EXCEPT ![c] = p]
    /\ UNCHANGED holder

Smc(c) == Call(c, "guest", "service", service)
Irq(c) == Call(c, "guest", "service", service_interrupt)

\* An access that a device answers, or none.
Abort(c) ==
    \/ Call(c, "guest", "emulated", emulate)
    \/ Call(c, "guest", "declined", {lic})

PostIndex(c) ==
    \/ Call(c, "declined", "emulated", post_index)
    \/ Call(c, "declined", "refused", {lic})

Emulated(c) ==
    \/ Call(c, "emulated", "synchronized", synchronize_distributor)
    \/ Call(c, "synchronized", "service", service)

Return(c) == Call(c, "service", "guest", {<<>>})

\* No device answers: a fatal exception.
Park(c) == Call(c, "refused", "parked", {<<>>})

Proceed(c) == PostIndex(c) \/ Emulated(c) \/ Return(c) \/ Park(c)

Acquire(c) ==
    /\ path[c] # <<>> /\ Head(path[c]).op = "lock"
    /\ holder[Head(path[c]).lock] = NoCPU
    /\ holder' = [holder EXCEPT ![Head(path[c]).lock] = c]
    /\ path' = [path EXCEPT ![c] = Tail(@)]
    /\ UNCHANGED stage

Release(c) ==
    /\ path[c] # <<>> /\ Head(path[c]).op = "unlock"
    /\ holder' = [holder EXCEPT ![Head(path[c]).lock] = NoCPU]
    /\ path' = [path EXCEPT ![c] = Tail(@)]
    /\ UNCHANGED stage

TrapLocksNext ==
    \E c \in CPUs : Smc(c) \/ Abort(c) \/ Irq(c) \/ Proceed(c) \/ Acquire(c) \/ Release(c)

\* A CPU in EL2 goes on, and the lock serves everyone who waits for it
\* (Bakery, CallIsServed).
TrapLocksSpec ==
    /\ TrapLocksInit /\ [][TrapLocksNext]_trapVars
    /\ \A c \in CPUs :
         WF_trapVars(Release(c)) /\ WF_trapVars(Proceed(c)) /\ SF_trapVars(Acquire(c))
-----------------------------------------------------------------------------
(***************************************************************************)
(* EVERY TRAP RETURNS to the guest or parks the CPU.                       *)
(***************************************************************************)
EveryTrapReturns == \A c \in CPUs : (stage[c] # "guest") ~> (stage[c] \in {"guest", "parked"})
=============================================================================
