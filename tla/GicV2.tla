------------------------------- MODULE GicV2 -------------------------------
(***************************************************************************)
(* Interrupt forwarding on one physical CPU: the GICv2 driver              *)
(* (drivers/interrupt/gicv2.rs), the IRQ vector and the synchronisation    *)
(* with the guest's distributor switch (arch/aarch64/interrupt.rs).        *)
(*                                                                         *)
(* Every physical interrupt enters EL2, which acknowledges it, drops its   *)
(* priority and puts it into a list register, or into a software queue     *)
(* while no register can take it.  A PPI or SPI stays physically active    *)
(* until the guest's EOI deactivates it through the hardware list          *)
(* register; an SGI is deactivated by EL2, in the maintenance interrupt    *)
(* that the guest's EOI raises.  The USB and virtio SPIs are "owned": EL2  *)
(* services them first and forwards them only while the virtual device     *)
(* asserts its line.                                                       *)
(*                                                                         *)
(* The driver runs with interrupts masked, so on its own CPU nothing but   *)
(* its own code runs between two steps; devices, the senders of SGIs and   *)
(* the other CPUs do.  The refill loop is one step per iteration.          *)
(***************************************************************************)
EXTENDS Integers, FiniteSets

CONSTANTS
    ListRegisters,      \* the number of list registers, GICH_VTR + 1
    Interrupts,         \* IAR values: an id, and for an SGI its source CPU
    Priority,           \* the guest's priority of each id; 0 is the highest
    Owned,              \* owned_interrupt and network_interrupt
    NETWORK,            \* network_interrupt
    SPURIOUS            \* SPURIOUS_IRQ: no interrupt

IsSgi(i) == i.id < 16

ASSUME GicAssumption ==
    /\ ListRegisters \in 1 .. 64
    /\ IsFiniteSet(Interrupts)
    /\ Interrupts \subseteq [id : 0 .. 1019, source : 0 .. 7]
    /\ \A i \in Interrupts : ~IsSgi(i) => i.source = 0
    /\ Owned \subseteq {i \in Interrupts : ~IsSgi(i)}
    /\ Priority \in [{i.id : i \in Interrupts} -> 0 .. 31]
    /\ SPURIOUS \notin Interrupts

LRs == 0 .. ListRegisters - 1

VARIABLES
    \* The physical distributor, as this CPU sees it.
    raised,                 \* pending interrupts
    active,                 \* acknowledged and not yet deactivated
    \* The virtual interface.
    lr,                     \* [state, iar] of each list register
    hcr,                    \* GICH_HCR: [enable, underflow]
    \* struct GicV2.
    distributor_enabled,
    pending,                \* the occupied slots of the software queue
    pending_count,
    lr_iar,                 \* the IAR of the SGI in each list register
    \* The control of the CPU.
    pc,                     \* where the CPU is
    next,                   \* where it goes after the refill loop
    empty,                  \* the refill loop's copy of ELRSR
    token,                  \* the OwnedInterrupt under service
    deliver,                \* whether its line was found asserted
    \* The rest of the monitor.
    enabled,                \* ENABLED: the guest's GICD_CTLR.Enable
    line,                   \* the virtual devices' asserted, unmasked lines
    notifying               \* lines whose assertion is about to be made pending

gicVars == <<lr, hcr, distributor_enabled, pending, pending_count, lr_iar>>
cpuVars == <<pc, next, empty, token, deliver>>
envVars == <<enabled, line, notifying>>
vars == <<raised, active, gicVars, cpuVars, envVars>>

LrState == [state : {"empty", "pending", "active", "ended"},
            iar : Interrupts \cup {SPURIOUS}]
EmptyLr == [state |-> "empty", iar |-> SPURIOUS]

GicTypeOK ==
    /\ raised \subseteq Interrupts
    /\ active \subseteq Interrupts
    /\ lr \in [LRs -> LrState]
    /\ hcr \in [enable : BOOLEAN, underflow : BOOLEAN]
    /\ distributor_enabled \in BOOLEAN
    /\ pending \subseteq Interrupts
    /\ pending_count \in 0 .. 1148
    /\ lr_iar \in [LRs -> Interrupts \cup {SPURIOUS}]
    /\ pc \in {"guest", "refill", "ack", "service", "finish"}
    /\ next \in {"guest", "ack"}
    /\ empty \subseteq LRs
    /\ token \in Owned \cup {SPURIOUS}
    /\ deliver \in BOOLEAN
    /\ enabled \in BOOLEAN
    /\ line \subseteq Owned
    /\ notifying \subseteq Owned

\* After Driver::initialize and set_distributor_enabled on this CPU.
GicInit ==
    /\ enabled \in BOOLEAN
    /\ raised = {}
    /\ active = {}
    /\ lr = [k \in LRs |-> EmptyLr]
    /\ hcr = [enable |-> enabled, underflow |-> FALSE]
    /\ distributor_enabled = enabled
    /\ pending = {}
    /\ pending_count = 0
    /\ lr_iar = [k \in LRs |-> SPURIOUS]
    /\ pc = "guest"
    /\ next = "guest"
    /\ empty = {}
    /\ token = SPURIOUS
    /\ deliver = FALSE
    /\ line = {}
    /\ notifying = {}
-----------------------------------------------------------------------------
(***************************************************************************)
(* The virtual interface (GICH, GICV), external hardware.                  *)
(***************************************************************************)

\* ELRSR: neither a valid interrupt nor an EOI still to be reported.
empty_lrs == {k \in LRs : lr[k].state = "empty"}

\* EISR: software interrupts that the guest has ended.
eoi_lrs == {k \in LRs : lr[k].state = "ended"}

ValidLrs == {k \in LRs : lr[k].state \in {"pending", "active"}}

\* MAINTENANCE_IRQ is level-sensitive and silent while the interface is off.
MaintenanceAsserted ==
    /\ hcr.enable
    /\ eoi_lrs # {} \/ (hcr.underflow /\ Cardinality(ValidLrs) <= 1)

\* What a read of GICC_IAR may return.
Acknowledgeable == raised \ active

\* (priority, id) order of the queue and of the virtual interface.
Before(i, j) ==
    \/ Priority[i.id] < Priority[j.id]
    \/ Priority[i.id] = Priority[j.id] /\ i.id < j.id

GuestAck(k) ==
    /\ pc = "guest"
    /\ hcr.enable
    /\ lr[k].state = "pending"
    /\ \A m \in LRs : lr[m].state = "pending" => ~Before(lr[m].iar, lr[k].iar)
    /\ lr' = [lr EXCEPT ![k].state = "active"]
    /\ UNCHANGED <<raised, active, hcr, distributor_enabled, pending, pending_count,
                   lr_iar, cpuVars, envVars>>

GuestEoi(k) ==
    /\ pc = "guest"
    /\ lr[k].state = "active"
    /\ IF IsSgi(lr[k].iar)
       THEN /\ lr' = [lr EXCEPT ![k].state = "ended"]
            /\ UNCHANGED active
       ELSE /\ lr' = [lr EXCEPT ![k] = EmptyLr]
            /\ active' = active \ {lr[k].iar}
    /\ UNCHANGED <<raised, hcr, distributor_enabled, pending, pending_count, lr_iar,
                   cpuVars, envVars>>

\* A device asserts a PPI or SPI of the guest, or a CPU sends an SGI.
Raise(i) ==
    /\ i \notin Owned
    /\ raised' = raised \cup {i}
    /\ UNCHANGED <<active, gicVars, cpuVars, envVars>>
-----------------------------------------------------------------------------
(***************************************************************************)
(* List registers and queue.                                               *)
(***************************************************************************)
sgi_in_lr(i) == IsSgi(i) /\ \E k \in LRs : lr_iar[k] # SPURIOUS /\ lr_iar[k].id = i.id

injectable(i) == ~IsSgi(i) \/ ~sgi_in_lr(i)

has_injectable_pending == pending_count # 0 /\ \E i \in pending : injectable(i)

\* ELRSR.trailing_zeros()
Lowest(S) == CHOOSE k \in S : \A m \in S : k <= m

inject(k, i) ==
    /\ lr' = [lr EXCEPT ![k] = [state |-> "pending", iar |-> i]]
    /\ lr_iar' = [lr_iar EXCEPT ![k] = IF IsSgi(i) THEN i ELSE SPURIOUS]

CanInject(i) == distributor_enabled /\ injectable(i) /\ empty_lrs # {}

\* The refill loop is entered: it reads ELRSR once, if the distributor is on.
EnterRefill(on, lrs, after) ==
    /\ empty' = IF on THEN lrs ELSE {}
    /\ pc' = "refill"
    /\ next' = after

\* try_inject, or enqueue and refill: the end of take_interrupt and of
\* finish_owned_interrupt.
Forward(i) ==
    \/ /\ pending_count = 0
       /\ CanInject(i)
       /\ inject(Lowest(empty_lrs), i)
       /\ pc' = "guest"
       /\ UNCHANGED <<pending, pending_count, next, empty>>
    \/ /\ pending_count # 0 \/ ~CanInject(i)
       /\ pending' = pending \cup {i}
       /\ pending_count' = IF i \in pending THEN pending_count ELSE pending_count + 1
       /\ EnterRefill(distributor_enabled, empty_lrs, "guest")
       /\ UNCHANGED <<lr, lr_iar>>

\* pop_highest; slots are scanned in ascending order, SGIs by source.
Highest(i) ==
    /\ i \in pending
    /\ injectable(i)
    /\ \A j \in pending : injectable(j) =>
          \/ Before(i, j)
          \/ i.id = j.id /\ i.source <= j.source

Refill(i) ==
    /\ pc = "refill"
    /\ empty # {}
    /\ pending_count # 0
    /\ Highest(i)
    /\ pending' = pending \ {i}
    /\ pending_count' = pending_count - 1
    /\ inject(Lowest(empty), i)
    /\ empty' = empty \ {Lowest(empty)}
    /\ UNCHANGED <<raised, active, hcr, distributor_enabled, pc, next, token, deliver, envVars>>

\* Mutant: no underflow interrupt is asked for.
RefillDoneSilent ==
    /\ pc = "refill"
    /\ empty = {} \/ ~has_injectable_pending
    /\ hcr' = [enable |-> distributor_enabled, underflow |-> FALSE]
    /\ pc' = next
    /\ empty' = {}
    /\ UNCHANGED <<raised, active, lr, distributor_enabled, pending, pending_count,
                   lr_iar, next, token, deliver, envVars>>

\* The loop is over: update_hcr.
RefillDone ==
    /\ pc = "refill"
    /\ empty = {} \/ ~has_injectable_pending
    /\ hcr' = [enable |-> distributor_enabled,
               underflow |-> distributor_enabled /\ has_injectable_pending]
    /\ pc' = next
    /\ empty' = {}
    /\ UNCHANGED <<raised, active, lr, distributor_enabled, pending, pending_count,
                   lr_iar, next, token, deliver, envVars>>
-----------------------------------------------------------------------------
(***************************************************************************)
(* The IRQ vector.                                                         *)
(***************************************************************************)

\* set_distributor_enabled, then `after`.
SetDistributorEnabled(on, after) ==
    /\ distributor_enabled' = on
    /\ IF on # distributor_enabled
       THEN EnterRefill(on, empty_lrs, after)
       ELSE pc' = after /\ UNCHANGED <<next, empty>>

\* rust_irq begins.
TakeIrq ==
    /\ pc = "guest"
    /\ Acknowledgeable # {} \/ MaintenanceAsserted
    /\ SetDistributorEnabled(enabled, "ack")
    /\ UNCHANGED <<raised, active, lr, hcr, pending, pending_count, lr_iar, token, deliver, envVars>>

\* The source of the interrupt has gone meanwhile: id 1023.
AckSpurious ==
    /\ pc = "ack"
    /\ Acknowledgeable = {}
    /\ ~MaintenanceAsserted
    /\ pc' = "guest"
    /\ UNCHANGED <<raised, active, gicVars, next, empty, token, deliver, envVars>>

\* Mutant: the ended SGIs are not deactivated.
AckMaintenanceActive ==
    /\ pc = "ack"
    /\ MaintenanceAsserted
    /\ lr' = [k \in LRs |-> IF k \in eoi_lrs THEN EmptyLr ELSE lr[k]]
    /\ lr_iar' = [k \in LRs |-> IF k \in eoi_lrs THEN SPURIOUS ELSE lr_iar[k]]
    /\ EnterRefill(distributor_enabled, empty_lrs \cup eoi_lrs, "guest")
    /\ UNCHANGED <<raised, active, hcr, distributor_enabled, pending, pending_count, token,
                   deliver, envVars>>

\* Mutant: with an SGI that has ended, those of other sources leave the queue.
AckMaintenanceById ==
    /\ pc = "ack"
    /\ MaintenanceAsserted
    /\ lr' = [k \in LRs |-> IF k \in eoi_lrs THEN EmptyLr ELSE lr[k]]
    /\ lr_iar' = [k \in LRs |-> IF k \in eoi_lrs THEN SPURIOUS ELSE lr_iar[k]]
    /\ pending' = {i \in pending : \A k \in eoi_lrs : i.id # lr[k].iar.id}
    /\ pending_count' = Cardinality(pending')
    /\ active' = (active \ {lr[k].iar : k \in eoi_lrs}) \ (pending \ pending')
    /\ EnterRefill(distributor_enabled, empty_lrs \cup eoi_lrs, "guest")
    /\ UNCHANGED <<raised, hcr, distributor_enabled, token, deliver, envVars>>

\* drain_sgi_eois: clear the ended registers and deactivate their SGIs.
AckMaintenance ==
    /\ pc = "ack"
    /\ MaintenanceAsserted
    /\ lr' = [k \in LRs |-> IF k \in eoi_lrs THEN EmptyLr ELSE lr[k]]
    /\ lr_iar' = [k \in LRs |-> IF k \in eoi_lrs THEN SPURIOUS ELSE lr_iar[k]]
    /\ active' = active \ {lr_iar[k] : k \in {m \in eoi_lrs : lr_iar[m] # SPURIOUS}}
    /\ EnterRefill(distributor_enabled, empty_lrs \cup eoi_lrs, "guest")
    /\ UNCHANGED <<raised, hcr, distributor_enabled, pending, pending_count, token, deliver, envVars>>

AckGuest(i) ==
    /\ pc = "ack"
    /\ i \in Acknowledgeable \ Owned
    /\ raised' = raised \ {i}
    /\ active' = active \cup {i}
    /\ Forward(i)
    /\ UNCHANGED <<hcr, distributor_enabled, token, deliver, envVars>>

\* Maintenance and owned interrupts have priority 0; the lower id goes first.
FirstOwned(i) ==
    /\ i \in Acknowledgeable \cap Owned
    /\ \A j \in Acknowledgeable \cap Owned : i.id <= j.id

AckOwned(i) ==
    /\ pc = "ack"
    /\ ~MaintenanceAsserted
    /\ FirstOwned(i)
    /\ raised' = raised \ {i}
    /\ active' = active \cup {i}
    /\ token' = i
    /\ pc' = "service"
    /\ UNCHANGED <<gicVars, next, empty, deliver, envVars>>

\* The service of the USB interrupt rechecks the network's line.
NetworkRecheck == IF token # NETWORK /\ enabled THEN line \cap {NETWORK} ELSE {}

\* The device is serviced and its line is read ...
ServiceOwned ==
    /\ pc = "service"
    /\ deliver' = (token \in line)
    /\ raised' = raised \cup NetworkRecheck
    /\ pc' = "finish"
    /\ UNCHANGED <<active, gicVars, next, empty, token, envVars>>

\* Mutant: the asserted line is not made pending again.
FinishDeliveredOnce ==
    /\ pc = "finish"
    /\ enabled
    /\ deliver
    /\ Forward(token)
    /\ token' = SPURIOUS
    /\ deliver' = FALSE
    /\ UNCHANGED <<raised, active, hcr, distributor_enabled, envVars>>

\* ... finish_owned_interrupt: ISPENDR keeps an instance pending while the
\* forwarded one is active.
FinishDelivered ==
    /\ pc = "finish"
    /\ enabled
    /\ deliver
    /\ raised' = raised \cup {token}
    /\ Forward(token)
    /\ token' = SPURIOUS
    /\ deliver' = FALSE
    /\ UNCHANGED <<active, hcr, distributor_enabled, envVars>>

\* The line was low or masked: the source is deactivated by GICC_DIR.
FinishDropped ==
    /\ pc = "finish"
    /\ ~enabled \/ ~deliver
    /\ active' = active \ {token}
    /\ token' = SPURIOUS
    /\ deliver' = FALSE
    /\ pc' = "guest"
    /\ UNCHANGED <<raised, gicVars, next, empty, envVars>>
-----------------------------------------------------------------------------
(***************************************************************************)
(* The guest's distributor switch and the virtual devices' lines.          *)
(***************************************************************************)

\* synchronize_distributor: after every trapped access of this CPU's guest.
Synchronize(on) ==
    /\ SetDistributorEnabled(on, "guest")
    /\ raised' = raised \cup line
    /\ UNCHANGED <<active, lr, hcr, pending, pending_count, lr_iar, token, deliver, line,
                   notifying>>

\* The guest on this CPU traps; a write of GICD_CTLR changes the switch.
GuestTrap ==
    /\ pc = "guest"
    /\ enabled' \in BOOLEAN
    /\ Synchronize(enabled')

\* The guest on another CPU traps, and that CPU synchronizes its own GicV2.
RemoteTrap ==
    /\ enabled' \in BOOLEAN
    /\ raised' = raised \cup line
    /\ UNCHANGED <<active, gicVars, cpuVars, line, notifying>>

\* A virtual device asserts its line, on some CPU, under its own lock ...
AssertLine(l) ==
    /\ l \notin line
    /\ line' = line \cup {l}
    /\ notifying' = notifying \cup {l}
    /\ UNCHANGED <<raised, active, gicVars, cpuVars, enabled>>

\* ... and then makes the backing SPI pending; the network does so only
\* while the distributor is on.
PendLine(l) ==
    /\ l \in notifying
    /\ notifying' = notifying \ {l}
    /\ raised' = IF l = NETWORK /\ ~enabled THEN raised ELSE raised \cup {l}
    /\ UNCHANGED <<active, gicVars, cpuVars, enabled, line>>

\* The guest's driver serves the device.
LowerLine(l) ==
    /\ l \in line
    /\ line' = line \ {l}
    /\ UNCHANGED <<raised, active, gicVars, cpuVars, enabled, notifying>>
-----------------------------------------------------------------------------
DriverStep ==
    \/ TakeIrq
    \/ AckSpurious
    \/ AckMaintenance
    \/ \E i \in Interrupts : AckGuest(i) \/ AckOwned(i) \/ Refill(i)
    \/ RefillDone
    \/ ServiceOwned
    \/ FinishDelivered
    \/ FinishDropped

GuestStep == \E k \in LRs : GuestAck(k) \/ GuestEoi(k)

\* What happens when the guest, another CPU or a device pleases.
EnvironmentStep ==
    \/ GuestTrap
    \/ RemoteTrap
    \/ \E l \in Owned : AssertLine(l) \/ LowerLine(l)
    \/ \E i \in Interrupts : Raise(i)

GicNext ==
    \/ DriverStep
    \/ GuestStep
    \/ \E l \in Owned : PendLine(l)
    \/ EnvironmentStep

GicSpec == GicInit /\ [][GicNext]_vars

(***************************************************************************)
(* The driver and the other CPUs' notifications finish.  The CPU runs the  *)
(* guest between two interrupts, so the guest takes and ends what it is    *)
(* given however often it is interrupted; and a physical interrupt that is *)
(* signalled again and again is taken at last.  Nothing obliges the        *)
(* environment to act.                                                     *)
(***************************************************************************)
Fairness ==
    /\ WF_vars(DriverStep)
    /\ \A l \in Owned : SF_vars(FirstOwned(l) /\ TakeIrq)
    /\ \A k \in LRs : SF_vars(GuestAck(k)) /\ SF_vars(GuestEoi(k))
    /\ \A l \in Owned : WF_vars(PendLine(l))
-----------------------------------------------------------------------------
\* The list registers that hold interrupt i, ended ones included.
Holding(i) == {k \in LRs : lr[k].state # "empty" /\ lr[k].iar = i}

(***************************************************************************)
(* NOTHING LOST, NOTHING DOUBLED.  An interrupt that EL2 has acknowledged  *)
(* and not deactivated is in exactly one place: a queue slot, a list       *)
(* register, or the hands of the owned-interrupt service.  Nothing else    *)
(* is in any of them (take_interrupt, enqueue, refill, drain_sgi_eois,     *)
(* finish_owned_interrupt).                                                *)
(***************************************************************************)
ActiveIsHeldOnce ==
    \A i \in Interrupts :
        /\ i \in active <=> i \in pending \/ Holding(i) # {} \/ token = i
        /\ i \in pending => Holding(i) = {} /\ token # i
        /\ token = i => Holding(i) = {}
        /\ \A k, m \in Holding(i) : k = m

(***************************************************************************)
(* ONE LIST REGISTER PER VIRTUAL ID.  Two registers never hold the same    *)
(* id, which the architecture leaves unpredictable: SGIs of one id from    *)
(* several sources are given to the guest one after the other              *)
(* (gicv2.rs:306-316, the test "sgi_sources_with_the_same_virtual_id_are_  *)
(* serialized").                                                           *)
(***************************************************************************)
OneRegisterPerId ==
    \A k, m \in LRs :
        /\ lr[k].state # "empty" /\ lr[m].state # "empty"
        /\ lr[k].iar.id = lr[m].iar.id
        => k = m

\* The driver's record of the SGIs in list registers is right.
SourcesRecorded ==
    \A k \in LRs :
        /\ lr[k].state = "empty" <=> lr[k].iar = SPURIOUS
        /\ lr_iar[k] = IF lr[k].state # "empty" /\ IsSgi(lr[k].iar) THEN lr[k].iar
                                                                    ELSE SPURIOUS
        /\ lr[k].state = "ended" => IsSgi(lr[k].iar)

\* The refill loop writes only registers that are free.
RefillFindsFree ==
    /\ empty \subseteq empty_lrs
    /\ pc # "refill" => empty = {}
    /\ pc \in {"service", "finish"} <=> token # SPURIOUS

(***************************************************************************)
(* THE QUEUE'S COUNT is the number of occupied slots: `pending_count != 0` *)
(* decides whether the slots are looked at, and a u16 must not wrap        *)
(* (enqueue, pop_highest).                                                 *)
(***************************************************************************)
CountIsExact == pending_count = Cardinality(pending)

(***************************************************************************)
(* A QUEUED INTERRUPT IS NOT FORGOTTEN.  While the guest runs with the     *)
(* distributor on and interrupts are queued, something will bring EL2      *)
(* back: the guest still has an interrupt to end, or the maintenance       *)
(* interrupt is asserted (update_hcr is up to date on every path back to   *)
(* the guest).                                                             *)
(***************************************************************************)
QueueHasWakeup ==
    pc = "guest" /\ distributor_enabled /\ pending # {} =>
        ValidLrs # {} \/ MaintenanceAsserted

(***************************************************************************)
(* THE INVARIANT of interrupt forwarding on one CPU.                       *)
(***************************************************************************)
ForwardingInvariant ==
    /\ GicTypeOK
    /\ SourcesRecorded
    /\ RefillFindsFree
    /\ ActiveIsHeldOnce
    /\ OneRegisterPerId
    /\ CountIsExact
    /\ QueueHasWakeup

(***************************************************************************)
(* EACH ARRIVAL IS SERVED ONCE.  Between the arrival of an interrupt and   *)
(* the guest's service of it lie the physical state, the queue, the list   *)
(* registers, the refill loop, the end-of-interrupt of another SGI and the *)
(* distributor switch.  Nothing on that way drops an instance, makes one   *)
(* up or gives one out twice: what is due of a guest's interrupt changes   *)
(* only by an arrival and by the guest's acknowledgement.  An owned        *)
(* interrupt reaches the guest only when its line was found asserted, with *)
(* another instance left pending for a line that stays so.  And no service *)
(* of the guest is ended for it (take_interrupt, refill, drain_sgi_eois,   *)
(* finish_owned_interrupt, set_distributor_enabled).                       *)
(***************************************************************************)
InRegister(i, state) == \E k \in LRs : lr[k] = [state |-> state, iar |-> i]
Waiting(i) == i \in pending \/ InRegister(i, "pending")
Serving(i) == InRegister(i, "active")

Bit(b) == IF b THEN 1 ELSE 0
Due(i) == Bit(i \in raised) + Bit(Waiting(i))

Arrives(i) == i \in raised' \ raised
Acknowledges(i) == ~Serving(i) /\ Serving(i)'

ServesOnce(i) ==
    /\ i \notin Owned => Due(i)' = Due(i) + Bit(Arrives(i)) - Bit(Acknowledges(i))
    /\ i \in Owned /\ ~Waiting(i) /\ Waiting(i)' => token = i /\ deliver /\ i \in raised'
    /\ i \in Owned /\ Waiting(i) /\ ~Waiting(i)' => Acknowledges(i)
    /\ Serving(i) /\ ~Serving(i)' => GuestStep

EachIsServedOnce == [][\A i \in Interrupts : ServesOnce(i)]_vars

(***************************************************************************)
(* EVERY ACKNOWLEDGED INTERRUPT REACHES THE GUEST, which ends it, as long  *)
(* as the guest keeps the distributor on (take_interrupt up to             *)
(* drain_sgi_eois and the guest's EOI).                                    *)
(***************************************************************************)
AcknowledgedIsEnded ==
    \A i \in Interrupts : i \in active ~> i \notin active \/ ~enabled

(***************************************************************************)
(* AN ASSERTED LINE IS DELIVERED, and again after the guest's EOI if it is *)
(* still asserted: no order of assertion, notification, service and        *)
(* re-enabling loses it (finish_owned_interrupt, synchronize_distributor,  *)
(* pend_network_interrupt).                                                *)
(***************************************************************************)
LineIsDelivered ==
    \A l \in Owned :
        l \in line /\ enabled
            ~> \/ l \notin line
               \/ ~enabled
               \/ \E k \in LRs : lr[k] = [state |-> "active", iar |-> l]
=============================================================================
