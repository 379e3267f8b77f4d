---------------------------- MODULE Publication -----------------------------
(***************************************************************************)
(* How the guest's interrupt settings reach the CPUs that deliver: the     *)
(* atomics of vm/interrupt.rs and their readers in                         *)
(* arch/aarch64/interrupt.rs.                                              *)
(*                                                                         *)
(* A trapped write changes the controllers under their locks (the guest's  *)
(* view of them is module GuestIrq) and stores each setting in an atomic   *)
(* of its own; the IRQ vector and the notifications load them one by one   *)
(* without a lock.  The code between two traps is a sequence of such       *)
(* loads and stores, `todo`, which the actions execute one at a time.      *)
(***************************************************************************)
EXTENDS Integers, Sequences

CONSTANTS
    Cpus, Boot,         \* owned SPIs are targeted at the boot CPU
    USB, NETWORK,       \* the owned interrupts
    Looked,             \*   and those of them that are looked at
    Priorities

ASSUME PublicationAssumption ==
    /\ Boot \in Cpus
    /\ USB # NETWORK /\ Looked \subseteq {USB, NETWORK}
    /\ \A p \in Priorities : p \in 0 .. 255 /\ p - (p % 8) \in Priorities

VARIABLES
    control, enabled, priority, ier,    \* what the guest reads
    GICD_ENABLED,       \* published: ENABLED
    INTERRUPT_ENABLED,  \*   {NETWORK,OWNED}_INTERRUPT_ENABLED
    INTERRUPT_PRIORITY, \*   {NETWORK,OWNED}_INTERRUPT_PRIORITY
    LIC_SOURCE_ENABLED, \*   LIC_{NETWORK,OWNED}_SOURCE_ENABLED
    todo,               \* what is left of each CPU's program
    held,               \* the ids whose conditions held so far, per CPU
    loaded,             \* the priority that the IRQ under way loaded
    line,               \* the virtual devices' asserted lines
    raised,             \* the owned SPIs that are pending
    place,              \* where each of them is, once acknowledged
    distributor_enabled,\* the boot CPU's GicV2: its copy of ENABLED
    since,              \* history: an id's priorities since it was last enabled
    seen                \*   and those that the IRQ under way may deliver

Registers == INSTANCE GuestIrq WITH Ids <- Looked, Reserved <- {}, Fixed <- {}

registerVars == <<control, enabled, priority, ier>>
publishedVars == <<GICD_ENABLED, INTERRUPT_ENABLED, INTERRUPT_PRIORITY, LIC_SOURCE_ENABLED>>
gicVars == <<raised, place, distributor_enabled>>
historyVars == <<since, seen>>
allVars == <<registerVars, publishedVars, todo, held, loaded, line, gicVars, historyVars>>

Unloaded == 256

Operations == {"store_priority", "store_enable", "store_control", "store_source",
               "load_priority", "load_enable", "load_control", "load_source", "load_line",
               "set_distributor_enabled", "take_interrupt", "pend", "finish"}

\* In EL2's hands, in GicV2's queue, in a list register, taken by the guest.
\* (While GicV2 is enabled and its list registers are full an interrupt waits
\* in the queue with a wake-up, module GicV2: that is "register" here.)
Places == {"inactive", "hand", "queued", "register", "guest"}
In(p) == {i \in Looked : place[i] = p}
active == Looked \ In("inactive")

PublicationTypeOK ==
    /\ control \in BOOLEAN /\ GICD_ENABLED \in BOOLEAN
    /\ enabled \subseteq Looked /\ INTERRUPT_ENABLED \subseteq Looked
    /\ ier \subseteq Looked /\ LIC_SOURCE_ENABLED \subseteq Looked
    /\ priority \in [Looked -> Priorities] /\ INTERRUPT_PRIORITY \in [Looked -> Priorities]
    /\ todo \in [Cpus -> Seq([op : Operations, id : {USB, NETWORK}])]
    /\ held \in [Cpus -> SUBSET Looked]
    /\ line \subseteq Looked /\ raised \subseteq Looked
    /\ place \in [Looked -> Places] /\ distributor_enabled \in BOOLEAN
    /\ since \in [Looked -> SUBSET Priorities] /\ seen \subseteq Priorities

PublicationInit ==
    /\ control \in BOOLEAN /\ enabled = {} /\ ier = {}
    /\ priority \in {[i \in Looked |-> p] : p \in Priorities}
    /\ GICD_ENABLED = control /\ INTERRUPT_ENABLED = enabled
    /\ INTERRUPT_PRIORITY = priority /\ LIC_SOURCE_ENABLED = ier
    /\ todo = [c \in Cpus |-> <<>>] /\ held = [c \in Cpus |-> Looked]
    /\ loaded = Unloaded
    /\ line = {} /\ raised = {}
    /\ place = [i \in Looked |-> "inactive"] /\ distributor_enabled = control
    /\ since = [i \in Looked |-> {}] /\ seen = {}
-----------------------------------------------------------------------------
(***************************************************************************)
(* The programs.                                                           *)
(***************************************************************************)
Op(op, i) == [op |-> op, id |-> i]
Of(i, ops) == IF i \in Looked THEN [k \in DOMAIN ops |-> Op(ops[k], i)] ELSE <<>>

publish_distributor ==
    Of(NETWORK, <<"store_priority">>) \o Of(USB, <<"store_priority">>)
    \o Of(NETWORK, <<"store_enable">>) \o Of(USB, <<"store_enable">>)

publish_control == <<Op("store_control", NETWORK)>>

publish_lic == Of(USB, <<"store_source">>) \o Of(NETWORK, <<"store_source">>)

\* network_interrupt_enabled and owned_interrupt_enabled.
interrupt_enabled(i) == Of(i, <<"load_enable", "load_source">>)

set_distributor_enabled == <<Op("set_distributor_enabled", NETWORK)>>

\* Mutant: only the settings are read again.
synchronize_distributorQuiet == set_distributor_enabled

synchronize_distributor ==
    set_distributor_enabled
    \o interrupt_enabled(NETWORK) \o Of(NETWORK, <<"load_line", "pend">>)
    \o interrupt_enabled(USB) \o Of(USB, <<"load_line", "pend">>)

pend_network_interrupt ==
    Of(NETWORK, <<"load_control">>) \o interrupt_enabled(NETWORK) \o Of(NETWORK, <<"pend">>)

pend_console_interrupt == Of(USB, <<"pend">>)

Notify(i) == IF i = NETWORK THEN pend_network_interrupt ELSE pend_console_interrupt

\* The vector, which does not know yet what it was entered for.
rust_irq == set_distributor_enabled \o <<Op("take_interrupt", NETWORK)>>

\* Its service of an owned interrupt: that of USB also rechecks the network.
Recheck ==
    Of(NETWORK, <<"load_control", "load_line">>) \o interrupt_enabled(NETWORK)
    \o Of(NETWORK, <<"pend">>)

RecheckedBy(i) == IF i = USB THEN Recheck ELSE <<>>

\* Mutant: the priority is loaded first.
service_ownedPriorityFirst(i) ==
    Of(i, <<"load_priority", "load_line">>) \o RecheckedBy(i)
    \o interrupt_enabled(i) \o Of(i, <<"load_control", "finish">>)

service_owned(i) ==
    Of(i, <<"load_line">>) \o RecheckedBy(i)
    \o interrupt_enabled(i) \o Of(i, <<"load_priority", "load_control", "finish">>)
-----------------------------------------------------------------------------
(***************************************************************************)
(* The guest's accesses.                                                   *)
(***************************************************************************)
\* An interrupt for EL2 is taken before the guest's next instruction.
GuestRuns(c) ==
    /\ todo[c] = <<>>
    /\ c = Boot => raised \subseteq active

\* Each controller has a lock of its own, under which these are stored.
DISTRIBUTOR == {"store_priority", "store_enable", "store_control"}
LIC == {"store_source"}

LockFree(lock) == \A c \in Cpus : \A k \in DOMAIN todo[c] : todo[c][k].op \notin lock

Run(c, program) ==
    /\ todo' = [todo EXCEPT ![c] = program]
    /\ held' = [held EXCEPT ![c] = Looked]

\* What the history makes of a write.
History ==
    /\ since' = [i \in Looked |->
                   IF i \in enabled' \ enabled THEN {priority'[i]}
                   ELSE since[i] \cup {priority'[i]}]
    /\ seen' = IF seen = {} THEN {} ELSE seen \cup {priority'[i] : i \in In("hand")}

TrapDistributor(c) ==
    /\ GuestRuns(c) /\ LockFree(DISTRIBUTOR)
    /\ \/ \E on \in BOOLEAN, ones \in SUBSET Looked : Registers!WriteEnable(on, ones)
       \/ \E covered \in SUBSET Looked :
            \E values \in [covered -> Priorities] : Registers!WritePriority(values)
       \/ \E on \in BOOLEAN : Registers!WriteControl(on)
    /\ Run(c, publish_distributor \o publish_control \o synchronize_distributor)
    /\ History
    /\ UNCHANGED <<publishedVars, loaded, line, gicVars>>

TrapLic(c) ==
    /\ GuestRuns(c) /\ LockFree(LIC)
    /\ \E on \in BOOLEAN, ones \in SUBSET Looked : Registers!WriteIer(on, ones)
    /\ Run(c, publish_lic \o synchronize_distributor)
    /\ UNCHANGED <<publishedVars, loaded, line, gicVars, historyVars>>

\* An access to the device that lowers its line.
TrapDevice(c, i) ==
    /\ GuestRuns(c) /\ i \in line
    /\ line' = line \ {i}
    /\ Run(c, synchronize_distributor)
    /\ UNCHANGED <<registerVars, publishedVars, loaded, gicVars, historyVars>>

\* A service of the device that raises its line, on the CPU that does it.
Service(c, i) ==
    /\ GuestRuns(c) /\ i \notin line
    /\ line' = line \cup {i}
    /\ Run(c, Notify(i))
    /\ UNCHANGED <<registerVars, publishedVars, loaded, gicVars, historyVars>>

\* The virtual interface presents nothing while GicV2 has it disabled.
GuestAck(i) ==
    /\ GuestRuns(Boot) /\ place[i] = "register" /\ distributor_enabled
    /\ place' = [place EXCEPT ![i] = "guest"]
    /\ UNCHANGED <<registerVars, publishedVars, todo, held, loaded, line, raised,
                   distributor_enabled, historyVars>>

GuestEoi(i) ==
    /\ GuestRuns(Boot) /\ place[i] = "guest"
    /\ place' = [place EXCEPT ![i] = "inactive"]
    /\ UNCHANGED <<registerVars, publishedVars, todo, held, loaded, line, raised,
                   distributor_enabled, historyVars>>
-----------------------------------------------------------------------------
(***************************************************************************)
(* EL2.                                                                    *)
(***************************************************************************)
\* The boot CPU is interrupted: by an owned interrupt, or by one of the guest's
\* own that comes in between.
TakeIrq ==
    /\ todo[Boot] = <<>>
    /\ Run(Boot, rust_irq)
    /\ UNCHANGED <<registerVars, publishedVars, loaded, line, gicVars, historyVars>>

\* What it takes.  Both owned interrupts have the same physical priority: the
\* lower id, the network's, comes first.
TakeInterrupt(i) ==
    /\ todo[Boot] # <<>> /\ Head(todo[Boot]).op = "take_interrupt"
    /\ i \in raised \ active
    /\ i = USB => NETWORK \notin raised \ active
    /\ raised' = raised \ {i}
    /\ place' = [place EXCEPT ![i] = "hand"]
    /\ Run(Boot, service_owned(i))
    /\ seen' = {}
    /\ UNCHANGED <<registerVars, publishedVars, loaded, line, distributor_enabled, since>>

Held(o, i) ==
    CASE o = "load_enable" -> i \in INTERRUPT_ENABLED
      [] o = "load_source" -> i \in LIC_SOURCE_ENABLED
      [] o = "load_control" -> GICD_ENABLED
      [] o = "load_line" -> i \in line
      [] OTHER -> TRUE

\* An owned interrupt is forwarded while another instance stays pending, or
\* deactivated.  GicV2 asks its own copy of ENABLED whether it may inject.
finish_owned_interrupt(i, deliver) ==
    /\ raised' = IF deliver THEN raised \cup {i} ELSE raised
    /\ place' = [place EXCEPT ![i] = IF ~deliver THEN "inactive"
                                     ELSE IF distributor_enabled THEN "register" ELSE "queued"]
    /\ UNCHANGED distributor_enabled

\* GicV2 takes over ENABLED, and refills when it becomes enabled.
Synchronize ==
    /\ distributor_enabled' = GICD_ENABLED
    /\ place' = IF GICD_ENABLED /\ ~distributor_enabled
                THEN [i \in Looked |-> IF place[i] = "queued" THEN "register" ELSE place[i]]
                ELSE place
    /\ UNCHANGED raised

Copy(old, new, i) == IF i \in new THEN old \cup {i} ELSE old \ {i}

Step(c) ==
    /\ todo[c] # <<>>
    /\ Head(todo[c]).op = "take_interrupt" => raised \subseteq active
    /\ LET o == Head(todo[c]).op
           i == Head(todo[c]).id
       IN  /\ todo' = [todo EXCEPT ![c] = Tail(@)]
           /\ held' = [held EXCEPT ![c] = IF Tail(todo[c]) = <<>> THEN Looked
                                          ELSE IF Held(o, i) THEN @ ELSE @ \ {i}]
           /\ INTERRUPT_PRIORITY' = IF o = "store_priority"
                                    THEN [INTERRUPT_PRIORITY EXCEPT ![i] = priority[i]]
                                    ELSE INTERRUPT_PRIORITY
           /\ INTERRUPT_ENABLED' = IF o = "store_enable"
                                   THEN Copy(INTERRUPT_ENABLED, enabled, i)
                                   ELSE INTERRUPT_ENABLED
           /\ LIC_SOURCE_ENABLED' = IF o = "store_source"
                                    THEN Copy(LIC_SOURCE_ENABLED, ier, i)
                                    ELSE LIC_SOURCE_ENABLED
           /\ GICD_ENABLED' = IF o = "store_control" THEN control ELSE GICD_ENABLED
           /\ loaded' = IF o = "load_priority" THEN INTERRUPT_PRIORITY[i]
                        ELSE IF o = "finish" THEN Unloaded ELSE loaded
           /\ seen' = IF o = "finish" THEN {}
                      ELSE IF o = "load_enable" /\ c = Boot /\ i \in In("hand")
                      THEN since[i] ELSE seen
           /\ \/ o = "finish" /\ finish_owned_interrupt(i, i \in held[c])
              \/ o = "set_distributor_enabled" /\ c = Boot /\ Synchronize
              \/ /\ o = "pend" /\ i \in held[c]
                 /\ raised' = raised \cup {i}
                 /\ UNCHANGED <<place, distributor_enabled>>
              \/ /\ o # "finish" /\ ~(o = "set_distributor_enabled" /\ c = Boot)
                 /\ ~(o = "pend" /\ i \in held[c])
                 /\ UNCHANGED gicVars
    /\ UNCHANGED <<registerVars, line, since>>
-----------------------------------------------------------------------------
GuestAccess ==
    \/ \E c \in Cpus : TrapDistributor(c) \/ TrapLic(c)
    \/ \E c \in Cpus, i \in Looked : TrapDevice(c, i) \/ Service(c, i)

PublicationNext ==
    \/ GuestAccess
    \/ TakeIrq
    \/ \E i \in Looked : TakeInterrupt(i) \/ GuestAck(i) \/ GuestEoi(i)
    \/ \E c \in Cpus : Step(c)

\* An owned interrupt interrupts the boot CPU.
OwnedIrq == raised \ active # {} /\ TakeIrq

\* A CPU in EL2 goes on, owned interrupts are taken, and the guest takes and
\* ends those it is given.
PublicationSpec ==
    /\ PublicationInit /\ [][PublicationNext]_allVars
    /\ \A c \in Cpus : WF_allVars(Step(c))
    /\ WF_allVars(OwnedIrq)
    /\ \A i \in Looked : /\ WF_allVars(TakeInterrupt(i))
                         /\ SF_allVars(GuestAck(i)) /\ SF_allVars(GuestEoi(i))
-----------------------------------------------------------------------------
(***************************************************************************)
(* THE PRIORITY BELONGS TO THE ENABLE.  The vector loads enable and        *)
(* priority without the lock that publishes them.  Still an interrupt is   *)
(* delivered only with a priority that it has had since the guest enabled  *)
(* it: one that the guest replaced before enabling it is never seen,       *)
(* because the priority is loaded after the enable.                        *)
(***************************************************************************)
PriorityIsCurrent ==
    todo[Boot] # <<>> /\ Head(todo[Boot]).op = "finish" /\ Head(todo[Boot]).id \in held[Boot]
        => loaded \in seen

(***************************************************************************)
(* SETTINGS ARE PUBLISHED.  When no CPU holds a controller's lock, every   *)
(* atomic has the value that the guest reads from that controller.         *)
(***************************************************************************)
SettingsArePublished ==
    /\ LockFree(DISTRIBUTOR) => /\ GICD_ENABLED = control /\ INTERRUPT_ENABLED = enabled
                                /\ INTERRUPT_PRIORITY = priority
    /\ LockFree(LIC) => LIC_SOURCE_ENABLED = ier

(***************************************************************************)
(* THE INDUCTIVE INVARIANT behind these two.                               *)
(***************************************************************************)
Due(program, op, i) == \E k \in DOMAIN program : program[k] = Op(op, i)

\* What is left of a program stores priorities before enables, loads the
\* enable before the priority, and finishes last what it loaded.
Ordered(program) ==
    /\ \A j, k \in DOMAIN program :
         /\ program[j].op = "store_enable" /\ program[k].op = "store_priority" => k < j
         /\ program[j].op = "load_priority" /\ program[k] = Op("load_enable", program[j].id)
              => k < j
         /\ program[j].op \in {"finish", "take_interrupt"} => j = Len(program)
         /\ program[j].op = "finish" /\ program[k].op = "load_priority"
              => program[j].id = program[k].id
    /\ \A i \in Looked :
         Due(program, "finish", i) /\ Due(program, "load_enable", i)
              => Due(program, "load_priority", i)

\* What only the vector of the boot CPU does.
Delivery == {"take_interrupt", "finish", "load_priority"}

ProgramsAreOrdered ==
    /\ \A c \in Cpus : Ordered(todo[c])
    /\ \A c \in Cpus \ {Boot} : \A k \in DOMAIN todo[c] :
         todo[c][k].op \notin Delivery

\* Stores are made under a lock.
HeldByOne(lock) ==
    \A c, d \in Cpus : \A j \in DOMAIN todo[c], k \in DOMAIN todo[d] :
        todo[c][j].op \in lock /\ todo[d][k].op \in lock => c = d

OneCpuStores == HeldByOne(DISTRIBUTOR) /\ HeldByOne(LIC)

\* An atomic that differs from its register will be stored.
StoresAreDue ==
    /\ GICD_ENABLED = control \/ \E c \in Cpus : Due(todo[c], "store_control", NETWORK)
    /\ \A i \in Looked :
         /\ \/ INTERRUPT_PRIORITY[i] = priority[i]
            \/ \E c \in Cpus : Due(todo[c], "store_priority", i)
         /\ \/ i \in INTERRUPT_ENABLED <=> i \in enabled
            \/ \E c \in Cpus : Due(todo[c], "store_enable", i)
         /\ \/ i \in LIC_SOURCE_ENABLED <=> i \in ier
            \/ \E c \in Cpus : Due(todo[c], "store_source", i)

\* The priority of an enabled interrupt is one since the enable, in the
\* register and in the atomic.
PrioritiesAreSince ==
    /\ \A i \in enabled \cup INTERRUPT_ENABLED : priority[i] \in since[i]
    /\ \A i \in INTERRUPT_ENABLED : INTERRUPT_PRIORITY[i] \in since[i]

\* The vector has one interrupt in hand, and once it has found it enabled,
\* every priority it can load is one that it may deliver.
IrqUnderWay ==
    /\ \A i \in Looked : i \in In("hand") <=> Due(todo[Boot], "finish", i)
    /\ \A i \in held[Boot] : Due(todo[Boot], "finish", i) =>
         /\ ~Due(todo[Boot], "load_enable", i) => {INTERRUPT_PRIORITY[i], priority[i]} \subseteq seen
         /\ ~Due(todo[Boot], "load_priority", i) => loaded \in seen

\* GicV2 queues for want of its enable, and refills when it gets it.
QueuedWhileDisabled == In("queued") # {} => ~distributor_enabled

(***************************************************************************)
(* WHAT IS PUBLISHED IS CONSISTENT, for every interleaving of the stores   *)
(* of one CPU with the loads of another.                                   *)
(***************************************************************************)
PublicationInvariant ==
    /\ PublicationTypeOK
    /\ ProgramsAreOrdered /\ OneCpuStores
    /\ StoresAreDue /\ PrioritiesAreSince /\ IrqUnderWay /\ QueuedWhileDisabled
    /\ PriorityIsCurrent /\ SettingsArePublished

(***************************************************************************)
(* NO INTERRUPT IS LOST.  A device may raise its line just before, while   *)
(* or after the guest enables the interrupt, on other CPUs and in any of   *)
(* three registers: if line and enables stay, the guest takes it.          *)
(*                                                                         *)
(* One case is excepted.  rust_irq loads ENABLED twice: GicV2 gets the     *)
(* first value, the delivery goes by the second.  When another CPU enables *)
(* the distributor, GicV2 of the boot CPU keeps it disabled, with the      *)
(* interrupt in its queue or a list register, until the boot CPU is next   *)
(* in EL2.  It may never be: AcknowledgedIsEnded of module GicV2 shows the *)
(* same defect of synchronize_distributor for the guest's own interrupts.  *)
(***************************************************************************)
Wanted(i) == i \in line \cap enabled \cap ier /\ control

Unnoticed(i) ==
    place[i] \in {"queued", "register"} /\ GICD_ENABLED /\ ~distributor_enabled

NoInterruptIsLost ==
    \A i \in Looked : \/ Wanted(i) ~> (place[i] = "guest" \/ ~Wanted(i))
                      \/ <>[]Unnoticed(i)
=============================================================================
