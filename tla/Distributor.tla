---------------------------- MODULE Distributor -----------------------------
(***************************************************************************)
(* The guest's interrupt controllers: the distributor (vdev/gicv2.rs) and  *)
(* the legacy controller in front of it (vdev/lic.rs).                     *)
(*                                                                         *)
(* The guest's accesses pass through to the hardware, except for the       *)
(* interrupts that EL2 needs itself: the maintenance PPI and the owned     *)
(* SPIs of USB and virtio-net.  Their physical state must stay as EL2 set  *)
(* it, while the guest programs a shadow.  A register is a set of ids, or  *)
(* a value per id; a guest access reaches ids of one register word.  One   *)
(* access is one step: every access holds the device's lock.               *)
(***************************************************************************)
EXTENDS Integers, FiniteSets

CONSTANTS
    Ids,            \* the interrupts looked at
    MAINTENANCE,    \* MAINTENANCE_IRQ, a PPI
    Owned,          \* owned_interrupt: the SPIs of USB and the network
    BitWord,        \* the word of an id in registers with one bit per id
    ByteWord,       \* the word of an id in registers with one byte per id
    Bytes,          \* values of a priority byte
    Attributes      \* values of a group, target or configuration field

Protected == Owned \cup {MAINTENANCE}
DEFAULT_OWNED_PRIORITY == 160
Sources == Ids \ {MAINTENANCE}

ASSUME DistributorAssumption ==
    /\ Owned \subseteq Ids /\ MAINTENANCE \in Ids \ Owned
    /\ Bytes \subseteq 0 .. 255 /\ {0, DEFAULT_OWNED_PRIORITY} \subseteq Bytes
    /\ \A b \in Bytes : b - (b % 8) \in Bytes
    /\ 0 \in Attributes

VARIABLES
    \* The hardware.
    gicd,           \* GICD_CTLR.Enable
    bits,           \* sets of ids: enable; state (pending or active)
    priorities,     \* GICD_IPRIORITYR
    attributes,     \* GICD_IGROUPR, GICD_ITARGETSR or GICD_ICFGR
    lic,            \* sets of sources: ier, fir, class
    \* struct Distributor and struct Lic.
    guest_control,
    owned_interrupt_enabled,
    owned_interrupt_priority,
    guest_enabled

hardwareVars == <<gicd, bits, priorities, attributes, lic>>
shadowVars == <<guest_control, owned_interrupt_enabled, owned_interrupt_priority, guest_enabled>>
vars == <<hardwareVars, shadowVars>>

\* Registers that the code treats alike are represented by one of them.
WriteOneRegisters == {"enable", "state"}

DistributorTypeOK ==
    /\ gicd \in BOOLEAN
    /\ bits \in [WriteOneRegisters -> SUBSET Ids]
    /\ priorities \in [Ids -> Bytes]
    /\ attributes \in [Ids -> Attributes]
    /\ lic \in [{"ier", "fir", "class"} -> SUBSET Sources]
    /\ guest_control \in BOOLEAN
    /\ owned_interrupt_enabled \subseteq Owned
    /\ owned_interrupt_priority \in [Owned -> {b \in Bytes : b % 8 = 0}]
    /\ guest_enabled \subseteq Owned

\* After configure_maintenance_interrupt, configure_interrupt and the two
\* initialize functions; the bootloader left the rest.
DistributorInit ==
    /\ gicd = TRUE
    /\ bits = [r \in WriteOneRegisters |-> IF r = "enable" THEN Protected ELSE {}]
    /\ priorities = [i \in Ids |-> 0]
    /\ attributes = [i \in Ids |-> 0]
    /\ lic = [r \in {"ier", "fir", "class"} |-> IF r = "ier" THEN Owned ELSE {}]
    /\ guest_control \in BOOLEAN
    /\ owned_interrupt_enabled = {}
    /\ owned_interrupt_priority = [i \in Owned |-> DEFAULT_OWNED_PRIORITY]
    /\ guest_enabled = {}
-----------------------------------------------------------------------------
(***************************************************************************)
(* Distributor::write.                                                     *)
(***************************************************************************)
\* decode_access: what one access can reach.
Words(word) == {{i \in Ids : word[i] = w} : w \in {word[i] : i \in Ids}}
Reachable(word) == UNION {SUBSET ids : ids \in Words(word)}

\* The physical group stays enabled for the maintenance PPI.
WriteControl(on) ==
    /\ guest_control' = on
    /\ gicd' = TRUE
    /\ UNCHANGED <<bits, priorities, attributes, lic, owned_interrupt_enabled, owned_interrupt_priority,
                   guest_enabled>>

\* Bits written as one to a set register (on) or a clear register.
Written(old, on, ones) == IF on THEN old \cup ones ELSE old \ ones

\* Mutant: the clear registers are passed through.
WriteOneUnmasked(r, on, ones) ==
    /\ bits' = [bits EXCEPT ![r] = Written(@, on, IF on THEN ones \ Protected ELSE ones)]
    /\ owned_interrupt_enabled' = IF r = "enable"
                                  THEN Written(owned_interrupt_enabled, on, ones \cap Owned)
                                  ELSE owned_interrupt_enabled
    /\ UNCHANGED <<gicd, priorities, attributes, lic, guest_control, owned_interrupt_priority, guest_enabled>>

\* is_write_one: a zero leaves its id alone, so protected ids are dropped.
WriteOne(r, on, ones) ==
    /\ bits' = [bits EXCEPT ![r] = Written(@, on, ones \ Protected)]
    /\ owned_interrupt_enabled' = IF r = "enable"
                                  THEN Written(owned_interrupt_enabled, on, ones \cap Owned)
                                  ELSE owned_interrupt_enabled
    /\ UNCHANGED <<gicd, priorities, attributes, lic, guest_control, owned_interrupt_priority, guest_enabled>>

\* Other registers are read, merged with the bytes covered and written back;
\* protected ids keep what was read.
Merge(old, values) ==
    [i \in Ids |-> IF i \in DOMAIN values \ Protected THEN values[i] ELSE old[i]]

FiveBits(v) == v - (v % 8)

\* Mutant: an access to another byte of the word resets the shadow.
WritePriorityWord(values) ==
    /\ priorities' = Merge(priorities, values)
    /\ owned_interrupt_priority' =
         [i \in Owned |->
            IF i \in DOMAIN values THEN FiveBits(values[i])
            ELSE IF \E j \in DOMAIN values : ByteWord[j] = ByteWord[i] THEN 0
            ELSE owned_interrupt_priority[i]]
    /\ UNCHANGED <<gicd, bits, attributes, lic, guest_control, owned_interrupt_enabled,
                   guest_enabled>>

\* The shadow keeps the five bits that the virtual interface implements.
WritePriority(values) ==
    /\ priorities' = Merge(priorities, values)
    /\ owned_interrupt_priority' =
         [i \in Owned |-> IF i \in DOMAIN values THEN FiveBits(values[i])
                          ELSE owned_interrupt_priority[i]]
    /\ UNCHANGED <<gicd, bits, attributes, lic, guest_control, owned_interrupt_enabled,
                   guest_enabled>>

WriteAttribute(values) ==
    /\ attributes' = Merge(attributes, values)
    /\ UNCHANGED <<gicd, bits, priorities, lic, shadowVars>>
-----------------------------------------------------------------------------
(***************************************************************************)
(* Lic::write_word.                                                        *)
(***************************************************************************)
WriteLicEnable(on, ones) ==
    /\ lic' = [lic EXCEPT !["ier"] = Written(@, on, ones \ Owned)]
    /\ guest_enabled' = Written(guest_enabled, on, ones \cap Owned)
    /\ UNCHANGED <<gicd, bits, priorities, attributes, guest_control, owned_interrupt_enabled,
                   owned_interrupt_priority>>

\* CPU_IEP_CLASS is a plain word: owned bits keep the value that was read.
WriteLicClass(word, ones) ==
    /\ lic' = [lic EXCEPT !["class"] = (@ \ (word \ Owned)) \cup (ones \ Owned)]
    /\ UNCHANGED <<gicd, bits, priorities, attributes, shadowVars>>

\* The registers that force an interrupt.
WriteLicForce(on, ones) ==
    /\ lic' = [lic EXCEPT !["fir"] = Written(@, on, ones \ Owned)]
    /\ UNCHANGED <<gicd, bits, priorities, attributes, shadowVars>>
-----------------------------------------------------------------------------
\* The hardware raises and ends interrupts; EL2 does so for its own.
Hardware(i) ==
    /\ bits' = [bits EXCEPT !["state"] = IF i \in @ THEN @ \ {i} ELSE @ \cup {i}]
    /\ UNCHANGED <<gicd, priorities, attributes, lic, shadowVars>>

SourceWords == {ids \cap Sources : ids \in Words(BitWord)} \ {{}}

Access ==
    \/ \E on \in BOOLEAN : WriteControl(on)
    \/ \E r \in WriteOneRegisters, on \in BOOLEAN, ones \in Reachable(BitWord) :
         WriteOne(r, on, ones)
    \/ \E covered \in Reachable(ByteWord) :
         \/ \E values \in [covered -> Bytes] : WritePriority(values)
         \/ \E values \in [covered -> Attributes] : WriteAttribute(values)
    \/ \E word \in SourceWords : \E ones \in SUBSET word :
         \/ \E on \in BOOLEAN : WriteLicEnable(on, ones) \/ WriteLicForce(on, ones)
         \/ WriteLicClass(word, ones)

DistributorNext == Access \/ \E i \in Ids : Hardware(i)
DistributorSpec == DistributorInit /\ [][DistributorNext]_vars
-----------------------------------------------------------------------------
(***************************************************************************)
(* What the guest reads: guest_word and read_word.                         *)
(***************************************************************************)
guest_word_enable == (bits["enable"] \ Protected) \cup owned_interrupt_enabled
guest_word_priority ==
    [i \in Ids |-> IF i \in Owned THEN owned_interrupt_priority[i] ELSE priorities[i]]
read_word_ier == (lic["ier"] \ Owned) \cup guest_enabled

Guest == INSTANCE GuestIrq WITH
    Reserved <- {MAINTENANCE}, Fixed <- {MAINTENANCE},
    control <- guest_control, enabled <- guest_word_enable,
    priority <- guest_word_priority, ier <- read_word_ier

(***************************************************************************)
(* THE GUEST SEES PLAIN REGISTERS.  Shadow and hardware together behave as *)
(* a controller of the guest's own: whatever part of a word an access      *)
(* covers, every id in it keeps what was written and no other id changes.  *)
(***************************************************************************)
GuestSeesPlainRegisters ==
    [][ /\ \A on \in BOOLEAN : WriteControl(on) => Guest!WriteControl(on)
        /\ \A on \in BOOLEAN, ones \in Reachable(BitWord) :
             /\ WriteOne("enable", on, ones) => Guest!WriteEnable(on, ones)
             /\ WriteOne("state", on, ones) => UNCHANGED Guest!vars
        /\ \A covered \in Reachable(ByteWord) : \A values \in [covered -> Bytes] :
             WritePriority(values) => Guest!WritePriority(values)
        /\ \A on \in BOOLEAN, ones \in UNION {SUBSET word : word \in SourceWords} :
             WriteLicEnable(on, ones) => Guest!WriteIer(on, ones) ]_vars

(***************************************************************************)
(* EL2'S INTERRUPTS KEEP WORKING.  No access of the guest, of any width    *)
(* and to any register, changes the physical state of a protected          *)
(* interrupt: it stays enabled, routed to EL2 with the highest priority,   *)
(* and is neither made pending nor ended behind the driver's back.  All    *)
(* registers keep values that they can have.                               *)
(***************************************************************************)
ProtectedAreUntouched ==
    [][ /\ DistributorTypeOK'
        /\ Access =>
             /\ gicd'
             /\ \A r \in DOMAIN bits : (bits'[r] \cap Protected) = (bits[r] \cap Protected)
             /\ \A i \in Protected : /\ priorities'[i] = priorities[i]
                                     /\ attributes'[i] = attributes[i]
             /\ \A r \in DOMAIN lic : (lic'[r] \cap Owned) = (lic[r] \cap Owned) ]_vars
=============================================================================
