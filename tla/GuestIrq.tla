------------------------------ MODULE GuestIrq ------------------------------
(***************************************************************************)
(* What the guest may rely on of its interrupt controllers: what each of   *)
(* its writes does to the registers it reads.  A write changes what it     *)
(* names and nothing else; reserved ids ignore it, and priorities have     *)
(* five bits or more.                                                      *)
(***************************************************************************)
EXTENDS Integers

CONSTANTS
    Ids,            \* interrupts, of which the guest
    Reserved,       \* cannot enable these and
    Fixed           \* cannot change the priority of these

VARIABLES
    control,        \* GICD_CTLR.Enable
    enabled,        \* GICD_ISENABLER
    priority,       \* GICD_IPRIORITYR
    ier             \* the LIC's CPU_IER

vars == <<control, enabled, priority, ier>>

WriteControl(on) ==
    /\ control' = on
    /\ UNCHANGED <<enabled, priority, ier>>

WriteEnable(on, bits) ==
    /\ enabled' = IF on THEN enabled \cup (bits \ Reserved) ELSE enabled \ bits
    /\ UNCHANGED <<control, priority, ier>>

WritePriority(values) ==
    /\ \E unit \in [DOMAIN values -> {1, 8}] :
         priority' = [i \in Ids |-> IF i \in DOMAIN values \ Fixed
                                   THEN values[i] - (values[i] % unit[i])
                                   ELSE priority[i]]
    /\ UNCHANGED <<control, enabled, ier>>

WriteIer(on, bits) ==
    /\ ier' = IF on THEN ier \cup bits ELSE ier \ bits
    /\ UNCHANGED <<control, enabled, priority>>
=============================================================================
