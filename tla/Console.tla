------------------------------ MODULE Console -------------------------------
(***************************************************************************)
(* The virtual UART (vdev/uart.rs), its lock (vm/console.rs) and the USB   *)
(* service that moves bytes between it and the console endpoints           *)
(* (service_guest_console in usb.rs).                                      *)
(*                                                                         *)
(* The service holds the USB lock throughout but takes the UART lock anew  *)
(* for every access, so guest CPUs get in between; what it reads in one    *)
(* section it relies on in the next.  `pc` is where it is; the driver's    *)
(* own buffers change only under the USB lock.  An interrupt that was      *)
(* found asserted is raised after the locks are released (`owed`).  Bytes  *)
(* are numbers in the order of their acceptance; divisor, modem and        *)
(* scratch registers only store and are left out.                          *)
(***************************************************************************)
EXTENDS Integers, Sequences

CONSTANTS
    RX_CAPACITY, TX_CAPACITY,   \* 4096 and 65536
    Chunk,                      \* console_buffer and the endpoint's buffers, 512
    MaxIn, MaxOut, MaxToggles   \* bounds on bytes in, bytes out, DTR changes

ASSUME ConsoleAssumption == {RX_CAPACITY, TX_CAPACITY, Chunk} \subseteq Nat \ {0}

VARIABLES
    rx, tx, overrun, ier, dlab,     \* struct Uart; dlab is bit 7 of lcr
    usb_rx, usb_tx, dtr,            \* Channel::Console of the USB driver
    pc, buffer, accepted,           \* the service: console_buffer, bytes sent of it
    owed, pended,                   \* the line: to be raised, raised
    in, out,                        \* bytes sent by the host, accepted from the guest
    read, toggles                   \* last byte the host has read; DTR changes

uartVars == <<rx, tx, overrun, ier, dlab>>
usbVars == <<usb_rx, usb_tx, dtr>>
stepVars == <<pc, buffer, accepted>>
lineVars == <<owed, pended>>
boundVars == <<in, out, read, toggles>>
consoleVars == <<uartVars, usbVars, stepVars, lineVars, boundVars>>

Smaller(m, n) == IF m < n THEN m ELSE n
Prefix(s, n) == SubSeq(s, 1, Smaller(n, Len(s)))
Suffix(s, n) == SubSeq(s, n + 1, Len(s))

interrupt_pending ==
    \/ "RDA" \in ier /\ rx # <<>>
    \/ "RLS" \in ier /\ overrun

ConsoleInit ==
    /\ rx = <<>> /\ tx = <<>> /\ overrun = FALSE /\ ier = {} /\ dlab = FALSE
    /\ usb_rx = <<>> /\ usb_tx = <<>> /\ dtr = FALSE
    /\ pc = "idle" /\ buffer = <<>> /\ accepted = 0
    /\ owed = FALSE /\ pended = FALSE
    /\ in = 0 /\ out = 0 /\ read = 0 /\ toggles = 0
-----------------------------------------------------------------------------
(***************************************************************************)
(* The service.                                                            *)
(***************************************************************************)
\* Mutant: the room in the UART is not asked for.
TakeInputGreedy ==
    /\ pc = "idle"
    /\ pc' = "deliver"
    /\ buffer' = Prefix(usb_rx, Chunk)
    /\ usb_rx' = Suffix(usb_rx, Len(buffer'))
    /\ UNCHANGED <<uartVars, usb_tx, dtr, accepted, lineVars, boundVars>>

\* receive_capacity, then receive_channel for at most that much.
TakeInput ==
    LET capacity == Smaller(RX_CAPACITY - Len(rx), Chunk)
    IN  /\ pc = "idle"
        /\ pc' = "deliver"
        /\ buffer' = Prefix(usb_rx, capacity)
        /\ usb_rx' = Suffix(usb_rx, Len(buffer'))
        /\ UNCHANGED <<uartVars, usb_tx, dtr, accepted, lineVars, boundVars>>

\* Uart::receive.
DeliverInput ==
    LET count == Smaller(Len(buffer), RX_CAPACITY - Len(rx))
    IN  /\ pc = "deliver"
        /\ pc' = "send"
        /\ rx' = rx \o Prefix(buffer, count)
        /\ overrun' = (overrun \/ count # Len(buffer))
        /\ buffer' = <<>>
        /\ UNCHANGED <<tx, ier, dlab, usbVars, accepted, lineVars, boundVars>>

\* peek_tx and send_channel, which needs an open port and an idle endpoint.
SendOutput ==
    /\ pc = "send"
    /\ pc' = "consume"
    /\ IF dtr /\ usb_tx = <<>>
       THEN usb_tx' = Prefix(tx, Chunk) /\ accepted' = Len(usb_tx')
       ELSE accepted' = 0 /\ UNCHANGED usb_tx
    /\ UNCHANGED <<uartVars, usb_rx, dtr, buffer, lineVars, boundVars>>

ConsumeOutput ==
    /\ pc = "consume"
    /\ pc' = "line"
    /\ tx' = Suffix(tx, Smaller(accepted, Len(tx)))
    /\ accepted' = 0
    /\ UNCHANGED <<rx, overrun, ier, dlab, usbVars, buffer, lineVars, boundVars>>

\* Mutant: arrived input does not raise the line.
ReadLineSilent ==
    /\ pc = "line"
    /\ pc' = "idle"
    /\ UNCHANGED <<uartVars, usbVars, buffer, accepted, lineVars, boundVars>>

\* guest_console::interrupt_pending, at the end of the locked part.
ReadLine ==
    /\ pc = "line"
    /\ pc' = "idle"
    /\ owed' = (owed \/ interrupt_pending)
    /\ UNCHANGED <<uartVars, usbVars, buffer, accepted, pended, boundVars>>

pend_console_interrupt ==
    /\ owed
    /\ owed' = FALSE
    /\ pended' = TRUE
    /\ UNCHANGED <<uartVars, usbVars, stepVars, boundVars>>
-----------------------------------------------------------------------------
(***************************************************************************)
(* Guest accesses: emulate_uart, one section of the UART lock each.        *)
(***************************************************************************)
Trap ==
    /\ owed' = (owed \/ interrupt_pending')
    /\ UNCHANGED <<usbVars, stepVars, pended>>

ReadRbr ==
    /\ rx' = IF dlab \/ rx = <<>> THEN rx ELSE Tail(rx)
    /\ UNCHANGED <<tx, overrun, ier, dlab, boundVars>>
    /\ Trap

\* A full queue drops the byte.
WriteThr ==
    /\ out < MaxOut
    /\ IF dlab \/ Len(tx) = TX_CAPACITY THEN UNCHANGED <<tx, out>>
       ELSE out' = out + 1 /\ tx' = Append(tx, out')
    /\ UNCHANGED <<rx, overrun, ier, dlab, in, read, toggles>>
    /\ Trap

WriteIer(value) ==
    /\ ier' = IF dlab THEN ier ELSE value
    /\ UNCHANGED <<rx, tx, overrun, dlab, boundVars>>
    /\ Trap

\* FCR with the bit that clears the receive FIFO.
ClearFifo ==
    /\ rx' = <<>>
    /\ overrun' = FALSE
    /\ UNCHANGED <<tx, ier, dlab, boundVars>>
    /\ Trap

ReadLsr ==
    /\ overrun' = FALSE
    /\ UNCHANGED <<rx, tx, ier, dlab, boundVars>>
    /\ Trap

WriteLcr ==
    /\ dlab' = ~dlab
    /\ UNCHANGED <<rx, tx, overrun, ier, boundVars>>
    /\ Trap

\* The guest has handled the interrupt, which is delivered again as long as
\* the line is high (module GicV2).
HandleInterrupt ==
    /\ pended
    /\ ~interrupt_pending
    /\ pended' = FALSE
    /\ UNCHANGED <<uartVars, usbVars, stepVars, owed, boundVars>>
-----------------------------------------------------------------------------
(***************************************************************************)
(* The host.                                                               *)
(***************************************************************************)
\* A completed OUT transfer, found by a poll.
HostTypes(count) ==
    /\ pc = "idle"
    /\ usb_rx = <<>>
    /\ in + count <= MaxIn
    /\ usb_rx' = [n \in 1 .. count |-> in + n]
    /\ in' = in + count
    /\ UNCHANGED <<uartVars, usb_tx, dtr, stepVars, lineVars, out, read, toggles>>

\* A completed IN transfer, found by a poll.
HostReads ==
    /\ pc = "idle"
    /\ usb_tx # <<>>
    /\ read' = usb_tx[Len(usb_tx)]
    /\ usb_tx' = <<>>
    /\ UNCHANGED <<uartVars, usb_rx, dtr, stepVars, lineVars, in, out, toggles>>

SetControlLineState ==
    /\ pc = "idle"
    /\ toggles < MaxToggles
    /\ toggles' = toggles + 1
    /\ dtr' = ~dtr
    /\ UNCHANGED <<uartVars, usb_rx, usb_tx, stepVars, lineVars, in, out, read>>
-----------------------------------------------------------------------------
Service == TakeInput \/ DeliverInput \/ SendOutput \/ ConsumeOutput \/ ReadLine

Access ==
    \/ ReadRbr \/ WriteThr \/ ClearFifo \/ ReadLsr \/ WriteLcr
    \/ \E value \in SUBSET {"RDA", "RLS"} : WriteIer(value)

Host == (\E count \in 1 .. Chunk : HostTypes(count)) \/ HostReads \/ SetControlLineState

ConsoleNext == Service \/ pend_console_interrupt \/ Access \/ HandleInterrupt \/ Host

\* USB is polled, the host reads what it is sent, and a CPU that owes an
\* interrupt raises it.
ConsoleSpec ==
    /\ ConsoleInit /\ [][ConsoleNext]_consoleVars
    /\ WF_consoleVars(Service) /\ WF_consoleVars(pend_console_interrupt)
    /\ SF_consoleVars(HostReads)
-----------------------------------------------------------------------------
ConsoleTypeOK ==
    /\ Len(rx) <= RX_CAPACITY /\ Len(tx) <= TX_CAPACITY
    /\ ier \subseteq {"RDA", "RLS"}
    /\ Len(buffer) <= Chunk /\ accepted \in 0 .. Chunk

\* The bytes of s follow `from` without a gap, up to `to`.
Consecutive(s, from, to) ==
    /\ Len(s) = to - from
    /\ \A n \in DOMAIN s : s[n] = from + n

(***************************************************************************)
(* INPUT IS KEPT.  Bytes reach the guest in order and without a gap; only  *)
(* the guest's own FIFO clear takes any away.  The capacity that the       *)
(* service read before it took bytes from the endpoint still holds when it *)
(* delivers them: the assertion of usb.rs:266 never fails, and the UART    *)
(* never overruns.                                                         *)
(***************************************************************************)
InputIsKept ==
    LET pending == rx \o buffer \o usb_rx
    IN  /\ Consecutive(pending, in - Len(pending), in)
        /\ pc = "deliver" => Len(buffer) <= RX_CAPACITY - Len(rx)
        /\ ~overrun

(***************************************************************************)
(* OUTPUT IS KEPT.  What the service peeked is what it consumes after the  *)
(* endpoint has accepted it: every byte that the queue took reaches the    *)
(* host once, in order (usb.rs:276-284).                                   *)
(***************************************************************************)
OutputIsKept == Consecutive(usb_tx \o Suffix(tx, accepted), read, out)

(***************************************************************************)
(* NO BYTE IS LOST, doubled or moved, in either direction, although every  *)
(* service takes the UART's lock several times and traps come in between.  *)
(***************************************************************************)
BytesAreKept == ConsoleTypeOK /\ InputIsKept /\ OutputIsKept

(***************************************************************************)
(* OUTPUT DRAINS.  "Opening the host port asserts DTR and drains queued    *)
(* output" (README.md:181): a host that stays gets all that was written.   *)
(***************************************************************************)
OutputDrains == dtr ~> read = out \/ ~dtr

(***************************************************************************)
(* THE LINE IS RAISED.  Whether bytes arrive first or the guest enables    *)
(* the interrupt first, an asserted line is passed to the interrupt        *)
(* controller unless it falls before (console.rs:36-46, usb.rs:189-202).   *)
(***************************************************************************)
LineIsRaised == interrupt_pending ~> pended \/ ~interrupt_pending

(***************************************************************************)
(* THE CONSOLE IS SERVED, in both directions.                              *)
(***************************************************************************)
ConsoleIsServed == OutputDrains /\ LineIsRaised
=============================================================================
