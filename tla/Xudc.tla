-------------------------------- MODULE Xudc --------------------------------
(***************************************************************************)
(* The data endpoints of one channel of the USB device controller          *)
(* (drivers/usb/tegra210.rs): an OUT ring and an IN ring of transfer       *)
(* descriptors, the event ring, and the requests that reset them.  With    *)
(* Ncm the channel is the network function, which has two receive buffers  *)
(* and endpoints that exist only in alternate setting 1.                   *)
(*                                                                         *)
(* The driver runs under the USB lock, one call at a time; controller and  *)
(* host run beside it.  A completion names a descriptor by its slot, and   *)
(* slots are used again, from the first one after every reset of a ring:   *)
(* whether a completion belongs to the transfer the driver has in mind is  *)
(* what is at stake.  Transfers are numbered in each direction.            *)
(***************************************************************************)
EXTENDS Integers, Sequences

CONSTANTS
    Bounds,         \* of each channel: the descriptors of a ring (15), transfers
                    \* in each direction, control requests and port resets, faults
    EventLimit      \* events handled by one poll, 32

VARIABLE channel    \* the channel: Channel::Ncm or another

Ncm == channel = "Ncm"

Count == IF Ncm THEN 2 ELSE 1       \* its receive buffers
Slots == Bounds[channel].slots
MaxSent == Bounds[channel].sent
MaxSends == Bounds[channel].sends
MaxRequests == Bounds[channel].requests
MaxFaults == Bounds[channel].faults

ASSUME XudcAssumption ==
    /\ EventLimit \in Nat \ {0}
    /\ \A c \in DOMAIN Bounds :
          /\ Bounds[c] \in [slots : Nat, sent : Nat, sends : Nat, requests : Nat, faults : Nat]
          /\ Bounds[c].slots > IF c = "Ncm" THEN 2 ELSE 1

Buffers == 0 .. Count - 1
Endpoints == {"out", "in"}
NONE == -1

VARIABLES
    \* struct Xudc and struct Composite.
    configuration, alternate, failed,
    halted,                 \* Composite::halted
    rings,                  \* next and occupied, per endpoint
    out,                    \* the slot that a buffer is queued in
    length,                 \* whether a buffer holds a received transfer
    cursor,                 \* 1 when the first part of it has been read
    index,                  \* ncm_receive_index
    tx, zlp_needed,         \* the slot under way; a zero-length packet is due
    pc, polled,             \* the call under way, events handled in it
    \* The controller.
    halt,                   \* EP_HALT
    armed,                  \* descriptors queued in each ring
    buffer,                 \* contents of the receive buffers
    events,                 \* the event ring
    \* The host and the history.
    sent, consumed, discarded,      \* OUT transfers: sent, read, given up to
    accepted, arrived, dropped,     \* IN transfers: likewise
    open,                           \* a transfer of full packets awaits its end
    requests, faults

driverVars == <<configuration, alternate, failed, halted, rings, out, length, cursor, index,
                tx, zlp_needed, pc, polled>>
controllerVars == <<halt, armed, buffer, events>>
historyVars == <<sent, consumed, discarded, accepted, arrived, dropped, open, requests, faults>>
stepVars == <<driverVars, controllerVars, historyVars>>
vars == <<channel, stepVars>>

active == configuration = 1 /\ (Ncm => alternate = 1)
connected == ~failed /\ active

NewRing == [next |-> 0, occupied |-> {}]

\* Before or just after the host has configured the device.
XudcInit ==
    /\ channel \in DOMAIN Bounds
    /\ configuration \in {0, 1} /\ alternate = IF Ncm THEN configuration ELSE 0
    /\ failed = FALSE /\ halted = {}
    /\ rings = [e \in Endpoints |-> NewRing]
    /\ out = [b \in Buffers |-> NONE] /\ length = [b \in Buffers |-> FALSE]
    /\ cursor = 0 /\ index = 0 /\ tx = NONE /\ zlp_needed = FALSE
    /\ pc = "idle" /\ polled = 0
    /\ halt = {} /\ armed = [e \in Endpoints |-> <<>>]
    /\ buffer = [b \in Buffers |-> 0] /\ events = <<>>
    /\ sent = 0 /\ consumed = 0 /\ discarded = 0
    /\ accepted = 0 /\ arrived = 0 /\ dropped = 0 /\ open = FALSE
    /\ requests = 0 /\ faults = 0
-----------------------------------------------------------------------------
(***************************************************************************)
(* Controller and host.                                                    *)
(***************************************************************************)
Resets(event) == event.kind \in {"port", "configuration", "alternate"}

\* The host leaves the endpoints alone while it reconfigures the device.
Usable(e) ==
    /\ armed[e] # <<>> /\ e \notin halt
    /\ \A k \in DOMAIN events : ~Resets(events[k])

Completion(e, ok) == [kind |-> "transfer", ep |-> e, slot |-> Head(armed[e]).slot, ok |-> ok]

Finish(e, ok) ==
    /\ armed' = [armed EXCEPT ![e] = Tail(@)]
    /\ events' = Append(events, Completion(e, ok))
    /\ UNCHANGED <<driverVars, halt>>

HostOut ==
    /\ Usable("out") /\ sent < MaxSent
    /\ sent' = sent + 1
    /\ buffer' = [buffer EXCEPT ![Head(armed["out"]).buffer] = sent']
    /\ Finish("out", TRUE)
    /\ UNCHANGED <<consumed, discarded, accepted, arrived, dropped, open, requests, faults>>

\* There is one transmit buffer; it holds the transfer accepted last.
HostIn ==
    /\ Usable("in")
    /\ LET trb == Head(armed["in"])
       IN  /\ arrived' = IF trb.data THEN accepted ELSE arrived
           /\ open' = trb.full
    /\ Finish("in", TRUE)
    /\ UNCHANGED <<buffer, sent, consumed, discarded, accepted, dropped, requests, faults>>

\* A transfer ends with another completion code.
TransferError(e) ==
    /\ Usable(e) /\ faults < MaxFaults
    /\ faults' = faults + 1
    /\ Finish(e, FALSE)
    /\ UNCHANGED <<buffer, sent, consumed, discarded, accepted, arrived, dropped, open, requests>>

Request(event) ==
    /\ requests < MaxRequests
    /\ requests' = requests + 1
    /\ events' = Append(events, event)
    /\ UNCHANGED <<driverVars, halt, armed, buffer, sent, consumed, discarded, accepted,
                   arrived, dropped, open, faults>>

Requests ==
    \/ Request([kind |-> "port"])
    \/ \E c \in {0, 1} : Request([kind |-> "configuration", value |-> c])
    \/ Ncm /\ \E a \in {0, 1} : Request([kind |-> "alternate", value |-> a])
    \/ \E e \in Endpoints, kind \in {"clear_halt", "set_halt"} : Request([kind |-> kind, ep |-> e])
-----------------------------------------------------------------------------
(***************************************************************************)
(* The parts of a reset.                                                   *)
(***************************************************************************)
\* clear_endpoint_state of the OUT ring: received data goes with it.
clear_out ==
    /\ out' = [b \in Buffers |-> NONE]
    /\ length' = [b \in Buffers |-> FALSE]
    /\ cursor' = 0 /\ index' = 0
    /\ discarded' = sent

\* Mutant: the transfer under way is not given up.
clear_inStuck ==
    /\ zlp_needed' = FALSE
    /\ dropped' = accepted /\ open' = FALSE
    /\ UNCHANGED tx

\* clear_endpoint_state of the IN ring.
clear_in ==
    /\ tx' = NONE /\ zlp_needed' = FALSE
    /\ dropped' = accepted /\ open' = FALSE

KeepOut == UNCHANGED <<out, length, cursor, index, discarded>>
KeepIn == UNCHANGED <<tx, zlp_needed, dropped, open>>

\* endpoint: new rings, fetched from the start and not halted.
endpoint(eps) ==
    /\ rings' = [e \in Endpoints |-> IF e \in eps THEN NewRing ELSE rings[e]]
    /\ armed' = [e \in Endpoints |-> IF e \in eps THEN <<>> ELSE armed[e]]
    /\ halt' = halt \ eps

\* Endpoints that are stopped and not set up again.
Stop ==
    /\ armed' = [e \in Endpoints |-> <<>>]
    /\ halt' = IF active THEN Endpoints ELSE halt
    /\ UNCHANGED rings

\* What a call leaves alone.
KeepHost == UNCHANGED <<buffer, sent, consumed, accepted, arrived, requests, faults>>
-----------------------------------------------------------------------------
(***************************************************************************)
(* poll: events one by one, then arm_data.                                 *)
(***************************************************************************)
\* Mutant: one event per poll.
PollLimitOne == 1

PollLimit == EventLimit

Poll ==
    /\ pc = "idle"
    /\ pc' = "poll" /\ polled' = 0
    /\ UNCHANGED <<configuration, alternate, failed, halted, rings, out, length, cursor, index,
                   tx, zlp_needed, controllerVars, historyVars>>

EndPoll ==
    /\ pc = "poll"
    /\ events = <<>> \/ polled = PollLimit
    /\ pc' = "arm" /\ polled' = 0
    /\ UNCHANGED <<configuration, alternate, failed, halted, rings, out, length, cursor, index,
                   tx, zlp_needed, controllerVars, historyVars>>

Event(kind) == pc = "poll" /\ events # <<>> /\ polled < PollLimit /\ Head(events).kind = kind
Handled == events' = Tail(events) /\ polled' = polled + 1 /\ UNCHANGED <<pc, failed>>

\* An error ends the poll; nothing is armed any more until a port reset.
Failed == events' = Tail(events) /\ polled' = 0 /\ pc' = "idle" /\ failed' = TRUE

\* transfer.  A slot that is not occupied, or not the one waited for, is
\* ignored.
Transfer ==
    LET event == Head(events)
        occupied == event.slot \in rings[event.ep].occupied
    IN  /\ Event("transfer")
        /\ rings' = [rings EXCEPT ![event.ep].occupied = @ \ {event.slot}]
        /\ IF occupied /\ ~event.ok THEN Failed ELSE Handled
        /\ IF event.ep = "out" /\ occupied /\ event.ok /\ \E b \in Buffers : out[b] = event.slot
           THEN LET b == CHOOSE b \in Buffers : out[b] = event.slot
                IN  /\ out' = [out EXCEPT ![b] = NONE]
                    /\ length' = [length EXCEPT ![b] = TRUE]
           ELSE UNCHANGED <<out, length>>
        /\ tx' = IF event.ep = "in" /\ occupied /\ event.ok /\ tx = event.slot THEN NONE ELSE tx
        /\ UNCHANGED <<configuration, alternate, halted, cursor, index, zlp_needed, halt, armed,
                       discarded, dropped, open>>
        /\ KeepHost

Configured == UNCHANGED <<configuration, alternate>>

\* Reply::Configuration: stop_data, then the endpoints again.  Those of the
\* network wait for the alternate setting.
SetConfiguration ==
    LET c == Head(events).value
    IN  /\ Event("configuration") /\ Handled
        /\ configuration' = c /\ alternate' = 0
        /\ clear_out /\ clear_in
        /\ IF c = 1 /\ ~Ncm THEN endpoint(Endpoints) ELSE Stop
        /\ UNCHANGED halted /\ KeepHost

\* ncm_alternate; without a configuration the request is stalled.
SetAlternate ==
    LET a == Head(events).value
    IN  /\ Event("alternate") /\ Handled
        /\ IF configuration = 1
           THEN /\ alternate' = a
                /\ clear_out /\ clear_in
                /\ IF a = 1 THEN endpoint(Endpoints) ELSE Stop
           ELSE UNCHANGED <<alternate, rings, armed, halt>> /\ KeepOut /\ KeepIn
        /\ UNCHANGED <<configuration, halted>> /\ KeepHost

\* Reply::Halt with halted false: the endpoint starts afresh.
ClearHalt ==
    LET e == Head(events).ep
    IN  /\ Event("clear_halt") /\ Handled
        /\ IF active
           THEN /\ halted' = halted \ {e}
                /\ IF e = "out" THEN clear_out /\ KeepIn ELSE clear_in /\ KeepOut
                /\ endpoint({e})
           ELSE UNCHANGED <<halted, rings, armed, halt>> /\ KeepOut /\ KeepIn
        /\ Configured /\ KeepHost

SetHalt ==
    LET e == Head(events).ep
    IN  /\ Event("set_halt") /\ Handled
        /\ IF active THEN halted' = halted \cup {e} /\ halt' = halt \cup {e}
           ELSE UNCHANGED <<halted, halt>>
        /\ UNCHANGED <<rings, armed>> /\ KeepOut /\ KeepIn /\ Configured /\ KeepHost

\* port, when the link went down or was reset: the only way out of `failed`.
Port ==
    /\ Event("port")
    /\ events' = Tail(events) /\ polled' = polled + 1 /\ UNCHANGED pc
    /\ failed' = FALSE
    /\ configuration' = 0 /\ alternate' = 0 /\ halted' = {}
    /\ clear_out /\ clear_in /\ Stop /\ KeepHost

\* What a request that fails has given up, and which of these endpoints it
\* has begun to set up again.
Abandon(gone, fresh) ==
    /\ IF "out" \in gone THEN clear_out ELSE KeepOut
    /\ IF "in" \in gone THEN clear_in ELSE KeepIn
    /\ rings' = [e \in Endpoints |-> IF e \in fresh THEN NewRing ELSE rings[e]]
    /\ armed' = [e \in Endpoints |-> IF e \in gone THEN <<>> ELSE armed[e]]
    /\ \E stopped \in SUBSET Endpoints, runs \in SUBSET fresh :
         /\ active => gone \subseteq stopped
         /\ halt' = (halt \cup stopped) \ runs

\* A request fails half-way: the controller does not acknowledge that it halts
\* or reloads an endpoint (wait), or no descriptor is left for the status
\* stage.  Endpoints are given up one by one, the OUT endpoint first, and the
\* settings change last; stop_data gives up all of them at once.
Timeout ==
    LET event == Head(events)
    IN  /\ pc = "poll" /\ events # <<>> /\ polled < PollLimit
        /\ event.kind # "transfer"
        /\ faults < MaxFaults
        /\ faults' = faults + 1
        /\ Failed
        /\ \/ /\ Abandon({}, {}) /\ Configured
              /\ halted' = CASE event.kind = "set_halt" /\ active -> halted \cup {event.ep}
                             [] event.kind = "clear_halt" /\ active -> halted \ {event.ep}
                             [] OTHER -> halted
           \/ /\ event.kind = "clear_halt" /\ active
              /\ Abandon({event.ep}, {event.ep}) /\ Configured
              /\ halted' = halted \ {event.ep}
           \/ /\ event.kind = "alternate" /\ configuration = 1
              /\ \/ /\ active \/ event.value = 1
                    /\ Abandon({"out"}, IF event.value = 1 THEN {"out"} ELSE {})
                    /\ UNCHANGED alternate
                 \/ /\ Abandon(Endpoints, IF event.value = 1 THEN Endpoints ELSE {})
                    /\ alternate' \in {alternate, event.value}
              /\ UNCHANGED <<configuration, halted>>
           \/ /\ event.kind = "configuration"
              /\ configuration' \in {0, event.value} /\ alternate' = 0
              /\ \E fresh \in {{}, {"out"}, Endpoints} :
                   /\ fresh # {} => event.value = 1 /\ ~Ncm
                   /\ configuration' = 1 /\ ~Ncm => fresh = Endpoints
                   /\ Abandon(Endpoints, fresh)
              /\ UNCHANGED halted
           \/ /\ event.kind = "port"
              /\ configuration' = 0 /\ alternate' = 0 /\ halted' = {}
              /\ Abandon(Endpoints, {})
        /\ UNCHANGED <<buffer, sent, consumed, accepted, arrived, requests>>
-----------------------------------------------------------------------------
(***************************************************************************)
(* arm_data: every free receive buffer is queued, in the order in which    *)
(* the buffers are read; then a zero-length packet that is due.            *)
(***************************************************************************)
\* Mutant: a buffer is free when it is not queued.
FreeUnread(b) == out[b] = NONE

Free(b) == out[b] = NONE /\ ~length[b]

IfFree(b) == IF Free(b) THEN <<b>> ELSE <<>>
RefillOrder == IF Ncm THEN IfFree(index) \o IfFree(1 - index) ELSE IfFree(index)

Queued(e, n) == (rings[e].next + n) % Slots
Advance(e, n) == [next |-> Queued(e, n),
                  occupied |-> rings[e].occupied \cup {Queued(e, k) : k \in 0 .. n - 1}]

ArmData ==
    LET refill == IF connected /\ "out" \notin halt THEN RefillOrder ELSE <<>>
        zlp == connected /\ zlp_needed /\ tx = NONE
    IN  /\ pc = "arm"
        /\ pc' = "idle"
        /\ out' = [b \in Buffers |->
                     IF \E k \in DOMAIN refill : refill[k] = b
                     THEN Queued("out", (CHOOSE k \in DOMAIN refill : refill[k] = b) - 1)
                     ELSE out[b]]
        /\ armed' = [armed EXCEPT
             !["out"] = @ \o [k \in DOMAIN refill |->
                                [slot |-> Queued("out", k - 1), buffer |-> refill[k]]],
             !["in"] = IF zlp
                       THEN Append(@, [slot |-> rings["in"].next, data |-> FALSE, full |-> FALSE])
                       ELSE @]
        /\ rings' = [rings EXCEPT !["out"] = Advance("out", Len(refill)),
                                  !["in"] = IF zlp THEN Advance("in", 1) ELSE @]
        /\ tx' = IF zlp THEN rings["in"].next ELSE tx
        /\ zlp_needed' = (zlp_needed /\ ~zlp)
        /\ UNCHANGED <<configuration, alternate, failed, halted, length, cursor, index, polled,
                       halt, buffer, events, historyVars>>
-----------------------------------------------------------------------------
(***************************************************************************)
(* The users of the channel.                                               *)
(***************************************************************************)
NextIndex == (index + 1) % Count

\* receive_channel and receive_frame: a transfer is read in two parts, and
\* its buffer is queued again after the second.
Read ==
    /\ pc = "idle"
    /\ Ncm => connected
    /\ length[index] \/ cursor = 1
    /\ consumed' = buffer[index]
    /\ IF cursor = 0 THEN cursor' = 1 /\ UNCHANGED <<length, index, pc>>
       ELSE /\ cursor' = 0
            /\ length' = [length EXCEPT ![index] = FALSE]
            /\ index' = NextIndex
            /\ pc' = "arm"
    /\ UNCHANGED <<configuration, alternate, failed, halted, rings, out, tx, zlp_needed, polled,
                   controllerVars, sent, discarded, accepted, arrived, dropped, open, requests,
                   faults>>

send_capacity == connected /\ tx = NONE /\ ~zlp_needed

\* Whether the length is a multiple of the packet size.
Zlp(full) == full

\* send_channel and submit_channel.
Send(full) ==
    /\ pc = "idle"
    /\ send_capacity /\ "in" \notin halt /\ accepted < MaxSends
    /\ accepted' = accepted + 1
    /\ armed' = [armed EXCEPT !["in"] =
                   Append(@, [slot |-> rings["in"].next, data |-> TRUE, full |-> full])]
    /\ rings' = [rings EXCEPT !["in"] = Advance("in", 1)]
    /\ tx' = rings["in"].next
    /\ zlp_needed' = Zlp(full)
    /\ UNCHANGED <<configuration, alternate, failed, halted, out, length, cursor, index, pc,
                   polled, halt, buffer, events, sent, consumed, discarded, arrived, dropped, open,
                   requests, faults>>
-----------------------------------------------------------------------------
Handle == Transfer \/ SetConfiguration \/ SetAlternate \/ ClearHalt \/ SetHalt \/ Port \/ Timeout

XudcNext ==
    /\ UNCHANGED channel
    /\ \/ HostOut \/ HostIn \/ Requests \/ \E e \in Endpoints : TransferError(e)
       \/ Poll \/ EndPoll \/ Handle \/ ArmData
       \/ Read \/ \E full \in BOOLEAN : Send(full)

\* The event interrupt brings polls, which run to their end; what was
\* received is read, and the host reads what it is sent.
XudcSpec ==
    /\ XudcInit /\ [][XudcNext]_vars
    /\ WF_stepVars(Poll) /\ WF_stepVars(EndPoll) /\ WF_stepVars(Handle) /\ WF_stepVars(ArmData)
    /\ SF_stepVars(Read) /\ SF_stepVars(HostIn)
-----------------------------------------------------------------------------
SlotNumbers == 0 .. Slots - 1

Descriptors(e) == IF e = "out" THEN [slot : SlotNumbers, buffer : Buffers]
                  ELSE [slot : SlotNumbers, data : BOOLEAN, full : BOOLEAN]

Events == [kind : {"transfer"}, ep : Endpoints, slot : SlotNumbers, ok : BOOLEAN]
          \cup [kind : {"port"}]
          \cup [kind : {"configuration"} \cup (IF Ncm THEN {"alternate"} ELSE {}), value : {0, 1}]
          \cup [kind : {"clear_halt", "set_halt"}, ep : Endpoints]

XudcTypeOK ==
    /\ channel \in DOMAIN Bounds
    /\ configuration \in {0, 1} /\ alternate \in {0, 1} /\ failed \in BOOLEAN
    /\ halted \subseteq Endpoints /\ halt \subseteq Endpoints
    /\ rings \in [Endpoints -> [next : SlotNumbers, occupied : SUBSET SlotNumbers]]
    /\ out \in [Buffers -> {NONE} \cup SlotNumbers] /\ length \in [Buffers -> BOOLEAN]
    /\ cursor \in {0, 1} /\ index \in Buffers
    /\ tx \in {NONE} \cup SlotNumbers /\ zlp_needed \in BOOLEAN /\ open \in BOOLEAN
    /\ pc \in {"idle", "poll", "arm"} /\ polled \in 0 .. EventLimit
    /\ DOMAIN armed = Endpoints /\ \A e \in Endpoints : armed[e] \in Seq(Descriptors(e))
    /\ events \in Seq(Events)

(***************************************************************************)
(* THE CONTROLLER KEEPS OFF.  While a buffer holds a transfer that is not  *)
(* read to its end, in any order of completions, reads, halts and resets,  *)
(* no descriptor of the OUT ring points to it ("Poll cannot rearm it while *)
(* length is Some", tegra210.rs:1213-1214).                                *)
(***************************************************************************)
ControllerKeepsOff ==
    \A k \in DOMAIN armed["out"] :
        LET b == armed["out"][k].buffer IN ~length[b] /\ ~(b = index /\ cursor = 1)

(***************************************************************************)
(* A descriptor can always be queued: the slot that comes next is never    *)
(* occupied, so Error::RingFull does not happen.                           *)
(***************************************************************************)
RingsHaveRoom ==
    /\ \A e \in Endpoints : rings[e].next \notin rings[e].occupied
    /\ \A k \in DOMAIN armed["out"] : armed["out"][k].slot \in rings["out"].occupied

(***************************************************************************)
(* TRANSFERS ARE TERMINATED.  A transfer of full packets only is followed  *)
(* by a zero-length packet before any other data, so the host can tell     *)
(* where it ends.                                                          *)
(***************************************************************************)
TransfersAreTerminated ==
    open /\ armed["in"] # <<>> => ~Head(armed["in"]).data

(***************************************************************************)
(* THE INDUCTIVE INVARIANT behind these.                                   *)
(***************************************************************************)
\* The completions that wait in the event ring.
Done(e) == {k \in DOMAIN events : events[k].kind = "transfer" /\ events[k].ep = e}

\* How many descriptors ago a slot was used last.
Age(e, s) == IF s < rings[e].next THEN rings[e].next - s ELSE rings[e].next + Slots - s

\* Completions and descriptors are those of the occupied slots, in the order
\* in which they were queued and without a gap.
Tracked(e) ==
    /\ \A j, k \in Done(e) : j < k => Age(e, events[j].slot) > Age(e, events[k].slot)
    /\ \A j, k \in DOMAIN armed[e] : j < k => Age(e, armed[e][j].slot) > Age(e, armed[e][k].slot)
    /\ \A j \in Done(e), k \in DOMAIN armed[e] : Age(e, events[j].slot) > Age(e, armed[e][k].slot)
    /\ rings[e].occupied = {events[k].slot : k \in Done(e)}
                           \cup {armed[e][k].slot : k \in DOMAIN armed[e]}
    /\ \A s \in rings[e].occupied, t \in SlotNumbers :
         Age(e, t) <= Age(e, s) => t \in rings[e].occupied

\* After a reset completions of the old ring may be left.  Nothing is queued
\* until the poll has taken them, or the endpoint is set up again.
Off(e) ==
    /\ armed[e] = <<>>
    /\ rings[e].occupied = {} \/ ~connected
    /\ pc = "poll" \/ ~connected

\* A slot that is occupied is the one a buffer waits for.
ReceivesAreKnown ==
    /\ \/ /\ Tracked("out")
          /\ \A s \in rings["out"].occupied : \E b \in Buffers : out[b] = s
          /\ \A k \in DOMAIN armed["out"] : out[armed["out"][k].buffer] = armed["out"][k].slot
       \/ Off("out") /\ \A b \in Buffers : out[b] = NONE
    /\ \A b \in Buffers : out[b] # NONE => ~length[b]
    /\ cursor = 1 => length[index]

\* A transfer of full packets has its zero-length packet due, or under way.
SendsAreKnown ==
    /\ \/ /\ Tracked("in")
          /\ rings["in"].occupied \subseteq {tx}
          /\ \A k \in DOMAIN armed["in"] :
               LET trb == armed["in"][k]
               IN  /\ trb.full = zlp_needed /\ (zlp_needed => trb.data)
                   /\ open => ~trb.data
          /\ open /\ ~zlp_needed => /\ tx # NONE
                                    /\ \A k \in Done("in") : ~events[k].ok
       \/ Off("in") /\ tx = NONE /\ ~zlp_needed /\ ~open

(***************************************************************************)
(* THE INVARIANT of a channel: buffers, descriptors and rings agree in     *)
(* every state between interrupts, requests and resets.                    *)
(***************************************************************************)
ChannelInvariant ==
    /\ XudcTypeOK /\ ControllerKeepsOff
    /\ RingsHaveRoom /\ TransfersAreTerminated
    /\ ReceivesAreKnown /\ SendsAreKnown

(***************************************************************************)
(* DATA ARE IN ORDER. What is read is what the host sent, each transfer    *)
(* once and in order, whatever resets come in between; only a reset of the *)
(* endpoint takes transfers away, and what it took is not read later. In   *)
(* particular no completion is taken for that of a later transfer in the   *)
(* same slot. And the host gets every transfer that was accepted, once and *)
(* in order, except those dropped by a reset of the endpoint.              *)
(***************************************************************************)
Following(done, lost) == 1 + IF done > lost THEN done ELSE lost

DataAreInOrder ==
    [][ /\ consumed' # consumed =>
             /\ consumed' > consumed /\ consumed' > discarded
             /\ consumed' <= Following(consumed, discarded)
        /\ arrived' # arrived =>
             arrived' > arrived /\ arrived' <= Following(arrived, dropped) ]_vars

(***************************************************************************)
(* THE CHANNEL STAYS OPEN.  As long as it is connected and not halted, the *)
(* OUT endpoint becomes ready for the host and the IN endpoint for the     *)
(* next transfer, again and again.                                         *)
(***************************************************************************)
Ready == connected /\ halt = {}
ChannelStaysOpen ==
    /\ Ready ~> (armed["out"] # <<>> \/ ~Ready)
    /\ Ready ~> (send_capacity \/ ~Ready)
=============================================================================
