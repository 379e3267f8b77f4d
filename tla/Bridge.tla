------------------------------- MODULE Bridge -------------------------------
(***************************************************************************)
(* The Ethernet bridge between the USB host and the guest (net.rs), with   *)
(* the NCM sender and receiver of the USB driver (tegra210.rs, Ethernet    *)
(* for Xudc) and the guest's virtio queues, of which only the frames       *)
(* offered for transmission (`txq`) and the number of receive buffers are  *)
(* kept (module VirtioNet has the rest).                                   *)
(*                                                                         *)
(* Network::service runs under the USB and NETWORK locks: only the guest's *)
(* queues change meanwhile, so a round of it is one step, built from       *)
(* operators that take a record of the state they change to the next.      *)
(* USB polls, USB interrupts and kicks call it.  Between two services the  *)
(* link changes at most once (two SET_INTERFACE requests are not handled   *)
(* by one poll).                                                           *)
(*                                                                         *)
(* A frame is where it comes from, what its destination makes of it, its   *)
(* number and the link period (`epoch`) in which the bridge or the USB     *)
(* buffers took it: "peer" is for the other side, "management" for the     *)
(* monitor, which answers it, "all" for both (ARP), "bad" is too short or  *)
(* has a multicast source, "empty" is an NCM block without a valid         *)
(* datagram.                                                               *)
(***************************************************************************)
EXTENDS Integers, Sequences, SequencesExt

CONSTANTS
    QUEUE_SIZE,         \* 8
    ROUNDS,             \* rounds of a service, 16
    BlockFrames,        \* frames that fit into one NCM block
    Filters,            \* packet filters the host may set: the kinds let through
    HostKinds, GuestKinds,  \* kinds of frames sent
    MaxFrames,          \* bound on the frames of each side
    MaxBuffers, MaxChanges  \* bounds on receive buffers and on link changes

Ports == {"host", "guest"}

VARIABLES
    host, guest, link,  \* Bridge and Network: the rings to host and guest
    left,               \* rounds that the service in progress has left
    up, busy, filter,   \* Xudc: NCM active, IN transfer in flight, packet_filter
    wire,               \* completed OUT buffers, as frames
    running, txq, buffers,  \* the guest's device and queues
    epoch, sent,        \* link changes; frames sent by each side
    toHost, toGuest,    \* frames handed over by the last service
    last                \* number of the last frame of each side that the other received

handed == <<toHost, toGuest, last>>
serviceVars == <<host, guest, link, left, busy, wire, txq, buffers, handed>>
vars == <<serviceVars, up, filter, running, epoch, sent>>

ASSUME BridgeAssumption ==
    /\ {QUEUE_SIZE, ROUNDS, BlockFrames} \subseteq Nat \ {0}
    /\ HostKinds \cup GuestKinds \subseteq {"peer", "management", "all", "bad", "empty"}

BridgeInit ==
    /\ host = <<>> /\ guest = <<>> /\ link = FALSE /\ left = 0
    /\ up = FALSE /\ busy = FALSE /\ filter \in Filters
    /\ wire = <<>>
    /\ running = FALSE /\ txq = <<>> /\ buffers = 0
    /\ epoch = 0 /\ sent = [p \in Ports |-> 0]
    /\ toHost = <<>> /\ toGuest = <<>> /\ last = [p \in Ports |-> 0]
-----------------------------------------------------------------------------
(***************************************************************************)
(* Bridge.                                                                 *)
(***************************************************************************)
full(ring) == Len(ring) = QUEUE_SIZE

\* Frames::push; a full ring refuses (`rejected` counts it).
push(ring, frame) == IF full(ring) THEN ring ELSE Append(ring, frame)

\* What management() writes for the frames it answers.
Reply(frame) == [frame EXCEPT !.from = "management", !.to = "reply"]

\* Bridge::route: the ring towards the sender, with the reply if there is room.
route(frame, reply) ==
    IF frame.to \in {"management", "all"} THEN push(reply, Reply(frame)) ELSE reply

Forwards(frame) == frame.to \in {"peer", "all"}

\* The frames of one side that the other one is meant to see.
From(port, frames) == SelectSeq(frames, LAMBDA f : f.from = port /\ Forwards(f))

Progress(s) == [s EXCEPT !.progressed = TRUE]

\* Net::receive: the device has a buffer for the frame.
Deliver(s, frame) ==
    [s EXCEPT !.toGuest = Append(@, frame), !.buffers = @ - 1]

CanDeliver(s) == running /\ s.buffers > 0

\* Mutant: straight to the guest whenever it has a buffer.
receive_hostOvertaking(s, frame) ==
    LET r == [s EXCEPT !.host = route(frame, @)]
    IN  IF ~Forwards(frame) THEN r
        ELSE IF CanDeliver(r) THEN Deliver(r, frame)
        ELSE [r EXCEPT !.guest = push(@, frame)]

receive_host(s, frame) ==
    LET r == [s EXCEPT !.host = route(frame, @)]
    IN  IF ~Forwards(frame) THEN r
        ELSE IF r.guest = <<>> /\ CanDeliver(r) THEN Deliver(r, frame)
        ELSE [r EXCEPT !.guest = push(@, frame)]

\* Mutant: a reply to the guest must fit.
receive_guestWaiting(s) ==
    IF full(s.host) \/ full(s.guest) \/ ~running \/ s.txq = <<>> THEN s
    ELSE LET frame == [Head(s.txq) EXCEPT !.epoch = epoch]
         IN  Progress([s EXCEPT !.txq = Tail(@),
                                !.guest = route(frame, @),
                                !.host = IF Forwards(frame) THEN Append(@, frame) ELSE @])

\* The frame is read into the spare slot of the host ring, hence its period.
receive_guest(s) ==
    IF full(s.host) \/ ~running \/ s.txq = <<>> THEN s
    ELSE LET frame == [Head(s.txq) EXCEPT !.epoch = epoch]
         IN  Progress([s EXCEPT !.txq = Tail(@),
                                !.guest = route(frame, @),
                                !.host = IF Forwards(frame) THEN Append(@, frame) ELSE @])
-----------------------------------------------------------------------------
(***************************************************************************)
(* Ethernet for Xudc.                                                      *)
(***************************************************************************)
accepts_frame(frame) == frame.to \in filter

Accepted(frames) == SelectSeq(frames, accepts_frame)

\* The frames that Encoder::push takes, with the refused ones between them.
Batch(frames) ==
    CHOOSE n \in 1 .. Len(frames) :
        /\ Len(Accepted(SubSeq(frames, 1, n))) <= BlockFrames
        /\ n = Len(frames) \/ Len(Accepted(SubSeq(frames, 1, n + 1))) > BlockFrames

\* Frames that the host does not want.
Unwanted(frames) == SelectInSeq(frames, accepts_frame)

\* Mutant: the frames of a block that was not submitted are gone too.
send_framesUnsent(s) ==
    IF ~up \/ s.host = <<>> THEN s
    ELSE Progress([s EXCEPT
            !.host = SubSeq(@, Batch(@) + 1, Len(@)),
            !.busy = TRUE,
            !.toHost = IF s.busy THEN @ ELSE @ \o Accepted(SubSeq(s.host, 1, Batch(s.host)))])

\* send_frames: frames the host refuses go first; then one frame, or a batch
\* in one block.
send_frames(s) ==
    LET first == Unwanted(s.host)
        ring == IF first = 0 THEN <<>> ELSE SubSeq(s.host, first, Len(s.host))
        skipped == [s EXCEPT !.host = ring, !.progressed = @ \/ ring # s.host]
    IN  IF ~up THEN s
        ELSE IF ring = <<>> \/ s.busy THEN skipped
        ELSE Progress([skipped EXCEPT
                !.busy = TRUE,
                !.host = SubSeq(ring, Batch(ring) + 1, Len(ring)),
                !.toHost = @ \o Accepted(SubSeq(ring, 1, Batch(ring)))])

\* receive_frame: a block without a datagram is released and counts as nothing.
receive_frame(s) ==
    IF ~up \/ s.wire = <<>> THEN s
    ELSE LET r == [s EXCEPT !.wire = Tail(@)]
         IN  IF Head(s.wire).to = "empty" THEN r
             ELSE Progress(receive_host(r, Head(s.wire)))
-----------------------------------------------------------------------------
(***************************************************************************)
(* Network::service.                                                       *)
(***************************************************************************)
\* The front of the guest ring.
DeliverFront(s) ==
    IF s.guest # <<>> /\ CanDeliver(s)
    THEN Progress([Deliver(s, Head(s.guest)) EXCEPT !.guest = Tail(@)])
    ELSE s

BeginService ==
    /\ left = 0
    /\ left' = ROUNDS
    /\ link' = up
    /\ host' = IF link # up \/ ~up THEN <<>> ELSE host
    /\ guest' = IF link # up \/ ~running THEN <<>> ELSE guest
    /\ UNCHANGED <<up, busy, filter, wire, running, txq, buffers, epoch, sent, handed>>

\* A round; the loop ends with the last one or one without progress.
Round ==
    /\ left > 0
    /\ \E s0 \in {[host |-> host, guest |-> guest, busy |-> busy, wire |-> wire,
                   txq |-> txq, buffers |-> buffers, toHost |-> <<>>, toGuest |-> <<>>,
                   progressed |-> FALSE]} :
       \E s1 \in {send_frames(s0)} : \E s2 \in {DeliverFront(s1)} :
       \E s3 \in {receive_frame(s2)} : \E s \in {receive_guest(s3)} :
        /\ host' = s.host /\ guest' = s.guest
        /\ busy' = s.busy /\ wire' = s.wire
        /\ txq' = s.txq /\ buffers' = s.buffers
        /\ toHost' = s.toHost /\ toGuest' = s.toGuest
        /\ last' = [p \in Ports |->
                LET received == From(p, s.toHost \o s.toGuest)
                IN  IF received = <<>> THEN last[p] ELSE Last(received).n]
        /\ left' = IF s.progressed THEN left - 1 ELSE 0
    /\ UNCHANGED <<link, up, filter, running, epoch, sent>>
-----------------------------------------------------------------------------
(***************************************************************************)
(* The two sides.                                                          *)
(***************************************************************************)
\* The IN transfer completes.
TransferComplete ==
    /\ left = 0
    /\ busy
    /\ busy' = FALSE
    /\ UNCHANGED <<host, guest, link, left, up, filter, wire, running, txq, buffers, epoch,
                   sent, handed>>

Frame(port, kind) ==
    [from |-> port, to |-> kind, n |-> sent[port] + 1, epoch |-> epoch]

HostSends(kind) ==
    /\ left = 0
    /\ up
    /\ sent["host"] < MaxFrames
    /\ wire' = Append(wire, Frame("host", kind))
    /\ sent' = [sent EXCEPT !["host"] = @ + 1]
    /\ UNCHANGED <<host, guest, link, left, up, busy, filter, running, txq, buffers, epoch,
                   handed>>

GuestSends(kind) ==
    /\ running
    /\ sent["guest"] < MaxFrames
    /\ txq' = Append(txq, Frame("guest", kind))
    /\ sent' = [sent EXCEPT !["guest"] = @ + 1]
    /\ UNCHANGED <<host, guest, link, left, up, busy, filter, wire, running, buffers, epoch,
                   handed>>

GuestOffers ==
    /\ running
    /\ buffers < MaxBuffers
    /\ buffers' = buffers + 1
    /\ UNCHANGED <<host, guest, link, left, up, busy, filter, wire, running, txq, epoch,
                   sent, handed>>

\* The driver writes Status; a reset takes its queues away.
GuestRestarts ==
    /\ left = 0
    /\ running' = ~running
    /\ txq' = <<>>
    /\ buffers' = 0
    /\ UNCHANGED <<host, guest, link, left, up, busy, filter, wire, epoch, sent, handed>>

\* SET_INTERFACE, SET_CONFIGURATION or a port reset: ncm_alternate and
\* stop_data drop the transfers.  Network::service has seen the last change.
LinkChanges ==
    /\ left = 0
    /\ epoch < MaxChanges
    /\ link = up
    /\ epoch' = epoch + 1
    /\ up' = ~up
    /\ wire' = <<>>
    /\ busy' = FALSE
    /\ UNCHANGED <<host, guest, link, left, filter, running, txq, buffers, sent, handed>>

\* SET_INTERFACE(1) while the link is up: the transfers are dropped all the
\* same, and the bridge does not see it.
LinkReselected ==
    /\ left = 0
    /\ up
    /\ wire' = <<>>
    /\ busy' = FALSE
    /\ UNCHANGED <<host, guest, link, left, up, filter, running, txq, buffers, epoch, sent,
                   handed>>

SetPacketFilter ==
    /\ left = 0
    /\ filter' \in Filters
    /\ UNCHANGED <<serviceVars, up, running, epoch, sent>>
-----------------------------------------------------------------------------
BridgeNext ==
    \/ BeginService \/ Round \/ TransferComplete
    \/ \E kind \in HostKinds : HostSends(kind)
    \/ \E kind \in GuestKinds : GuestSends(kind)
    \/ GuestOffers \/ GuestRestarts \/ LinkChanges \/ LinkReselected \/ SetPacketFilter

\* The USB is polled, which finds its transfers complete between services.
BridgeSpec ==
    /\ BridgeInit /\ [][BridgeNext]_vars
    /\ WF_vars(BeginService) /\ WF_vars(Round) /\ SF_vars(TransferComplete)
-----------------------------------------------------------------------------
Numbers(frames) == [i \in DOMAIN frames |-> frames[i].n]
GuestFrames(frames) == Numbers(Accepted(From("guest", frames)))

\* In the order sent, and none that was received before.
InOrder(port, frames) ==
    LET numbers == <<last[port]>> \o Numbers(From(port, frames))
    IN  \A i, j \in DOMAIN numbers : i < j => numbers[i] < numbers[j]

(***************************************************************************)
(* ORDER. Forwarded frames are received in the order in which they were    *)
(* sent, each at most once, in both directions, also where a host frame    *)
(* may go straight to the guest (net.rs:189-201) and where a batch is only *)
(* partly taken (tegra210.rs:1259-1304). And "Link reset flushes pending   *)
(* bridge packets" (docs/usb-network.md:230): what a service hands to      *)
(* either side was taken by the bridge after the last change of the link.  *)
(***************************************************************************)
OrderIsKept ==
    [][/\ InOrder("host", toGuest' \o guest' \o wire')
       /\ InOrder("guest", toHost' \o host' \o txq')
       /\ \A f \in ToSet(toHost' \o toGuest') : f.epoch = epoch]_handed

(***************************************************************************)
(* BACKPRESSURE, NOT LOSS.  While the link is up, a service takes from the *)
(* guest only what it can keep: "Guest TX is backpressured only when host  *)
(* egress fills" (docs/usb-network.md:227).  Frames that the host's filter *)
(* refuses apart, none is lost between the guest's queue and the host.     *)
(***************************************************************************)
GuestFramesAreKept ==
    [][left' < left /\ up =>
        GuestFrames(toHost' \o host' \o txq') = GuestFrames(host \o txq)]_vars

(***************************************************************************)
(* A STALLED SIDE STALLS NOBODY. Without any receive buffer from the guest *)
(* its transmit queue is emptied, and so are the host's buffers, whatever  *)
(* the rings hold (net.rs:135-141).                                        *)
(***************************************************************************)
NeitherStarves == (txq # <<>> ~> txq = <<>>) /\ (wire # <<>> ~> wire = <<>>)
=============================================================================
