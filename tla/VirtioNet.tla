------------------------------ MODULE VirtioNet ------------------------------
(***************************************************************************)
(* The virtio-net device (vdev/virtio_net.rs), its registers as trapped by *)
(* vm/network.rs and a driver in the guest.                                *)
(*                                                                         *)
(* A service of the device and an access to a register exclude each other  *)
(* (the NETWORK lock, `pc`); guest memory is shared, so one step of a      *)
(* service reads or writes one word of it.  Device and driver use barriers *)
(* between these accesses.  A chain of descriptors is its head, of which   *)
(* the module keeps whether the checks of `next` and its callers accept    *)
(* it; frames, the statistics and the configuration generation are left    *)
(* out.  The addresses and the size of a queue are one Boolean: whether    *)
(* Queue::valid accepts them.                                              *)
(***************************************************************************)
EXTENDS Integers, Sequences

CONSTANTS
    Queues,             \* receive and transmit
    Num,                \* the size of a queue
    Word16,             \* 2^16
    StatusValues,       \* what drivers write to Status, as sets of bits
    FeatureValues,      \* what drivers accept, as sets of features
    GuestsMisbehave     \* may a guest offer garbage?

StatusBits == {"ACKNOWLEDGE", "DRIVER", "DRIVER_OK", "FEATURES_OK", "NEEDS_RESET", "FAILED"}
FEATURES == {"MAC", "STATUS", "VERSION_1"}

ASSUME VirtioAssumption ==
    /\ "none" \notin Queues
    /\ Num \in Nat \ {0}
    /\ Word16 \in Nat /\ Word16 > Num /\ Word16 % Num = 0
    /\ StatusValues \subseteq (SUBSET StatusBits) \ {{}}
    /\ \A f \in FeatureValues : f \subseteq FEATURES \cup {"other"}
    /\ GuestsMisbehave \in BOOLEAN

Buffers == 0 .. Num - 1
Index == 0 .. Word16 - 1

VARIABLES
    \* struct Net and its Queues
    status, driver_features, interrupt, link,
    valid, ready, poll_pending, next_avail, next_used,
    \* a service in progress: where it is, its queue, avail.idx and chain.head
    pc, queue, available, head,
    pending,            \* PENDING: the line to the interrupt controller
    \* the queues in guest memory
    avail_idx, avail_ring, no_interrupt, used_idx, used_ring,
    malformed,          \* heads of chains that fail a check
    \* the driver: how far it has read used, the buffers that it holds, and
    \* where it is in offering, in taking back and in its interrupt handler
    last_used, free, offering, taking, irq, irq_status

deviceVars == <<status, driver_features, interrupt, link, valid, ready, poll_pending,
                next_avail, next_used>>
serviceVars == <<pc, queue, available, head>>
memoryVars == <<avail_idx, avail_ring, no_interrupt, used_idx, used_ring, malformed>>
driverVars == <<last_used, free, offering, taking, irq, irq_status>>
vars == <<deviceVars, serviceVars, pending, memoryVars, driverVars>>

PerQueue(value) == [q \in Queues |-> value]
Plus(i, n) == (i + n) % Word16
wrapping_sub(i, j) == (i - j) % Word16

NetInit ==
    /\ status = {} /\ driver_features = {} /\ interrupt = {} /\ link = FALSE
    /\ valid = PerQueue(FALSE) /\ ready = PerQueue(FALSE) /\ poll_pending = PerQueue(FALSE)
    /\ next_avail = PerQueue(0) /\ next_used = PerQueue(0)
    /\ pc = "free" /\ queue = "none" /\ available = 0 /\ head = 0
    /\ pending = FALSE
    /\ avail_idx = PerQueue(0) /\ avail_ring = PerQueue([n \in Buffers |-> 0])
    /\ no_interrupt = PerQueue(FALSE)
    /\ used_idx = PerQueue(0) /\ used_ring = PerQueue([n \in Buffers |-> 0])
    /\ malformed = PerQueue({})
    /\ last_used = PerQueue(0) /\ free = PerQueue(Buffers)
    /\ offering = PerQueue("idle") /\ taking = PerQueue("sleep")
    /\ irq = "idle" /\ irq_status = {}
-----------------------------------------------------------------------------
(***************************************************************************)
(* The device.                                                             *)
(***************************************************************************)
Running(s) ==
    s \cap {"DRIVER_OK", "FEATURES_OK", "NEEDS_RESET", "FAILED"} = {"DRIVER_OK", "FEATURES_OK"}

running == Running(status)

broken ==
    /\ status' = status \cup {"NEEDS_RESET"}
    /\ interrupt' = interrupt \cup {"config"}

\* transmit or receive returns.
Return == pc' = "service" /\ queue' = "none" /\ available' = 0 /\ head' = 0

\* Network::service begins: set_link.
BeginService(up) ==
    /\ pc = "free"
    /\ pc' = "service"
    /\ link' = up
    /\ interrupt' = IF link # up /\ running /\ "STATUS" \in driver_features
                    THEN interrupt \cup {"config"} ELSE interrupt
    /\ UNCHANGED <<status, driver_features, valid, ready, poll_pending, next_avail, next_used>>
    /\ UNCHANGED <<queue, available, head, pending, memoryVars, driverVars>>

\* transmit or receive, with room for a frame or a frame at hand: `next`
\* reads avail.idx.
ReadAvailable(q) ==
    /\ pc = "service"
    /\ running
    /\ ready[q] /\ poll_pending[q]
    /\ IF ~valid[q]
       THEN broken /\ Return
       ELSE /\ pc' = "count"
            /\ queue' = q
            /\ available' = avail_idx[q]
            /\ UNCHANGED <<status, interrupt, head>>
    /\ UNCHANGED <<driver_features, link, valid, ready, poll_pending, next_avail, next_used>>
    /\ UNCHANGED <<pending, memoryVars, driverVars>>

\* Mutant: a queue is forgotten once it has been looked at.
CheckCountForgets ==
    LET count == wrapping_sub(available, next_avail[queue]) IN
    /\ pc = "count"
    /\ IF count \in 1 .. Num THEN pc' = "head" /\ UNCHANGED <<queue, available, head>> ELSE Return
    /\ IF count > Num THEN broken ELSE UNCHANGED <<status, interrupt>>
    /\ poll_pending' = [poll_pending EXCEPT ![queue] = FALSE]
    /\ UNCHANGED <<driver_features, link, valid, ready, next_avail, next_used>>
    /\ UNCHANGED <<pending, memoryVars, driverVars>>

CheckCount ==
    LET count == wrapping_sub(available, next_avail[queue]) IN
    /\ pc = "count"
    /\ IF count \in 1 .. Num THEN pc' = "head" /\ UNCHANGED <<queue, available, head>> ELSE Return
    /\ IF count > Num THEN broken ELSE UNCHANGED <<status, interrupt>>
    /\ poll_pending' = [poll_pending EXCEPT ![queue] = @ /\ count # 0]
    /\ UNCHANGED <<driver_features, link, valid, ready, next_avail, next_used>>
    /\ UNCHANGED <<pending, memoryVars, driverVars>>

\* Mutant: the newest chain instead of the next one.
ReadChainNewest ==
    /\ pc = "head"
    /\ pc' = "entry"
    /\ head' = avail_ring[queue][(available - 1) % Num]
    /\ UNCHANGED <<deviceVars, queue, available, pending, memoryVars, driverVars>>

\* The chain is read and checked, and the frame copied.
ReadChain ==
    LET h == avail_ring[queue][next_avail[queue] % Num] IN
    /\ pc = "head"
    /\ IF h \in malformed[queue]
       THEN broken /\ Return
       ELSE /\ pc' = "entry"
            /\ head' = h
            /\ UNCHANGED <<status, interrupt, queue, available>>
    /\ UNCHANGED <<driver_features, link, valid, ready, poll_pending, next_avail, next_used>>
    /\ UNCHANGED <<pending, memoryVars, driverVars>>

\* `finish`.
WriteUsedEntry ==
    /\ pc = "entry"
    /\ used_ring' = [used_ring EXCEPT ![queue][next_used[queue] % Num] = head]
    /\ pc' = "index"
    /\ UNCHANGED <<deviceVars, queue, available, head, pending>>
    /\ UNCHANGED <<avail_idx, avail_ring, no_interrupt, used_idx, malformed, driverVars>>

WriteUsedIndex ==
    /\ pc = "index"
    /\ next_used' = [next_used EXCEPT ![queue] = Plus(@, 1)]
    /\ used_idx' = [used_idx EXCEPT ![queue] = Plus(next_used[queue], 1)]
    /\ next_avail' = [next_avail EXCEPT ![queue] = Plus(@, 1)]
    /\ pc' = "flags"
    /\ UNCHANGED <<status, driver_features, interrupt, link, valid, ready, poll_pending>>
    /\ UNCHANGED <<queue, available, head, pending>>
    /\ UNCHANGED <<avail_idx, avail_ring, no_interrupt, used_ring, malformed, driverVars>>

ReadFlags ==
    /\ pc = "flags"
    /\ interrupt' = IF no_interrupt[queue] THEN interrupt ELSE interrupt \cup {"used"}
    /\ Return
    /\ UNCHANGED <<status, driver_features, link, valid, ready, poll_pending, next_avail, next_used>>
    /\ UNCHANGED <<pending, memoryVars, driverVars>>

\* Mutant: the line is stored by register accesses only.
EndServiceSilent ==
    /\ pc = "service"
    /\ pc' = "free"
    /\ UNCHANGED <<deviceVars, queue, available, head, pending, memoryVars, driverVars>>

\* service of vm/network.rs stores the line and leaves the lock.
EndService ==
    /\ pc = "service"
    /\ pc' = "free"
    /\ pending' = (interrupt # {})
    /\ UNCHANGED <<deviceVars, queue, available, head, memoryVars, driverVars>>
-----------------------------------------------------------------------------
(***************************************************************************)
(* Registers: `write` inside `emulate`, which stores the line as well.     *)
(***************************************************************************)
Access(causes) ==
    /\ pc = "free"
    /\ interrupt' = causes
    /\ pending' = (causes # {})
    /\ UNCHANGED serviceVars

WriteDriverFeatures(f) ==
    /\ Access(interrupt)
    /\ "FEATURES_OK" \notin status
    /\ driver_features' = f
    /\ UNCHANGED <<status, link, valid, ready, poll_pending, next_avail, next_used>>
    /\ UNCHANGED <<memoryVars, driverVars>>

Acceptable(f) == f \subseteq FEATURES /\ "VERSION_1" \in f

\* Mutant: the driver can clear NEEDS_RESET.
NextStatusCleared(value) ==
    LET features == IF Acceptable(driver_features) THEN value ELSE value \ {"FEATURES_OK"}
    IN  IF {"FEATURES_OK", "ACKNOWLEDGE", "DRIVER"} \subseteq features
        THEN features ELSE features \ {"DRIVER_OK"}

\* What a nonzero value written to Status leaves in it.
NextStatus(value) ==
    LET kept == value \cup (status \cap {"NEEDS_RESET"})
        features == IF Acceptable(driver_features) THEN kept ELSE kept \ {"FEATURES_OK"}
    IN  IF {"FEATURES_OK", "ACKNOWLEDGE", "DRIVER"} \subseteq features
        THEN features ELSE features \ {"DRIVER_OK"}

WriteStatus(value) ==
    /\ Access(interrupt)
    /\ status' = NextStatus(value)
    /\ poll_pending' = IF ~running /\ Running(status') THEN ready ELSE poll_pending
    /\ UNCHANGED <<driver_features, link, valid, ready, next_avail, next_used>>
    /\ UNCHANGED <<memoryVars, driverVars>>

\* Zero written to Status; the driver clears its queues.
ResetDevice ==
    /\ Access({})
    /\ status' = {} /\ driver_features' = {}
    /\ valid' = PerQueue(FALSE) /\ ready' = PerQueue(FALSE) /\ poll_pending' = PerQueue(FALSE)
    /\ next_avail' = PerQueue(0) /\ next_used' = PerQueue(0)
    /\ avail_idx' = PerQueue(0) /\ used_idx' = PerQueue(0)
    /\ no_interrupt' = PerQueue(FALSE) /\ malformed' = PerQueue({})
    /\ last_used' = PerQueue(0) /\ free' = PerQueue(Buffers)
    /\ offering' = PerQueue("idle") /\ taking' = PerQueue("sleep")
    /\ irq' = "idle" /\ irq_status' = {}
    /\ UNCHANGED <<link, avail_ring, used_ring>>

\* QueueNum and the addresses are taken only while the queue is not ready.
WriteQueue(q, good) ==
    /\ Access(interrupt)
    /\ ~ready[q]
    /\ valid' = [valid EXCEPT ![q] = good]
    /\ UNCHANGED <<status, driver_features, link, ready, poll_pending, next_avail, next_used>>
    /\ UNCHANGED <<memoryVars, driverVars>>

\* Mutant: the queue is not looked at when it becomes ready.
WriteQueueReadyUnpolled(q, on) ==
    /\ Access(interrupt)
    /\ ready' = [ready EXCEPT ![q] = on]
    /\ poll_pending' = [poll_pending EXCEPT ![q] = @ /\ on]
    /\ UNCHANGED <<status, driver_features, link, valid, next_avail, next_used>>
    /\ UNCHANGED <<memoryVars, driverVars>>

WriteQueueReady(q, on) ==
    /\ Access(interrupt)
    /\ ready' = [ready EXCEPT ![q] = on]
    /\ poll_pending' = [poll_pending EXCEPT ![q] = on]
    /\ UNCHANGED <<status, driver_features, link, valid, next_avail, next_used>>
    /\ UNCHANGED <<memoryVars, driverVars>>

\* Mutant: a notification does not revive the queue.
QueueNotifyIgnored(q) ==
    /\ Access(interrupt)
    /\ offering[q] = "notify"
    /\ offering' = [offering EXCEPT ![q] = "idle"]
    /\ UNCHANGED <<status, driver_features, link, valid, ready, poll_pending, next_avail, next_used>>
    /\ UNCHANGED <<memoryVars, last_used, free, taking, irq, irq_status>>

QueueNotify(q) ==
    /\ Access(interrupt)
    /\ offering[q] = "notify"
    /\ offering' = [offering EXCEPT ![q] = "idle"]
    /\ poll_pending' = [poll_pending EXCEPT ![q] = ready[q]]
    /\ UNCHANGED <<status, driver_features, link, valid, ready, next_avail, next_used>>
    /\ UNCHANGED <<memoryVars, last_used, free, taking, irq, irq_status>>

InterruptAck ==
    /\ irq = "ack"
    /\ Access(interrupt \ irq_status)
    /\ irq' = "scan"
    /\ UNCHANGED <<status, driver_features, link, valid, ready, poll_pending, next_avail, next_used>>
    /\ UNCHANGED <<memoryVars, last_used, free, offering, taking, irq_status>>
-----------------------------------------------------------------------------
(***************************************************************************)
(* The driver.                                                             *)
(***************************************************************************)
\* A buffer enters avail.ring; several may be offered before one notification.
OfferBuffer(q, b) ==
    /\ valid[q]
    /\ offering[q] \in {"idle", "notify"}
    /\ b \in free[q]
    /\ free' = [free EXCEPT ![q] = @ \ {b}]
    /\ avail_ring' = [avail_ring EXCEPT ![q][avail_idx[q] % Num] = b]
    /\ \/ malformed' = [malformed EXCEPT ![q] = @ \ {b}]
       \/ GuestsMisbehave /\ malformed' = [malformed EXCEPT ![q] = @ \cup {b}]
    /\ offering' = [offering EXCEPT ![q] = "publish"]
    /\ UNCHANGED <<deviceVars, serviceVars, pending, avail_idx, no_interrupt, used_idx, used_ring>>
    /\ UNCHANGED <<last_used, taking, irq, irq_status>>

\* avail.idx; a guest that misbehaves may jump.
PublishBuffer(q) ==
    /\ offering[q] = "publish"
    /\ \/ avail_idx' = [avail_idx EXCEPT ![q] = Plus(@, 1)]
       \/ GuestsMisbehave /\ avail_idx' = [avail_idx EXCEPT ![q] = Plus(@, Num + 1)]
    /\ offering' = [offering EXCEPT ![q] = "notify"]
    /\ UNCHANGED <<deviceVars, serviceVars, pending, avail_ring, no_interrupt, used_idx, used_ring>>
    /\ UNCHANGED <<malformed, last_used, free, taking, irq, irq_status>>

\* The handler reads InterruptStatus (a register), acknowledges what it has
\* read, and wakes the queues that have something.
TakeInterrupt ==
    /\ Access(interrupt)
    /\ pending
    /\ irq = "idle"
    /\ irq' = "ack"
    /\ irq_status' = interrupt
    /\ UNCHANGED <<status, driver_features, link, valid, ready, poll_pending, next_avail, next_used>>
    /\ UNCHANGED <<memoryVars, last_used, free, offering, taking>>

More(q) == used_idx[q] # last_used[q]

ScanQueues ==
    LET woken == {q \in Queues : taking[q] = "sleep" /\ More(q)} IN
    /\ irq = "scan"
    /\ irq' = "idle"
    /\ taking' = [q \in Queues |-> IF q \in woken THEN "poll" ELSE taking[q]]
    /\ no_interrupt' = [q \in Queues |-> q \in woken \/ no_interrupt[q]]
    /\ UNCHANGED <<deviceVars, serviceVars, pending, avail_idx, avail_ring, used_idx, used_ring>>
    /\ UNCHANGED <<malformed, last_used, free, offering, irq_status>>

TakeBuffer(q) ==
    /\ taking[q] = "poll"
    /\ More(q)
    /\ free' = [free EXCEPT ![q] = @ \cup {used_ring[q][last_used[q] % Num]}]
    /\ last_used' = [last_used EXCEPT ![q] = Plus(@, 1)]
    /\ UNCHANGED <<deviceVars, serviceVars, pending, memoryVars, offering, taking, irq, irq_status>>

\* With nothing left, interrupts are allowed again and used.idx is looked at
\* once more.
AllowInterrupts(q) ==
    /\ taking[q] = "poll"
    /\ ~More(q)
    /\ taking' = [taking EXCEPT ![q] = "recheck"]
    /\ no_interrupt' = [no_interrupt EXCEPT ![q] = FALSE]
    /\ UNCHANGED <<deviceVars, serviceVars, pending, avail_idx, avail_ring, used_idx, used_ring>>
    /\ UNCHANGED <<malformed, last_used, free, offering, irq, irq_status>>

Recheck(q) ==
    /\ taking[q] = "recheck"
    /\ taking' = [taking EXCEPT ![q] = IF More(q) THEN "poll" ELSE "sleep"]
    /\ no_interrupt' = [no_interrupt EXCEPT ![q] = More(q)]
    /\ UNCHANGED <<deviceVars, serviceVars, pending, avail_idx, avail_ring, used_idx, used_ring>>
    /\ UNCHANGED <<malformed, last_used, free, offering, irq, irq_status>>
-----------------------------------------------------------------------------
Transaction ==
    CheckCount \/ ReadChain \/ WriteUsedEntry \/ WriteUsedIndex \/ ReadFlags

Configure ==
    \/ \E f \in FeatureValues : WriteDriverFeatures(f)
    \/ \E v \in StatusValues : WriteStatus(v)
    \/ ResetDevice
    \/ \E q \in Queues :
          \/ \E good \in BOOLEAN : (good \/ GuestsMisbehave) /\ WriteQueue(q, good)
          \/ \E on \in BOOLEAN : WriteQueueReady(q, on)

Offering(q) ==
    (\E b \in Buffers : OfferBuffer(q, b)) \/ PublishBuffer(q) \/ QueueNotify(q)

Taking(q) == TakeBuffer(q) \/ AllowInterrupts(q) \/ Recheck(q)

Handler == TakeInterrupt \/ InterruptAck \/ ScanQueues

NetNext ==
    \/ \E up \in BOOLEAN : BeginService(up)
    \/ \E q \in Queues : ReadAvailable(q)
    \/ Transaction
    \/ EndService
    \/ Configure
    \/ \E q \in Queues : Offering(q) \/ Taking(q)
    \/ Handler

NetSpec == NetInit /\ [][NetNext]_vars

(***************************************************************************)
(* Services come again and again (with a USB controller, service polls on  *)
(* guest exits and on its interrupt, and a kick brings one), each of them  *)
(* ends (its rounds are bounded), and one after another finds room in the  *)
(* host's ring or a frame for the guest.  The driver finishes what it has  *)
(* begun; its register accesses get the lock.                              *)
(***************************************************************************)
NetFairSpec ==
    /\ NetSpec
    /\ WF_vars(\E up \in BOOLEAN : BeginService(up))
    /\ \A q \in Queues : SF_vars(ReadAvailable(q))
    /\ WF_vars(Transaction)
    /\ SF_vars(EndService)
    /\ \A q \in Queues :
          WF_vars(PublishBuffer(q)) /\ SF_vars(QueueNotify(q)) /\ WF_vars(Taking(q))
    /\ SF_vars(TakeInterrupt) /\ SF_vars(InterruptAck) /\ WF_vars(ScanQueues)
-----------------------------------------------------------------------------
DeviceTypeOK ==
    /\ status \subseteq StatusBits
    /\ driver_features \in FeatureValues \cup {{}}
    /\ interrupt \subseteq {"used", "config"}
    /\ link \in BOOLEAN
    /\ pending \in BOOLEAN
    /\ valid \in [Queues -> BOOLEAN]
    /\ ready \in [Queues -> BOOLEAN]
    /\ poll_pending \in [Queues -> BOOLEAN]
    /\ next_avail \in [Queues -> Index]
    /\ next_used \in [Queues -> Index]

ServiceTypeOK ==
    /\ pc \in {"free", "service", "count", "head", "entry", "index", "flags"}
    /\ queue \in Queues \cup {"none"}
    /\ available \in Index
    /\ head \in Buffers

MemoryTypeOK ==
    /\ avail_idx \in [Queues -> Index]
    /\ avail_ring \in [Queues -> [Buffers -> Buffers]]
    /\ no_interrupt \in [Queues -> BOOLEAN]
    /\ used_idx \in [Queues -> Index]
    /\ used_ring \in [Queues -> [Buffers -> Buffers]]
    /\ malformed \in [Queues -> SUBSET Buffers]

DriverTypeOK ==
    /\ last_used \in [Queues -> Index]
    /\ free \in [Queues -> SUBSET Buffers]
    /\ offering \in [Queues -> {"idle", "publish", "notify"}]
    /\ taking \in [Queues -> {"sleep", "poll", "recheck"}]
    /\ irq \in {"idle", "ack", "scan"}
    /\ irq_status \subseteq {"used", "config"}

NetTypeOK == DeviceTypeOK /\ ServiceTypeOK /\ MemoryTypeOK /\ DriverTypeOK

\* What a service knows of the queue it is working on: the queue is not
\* forgotten, and avail.idx has moved only if a notification is due.
ServiceKnows ==
    /\ pc \in {"free", "service"} => queue = "none"
    /\ pc \notin {"free", "service"} => queue \in Queues /\ poll_pending[queue]
    /\ pc = "count" => available = avail_idx[queue] \/ offering[queue] = "notify"
                                                  \/ offering[queue] = "publish"

\* A ready queue with work is polled, or a notification is due.
WorkIsKnown ==
    \A q \in Queues :
        ready[q] => \/ poll_pending[q]
                    \/ avail_idx[q] = next_avail[q]
                    \/ offering[q] # "idle"

\* A sleeping driver has been or will be interrupted for used buffers.
SleepIsSafe ==
    /\ pc = "free" => (pending <=> interrupt # {})
    /\ \A q \in Queues : taking[q] = "sleep" =>
          /\ ~no_interrupt[q]
          /\ More(q) => irq # "idle" \/ "used" \in interrupt \/ (pc = "flags" /\ queue = q)

(***************************************************************************)
(* THE INDUCTIVE INVARIANT behind the two properties that follow.          *)
(***************************************************************************)
NetInvariant ==
    /\ NetTypeOK
    /\ ServiceKnows
    /\ WorkIsKnown
    /\ SleepIsSafe
    /\ "FEATURES_OK" \in status => Acceptable(driver_features)

\* The ring entries from index i up to index j.
Window(ring, i, j) == [k \in 1 .. wrapping_sub(j, i) |-> ring[(i + k - 1) % Num]]

Offered(q) == Window(avail_ring[q], used_idx[q], avail_idx[q])
Completed(q) == Window(used_ring[q], last_used[q], used_idx[q])

(***************************************************************************)
(* NO KICK IS LOST.  next() forgets a queue when it finds nothing in it    *)
(* and waits for QueueNotify (virtio_net.rs:84-91).  A buffer that was     *)
(* published and announced is never left with the queue forgotten.         *)
(***************************************************************************)
KickNotLost ==
    \A q \in Queues :
        /\ running /\ ready[q]
        /\ pc = "free" /\ offering[q] = "idle"
        => avail_idx[q] = next_avail[q] \/ poll_pending[q]

(***************************************************************************)
(* NO INTERRUPT IS LOST.  finish() publishes used.idx before it reads the  *)
(* driver's wish for interrupts, and the line follows at the end of the    *)
(* service: a driver never sleeps on buffers that have come back.          *)
(***************************************************************************)
InterruptNotLost ==
    \A q \in Queues :
        taking[q] = "sleep" /\ pc = "free" /\ irq = "idle" => ~More(q) \/ pending

(***************************************************************************)
(* EVERY BUFFER COMES BACK to the driver, as long as the device runs and   *)
(* the queue is ready: a queue that was forgotten is remembered by one     *)
(* kick, also when the buffer is published in the middle of a service.     *)
(***************************************************************************)
BufferReturns ==
    \A q \in Queues, b \in Buffers :
        b \notin free[q] /\ running /\ ready[q] ~> b \in free[q] \/ ~(running /\ ready[q])

(***************************************************************************)
(* BROKEN UNTIL RESET.  After a malformed chain or an impossible index the *)
(* device completes nothing until the driver resets it, whatever it writes *)
(* to Status.                                                              *)
(***************************************************************************)
BrokenUntilReset ==
    [][ "NEEDS_RESET" \in status =>
            \/ status' = {}
            \/ "NEEDS_RESET" \in status' /\ UNCHANGED <<used_idx, used_ring>> ]_vars

(***************************************************************************)
(* A RUNNING DEVICE IS NEGOTIATED: the features of a running device are    *)
(* some it offered, with VERSION_1, in whatever order the driver writes.   *)
(***************************************************************************)
RunningIsNegotiated == running => Acceptable(driver_features)

(***************************************************************************)
(* BUFFERS COME BACK ONCE AND IN ORDER (module Virtqueue): the indices     *)
(* wrap, the rings are reused, and the device never looks at more than the *)
(* driver has published.                                                   *)
(***************************************************************************)
Abstract == INSTANCE Virtqueue WITH
    offered <- [q \in Queues |-> Offered(q)],
    completed <- [q \in Queues |-> Completed(q)]

ImplementsVirtqueue == Abstract!QueueSpec
=============================================================================
