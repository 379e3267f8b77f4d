------------------------------ MODULE Virtqueue ------------------------------
(***************************************************************************)
(* What a driver relies on from the split queues of a virtio device: the   *)
(* buffers that it offers come back once each and in the order in which    *)
(* they were offered.  A reset takes everything back.  The module          *)
(* VirtioNet is shown to implement this.                                   *)
(***************************************************************************)
EXTENDS Sequences

CONSTANTS Queues, Buffers

VARIABLES
    offered,        \* per queue: buffers that the device has not used
    completed       \* per queue: used buffers that the driver has not taken back

queueVars == <<offered, completed>>

QueueInit ==
    /\ offered = [q \in Queues |-> <<>>]
    /\ completed = [q \in Queues |-> <<>>]

Offer(q, b) ==
    /\ offered' = [offered EXCEPT ![q] = Append(@, b)]
    /\ UNCHANGED completed

Complete(q) ==
    /\ offered[q] # <<>>
    /\ offered' = [offered EXCEPT ![q] = Tail(@)]
    /\ completed' = [completed EXCEPT ![q] = Append(@, Head(offered[q]))]

TakeBack(q) ==
    /\ completed[q] # <<>>
    /\ completed' = [completed EXCEPT ![q] = Tail(@)]
    /\ UNCHANGED offered

Reset ==
    /\ offered' = [q \in Queues |-> <<>>]
    /\ completed' = [q \in Queues |-> <<>>]

QueueNext ==
    \/ \E q \in Queues : (\E b \in Buffers : Offer(q, b)) \/ Complete(q) \/ TakeBack(q)
    \/ Reset

QueueSpec == QueueInit /\ [][QueueNext]_queueVars
=============================================================================
