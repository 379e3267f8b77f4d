--------------------------- MODULE VirtioNetProofs ---------------------------
(***************************************************************************)
(* NetInvariant, and with it KickNotLost and InterruptNotLost, for all     *)
(* queue sizes, index widths and guests, whether they misbehave or not;    *)
(* and for guests that do not, that the queues in shared memory implement  *)
(* those of module Virtqueue.                                              *)
(***************************************************************************)
EXTENDS VirtioNet, FiniteSetTheorems, SequenceTheorems, TLAPS

\* Indices and ring slots stay in range.
LEMMA Ranges ==
    /\ 0 \in Index /\ 0 \in Buffers
    /\ \A i \in Index : Plus(i, 1) \in Index /\ Plus(i, Num + 1) \in Index
    /\ \A i \in Index : i % Num \in Buffers
    /\ "none" \notin Queues
  BY VirtioAssumption DEF Plus, Index, Buffers

\* Two indices are equal when their difference is zero.
LEMMA NoDifference ==
    ASSUME NEW i \in Index, NEW j \in Index, wrapping_sub(i, j) = 0
    PROVE  i = j
  BY VirtioAssumption DEF wrapping_sub, Index

\* broken() keeps the types of what it changes.
LEMMA BrokenTypes ==
    ASSUME DeviceTypeOK, broken \/ UNCHANGED <<status, interrupt>>
    PROVE  status' \subseteq StatusBits /\ interrupt' \subseteq {"used", "config"}
  BY DEF DeviceTypeOK, broken, StatusBits

\* The types of the device's variables.
LEMMA DeviceTypeStep ==
    ASSUME NetInvariant, [NetNext]_vars
    PROVE  DeviceTypeOK'
<1>1. CASE \E up \in BOOLEAN : BeginService(up)
  BY <1>1, Ranges, VirtioAssumption DEF NetInvariant, NetTypeOK, DeviceTypeOK,
     ServiceTypeOK, StatusBits, BeginService, deviceVars, serviceVars, memoryVars,
     driverVars
<1>2. CASE \E q \in Queues : ReadAvailable(q)
  <2>1. status' \subseteq StatusBits /\ interrupt' \subseteq {"used", "config"}
    BY <1>2, BrokenTypes DEF NetInvariant, NetTypeOK, ReadAvailable
  <2> QED BY <1>2, <2>1 DEF NetInvariant, NetTypeOK, DeviceTypeOK, ReadAvailable
<1>3. CASE CheckCount
  <2>1. status' \subseteq StatusBits /\ interrupt' \subseteq {"used", "config"}
    BY <1>3, BrokenTypes DEF NetInvariant, NetTypeOK, CheckCount
  <2>2. poll_pending' \in [Queues -> BOOLEAN]
    BY <1>3, Zenon DEF NetInvariant, NetTypeOK, DeviceTypeOK, CheckCount
  <2> QED BY <1>3, <2>1, <2>2 DEF NetInvariant, NetTypeOK, DeviceTypeOK, CheckCount
<1>4. CASE ReadChain
  <2>1. status' \subseteq StatusBits /\ interrupt' \subseteq {"used", "config"}
    BY <1>4, BrokenTypes DEF NetInvariant, NetTypeOK, ReadChain
  <2> QED BY <1>4, <2>1 DEF NetInvariant, NetTypeOK, DeviceTypeOK, ReadChain
<1>5. CASE WriteUsedEntry
  BY <1>5, Ranges, VirtioAssumption DEF NetInvariant, NetTypeOK, DeviceTypeOK,
     ServiceTypeOK, StatusBits, WriteUsedEntry, deviceVars, serviceVars, memoryVars,
     driverVars
<1>6. CASE WriteUsedIndex
  BY <1>6, Ranges, VirtioAssumption DEF NetInvariant, NetTypeOK, DeviceTypeOK,
     ServiceTypeOK, StatusBits, WriteUsedIndex, deviceVars, serviceVars, memoryVars,
     driverVars
<1>7. CASE ReadFlags
  BY <1>7, Ranges, VirtioAssumption DEF NetInvariant, NetTypeOK, DeviceTypeOK,
     ServiceTypeOK, StatusBits, ReadFlags, Return, deviceVars, serviceVars, memoryVars,
     driverVars
<1>8. CASE EndService
  BY <1>8, Ranges, VirtioAssumption DEF NetInvariant, NetTypeOK, DeviceTypeOK,
     ServiceTypeOK, StatusBits, EndService, deviceVars, serviceVars, memoryVars,
     driverVars
<1>9. CASE \E f \in FeatureValues : WriteDriverFeatures(f)
  BY <1>9, Ranges, VirtioAssumption DEF NetInvariant, NetTypeOK, DeviceTypeOK,
     ServiceTypeOK, StatusBits, WriteDriverFeatures, Access, deviceVars, serviceVars,
     memoryVars, driverVars
<1>10. CASE \E v \in StatusValues : WriteStatus(v)
  BY <1>10, Ranges, VirtioAssumption DEF NetInvariant, NetTypeOK, DeviceTypeOK,
     ServiceTypeOK, StatusBits, WriteStatus, NextStatus, Access, deviceVars, serviceVars,
     memoryVars, driverVars
<1>11. CASE ResetDevice
  BY <1>11, Ranges, VirtioAssumption DEF NetInvariant, NetTypeOK, DeviceTypeOK,
     ServiceTypeOK, StatusBits, ResetDevice, Access, PerQueue, deviceVars, serviceVars,
     memoryVars, driverVars
<1>12. CASE \E q \in Queues, good \in BOOLEAN : WriteQueue(q, good)
  BY <1>12, Ranges, VirtioAssumption DEF NetInvariant, NetTypeOK, DeviceTypeOK,
     ServiceTypeOK, StatusBits, WriteQueue, Access, deviceVars, serviceVars, memoryVars,
     driverVars
<1>13. CASE \E q \in Queues, on \in BOOLEAN : WriteQueueReady(q, on)
  BY <1>13, Ranges, VirtioAssumption DEF NetInvariant, NetTypeOK, DeviceTypeOK,
     ServiceTypeOK, StatusBits, WriteQueueReady, Access, deviceVars, serviceVars,
     memoryVars, driverVars
<1>14. CASE \E q \in Queues, b \in Buffers : OfferBuffer(q, b)
  BY <1>14, Ranges, VirtioAssumption DEF NetInvariant, NetTypeOK, DeviceTypeOK,
     ServiceTypeOK, StatusBits, OfferBuffer, deviceVars, serviceVars, memoryVars,
     driverVars
<1>15. CASE \E q \in Queues : PublishBuffer(q)
  BY <1>15, Ranges, VirtioAssumption DEF NetInvariant, NetTypeOK, DeviceTypeOK,
     ServiceTypeOK, StatusBits, PublishBuffer, deviceVars, serviceVars, memoryVars,
     driverVars
<1>16. CASE \E q \in Queues : QueueNotify(q)
  BY <1>16, Ranges, VirtioAssumption DEF NetInvariant, NetTypeOK, DeviceTypeOK,
     ServiceTypeOK, StatusBits, QueueNotify, Access, deviceVars, serviceVars, memoryVars,
     driverVars
<1>17. CASE \E q \in Queues : TakeBuffer(q)
  BY <1>17, Ranges, VirtioAssumption DEF NetInvariant, NetTypeOK, DeviceTypeOK,
     ServiceTypeOK, StatusBits, TakeBuffer, deviceVars, serviceVars, memoryVars,
     driverVars
<1>18. CASE \E q \in Queues : AllowInterrupts(q)
  BY <1>18, Ranges, VirtioAssumption DEF NetInvariant, NetTypeOK, DeviceTypeOK,
     ServiceTypeOK, StatusBits, AllowInterrupts, deviceVars, serviceVars, memoryVars,
     driverVars
<1>19. CASE \E q \in Queues : Recheck(q)
  BY <1>19, Ranges, VirtioAssumption DEF NetInvariant, NetTypeOK, DeviceTypeOK,
     ServiceTypeOK, StatusBits, Recheck, deviceVars, serviceVars, memoryVars, driverVars
<1>20. CASE TakeInterrupt
  BY <1>20, Ranges, VirtioAssumption DEF NetInvariant, NetTypeOK, DeviceTypeOK,
     ServiceTypeOK, StatusBits, TakeInterrupt, Access, deviceVars, serviceVars,
     memoryVars, driverVars
<1>21. CASE InterruptAck
  BY <1>21, Ranges, VirtioAssumption DEF NetInvariant, NetTypeOK, DeviceTypeOK,
     ServiceTypeOK, StatusBits, InterruptAck, Access, deviceVars, serviceVars, memoryVars,
     driverVars
<1>22. CASE ScanQueues
  BY <1>22, Ranges, VirtioAssumption DEF NetInvariant, NetTypeOK, DeviceTypeOK,
     ServiceTypeOK, StatusBits, ScanQueues, deviceVars, serviceVars, memoryVars,
     driverVars
<1>23. CASE UNCHANGED vars
  BY <1>23 DEF NetInvariant, NetTypeOK, DeviceTypeOK, ServiceTypeOK, StatusBits, vars,
     deviceVars, serviceVars, memoryVars, driverVars
<1> QED
  BY <1>1, <1>2, <1>3, <1>4, <1>5, <1>6, <1>7, <1>8, <1>9, <1>10, <1>11, <1>12, <1>13,
     <1>14, <1>15, <1>16, <1>17, <1>18, <1>19, <1>20, <1>21, <1>22, <1>23
  DEF NetNext, Transaction, Configure, Offering, Taking, Handler

\* The types of a service's variables.
LEMMA ServiceTypeStep ==
    ASSUME NetInvariant, [NetNext]_vars
    PROVE  ServiceTypeOK'
<1>1. CASE \E up \in BOOLEAN : BeginService(up)
  BY <1>1, Ranges DEF NetInvariant, NetTypeOK, ServiceTypeOK, DeviceTypeOK, MemoryTypeOK,
     BeginService, deviceVars, serviceVars, memoryVars, driverVars
<1>2. CASE \E q \in Queues : ReadAvailable(q)
  BY <1>2, Ranges DEF NetInvariant, NetTypeOK, ServiceTypeOK, DeviceTypeOK, MemoryTypeOK,
     ReadAvailable, Return, broken, deviceVars, serviceVars, memoryVars, driverVars
<1>3. CASE CheckCount
  BY <1>3, Ranges DEF NetInvariant, NetTypeOK, ServiceTypeOK, DeviceTypeOK, MemoryTypeOK,
     CheckCount, Return, broken, deviceVars, serviceVars, memoryVars, driverVars
<1>4. CASE ReadChain
  <2>1. avail_ring[queue][next_avail[queue] % Num] \in Buffers
    BY <1>4, Ranges DEF NetInvariant, NetTypeOK, DeviceTypeOK, MemoryTypeOK, ServiceKnows, ReadChain
  <2> QED BY <1>4, <2>1, Ranges DEF NetInvariant, NetTypeOK, ServiceTypeOK, ReadChain, Return
<1>5. CASE WriteUsedEntry
  BY <1>5, Ranges DEF NetInvariant, NetTypeOK, ServiceTypeOK, DeviceTypeOK, MemoryTypeOK,
     WriteUsedEntry, deviceVars, serviceVars, memoryVars, driverVars
<1>6. CASE WriteUsedIndex
  BY <1>6, Ranges DEF NetInvariant, NetTypeOK, ServiceTypeOK, DeviceTypeOK, MemoryTypeOK,
     WriteUsedIndex, deviceVars, serviceVars, memoryVars, driverVars
<1>7. CASE ReadFlags
  BY <1>7, Ranges DEF NetInvariant, NetTypeOK, ServiceTypeOK, DeviceTypeOK, MemoryTypeOK,
     ReadFlags, Return, deviceVars, serviceVars, memoryVars, driverVars
<1>8. CASE EndService
  BY <1>8, Ranges DEF NetInvariant, NetTypeOK, ServiceTypeOK, DeviceTypeOK, MemoryTypeOK,
     EndService, deviceVars, serviceVars, memoryVars, driverVars
<1>9. CASE \E f \in FeatureValues : WriteDriverFeatures(f)
  BY <1>9, Ranges DEF NetInvariant, NetTypeOK, ServiceTypeOK, DeviceTypeOK, MemoryTypeOK,
     WriteDriverFeatures, Access, deviceVars, serviceVars, memoryVars, driverVars
<1>10. CASE \E v \in StatusValues : WriteStatus(v)
  BY <1>10, Ranges DEF NetInvariant, NetTypeOK, ServiceTypeOK, DeviceTypeOK, MemoryTypeOK,
     WriteStatus, NextStatus, Access, deviceVars, serviceVars, memoryVars, driverVars
<1>11. CASE ResetDevice
  BY <1>11, Ranges DEF NetInvariant, NetTypeOK, ServiceTypeOK, DeviceTypeOK, MemoryTypeOK,
     ResetDevice, Access, PerQueue, deviceVars, serviceVars, memoryVars, driverVars
<1>12. CASE \E q \in Queues, good \in BOOLEAN : WriteQueue(q, good)
  BY <1>12, Ranges DEF NetInvariant, NetTypeOK, ServiceTypeOK, DeviceTypeOK, MemoryTypeOK,
     WriteQueue, Access, deviceVars, serviceVars, memoryVars, driverVars
<1>13. CASE \E q \in Queues, on \in BOOLEAN : WriteQueueReady(q, on)
  BY <1>13, Ranges DEF NetInvariant, NetTypeOK, ServiceTypeOK, DeviceTypeOK, MemoryTypeOK,
     WriteQueueReady, Access, deviceVars, serviceVars, memoryVars, driverVars
<1>14. CASE \E q \in Queues, b \in Buffers : OfferBuffer(q, b)
  BY <1>14, Ranges DEF NetInvariant, NetTypeOK, ServiceTypeOK, DeviceTypeOK, MemoryTypeOK,
     OfferBuffer, deviceVars, serviceVars, memoryVars, driverVars
<1>15. CASE \E q \in Queues : PublishBuffer(q)
  BY <1>15, Ranges DEF NetInvariant, NetTypeOK, ServiceTypeOK, DeviceTypeOK, MemoryTypeOK,
     PublishBuffer, deviceVars, serviceVars, memoryVars, driverVars
<1>16. CASE \E q \in Queues : QueueNotify(q)
  BY <1>16, Ranges DEF NetInvariant, NetTypeOK, ServiceTypeOK, DeviceTypeOK, MemoryTypeOK,
     QueueNotify, Access, deviceVars, serviceVars, memoryVars, driverVars
<1>17. CASE \E q \in Queues : TakeBuffer(q)
  BY <1>17, Ranges DEF NetInvariant, NetTypeOK, ServiceTypeOK, DeviceTypeOK, MemoryTypeOK,
     TakeBuffer, deviceVars, serviceVars, memoryVars, driverVars
<1>18. CASE \E q \in Queues : AllowInterrupts(q)
  BY <1>18, Ranges DEF NetInvariant, NetTypeOK, ServiceTypeOK, DeviceTypeOK, MemoryTypeOK,
     AllowInterrupts, deviceVars, serviceVars, memoryVars, driverVars
<1>19. CASE \E q \in Queues : Recheck(q)
  BY <1>19, Ranges DEF NetInvariant, NetTypeOK, ServiceTypeOK, DeviceTypeOK, MemoryTypeOK,
     Recheck, deviceVars, serviceVars, memoryVars, driverVars
<1>20. CASE TakeInterrupt
  BY <1>20, Ranges DEF NetInvariant, NetTypeOK, ServiceTypeOK, DeviceTypeOK, MemoryTypeOK,
     TakeInterrupt, Access, deviceVars, serviceVars, memoryVars, driverVars
<1>21. CASE InterruptAck
  BY <1>21, Ranges DEF NetInvariant, NetTypeOK, ServiceTypeOK, DeviceTypeOK, MemoryTypeOK,
     InterruptAck, Access, deviceVars, serviceVars, memoryVars, driverVars
<1>22. CASE ScanQueues
  BY <1>22, Ranges DEF NetInvariant, NetTypeOK, ServiceTypeOK, DeviceTypeOK, MemoryTypeOK,
     ScanQueues, deviceVars, serviceVars, memoryVars, driverVars
<1>23. CASE UNCHANGED vars
  BY <1>23 DEF NetInvariant, NetTypeOK, ServiceTypeOK, DeviceTypeOK, MemoryTypeOK, vars,
     deviceVars, serviceVars, memoryVars, driverVars
<1> QED
  BY <1>1, <1>2, <1>3, <1>4, <1>5, <1>6, <1>7, <1>8, <1>9, <1>10, <1>11, <1>12, <1>13,
     <1>14, <1>15, <1>16, <1>17, <1>18, <1>19, <1>20, <1>21, <1>22, <1>23
  DEF NetNext, Transaction, Configure, Offering, Taking, Handler

\* The types of guest memory.
LEMMA MemoryTypeStep ==
    ASSUME NetInvariant, [NetNext]_vars
    PROVE  MemoryTypeOK'
<1>1. CASE \E up \in BOOLEAN : BeginService(up)
  BY <1>1, Ranges DEF NetInvariant, NetTypeOK, MemoryTypeOK, DeviceTypeOK, ServiceTypeOK,
     DriverTypeOK, BeginService, deviceVars, serviceVars, memoryVars, driverVars
<1>2. CASE \E q \in Queues : ReadAvailable(q)
  BY <1>2, Ranges DEF NetInvariant, NetTypeOK, MemoryTypeOK, DeviceTypeOK, ServiceTypeOK,
     DriverTypeOK, ReadAvailable, Return, broken, deviceVars, serviceVars, memoryVars,
     driverVars
<1>3. CASE CheckCount
  BY <1>3, Ranges DEF NetInvariant, NetTypeOK, MemoryTypeOK, DeviceTypeOK, ServiceTypeOK,
     DriverTypeOK, CheckCount, Return, broken, deviceVars, serviceVars, memoryVars,
     driverVars
<1>4. CASE ReadChain
  BY <1>4, Ranges DEF NetInvariant, NetTypeOK, MemoryTypeOK, DeviceTypeOK, ServiceTypeOK,
     DriverTypeOK, ReadChain, Return, broken, deviceVars, serviceVars, memoryVars,
     driverVars
<1>5. CASE WriteUsedEntry
  BY <1>5, Ranges DEF NetInvariant, NetTypeOK, MemoryTypeOK, DeviceTypeOK, ServiceTypeOK,
     DriverTypeOK, WriteUsedEntry, deviceVars, serviceVars, memoryVars, driverVars
<1>6. CASE WriteUsedIndex
  BY <1>6, Ranges DEF NetInvariant, NetTypeOK, MemoryTypeOK, DeviceTypeOK, ServiceTypeOK,
     DriverTypeOK, WriteUsedIndex, deviceVars, serviceVars, memoryVars, driverVars
<1>7. CASE ReadFlags
  BY <1>7, Ranges DEF NetInvariant, NetTypeOK, MemoryTypeOK, DeviceTypeOK, ServiceTypeOK,
     DriverTypeOK, ReadFlags, Return, deviceVars, serviceVars, memoryVars, driverVars
<1>8. CASE EndService
  BY <1>8, Ranges DEF NetInvariant, NetTypeOK, MemoryTypeOK, DeviceTypeOK, ServiceTypeOK,
     DriverTypeOK, EndService, deviceVars, serviceVars, memoryVars, driverVars
<1>9. CASE \E f \in FeatureValues : WriteDriverFeatures(f)
  BY <1>9, Ranges DEF NetInvariant, NetTypeOK, MemoryTypeOK, DeviceTypeOK, ServiceTypeOK,
     DriverTypeOK, WriteDriverFeatures, Access, deviceVars, serviceVars, memoryVars,
     driverVars
<1>10. CASE \E v \in StatusValues : WriteStatus(v)
  BY <1>10, Ranges DEF NetInvariant, NetTypeOK, MemoryTypeOK, DeviceTypeOK, ServiceTypeOK,
     DriverTypeOK, WriteStatus, NextStatus, Access, deviceVars, serviceVars, memoryVars,
     driverVars
<1>11. CASE ResetDevice
  BY <1>11, Ranges DEF NetInvariant, NetTypeOK, MemoryTypeOK, DeviceTypeOK, ServiceTypeOK,
     DriverTypeOK, ResetDevice, Access, PerQueue, deviceVars, serviceVars, memoryVars,
     driverVars
<1>12. CASE \E q \in Queues, good \in BOOLEAN : WriteQueue(q, good)
  BY <1>12, Ranges DEF NetInvariant, NetTypeOK, MemoryTypeOK, DeviceTypeOK, ServiceTypeOK,
     DriverTypeOK, WriteQueue, Access, deviceVars, serviceVars, memoryVars, driverVars
<1>13. CASE \E q \in Queues, on \in BOOLEAN : WriteQueueReady(q, on)
  BY <1>13, Ranges DEF NetInvariant, NetTypeOK, MemoryTypeOK, DeviceTypeOK, ServiceTypeOK,
     DriverTypeOK, WriteQueueReady, Access, deviceVars, serviceVars, memoryVars,
     driverVars
<1>14. CASE \E q \in Queues, b \in Buffers : OfferBuffer(q, b)
  <2>1. PICK q \in Queues, b \in Buffers : OfferBuffer(q, b)
    BY <1>14
  <2>2. avail_idx[q] % Num \in Buffers
    BY Ranges DEF NetInvariant, NetTypeOK, MemoryTypeOK
  <2>3. avail_ring' \in [Queues -> [Buffers -> Buffers]]
    BY <2>1, <2>2 DEF NetInvariant, NetTypeOK, MemoryTypeOK, OfferBuffer
  <2>4. malformed[q] \ {b} \in SUBSET Buffers /\ malformed[q] \cup {b} \in SUBSET Buffers
    BY <2>1 DEF NetInvariant, NetTypeOK, MemoryTypeOK
  <2>5. \E set \in SUBSET Buffers : malformed' = [malformed EXCEPT ![q] = set]
    BY <2>1, <2>4, Zenon DEF OfferBuffer
  <2>6. malformed' \in [Queues -> SUBSET Buffers]
    BY <2>5 DEF NetInvariant, NetTypeOK, MemoryTypeOK
  <2> QED BY <2>1, <2>3, <2>6 DEF NetInvariant, NetTypeOK, MemoryTypeOK, OfferBuffer
<1>15. CASE \E q \in Queues : PublishBuffer(q)
  BY <1>15, Ranges DEF NetInvariant, NetTypeOK, MemoryTypeOK, PublishBuffer
<1>16. CASE \E q \in Queues : QueueNotify(q)
  BY <1>16, Ranges DEF NetInvariant, NetTypeOK, MemoryTypeOK, DeviceTypeOK, ServiceTypeOK,
     DriverTypeOK, QueueNotify, Access, deviceVars, serviceVars, memoryVars, driverVars
<1>17. CASE \E q \in Queues : TakeBuffer(q)
  BY <1>17, Ranges DEF NetInvariant, NetTypeOK, MemoryTypeOK, DeviceTypeOK, ServiceTypeOK,
     DriverTypeOK, TakeBuffer, deviceVars, serviceVars, memoryVars, driverVars
<1>18. CASE \E q \in Queues : AllowInterrupts(q)
  BY <1>18, Ranges DEF NetInvariant, NetTypeOK, MemoryTypeOK, DeviceTypeOK, ServiceTypeOK,
     DriverTypeOK, AllowInterrupts, deviceVars, serviceVars, memoryVars, driverVars
<1>19. CASE \E q \in Queues : Recheck(q)
  BY <1>19 DEF NetInvariant, NetTypeOK, MemoryTypeOK, Recheck, More
<1>20. CASE TakeInterrupt
  BY <1>20, Ranges DEF NetInvariant, NetTypeOK, MemoryTypeOK, DeviceTypeOK, ServiceTypeOK,
     DriverTypeOK, TakeInterrupt, Access, deviceVars, serviceVars, memoryVars, driverVars
<1>21. CASE InterruptAck
  BY <1>21, Ranges DEF NetInvariant, NetTypeOK, MemoryTypeOK, DeviceTypeOK, ServiceTypeOK,
     DriverTypeOK, InterruptAck, Access, deviceVars, serviceVars, memoryVars, driverVars
<1>22. CASE ScanQueues
  BY <1>22, Ranges DEF NetInvariant, NetTypeOK, MemoryTypeOK, DeviceTypeOK, ServiceTypeOK,
     DriverTypeOK, ScanQueues, deviceVars, serviceVars, memoryVars, driverVars
<1>23. CASE UNCHANGED vars
  BY <1>23 DEF NetInvariant, NetTypeOK, MemoryTypeOK, DeviceTypeOK, ServiceTypeOK,
     DriverTypeOK, vars, deviceVars, serviceVars, memoryVars, driverVars
<1> QED
  BY <1>1, <1>2, <1>3, <1>4, <1>5, <1>6, <1>7, <1>8, <1>9, <1>10, <1>11, <1>12, <1>13,
     <1>14, <1>15, <1>16, <1>17, <1>18, <1>19, <1>20, <1>21, <1>22, <1>23
  DEF NetNext, Transaction, Configure, Offering, Taking, Handler

\* The types of the driver's variables.
LEMMA DriverTypeStep ==
    ASSUME NetInvariant, [NetNext]_vars
    PROVE  DriverTypeOK'
<1>1. CASE \E up \in BOOLEAN : BeginService(up)
  BY <1>1, Ranges DEF NetInvariant, NetTypeOK, DriverTypeOK, DeviceTypeOK, MemoryTypeOK,
     BeginService, deviceVars, serviceVars, memoryVars, driverVars
<1>2. CASE \E q \in Queues : ReadAvailable(q)
  BY <1>2, Ranges DEF NetInvariant, NetTypeOK, DriverTypeOK, DeviceTypeOK, MemoryTypeOK,
     ReadAvailable, Return, broken, deviceVars, serviceVars, memoryVars, driverVars
<1>3. CASE CheckCount
  BY <1>3, Ranges DEF NetInvariant, NetTypeOK, DriverTypeOK, DeviceTypeOK, MemoryTypeOK,
     CheckCount, Return, broken, deviceVars, serviceVars, memoryVars, driverVars
<1>4. CASE ReadChain
  BY <1>4, Ranges DEF NetInvariant, NetTypeOK, DriverTypeOK, DeviceTypeOK, MemoryTypeOK,
     ReadChain, Return, broken, deviceVars, serviceVars, memoryVars, driverVars
<1>5. CASE WriteUsedEntry
  BY <1>5, Ranges DEF NetInvariant, NetTypeOK, DriverTypeOK, DeviceTypeOK, MemoryTypeOK,
     WriteUsedEntry, deviceVars, serviceVars, memoryVars, driverVars
<1>6. CASE WriteUsedIndex
  BY <1>6, Ranges DEF NetInvariant, NetTypeOK, DriverTypeOK, DeviceTypeOK, MemoryTypeOK,
     WriteUsedIndex, deviceVars, serviceVars, memoryVars, driverVars
<1>7. CASE ReadFlags
  BY <1>7, Ranges DEF NetInvariant, NetTypeOK, DriverTypeOK, DeviceTypeOK, MemoryTypeOK,
     ReadFlags, Return, deviceVars, serviceVars, memoryVars, driverVars
<1>8. CASE EndService
  BY <1>8, Ranges DEF NetInvariant, NetTypeOK, DriverTypeOK, DeviceTypeOK, MemoryTypeOK,
     EndService, deviceVars, serviceVars, memoryVars, driverVars
<1>9. CASE \E f \in FeatureValues : WriteDriverFeatures(f)
  BY <1>9, Ranges DEF NetInvariant, NetTypeOK, DriverTypeOK, DeviceTypeOK, MemoryTypeOK,
     WriteDriverFeatures, Access, deviceVars, serviceVars, memoryVars, driverVars
<1>10. CASE \E v \in StatusValues : WriteStatus(v)
  BY <1>10, Ranges DEF NetInvariant, NetTypeOK, DriverTypeOK, DeviceTypeOK, MemoryTypeOK,
     WriteStatus, NextStatus, Access, deviceVars, serviceVars, memoryVars, driverVars
<1>11. CASE ResetDevice
  BY <1>11, Ranges DEF NetInvariant, NetTypeOK, DriverTypeOK, DeviceTypeOK, MemoryTypeOK,
     ResetDevice, Access, PerQueue, deviceVars, serviceVars, memoryVars, driverVars
<1>12. CASE \E q \in Queues, good \in BOOLEAN : WriteQueue(q, good)
  BY <1>12, Ranges DEF NetInvariant, NetTypeOK, DriverTypeOK, DeviceTypeOK, MemoryTypeOK,
     WriteQueue, Access, deviceVars, serviceVars, memoryVars, driverVars
<1>13. CASE \E q \in Queues, on \in BOOLEAN : WriteQueueReady(q, on)
  BY <1>13, Ranges DEF NetInvariant, NetTypeOK, DriverTypeOK, DeviceTypeOK, MemoryTypeOK,
     WriteQueueReady, Access, deviceVars, serviceVars, memoryVars, driverVars
<1>14. CASE \E q \in Queues, b \in Buffers : OfferBuffer(q, b)
  BY <1>14, Ranges DEF NetInvariant, NetTypeOK, DriverTypeOK, DeviceTypeOK, MemoryTypeOK,
     OfferBuffer, deviceVars, serviceVars, memoryVars, driverVars
<1>15. CASE \E q \in Queues : PublishBuffer(q)
  BY <1>15, Ranges DEF NetInvariant, NetTypeOK, DriverTypeOK, DeviceTypeOK, MemoryTypeOK,
     PublishBuffer, deviceVars, serviceVars, memoryVars, driverVars
<1>16. CASE \E q \in Queues : QueueNotify(q)
  BY <1>16, Ranges DEF NetInvariant, NetTypeOK, DriverTypeOK, DeviceTypeOK, MemoryTypeOK,
     QueueNotify, Access, deviceVars, serviceVars, memoryVars, driverVars
<1>17. CASE \E q \in Queues : TakeBuffer(q)
  BY <1>17, Ranges DEF NetInvariant, NetTypeOK, DriverTypeOK, DeviceTypeOK, MemoryTypeOK,
     TakeBuffer, deviceVars, serviceVars, memoryVars, driverVars
<1>18. CASE \E q \in Queues : AllowInterrupts(q)
  BY <1>18, Ranges DEF NetInvariant, NetTypeOK, DriverTypeOK, DeviceTypeOK, MemoryTypeOK,
     AllowInterrupts, deviceVars, serviceVars, memoryVars, driverVars
<1>19. CASE \E q \in Queues : Recheck(q)
  BY <1>19, Ranges DEF NetInvariant, NetTypeOK, DriverTypeOK, DeviceTypeOK, MemoryTypeOK,
     Recheck, deviceVars, serviceVars, memoryVars, driverVars
<1>20. CASE TakeInterrupt
  BY <1>20, Ranges DEF NetInvariant, NetTypeOK, DriverTypeOK, DeviceTypeOK, MemoryTypeOK,
     TakeInterrupt, Access, deviceVars, serviceVars, memoryVars, driverVars
<1>21. CASE InterruptAck
  BY <1>21, Ranges DEF NetInvariant, NetTypeOK, DriverTypeOK, DeviceTypeOK, MemoryTypeOK,
     InterruptAck, Access, deviceVars, serviceVars, memoryVars, driverVars
<1>22. CASE ScanQueues
  BY <1>22, Ranges DEF NetInvariant, NetTypeOK, DriverTypeOK, DeviceTypeOK, MemoryTypeOK,
     ScanQueues, deviceVars, serviceVars, memoryVars, driverVars
<1>23. CASE UNCHANGED vars
  BY <1>23 DEF NetInvariant, NetTypeOK, DriverTypeOK, DeviceTypeOK, MemoryTypeOK, vars,
     deviceVars, serviceVars, memoryVars, driverVars
<1> QED
  BY <1>1, <1>2, <1>3, <1>4, <1>5, <1>6, <1>7, <1>8, <1>9, <1>10, <1>11, <1>12, <1>13,
     <1>14, <1>15, <1>16, <1>17, <1>18, <1>19, <1>20, <1>21, <1>22, <1>23
  DEF NetNext, Transaction, Configure, Offering, Taking, Handler

\* What a service knows stays true while it works.
LEMMA ServiceKnowsStep ==
    ASSUME NetInvariant, [NetNext]_vars
    PROVE  ServiceKnows'
<1>1. CASE \E up \in BOOLEAN : BeginService(up)
  BY <1>1, Ranges DEF NetInvariant, NetTypeOK, ServiceKnows, DeviceTypeOK, ServiceTypeOK,
     MemoryTypeOK, DriverTypeOK, BeginService, deviceVars, serviceVars, memoryVars,
     driverVars
<1>2. CASE \E q \in Queues : ReadAvailable(q)
  BY <1>2, Ranges DEF NetInvariant, NetTypeOK, ServiceKnows, DeviceTypeOK, ServiceTypeOK,
     MemoryTypeOK, DriverTypeOK, ReadAvailable, Return, broken, deviceVars, serviceVars,
     memoryVars, driverVars
<1>3. CASE CheckCount
  BY <1>3, Ranges DEF NetInvariant, NetTypeOK, ServiceKnows, DeviceTypeOK, ServiceTypeOK,
     MemoryTypeOK, DriverTypeOK, CheckCount, Return, broken, deviceVars, serviceVars,
     memoryVars, driverVars
<1>4. CASE ReadChain
  BY <1>4, Ranges DEF NetInvariant, NetTypeOK, ServiceKnows, DeviceTypeOK, ServiceTypeOK,
     MemoryTypeOK, DriverTypeOK, ReadChain, Return, broken, deviceVars, serviceVars,
     memoryVars, driverVars
<1>5. CASE WriteUsedEntry
  BY <1>5, Ranges DEF NetInvariant, NetTypeOK, ServiceKnows, DeviceTypeOK, ServiceTypeOK,
     MemoryTypeOK, DriverTypeOK, WriteUsedEntry, deviceVars, serviceVars, memoryVars,
     driverVars
<1>6. CASE WriteUsedIndex
  BY <1>6, Ranges DEF NetInvariant, NetTypeOK, ServiceKnows, DeviceTypeOK, ServiceTypeOK,
     MemoryTypeOK, DriverTypeOK, WriteUsedIndex, deviceVars, serviceVars, memoryVars,
     driverVars
<1>7. CASE ReadFlags
  BY <1>7, Ranges DEF NetInvariant, NetTypeOK, ServiceKnows, DeviceTypeOK, ServiceTypeOK,
     MemoryTypeOK, DriverTypeOK, ReadFlags, Return, deviceVars, serviceVars, memoryVars,
     driverVars
<1>8. CASE EndService
  BY <1>8, Ranges DEF NetInvariant, NetTypeOK, ServiceKnows, DeviceTypeOK, ServiceTypeOK,
     MemoryTypeOK, DriverTypeOK, EndService, deviceVars, serviceVars, memoryVars,
     driverVars
<1>9. CASE \E f \in FeatureValues : WriteDriverFeatures(f)
  BY <1>9, Ranges DEF NetInvariant, NetTypeOK, ServiceKnows, DeviceTypeOK, ServiceTypeOK,
     MemoryTypeOK, DriverTypeOK, WriteDriverFeatures, Access, deviceVars, serviceVars,
     memoryVars, driverVars
<1>10. CASE \E v \in StatusValues : WriteStatus(v)
  BY <1>10, Ranges DEF NetInvariant, NetTypeOK, ServiceKnows, DeviceTypeOK, ServiceTypeOK,
     MemoryTypeOK, DriverTypeOK, WriteStatus, NextStatus, Access, deviceVars, serviceVars,
     memoryVars, driverVars
<1>11. CASE ResetDevice
  BY <1>11, Ranges DEF NetInvariant, NetTypeOK, ServiceKnows, DeviceTypeOK, ServiceTypeOK,
     MemoryTypeOK, DriverTypeOK, ResetDevice, Access, PerQueue, deviceVars, serviceVars,
     memoryVars, driverVars
<1>12. CASE \E q \in Queues, good \in BOOLEAN : WriteQueue(q, good)
  BY <1>12, Ranges DEF NetInvariant, NetTypeOK, ServiceKnows, DeviceTypeOK, ServiceTypeOK,
     MemoryTypeOK, DriverTypeOK, WriteQueue, Access, deviceVars, serviceVars, memoryVars,
     driverVars
<1>13. CASE \E q \in Queues, on \in BOOLEAN : WriteQueueReady(q, on)
  BY <1>13, Ranges DEF NetInvariant, NetTypeOK, ServiceKnows, DeviceTypeOK, ServiceTypeOK,
     MemoryTypeOK, DriverTypeOK, WriteQueueReady, Access, deviceVars, serviceVars,
     memoryVars, driverVars
<1>14. CASE \E q \in Queues, b \in Buffers : OfferBuffer(q, b)
  BY <1>14, Ranges DEF NetInvariant, NetTypeOK, ServiceKnows, DeviceTypeOK, ServiceTypeOK,
     MemoryTypeOK, DriverTypeOK, OfferBuffer, deviceVars, serviceVars, memoryVars,
     driverVars
<1>15. CASE \E q \in Queues : PublishBuffer(q)
  BY <1>15, Ranges DEF NetInvariant, NetTypeOK, ServiceKnows, DeviceTypeOK, ServiceTypeOK,
     MemoryTypeOK, DriverTypeOK, PublishBuffer, deviceVars, serviceVars, memoryVars,
     driverVars
<1>16. CASE \E q \in Queues : QueueNotify(q)
  BY <1>16, Ranges DEF NetInvariant, NetTypeOK, ServiceKnows, DeviceTypeOK, ServiceTypeOK,
     MemoryTypeOK, DriverTypeOK, QueueNotify, Access, deviceVars, serviceVars, memoryVars,
     driverVars
<1>17. CASE \E q \in Queues : TakeBuffer(q)
  BY <1>17, Ranges DEF NetInvariant, NetTypeOK, ServiceKnows, DeviceTypeOK, ServiceTypeOK,
     MemoryTypeOK, DriverTypeOK, TakeBuffer, deviceVars, serviceVars, memoryVars,
     driverVars
<1>18. CASE \E q \in Queues : AllowInterrupts(q)
  BY <1>18, Ranges DEF NetInvariant, NetTypeOK, ServiceKnows, DeviceTypeOK, ServiceTypeOK,
     MemoryTypeOK, DriverTypeOK, AllowInterrupts, deviceVars, serviceVars, memoryVars,
     driverVars
<1>19. CASE \E q \in Queues : Recheck(q)
  BY <1>19, Ranges DEF NetInvariant, NetTypeOK, ServiceKnows, DeviceTypeOK, ServiceTypeOK,
     MemoryTypeOK, DriverTypeOK, Recheck, deviceVars, serviceVars, memoryVars, driverVars
<1>20. CASE TakeInterrupt
  BY <1>20, Ranges DEF NetInvariant, NetTypeOK, ServiceKnows, DeviceTypeOK, ServiceTypeOK,
     MemoryTypeOK, DriverTypeOK, TakeInterrupt, Access, deviceVars, serviceVars,
     memoryVars, driverVars
<1>21. CASE InterruptAck
  BY <1>21, Ranges DEF NetInvariant, NetTypeOK, ServiceKnows, DeviceTypeOK, ServiceTypeOK,
     MemoryTypeOK, DriverTypeOK, InterruptAck, Access, deviceVars, serviceVars,
     memoryVars, driverVars
<1>22. CASE ScanQueues
  BY <1>22, Ranges DEF NetInvariant, NetTypeOK, ServiceKnows, DeviceTypeOK, ServiceTypeOK,
     MemoryTypeOK, DriverTypeOK, ScanQueues, deviceVars, serviceVars, memoryVars,
     driverVars
<1>23. CASE UNCHANGED vars
  BY <1>23 DEF NetInvariant, NetTypeOK, ServiceKnows, DeviceTypeOK, ServiceTypeOK,
     MemoryTypeOK, DriverTypeOK, vars, deviceVars, serviceVars, memoryVars, driverVars
<1> QED
  BY <1>1, <1>2, <1>3, <1>4, <1>5, <1>6, <1>7, <1>8, <1>9, <1>10, <1>11, <1>12, <1>13,
     <1>14, <1>15, <1>16, <1>17, <1>18, <1>19, <1>20, <1>21, <1>22, <1>23
  DEF NetNext, Transaction, Configure, Offering, Taking, Handler

\* No step leaves a ready queue with work forgotten and unannounced.
LEMMA WorkIsKnownStep ==
    ASSUME NetInvariant, [NetNext]_vars
    PROVE  WorkIsKnown'
<1>1. CASE \E up \in BOOLEAN : BeginService(up)
  BY <1>1, Ranges, NoDifference DEF NetInvariant, NetTypeOK, WorkIsKnown, ServiceKnows,
     DeviceTypeOK, ServiceTypeOK, MemoryTypeOK, DriverTypeOK, BeginService, deviceVars,
     serviceVars, memoryVars, driverVars
<1>2. CASE \E q \in Queues : ReadAvailable(q)
  BY <1>2, Ranges, NoDifference DEF NetInvariant, NetTypeOK, WorkIsKnown, ServiceKnows,
     DeviceTypeOK, ServiceTypeOK, MemoryTypeOK, DriverTypeOK, ReadAvailable, Return,
     broken, deviceVars, serviceVars, memoryVars, driverVars
<1>3. CASE CheckCount
  BY <1>3, Ranges, NoDifference DEF NetInvariant, NetTypeOK, WorkIsKnown, ServiceKnows,
     DeviceTypeOK, ServiceTypeOK, MemoryTypeOK, DriverTypeOK, CheckCount, Return, broken,
     deviceVars, serviceVars, memoryVars, driverVars
<1>4. CASE ReadChain
  BY <1>4, Ranges, NoDifference DEF NetInvariant, NetTypeOK, WorkIsKnown, ServiceKnows,
     DeviceTypeOK, ServiceTypeOK, MemoryTypeOK, DriverTypeOK, ReadChain, Return, broken,
     deviceVars, serviceVars, memoryVars, driverVars
<1>5. CASE WriteUsedEntry
  BY <1>5, Ranges, NoDifference DEF NetInvariant, NetTypeOK, WorkIsKnown, ServiceKnows,
     DeviceTypeOK, ServiceTypeOK, MemoryTypeOK, DriverTypeOK, WriteUsedEntry, deviceVars,
     serviceVars, memoryVars, driverVars
<1>6. CASE WriteUsedIndex
  BY <1>6, Ranges, NoDifference DEF NetInvariant, NetTypeOK, WorkIsKnown, ServiceKnows,
     DeviceTypeOK, ServiceTypeOK, MemoryTypeOK, DriverTypeOK, WriteUsedIndex, deviceVars,
     serviceVars, memoryVars, driverVars
<1>7. CASE ReadFlags
  BY <1>7, Ranges, NoDifference DEF NetInvariant, NetTypeOK, WorkIsKnown, ServiceKnows,
     DeviceTypeOK, ServiceTypeOK, MemoryTypeOK, DriverTypeOK, ReadFlags, Return,
     deviceVars, serviceVars, memoryVars, driverVars
<1>8. CASE EndService
  BY <1>8, Ranges, NoDifference DEF NetInvariant, NetTypeOK, WorkIsKnown, ServiceKnows,
     DeviceTypeOK, ServiceTypeOK, MemoryTypeOK, DriverTypeOK, EndService, deviceVars,
     serviceVars, memoryVars, driverVars
<1>9. CASE \E f \in FeatureValues : WriteDriverFeatures(f)
  BY <1>9, Ranges, NoDifference DEF NetInvariant, NetTypeOK, WorkIsKnown, ServiceKnows,
     DeviceTypeOK, ServiceTypeOK, MemoryTypeOK, DriverTypeOK, WriteDriverFeatures, Access,
     deviceVars, serviceVars, memoryVars, driverVars
<1>10. CASE \E v \in StatusValues : WriteStatus(v)
  BY <1>10, Ranges, NoDifference DEF NetInvariant, NetTypeOK, WorkIsKnown, ServiceKnows,
     DeviceTypeOK, ServiceTypeOK, MemoryTypeOK, DriverTypeOK, WriteStatus, NextStatus,
     Access, deviceVars, serviceVars, memoryVars, driverVars
<1>11. CASE ResetDevice
  BY <1>11, Ranges, NoDifference DEF NetInvariant, NetTypeOK, WorkIsKnown, ServiceKnows,
     DeviceTypeOK, ServiceTypeOK, MemoryTypeOK, DriverTypeOK, ResetDevice, Access,
     PerQueue, deviceVars, serviceVars, memoryVars, driverVars
<1>12. CASE \E q \in Queues, good \in BOOLEAN : WriteQueue(q, good)
  BY <1>12, Ranges, NoDifference DEF NetInvariant, NetTypeOK, WorkIsKnown, ServiceKnows,
     DeviceTypeOK, ServiceTypeOK, MemoryTypeOK, DriverTypeOK, WriteQueue, Access,
     deviceVars, serviceVars, memoryVars, driverVars
<1>13. CASE \E q \in Queues, on \in BOOLEAN : WriteQueueReady(q, on)
  BY <1>13, Ranges, NoDifference DEF NetInvariant, NetTypeOK, WorkIsKnown, ServiceKnows,
     DeviceTypeOK, ServiceTypeOK, MemoryTypeOK, DriverTypeOK, WriteQueueReady, Access,
     deviceVars, serviceVars, memoryVars, driverVars
<1>14. CASE \E q \in Queues, b \in Buffers : OfferBuffer(q, b)
  BY <1>14, Ranges, NoDifference DEF NetInvariant, NetTypeOK, WorkIsKnown, ServiceKnows,
     DeviceTypeOK, ServiceTypeOK, MemoryTypeOK, DriverTypeOK, OfferBuffer, deviceVars,
     serviceVars, memoryVars, driverVars
<1>15. CASE \E q \in Queues : PublishBuffer(q)
  BY <1>15, Ranges, NoDifference DEF NetInvariant, NetTypeOK, WorkIsKnown, ServiceKnows,
     DeviceTypeOK, ServiceTypeOK, MemoryTypeOK, DriverTypeOK, PublishBuffer, deviceVars,
     serviceVars, memoryVars, driverVars
<1>16. CASE \E q \in Queues : QueueNotify(q)
  BY <1>16, Ranges, NoDifference DEF NetInvariant, NetTypeOK, WorkIsKnown, ServiceKnows,
     DeviceTypeOK, ServiceTypeOK, MemoryTypeOK, DriverTypeOK, QueueNotify, Access,
     deviceVars, serviceVars, memoryVars, driverVars
<1>17. CASE \E q \in Queues : TakeBuffer(q)
  BY <1>17, Ranges, NoDifference DEF NetInvariant, NetTypeOK, WorkIsKnown, ServiceKnows,
     DeviceTypeOK, ServiceTypeOK, MemoryTypeOK, DriverTypeOK, TakeBuffer, deviceVars,
     serviceVars, memoryVars, driverVars
<1>18. CASE \E q \in Queues : AllowInterrupts(q)
  BY <1>18, Ranges, NoDifference DEF NetInvariant, NetTypeOK, WorkIsKnown, ServiceKnows,
     DeviceTypeOK, ServiceTypeOK, MemoryTypeOK, DriverTypeOK, AllowInterrupts, deviceVars,
     serviceVars, memoryVars, driverVars
<1>19. CASE \E q \in Queues : Recheck(q)
  BY <1>19, Ranges, NoDifference DEF NetInvariant, NetTypeOK, WorkIsKnown, ServiceKnows,
     DeviceTypeOK, ServiceTypeOK, MemoryTypeOK, DriverTypeOK, Recheck, deviceVars,
     serviceVars, memoryVars, driverVars
<1>20. CASE TakeInterrupt
  BY <1>20, Ranges, NoDifference DEF NetInvariant, NetTypeOK, WorkIsKnown, ServiceKnows,
     DeviceTypeOK, ServiceTypeOK, MemoryTypeOK, DriverTypeOK, TakeInterrupt, Access,
     deviceVars, serviceVars, memoryVars, driverVars
<1>21. CASE InterruptAck
  BY <1>21, Ranges, NoDifference DEF NetInvariant, NetTypeOK, WorkIsKnown, ServiceKnows,
     DeviceTypeOK, ServiceTypeOK, MemoryTypeOK, DriverTypeOK, InterruptAck, Access,
     deviceVars, serviceVars, memoryVars, driverVars
<1>22. CASE ScanQueues
  BY <1>22, Ranges, NoDifference DEF NetInvariant, NetTypeOK, WorkIsKnown, ServiceKnows,
     DeviceTypeOK, ServiceTypeOK, MemoryTypeOK, DriverTypeOK, ScanQueues, deviceVars,
     serviceVars, memoryVars, driverVars
<1>23. CASE UNCHANGED vars
  BY <1>23 DEF NetInvariant, NetTypeOK, WorkIsKnown, ServiceKnows, DeviceTypeOK,
     ServiceTypeOK, MemoryTypeOK, DriverTypeOK, vars, deviceVars, serviceVars, memoryVars,
     driverVars
<1> QED
  BY <1>1, <1>2, <1>3, <1>4, <1>5, <1>6, <1>7, <1>8, <1>9, <1>10, <1>11, <1>12, <1>13,
     <1>14, <1>15, <1>16, <1>17, <1>18, <1>19, <1>20, <1>21, <1>22, <1>23
  DEF NetNext, Transaction, Configure, Offering, Taking, Handler

\* No step leaves a driver asleep on used buffers.
LEMMA SleepIsSafeStep ==
    ASSUME NetInvariant, [NetNext]_vars
    PROVE  SleepIsSafe'
<1>1. CASE \E up \in BOOLEAN : BeginService(up)
  BY <1>1, Ranges DEF NetInvariant, NetTypeOK, SleepIsSafe, ServiceKnows, More,
     DeviceTypeOK, ServiceTypeOK, MemoryTypeOK, DriverTypeOK, BeginService, deviceVars,
     serviceVars, memoryVars, driverVars
<1>2. CASE \E q \in Queues : ReadAvailable(q)
  BY <1>2, Ranges DEF NetInvariant, NetTypeOK, SleepIsSafe, ServiceKnows, More,
     DeviceTypeOK, ServiceTypeOK, MemoryTypeOK, DriverTypeOK, ReadAvailable, Return,
     broken, deviceVars, serviceVars, memoryVars, driverVars
<1>3. CASE CheckCount
  BY <1>3, Ranges DEF NetInvariant, NetTypeOK, SleepIsSafe, ServiceKnows, More,
     DeviceTypeOK, ServiceTypeOK, MemoryTypeOK, DriverTypeOK, CheckCount, Return, broken,
     deviceVars, serviceVars, memoryVars, driverVars
<1>4. CASE ReadChain
  BY <1>4, Ranges DEF NetInvariant, NetTypeOK, SleepIsSafe, ServiceKnows, More,
     DeviceTypeOK, ServiceTypeOK, MemoryTypeOK, DriverTypeOK, ReadChain, Return, broken,
     deviceVars, serviceVars, memoryVars, driverVars
<1>5. CASE WriteUsedEntry
  BY <1>5, Ranges DEF NetInvariant, NetTypeOK, SleepIsSafe, ServiceKnows, More,
     DeviceTypeOK, ServiceTypeOK, MemoryTypeOK, DriverTypeOK, WriteUsedEntry, deviceVars,
     serviceVars, memoryVars, driverVars
<1>6. CASE WriteUsedIndex
  BY <1>6, Ranges DEF NetInvariant, NetTypeOK, SleepIsSafe, ServiceKnows, More,
     DeviceTypeOK, ServiceTypeOK, MemoryTypeOK, DriverTypeOK, WriteUsedIndex, deviceVars,
     serviceVars, memoryVars, driverVars
<1>7. CASE ReadFlags
  BY <1>7, Ranges DEF NetInvariant, NetTypeOK, SleepIsSafe, ServiceKnows, More,
     DeviceTypeOK, ServiceTypeOK, MemoryTypeOK, DriverTypeOK, ReadFlags, Return,
     deviceVars, serviceVars, memoryVars, driverVars
<1>8. CASE EndService
  BY <1>8, Ranges DEF NetInvariant, NetTypeOK, SleepIsSafe, ServiceKnows, More,
     DeviceTypeOK, ServiceTypeOK, MemoryTypeOK, DriverTypeOK, EndService, deviceVars,
     serviceVars, memoryVars, driverVars
<1>9. CASE \E f \in FeatureValues : WriteDriverFeatures(f)
  BY <1>9, Ranges DEF NetInvariant, NetTypeOK, SleepIsSafe, ServiceKnows, More,
     DeviceTypeOK, ServiceTypeOK, MemoryTypeOK, DriverTypeOK, WriteDriverFeatures, Access,
     deviceVars, serviceVars, memoryVars, driverVars
<1>10. CASE \E v \in StatusValues : WriteStatus(v)
  BY <1>10, Ranges DEF NetInvariant, NetTypeOK, SleepIsSafe, ServiceKnows, More,
     DeviceTypeOK, ServiceTypeOK, MemoryTypeOK, DriverTypeOK, WriteStatus, NextStatus,
     Access, deviceVars, serviceVars, memoryVars, driverVars
<1>11. CASE ResetDevice
  BY <1>11, Ranges DEF NetInvariant, NetTypeOK, SleepIsSafe, ServiceKnows, More,
     DeviceTypeOK, ServiceTypeOK, MemoryTypeOK, DriverTypeOK, ResetDevice, Access,
     PerQueue, deviceVars, serviceVars, memoryVars, driverVars
<1>12. CASE \E q \in Queues, good \in BOOLEAN : WriteQueue(q, good)
  BY <1>12, Ranges DEF NetInvariant, NetTypeOK, SleepIsSafe, ServiceKnows, More,
     DeviceTypeOK, ServiceTypeOK, MemoryTypeOK, DriverTypeOK, WriteQueue, Access,
     deviceVars, serviceVars, memoryVars, driverVars
<1>13. CASE \E q \in Queues, on \in BOOLEAN : WriteQueueReady(q, on)
  BY <1>13, Ranges DEF NetInvariant, NetTypeOK, SleepIsSafe, ServiceKnows, More,
     DeviceTypeOK, ServiceTypeOK, MemoryTypeOK, DriverTypeOK, WriteQueueReady, Access,
     deviceVars, serviceVars, memoryVars, driverVars
<1>14. CASE \E q \in Queues, b \in Buffers : OfferBuffer(q, b)
  BY <1>14, Ranges DEF NetInvariant, NetTypeOK, SleepIsSafe, ServiceKnows, More,
     DeviceTypeOK, ServiceTypeOK, MemoryTypeOK, DriverTypeOK, OfferBuffer, deviceVars,
     serviceVars, memoryVars, driverVars
<1>15. CASE \E q \in Queues : PublishBuffer(q)
  BY <1>15, Ranges DEF NetInvariant, NetTypeOK, SleepIsSafe, ServiceKnows, More,
     DeviceTypeOK, ServiceTypeOK, MemoryTypeOK, DriverTypeOK, PublishBuffer, deviceVars,
     serviceVars, memoryVars, driverVars
<1>16. CASE \E q \in Queues : QueueNotify(q)
  BY <1>16, Ranges DEF NetInvariant, NetTypeOK, SleepIsSafe, ServiceKnows, More,
     DeviceTypeOK, ServiceTypeOK, MemoryTypeOK, DriverTypeOK, QueueNotify, Access,
     deviceVars, serviceVars, memoryVars, driverVars
<1>17. CASE \E q \in Queues : TakeBuffer(q)
  BY <1>17, Ranges DEF NetInvariant, NetTypeOK, SleepIsSafe, ServiceKnows, More,
     DeviceTypeOK, ServiceTypeOK, MemoryTypeOK, DriverTypeOK, TakeBuffer, deviceVars,
     serviceVars, memoryVars, driverVars
<1>18. CASE \E q \in Queues : AllowInterrupts(q)
  BY <1>18, Ranges DEF NetInvariant, NetTypeOK, SleepIsSafe, ServiceKnows, More,
     DeviceTypeOK, ServiceTypeOK, MemoryTypeOK, DriverTypeOK, AllowInterrupts, deviceVars,
     serviceVars, memoryVars, driverVars
<1>19. CASE \E q \in Queues : Recheck(q)
  <2>1. PICK q \in Queues : Recheck(q)
    BY <1>19
  <2>2. \A r \in Queues : More(r)' <=> More(r)
    BY <2>1 DEF More, Recheck
  <2>3. taking'[q] = "sleep" => ~More(q) /\ ~no_interrupt'[q]
    BY <2>1 DEF NetInvariant, NetTypeOK, MemoryTypeOK, DriverTypeOK, Recheck
  <2>4. \A r \in Queues \ {q} : taking'[r] = taking[r] /\ no_interrupt'[r] = no_interrupt[r]
    BY <2>1 DEF NetInvariant, NetTypeOK, MemoryTypeOK, DriverTypeOK, Recheck
  <2> QED BY <2>1, <2>2, <2>3, <2>4 DEF NetInvariant, SleepIsSafe, Recheck, deviceVars, serviceVars
<1>20. CASE TakeInterrupt
  BY <1>20, Ranges DEF NetInvariant, NetTypeOK, SleepIsSafe, ServiceKnows, More,
     DeviceTypeOK, ServiceTypeOK, MemoryTypeOK, DriverTypeOK, TakeInterrupt, Access,
     deviceVars, serviceVars, memoryVars, driverVars
<1>21. CASE InterruptAck
  BY <1>21, Ranges DEF NetInvariant, NetTypeOK, SleepIsSafe, ServiceKnows, More,
     DeviceTypeOK, ServiceTypeOK, MemoryTypeOK, DriverTypeOK, InterruptAck, Access,
     deviceVars, serviceVars, memoryVars, driverVars
<1>22. CASE ScanQueues
  BY <1>22, Ranges DEF NetInvariant, NetTypeOK, SleepIsSafe, ServiceKnows, More,
     DeviceTypeOK, ServiceTypeOK, MemoryTypeOK, DriverTypeOK, ScanQueues, deviceVars,
     serviceVars, memoryVars, driverVars
<1>23. CASE UNCHANGED vars
  BY <1>23 DEF NetInvariant, NetTypeOK, SleepIsSafe, ServiceKnows, More, DeviceTypeOK,
     ServiceTypeOK, MemoryTypeOK, DriverTypeOK, vars, deviceVars, serviceVars, memoryVars,
     driverVars
<1> QED
  BY <1>1, <1>2, <1>3, <1>4, <1>5, <1>6, <1>7, <1>8, <1>9, <1>10, <1>11, <1>12, <1>13,
     <1>14, <1>15, <1>16, <1>17, <1>18, <1>19, <1>20, <1>21, <1>22, <1>23
  DEF NetNext, Transaction, Configure, Offering, Taking, Handler

\* Accepted features stay accepted.
LEMMA FeaturesStep ==
    ASSUME NetInvariant, [NetNext]_vars
    PROVE  ("FEATURES_OK" \in status => Acceptable(driver_features))'
<1>1. CASE \E up \in BOOLEAN : BeginService(up)
  BY <1>1 DEF NetInvariant, NetTypeOK, Acceptable, BeginService, deviceVars, serviceVars,
     memoryVars, driverVars
<1>2. CASE \E q \in Queues : ReadAvailable(q)
  BY <1>2 DEF NetInvariant, NetTypeOK, Acceptable, ReadAvailable, Return, broken,
     deviceVars, serviceVars, memoryVars, driverVars
<1>3. CASE CheckCount
  BY <1>3 DEF NetInvariant, NetTypeOK, Acceptable, CheckCount, Return, broken, deviceVars,
     serviceVars, memoryVars, driverVars
<1>4. CASE ReadChain
  BY <1>4 DEF NetInvariant, NetTypeOK, Acceptable, ReadChain, Return, broken, deviceVars,
     serviceVars, memoryVars, driverVars
<1>5. CASE WriteUsedEntry
  BY <1>5 DEF NetInvariant, NetTypeOK, Acceptable, WriteUsedEntry, deviceVars,
     serviceVars, memoryVars, driverVars
<1>6. CASE WriteUsedIndex
  BY <1>6 DEF NetInvariant, NetTypeOK, Acceptable, WriteUsedIndex, deviceVars,
     serviceVars, memoryVars, driverVars
<1>7. CASE ReadFlags
  BY <1>7 DEF NetInvariant, NetTypeOK, Acceptable, ReadFlags, Return, deviceVars,
     serviceVars, memoryVars, driverVars
<1>8. CASE EndService
  BY <1>8 DEF NetInvariant, NetTypeOK, Acceptable, EndService, deviceVars, serviceVars,
     memoryVars, driverVars
<1>9. CASE \E f \in FeatureValues : WriteDriverFeatures(f)
  BY <1>9 DEF NetInvariant, NetTypeOK, Acceptable, WriteDriverFeatures, Access,
     deviceVars, serviceVars, memoryVars, driverVars
<1>10. CASE \E v \in StatusValues : WriteStatus(v)
  BY <1>10 DEF NetInvariant, NetTypeOK, Acceptable, WriteStatus, NextStatus, Access,
     deviceVars, serviceVars, memoryVars, driverVars
<1>11. CASE ResetDevice
  BY <1>11 DEF NetInvariant, NetTypeOK, Acceptable, ResetDevice, Access, PerQueue,
     deviceVars, serviceVars, memoryVars, driverVars
<1>12. CASE \E q \in Queues, good \in BOOLEAN : WriteQueue(q, good)
  BY <1>12 DEF NetInvariant, NetTypeOK, Acceptable, WriteQueue, Access, deviceVars,
     serviceVars, memoryVars, driverVars
<1>13. CASE \E q \in Queues, on \in BOOLEAN : WriteQueueReady(q, on)
  BY <1>13 DEF NetInvariant, NetTypeOK, Acceptable, WriteQueueReady, Access, deviceVars,
     serviceVars, memoryVars, driverVars
<1>14. CASE \E q \in Queues, b \in Buffers : OfferBuffer(q, b)
  BY <1>14 DEF NetInvariant, NetTypeOK, Acceptable, OfferBuffer, deviceVars, serviceVars,
     memoryVars, driverVars
<1>15. CASE \E q \in Queues : PublishBuffer(q)
  BY <1>15 DEF NetInvariant, NetTypeOK, Acceptable, PublishBuffer, deviceVars,
     serviceVars, memoryVars, driverVars
<1>16. CASE \E q \in Queues : QueueNotify(q)
  BY <1>16 DEF NetInvariant, NetTypeOK, Acceptable, QueueNotify, Access, deviceVars,
     serviceVars, memoryVars, driverVars
<1>17. CASE \E q \in Queues : TakeBuffer(q)
  BY <1>17 DEF NetInvariant, NetTypeOK, Acceptable, TakeBuffer, deviceVars, serviceVars,
     memoryVars, driverVars
<1>18. CASE \E q \in Queues : AllowInterrupts(q)
  BY <1>18 DEF NetInvariant, NetTypeOK, Acceptable, AllowInterrupts, deviceVars,
     serviceVars, memoryVars, driverVars
<1>19. CASE \E q \in Queues : Recheck(q)
  BY <1>19 DEF NetInvariant, NetTypeOK, Acceptable, Recheck, deviceVars, serviceVars,
     memoryVars, driverVars
<1>20. CASE TakeInterrupt
  BY <1>20 DEF NetInvariant, NetTypeOK, Acceptable, TakeInterrupt, Access, deviceVars,
     serviceVars, memoryVars, driverVars
<1>21. CASE InterruptAck
  BY <1>21 DEF NetInvariant, NetTypeOK, Acceptable, InterruptAck, Access, deviceVars,
     serviceVars, memoryVars, driverVars
<1>22. CASE ScanQueues
  BY <1>22 DEF NetInvariant, NetTypeOK, Acceptable, ScanQueues, deviceVars, serviceVars,
     memoryVars, driverVars
<1>23. CASE UNCHANGED vars
  BY <1>23 DEF NetInvariant, NetTypeOK, Acceptable, vars, deviceVars, serviceVars,
     memoryVars, driverVars
<1> QED
  BY <1>1, <1>2, <1>3, <1>4, <1>5, <1>6, <1>7, <1>8, <1>9, <1>10, <1>11, <1>12, <1>13,
     <1>14, <1>15, <1>16, <1>17, <1>18, <1>19, <1>20, <1>21, <1>22, <1>23
  DEF NetNext, Transaction, Configure, Offering, Taking, Handler


(***************************************************************************)
(* NetInvariant holds in every state of the device.                        *)
(***************************************************************************)
\* The invariant holds before the driver has written anything.
LEMMA InitNetInvariant == NetInit => NetInvariant
<1> SUFFICES ASSUME NetInit PROVE NetInvariant
  OBVIOUS
<1>1. DeviceTypeOK /\ ServiceTypeOK
  BY Ranges DEF NetInit, PerQueue, DeviceTypeOK, ServiceTypeOK, StatusBits
<1>2. MemoryTypeOK /\ DriverTypeOK
  BY Ranges DEF NetInit, PerQueue, MemoryTypeOK, DriverTypeOK
<1>3. ServiceKnows /\ WorkIsKnown
  BY DEF NetInit, PerQueue, ServiceKnows, WorkIsKnown
<1>4. SleepIsSafe
  BY DEF NetInit, PerQueue, SleepIsSafe, More
<1> QED BY <1>1, <1>2, <1>3, <1>4 DEF NetInit, NetInvariant, NetTypeOK

(***************************************************************************)
(* The invariant of the virtio-net device, whatever the driver writes.     *)
(***************************************************************************)
THEOREM NetInvariantHolds == NetSpec => []NetInvariant
<1>1. NetInvariant /\ [NetNext]_vars => NetInvariant'
  BY DeviceTypeStep, ServiceTypeStep, MemoryTypeStep, DriverTypeStep, ServiceKnowsStep,
     WorkIsKnownStep, SleepIsSafeStep, FeaturesStep DEF NetInvariant, NetTypeOK
<1> QED BY <1>1, InitNetInvariant, PTL DEF NetSpec

(***************************************************************************)
(* A published and announced buffer is never left in a forgotten queue     *)
(* (Queue::next clears poll_pending, QueueNotify sets it).                 *)
(***************************************************************************)
THEOREM KickIsNeverLost == NetSpec => []KickNotLost
<1>1. NetInvariant => KickNotLost
  BY DEF NetInvariant, WorkIsKnown, KickNotLost
<1> QED BY <1>1, NetInvariantHolds, PTL

(***************************************************************************)
(* A driver never sleeps on used buffers without an interrupt (Queue::     *)
(* finish reads the flags after publishing; service stores PENDING).       *)
(***************************************************************************)
THEOREM InterruptIsNeverLost == NetSpec => []InterruptNotLost
<1>1. NetInvariant => InterruptNotLost
  BY DEF NetInvariant, SleepIsSafe, InterruptNotLost
<1> QED BY <1>1, NetInvariantHolds, PTL

(***************************************************************************)
(* A running device has accepted features (the writes to Status and        *)
(* DriverFeatures guard each other).                                       *)
(***************************************************************************)
THEOREM RunningIsAlwaysNegotiated == NetSpec => []RunningIsNegotiated
<1>1. NetInvariant => RunningIsNegotiated
  BY DEF NetInvariant, RunningIsNegotiated, running, Running
<1> QED BY <1>1, NetInvariantHolds, PTL

\* A service is in the middle of a buffer only while the device runs: broken()
\* ends it, and Status is written under the lock that the service holds.
BusyIsRunning == pc \in {"count", "head", "entry", "index", "flags"} => running

LEMMA BusyStep ==
    ASSUME BusyIsRunning, [NetNext]_vars
    PROVE  BusyIsRunning'
<1> USE DEF BusyIsRunning, running
<1>1. CASE \E up \in BOOLEAN : BeginService(up)
  BY <1>1 DEF BeginService
<1>2. CASE \E q \in Queues : ReadAvailable(q)
  BY <1>2 DEF ReadAvailable, Return
<1>3. CASE Transaction
  <2>1. CASE CheckCount
    <3> DEFINE count == wrapping_sub(available, next_avail[queue])
    <3>1. CASE count \in 1 .. Num
      <4>1. ~(count > Num)
        <5> HIDE DEF count
        <5> QED BY <3>1, VirtioAssumption
      <4> QED BY <2>1, <4>1 DEF CheckCount
    <3>2. CASE count \notin 1 .. Num
      BY <2>1, <3>2 DEF CheckCount, Return
    <3> QED BY <3>1, <3>2
  <2>2. CASE ReadChain
    BY <2>2 DEF ReadChain, Return
  <2>3. CASE WriteUsedEntry
    BY <2>3 DEF WriteUsedEntry, deviceVars
  <2>4. CASE WriteUsedIndex
    BY <2>4 DEF WriteUsedIndex
  <2>5. CASE ReadFlags
    BY <2>5 DEF ReadFlags, Return
  <2> QED BY <1>3, <2>1, <2>2, <2>3, <2>4, <2>5 DEF Transaction
<1>4. CASE EndService
  BY <1>4 DEF EndService
<1>5. CASE Configure
  BY <1>5 DEF Configure, WriteDriverFeatures, WriteStatus, ResetDevice, WriteQueue,
     WriteQueueReady, Access, serviceVars
<1>6. CASE \E q \in Queues : Offering(q) \/ Taking(q)
  BY <1>6 DEF Offering, OfferBuffer, PublishBuffer, QueueNotify, Taking, TakeBuffer,
     AllowInterrupts, Recheck, Access, deviceVars, serviceVars
<1>7. CASE Handler
  BY <1>7 DEF Handler, TakeInterrupt, InterruptAck, ScanQueues, Access, deviceVars, serviceVars
<1>8. CASE UNCHANGED vars
  BY <1>8 DEF vars, deviceVars, serviceVars
<1> QED BY <1>1, <1>2, <1>3, <1>4, <1>5, <1>6, <1>7, <1>8 DEF NetNext

\* One step of a device that needs a reset.
LEMMA BrokenStep ==
    ASSUME BusyIsRunning, [NetNext]_vars, "NEEDS_RESET" \in status
    PROVE  \/ status' = {}
           \/ "NEEDS_RESET" \in status' /\ UNCHANGED <<used_idx, used_ring>>
<1>1. ~running
  BY DEF running, Running
<1>2. CASE \E up \in BOOLEAN : BeginService(up)
  BY <1>2 DEF BeginService, memoryVars
<1>3. ~(\E q \in Queues : ReadAvailable(q)) /\ ~Transaction
  BY <1>1 DEF BusyIsRunning, ReadAvailable, Transaction, CheckCount, ReadChain, WriteUsedEntry,
     WriteUsedIndex, ReadFlags
<1>4. CASE EndService
  BY <1>4 DEF EndService, deviceVars, memoryVars
<1>5. CASE Configure
  <2>1. ASSUME NEW v \in StatusValues, WriteStatus(v)
        PROVE  "NEEDS_RESET" \in status' /\ UNCHANGED <<used_idx, used_ring>>
    BY <2>1 DEF WriteStatus, NextStatus, memoryVars
  <2> QED BY <1>5, <2>1 DEF Configure, WriteDriverFeatures, ResetDevice, WriteQueue,
             WriteQueueReady, memoryVars
<1>6. CASE \E q \in Queues : Offering(q) \/ Taking(q)
  BY <1>6 DEF Offering, OfferBuffer, PublishBuffer, QueueNotify, Taking, TakeBuffer,
     AllowInterrupts, Recheck, deviceVars, memoryVars
<1>7. CASE Handler
  BY <1>7 DEF Handler, TakeInterrupt, InterruptAck, ScanQueues, deviceVars, memoryVars
<1>8. CASE UNCHANGED vars
  BY <1>8 DEF vars, deviceVars, memoryVars
<1> QED BY <1>2, <1>3, <1>4, <1>5, <1>6, <1>7, <1>8 DEF NetNext

(***************************************************************************)
(* A device that broke() completes nothing until it is reset, whatever is  *)
(* written to Status.                                                      *)
(***************************************************************************)
THEOREM BrokenStaysBroken == NetSpec => BrokenUntilReset
<1>1. NetInit => BusyIsRunning
  BY DEF NetInit, BusyIsRunning
<1>2. BusyIsRunning /\ [NetNext]_vars =>
        [ "NEEDS_RESET" \in status =>
            \/ status' = {}
            \/ "NEEDS_RESET" \in status' /\ UNCHANGED <<used_idx, used_ring>> ]_vars
  BY BrokenStep
<1> QED BY <1>1, <1>2, BusyStep, PTL DEF NetSpec, BrokenUntilReset
-----------------------------------------------------------------------------
(***************************************************************************)
(* Indices that wrap, and the slots that they stand for.                   *)
(***************************************************************************)
LEMMA DivMod ==
    ASSUME NEW d \in Nat \ {0}, NEW x \in Int
    PROVE  x = d * (x \div d) + (x % d) /\ x % d \in 0 .. d - 1 /\ x \div d \in Int
  OBVIOUS

LEMMA ModUnique ==
    ASSUME NEW d \in Nat \ {0}, NEW q \in Int, NEW r \in 0 .. d - 1
    PROVE  (d * q + r) % d = r
  OBVIOUS

LEMMA SlotInRange ==
    ASSUME NEW x \in Int
    PROVE  x % Num \in Buffers
  BY DivMod, VirtioAssumption DEF Buffers

\* Fewer than Num positions in a row are in different slots.
LEMMA SlotsDiffer ==
    ASSUME NEW x \in Int, NEW y \in Int, x < y, y - x < Num
    PROVE  x % Num # y % Num
<1> DEFINE p == x \div Num
           q == y \div Num
           r == x % Num
<1>1. Num \in Nat \ {0}
  BY VirtioAssumption
<1>2. x = Num * p + r /\ p \in Int /\ r \in Int
  BY <1>1, DivMod
<1>3. y = Num * q + (y % Num) /\ q \in Int
  BY <1>1, DivMod
<1>4. SUFFICES ASSUME y % Num = r PROVE FALSE
  OBVIOUS
<1> HIDE DEF p, q, r
<1>5. y - x = Num * (q - p)
  BY <1>1, <1>2, <1>3, <1>4
<1>6. CASE q - p <= 0
  <2>1. Num * (q - p) <= 0
    BY <1>1, <1>2, <1>3, <1>6
  <2> QED BY <1>5, <2>1
<1>7. CASE q - p >= 1
  <2>1. Num * (q - p) >= Num
    BY <1>1, <1>2, <1>3, <1>7
  <2> QED BY <1>1, <1>5, <2>1
<1> QED BY <1>2, <1>3, <1>6, <1>7

\* An index that wraps stands for the same slot.
LEMMA SlotWraps ==
    ASSUME NEW x \in Int
    PROVE  (x + Word16) % Num = x % Num
<1> DEFINE p == x \div Num
           q == Word16 \div Num
           r == x % Num
<1>1. Num \in Nat \ {0} /\ Word16 \in Int /\ Word16 % Num = 0
  BY VirtioAssumption
<1>2. x = Num * p + r /\ p \in Int /\ r \in 0 .. Num - 1
  BY <1>1, DivMod
<1>3. Word16 = Num * q /\ q \in Int
  <2>1. Word16 = Num * q + (Word16 % Num) /\ q \in Int
    BY <1>1, DivMod
  <2> QED BY <1>1, <2>1
<1> HIDE DEF p, q
<1>4. x + Word16 = Num * (p + q) + r
  <2> HIDE DEF r
  <2> QED BY <1>1, <1>2, <1>3
<1>5. (Num * (p + q) + r) % Num = r
  <2>1. p + q \in Int
    BY <1>2, <1>3
  <2> QED BY <1>1, <1>2, <2>1, ModUnique
<1> QED BY <1>4, <1>5

\* The distance of two indices.
LEMMA Distance ==
    ASSUME NEW i \in Index, NEW j \in Index
    PROVE  /\ wrapping_sub(j, i) \in Nat /\ wrapping_sub(j, i) < Word16
           /\ j = i + wrapping_sub(j, i) \/ j + Word16 = i + wrapping_sub(j, i)
           /\ wrapping_sub(i, i) = 0
<1>1. CASE j >= i
  <2>1. (j - i) % Word16 = j - i
    BY <1>1, VirtioAssumption DEF Index
  <2> QED BY <1>1, <2>1, VirtioAssumption DEF wrapping_sub, Index
<1>2. CASE j < i
  <2>1. (j - i) % Word16 = j - i + Word16
    BY <1>2, VirtioAssumption DEF Index
  <2> QED BY <1>2, <2>1, VirtioAssumption DEF wrapping_sub, Index
<1> QED BY <1>1, <1>2, VirtioAssumption DEF Index

\* The distance determines the index.
LEMMA DistanceUnique ==
    ASSUME NEW i \in Index, NEW j \in Index, NEW n \in Nat, n < Word16,
           j = i + n \/ j + Word16 = i + n
    PROVE  wrapping_sub(j, i) = n
<1>1. /\ wrapping_sub(j, i) \in Nat /\ wrapping_sub(j, i) < Word16
      /\ j = i + wrapping_sub(j, i) \/ j + Word16 = i + wrapping_sub(j, i)
  BY Distance
<1> DEFINE w == wrapping_sub(j, i)
<1> HIDE DEF w
<1>2. w \in Nat /\ w < Word16 /\ (j = i + w \/ j + Word16 = i + w)
  BY <1>1 DEF w
<1>3. w = n
  BY <1>2, VirtioAssumption DEF Index
<1> QED BY <1>3 DEF w

LEMMA PlusOne ==
    ASSUME NEW i \in Index
    PROVE  /\ Plus(i, 1) \in Index
           /\ Plus(i, 1) = i + 1 \/ Plus(i, 1) + Word16 = i + 1
<1>1. CASE i = Word16 - 1
  <2>1. (i + 1) % Word16 = 0
    BY <1>1, VirtioAssumption
  <2> QED BY <1>1, <2>1, VirtioAssumption DEF Index, Plus
<1>2. CASE i # Word16 - 1
  <2>1. (i + 1) % Word16 = i + 1
    BY <1>2, VirtioAssumption DEF Index
  <2> QED BY <1>2, <2>1, VirtioAssumption DEF Index, Plus
<1> QED BY <1>1, <1>2

LEMMA DistanceGrows ==
    ASSUME NEW i \in Index, NEW j \in Index, wrapping_sub(j, i) + 1 < Word16
    PROVE  wrapping_sub(Plus(j, 1), i) = wrapping_sub(j, i) + 1
<1> DEFINE n == wrapping_sub(j, i)
           k == Plus(j, 1)
<1>1. n \in Nat /\ n + 1 < Word16 /\ (j = i + n \/ j + Word16 = i + n)
  BY Distance
<1>2. k \in Index /\ (k = j + 1 \/ k + Word16 = j + 1)
  BY PlusOne
<1> HIDE DEF n, k
<1>3. k = i + (n + 1) \/ k + Word16 = i + (n + 1)
  BY <1>1, <1>2, VirtioAssumption DEF Index
<1>4. wrapping_sub(k, i) = n + 1
  BY <1>1, <1>2, <1>3, DistanceUnique
<1> QED BY <1>4 DEF n, k

LEMMA DistanceShrinks ==
    ASSUME NEW i \in Index, NEW j \in Index, wrapping_sub(j, i) # 0
    PROVE  wrapping_sub(j, Plus(i, 1)) = wrapping_sub(j, i) - 1
<1> DEFINE n == wrapping_sub(j, i)
           k == Plus(i, 1)
<1>1. n \in Nat /\ n # 0 /\ n < Word16 /\ (j = i + n \/ j + Word16 = i + n)
  BY Distance
<1>2. k \in Index /\ (k = i + 1 \/ k + Word16 = i + 1)
  BY PlusOne
<1> HIDE DEF n, k
<1>3. n - 1 \in Nat /\ n - 1 < Word16
  BY <1>1, VirtioAssumption
<1>4. j = k + (n - 1) \/ j + Word16 = k + (n - 1)
  BY <1>1, <1>2, VirtioAssumption DEF Index
<1>5. wrapping_sub(j, k) = n - 1
  BY <1>2, <1>3, <1>4, DistanceUnique
<1> QED BY <1>5 DEF n, k

\* The slot at a distance, and after one step.
LEMMA SlotAt ==
    ASSUME NEW i \in Index, NEW j \in Index, NEW k \in Int
    PROVE  /\ (i + wrapping_sub(j, i) + k) % Num = (j + k) % Num
           /\ (Plus(i, 1) + k) % Num = (i + 1 + k) % Num
<1> DEFINE n == wrapping_sub(j, i)
           m == Plus(i, 1)
<1>1. n \in Nat /\ (j = i + n \/ j + Word16 = i + n)
  BY Distance
<1>2. m \in Index /\ (m = i + 1 \/ m + Word16 = i + 1)
  BY PlusOne
<1>3. i \in Int /\ j \in Int /\ m \in Int /\ Word16 \in Int
  BY <1>2, VirtioAssumption DEF Index
<1> HIDE DEF n, m
<1>4. (i + n + k) % Num = (j + k) % Num
  <2>1. CASE j = i + n
    BY <2>1
  <2>2. CASE j + Word16 = i + n
    <3>1. i + n + k = (j + k) + Word16 /\ j + k \in Int
      BY <1>1, <1>3, <2>2
    <3> QED BY <3>1, SlotWraps
  <2> QED BY <1>1, <2>1, <2>2
<1>5. (m + k) % Num = (i + 1 + k) % Num
  <2>1. CASE m = i + 1
    BY <2>1
  <2>2. CASE m + Word16 = i + 1
    <3>1. i + 1 + k = (m + k) + Word16 /\ m + k \in Int
      BY <1>3, <2>2
    <3> QED BY <3>1, SlotWraps
  <2> QED BY <1>2, <2>1, <2>2
<1> QED BY <1>4, <1>5 DEF n, m

-----------------------------------------------------------------------------
(***************************************************************************)
(* The buffers in flight on one queue: m of them, from position l on, the  *)
(* first n of which are used.  They are in the slots of used or avail and  *)
(* are pairwise different, and the driver has none of them.                *)
(***************************************************************************)
Entry(used, avail, l, n, k) == IF k < n THEN used[(l + k) % Num] ELSE avail[(l + k) % Num]

InFlight(used, avail, l, n, m, f) ==
    /\ m <= Num
    /\ \A k \in 0 .. m - 1 :
         /\ Entry(used, avail, l, n, k) \notin f
         /\ \A j \in 0 .. m - 1 :
              j # k => Entry(used, avail, l, n, j) # Entry(used, avail, l, n, k)

\* There are as many buffers as slots, so a free one has a free slot.
LEMMA FreeSlot ==
    ASSUME NEW used \in [Buffers -> Buffers], NEW avail \in [Buffers -> Buffers],
           NEW l \in Index, NEW n \in Nat, NEW m \in Nat, NEW f \in SUBSET Buffers, NEW b \in f,
           InFlight(used, avail, l, n, m, f)
    PROVE  m < Num
<1> DEFINE e(k) == Entry(used, avail, l, n, k)
           g == [k \in 0 .. m |-> IF k = m THEN b ELSE e(k)]
<1>1. ASSUME NEW k \in 0 .. m - 1
      PROVE  e(k) \in Buffers \ f
  <2>1. (l + k) % Num \in Buffers
    <3>1. l + k \in Int
      BY VirtioAssumption DEF Index
    <3> QED BY <3>1, SlotInRange
  <2> QED BY <2>1 DEF Entry, InFlight
<1>2. \A j, k \in 0 .. m - 1 : j # k => e(j) # e(k)
  BY DEF InFlight
<1>3. m \in 0 .. m /\ \A k \in 0 .. m : k = m \/ k \in 0 .. m - 1
  OBVIOUS
<1> HIDE DEF e
<1>4. g \in [0 .. m -> Buffers]
  BY <1>1, <1>3
<1>5. \A j, k \in 0 .. m : j # k => g[j] # g[k]
  BY <1>1, <1>2, <1>3
<1>6. IsFiniteSet(Buffers) /\ Cardinality(Buffers) = Num
  <2>1. 0 \in Int /\ Num - 1 \in Int
    BY VirtioAssumption
  <2> QED BY <2>1, FS_Interval, VirtioAssumption DEF Buffers
<1>7. IsFiniteSet(0 .. m) /\ Cardinality(0 .. m) = m + 1
  <2>1. 0 \in Int /\ m \in Int
    OBVIOUS
  <2> QED BY <2>1, FS_Interval
<1> HIDE DEF g
<1>8. ~(Cardinality(Buffers) < Cardinality(0 .. m))
  BY <1>4, <1>5, <1>6, <1>7, FS_PigeonHole
<1> QED BY <1>6, <1>7, <1>8, VirtioAssumption

LEMMA OfferKeeps ==
    ASSUME NEW used \in [Buffers -> Buffers], NEW avail \in [Buffers -> Buffers],
           NEW l \in Index, NEW n \in Nat, NEW m \in Nat, n <= m,
           NEW f \in SUBSET Buffers, NEW b \in f,
           InFlight(used, avail, l, n, m, f)
    PROVE  /\ m < Num
           /\ InFlight(used, [avail EXCEPT ![(l + m) % Num] = b], l, n, m + 1, f \ {b})
           /\ \A k \in 0 .. m - 1 : (l + k) % Num # (l + m) % Num
<1> DEFINE new == [avail EXCEPT ![(l + m) % Num] = b]
<1>1. m < Num
  BY FreeSlot
<1>2. l \in Int /\ Num \in Nat
  BY VirtioAssumption DEF Index
<1>3. \A k \in 0 .. m - 1 : (l + k) % Num # (l + m) % Num
  <2> TAKE k \in 0 .. m - 1
  <2>1. l + k < l + m /\ (l + m) - (l + k) < Num /\ l + k \in Int /\ l + m \in Int
    BY <1>1, <1>2
  <2> QED BY <2>1, SlotsDiffer
<1>4. \A k \in 0 .. m : (l + k) % Num \in Buffers
  BY <1>2, SlotInRange
<1>5. \A k \in 0 .. m - 1 : Entry(used, new, l, n, k) = Entry(used, avail, l, n, k)
  BY <1>3, <1>4 DEF Entry
<1>6. Entry(used, new, l, n, m) = b
  <2>1. ~(m < n) /\ (l + m) % Num \in Buffers
    BY <1>4
  <2> QED BY <2>1 DEF Entry
<1>7. \A k \in 0 .. (m + 1) - 1 : k = m \/ k \in 0 .. m - 1
  OBVIOUS
<1> HIDE DEF new
<1>8. m + 1 <= Num
  BY <1>1, <1>2
<1>9. ASSUME NEW k \in 0 .. (m + 1) - 1
      PROVE  /\ Entry(used, new, l, n, k) \notin f \ {b}
             /\ \A j \in 0 .. (m + 1) - 1 :
                  j # k => Entry(used, new, l, n, j) # Entry(used, new, l, n, k)
  BY <1>5, <1>6, <1>7 DEF InFlight
<1>10. InFlight(used, new, l, n, m + 1, f \ {b})
  BY <1>8, <1>9 DEF InFlight
<1> QED BY <1>1, <1>3, <1>10 DEF new

LEMMA EntryKeeps ==
    ASSUME NEW used \in [Buffers -> Buffers], NEW avail \in [Buffers -> Buffers],
           NEW l \in Index, NEW n \in Nat, NEW m \in Nat, n < m, NEW f \in SUBSET Buffers,
           NEW b \in Buffers,
           InFlight(used, avail, l, n, m, f)
    PROVE  /\ InFlight([used EXCEPT ![(l + n) % Num] = b], avail, l, n, m, f)
           /\ \A k \in 0 .. n - 1 : (l + k) % Num # (l + n) % Num
<1> DEFINE new == [used EXCEPT ![(l + n) % Num] = b]
<1>1. l \in Int /\ Num \in Nat /\ m <= Num
  BY VirtioAssumption DEF Index, InFlight
<1>2. \A k \in 0 .. n - 1 : (l + k) % Num # (l + n) % Num
  <2> TAKE k \in 0 .. n - 1
  <2>1. l + k < l + n /\ (l + n) - (l + k) < Num /\ l + k \in Int /\ l + n \in Int
    BY <1>1
  <2> QED BY <2>1, SlotsDiffer
<1>3. \A k \in 0 .. m - 1 : (l + k) % Num \in Buffers
  BY <1>1, SlotInRange
<1>4. \A k \in 0 .. m - 1 : k < n => k \in 0 .. n - 1
  OBVIOUS
<1>5. \A k \in 0 .. m - 1 : Entry(new, avail, l, n, k) = Entry(used, avail, l, n, k)
  BY <1>2, <1>3, <1>4 DEF Entry
<1> HIDE DEF new
<1>6. InFlight(new, avail, l, n, m, f)
  BY <1>5 DEF InFlight
<1> QED BY <1>2, <1>6 DEF new

LEMMA CompleteKeeps ==
    ASSUME NEW used \in [Buffers -> Buffers], NEW avail \in [Buffers -> Buffers],
           NEW l \in Index, NEW n \in Nat, NEW m \in Nat, n < m, NEW f \in SUBSET Buffers,
           used[(l + n) % Num] = avail[(l + n) % Num],
           InFlight(used, avail, l, n, m, f)
    PROVE  InFlight(used, avail, l, n + 1, m, f)
<1>1. \A k \in 0 .. m - 1 : k < n + 1 <=> k < n \/ k = n
  OBVIOUS
<1>2. \A k \in 0 .. m - 1 : Entry(used, avail, l, n + 1, k) = Entry(used, avail, l, n, k)
  BY <1>1 DEF Entry
<1> QED BY <1>2 DEF InFlight

LEMMA TakeKeeps ==
    ASSUME NEW used \in [Buffers -> Buffers], NEW avail \in [Buffers -> Buffers],
           NEW l \in Index, NEW n \in Nat, NEW m \in Nat, 0 < n, n <= m, NEW f \in SUBSET Buffers,
           InFlight(used, avail, l, n, m, f)
    PROVE  InFlight(used, avail, Plus(l, 1), n - 1, m - 1, f \cup {used[l % Num]})
<1> DEFINE e(k) == Entry(used, avail, l, n, k)
           new(k) == Entry(used, avail, Plus(l, 1), n - 1, k)
<1>1. e(0) = used[l % Num]
  <2>1. l + 0 = l
    BY DEF Index
  <2> QED BY <2>1 DEF Entry
<1>2. \A k \in 0 .. (m - 1) - 1 : new(k) = e(k + 1) /\ k + 1 \in 0 .. m - 1 /\ k + 1 # 0
  <2> TAKE k \in 0 .. (m - 1) - 1
  <2>1. (Plus(l, 1) + k) % Num = (l + 1 + k) % Num
    BY SlotAt
  <2>2. l + 1 + k = l + (k + 1)
    BY DEF Index
  <2>3. k < n - 1 <=> k + 1 < n
    OBVIOUS
  <2> QED BY <2>1, <2>2, <2>3 DEF Entry
<1>3. \A j, k \in 0 .. (m - 1) - 1 : j # k => j + 1 # k + 1
  OBVIOUS
<1>4. 0 \in 0 .. m - 1 /\ m - 1 <= Num
  BY VirtioAssumption DEF InFlight
<1>5. \A k \in 0 .. m - 1 : e(k) \notin f /\ \A j \in 0 .. m - 1 : j # k => e(j) # e(k)
  BY DEF InFlight
<1> HIDE DEF e
<1>6. ASSUME NEW k \in 0 .. (m - 1) - 1
      PROVE  /\ new(k) \notin f \cup {used[l % Num]}
             /\ \A j \in 0 .. (m - 1) - 1 : j # k => new(j) # new(k)
  <2>1. new(k) = e(k + 1) /\ k + 1 \in 0 .. m - 1 /\ k + 1 # 0
    BY <1>2
  <2>2. ASSUME NEW j \in 0 .. (m - 1) - 1, j # k
        PROVE  new(j) # new(k)
    <3>1. new(j) = e(j + 1) /\ j + 1 \in 0 .. m - 1 /\ j + 1 # k + 1
      BY <1>2, <1>3, <2>2
    <3> HIDE DEF new
    <3> QED BY <1>5, <2>1, <3>1
  <2> HIDE DEF new
  <2>3. e(k + 1) \notin f /\ e(k + 1) # e(0)
    BY <1>4, <1>5, <2>1
  <2> QED BY <1>1, <2>1, <2>2, <2>3
<1> QED BY <1>4, <1>6 DEF InFlight

-----------------------------------------------------------------------------
(***************************************************************************)
(* Windows of a ring.                                                      *)
(***************************************************************************)
LEMMA WindowType ==
    ASSUME NEW ring \in [Buffers -> Buffers], NEW i \in Index, NEW j \in Index
    PROVE  /\ Window(ring, i, j) \in Seq(Buffers)
           /\ Len(Window(ring, i, j)) = wrapping_sub(j, i)
           /\ \A k \in 1 .. wrapping_sub(j, i) : Window(ring, i, j)[k] = ring[(i + k - 1) % Num]
           /\ wrapping_sub(j, i) = 0 => Window(ring, i, j) = <<>>
<1> DEFINE n == wrapping_sub(j, i)
<1>1. n \in Nat
  BY Distance
<1>2. \A k \in 1 .. n : ring[(i + k - 1) % Num] \in Buffers
  <2> TAKE k \in 1 .. n
  <2>1. i + k - 1 \in Int
    BY <1>1 DEF Index
  <2> QED BY <2>1, SlotInRange
<1> HIDE DEF n
<1>3. Window(ring, i, j) = [k \in 1 .. n |-> ring[(i + k - 1) % Num]]
  BY DEF Window, n
<1>4. Window(ring, i, j) \in Seq(Buffers) /\ Len(Window(ring, i, j)) = n
  BY <1>1, <1>2, <1>3
<1>5. n = 0 => Window(ring, i, j) = <<>>
  BY <1>4, EmptySeq
<1> QED BY <1>3, <1>4, <1>5 DEF n

\* A window grows at its end and shrinks at its start.
LEMMA WindowGrows ==
    ASSUME NEW ring \in [Buffers -> Buffers], NEW i \in Index, NEW j \in Index,
           wrapping_sub(j, i) + 1 < Word16
    PROVE  Window(ring, i, Plus(j, 1)) = Append(Window(ring, i, j), ring[j % Num])
<1> DEFINE n == wrapping_sub(j, i)
           s == Window(ring, i, j)
           t == Window(ring, i, Plus(j, 1))
           x == ring[j % Num]
<1>1. n \in Nat /\ wrapping_sub(Plus(j, 1), i) = n + 1 /\ Plus(j, 1) \in Index
  BY Distance, DistanceGrows, PlusOne
<1>2. s \in Seq(Buffers) /\ Len(s) = n /\ \A k \in 1 .. n : s[k] = ring[(i + k - 1) % Num]
  BY WindowType
<1>3. t \in Seq(Buffers) /\ Len(t) = n + 1
      /\ \A k \in 1 .. n + 1 : t[k] = ring[(i + k - 1) % Num]
  <2> DEFINE next == Plus(j, 1)
  <2> HIDE DEF n
  <2>1. next \in Index /\ wrapping_sub(next, i) = n + 1 /\ t = Window(ring, i, next)
    BY <1>1
  <2> HIDE DEF next, t
  <2>2. /\ Window(ring, i, next) \in Seq(Buffers)
        /\ Len(Window(ring, i, next)) = wrapping_sub(next, i)
        /\ \A k \in 1 .. wrapping_sub(next, i) :
             Window(ring, i, next)[k] = ring[(i + k - 1) % Num]
    BY <2>1, WindowType
  <2> QED BY <2>1, <2>2, Zenon
<1>4. x \in Buffers /\ x = ring[(i + (n + 1) - 1) % Num]
  <2>1. (i + n + 0) % Num = (j + 0) % Num
    BY SlotAt
  <2>2. i + n + 0 = i + (n + 1) - 1 /\ j + 0 = j /\ j \in Int
    BY <1>1 DEF Index
  <2>3. j % Num \in Buffers
    BY <2>2, SlotInRange
  <2> HIDE DEF n
  <2> QED BY <2>1, <2>2, <2>3
<1> HIDE DEF n, s, t, x
<1>5. /\ Append(s, x) \in Seq(Buffers) /\ Len(Append(s, x)) = n + 1
      /\ \A k \in 1 .. n : Append(s, x)[k] = s[k]
      /\ Append(s, x)[n + 1] = x
  BY <1>1, <1>2, <1>4, AppendProperties
<1>6. \A k \in 1 .. n + 1 : k \in 1 .. n \/ k = n + 1
  BY <1>1
<1>7. ASSUME NEW k \in 1 .. n + 1
      PROVE  t[k] = Append(s, x)[k]
  <2>1. CASE k \in 1 .. n
    BY <1>2, <1>3, <1>5, <2>1
  <2>2. CASE k = n + 1
    BY <1>3, <1>4, <1>5, <2>2
  <2> QED BY <1>6, <2>1, <2>2
<1>8. t = Append(s, x)
  BY <1>1, <1>3, <1>5, <1>7, SeqEqual
<1> QED BY <1>8 DEF s, t, x

LEMMA WindowShrinks ==
    ASSUME NEW ring \in [Buffers -> Buffers], NEW i \in Index, NEW j \in Index,
           wrapping_sub(j, i) # 0
    PROVE  /\ Window(ring, i, j) # <<>> /\ Head(Window(ring, i, j)) = ring[i % Num]
           /\ Window(ring, Plus(i, 1), j) = Tail(Window(ring, i, j))
<1> DEFINE n == wrapping_sub(j, i)
           s == Window(ring, i, j)
           t == Window(ring, Plus(i, 1), j)
<1>1. n \in Nat \ {0} /\ wrapping_sub(j, Plus(i, 1)) = n - 1 /\ Plus(i, 1) \in Index
  BY Distance, DistanceShrinks, PlusOne
<1>2. s \in Seq(Buffers) /\ Len(s) = n /\ \A k \in 1 .. n : s[k] = ring[(i + k - 1) % Num]
  BY WindowType
<1>3. t \in Seq(Buffers) /\ Len(t) = n - 1
      /\ \A k \in 1 .. n - 1 : t[k] = ring[(Plus(i, 1) + k - 1) % Num]
  <2> DEFINE next == Plus(i, 1)
  <2> HIDE DEF n
  <2>1. next \in Index /\ wrapping_sub(j, next) = n - 1 /\ t = Window(ring, next, j)
    BY <1>1
  <2> HIDE DEF next, t
  <2>2. /\ Window(ring, next, j) \in Seq(Buffers)
        /\ Len(Window(ring, next, j)) = wrapping_sub(j, next)
        /\ \A k \in 1 .. wrapping_sub(j, next) :
             Window(ring, next, j)[k] = ring[(next + k - 1) % Num]
    BY <2>1, WindowType
  <2>3. /\ t \in Seq(Buffers) /\ Len(t) = n - 1
        /\ \A k \in 1 .. n - 1 : t[k] = ring[(next + k - 1) % Num]
    BY <2>1, <2>2, Zenon
  <2> QED BY <2>3 DEF next
<1>4. \A k \in 1 .. n - 1 : (Plus(i, 1) + k - 1) % Num = (i + (k + 1) - 1) % Num
  <2> TAKE k \in 1 .. n - 1
  <2>1. (Plus(i, 1) + (k - 1)) % Num = (i + 1 + (k - 1)) % Num
    BY <1>1, SlotAt
  <2>2. Plus(i, 1) + (k - 1) = Plus(i, 1) + k - 1 /\ i + 1 + (k - 1) = i + (k + 1) - 1
    BY <1>1 DEF Index
  <2> QED BY <2>1, <2>2
<1>5. i + 1 - 1 = i
  BY DEF Index
<1> HIDE DEF n, s, t
<1>6. s # <<>> /\ Head(s) = ring[i % Num]
  <2>1. 1 \in 1 .. n
    BY <1>1
  <2>2. s # <<>>
    BY <1>1, <1>2, EmptySeq
  <2>3. Head(s) = s[1]
    BY <1>2, <2>2, HeadTailProperties
  <2> QED BY <1>2, <1>5, <2>1, <2>2, <2>3
<1>7. /\ Tail(s) \in Seq(Buffers) /\ Len(Tail(s)) = n - 1
      /\ \A k \in 1 .. n - 1 : Tail(s)[k] = s[k + 1]
  BY <1>2, <1>6, HeadTailProperties
<1>8. ASSUME NEW k \in 1 .. n - 1
      PROVE  t[k] = Tail(s)[k]
  <2>1. k + 1 \in 1 .. n
    BY <1>1
  <2> QED BY <1>2, <1>3, <1>4, <1>7, <2>1
<1>9. t = Tail(s)
  BY <1>1, <1>3, <1>7, <1>8, SeqEqual
<1> QED BY <1>6, <1>9 DEF s, t

\* A write to a slot outside the window does not show in it.
LEMMA WindowKept ==
    ASSUME NEW ring, NEW new, NEW i \in Index, NEW j \in Index,
           \A k \in 0 .. wrapping_sub(j, i) - 1 : new[(i + k) % Num] = ring[(i + k) % Num]
    PROVE  Window(new, i, j) = Window(ring, i, j)
<1> DEFINE n == wrapping_sub(j, i)
<1>1. n \in Nat
  BY Distance
<1>2. ASSUME NEW k \in 1 .. n
      PROVE  new[(i + k - 1) % Num] = ring[(i + k - 1) % Num]
  <2>1. i + k - 1 = i + (k - 1) /\ k - 1 \in 0 .. n - 1
    BY <1>1 DEF Index
  <2> QED BY <2>1
<1> HIDE DEF n
<1>3. /\ Window(new, i, j) = [k \in 1 .. n |-> new[(i + k - 1) % Num]]
      /\ Window(ring, i, j) = [k \in 1 .. n |-> ring[(i + k - 1) % Num]]
  BY DEF Window, n
<1> QED BY <1>2, <1>3

-----------------------------------------------------------------------------
(***************************************************************************)
(* The invariant behind the refinement: what is in flight on each queue,   *)
(* and what a service knows of the buffer it is working on.                *)
(***************************************************************************)
UsedCount(q) == wrapping_sub(used_idx[q], last_used[q])
AvailCount(q) == wrapping_sub(avail_idx[q], used_idx[q])
Flying(q) == UsedCount(q) + AvailCount(q) + (IF offering[q] = "publish" THEN 1 ELSE 0)

FlightIsSound ==
    \A q \in Queues :
        /\ next_avail[q] = used_idx[q] /\ next_used[q] = used_idx[q]
        /\ InFlight(used_ring[q], avail_ring[q], last_used[q], UsedCount(q), Flying(q), free[q])

ServiceIsSound ==
    /\ pc = "count" => wrapping_sub(available, used_idx[queue]) <= AvailCount(queue)
    /\ pc \in {"head", "entry", "index"} => 0 < AvailCount(queue)
    /\ pc \in {"entry", "index"} => head = avail_ring[queue][used_idx[queue] % Num]
    /\ pc = "index" => used_ring[queue][used_idx[queue] % Num] = head

LEMMA QueueTypes ==
    ASSUME NetTypeOK, NEW q \in Queues
    PROVE  /\ used_idx[q] \in Index /\ avail_idx[q] \in Index /\ last_used[q] \in Index
           /\ used_ring[q] \in [Buffers -> Buffers] /\ avail_ring[q] \in [Buffers -> Buffers]
           /\ free[q] \in SUBSET Buffers
           /\ UsedCount(q) \in Nat /\ AvailCount(q) \in Nat /\ Flying(q) \in Nat
           /\ UsedCount(q) + AvailCount(q) <= Flying(q)
           /\ offering[q] = "publish" => Flying(q) = UsedCount(q) + AvailCount(q) + 1
           /\ offering[q] # "publish" => Flying(q) = UsedCount(q) + AvailCount(q)
<1>1. /\ used_idx[q] \in Index /\ avail_idx[q] \in Index /\ last_used[q] \in Index
      /\ used_ring[q] \in [Buffers -> Buffers] /\ avail_ring[q] \in [Buffers -> Buffers]
      /\ free[q] \in SUBSET Buffers
  BY DEF NetTypeOK, MemoryTypeOK, DriverTypeOK
<1>2. UsedCount(q) \in Nat /\ AvailCount(q) \in Nat
  BY <1>1, Distance DEF UsedCount, AvailCount
<1> QED BY <1>1, <1>2 DEF Flying

\* Every queue keeps what is in flight, unless it is the one at work.
LEMMA OtherQueues ==
    ASSUME FlightIsSound, NEW q \in Queues,
           next_avail'[q] = next_avail[q], next_used'[q] = next_used[q],
           used_idx'[q] = used_idx[q], avail_idx'[q] = avail_idx[q],
           last_used'[q] = last_used[q], used_ring'[q] = used_ring[q],
           avail_ring'[q] = avail_ring[q], free'[q] = free[q],
           offering'[q] = "publish" <=> offering[q] = "publish"
    PROVE  /\ next_avail'[q] = used_idx'[q] /\ next_used'[q] = used_idx'[q]
           /\ InFlight(used_ring'[q], avail_ring'[q], last_used'[q], UsedCount(q)', Flying(q)',
                       free'[q])
           /\ Offered(q)' = Offered(q) /\ Completed(q)' = Completed(q)
<1>1. UsedCount(q)' = UsedCount(q) /\ AvailCount(q)' = AvailCount(q)
  BY DEF UsedCount, AvailCount
<1>2. Flying(q)' = Flying(q)
  BY <1>1 DEF Flying
<1>3. Offered(q)' = Offered(q) /\ Completed(q)' = Completed(q)
  BY DEF Offered, Completed
<1> QED BY <1>1, <1>2, <1>3 DEF FlightIsSound

\* A step that leaves rings and indices alone.
LEMMA QuietQueues ==
    ASSUME FlightIsSound,
           UNCHANGED <<next_avail, next_used, used_idx, avail_idx, last_used, used_ring,
                       avail_ring, free>>,
           \A q \in Queues : offering'[q] = "publish" <=> offering[q] = "publish"
    PROVE  FlightIsSound' /\ UNCHANGED Abstract!queueVars
<1>1. \A q \in Queues :
        /\ next_avail'[q] = used_idx'[q] /\ next_used'[q] = used_idx'[q]
        /\ InFlight(used_ring'[q], avail_ring'[q], last_used'[q], UsedCount(q)', Flying(q)',
                    free'[q])
        /\ Offered(q)' = Offered(q) /\ Completed(q)' = Completed(q)
  BY OtherQueues
<1> QED BY <1>1 DEF FlightIsSound, Abstract!queueVars

\* OfferBuffer: the buffer is in a slot of avail that no window shows.
LEMMA OfferStep ==
    ASSUME NetInvariant, FlightIsSound, ServiceIsSound,
           NEW q \in Queues, NEW b \in Buffers, OfferBuffer(q, b)
    PROVE  FlightIsSound' /\ ServiceIsSound' /\ UNCHANGED Abstract!queueVars
<1> DEFINE l == last_used[q]
           n == UsedCount(q)
           m == Flying(q)
           a == avail_idx[q]
           u == used_idx[q]
<1>1. /\ u \in Index /\ a \in Index /\ l \in Index
      /\ used_ring[q] \in [Buffers -> Buffers] /\ avail_ring[q] \in [Buffers -> Buffers]
      /\ free[q] \in SUBSET Buffers
      /\ n \in Nat /\ AvailCount(q) \in Nat /\ m \in Nat /\ m = n + AvailCount(q)
  BY QueueTypes DEF NetInvariant, OfferBuffer
<1>2. InFlight(used_ring[q], avail_ring[q], l, n, m, free[q]) /\ b \in free[q]
  BY DEF FlightIsSound, OfferBuffer
<1>3. \A k \in 0 .. AvailCount(q) : (u + k) % Num = (l + (n + k)) % Num
  <2> TAKE k \in 0 .. AvailCount(q)
  <2>1. (l + wrapping_sub(u, l) + k) % Num = (u + k) % Num
    BY <1>1, SlotAt
  <2>2. l + wrapping_sub(u, l) + k = l + (n + k)
    BY <1>1, VirtioAssumption DEF UsedCount, Index
  <2> QED BY <2>1, <2>2
<1>4. a % Num = (l + m) % Num
  <2>1. (u + wrapping_sub(a, u) + 0) % Num = (a + 0) % Num
    BY <1>1, SlotAt
  <2>2. u + wrapping_sub(a, u) + 0 = u + AvailCount(q) /\ a + 0 = a
    BY <1>1, VirtioAssumption DEF AvailCount, Index
  <2> QED BY <1>1, <1>3, <2>1, <2>2
<1>5. /\ avail_ring' = [avail_ring EXCEPT ![q] = [avail_ring[q] EXCEPT ![a % Num] = b]]
      /\ free' = [free EXCEPT ![q] = free[q] \ {b}]
      /\ offering' = [offering EXCEPT ![q] = "publish"]
      /\ UNCHANGED <<next_avail, next_used, used_idx, avail_idx, last_used, used_ring>>
      /\ UNCHANGED serviceVars
  BY DEF OfferBuffer, deviceVars
<1>6. /\ avail_ring'[q] = [avail_ring[q] EXCEPT ![a % Num] = b] /\ free'[q] = free[q] \ {b}
      /\ offering'[q] = "publish"
      /\ \A p \in Queues \ {q} :
           avail_ring'[p] = avail_ring[p] /\ free'[p] = free[p] /\ offering'[p] = offering[p]
  BY <1>5 DEF NetInvariant, NetTypeOK, MemoryTypeOK, DriverTypeOK
<1>7. n = UsedCount(q)' /\ AvailCount(q)' = AvailCount(q)
  BY <1>5 DEF UsedCount, AvailCount
<1>8. Flying(q)' = m + 1
  BY <1>1, <1>6, <1>7 DEF Flying
<1>9. /\ InFlight(used_ring[q], [avail_ring[q] EXCEPT ![a % Num] = b], l, n, m + 1, free[q] \ {b})
      /\ \A k \in 0 .. m - 1 : (l + k) % Num # a % Num
  <2>1. n <= m
    BY <1>1
  <2> QED BY <1>1, <1>2, <1>4, <2>1, OfferKeeps
<1> HIDE DEF n, m
<1>10. \A k \in 0 .. AvailCount(q) - 1 : (u + k) % Num # a % Num
  <2> TAKE k \in 0 .. AvailCount(q) - 1
  <2>1. n + k \in 0 .. m - 1 /\ k \in 0 .. AvailCount(q)
    BY <1>1
  <2> QED BY <1>3, <1>9, <2>1
<1>11. Offered(q)' = Offered(q) /\ Completed(q)' = Completed(q)
  <2>1. Completed(q)' = Completed(q)
    BY <1>5 DEF Completed
  <2>2. Window(avail_ring'[q], u, a) = Window(avail_ring[q], u, a)
    <3>1. ASSUME NEW k \in 0 .. wrapping_sub(a, u) - 1
          PROVE  avail_ring'[q][(u + k) % Num] = avail_ring[q][(u + k) % Num]
      <4>1. k \in 0 .. AvailCount(q) - 1 /\ u + k \in Int
        BY <1>1 DEF AvailCount, Index
      <4> QED BY <1>1, <1>6, <1>10, <4>1, SlotInRange
    <3> DEFINE ring == avail_ring[q]
               new == avail_ring'[q]
    <3> HIDE DEF ring, new, a, u
    <3>2. Window(new, u, a) = Window(ring, u, a)
      BY <1>1, <3>1, WindowKept DEF ring, new
    <3> QED BY <3>2 DEF ring, new
  <2> QED BY <1>5, <1>6, <2>1, <2>2 DEF Offered
<1>12. ASSUME NEW p \in Queues
       PROVE  /\ next_avail'[p] = used_idx'[p] /\ next_used'[p] = used_idx'[p]
              /\ InFlight(used_ring'[p], avail_ring'[p], last_used'[p], UsedCount(p)', Flying(p)',
                          free'[p])
              /\ Offered(p)' = Offered(p) /\ Completed(p)' = Completed(p)
  <2>1. CASE p = q
    BY <1>5, <1>6, <1>7, <1>8, <1>9, <1>11, <2>1 DEF FlightIsSound
  <2>2. CASE p # q
    BY <1>5, <1>6, <2>2, OtherQueues
  <2> QED BY <2>1, <2>2
<1>13. ServiceIsSound'
  <2>1. UNCHANGED <<pc, queue, available, head>> /\ AvailCount(queue)' = AvailCount(queue)
    BY <1>5 DEF serviceVars, AvailCount
  <2>2. ASSUME pc \in {"head", "entry", "index"}
        PROVE  avail_ring'[queue][u' % Num] = avail_ring[queue][u % Num] \/ queue # q
    <3>1. CASE queue = q
      <4>1. 0 \in 0 .. AvailCount(q) - 1 /\ u + 0 = u /\ u \in Int
        BY <1>1, <2>2, <3>1 DEF ServiceIsSound, Index
      <4>2. u % Num # a % Num /\ u % Num \in Buffers
        BY <1>10, <4>1, SlotInRange
      <4> QED BY <1>1, <1>5, <1>6, <3>1, <4>2
    <3> QED BY <3>1
  <2>3. pc \in {"head", "entry", "index"} => queue \in Queues
    BY DEF NetInvariant, ServiceKnows
  <2>4. pc \in {"entry", "index"} =>
          avail_ring'[queue][used_idx'[queue] % Num] = avail_ring[queue][used_idx[queue] % Num]
    BY <1>5, <1>6, <2>2, <2>3
  <2> QED BY <1>5, <2>1, <2>4 DEF ServiceIsSound
<1> QED BY <1>12, <1>13 DEF FlightIsSound, Abstract!queueVars

\* A step of one queue that moves the abstract queue as well.
LEMMA OneQueue ==
    ASSUME FlightIsSound, NEW q \in Queues,
           \A p \in Queues \ {q} :
             /\ next_avail'[p] = next_avail[p] /\ next_used'[p] = next_used[p]
             /\ used_idx'[p] = used_idx[p] /\ avail_idx'[p] = avail_idx[p]
             /\ last_used'[p] = last_used[p] /\ used_ring'[p] = used_ring[p]
             /\ avail_ring'[p] = avail_ring[p] /\ free'[p] = free[p]
             /\ offering'[p] = offering[p],
           next_avail'[q] = used_idx'[q], next_used'[q] = used_idx'[q],
           InFlight(used_ring'[q], avail_ring'[q], last_used'[q], UsedCount(q)', Flying(q)',
                    free'[q])
    PROVE  /\ FlightIsSound'
           /\ \A p \in Queues \ {q} : Offered(p)' = Offered(p) /\ Completed(p)' = Completed(p)
<1>1. ASSUME NEW p \in Queues \ {q}
      PROVE  /\ next_avail'[p] = used_idx'[p] /\ next_used'[p] = used_idx'[p]
             /\ InFlight(used_ring'[p], avail_ring'[p], last_used'[p], UsedCount(p)', Flying(p)',
                         free'[p])
             /\ Offered(p)' = Offered(p) /\ Completed(p)' = Completed(p)
  BY OtherQueues
<1> QED BY <1>1 DEF FlightIsSound

\* PublishBuffer: the buffer is offered.
LEMMA PublishStep ==
    ASSUME NetInvariant, ~GuestsMisbehave, FlightIsSound, ServiceIsSound,
           NEW q \in Queues, PublishBuffer(q)
    PROVE  FlightIsSound' /\ ServiceIsSound' /\ \E b \in Buffers : Abstract!Offer(q, b)
<1> DEFINE l == last_used[q]
           n == UsedCount(q)
           m == Flying(q)
           a == avail_idx[q]
           u == used_idx[q]
           c == AvailCount(q)
           b == avail_ring[q][a % Num]
<1>1. /\ u \in Index /\ a \in Index /\ l \in Index
      /\ used_ring[q] \in [Buffers -> Buffers] /\ avail_ring[q] \in [Buffers -> Buffers]
      /\ n \in Nat /\ c \in Nat /\ m \in Nat /\ m = n + c + 1
  BY QueueTypes DEF NetInvariant, PublishBuffer
<1>2. InFlight(used_ring[q], avail_ring[q], l, n, m, free[q]) /\ m <= Num
  BY DEF FlightIsSound, InFlight
<1>3. c + 1 < Word16
  <2> HIDE DEF n, m, c
  <2> QED BY <1>1, <1>2, VirtioAssumption
<1>4. /\ avail_idx' = [avail_idx EXCEPT ![q] = Plus(a, 1)]
      /\ offering' = [offering EXCEPT ![q] = "notify"]
      /\ UNCHANGED <<next_avail, next_used, used_idx, last_used, used_ring, avail_ring, free>>
      /\ UNCHANGED serviceVars
  BY DEF PublishBuffer, deviceVars
<1>5. /\ avail_idx'[q] = Plus(a, 1) /\ offering'[q] = "notify"
      /\ \A p \in Queues \ {q} : avail_idx'[p] = avail_idx[p] /\ offering'[p] = offering[p]
  BY <1>4 DEF NetInvariant, NetTypeOK, MemoryTypeOK, DriverTypeOK
<1>6. UsedCount(q)' = n /\ AvailCount(q)' = c + 1
  <2>1. wrapping_sub(Plus(a, 1), u) = wrapping_sub(a, u) + 1
    BY <1>1, <1>3, DistanceGrows DEF AvailCount
  <2> QED BY <1>4, <1>5, <2>1 DEF UsedCount, AvailCount
<1>7. Flying(q)' = m
  BY <1>1, <1>5, <1>6 DEF Flying
<1>8. FlightIsSound' /\ \A p \in Queues \ {q} : Offered(p)' = Offered(p) /\ Completed(p)' = Completed(p)
  <2>1. InFlight(used_ring'[q], avail_ring'[q], last_used'[q], UsedCount(q)', Flying(q)', free'[q])
    BY <1>2, <1>4, <1>6, <1>7
  <2>2. next_avail'[q] = used_idx'[q] /\ next_used'[q] = used_idx'[q]
    BY <1>4 DEF FlightIsSound
  <2> QED BY <1>4, <1>5, <2>1, <2>2, OneQueue
<1>9. Offered(q)' = Append(Offered(q), b) /\ Completed(q)' = Completed(q)
  <2>1. Window(avail_ring[q], u, Plus(a, 1)) = Append(Window(avail_ring[q], u, a), b)
    BY <1>1, <1>3, WindowGrows DEF AvailCount
  <2> QED BY <1>4, <1>5, <2>1 DEF Offered, Completed
<1>10. b \in Buffers
  <2>1. a % Num \in Buffers
    BY <1>1, Ranges
  <2> QED BY <1>1, <2>1
<1>11. Abstract!Offer(q, b)
  BY <1>8, <1>9 DEF Abstract!Offer
<1>12. ServiceIsSound'
  <2>1. UNCHANGED <<pc, queue, available, head>>
    BY <1>4 DEF serviceVars
  <2>2. SUFFICES ASSUME pc \in {"count", "head", "entry", "index"}
                  PROVE  ServiceIsSound'
    BY <2>1 DEF ServiceIsSound
  <2>3. queue \in Queues /\ available \in Index
    BY <2>2 DEF NetInvariant, ServiceKnows, NetTypeOK, ServiceTypeOK
  <2>4. AvailCount(queue) \in Nat /\ used_idx[queue] \in Index
    BY <2>3, QueueTypes DEF NetInvariant
  <2>5. AvailCount(queue)' = AvailCount(queue) \/ AvailCount(queue)' = AvailCount(queue) + 1
    <3>1. CASE queue = q
      BY <1>6, <2>1, <3>1
    <3>2. CASE queue # q
      BY <1>4, <1>5, <2>1, <2>3, <3>2 DEF AvailCount
    <3> QED BY <3>1, <3>2
  <2>6. wrapping_sub(available, used_idx[queue]) \in Nat
    BY <2>3, <2>4, Distance
  <2>7. pc = "count" => wrapping_sub(available, used_idx[queue]) <= AvailCount(queue)'
    BY <2>4, <2>5, <2>6 DEF ServiceIsSound
  <2>8. 0 < AvailCount(queue) => 0 < AvailCount(queue)'
    BY <2>4, <2>5
  <2> QED BY <1>4, <2>1, <2>7, <2>8 DEF ServiceIsSound
<1> QED BY <1>8, <1>10, <1>11, <1>12

\* WriteUsedEntry: the entry is written past the window of used buffers.
LEMMA UsedEntryStep ==
    ASSUME NetInvariant, FlightIsSound, ServiceIsSound,
           NEW q \in Queues, q = queue, WriteUsedEntry
    PROVE  FlightIsSound' /\ ServiceIsSound' /\ UNCHANGED Abstract!queueVars
<1> DEFINE l == last_used[q]
           n == UsedCount(q)
           m == Flying(q)
           u == used_idx[q]
<1>1. pc = "entry" /\ q \in Queues /\ head \in Buffers
  BY DEF WriteUsedEntry, NetInvariant, ServiceKnows, NetTypeOK, ServiceTypeOK
<1>2. /\ u \in Index /\ l \in Index
      /\ used_ring[q] \in [Buffers -> Buffers] /\ avail_ring[q] \in [Buffers -> Buffers]
      /\ free[q] \in SUBSET Buffers
      /\ n \in Nat /\ m \in Nat /\ AvailCount(q) \in Nat /\ n + AvailCount(q) <= m
  BY <1>1, QueueTypes DEF NetInvariant
<1>3. n < m
  BY <1>1, <1>2 DEF ServiceIsSound
<1>4. InFlight(used_ring[q], avail_ring[q], l, n, m, free[q]) /\ next_used[q] = u
  BY <1>1 DEF FlightIsSound
<1>5. u % Num = (l + n) % Num
  <2>1. (l + wrapping_sub(u, l) + 0) % Num = (u + 0) % Num
    BY <1>2, SlotAt
  <2>2. l + wrapping_sub(u, l) + 0 = l + n /\ u + 0 = u
    BY <1>2, VirtioAssumption DEF UsedCount, Index
  <2> QED BY <2>1, <2>2
<1>6. /\ used_ring' = [used_ring EXCEPT ![q] = [used_ring[q] EXCEPT ![u % Num] = head]]
      /\ pc' = "index"
      /\ UNCHANGED <<next_avail, next_used, used_idx, avail_idx, last_used, avail_ring, free,
                     offering, queue, available, head>>
  BY <1>4 DEF WriteUsedEntry, deviceVars, driverVars
<1>7. /\ used_ring'[q] = [used_ring[q] EXCEPT ![u % Num] = head]
      /\ \A p \in Queues \ {q} : used_ring'[p] = used_ring[p]
  BY <1>1, <1>6 DEF NetInvariant, NetTypeOK, MemoryTypeOK
<1>8. UsedCount(q)' = n /\ Flying(q)' = m /\ AvailCount(q)' = AvailCount(q)
  BY <1>6 DEF UsedCount, AvailCount, Flying
<1>9. /\ InFlight([used_ring[q] EXCEPT ![u % Num] = head], avail_ring[q], l, n, m, free[q])
      /\ \A k \in 0 .. n - 1 : (l + k) % Num # u % Num
  BY <1>1, <1>2, <1>3, <1>4, <1>5, EntryKeeps
<1>10. FlightIsSound' /\ \A p \in Queues \ {q} : Offered(p)' = Offered(p) /\ Completed(p)' = Completed(p)
  <2>1. InFlight(used_ring'[q], avail_ring'[q], last_used'[q], UsedCount(q)', Flying(q)', free'[q])
    BY <1>6, <1>7, <1>8, <1>9
  <2>2. next_avail'[q] = used_idx'[q] /\ next_used'[q] = used_idx'[q]
    BY <1>1, <1>6 DEF FlightIsSound
  <2> QED BY <1>1, <1>6, <1>7, <2>1, <2>2, OneQueue
<1>11. Offered(q)' = Offered(q) /\ Completed(q)' = Completed(q)
  <2>1. Offered(q)' = Offered(q)
    BY <1>6 DEF Offered
  <2>2. Window(used_ring'[q], l, u) = Window(used_ring[q], l, u)
    <3>1. ASSUME NEW k \in 0 .. wrapping_sub(u, l) - 1
          PROVE  used_ring'[q][(l + k) % Num] = used_ring[q][(l + k) % Num]
      <4>1. k \in 0 .. n - 1 /\ l + k \in Int
        BY <1>2 DEF UsedCount, Index
      <4> QED BY <1>2, <1>7, <1>9, <4>1, SlotInRange
    <3> DEFINE ring == used_ring[q]
               new == used_ring'[q]
    <3> HIDE DEF ring, new, l, u
    <3>2. Window(new, l, u) = Window(ring, l, u)
      BY <1>2, <3>1, WindowKept DEF ring, new
    <3> QED BY <3>2 DEF ring, new
  <2> QED BY <1>6, <2>1, <2>2 DEF Completed
<1>12. ServiceIsSound'
  <2>1. u % Num \in Buffers
    BY <1>2, Ranges
  <2>2. used_ring'[queue'][used_idx'[queue'] % Num] = head'
    BY <1>2, <1>6, <1>7, <2>1
  <2>3. 0 < AvailCount(queue)' /\ head' = avail_ring'[queue'][used_idx'[queue'] % Num]
    BY <1>1, <1>6, <1>8 DEF ServiceIsSound
  <2> QED BY <1>6, <2>2, <2>3 DEF ServiceIsSound
<1>13. UNCHANGED Abstract!queueVars
  <2>1. ASSUME NEW p \in Queues
        PROVE  Offered(p)' = Offered(p) /\ Completed(p)' = Completed(p)
    BY <1>10, <1>11
  <2> QED BY <2>1 DEF Abstract!queueVars
<1> QED BY <1>10, <1>12, <1>13

\* WriteUsedIndex: the oldest buffer is completed.
LEMMA UsedIndexStep ==
    ASSUME NetInvariant, FlightIsSound, ServiceIsSound,
           NEW q \in Queues, q = queue, WriteUsedIndex
    PROVE  FlightIsSound' /\ ServiceIsSound' /\ Abstract!Complete(q)
<1> DEFINE l == last_used[q]
           n == UsedCount(q)
           m == Flying(q)
           c == AvailCount(q)
           u == used_idx[q]
           a == avail_idx[q]
<1>1. pc = "index" /\ q \in Queues /\ head \in Buffers
  BY DEF WriteUsedIndex, NetInvariant, ServiceKnows, NetTypeOK, ServiceTypeOK
<1>2. /\ u \in Index /\ l \in Index /\ a \in Index
      /\ used_ring[q] \in [Buffers -> Buffers] /\ avail_ring[q] \in [Buffers -> Buffers]
      /\ free[q] \in SUBSET Buffers
      /\ n \in Nat /\ m \in Nat /\ c \in Nat /\ n + c <= m
  BY <1>1, QueueTypes DEF NetInvariant
<1>3. 0 < c /\ used_ring[q][u % Num] = head /\ avail_ring[q][u % Num] = head
  BY <1>1 DEF ServiceIsSound
<1>4. InFlight(used_ring[q], avail_ring[q], l, n, m, free[q]) /\ next_used[q] = u /\ m <= Num
      /\ next_avail[q] = u
  BY <1>1 DEF FlightIsSound, InFlight
<1>5. u % Num = (l + n) % Num
  <2>1. (l + wrapping_sub(u, l) + 0) % Num = (u + 0) % Num
    BY <1>2, SlotAt
  <2>2. l + wrapping_sub(u, l) + 0 = l + n /\ u + 0 = u
    BY <1>2, VirtioAssumption DEF UsedCount, Index
  <2> QED BY <2>1, <2>2
<1>6. /\ used_idx' = [used_idx EXCEPT ![q] = Plus(u, 1)]
      /\ next_used' = [next_used EXCEPT ![q] = Plus(u, 1)]
      /\ next_avail' = [next_avail EXCEPT ![q] = Plus(u, 1)]
      /\ pc' = "flags"
      /\ UNCHANGED <<avail_idx, last_used, avail_ring, used_ring, free, offering>>
  BY <1>1, <1>4 DEF WriteUsedIndex, driverVars, NetInvariant, NetTypeOK, DeviceTypeOK
<1>7. /\ used_idx'[q] = Plus(u, 1) /\ next_used'[q] = Plus(u, 1) /\ next_avail'[q] = Plus(u, 1)
      /\ \A p \in Queues \ {q} :
           used_idx'[p] = used_idx[p] /\ next_used'[p] = next_used[p] /\ next_avail'[p] = next_avail[p]
  BY <1>1, <1>6 DEF NetInvariant, NetTypeOK, MemoryTypeOK, DeviceTypeOK
<1>8. n + 1 < Word16 /\ n < m
  <2> HIDE DEF n, m, c
  <2> QED BY <1>2, <1>3, <1>4, VirtioAssumption
<1>9. UsedCount(q)' = n + 1 /\ AvailCount(q)' = c - 1
  <2>1. wrapping_sub(Plus(u, 1), l) = wrapping_sub(u, l) + 1
    BY <1>2, <1>8, DistanceGrows DEF UsedCount
  <2>2. wrapping_sub(a, Plus(u, 1)) = wrapping_sub(a, u) - 1
    <3>1. wrapping_sub(a, u) # 0
      BY <1>3 DEF AvailCount
    <3> QED BY <1>2, <3>1, DistanceShrinks
  <2> QED BY <1>6, <1>7, <2>1, <2>2 DEF UsedCount, AvailCount
<1>10. Flying(q)' = m
  <2>1. CASE offering[q] = "publish"
    BY <1>2, <1>6, <1>9, <2>1 DEF Flying
  <2>2. CASE offering[q] # "publish"
    BY <1>2, <1>6, <1>9, <2>2 DEF Flying
  <2> QED BY <2>1, <2>2
<1>11. FlightIsSound' /\ \A p \in Queues \ {q} : Offered(p)' = Offered(p) /\ Completed(p)' = Completed(p)
  <2>1. InFlight(used_ring[q], avail_ring[q], l, n + 1, m, free[q])
    <3>1. used_ring[q][(l + n) % Num] = avail_ring[q][(l + n) % Num]
      BY <1>3, <1>5
    <3> QED BY <1>2, <1>4, <1>8, <3>1, CompleteKeeps
  <2>2. InFlight(used_ring'[q], avail_ring'[q], last_used'[q], UsedCount(q)', Flying(q)', free'[q])
    BY <1>6, <1>9, <1>10, <2>1
  <2>3. next_avail'[q] = used_idx'[q] /\ next_used'[q] = used_idx'[q]
    BY <1>7
  <2> QED BY <1>1, <1>6, <1>7, <2>2, <2>3, OneQueue
<1>12. /\ Offered(q) # <<>> /\ Head(Offered(q)) = head /\ Offered(q)' = Tail(Offered(q))
       /\ Completed(q)' = Append(Completed(q), head)
  <2>1. wrapping_sub(a, u) # 0
    BY <1>3 DEF AvailCount
  <2>2. /\ Window(avail_ring[q], u, a) # <<>> /\ Head(Window(avail_ring[q], u, a)) = head
        /\ Window(avail_ring[q], Plus(u, 1), a) = Tail(Window(avail_ring[q], u, a))
    <3> DEFINE ring == avail_ring[q]
    <3>1. ring \in [Buffers -> Buffers] /\ ring[u % Num] = head
      BY <1>2, <1>3
    <3> HIDE DEF ring, a, u
    <3>2. /\ Window(ring, u, a) # <<>> /\ Head(Window(ring, u, a)) = ring[u % Num]
          /\ Window(ring, Plus(u, 1), a) = Tail(Window(ring, u, a))
      BY <1>2, <2>1, <3>1, WindowShrinks
    <3> QED BY <3>1, <3>2 DEF ring
  <2>3. Window(used_ring[q], l, Plus(u, 1)) = Append(Window(used_ring[q], l, u), head)
    <3> DEFINE ring == used_ring[q]
    <3>1. ring \in [Buffers -> Buffers] /\ ring[u % Num] = head /\ wrapping_sub(u, l) + 1 < Word16
      BY <1>2, <1>3, <1>8 DEF UsedCount
    <3> HIDE DEF ring, l, u
    <3>2. Window(ring, l, Plus(u, 1)) = Append(Window(ring, l, u), ring[u % Num])
      BY <1>2, <3>1, WindowGrows
    <3> QED BY <3>1, <3>2 DEF ring
  <2> QED BY <1>6, <1>7, <2>2, <2>3 DEF Offered, Completed
<1>13. Abstract!Complete(q)
  BY <1>1, <1>11, <1>12 DEF Abstract!Complete
<1>14. ServiceIsSound'
  BY <1>6 DEF ServiceIsSound
<1> QED BY <1>1, <1>11, <1>13, <1>14

\* TakeBuffer: the driver takes the oldest used buffer back.
LEMMA TakeStep ==
    ASSUME NetInvariant, FlightIsSound, ServiceIsSound, NEW q \in Queues, TakeBuffer(q)
    PROVE  FlightIsSound' /\ ServiceIsSound' /\ Abstract!TakeBack(q)
<1> DEFINE l == last_used[q]
           n == UsedCount(q)
           m == Flying(q)
           c == AvailCount(q)
           u == used_idx[q]
<1>1. /\ u \in Index /\ l \in Index
      /\ used_ring[q] \in [Buffers -> Buffers] /\ avail_ring[q] \in [Buffers -> Buffers]
      /\ free[q] \in SUBSET Buffers
      /\ n \in Nat /\ m \in Nat /\ c \in Nat /\ n + c <= m
  BY QueueTypes DEF NetInvariant
<1>2. n # 0
  <2>1. u # l
    BY DEF TakeBuffer, More
  <2>2. wrapping_sub(u, l) # 0
    <3>1. ASSUME wrapping_sub(u, l) = 0 PROVE u = l
      BY <1>1, <3>1, NoDifference
    <3> QED BY <2>1, <3>1
  <2> QED BY <2>2 DEF UsedCount
<1>3. InFlight(used_ring[q], avail_ring[q], l, n, m, free[q])
  BY DEF FlightIsSound
<1>4. /\ free' = [free EXCEPT ![q] = free[q] \cup {used_ring[q][l % Num]}]
      /\ last_used' = [last_used EXCEPT ![q] = Plus(l, 1)]
      /\ UNCHANGED <<next_avail, next_used, used_idx, avail_idx, avail_ring, used_ring, offering,
                     pc, queue, available, head>>
  BY DEF TakeBuffer, deviceVars, serviceVars, memoryVars
<1>5. /\ free'[q] = free[q] \cup {used_ring[q][l % Num]} /\ last_used'[q] = Plus(l, 1)
      /\ \A p \in Queues \ {q} : free'[p] = free[p] /\ last_used'[p] = last_used[p]
  BY <1>4 DEF NetInvariant, NetTypeOK, DriverTypeOK
<1>6. UsedCount(q)' = n - 1 /\ AvailCount(q)' = c
  <2>1. wrapping_sub(u, Plus(l, 1)) = wrapping_sub(u, l) - 1
    <3>1. wrapping_sub(u, l) # 0
      BY <1>2 DEF UsedCount
    <3> QED BY <1>1, <3>1, DistanceShrinks
  <2> QED BY <1>4, <1>5, <2>1 DEF UsedCount, AvailCount
<1>7. Flying(q)' = m - 1
  <2>1. CASE offering[q] = "publish"
    BY <1>1, <1>4, <1>6, <2>1 DEF Flying
  <2>2. CASE offering[q] # "publish"
    BY <1>1, <1>4, <1>6, <2>2 DEF Flying
  <2> QED BY <2>1, <2>2
<1>8. FlightIsSound' /\ \A p \in Queues \ {q} : Offered(p)' = Offered(p) /\ Completed(p)' = Completed(p)
  <2>1. InFlight(used_ring[q], avail_ring[q], Plus(l, 1), n - 1, m - 1,
                 free[q] \cup {used_ring[q][l % Num]})
    <3>1. 0 < n /\ n <= m
      BY <1>1, <1>2
    <3> QED BY <1>1, <1>3, <3>1, TakeKeeps
  <2>2. InFlight(used_ring'[q], avail_ring'[q], last_used'[q], UsedCount(q)', Flying(q)', free'[q])
    BY <1>4, <1>5, <1>6, <1>7, <2>1
  <2>3. next_avail'[q] = used_idx'[q] /\ next_used'[q] = used_idx'[q]
    BY <1>4 DEF FlightIsSound
  <2> QED BY <1>4, <1>5, <2>2, <2>3, OneQueue
<1>9. /\ Completed(q) # <<>> /\ Completed(q)' = Tail(Completed(q))
      /\ Offered(q)' = Offered(q)
  <2>1. wrapping_sub(u, l) # 0
    BY <1>2 DEF UsedCount
  <2>2. /\ Window(used_ring[q], l, u) # <<>>
        /\ Window(used_ring[q], Plus(l, 1), u) = Tail(Window(used_ring[q], l, u))
    BY <1>1, <2>1, WindowShrinks
  <2> QED BY <1>4, <1>5, <2>2 DEF Offered, Completed
<1>10. Abstract!TakeBack(q)
  BY <1>8, <1>9 DEF Abstract!TakeBack
<1>11. ServiceIsSound'
  BY <1>4 DEF ServiceIsSound, AvailCount
<1> QED BY <1>8, <1>10, <1>11

\* Queues that are new, or that the driver has cleared.
Cleared ==
    /\ next_avail = PerQueue(0) /\ next_used = PerQueue(0) /\ avail_idx = PerQueue(0)
    /\ used_idx = PerQueue(0) /\ last_used = PerQueue(0) /\ offering = PerQueue("idle")

NothingOffered ==
    \A q \in Queues : Offered(q) = <<>> /\ Completed(q) = <<>>

LEMMA EmptyQueues == NetTypeOK /\ Cleared => FlightIsSound /\ NothingOffered
<1> SUFFICES ASSUME NetTypeOK, Cleared, NEW q \in Queues
             PROVE  /\ next_avail[q] = used_idx[q] /\ next_used[q] = used_idx[q]
                    /\ InFlight(used_ring[q], avail_ring[q], last_used[q], UsedCount(q), Flying(q),
                                free[q])
                    /\ Offered(q) = <<>> /\ Completed(q) = <<>>
  BY DEF FlightIsSound, NothingOffered
<1>1. /\ next_avail[q] = 0 /\ next_used[q] = 0 /\ used_idx[q] = 0 /\ avail_idx[q] = 0
      /\ last_used[q] = 0 /\ offering[q] = "idle"
  BY DEF Cleared, PerQueue
<1>2. 0 \in Index /\ wrapping_sub(0, 0) = 0
  BY Ranges, Distance
<1>3. UsedCount(q) = 0 /\ AvailCount(q) = 0
  BY <1>1, <1>2 DEF UsedCount, AvailCount
<1>4. Flying(q) = 0
  BY <1>1, <1>3 DEF Flying
<1>5. InFlight(used_ring[q], avail_ring[q], last_used[q], UsedCount(q), Flying(q), free[q])
  <2>1. 0 <= Num /\ 0 .. 0 - 1 = {}
    BY VirtioAssumption
  <2> QED BY <1>4, <2>1 DEF InFlight
<1>6. used_ring[q] \in [Buffers -> Buffers] /\ avail_ring[q] \in [Buffers -> Buffers]
  BY QueueTypes
<1>7. Offered(q) = <<>> /\ Completed(q) = <<>>
  BY <1>1, <1>2, <1>6, WindowType DEF Offered, Completed
<1> QED BY <1>1, <1>5, <1>7

\* The steps of a service that only read.
LEMMA ReadAvailableStep ==
    ASSUME NetInvariant, FlightIsSound, NEW q \in Queues, ReadAvailable(q)
    PROVE  FlightIsSound' /\ ServiceIsSound' /\ UNCHANGED Abstract!queueVars
<1>1. FlightIsSound' /\ UNCHANGED Abstract!queueVars
  BY QuietQueues DEF ReadAvailable, memoryVars, driverVars
<1>2. CASE ~valid[q]
  BY <1>1, <1>2 DEF ReadAvailable, Return, ServiceIsSound
<1>3. CASE valid[q]
  <2>1. /\ pc' = "count" /\ queue' = q /\ available' = avail_idx[q]
        /\ UNCHANGED <<used_idx, avail_idx>>
    BY <1>3 DEF ReadAvailable, memoryVars
  <2>2. AvailCount(queue)' = AvailCount(q) /\ AvailCount(q) \in Nat
    BY <2>1, QueueTypes DEF AvailCount, NetInvariant
  <2>3. wrapping_sub(available, used_idx[queue])' <= AvailCount(queue)'
    BY <2>1, <2>2 DEF AvailCount, wrapping_sub
  <2> QED BY <1>1, <2>1, <2>3 DEF ServiceIsSound
<1> QED BY <1>2, <1>3

LEMMA CheckCountStep ==
    ASSUME NetInvariant, FlightIsSound, ServiceIsSound, CheckCount
    PROVE  FlightIsSound' /\ ServiceIsSound' /\ UNCHANGED Abstract!queueVars
<1> DEFINE count == wrapping_sub(available, next_avail[queue])
<1>1. FlightIsSound' /\ UNCHANGED Abstract!queueVars
  BY QuietQueues DEF CheckCount, memoryVars, driverVars
<1>2. pc = "count" /\ queue \in Queues
  BY DEF CheckCount, NetInvariant, ServiceKnows
<1>3. CASE count \notin 1 .. Num
  BY <1>1, <1>3 DEF CheckCount, Return, ServiceIsSound
<1>4. CASE count \in 1 .. Num
  <2>1. pc' = "head" /\ UNCHANGED <<queue, used_idx, avail_idx>>
    BY <1>4 DEF CheckCount, memoryVars
  <2>2. count <= AvailCount(queue) /\ AvailCount(queue) \in Nat
    BY <1>2, QueueTypes DEF ServiceIsSound, FlightIsSound, NetInvariant
  <2>3. 0 < AvailCount(queue)
    <3> HIDE DEF count
    <3> QED BY <1>4, <2>2, VirtioAssumption
  <2>4. AvailCount(queue)' = AvailCount(queue)
    BY <2>1 DEF AvailCount
  <2> QED BY <1>1, <2>1, <2>3, <2>4 DEF ServiceIsSound
<1> QED BY <1>3, <1>4

LEMMA ReadChainStep ==
    ASSUME NetInvariant, FlightIsSound, ServiceIsSound, ReadChain
    PROVE  FlightIsSound' /\ ServiceIsSound' /\ UNCHANGED Abstract!queueVars
<1> DEFINE h == avail_ring[queue][next_avail[queue] % Num]
<1>1. FlightIsSound' /\ UNCHANGED Abstract!queueVars
  BY QuietQueues DEF ReadChain, memoryVars, driverVars
<1>2. pc = "head" /\ queue \in Queues
  BY DEF ReadChain, NetInvariant, ServiceKnows
<1>3. CASE h \in malformed[queue]
  BY <1>1, <1>3 DEF ReadChain, Return, ServiceIsSound
<1>4. CASE h \notin malformed[queue]
  <2>1. /\ pc' = "entry" /\ head' = h
        /\ UNCHANGED <<queue, used_idx, avail_idx, avail_ring>>
    BY <1>4 DEF ReadChain, memoryVars
  <2>2. h = avail_ring[queue][used_idx[queue] % Num] /\ 0 < AvailCount(queue)
    BY <1>2 DEF ServiceIsSound, FlightIsSound
  <2>3. AvailCount(queue)' = AvailCount(queue)
    BY <2>1 DEF AvailCount
  <2> QED BY <1>1, <2>1, <2>2, <2>3 DEF ServiceIsSound
<1> QED BY <1>3, <1>4

\* Outside a transaction a service has found nothing.
LEMMA IdleService ==
    ASSUME FlightIsSound, pc' \in {"free", "service"},
           UNCHANGED <<next_avail, next_used, used_idx, avail_idx, last_used, used_ring,
                       avail_ring, free>>,
           \A q \in Queues : offering'[q] = "publish" <=> offering[q] = "publish"
    PROVE  FlightIsSound' /\ ServiceIsSound' /\ UNCHANGED Abstract!queueVars
BY QuietQueues DEF ServiceIsSound

\* The driver's steps beside the rings, and stuttering.
LEMMA QuietService ==
    ASSUME FlightIsSound, ServiceIsSound,
           UNCHANGED <<next_avail, next_used, used_idx, avail_idx, last_used, used_ring,
                       avail_ring, free, offering, serviceVars>>
    PROVE  FlightIsSound' /\ ServiceIsSound' /\ UNCHANGED Abstract!queueVars
<1>1. FlightIsSound' /\ UNCHANGED Abstract!queueVars
  BY QuietQueues
<1>2. ServiceIsSound'
  BY DEF ServiceIsSound, AvailCount, serviceVars
<1> QED BY <1>1, <1>2

LEMMA ResetStep ==
    ASSUME NetTypeOK', ResetDevice
    PROVE  FlightIsSound' /\ ServiceIsSound' /\ Abstract!Reset
<1>1. Cleared' /\ pc' = "free"
  BY DEF ResetDevice, Access, serviceVars, Cleared, PerQueue
<1>2. FlightIsSound' /\ NothingOffered'
  BY <1>1, EmptyQueues, PTL
<1>3. ServiceIsSound'
  BY <1>1 DEF ServiceIsSound
<1>4. Abstract!Reset
  BY <1>2 DEF Abstract!Reset, NothingOffered
<1> QED BY <1>2, <1>3, <1>4

\* Registers written outside a service.
LEMMA ConfigureStep ==
    ASSUME NetTypeOK', FlightIsSound, Configure
    PROVE  /\ FlightIsSound' /\ ServiceIsSound'
           /\ Abstract!Reset \/ UNCHANGED Abstract!queueVars
<1>1. CASE ResetDevice
  BY <1>1, ResetStep
<1>2. ASSUME NEW f \in FeatureValues, WriteDriverFeatures(f)
      PROVE  FlightIsSound' /\ ServiceIsSound' /\ UNCHANGED Abstract!queueVars
  BY <1>2, IdleService DEF WriteDriverFeatures, Access, serviceVars, memoryVars, driverVars
<1>3. ASSUME NEW v \in StatusValues, WriteStatus(v)
      PROVE  FlightIsSound' /\ ServiceIsSound' /\ UNCHANGED Abstract!queueVars
  BY <1>3, IdleService DEF WriteStatus, Access, serviceVars, memoryVars, driverVars
<1>4. ASSUME NEW q \in Queues, NEW good \in BOOLEAN, WriteQueue(q, good)
      PROVE  FlightIsSound' /\ ServiceIsSound' /\ UNCHANGED Abstract!queueVars
  BY <1>4, IdleService DEF WriteQueue, Access, serviceVars, memoryVars, driverVars
<1>5. ASSUME NEW q \in Queues, NEW on \in BOOLEAN, WriteQueueReady(q, on)
      PROVE  FlightIsSound' /\ ServiceIsSound' /\ UNCHANGED Abstract!queueVars
  BY <1>5, IdleService DEF WriteQueueReady, Access, serviceVars, memoryVars, driverVars
<1> QED BY <1>1, <1>2, <1>3, <1>4, <1>5 DEF Configure

LEMMA NotifyStep ==
    ASSUME NetInvariant, FlightIsSound, NEW q \in Queues, QueueNotify(q)
    PROVE  FlightIsSound' /\ ServiceIsSound' /\ UNCHANGED Abstract!queueVars
<1>1. \A p \in Queues : offering'[p] = "publish" <=> offering[p] = "publish"
  <2>1. offering[q] = "notify" /\ offering' = [offering EXCEPT ![q] = "idle"]
    BY DEF QueueNotify
  <2> QED BY <2>1 DEF NetInvariant, NetTypeOK, DriverTypeOK
<1> QED BY <1>1, IdleService DEF QueueNotify, Access, serviceVars, memoryVars

LEMMA HandlerStep ==
    ASSUME FlightIsSound, ServiceIsSound, Handler
    PROVE  FlightIsSound' /\ ServiceIsSound' /\ UNCHANGED Abstract!queueVars
<1>1. CASE TakeInterrupt
  BY <1>1, QuietService DEF TakeInterrupt, Access, memoryVars
<1>2. CASE InterruptAck
  BY <1>2, QuietService DEF InterruptAck, Access, memoryVars
<1>3. CASE ScanQueues
  BY <1>3, QuietService DEF ScanQueues, deviceVars
<1> QED BY <1>1, <1>2, <1>3 DEF Handler

\* Every step of device and driver is a step of the abstract queues.
LEMMA VirtqueueStep ==
    ASSUME NetInvariant, NetInvariant', ~GuestsMisbehave, FlightIsSound, ServiceIsSound,
           [NetNext]_vars
    PROVE  /\ FlightIsSound' /\ ServiceIsSound'
           /\ [Abstract!QueueNext]_(Abstract!queueVars)
<1>1. ASSUME NEW up \in BOOLEAN, BeginService(up)
      PROVE  FlightIsSound' /\ ServiceIsSound' /\ UNCHANGED Abstract!queueVars
  BY <1>1, IdleService DEF BeginService, memoryVars, driverVars
<1>2. ASSUME NEW q \in Queues, ReadAvailable(q)
      PROVE  FlightIsSound' /\ ServiceIsSound' /\ UNCHANGED Abstract!queueVars
  BY <1>2, ReadAvailableStep
<1>3. ASSUME Transaction
      PROVE  /\ FlightIsSound' /\ ServiceIsSound'
             /\ UNCHANGED Abstract!queueVars \/ \E q \in Queues : Abstract!Complete(q)
  <2>1. CASE CheckCount
    BY <2>1, CheckCountStep
  <2>2. CASE ReadChain
    BY <2>2, ReadChainStep
  <2>3. CASE WriteUsedEntry
    <3>1. queue \in Queues
      BY <2>3 DEF WriteUsedEntry, NetInvariant, ServiceKnows
    <3>2. PICK q \in Queues : q = queue
      BY <3>1
    <3> QED BY <2>3, <3>2, UsedEntryStep
  <2>4. CASE WriteUsedIndex
    <3>1. queue \in Queues
      BY <2>4 DEF WriteUsedIndex, NetInvariant, ServiceKnows
    <3>2. PICK q \in Queues : q = queue
      BY <3>1
    <3>3. FlightIsSound' /\ ServiceIsSound' /\ Abstract!Complete(q)
      BY <2>4, <3>2, UsedIndexStep
    <3> QED BY <3>3
  <2>5. CASE ReadFlags
    BY <2>5, IdleService DEF ReadFlags, Return, memoryVars, driverVars
  <2> QED BY <1>3, <2>1, <2>2, <2>3, <2>4, <2>5 DEF Transaction
<1>4. ASSUME EndService
      PROVE  FlightIsSound' /\ ServiceIsSound' /\ UNCHANGED Abstract!queueVars
  BY <1>4, IdleService DEF EndService, deviceVars, memoryVars, driverVars
<1>5. ASSUME Configure
      PROVE  FlightIsSound' /\ ServiceIsSound' /\ (Abstract!Reset \/ UNCHANGED Abstract!queueVars)
  BY <1>5, ConfigureStep DEF NetInvariant
<1>6. ASSUME NEW q \in Queues, Offering(q)
      PROVE  /\ FlightIsSound' /\ ServiceIsSound'
             /\ UNCHANGED Abstract!queueVars \/ \E b \in Buffers : Abstract!Offer(q, b)
  <2>1. ASSUME NEW b \in Buffers, OfferBuffer(q, b)
        PROVE  FlightIsSound' /\ ServiceIsSound' /\ UNCHANGED Abstract!queueVars
    BY <2>1, OfferStep
  <2>2. ASSUME PublishBuffer(q)
        PROVE  FlightIsSound' /\ ServiceIsSound' /\ \E b \in Buffers : Abstract!Offer(q, b)
    BY <2>2, PublishStep
  <2>3. ASSUME QueueNotify(q)
        PROVE  FlightIsSound' /\ ServiceIsSound' /\ UNCHANGED Abstract!queueVars
    BY <2>3, NotifyStep
  <2> QED BY <1>6, <2>1, <2>2, <2>3 DEF Offering
<1>7. ASSUME NEW q \in Queues, Taking(q)
      PROVE  /\ FlightIsSound' /\ ServiceIsSound'
             /\ UNCHANGED Abstract!queueVars \/ Abstract!TakeBack(q)
  <2>1. CASE TakeBuffer(q)
    BY <2>1, TakeStep
  <2>2. CASE AllowInterrupts(q)
    BY <2>2, QuietService DEF AllowInterrupts, deviceVars
  <2>3. CASE Recheck(q)
    BY <2>3, QuietService DEF Recheck, deviceVars
  <2> QED BY <1>7, <2>1, <2>2, <2>3 DEF Taking
<1>8. ASSUME Handler
      PROVE  FlightIsSound' /\ ServiceIsSound' /\ UNCHANGED Abstract!queueVars
  BY <1>8, HandlerStep
<1>9. ASSUME UNCHANGED vars
      PROVE  FlightIsSound' /\ ServiceIsSound' /\ UNCHANGED Abstract!queueVars
  BY <1>9, QuietService DEF vars, deviceVars, memoryVars, driverVars
<1> QED
  BY <1>1, <1>2, <1>3, <1>4, <1>5, <1>6, <1>7, <1>8, <1>9, Zenon DEF NetNext, Abstract!QueueNext

LEMMA VirtqueueInit ==
    ASSUME NetInit
    PROVE  FlightIsSound /\ ServiceIsSound /\ Abstract!QueueInit
<1>1. NetTypeOK
  BY InitNetInvariant DEF NetInvariant
<1>2. FlightIsSound /\ NothingOffered
  BY <1>1, EmptyQueues DEF NetInit, Cleared
<1>3. ServiceIsSound
  BY DEF NetInit, ServiceIsSound
<1> QED BY <1>2, <1>3 DEF Abstract!QueueInit, NothingOffered

(***************************************************************************)
(* BUFFERS COME BACK ONCE AND IN ORDER.  `next` and `finish` of            *)
(* virtio_net.rs, with a driver that does not misbehave, implement the     *)
(* abstract queues of module Virtqueue, for queues and indices of any      *)
(* size: what the device completes is the oldest buffer offered, and what  *)
(* the driver takes back is what the device completed, also when indices   *)
(* wrap and the rings are reused.                                          *)
(***************************************************************************)
THEOREM BuffersComeBackInOrder ==
    ASSUME ~GuestsMisbehave
    PROVE  NetSpec => ImplementsVirtqueue
<1>1. NetInit => FlightIsSound /\ ServiceIsSound /\ Abstract!QueueInit
  BY VirtqueueInit
<1>2. /\ NetInvariant /\ NetInvariant' /\ FlightIsSound /\ ServiceIsSound /\ [NetNext]_vars
      => FlightIsSound' /\ ServiceIsSound' /\ [Abstract!QueueNext]_(Abstract!queueVars)
  BY VirtqueueStep
<1> QED
  BY <1>1, <1>2, NetInvariantHolds, PTL DEF NetSpec, ImplementsVirtqueue, Abstract!QueueSpec
=============================================================================
