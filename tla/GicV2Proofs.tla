---------------------------- MODULE GicV2Proofs -----------------------------
(***************************************************************************)
(* Proofs about interrupt forwarding on one CPU, for every number of list  *)
(* registers, every set of interrupts and every choice of priorities.      *)
(***************************************************************************)
EXTENDS GicV2, FiniteSetTheorems, TLAPS

\* Outside the refill loop GICH_HCR.En follows the guest's switch: update_hcr
\* ends every change of distributor_enabled.
HcrIsCurrent == pc # "refill" => hcr.enable = distributor_enabled

\* Why a queued interrupt is not forgotten: either the underflow interrupt is
\* asked for, or the queue waits for an SGI whose EOI is reported.
WakeupIsKnown ==
    pc # "refill" /\ distributor_enabled /\ pending # {} =>
        hcr.underflow \/ \E k \in LRs : lr[k].state # "empty" /\ IsSgi(lr[k].iar)

\* The inductive invariant.
GicInvariant ==
    /\ GicTypeOK
    /\ SourcesRecorded
    /\ RefillFindsFree
    /\ ActiveIsHeldOnce
    /\ OneRegisterPerId
    /\ CountIsExact
    /\ HcrIsCurrent
    /\ WakeupIsKnown

-----------------------------------------------------------------------------
(***************************************************************************)
(* Operators.                                                              *)
(***************************************************************************)
\* The lowest set bit of a nonzero ELRSR is one of its bits.
LEMMA LowestIsMember ==
    ASSUME NEW S \in SUBSET LRs, S # {}
    PROVE  Lowest(S) \in S
<1>1. S \subseteq Nat
  BY GicAssumption DEF LRs
<1>2. PICK k \in S : \A m \in S : ~(<<m, k>> \in OpToRel(<, Nat))
  BY <1>1, NatLessThanWellFounded, WFMin
<1>3. ASSUME NEW m \in S
      PROVE  k <= m
  <2>1. ~(m < k)
    <3>1. <<m, k>> \in Nat \X Nat /\ <<m, k>>[1] = m /\ <<m, k>>[2] = k
      BY <1>1
    <3> QED BY <1>2, <3>1, Zenon DEF OpToRel
  <2> QED BY <1>1, <2>1
<1> QED BY <1>3 DEF Lowest

\* A slot of the queue for every interrupt: 16 SGIs of 8 sources, and the rest.
Slot(i) == IF IsSgi(i) THEN i.id * 8 + i.source ELSE i.id + 112

\* No two interrupts share a slot.
LEMMA SlotsDiffer ==
    ASSUME NEW i \in [id : 0 .. 1019, source : 0 .. 7],
           NEW j \in [id : 0 .. 1019, source : 0 .. 7],
           ~IsSgi(i) => i.source = 0, ~IsSgi(j) => j.source = 0,
           Slot(i) = Slot(j)
    PROVE  i = j
<1> DEFINE a == i.id  b == j.id  s == i.source  t == j.source
<1>1. a \in 0 .. 1019 /\ s \in 0 .. 7 /\ i = [id |-> a, source |-> s]
  OBVIOUS
<1>2. b \in 0 .. 1019 /\ t \in 0 .. 7 /\ j = [id |-> b, source |-> t]
  OBVIOUS
<1>3. /\ ~(a < 16) => s = 0
      /\ ~(b < 16) => t = 0
      /\ (IF a < 16 THEN a * 8 + s ELSE a + 112) = (IF b < 16 THEN b * 8 + t ELSE b + 112)
  BY DEF Slot, IsSgi
<1> HIDE DEF a, b, s, t
<1>4. a = b /\ s = t
  BY <1>1, <1>2, <1>3
<1> QED BY <1>1, <1>2, <1>4

\* The slots of any interrupts can be counted, in a u16.
LEMMA QueueIsFinite ==
    ASSUME NEW S \in SUBSET Interrupts
    PROVE  IsFiniteSet(S) /\ Cardinality(S) \in 0 .. 1132
<1> DEFINE slot == [i \in S |-> Slot(i)]
<1>1. \A i \in S : /\ i.id \in 0 .. 1019 /\ i.source \in 0 .. 7
                   /\ ~IsSgi(i) => i.source = 0
                   /\ i = [id |-> i.id, source |-> i.source]
  BY GicAssumption
<1>2. slot \in Injection(S, 0 .. 1131)
  <2>1. slot \in [S -> 0 .. 1131]
    <3>1. ASSUME NEW i \in S
          PROVE  Slot(i) \in 0 .. 1131
      <4> DEFINE a == i.id  s == i.source
      <4>1. a \in 0 .. 1019 /\ s \in 0 .. 7
        BY <1>1
      <4>2. Slot(i) = IF a < 16 THEN a * 8 + s ELSE a + 112
        BY DEF Slot, IsSgi
      <4> HIDE DEF a, s
      <4> QED BY <4>1, <4>2
    <3> QED BY <3>1
  <2>2. ASSUME NEW i \in S, NEW j \in S, slot[i] = slot[j]
        PROVE  i = j
    <3>1. Slot(i) = Slot(j)
      BY <2>2
    <3> HIDE DEF slot
    <3> QED BY <3>1, GicAssumption, SlotsDiffer
  <2> QED BY <2>1, <2>2 DEF Injection, IsInjective
<1>3. PICK n \in Nat : n = 1131
  OBVIOUS
<1>4. IsFiniteSet(S) /\ Cardinality(S) <= 1132
  <2>1. IsFiniteSet(0 .. n) /\ Cardinality(0 .. n) = n + 1
    BY FS_Interval
  <2>2. slot \in Injection(S, 0 .. n)
    BY <1>2, <1>3
  <2>3. IsFiniteSet(S) /\ Cardinality(S) <= Cardinality(0 .. n)
    <3> HIDE DEF slot
    <3> QED BY <2>1, <2>2, FS_Injection
  <2> QED BY <1>3, <2>1, <2>3
<1>5. Cardinality(S) \in Nat
  <2>1. IsFiniteSet(S)
    BY <1>4
  <2> HIDE DEF slot
  <2> QED BY <2>1, FS_CardinalityType
<1> QED BY <1>4, <1>5

\* What a list register that is in use holds.
LEMMA UsedRegister ==
    ASSUME GicTypeOK, SourcesRecorded, NEW k \in LRs, lr[k].state # "empty"
    PROVE  lr[k].iar \in Interrupts
BY DEF GicTypeOK, SourcesRecorded, LrState

-----------------------------------------------------------------------------
(***************************************************************************)
(* Injection and forwarding.                                               *)
(***************************************************************************)
\* An interrupt that may be injected has its id in no list register.
LEMMA InjectableIsAlone ==
    ASSUME GicTypeOK, SourcesRecorded, NEW i \in Interrupts, injectable(i), Holding(i) = {},
           NEW k \in LRs, lr[k].state # "empty"
    PROVE  lr[k].iar.id # i.id
<1>1. lr[k].iar \in Interrupts /\ lr[k].iar # i
  BY UsedRegister DEF Holding
<1>2. CASE IsSgi(i)
  BY <1>1, <1>2, GicAssumption DEF injectable, sgi_in_lr, SourcesRecorded, IsSgi
<1>3. CASE ~IsSgi(i)
  BY <1>1, <1>3, GicAssumption DEF IsSgi
<1> QED BY <1>2, <1>3

\* inject writes one list register.
LEMMA InjectRegisters ==
    ASSUME GicTypeOK, SourcesRecorded, NEW k \in LRs, NEW i \in Interrupts, inject(k, i)
    PROVE  /\ lr' \in [LRs -> LrState]
           /\ lr_iar' \in [LRs -> Interrupts \cup {SPURIOUS}]
           /\ SourcesRecorded'
           /\ lr'[k] = [state |-> "pending", iar |-> i]
           /\ \A m \in LRs : m # k => lr'[m] = lr[m]
<1>1. /\ lr' = [lr EXCEPT ![k] = [state |-> "pending", iar |-> i]]
      /\ lr_iar' = [lr_iar EXCEPT ![k] = IF IsSgi(i) THEN i ELSE SPURIOUS]
  BY DEF inject
<1>2. [state |-> "pending", iar |-> i] \in LrState
  BY DEF LrState
<1>3. /\ lr' \in [LRs -> LrState] /\ lr_iar' \in [LRs -> Interrupts \cup {SPURIOUS}]
      /\ lr'[k] = [state |-> "pending", iar |-> i]
      /\ lr_iar'[k] = IF IsSgi(i) THEN i ELSE SPURIOUS
      /\ \A m \in LRs : m # k => lr'[m] = lr[m] /\ lr_iar'[m] = lr_iar[m]
  BY <1>1, <1>2 DEF GicTypeOK
<1>4. SourcesRecorded'
  BY <1>3, GicAssumption DEF SourcesRecorded
<1> QED BY <1>3, <1>4

\* An interrupt that was in no list register is now in register k only.
LEMMA InjectHolds ==
    ASSUME GicTypeOK, SourcesRecorded, OneRegisterPerId,
           NEW k \in empty_lrs, NEW i \in Interrupts, injectable(i), Holding(i) = {}, inject(k, i)
    PROVE  /\ OneRegisterPerId'
           /\ empty_lrs' = empty_lrs \ {k}
           /\ Holding(i)' = {k}
           /\ \A j \in Interrupts : j # i => Holding(j)' = Holding(j)
<1>1. k \in LRs /\ lr[k].state = "empty"
  BY DEF empty_lrs
<1>2. /\ lr'[k] = [state |-> "pending", iar |-> i]
      /\ \A m \in LRs : m # k => lr'[m] = lr[m]
  BY <1>1, InjectRegisters
<1>3. empty_lrs' = empty_lrs \ {k}
  BY <1>1, <1>2 DEF empty_lrs
<1>4. OneRegisterPerId'
  BY <1>1, <1>2, InjectableIsAlone DEF OneRegisterPerId
<1>5. Holding(i)' = {k}
  BY <1>1, <1>2 DEF Holding
<1>6. ASSUME NEW j \in Interrupts, j # i
      PROVE  Holding(j)' = Holding(j)
  BY <1>1, <1>2, <1>6 DEF Holding
<1> QED BY <1>3, <1>4, <1>5, <1>6

\* Putting an interrupt into the queue, or taking one out of it, counts.
LEMMA Enqueued ==
    ASSUME GicTypeOK, CountIsExact, NEW i \in Interrupts, i \notin pending,
           pending' = pending \cup {i}, pending_count' = pending_count + 1
    PROVE  CountIsExact' /\ pending_count' \in 0 .. 1148
<1>1. IsFiniteSet(pending) /\ Cardinality(pending) \in 0 .. 1132
  BY QueueIsFinite DEF GicTypeOK
<1>2. Cardinality(pending \cup {i}) = Cardinality(pending) + 1
  BY <1>1, FS_AddElement
<1> QED BY <1>1, <1>2 DEF CountIsExact

LEMMA Dequeued ==
    ASSUME GicTypeOK, CountIsExact, NEW i \in pending,
           pending' = pending \ {i}, pending_count' = pending_count - 1
    PROVE  CountIsExact' /\ pending_count' \in 0 .. 1148
<1>1. IsFiniteSet(pending) /\ Cardinality(pending) \in 0 .. 1132
  BY QueueIsFinite DEF GicTypeOK
<1>2. Cardinality(pending \ {i}) = Cardinality(pending) - 1
  BY <1>1, FS_RemoveElement
<1>3. Cardinality(pending \ {i}) \in 0 .. 1132
  <2>1. pending \ {i} \in SUBSET Interrupts
    BY DEF GicTypeOK
  <2> QED BY <2>1, QueueIsFinite
<1> QED BY <1>1, <1>2, <1>3 DEF CountIsExact

\* The count is zero exactly when the queue is empty.
LEMMA EmptyQueue ==
    ASSUME GicTypeOK, CountIsExact
    PROVE  pending_count = 0 <=> pending = {}
<1>1. IsFiniteSet(pending)
  BY QueueIsFinite DEF GicTypeOK
<1> QED BY <1>1, FS_EmptySet DEF CountIsExact

\* Forward puts a new interrupt into a register or into the queue, and leaves
\* the others where they are.
LEMMA ForwardPlaces ==
    ASSUME GicTypeOK, SourcesRecorded, OneRegisterPerId, CountIsExact, ActiveIsHeldOnce,
           empty = {}, NEW i \in Interrupts, i \notin pending, Holding(i) = {}, Forward(i)
    PROVE  /\ lr' \in [LRs -> LrState]
           /\ lr_iar' \in [LRs -> Interrupts \cup {SPURIOUS}]
           /\ pending' \subseteq Interrupts /\ pending_count' \in 0 .. 1148
           /\ pc' \in {"guest", "refill"} /\ next' \in {"guest", "ack"} /\ empty' \subseteq LRs
           /\ SourcesRecorded' /\ OneRegisterPerId' /\ CountIsExact'
           /\ empty' \subseteq empty_lrs'
           /\ pc' = "guest" => empty' = {} /\ pending' = {}
           /\ \A j \in Interrupts :
                /\ j \in pending' \/ Holding(j)' # {} <=> j \in pending \/ Holding(j) # {} \/ j = i
                /\ j \in pending' => Holding(j)' = {}
                /\ \A k, m \in Holding(j)' : k = m
<1>1. \A j \in Interrupts : /\ j \in pending => Holding(j) = {}
                            /\ \A k, m \in Holding(j) : k = m
  BY DEF ActiveIsHeldOnce
<1>2. CASE pending_count = 0 /\ CanInject(i) /\ inject(Lowest(empty_lrs), i)
           /\ pc' = "guest" /\ UNCHANGED <<pending, pending_count, next, empty>>
  <2> DEFINE k == Lowest(empty_lrs)
  <2>1. k \in empty_lrs /\ k \in LRs /\ injectable(i) /\ inject(k, i)
    <3>1. empty_lrs \in SUBSET LRs /\ empty_lrs # {} /\ injectable(i)
      BY <1>2 DEF CanInject, empty_lrs
    <3> QED BY <1>2, <3>1, LowestIsMember
  <2> HIDE DEF k
  <2>2. /\ lr' \in [LRs -> LrState]
        /\ lr_iar' \in [LRs -> Interrupts \cup {SPURIOUS}]
        /\ SourcesRecorded'
    BY <2>1, InjectRegisters
  <2>3. /\ OneRegisterPerId'
        /\ empty_lrs' = empty_lrs \ {k}
        /\ Holding(i)' = {k}
        /\ \A j \in Interrupts : j # i => Holding(j)' = Holding(j)
    BY <2>1, InjectHolds
  <2>4. pending = {} /\ pending' = {}
    BY <1>2, EmptyQueue
  <2>5. ASSUME NEW j \in Interrupts
        PROVE  /\ j \in pending' \/ Holding(j)' # {} <=> j \in pending \/ Holding(j) # {} \/ j = i
               /\ j \in pending' => Holding(j)' = {}
               /\ \A l, m \in Holding(j)' : l = m
    BY <1>1, <2>3, <2>4
  <2>6. CountIsExact'
    BY <1>2 DEF CountIsExact
  <2> QED BY <1>2, <2>2, <2>3, <2>4, <2>5, <2>6 DEF GicTypeOK
<1>3. CASE /\ pending' = pending \cup {i}
           /\ pending_count' = IF i \in pending THEN pending_count ELSE pending_count + 1
           /\ EnterRefill(distributor_enabled, empty_lrs, "guest")
           /\ UNCHANGED <<lr, lr_iar>>
  <2>1. pending \in SUBSET Interrupts /\ pending_count' = pending_count + 1
    BY <1>3 DEF GicTypeOK
  <2>2. CountIsExact' /\ pending_count' \in 0 .. 1148
    BY <1>3, <2>1, Enqueued
  <2>3. SourcesRecorded' /\ OneRegisterPerId' /\ empty_lrs' = empty_lrs
    BY <1>3 DEF SourcesRecorded, OneRegisterPerId, empty_lrs
  <2>4. \A j \in Interrupts : Holding(j)' = Holding(j)
    BY <1>3 DEF Holding
  <2>5. /\ empty' \subseteq empty_lrs /\ empty_lrs \subseteq LRs
        /\ pc' = "refill" /\ next' = "guest"
    BY <1>3 DEF EnterRefill, empty_lrs
  <2>6. ASSUME NEW j \in Interrupts
        PROVE  /\ j \in pending' \/ Holding(j)' # {} <=> j \in pending \/ Holding(j) # {} \/ j = i
               /\ j \in pending' => Holding(j)' = {}
               /\ \A l, m \in Holding(j)' : l = m
    BY <1>1, <1>3, <2>4
  <2> QED BY <1>3, <2>1, <2>2, <2>3, <2>5, <2>6 DEF GicTypeOK
<1> QED BY <1>2, <1>3 DEF Forward

-----------------------------------------------------------------------------
(***************************************************************************)
(* The steps.                                                              *)
(***************************************************************************)
\* A step that moves no interrupt between its places.
LEMMA NothingMoves ==
    ASSUME GicInvariant, UNCHANGED <<active, lr, lr_iar, pending, pending_count, token>>
    PROVE  /\ SourcesRecorded' /\ ActiveIsHeldOnce' /\ OneRegisterPerId' /\ CountIsExact'
           /\ empty_lrs' = empty_lrs
<1>1. SourcesRecorded' /\ OneRegisterPerId' /\ empty_lrs' = empty_lrs
  BY DEF GicInvariant, SourcesRecorded, OneRegisterPerId, empty_lrs
<1>2. \A i \in Interrupts : Holding(i)' = Holding(i)
  BY DEF Holding
<1>3. ActiveIsHeldOnce'
  BY <1>2 DEF GicInvariant, ActiveIsHeldOnce
<1> QED BY <1>1, <1>3 DEF GicInvariant, CountIsExact

\* The steps of devices, lines and other CPUs, and those of the IRQ vector
\* that only read.
LEMMA QuietStep ==
    ASSUME GicInvariant, UNCHANGED <<active, gicVars, pc, next, empty, token>>,
           raised' \subseteq Interrupts, deliver' \in BOOLEAN, enabled' \in BOOLEAN,
           line' \subseteq Owned, notifying' \subseteq Owned
    PROVE  GicInvariant'
<1>1. /\ SourcesRecorded' /\ ActiveIsHeldOnce' /\ OneRegisterPerId' /\ CountIsExact'
      /\ empty_lrs' = empty_lrs
  BY NothingMoves DEF gicVars
<1>2. GicTypeOK'
  BY DEF GicInvariant, GicTypeOK, gicVars
<1>3. RefillFindsFree' /\ HcrIsCurrent' /\ WakeupIsKnown'
  BY <1>1 DEF GicInvariant, RefillFindsFree, HcrIsCurrent, WakeupIsKnown, gicVars
<1> QED BY <1>1, <1>2, <1>3 DEF GicInvariant

\* A step that only changes where the CPU is, outside of the refill loop.
LEMMA BranchStep ==
    ASSUME GicInvariant, UNCHANGED <<active, gicVars, next, empty, token, enabled, line, notifying>>,
           pc # "refill", pc' \in {"guest", "ack", "service", "finish"},
           pc \in {"service", "finish"} <=> pc' \in {"service", "finish"},
           raised' \subseteq Interrupts, deliver' \in BOOLEAN
    PROVE  GicInvariant'
<1>1. /\ SourcesRecorded' /\ ActiveIsHeldOnce' /\ OneRegisterPerId' /\ CountIsExact'
      /\ empty_lrs' = empty_lrs
  BY NothingMoves DEF gicVars
<1>2. GicTypeOK'
  BY DEF GicInvariant, GicTypeOK, gicVars
<1>3. RefillFindsFree'
  BY <1>1 DEF GicInvariant, RefillFindsFree, gicVars
<1>4. HcrIsCurrent' /\ WakeupIsKnown'
  BY DEF GicInvariant, HcrIsCurrent, WakeupIsKnown, gicVars
<1> QED BY <1>1, <1>2, <1>3, <1>4 DEF GicInvariant

\* set_distributor_enabled, in the vector and after a trapped access.
LEMMA SetDistributorEnabledStep ==
    ASSUME GicInvariant, pc = "guest", NEW on \in BOOLEAN, NEW after \in {"guest", "ack"},
           SetDistributorEnabled(on, after),
           UNCHANGED <<active, lr, hcr, pending, pending_count, lr_iar, token, deliver, line,
                       notifying>>,
           raised' \subseteq Interrupts, enabled' \in BOOLEAN
    PROVE  GicInvariant'
<1>1. /\ SourcesRecorded' /\ ActiveIsHeldOnce' /\ OneRegisterPerId' /\ CountIsExact'
      /\ empty_lrs' = empty_lrs
  BY NothingMoves
<1>2. empty_lrs \subseteq LRs
  BY DEF empty_lrs
<1>3. CASE on # distributor_enabled
  <2>1. /\ distributor_enabled' = on /\ pc' = "refill" /\ next' = after
        /\ empty' \subseteq empty_lrs
    BY <1>3 DEF SetDistributorEnabled, EnterRefill
  <2>2. GicTypeOK'
    BY <1>2, <2>1 DEF GicInvariant, GicTypeOK
  <2>3. RefillFindsFree' /\ HcrIsCurrent' /\ WakeupIsKnown'
    BY <1>1, <2>1 DEF GicInvariant, RefillFindsFree, HcrIsCurrent, WakeupIsKnown
  <2> QED BY <1>1, <2>2, <2>3 DEF GicInvariant
<1>4. CASE on = distributor_enabled
  <2>1. /\ distributor_enabled' = distributor_enabled /\ pc' = after
        /\ UNCHANGED <<next, empty>>
    BY <1>4 DEF SetDistributorEnabled
  <2>2. GicTypeOK'
    BY <2>1 DEF GicInvariant, GicTypeOK
  <2>3. RefillFindsFree' /\ HcrIsCurrent' /\ WakeupIsKnown'
    BY <1>1, <2>1 DEF GicInvariant, RefillFindsFree, HcrIsCurrent, WakeupIsKnown
  <2> QED BY <1>1, <2>2, <2>3 DEF GicInvariant
<1> QED BY <1>3, <1>4

\* An acknowledged or serviced interrupt is forwarded.
LEMMA ForwardStep ==
    ASSUME GicInvariant, pc \in {"ack", "finish"}, NEW i \in Interrupts, Forward(i),
           token \in {SPURIOUS, i}, token' = SPURIOUS, i \notin active \/ token = i,
           active' = active \cup {i}, raised' \subseteq Interrupts, deliver' \in BOOLEAN,
           UNCHANGED <<hcr, distributor_enabled, envVars>>
    PROVE  GicInvariant'
<1>1. /\ empty = {} /\ i \notin pending /\ Holding(i) = {}
      /\ \A j \in Interrupts : j \in active /\ token # j <=> j \in pending \/ Holding(j) # {}
  <2>1. \A j \in Interrupts :
          /\ j \in active <=> j \in pending \/ Holding(j) # {} \/ token = j
          /\ j \in pending => Holding(j) = {} /\ token # j
          /\ token = j => Holding(j) = {}
    BY DEF GicInvariant, ActiveIsHeldOnce
  <2> QED BY <2>1 DEF GicInvariant, RefillFindsFree
<1>2. /\ lr' \in [LRs -> LrState]
      /\ lr_iar' \in [LRs -> Interrupts \cup {SPURIOUS}]
      /\ pending' \subseteq Interrupts /\ pending_count' \in 0 .. 1148
      /\ pc' \in {"guest", "refill"} /\ next' \in {"guest", "ack"} /\ empty' \subseteq LRs
      /\ SourcesRecorded' /\ OneRegisterPerId' /\ CountIsExact'
      /\ empty' \subseteq empty_lrs'
      /\ pc' = "guest" => empty' = {} /\ pending' = {}
      /\ \A j \in Interrupts :
           /\ j \in pending' \/ Holding(j)' # {} <=> j \in pending \/ Holding(j) # {} \/ j = i
           /\ j \in pending' => Holding(j)' = {}
           /\ \A k, m \in Holding(j)' : k = m
  BY <1>1, ForwardPlaces DEF GicInvariant
<1>3. GicTypeOK'
  BY <1>2 DEF GicInvariant, GicTypeOK, envVars
<1>4. ActiveIsHeldOnce'
  <2> SUFFICES ASSUME NEW j \in Interrupts
               PROVE  /\ j \in active' <=> j \in pending' \/ Holding(j)' # {} \/ token' = j
                      /\ j \in pending' => Holding(j)' = {} /\ token' # j
                      /\ token' = j => Holding(j)' = {}
                      /\ \A k, m \in Holding(j)' : k = m
    BY DEF ActiveIsHeldOnce
  <2>1. token' # j
    BY GicAssumption
  <2> QED BY <1>1, <1>2, <2>1
<1>5. RefillFindsFree' /\ HcrIsCurrent' /\ WakeupIsKnown'
  BY <1>2 DEF GicInvariant, RefillFindsFree, HcrIsCurrent, WakeupIsKnown
<1> QED BY <1>2, <1>3, <1>4, <1>5 DEF GicInvariant

\* refill moves one interrupt from the queue to a register.
LEMMA RefillStep ==
    ASSUME GicInvariant, NEW i \in Interrupts, Refill(i)
    PROVE  GicInvariant'
<1> DEFINE k == Lowest(empty)
<1>1. /\ k \in empty /\ k \in empty_lrs /\ k \in LRs
      /\ empty' = empty \ {k} /\ inject(k, i)
  <2>1. empty \in SUBSET LRs /\ empty # {} /\ empty \subseteq empty_lrs
    BY DEF GicInvariant, GicTypeOK, Refill, RefillFindsFree
  <2> QED BY <2>1, LowestIsMember DEF Refill
<1> HIDE DEF k
<1>2. /\ i \in pending /\ injectable(i) /\ Holding(i) = {}
      /\ pending' = pending \ {i} /\ pending_count' = pending_count - 1
  BY DEF GicInvariant, ActiveIsHeldOnce, Refill, Highest
<1>3. /\ lr' \in [LRs -> LrState]
      /\ lr_iar' \in [LRs -> Interrupts \cup {SPURIOUS}]
      /\ SourcesRecorded'
  BY <1>1, InjectRegisters DEF GicInvariant
<1>4. /\ OneRegisterPerId'
      /\ empty_lrs' = empty_lrs \ {k}
      /\ Holding(i)' = {k}
      /\ \A j \in Interrupts : j # i => Holding(j)' = Holding(j)
  BY <1>1, <1>2, InjectHolds DEF GicInvariant
<1>5. CountIsExact' /\ pending_count' \in 0 .. 1148
  BY <1>2, Dequeued DEF GicInvariant
<1>6. GicTypeOK'
  BY <1>1, <1>2, <1>3, <1>5 DEF GicInvariant, GicTypeOK, Refill, envVars
<1>7. ActiveIsHeldOnce'
  <2> SUFFICES ASSUME NEW j \in Interrupts
               PROVE  /\ j \in active' <=> j \in pending' \/ Holding(j)' # {} \/ token' = j
                      /\ j \in pending' => Holding(j)' = {} /\ token' # j
                      /\ token' = j => Holding(j)' = {}
                      /\ \A l, m \in Holding(j)' : l = m
    BY DEF ActiveIsHeldOnce
  <2>1. /\ j \in active <=> j \in pending \/ Holding(j) # {} \/ token = j
        /\ j \in pending => Holding(j) = {} /\ token # j
        /\ token = j => Holding(j) = {}
        /\ \A l, m \in Holding(j) : l = m
    BY DEF GicInvariant, ActiveIsHeldOnce
  <2>2. active' = active /\ token' = token
    BY DEF Refill
  <2> QED BY <1>2, <1>4, <2>1, <2>2
<1>8. RefillFindsFree' /\ HcrIsCurrent' /\ WakeupIsKnown'
  BY <1>1, <1>4 DEF GicInvariant, Refill, RefillFindsFree, HcrIsCurrent, WakeupIsKnown
<1> QED BY <1>3, <1>4, <1>5, <1>6, <1>7, <1>8 DEF GicInvariant

\* The loop ends and update_hcr decides about the underflow interrupt.
LEMMA RefillDoneStep ==
    ASSUME GicInvariant, RefillDone
    PROVE  GicInvariant'
<1>1. /\ SourcesRecorded' /\ ActiveIsHeldOnce' /\ OneRegisterPerId' /\ CountIsExact'
      /\ empty_lrs' = empty_lrs
  BY NothingMoves DEF RefillDone
<1>2. /\ hcr'.enable = distributor_enabled
      /\ hcr'.underflow <=> distributor_enabled /\ has_injectable_pending
      /\ hcr' \in [enable : BOOLEAN, underflow : BOOLEAN]
  <2>1. distributor_enabled \in BOOLEAN
    BY DEF GicInvariant, GicTypeOK
  <2>2. has_injectable_pending \in BOOLEAN
    BY DEF has_injectable_pending
  <2>3. hcr' = [enable |-> distributor_enabled,
                underflow |-> distributor_enabled /\ has_injectable_pending]
    BY DEF RefillDone
  <2> QED BY <2>1, <2>2, <2>3
<1>3. GicTypeOK'
  BY <1>2 DEF GicInvariant, GicTypeOK, RefillDone, envVars
<1>4. RefillFindsFree' /\ HcrIsCurrent'
  BY <1>2 DEF GicInvariant, GicTypeOK, RefillDone, RefillFindsFree, HcrIsCurrent
<1>5. WakeupIsKnown'
  <2>1. ASSUME NEW i \in pending, ~has_injectable_pending
        PROVE  \E k \in LRs : lr[k].state # "empty" /\ IsSgi(lr[k].iar)
    <3>1. pending_count # 0
      BY EmptyQueue DEF GicInvariant
    <3>2. PICK k \in LRs : lr_iar[k] # SPURIOUS
      BY <2>1, <3>1 DEF has_injectable_pending, injectable, sgi_in_lr
    <3> QED BY <3>2 DEF GicInvariant, SourcesRecorded
  <2> QED BY <1>2, <2>1 DEF WakeupIsKnown, RefillDone
<1> QED BY <1>1, <1>3, <1>4, <1>5 DEF GicInvariant

\* drain_sgi_eois empties the registers whose SGIs the guest has ended.
LEMMA AckMaintenanceStep ==
    ASSUME GicInvariant, AckMaintenance
    PROVE  GicInvariant'
<1>1. /\ lr' = [k \in LRs |-> IF k \in eoi_lrs THEN EmptyLr ELSE lr[k]]
      /\ lr_iar' = [k \in LRs |-> IF k \in eoi_lrs THEN SPURIOUS ELSE lr_iar[k]]
      /\ \A k \in LRs : k \in eoi_lrs <=> lr[k].state = "ended"
  BY DEF AckMaintenance, eoi_lrs
<1>2. /\ EmptyLr \in LrState /\ EmptyLr.state = "empty" /\ EmptyLr.iar = SPURIOUS
  BY DEF EmptyLr, LrState
<1>3. lr' \in [LRs -> LrState] /\ lr_iar' \in [LRs -> Interrupts \cup {SPURIOUS}]
  BY <1>1, <1>2 DEF GicInvariant, GicTypeOK
<1>4. SourcesRecorded'
  BY <1>1, <1>2 DEF GicInvariant, SourcesRecorded
<1>5. OneRegisterPerId'
  BY <1>1, <1>2 DEF GicInvariant, OneRegisterPerId
<1>6. /\ empty_lrs' = empty_lrs \cup eoi_lrs /\ empty_lrs' \subseteq LRs
      /\ empty' \subseteq empty_lrs' /\ pc' = "refill" /\ next' = "guest"
  <2>1. empty_lrs' = empty_lrs \cup eoi_lrs
    BY <1>1, <1>2 DEF empty_lrs, eoi_lrs
  <2> QED BY <2>1 DEF AckMaintenance, EnterRefill, empty_lrs, eoi_lrs
<1>7. GicTypeOK'
  BY <1>3, <1>6 DEF GicInvariant, GicTypeOK, AckMaintenance, envVars
<1>8. ActiveIsHeldOnce'
  <2> SUFFICES ASSUME NEW j \in Interrupts
               PROVE  /\ j \in active' <=> j \in pending' \/ Holding(j)' # {} \/ token' = j
                      /\ j \in pending' => Holding(j)' = {} /\ token' # j
                      /\ token' = j => Holding(j)' = {}
                      /\ \A l, m \in Holding(j)' : l = m
    BY DEF ActiveIsHeldOnce
  <2>1. /\ j \in active <=> j \in pending \/ Holding(j) # {} \/ token = j
        /\ j \in pending => Holding(j) = {} /\ token # j
        /\ token = j => Holding(j) = {}
        /\ \A l, m \in Holding(j) : l = m
    BY DEF GicInvariant, ActiveIsHeldOnce
  <2>2. pending' = pending /\ token' = token
    BY DEF AckMaintenance
  <2>3. Holding(j)' = Holding(j) \ eoi_lrs
    BY <1>1, <1>2 DEF Holding
  <2>4. j \in active' <=> j \in active /\ Holding(j) \cap eoi_lrs = {}
    <3>1. \A k \in eoi_lrs : k \in LRs /\ lr_iar[k] = lr[k].iar /\ lr[k].state # "empty"
      BY DEF GicInvariant, SourcesRecorded, eoi_lrs
    <3>2. Holding(j) \cap eoi_lrs # {}
             <=> j \in {lr_iar[k] : k \in {m \in eoi_lrs : lr_iar[m] # SPURIOUS}}
      BY <3>1, GicAssumption DEF Holding
    <3> QED BY <3>2 DEF AckMaintenance
  <2> QED BY <2>1, <2>2, <2>3, <2>4
<1>9. RefillFindsFree' /\ HcrIsCurrent' /\ WakeupIsKnown' /\ CountIsExact'
  BY <1>6 DEF GicInvariant, AckMaintenance, RefillFindsFree, HcrIsCurrent, WakeupIsKnown,
     CountIsExact
<1> QED BY <1>4, <1>5, <1>7, <1>8, <1>9 DEF GicInvariant

\* An owned interrupt is taken into service, or its source is deactivated.
LEMMA TokenStep ==
    ASSUME GicInvariant, (\E i \in Interrupts : AckOwned(i)) \/ FinishDropped
    PROVE  GicInvariant'
<1>1. /\ UNCHANGED <<lr, lr_iar, pending, pending_count, hcr, distributor_enabled, next, empty>>
      /\ pc \in {"ack", "finish"} /\ pc' \in {"guest", "service"}
      /\ enabled' = enabled /\ line' = line /\ notifying' = notifying
  BY DEF AckOwned, FinishDropped, gicVars, envVars
<1>2. SourcesRecorded' /\ OneRegisterPerId' /\ CountIsExact' /\ empty_lrs' = empty_lrs
  BY <1>1 DEF GicInvariant, SourcesRecorded, OneRegisterPerId, CountIsExact, empty_lrs
<1>3. HcrIsCurrent' /\ WakeupIsKnown'
  BY <1>1 DEF GicInvariant, HcrIsCurrent, WakeupIsKnown
<1>4. /\ pc = "ack" => token = SPURIOUS
      /\ pc = "finish" => token \in Interrupts
  BY GicAssumption DEF GicInvariant, GicTypeOK, RefillFindsFree
<1>5. GicTypeOK' /\ RefillFindsFree'
  <2>1. ASSUME NEW i \in Interrupts, AckOwned(i)
        PROVE  /\ raised' \subseteq Interrupts /\ active' \subseteq Interrupts
               /\ token' \in Owned /\ token' # SPURIOUS /\ pc' = "service" /\ deliver' \in BOOLEAN
    <3>1. i \in Owned /\ i # SPURIOUS
      BY <2>1, GicAssumption DEF AckOwned, FirstOwned
    <3>2. raised \subseteq Interrupts /\ active \subseteq Interrupts /\ deliver \in BOOLEAN
      BY DEF GicInvariant, GicTypeOK
    <3> QED BY <2>1, <3>1, <3>2 DEF AckOwned
  <2>2. ASSUME FinishDropped
        PROVE  /\ raised' \subseteq Interrupts /\ active' \subseteq Interrupts
               /\ token' = SPURIOUS /\ pc' = "guest" /\ deliver' \in BOOLEAN
    <3>1. raised \subseteq Interrupts /\ active \subseteq Interrupts
      BY DEF GicInvariant, GicTypeOK
    <3> QED BY <2>2, <3>1 DEF FinishDropped, gicVars
  <2>3. /\ raised' \subseteq Interrupts /\ active' \subseteq Interrupts /\ deliver' \in BOOLEAN
        /\ token' \in Owned \cup {SPURIOUS}
        /\ pc' = "service" <=> token' # SPURIOUS
    BY <1>1, <2>1, <2>2
  <2>4. GicTypeOK'
    BY <1>1, <2>3 DEF GicInvariant, GicTypeOK
  <2>5. RefillFindsFree'
    BY <1>1, <1>2, <2>3 DEF GicInvariant, RefillFindsFree
  <2> QED BY <2>4, <2>5
<1>6. ActiveIsHeldOnce'
  <2> SUFFICES ASSUME NEW j \in Interrupts
               PROVE  /\ j \in active' <=> j \in pending' \/ Holding(j)' # {} \/ token' = j
                      /\ j \in pending' => Holding(j)' = {} /\ token' # j
                      /\ token' = j => Holding(j)' = {}
                      /\ \A l, m \in Holding(j)' : l = m
    BY DEF ActiveIsHeldOnce
  <2>1. /\ j \in active <=> j \in pending \/ Holding(j) # {} \/ token = j
        /\ j \in pending => Holding(j) = {} /\ token # j
        /\ token = j => Holding(j) = {}
        /\ \A l, m \in Holding(j) : l = m
    BY DEF GicInvariant, ActiveIsHeldOnce
  <2>2. Holding(j)' = Holding(j) /\ pending' = pending
    BY <1>1 DEF Holding
  <2>3. ASSUME NEW i \in Interrupts, AckOwned(i)
        PROVE  token = SPURIOUS /\ token' = i /\ i \notin active /\ active' = active \cup {i}
    BY <1>4, <2>3 DEF AckOwned, FirstOwned, Acknowledgeable
  <2>4. ASSUME FinishDropped
        PROVE  token \in Interrupts /\ token' = SPURIOUS /\ active' = active \ {token}
    BY <1>4, <2>4 DEF FinishDropped
  <2> QED BY <2>1, <2>2, <2>3, <2>4, GicAssumption
<1> QED BY <1>2, <1>3, <1>5, <1>6 DEF GicInvariant

\* The guest takes an interrupt.
LEMMA GuestAckStep ==
    ASSUME GicInvariant, NEW k \in LRs, GuestAck(k)
    PROVE  GicInvariant'
<1>1. /\ lr[k].state = "pending" /\ lr'[k] = [lr[k] EXCEPT !.state = "active"]
      /\ \A m \in LRs : m # k => lr'[m] = lr[m]
      /\ lr' = [lr EXCEPT ![k] = [lr[k] EXCEPT !.state = "active"]]
  BY DEF GuestAck, GicInvariant, GicTypeOK
<1>2. lr[k] \in LrState /\ [lr[k] EXCEPT !.state = "active"] \in LrState
  BY DEF GicInvariant, GicTypeOK, LrState
<1>3. lr'[k].state = "active" /\ lr'[k].iar = lr[k].iar
  BY <1>1, <1>2 DEF LrState
<1>4. lr' \in [LRs -> LrState]
  BY <1>1, <1>2 DEF GicInvariant, GicTypeOK
<1>5. SourcesRecorded' /\ OneRegisterPerId' /\ empty_lrs' = empty_lrs
  BY <1>1, <1>3 DEF GicInvariant, GuestAck, SourcesRecorded, OneRegisterPerId, empty_lrs
<1>6. \A i \in Interrupts : Holding(i)' = Holding(i)
  BY <1>1, <1>3 DEF Holding
<1>7. GicTypeOK'
  BY <1>4 DEF GicInvariant, GicTypeOK, GuestAck, cpuVars, envVars
<1>8. ActiveIsHeldOnce' /\ CountIsExact'
  BY <1>6 DEF GicInvariant, ActiveIsHeldOnce, CountIsExact, GuestAck, cpuVars
<1>9. RefillFindsFree' /\ HcrIsCurrent'
  BY <1>5 DEF GicInvariant, RefillFindsFree, HcrIsCurrent, GuestAck, cpuVars
<1>10. WakeupIsKnown'
  BY <1>1, <1>3 DEF GicInvariant, WakeupIsKnown, GuestAck, cpuVars
<1> QED BY <1>5, <1>7, <1>8, <1>9, <1>10 DEF GicInvariant

\* The guest ends an interrupt: an SGI is reported, another is deactivated.
LEMMA GuestEoiStep ==
    ASSUME GicInvariant, NEW k \in LRs, GuestEoi(k)
    PROVE  GicInvariant'
<1>1. /\ lr[k] \in LrState /\ lr[k].state = "active" /\ lr[k].iar \in Interrupts
      /\ UNCHANGED <<raised, hcr, distributor_enabled, pending, pending_count, lr_iar, cpuVars,
                     envVars>>
      /\ pc = "guest"
  BY UsedRegister DEF GuestEoi, GicInvariant, GicTypeOK
<1>2. CountIsExact' /\ HcrIsCurrent'
  BY <1>1 DEF GicInvariant, CountIsExact, HcrIsCurrent, cpuVars
<1>3. CASE IsSgi(lr[k].iar)
  <2>1. /\ lr' = [lr EXCEPT ![k] = [lr[k] EXCEPT !.state = "ended"]] /\ active' = active
    BY <1>3 DEF GuestEoi
  <2>2. [lr[k] EXCEPT !.state = "ended"] \in LrState
    BY <1>1 DEF LrState
  <2>3. /\ lr' \in [LRs -> LrState]
        /\ lr'[k].state = "ended" /\ lr'[k].iar = lr[k].iar
        /\ \A m \in LRs : m # k => lr'[m] = lr[m]
    BY <1>1, <2>1, <2>2 DEF GicInvariant, GicTypeOK, LrState
  <2>4. SourcesRecorded' /\ OneRegisterPerId' /\ empty_lrs' = empty_lrs
    BY <1>1, <1>3, <2>3 DEF GicInvariant, SourcesRecorded, OneRegisterPerId, empty_lrs
  <2>5. \A i \in Interrupts : Holding(i)' = Holding(i)
    BY <1>1, <2>3 DEF Holding
  <2>6. GicTypeOK'
    BY <1>1, <2>1, <2>3 DEF GicInvariant, GicTypeOK, cpuVars, envVars
  <2>7. ActiveIsHeldOnce'
    BY <1>1, <2>1, <2>5 DEF GicInvariant, ActiveIsHeldOnce, cpuVars
  <2>8. RefillFindsFree'
    BY <1>1, <2>4 DEF GicInvariant, RefillFindsFree, cpuVars
  <2>9. WakeupIsKnown'
    BY <1>1, <1>3, <2>3 DEF GicInvariant, WakeupIsKnown, cpuVars
  <2> QED BY <1>2, <2>4, <2>6, <2>7, <2>8, <2>9 DEF GicInvariant
<1>4. CASE ~IsSgi(lr[k].iar)
  <2>1. lr' = [lr EXCEPT ![k] = EmptyLr] /\ active' = active \ {lr[k].iar}
    BY <1>4 DEF GuestEoi
  <2>2. EmptyLr \in LrState /\ EmptyLr.state = "empty" /\ EmptyLr.iar = SPURIOUS
    BY DEF EmptyLr, LrState
  <2>3. /\ lr' \in [LRs -> LrState] /\ lr'[k] = EmptyLr
        /\ \A m \in LRs : m # k => lr'[m] = lr[m]
    BY <2>1, <2>2 DEF GicInvariant, GicTypeOK
  <2>4. SourcesRecorded' /\ OneRegisterPerId' /\ empty_lrs' = empty_lrs \cup {k}
    <3>1. SourcesRecorded'
      BY <1>1, <1>4, <2>2, <2>3 DEF GicInvariant, SourcesRecorded
    <3>2. OneRegisterPerId'
      BY <2>2, <2>3 DEF GicInvariant, OneRegisterPerId
    <3>3. empty_lrs' = empty_lrs \cup {k}
      BY <2>2, <2>3 DEF empty_lrs
    <3> QED BY <3>1, <3>2, <3>3
  <2>5. \A i \in Interrupts : Holding(i)' = Holding(i) \ {k}
    BY <2>2, <2>3 DEF Holding
  <2>6. GicTypeOK'
    BY <1>1, <2>1, <2>3 DEF GicInvariant, GicTypeOK, cpuVars, envVars
  <2>7. ActiveIsHeldOnce'
    <3> SUFFICES ASSUME NEW j \in Interrupts
                 PROVE  /\ j \in active' <=> j \in pending' \/ Holding(j)' # {} \/ token' = j
                        /\ j \in pending' => Holding(j)' = {} /\ token' # j
                        /\ token' = j => Holding(j)' = {}
                        /\ \A l, m \in Holding(j)' : l = m
      BY DEF ActiveIsHeldOnce
    <3>1. /\ j \in active <=> j \in pending \/ Holding(j) # {} \/ token = j
          /\ j \in pending => Holding(j) = {} /\ token # j
          /\ token = j => Holding(j) = {}
          /\ \A l, m \in Holding(j) : l = m
      BY DEF GicInvariant, ActiveIsHeldOnce
    <3>2. pending' = pending /\ token' = token
      BY <1>1 DEF cpuVars
    <3>3. k \in Holding(j) <=> j = lr[k].iar
      BY <1>1 DEF Holding
    <3> QED BY <2>1, <2>5, <3>1, <3>2, <3>3
  <2>8. RefillFindsFree'
    BY <1>1, <2>4 DEF GicInvariant, RefillFindsFree, cpuVars
  <2>9. WakeupIsKnown'
    BY <1>1, <1>4, <2>3 DEF GicInvariant, WakeupIsKnown, cpuVars
  <2> QED BY <1>2, <2>4, <2>6, <2>7, <2>8, <2>9 DEF GicInvariant
<1> QED BY <1>3, <1>4

\* Every step keeps the invariant.
LEMMA GicStep ==
    ASSUME GicInvariant, [GicNext]_vars
    PROVE  GicInvariant'
<1> USE DEF GicInvariant, GicTypeOK
<1>1. CASE TakeIrq
  <2> HIDE DEF GicInvariant
  <2> QED BY <1>1, SetDistributorEnabledStep DEF TakeIrq, envVars, GicInvariant
<1>2. CASE AckSpurious
  BY <1>2, BranchStep DEF AckSpurious, envVars
<1>3. CASE AckMaintenance
  BY <1>3, AckMaintenanceStep
<1>4. ASSUME NEW i \in Interrupts, AckGuest(i)
      PROVE  GicInvariant'
  <2>1. /\ pc = "ack" /\ Forward(i) /\ token = SPURIOUS /\ token' = SPURIOUS
        /\ i \notin active /\ active' = active \cup {i}
        /\ raised' \subseteq Interrupts /\ deliver' \in BOOLEAN
        /\ UNCHANGED <<hcr, distributor_enabled, envVars>>
    BY <1>4 DEF AckGuest, Acknowledgeable, RefillFindsFree
  <2> QED BY <2>1, ForwardStep
<1>5. CASE (\E i \in Interrupts : AckOwned(i)) \/ FinishDropped
  BY <1>5, TokenStep
<1>6. ASSUME NEW i \in Interrupts, Refill(i)
      PROVE  GicInvariant'
  BY <1>6, RefillStep
<1>7. CASE RefillDone
  BY <1>7, RefillDoneStep
<1>8. CASE ServiceOwned
  <2>1. NetworkRecheck \subseteq Interrupts
    BY GicAssumption DEF NetworkRecheck
  <2> QED BY <1>8, <2>1, BranchStep DEF ServiceOwned, envVars
<1>9. CASE FinishDelivered
  <2>1. /\ pc = "finish" /\ Forward(token) /\ token \in Interrupts /\ token' = SPURIOUS
        /\ raised' \subseteq Interrupts /\ deliver' \in BOOLEAN /\ active' = active
        /\ UNCHANGED <<hcr, distributor_enabled, envVars>>
    <3>1. token \in Interrupts
      BY <1>9, GicAssumption DEF FinishDelivered, RefillFindsFree
    <3>2. raised \cup {token} \subseteq Interrupts
      BY <3>1
    <3> HIDE DEF GicInvariant, GicTypeOK
    <3> QED BY <1>9, <3>1, <3>2 DEF FinishDelivered
  <2>2. active = active \cup {token}
    BY <2>1 DEF ActiveIsHeldOnce
  <2> QED BY <2>1, <2>2, ForwardStep
<1>10. ASSUME NEW k \in LRs, GuestAck(k)
       PROVE  GicInvariant'
  BY <1>10, GuestAckStep
<1>11. ASSUME NEW k \in LRs, GuestEoi(k)
       PROVE  GicInvariant'
  BY <1>11, GuestEoiStep
<1>12. ASSUME NEW l \in Owned, PendLine(l)
       PROVE  GicInvariant'
  <2>1. l \in Interrupts
    BY GicAssumption
  <2> QED BY <1>12, <2>1, QuietStep DEF PendLine, cpuVars
<1>13. CASE GuestTrap
  <2>1. raised \cup line \subseteq Interrupts
    BY GicAssumption
  <2> QED BY <1>13, <2>1, SetDistributorEnabledStep DEF GuestTrap, Synchronize
<1>14. CASE RemoteTrap
  <2>1. raised \cup line \subseteq Interrupts
    BY GicAssumption
  <2> QED BY <1>14, <2>1, QuietStep DEF RemoteTrap, cpuVars
<1>15. ASSUME NEW l \in Owned, AssertLine(l) \/ LowerLine(l)
       PROVE  GicInvariant'
  BY <1>15, QuietStep DEF AssertLine, LowerLine, cpuVars
<1>16. ASSUME NEW i \in Interrupts, Raise(i)
       PROVE  GicInvariant'
  BY <1>16, QuietStep DEF Raise, cpuVars, envVars
<1>17. CASE UNCHANGED vars
  BY <1>17, QuietStep DEF vars, cpuVars, envVars
<1> HIDE DEF GicInvariant
<1> QED
  BY <1>1, <1>2, <1>3, <1>4, <1>5, <1>6, <1>7, <1>8, <1>9, <1>10, <1>11, <1>12, <1>13, <1>14,
     <1>15, <1>16, <1>17
  DEF GicNext, DriverStep, GuestStep, EnvironmentStep

\* It holds after Driver::initialize.
LEMMA InitGicInvariant == GicInit => GicInvariant
<1> SUFFICES ASSUME GicInit PROVE GicInvariant
  OBVIOUS
<1>1. EmptyLr \in LrState /\ EmptyLr.state = "empty" /\ EmptyLr.iar = SPURIOUS
  BY DEF EmptyLr, LrState
<1>2. GicTypeOK
  <2>1. lr \in [LRs -> LrState] /\ lr_iar \in [LRs -> Interrupts \cup {SPURIOUS}]
    BY <1>1 DEF GicInit
  <2>2. hcr \in [enable : BOOLEAN, underflow : BOOLEAN]
    BY DEF GicInit
  <2>3. pending_count \in 0 .. 1148
    BY DEF GicInit
  <2> QED BY <2>1, <2>2, <2>3 DEF GicInit, GicTypeOK
<1>3. SourcesRecorded /\ RefillFindsFree /\ OneRegisterPerId
  BY <1>1 DEF GicInit, SourcesRecorded, RefillFindsFree, OneRegisterPerId
<1>4. ActiveIsHeldOnce
  <2>1. \A i \in Interrupts : Holding(i) = {} /\ token # i
    BY <1>1, GicAssumption DEF GicInit, Holding
  <2> QED BY <2>1 DEF GicInit, ActiveIsHeldOnce
<1>5. CountIsExact /\ HcrIsCurrent /\ WakeupIsKnown
  BY FS_EmptySet DEF GicInit, CountIsExact, HcrIsCurrent, WakeupIsKnown
<1> QED BY <1>2, <1>3, <1>4, <1>5 DEF GicInvariant

\* What update_hcr has arranged brings EL2 back.
LEMMA WakeupWorks ==
    ASSUME GicInvariant
    PROVE  QueueHasWakeup
<1> SUFFICES ASSUME pc = "guest", distributor_enabled, pending # {}, ValidLrs = {}
             PROVE  MaintenanceAsserted
  BY DEF QueueHasWakeup
<1>1. hcr.enable
  BY DEF GicInvariant, HcrIsCurrent
<1>2. CASE hcr.underflow
  BY <1>1, <1>2, FS_EmptySet DEF MaintenanceAsserted
<1>3. CASE ~hcr.underflow
  <2>1. PICK k \in LRs : lr[k].state # "empty"
    BY <1>3 DEF GicInvariant, WakeupIsKnown
  <2>2. lr[k].state \in {"empty", "pending", "active", "ended"}
    BY DEF GicInvariant, GicTypeOK, LrState
  <2>3. k \in eoi_lrs
    BY <2>1, <2>2 DEF ValidLrs, eoi_lrs
  <2> QED BY <1>1, <2>3 DEF MaintenanceAsserted
<1> QED BY <1>2, <1>3

(***************************************************************************)
(* Interrupt forwarding loses and doubles nothing, and a queued interrupt  *)
(* is not forgotten: take_interrupt, refill, drain_sgi_eois,               *)
(* finish_owned_interrupt and set_distributor_enabled keep the invariant   *)
(* of the list registers and the queue.                                    *)
(***************************************************************************)
THEOREM ForwardingIsSound == GicSpec => []ForwardingInvariant
<1>1. GicInvariant => ForwardingInvariant
  BY WakeupWorks DEF GicInvariant, ForwardingInvariant
<1>2. GicInvariant /\ [GicNext]_vars => GicInvariant'
  BY GicStep
<1> QED BY <1>1, <1>2, InitGicInvariant, PTL DEF GicSpec

-----------------------------------------------------------------------------
(***************************************************************************)
(* Arrivals and services.                                                  *)
(***************************************************************************)
\* A step that leaves registers and queue alone, and takes no guest's
\* interrupt back.
LEMMA NothingServed ==
    ASSUME UNCHANGED <<lr, pending>>, NEW i \in Interrupts,
           i \notin Owned /\ i \in raised => i \in raised'
    PROVE  ServesOnce(i)
<1>1. Waiting(i)' = Waiting(i) /\ Serving(i)' = Serving(i)
  BY DEF Waiting, Serving, InRegister
<1>2. Due(i)' = Bit(i \in raised') + Bit(Waiting(i))
  BY <1>1 DEF Due
<1>3. ~Acknowledges(i)
  BY <1>1 DEF Acknowledges
<1>4. i \notin Owned => Due(i)' = Due(i) + Bit(Arrives(i)) - Bit(Acknowledges(i))
  BY <1>2, <1>3 DEF Due, Bit, Arrives
<1> QED BY <1>1, <1>4 DEF ServesOnce

\* inject puts an interrupt into a free register, where it waits.
LEMMA InjectWaits ==
    ASSUME GicTypeOK, SourcesRecorded, NEW k \in empty_lrs, NEW i \in Interrupts, inject(k, i),
           NEW j \in Interrupts
    PROVE  /\ InRegister(j, "pending")' <=> InRegister(j, "pending") \/ j = i
           /\ InRegister(j, "active")' <=> InRegister(j, "active")
<1>1. k \in LRs /\ lr[k].state = "empty"
  BY DEF empty_lrs
<1>2. /\ lr'[k] = [state |-> "pending", iar |-> i]
      /\ \A m \in LRs : m # k => lr'[m] = lr[m]
  BY <1>1, InjectRegisters
<1>3. \A state : lr[k] = [state |-> state, iar |-> j] => state = "empty"
  BY <1>1
<1> QED BY <1>1, <1>2, <1>3 DEF InRegister

\* Forward makes one interrupt wait.
LEMMA ForwardWaits ==
    ASSUME GicTypeOK, SourcesRecorded, NEW i \in Interrupts, Forward(i), NEW j \in Interrupts
    PROVE  /\ Waiting(j)' <=> Waiting(j) \/ j = i
           /\ Serving(j)' <=> Serving(j)
<1>1. CASE CanInject(i) /\ inject(Lowest(empty_lrs), i) /\ pending' = pending
  <2>1. Lowest(empty_lrs) \in empty_lrs
    <3>1. empty_lrs \in SUBSET LRs /\ empty_lrs # {}
      BY <1>1 DEF CanInject, empty_lrs
    <3> QED BY <3>1, LowestIsMember
  <2> QED BY <1>1, <2>1, InjectWaits DEF Waiting, Serving
<1>2. CASE pending' = pending \cup {i} /\ lr' = lr
  BY <1>2 DEF Waiting, Serving, InRegister
<1> QED BY <1>1, <1>2 DEF Forward

\* The guest's interrupt is acknowledged by EL2 and waits.
LEMMA AckGuestServed ==
    ASSUME GicInvariant, NEW n \in Interrupts, AckGuest(n), NEW i \in Interrupts
    PROVE  ServesOnce(i)
<1>1. /\ Waiting(i)' <=> Waiting(i) \/ i = n
      /\ Serving(i)' <=> Serving(i)
  BY ForwardWaits DEF AckGuest, GicInvariant
<1>2. /\ n \in raised /\ n \notin Owned /\ raised' = raised \ {n}
      /\ ~Waiting(n)
  <2>1. n \in raised /\ n \notin active /\ n \notin Owned /\ raised' = raised \ {n}
    BY DEF AckGuest, Acknowledgeable
  <2>2. n \notin pending /\ Holding(n) = {}
    BY <2>1 DEF GicInvariant, ActiveIsHeldOnce
  <2>3. ~InRegister(n, "pending")
    BY <2>2 DEF InRegister, Holding
  <2> QED BY <2>1, <2>2, <2>3 DEF Waiting
<1>3. ~Arrives(i) /\ ~Acknowledges(i)
  BY <1>1, <1>2 DEF Arrives, Acknowledges
<1>4. Due(i)' = Bit(i \in raised') + Bit(Waiting(i)')
  BY DEF Due, Bit
<1>5. Due(i)' = Due(i)
  <2>1. CASE i = n
    BY <1>1, <1>2, <1>4, <2>1 DEF Due, Bit
  <2>2. CASE i # n
    BY <1>1, <1>2, <1>4, <2>2 DEF Due, Bit
  <2> QED BY <2>1, <2>2
<1>6. Due(i) \in Int
  BY DEF Due, Bit
<1> QED BY <1>1, <1>2, <1>3, <1>5, <1>6 DEF ServesOnce, Bit

\* An owned interrupt is forwarded.
LEMMA DeliveredServed ==
    ASSUME GicInvariant, FinishDelivered, NEW i \in Interrupts
    PROVE  ServesOnce(i)
<1>1. token \in Owned /\ token \in Interrupts
  BY GicAssumption DEF FinishDelivered, GicInvariant, GicTypeOK, RefillFindsFree
<1>2. /\ Waiting(i)' <=> Waiting(i) \/ i = token
      /\ Serving(i)' <=> Serving(i)
  BY <1>1, ForwardWaits DEF FinishDelivered, GicInvariant
<1>3. raised' = raised \cup {token} /\ deliver
  BY DEF FinishDelivered
<1>4. ASSUME i \notin Owned
      PROVE  Due(i)' = Due(i) + Bit(Arrives(i)) - Bit(Acknowledges(i))
  <2>1. (i \in raised' <=> i \in raised) /\ (Waiting(i)' <=> Waiting(i))
    BY <1>1, <1>2, <1>3, <1>4
  <2>2. Due(i)' = Bit(i \in raised') + Bit(Waiting(i)')
    BY DEF Due, Bit
  <2>3. ~Arrives(i) /\ ~Acknowledges(i)
    BY <1>2, <2>1 DEF Arrives, Acknowledges
  <2> QED BY <2>1, <2>2, <2>3 DEF Due, Bit
<1> QED BY <1>2, <1>3, <1>4 DEF ServesOnce

\* refill moves what waits from the queue to a register.
LEMMA RefillServed ==
    ASSUME GicInvariant, NEW n \in Interrupts, Refill(n), NEW i \in Interrupts
    PROVE  ServesOnce(i)
<1>1. Lowest(empty) \in empty_lrs
  <2>1. empty \in SUBSET LRs /\ empty # {} /\ empty \subseteq empty_lrs
    BY DEF GicInvariant, GicTypeOK, Refill, RefillFindsFree
  <2> QED BY <2>1, LowestIsMember
<1>2. /\ InRegister(i, "pending")' <=> InRegister(i, "pending") \/ i = n
      /\ InRegister(i, "active")' <=> InRegister(i, "active")
  BY <1>1, InjectWaits DEF Refill, GicInvariant
<1>3. n \in pending /\ pending' = pending \ {n} /\ raised' = raised
  BY DEF Refill, Highest
<1>4. (Waiting(i)' <=> Waiting(i)) /\ (Serving(i)' <=> Serving(i))
  BY <1>2, <1>3 DEF Waiting, Serving
<1>5. ~Arrives(i) /\ ~Acknowledges(i)
  BY <1>3, <1>4 DEF Arrives, Acknowledges
<1>6. Due(i)' = Bit(i \in raised') + Bit(Waiting(i)')
  BY DEF Due, Bit
<1>7. Due(i)' = Due(i) /\ Due(i) \in Int
  BY <1>3, <1>4, <1>6 DEF Due, Bit
<1> QED BY <1>4, <1>5, <1>7 DEF ServesOnce, Bit

\* drain_sgi_eois clears registers of which the guest has done its part.
LEMMA MaintenanceServed ==
    ASSUME AckMaintenance, NEW i \in Interrupts
    PROVE  ServesOnce(i)
<1>1. /\ lr' = [k \in LRs |-> IF k \in eoi_lrs THEN EmptyLr ELSE lr[k]]
      /\ pending' = pending /\ raised' = raised
  BY DEF AckMaintenance
<1>2. \A k \in LRs : IF lr[k].state = "ended" THEN lr'[k] = EmptyLr ELSE lr'[k] = lr[k]
  BY <1>1 DEF eoi_lrs
<1>3. ASSUME NEW state \in {"pending", "active"}
      PROVE  InRegister(i, state)' <=> InRegister(i, state)
  <2>1. \A k \in LRs : lr'[k] = [state |-> state, iar |-> i] <=> lr[k] = [state |-> state, iar |-> i]
    BY <1>2 DEF EmptyLr
  <2> QED BY <2>1 DEF InRegister
<1>4. (Waiting(i)' <=> Waiting(i)) /\ (Serving(i)' <=> Serving(i))
  BY <1>1, <1>3 DEF Waiting, Serving
<1>5. ~Arrives(i) /\ ~Acknowledges(i)
  BY <1>1, <1>4 DEF Arrives, Acknowledges
<1>6. Due(i)' = Bit(i \in raised') + Bit(Waiting(i)')
  BY DEF Due, Bit
<1>7. Due(i)' = Due(i) /\ Due(i) \in Int
  BY <1>1, <1>4, <1>6 DEF Due, Bit
<1> QED BY <1>4, <1>5, <1>7 DEF ServesOnce, Bit

\* The guest acknowledges one interrupt, which nothing else holds.
LEMMA GuestAckServed ==
    ASSUME GicInvariant, NEW k \in LRs, GuestAck(k), NEW i \in Interrupts
    PROVE  ServesOnce(i)
<1> DEFINE n == lr[k].iar
<1>1. /\ lr[k].state = "pending" /\ lr[k] \in LrState /\ lr[k] = [state |-> "pending", iar |-> n]
      /\ lr'[k] = [lr[k] EXCEPT !.state = "active"]
      /\ \A m \in LRs : m # k => lr'[m] = lr[m]
      /\ pending' = pending /\ raised' = raised /\ n \in Interrupts
  <2>1. lr[k].state = "pending" /\ lr[k] \in LrState /\ n \in Interrupts
    BY UsedRegister DEF GuestAck, GicInvariant, GicTypeOK
  <2>2. lr[k] = [state |-> "pending", iar |-> n]
    BY <2>1 DEF LrState
  <2> QED BY <2>1, <2>2 DEF GuestAck, GicInvariant, GicTypeOK
<1>2. lr'[k] = [state |-> "active", iar |-> n]
  BY <1>1
<1> HIDE DEF n
<1>3. /\ n \notin pending
      /\ \A m \in LRs : lr[m].state # "empty" /\ lr[m].iar = n => m = k
  <2>1. k \in Holding(n)
    BY <1>1 DEF Holding
  <2>2. /\ n \in pending => Holding(n) = {}
        /\ \A l, m \in Holding(n) : l = m
    BY <1>1 DEF GicInvariant, ActiveIsHeldOnce
  <2> QED BY <2>1, <2>2 DEF Holding
<1>4. /\ InRegister(i, "pending")' <=> InRegister(i, "pending") /\ i # n
      /\ InRegister(i, "active")' <=> InRegister(i, "active") \/ i = n
  <2>1. CASE i = n
    <3>1. \A m \in LRs : m # k => \A state \in {"pending", "active"} :
             lr'[m] # [state |-> state, iar |-> n]
      BY <1>1, <1>3
    <3> QED BY <1>1, <1>2, <2>1, <3>1 DEF InRegister
  <2>2. CASE i # n
    <3>1. \A state : lr'[k] # [state |-> state, iar |-> i] /\ lr[k] # [state |-> state, iar |-> i]
      BY <1>1, <1>2, <2>2
    <3> QED BY <1>1, <2>2, <3>1 DEF InRegister
  <2> QED BY <2>1, <2>2
<1>5. InRegister(n, "pending") /\ ~InRegister(n, "active")
  BY <1>1, <1>3 DEF InRegister
<1>6. /\ Waiting(i)' <=> Waiting(i) /\ i # n
      /\ Serving(i)' <=> Serving(i) \/ i = n
      /\ i = n => Waiting(i) /\ ~Serving(i)
  BY <1>1, <1>3, <1>4, <1>5 DEF Waiting, Serving
<1>7. ~Arrives(i) /\ (Acknowledges(i) <=> i = n)
  BY <1>1, <1>6 DEF Arrives, Acknowledges
<1>8. Due(i)' = Bit(i \in raised') + Bit(Waiting(i)')
  BY DEF Due, Bit
<1>9. Due(i)' = Due(i) + Bit(Arrives(i)) - Bit(Acknowledges(i))
  BY <1>1, <1>6, <1>7, <1>8 DEF Due, Bit
<1> QED BY <1>6, <1>7, <1>9 DEF ServesOnce

\* The guest ends a service.
LEMMA GuestEoiServed ==
    ASSUME GicInvariant, NEW k \in LRs, GuestEoi(k), NEW i \in Interrupts
    PROVE  ServesOnce(i)
<1>1. /\ lr[k] \in LrState /\ lr[k].state = "active"
      /\ lr'[k] \in {[lr[k] EXCEPT !.state = "ended"], EmptyLr}
      /\ \A m \in LRs : m # k => lr'[m] = lr[m]
      /\ pending' = pending /\ raised' = raised
  BY DEF GuestEoi, GicInvariant, GicTypeOK
<1>2. lr'[k].state \in {"ended", "empty"}
  BY <1>1 DEF LrState, EmptyLr
<1>3. InRegister(i, "pending")' <=> InRegister(i, "pending")
  <2>1. \A m \in LRs : lr'[m] = [state |-> "pending", iar |-> i] <=> lr[m] = [state |-> "pending", iar |-> i]
    BY <1>1, <1>2
  <2> QED BY <2>1 DEF InRegister
<1>4. InRegister(i, "active")' => InRegister(i, "active")
  <2>1. \A m \in LRs : lr'[m] = [state |-> "active", iar |-> i] => lr[m] = [state |-> "active", iar |-> i]
    BY <1>1, <1>2
  <2> QED BY <2>1 DEF InRegister
<1>5. (Waiting(i)' <=> Waiting(i)) /\ ~Arrives(i) /\ ~Acknowledges(i)
  BY <1>1, <1>3, <1>4 DEF Waiting, Arrives, Acknowledges, Serving
<1>6. Due(i)' = Bit(i \in raised') + Bit(Waiting(i)')
  BY DEF Due, Bit
<1>7. Due(i)' = Due(i) /\ Due(i) \in Int
  BY <1>1, <1>5, <1>6 DEF Due, Bit
<1> QED BY <1>5, <1>7 DEF ServesOnce, Bit, GuestStep

(***************************************************************************)
(* Each interrupt that arrives at a CPU is served by its guest once: no    *)
(* code of the driver or of the IRQ vector drops, makes up or doubles an   *)
(* instance on the way through queue and list registers, or ends a service *)
(* for the guest.                                                          *)
(***************************************************************************)
THEOREM ArrivalsAreServedOnce == GicSpec => EachIsServedOnce
<1>1. ASSUME GicInvariant, [GicNext]_vars, NEW i \in Interrupts
      PROVE  ServesOnce(i)
  <2>1. ASSUME NEW n \in Interrupts, AckGuest(n)
        PROVE  ServesOnce(i)
    BY <1>1, <2>1, AckGuestServed
  <2>2. CASE FinishDelivered
    BY <1>1, <2>2, DeliveredServed
  <2>3. ASSUME NEW n \in Interrupts, Refill(n)
        PROVE  ServesOnce(i)
    BY <1>1, <2>3, RefillServed
  <2>4. CASE AckMaintenance
    BY <2>4, MaintenanceServed
  <2>5. ASSUME NEW k \in LRs, GuestAck(k) \/ GuestEoi(k)
        PROVE  ServesOnce(i)
    BY <1>1, <2>5, GuestAckServed, GuestEoiServed
  <2>6. ASSUME NEW n \in Interrupts, AckOwned(n)
        PROVE  ServesOnce(i)
    <3>1. UNCHANGED <<lr, pending>> /\ (i \notin Owned /\ i \in raised => i \in raised')
      BY <2>6 DEF AckOwned, FirstOwned, gicVars
    <3> QED BY <3>1, NothingServed
  <2>7. CASE TakeIrq \/ AckSpurious \/ RefillDone \/ ServiceOwned \/ FinishDropped
    <3>1. UNCHANGED <<lr, pending>> /\ raised \subseteq raised'
      BY <2>7 DEF TakeIrq, AckSpurious, RefillDone, ServiceOwned, FinishDropped, gicVars
    <3> QED BY <3>1, NothingServed
  <2>8. CASE EnvironmentStep \/ UNCHANGED vars
    <3>1. UNCHANGED <<lr, pending>> /\ raised \subseteq raised'
      BY <2>8 DEF EnvironmentStep, GuestTrap, Synchronize, RemoteTrap, AssertLine, LowerLine,
        Raise, vars, gicVars
    <3> QED BY <3>1, NothingServed
  <2>9. ASSUME NEW l \in Owned, PendLine(l)
        PROVE  ServesOnce(i)
    <3>1. UNCHANGED <<lr, pending>> /\ raised \subseteq raised'
      BY <2>9 DEF PendLine, gicVars
    <3> QED BY <3>1, NothingServed
  <2> QED BY <1>1, <2>1, <2>2, <2>3, <2>4, <2>5, <2>6, <2>7, <2>8, <2>9
          DEF GicNext, DriverStep, GuestStep
<1>2. GicInvariant /\ [GicNext]_vars => [\A i \in Interrupts : ServesOnce(i)]_vars
  BY <1>1
<1>3. GicInvariant /\ [GicNext]_vars => GicInvariant'
  BY GicStep
<1> QED BY <1>2, <1>3, InitGicInvariant, PTL DEF GicSpec, EachIsServedOnce
=============================================================================
