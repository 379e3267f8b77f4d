----------------------------- MODULE XudcProofs -----------------------------
(***************************************************************************)
(* Proofs about the rings and buffers of one channel of the device         *)
(* controller, for every number of slots and any number of transfers,      *)
(* requests, halts, resets and failures.                                   *)
(***************************************************************************)
EXTENDS Xudc, SequenceTheorems, TLAPS

\* The hypothesis of the theorem.  poll() takes at most 32 events
\* (tegra210.rs:1037-1041).  When it stops there, no completion is left for a
\* ring in which no slot is occupied, that is, none of a transfer that was
\* given up: arm_data() could use its slot again, and the old completion would
\* then be taken for the new transfer's.
StaleAreTaken ==
    pc = "poll" /\ polled = PollLimit =>
        \A e \in Endpoints : rings[e].occupied = {} => Done(e) = {}

(***************************************************************************)
(* A ring, its completions and its descriptors.                            *)
(***************************************************************************)
\* The completions among the events.
DoneIn(evs, e) == {k \in DOMAIN evs : evs[k].kind = "transfer" /\ evs[k].ep = e}

\* How many descriptors ago slot s of n was used last.
AgeIn(n, next, s) == IF s < next THEN next - s ELSE next + n - s

\* `Tracked', of any ring.
TrackedBy(n, next, occ, evs, arm, e) ==
    /\ \A j, k \in DoneIn(evs, e) :
         j < k => AgeIn(n, next, evs[j].slot) > AgeIn(n, next, evs[k].slot)
    /\ \A j, k \in DOMAIN arm : j < k => AgeIn(n, next, arm[j].slot) > AgeIn(n, next, arm[k].slot)
    /\ \A j \in DoneIn(evs, e), k \in DOMAIN arm :
         AgeIn(n, next, evs[j].slot) > AgeIn(n, next, arm[k].slot)
    /\ \A k \in DoneIn(evs, e) : evs[k].slot \in occ
    /\ \A k \in DOMAIN arm : arm[k].slot \in occ
    /\ \A s \in occ : \/ \E k \in DoneIn(evs, e) : evs[k].slot = s
                      \/ \E k \in DOMAIN arm : arm[k].slot = s
    /\ \A s \in occ, t \in 0 .. n - 1 : AgeIn(n, next, t) <= AgeIn(n, next, s) => t \in occ

\* Every completion among `after' was one before.
NoneAdded(evs, after, e) == \A k \in DoneIn(after, e) : \E l \in DoneIn(evs, e) : after[k] = evs[l]

\* Sequences, element by element.
LEMMA TailOf ==
    ASSUME NEW R, NEW q \in Seq(R), q # <<>>
    PROVE  /\ Tail(q) \in Seq(R) /\ Len(Tail(q)) = Len(q) - 1 /\ Head(q) \in R /\ Head(q) = q[1]
           /\ Len(q) \in Nat /\ Len(q) > 0 /\ DOMAIN q = 1 .. Len(q) /\ 1 \in DOMAIN q
           /\ \A k : k \in DOMAIN Tail(q) <=> k \in Nat /\ k >= 1 /\ k + 1 \in DOMAIN q
           /\ \A k \in DOMAIN Tail(q) : Tail(q)[k] = q[k + 1]
<1>1. Len(q) \in Nat /\ Len(q) > 0 /\ DOMAIN q = 1 .. Len(q)
  BY EmptySeq, LenProperties
<1>2. /\ Tail(q) \in Seq(R) /\ Len(Tail(q)) = Len(q) - 1 /\ Head(q) \in R /\ Head(q) = q[1]
      /\ \A k \in 1 .. Len(Tail(q)) : Tail(q)[k] = q[k + 1]
  BY HeadTailProperties, <1>1
<1>3. DOMAIN Tail(q) = 1 .. Len(q) - 1
  BY <1>2, LenProperties
<1>4. \A k : k \in DOMAIN Tail(q) <=> k \in Nat /\ k >= 1 /\ k + 1 \in DOMAIN q
  BY <1>1, <1>3
<1> QED BY <1>1, <1>2, <1>3, <1>4

\* An element is added at the end.
LEMMA AppendOf ==
    ASSUME NEW R, NEW q \in Seq(R), NEW x \in R
    PROVE  /\ Append(q, x) \in Seq(R) /\ Len(q) \in Nat /\ DOMAIN q = 1 .. Len(q)
           /\ DOMAIN Append(q, x) = DOMAIN q \cup {Len(q) + 1} /\ Len(q) + 1 \notin DOMAIN q
           /\ \A k \in DOMAIN q : Append(q, x)[k] = q[k] /\ k < Len(q) + 1
           /\ Append(q, x)[Len(q) + 1] = x
<1>1. Len(q) \in Nat /\ DOMAIN q = 1 .. Len(q)
  BY LenProperties
<1>2. /\ Append(q, x) \in Seq(R) /\ Len(Append(q, x)) = Len(q) + 1
      /\ \A k \in 1 .. Len(q) : Append(q, x)[k] = q[k]
      /\ Append(q, x)[Len(q) + 1] = x
  BY AppendProperties
<1>3. DOMAIN Append(q, x) = 1 .. Len(q) + 1
  BY <1>2, LenProperties
<1> QED BY <1>1, <1>2, <1>3

\* The completions once the head has been taken.
AfterTail(evs, t, e) ==
    /\ \A k \in DoneIn(t, e) : k + 1 \in DoneIn(evs, e) /\ k \in Nat /\ k >= 1 /\ t[k] = evs[k + 1]
    /\ \A k \in DoneIn(evs, e) : k # 1 => /\ k - 1 \in DoneIn(t, e) /\ k \in Nat
                                          /\ k > 1 /\ t[k - 1] = evs[k]
    /\ 1 \in DoneIn(evs, e) <=> Head(evs).kind = "transfer" /\ Head(evs).ep = e
    /\ Head(evs) = evs[1]

\* The completions once x has been added, at z.
AfterAppend(evs, a, x, z, e) ==
    /\ \A k \in DoneIn(evs, e) : k \in DoneIn(a, e) /\ k \in Nat /\ k < z /\ a[k] = evs[k]
    /\ \A k \in DoneIn(a, e) : k \in DoneIn(evs, e) \/ k = z
    /\ z \in DoneIn(a, e) <=> x.kind = "transfer" /\ x.ep = e
    /\ a[z] = x /\ z \in Nat

\* Taking the head of the events moves the others up by one.
LEMMA DoneTail ==
    ASSUME NEW R, NEW evs \in Seq(R), evs # <<>>, NEW e
    PROVE  AfterTail(evs, Tail(evs), e)
<1> DEFINE t == Tail(evs)
<1>1. /\ Len(evs) \in Nat /\ DOMAIN evs = 1 .. Len(evs) /\ 1 \in DOMAIN evs /\ Head(evs) = evs[1]
      /\ \A k : k \in DOMAIN t <=> k \in Nat /\ k >= 1 /\ k + 1 \in DOMAIN evs
      /\ \A k \in DOMAIN t : t[k] = evs[k + 1]
  BY TailOf
<1> HIDE DEF t
<1>2. ASSUME NEW k \in DoneIn(t, e)
      PROVE  k + 1 \in DoneIn(evs, e) /\ k \in Nat /\ k >= 1 /\ t[k] = evs[k + 1]
  BY <1>1 DEF DoneIn
<1>3. ASSUME NEW k \in DoneIn(evs, e), k # 1
      PROVE  k - 1 \in DoneIn(t, e) /\ k \in Nat /\ k > 1 /\ t[k - 1] = evs[k]
  <2>1. k \in DOMAIN evs /\ evs[k].kind = "transfer" /\ evs[k].ep = e
    BY DEF DoneIn
  <2>2. k \in Nat /\ k > 1 /\ k - 1 \in Nat /\ k - 1 >= 1 /\ (k - 1) + 1 = k
    BY <1>1, <1>3, <2>1
  <2>3. k - 1 \in DOMAIN t /\ t[k - 1] = evs[k]
    BY <1>1, <2>1, <2>2
  <2> QED BY <2>1, <2>2, <2>3 DEF DoneIn
<1>4. 1 \in DoneIn(evs, e) <=> Head(evs).kind = "transfer" /\ Head(evs).ep = e
  BY <1>1 DEF DoneIn
<1> QED BY <1>1, <1>2, <1>3, <1>4 DEF t, AfterTail

\* An event that is added comes last.
LEMMA DoneAppend ==
    ASSUME NEW R, NEW evs \in Seq(R), NEW x \in R, NEW e
    PROVE  AfterAppend(evs, Append(evs, x), x, Len(evs) + 1, e)
<1> DEFINE a == Append(evs, x)
<1>1. /\ Len(evs) \in Nat /\ DOMAIN evs = 1 .. Len(evs)
      /\ DOMAIN a = DOMAIN evs \cup {Len(evs) + 1} /\ Len(evs) + 1 \notin DOMAIN evs
      /\ \A k \in DOMAIN evs : a[k] = evs[k] /\ k < Len(evs) + 1
      /\ a[Len(evs) + 1] = x
  BY AppendOf
<1> HIDE DEF a
<1> QED BY <1>1 DEF DoneIn, a, AfterAppend

(***************************************************************************)
(* What happens to a ring that is tracked.  In the lemmas, n is the number *)
(* of slots, next and occ the driver's side of the ring, evs the event     *)
(* ring and arm the descriptors that the controller has not completed.     *)
(***************************************************************************)
\* The controller completes the descriptor at the head.
LEMMA Complete ==
    ASSUME NEW R, NEW evs \in Seq(R), NEW D, NEW arm \in Seq(D), arm # <<>>, NEW x \in R, NEW e,
           x.kind = "transfer", x.ep = e, x.slot = Head(arm).slot,
           NEW n \in Nat, NEW next \in Nat, NEW occ \in SUBSET Nat,
           TrackedBy(n, next, occ, evs, arm, e)
    PROVE  TrackedBy(n, next, occ, Append(evs, x), Tail(arm), e)
<1> DEFINE a == Append(evs, x)
           t == Tail(arm)
           z == Len(evs) + 1
           Age1(s) == AgeIn(n, next, s)
<1>1. /\ \A k \in DoneIn(evs, e) : k \in DoneIn(a, e) /\ k \in Nat /\ k < z /\ a[k] = evs[k]
      /\ \A k \in DoneIn(a, e) : k \in DoneIn(evs, e) \/ k = z
      /\ z \in DoneIn(a, e) /\ a[z] = x /\ z \in Nat
  <2>1. AfterAppend(evs, a, x, z, e)
    BY DoneAppend
  <2> HIDE DEF a, z
  <2> QED BY <2>1 DEF AfterAppend
<1>2. /\ arm[1] = Head(arm) /\ 1 \in DOMAIN arm
      /\ \A k \in DOMAIN t : k \in Nat /\ k >= 1 /\ k + 1 \in DOMAIN arm /\ t[k] = arm[k + 1]
      /\ DOMAIN arm = 1 .. Len(arm) /\ Len(arm) \in Nat
      /\ \A k \in DOMAIN arm : k # 1 => k - 1 \in DOMAIN t /\ t[k - 1] = arm[k]
  <2>1. /\ arm[1] = Head(arm) /\ 1 \in DOMAIN arm /\ DOMAIN arm = 1 .. Len(arm) /\ Len(arm) \in Nat
        /\ \A k : k \in DOMAIN t <=> k \in Nat /\ k >= 1 /\ k + 1 \in DOMAIN arm
        /\ \A k \in DOMAIN t : t[k] = arm[k + 1]
    BY TailOf
  <2> HIDE DEF t
  <2>2. ASSUME NEW k \in DOMAIN arm, k # 1
        PROVE  k - 1 \in DOMAIN t /\ t[k - 1] = arm[k]
    <3>1. k - 1 \in Nat /\ k - 1 >= 1 /\ (k - 1) + 1 = k
      BY <2>1, <2>2
    <3> QED BY <2>1, <3>1
  <2> QED BY <2>1, <2>2
<1> HIDE DEF a, t, z
<1>3. /\ \A j, k \in DoneIn(evs, e) : j < k => Age1(evs[j].slot) > Age1(evs[k].slot)
      /\ \A j, k \in DOMAIN arm : j < k => Age1(arm[j].slot) > Age1(arm[k].slot)
      /\ \A j \in DoneIn(evs, e), k \in DOMAIN arm : Age1(evs[j].slot) > Age1(arm[k].slot)
      /\ \A k \in DoneIn(evs, e) : evs[k].slot \in occ
      /\ \A k \in DOMAIN arm : arm[k].slot \in occ
      /\ \A s \in occ : \/ \E k \in DoneIn(evs, e) : evs[k].slot = s
                        \/ \E k \in DOMAIN arm : arm[k].slot = s
      /\ \A s \in occ, u \in 0 .. n - 1 : Age1(u) <= Age1(s) => u \in occ
  BY DEF TrackedBy
<1> HIDE DEF Age1
<1>4. \A j, k \in DoneIn(a, e) : j < k => Age1(a[j].slot) > Age1(a[k].slot)
  <2> SUFFICES ASSUME NEW j \in DoneIn(a, e), NEW k \in DoneIn(a, e), j < k
               PROVE  Age1(a[j].slot) > Age1(a[k].slot)
    OBVIOUS
  <2>0. k \in Nat /\ k <= z /\ j \in Nat
    <3>1. ASSUME NEW i \in DoneIn(a, e) PROVE i \in Nat /\ i <= z
      <4>1. CASE i = z
        BY <1>1, <4>1
      <4>2. CASE i \in DoneIn(evs, e)
        <5>1. i \in Nat /\ i < z /\ z \in Nat
          BY <1>1, <4>2, Zenon
        <5> QED BY <5>1
      <4> QED BY <1>1, <4>1, <4>2
    <3> QED BY <3>1
  <2>1. j \in DoneIn(evs, e) /\ a[j] = evs[j]
    <3>1. j # z
      BY <1>1, <2>0
    <3> QED BY <1>1, <3>1
  <2>2. CASE k = z
    <3>1. a[k].slot = arm[1].slot /\ 1 \in DOMAIN arm
      BY <1>1, <1>2, <2>2
    <3> QED BY <1>3, <2>1, <3>1
  <2>3. CASE k \in DoneIn(evs, e)
    <3>1. a[k] = evs[k]
      BY <1>1, <2>3
    <3> QED BY <1>3, <2>1, <2>3, <3>1
  <2> QED BY <1>1, <2>2, <2>3
<1>5. \A j, k \in DOMAIN t : j < k => Age1(t[j].slot) > Age1(t[k].slot)
  <2> SUFFICES ASSUME NEW j \in DOMAIN t, NEW k \in DOMAIN t, j < k
               PROVE  Age1(t[j].slot) > Age1(t[k].slot)
    OBVIOUS
  <2>1. /\ j + 1 \in DOMAIN arm /\ k + 1 \in DOMAIN arm /\ j + 1 < k + 1
        /\ t[j] = arm[j + 1] /\ t[k] = arm[k + 1]
    BY <1>2
  <2> QED BY <1>3, <2>1
<1>6. \A j \in DoneIn(a, e), k \in DOMAIN t : Age1(a[j].slot) > Age1(t[k].slot)
  <2> SUFFICES ASSUME NEW j \in DoneIn(a, e), NEW k \in DOMAIN t
               PROVE  Age1(a[j].slot) > Age1(t[k].slot)
    OBVIOUS
  <2>1. k + 1 \in DOMAIN arm /\ t[k] = arm[k + 1] /\ 1 < k + 1
    BY <1>2
  <2>2. CASE j = z
    BY <1>1, <1>2, <1>3, <2>1, <2>2
  <2>3. CASE j # z
    BY <1>1, <1>3, <2>1, <2>3
  <2> QED BY <2>2, <2>3
<1>7. (\A k \in DoneIn(a, e) : a[k].slot \in occ) /\ (\A k \in DOMAIN t : t[k].slot \in occ)
  <2>1. x.slot \in occ
    BY <1>2, <1>3
  <2>2. \A k \in DoneIn(a, e) : a[k].slot \in occ
    BY <1>1, <1>3, <2>1
  <2>3. \A k \in DOMAIN t : t[k].slot \in occ
    BY <1>2, <1>3
  <2> QED BY <2>2, <2>3
<1>8. \A s \in occ : \/ \E k \in DoneIn(a, e) : a[k].slot = s
                     \/ \E k \in DOMAIN t : t[k].slot = s
  <2> SUFFICES ASSUME NEW s \in occ
               PROVE  \/ \E k \in DoneIn(a, e) : a[k].slot = s
                      \/ \E k \in DOMAIN t : t[k].slot = s
    OBVIOUS
  <2>1. CASE \E k \in DoneIn(evs, e) : evs[k].slot = s
    BY <1>1, <2>1
  <2>2. ASSUME NEW k \in DOMAIN arm, arm[k].slot = s
        PROVE  \/ \E l \in DoneIn(a, e) : a[l].slot = s
               \/ \E l \in DOMAIN t : t[l].slot = s
    <3>1. CASE k = 1
      BY <1>1, <1>2, <2>2, <3>1
    <3>2. CASE k # 1
      BY <1>2, <2>2, <3>2
    <3> QED BY <3>1, <3>2
  <2> QED BY <1>3, <2>1, <2>2
<1> QED BY <1>3, <1>4, <1>5, <1>6, <1>7, <1>8 DEF TrackedBy, Age1, a, t

\* The driver takes the completion at the head of the event ring.
LEMMA Take ==
    ASSUME NEW R, NEW evs \in Seq(R), evs # <<>>, NEW arm, NEW e,
           Head(evs).kind = "transfer", Head(evs).ep = e,
           NEW n \in Nat, NEW next \in Nat, NEW occ \in SUBSET Nat,
           TrackedBy(n, next, occ, evs, arm, e)
    PROVE  /\ Head(evs).slot \in occ
           /\ TrackedBy(n, next, occ \ {Head(evs).slot}, Tail(evs), arm, e)
<1> DEFINE t == Tail(evs)
           h == Head(evs).slot
           Age1(s) == AgeIn(n, next, s)
           rest == occ \ {h}
<1>1. /\ \A k \in DoneIn(t, e) : /\ k + 1 \in DoneIn(evs, e) /\ k \in Nat /\ k >= 1
                                 /\ t[k] = evs[k + 1]
      /\ \A k \in DoneIn(evs, e) : k # 1 => /\ k - 1 \in DoneIn(t, e) /\ k \in Nat
                                            /\ k > 1 /\ t[k - 1] = evs[k]
      /\ 1 \in DoneIn(evs, e) /\ evs[1].slot = h
  <2>1. AfterTail(evs, t, e)
    BY DoneTail
  <2> HIDE DEF t
  <2> QED BY <2>1 DEF AfterTail
<1> HIDE DEF t, h
<1>3. /\ \A j, k \in DoneIn(evs, e) : j < k => Age1(evs[j].slot) > Age1(evs[k].slot)
      /\ \A j, k \in DOMAIN arm : j < k => Age1(arm[j].slot) > Age1(arm[k].slot)
      /\ \A j \in DoneIn(evs, e), k \in DOMAIN arm : Age1(evs[j].slot) > Age1(arm[k].slot)
      /\ \A k \in DoneIn(evs, e) : evs[k].slot \in occ
      /\ \A k \in DOMAIN arm : arm[k].slot \in occ
      /\ \A s \in occ : \/ \E k \in DoneIn(evs, e) : evs[k].slot = s
                        \/ \E k \in DOMAIN arm : arm[k].slot = s
      /\ \A s \in occ, u \in 0 .. n - 1 : Age1(u) <= Age1(s) => u \in occ
  BY DEF TrackedBy
<1>2. \A s \in occ : Age1(s) \in Int
  <2> SUFFICES ASSUME NEW s \in occ PROVE Age1(s) \in Int
    OBVIOUS
  <2>1. s \in Nat
    OBVIOUS
  <2> QED BY <2>1 DEF AgeIn
<1> HIDE DEF Age1
<1>4. h \in occ
  BY <1>1, <1>3
<1>5. \A k \in DoneIn(t, e) : t[k].slot \in rest /\ Age1(t[k].slot) < Age1(h)
  <2> SUFFICES ASSUME NEW k \in DoneIn(t, e)
               PROVE  t[k].slot \in rest /\ Age1(t[k].slot) < Age1(h)
    OBVIOUS
  <2>1. k + 1 \in DoneIn(evs, e) /\ 1 < k + 1 /\ t[k] = evs[k + 1]
    BY <1>1
  <2>2. Age1(evs[1].slot) > Age1(evs[k + 1].slot) /\ evs[k + 1].slot \in occ
    BY <1>1, <1>3, <2>1
  <2>3. Age1(t[k].slot) < Age1(h) /\ t[k].slot \in occ
    BY <1>1, <1>2, <1>4, <2>1, <2>2
  <2>4. t[k].slot # h
    BY <1>2, <1>4, <2>3
  <2> QED BY <2>3, <2>4
<1>6. \A k \in DOMAIN arm : arm[k].slot \in rest /\ Age1(arm[k].slot) < Age1(h)
  BY <1>1, <1>2, <1>3, <1>4
<1>7. \A s \in rest : \/ \E k \in DoneIn(t, e) : t[k].slot = s
                      \/ \E k \in DOMAIN arm : arm[k].slot = s
  <2> SUFFICES ASSUME NEW s \in rest
               PROVE  \/ \E k \in DoneIn(t, e) : t[k].slot = s
                      \/ \E k \in DOMAIN arm : arm[k].slot = s
    OBVIOUS
  <2>1. ASSUME NEW k \in DoneIn(evs, e), evs[k].slot = s
        PROVE  \E l \in DoneIn(t, e) : t[l].slot = s
    <3>1. k # 1
      BY <1>1, <2>1
    <3> QED BY <1>1, <2>1, <3>1
  <2> QED BY <1>3, <2>1
<1>8. \A s \in rest, u \in 0 .. n - 1 : Age1(u) <= Age1(s) => u \in rest
  <2> SUFFICES ASSUME NEW s \in rest, NEW u \in 0 .. n - 1, Age1(u) <= Age1(s)
               PROVE  u \in rest
    OBVIOUS
  <2>1. Age1(s) < Age1(h)
    BY <1>5, <1>6, <1>7
  <2>2. u \in occ
    BY <1>3
  <2> QED BY <1>2, <1>4, <2>1, <2>2
<1>9. \A j, k \in DoneIn(t, e) : j < k => Age1(t[j].slot) > Age1(t[k].slot)
  <2> SUFFICES ASSUME NEW j \in DoneIn(t, e), NEW k \in DoneIn(t, e), j < k
               PROVE  Age1(t[j].slot) > Age1(t[k].slot)
    OBVIOUS
  <2>1. /\ j + 1 \in DoneIn(evs, e) /\ k + 1 \in DoneIn(evs, e) /\ j + 1 < k + 1
        /\ t[j] = evs[j + 1] /\ t[k] = evs[k + 1]
    BY <1>1
  <2> QED BY <1>3, <2>1
<1>10. \A j \in DoneIn(t, e), k \in DOMAIN arm : Age1(t[j].slot) > Age1(arm[k].slot)
  BY <1>1, <1>3
<1>11. TrackedBy(n, next, rest, t, arm, e)
  BY <1>3, <1>5, <1>6, <1>7, <1>8, <1>9, <1>10 DEF TrackedBy, Age1
<1> QED BY <1>4, <1>11 DEF t, h

\* The driver takes another event.
LEMMA Skip ==
    ASSUME NEW R, NEW evs \in Seq(R), evs # <<>>, NEW arm, NEW e,
           ~(Head(evs).kind = "transfer" /\ Head(evs).ep = e),
           NEW n, NEW next, NEW occ, TrackedBy(n, next, occ, evs, arm, e)
    PROVE  /\ TrackedBy(n, next, occ, Tail(evs), arm, e)
           /\ NoneAdded(evs, Tail(evs), e)
<1> DEFINE t == Tail(evs)
           Age1(s) == AgeIn(n, next, s)
<1>1. /\ \A k \in DoneIn(t, e) : /\ k + 1 \in DoneIn(evs, e) /\ k \in Nat /\ k >= 1
                                 /\ t[k] = evs[k + 1]
      /\ \A k \in DoneIn(evs, e) : k # 1 => /\ k - 1 \in DoneIn(t, e) /\ k \in Nat
                                            /\ k > 1 /\ t[k - 1] = evs[k]
      /\ 1 \notin DoneIn(evs, e)
  <2>1. AfterTail(evs, t, e)
    BY DoneTail
  <2> HIDE DEF t
  <2> QED BY <2>1 DEF AfterTail
<1> HIDE DEF t
<1>3. /\ \A j, k \in DoneIn(evs, e) : j < k => Age1(evs[j].slot) > Age1(evs[k].slot)
      /\ \A j, k \in DOMAIN arm : j < k => Age1(arm[j].slot) > Age1(arm[k].slot)
      /\ \A j \in DoneIn(evs, e), k \in DOMAIN arm : Age1(evs[j].slot) > Age1(arm[k].slot)
      /\ \A k \in DoneIn(evs, e) : evs[k].slot \in occ
      /\ \A k \in DOMAIN arm : arm[k].slot \in occ
      /\ \A s \in occ : \/ \E k \in DoneIn(evs, e) : evs[k].slot = s
                        \/ \E k \in DOMAIN arm : arm[k].slot = s
      /\ \A s \in occ, u \in 0 .. n - 1 : Age1(u) <= Age1(s) => u \in occ
  BY DEF TrackedBy
<1> HIDE DEF Age1
<1>4. \A j, k \in DoneIn(t, e) : j < k => Age1(t[j].slot) > Age1(t[k].slot)
  <2> SUFFICES ASSUME NEW j \in DoneIn(t, e), NEW k \in DoneIn(t, e), j < k
               PROVE  Age1(t[j].slot) > Age1(t[k].slot)
    OBVIOUS
  <2>1. /\ j + 1 \in DoneIn(evs, e) /\ k + 1 \in DoneIn(evs, e) /\ j + 1 < k + 1
        /\ t[j] = evs[j + 1] /\ t[k] = evs[k + 1]
    BY <1>1
  <2> QED BY <1>3, <2>1
<1>5. /\ \A j \in DoneIn(t, e), k \in DOMAIN arm : Age1(t[j].slot) > Age1(arm[k].slot)
      /\ \A k \in DoneIn(t, e) : t[k].slot \in occ
  BY <1>1, <1>3
<1>6. \A s \in occ : \/ \E k \in DoneIn(t, e) : t[k].slot = s
                     \/ \E k \in DOMAIN arm : arm[k].slot = s
  <2> SUFFICES ASSUME NEW s \in occ, NEW k \in DoneIn(evs, e), evs[k].slot = s
               PROVE  \E l \in DoneIn(t, e) : t[l].slot = s
    BY <1>3
  <2>1. k # 1
    BY <1>1
  <2> QED BY <1>1, <2>1
<1>7. NoneAdded(evs, t, e)
  BY <1>1 DEF NoneAdded
<1> QED BY <1>3, <1>4, <1>5, <1>6, <1>7 DEF TrackedBy, Age1, t

\* Another event arrives.
LEMMA Note ==
    ASSUME NEW R, NEW evs \in Seq(R), NEW x \in R, NEW arm, NEW e,
           ~(x.kind = "transfer" /\ x.ep = e),
           NEW n, NEW next, NEW occ, TrackedBy(n, next, occ, evs, arm, e)
    PROVE  /\ TrackedBy(n, next, occ, Append(evs, x), arm, e)
           /\ NoneAdded(evs, Append(evs, x), e)
<1> DEFINE a == Append(evs, x)
<1>1. /\ \A k \in DoneIn(evs, e) : k \in DoneIn(a, e) /\ a[k] = evs[k]
      /\ \A k \in DoneIn(a, e) : k \in DoneIn(evs, e)
  <2>1. AfterAppend(evs, a, x, Len(evs) + 1, e)
    BY DoneAppend
  <2> HIDE DEF a
  <2> QED BY <2>1 DEF AfterAppend
<1> HIDE DEF a
<1>2. DoneIn(a, e) = DoneIn(evs, e) /\ \A k \in DoneIn(a, e) : a[k] = evs[k]
  BY <1>1
<1> QED BY <1>2 DEF TrackedBy, NoneAdded, a

\* With each descriptor queued the others grow older.
LEMMA Older ==
    ASSUME NEW n \in Nat, NEW next \in 0 .. n - 1
    PROVE  /\ (next + 1) % n \in 0 .. n - 1
           /\ AgeIn(n, (next + 1) % n, next) = 1
           /\ \A s \in 0 .. n - 1 :
                /\ AgeIn(n, next, s) \in Nat /\ AgeIn(n, next, s) >= 1
                /\ s # next => AgeIn(n, (next + 1) % n, s) = AgeIn(n, next, s) + 1
<1> DEFINE m == (next + 1) % n
<1>1. m = IF next + 1 = n THEN 0 ELSE next + 1
  <2>1. n > 0 /\ next \in Nat /\ next < n /\ next + 1 <= n
    OBVIOUS
  <2>2. CASE next + 1 = n
    BY <2>1, <2>2
  <2>3. CASE next + 1 < n
    BY <2>1, <2>3
  <2> QED BY <2>1, <2>2, <2>3
<1> HIDE DEF m
<1>2. m \in 0 .. n - 1 /\ AgeIn(n, m, next) = 1
  BY <1>1 DEF AgeIn
<1>3. ASSUME NEW s \in 0 .. n - 1
      PROVE  /\ AgeIn(n, next, s) \in Nat /\ AgeIn(n, next, s) >= 1
             /\ s # next => AgeIn(n, m, s) = AgeIn(n, next, s) + 1
  BY <1>1 DEF AgeIn
<1> QED BY <1>2, <1>3 DEF m

\* The driver queues a descriptor in a slot that is free.
LEMMA Queue ==
    ASSUME NEW R, NEW evs \in Seq(R), NEW D, NEW arm \in Seq(D), NEW d \in D, NEW e,
           NEW n \in Nat, NEW next \in 0 .. n - 1, NEW occ \in SUBSET (0 .. n - 1),
           TrackedBy(n, next, occ, evs, arm, e), next \notin occ, d.slot = next
    PROVE  TrackedBy(n, (next + 1) % n, occ \cup {next}, evs, Append(arm, d), e)
<1> DEFINE a == Append(arm, d)
           z == Len(arm) + 1
           all == occ \cup {next}
           Age0(s) == AgeIn(n, next, s)
           Age1(s) == AgeIn(n, (next + 1) % n, s)
<1>1. /\ DOMAIN a = DOMAIN arm \cup {z} /\ z \notin DOMAIN arm /\ z \in Nat
      /\ \A k \in DOMAIN arm : a[k] = arm[k] /\ k < z /\ k \in Nat
      /\ a[z] = d
  BY AppendOf
<1>3. /\ Age1(next) = 1
      /\ \A s \in 0 .. n - 1 : s # next => Age1(s) = Age0(s) + 1
      /\ \A s \in 0 .. n - 1 : Age0(s) \in Nat /\ Age0(s) >= 1
  BY Older
<1>4. /\ \A j, k \in DoneIn(evs, e) : j < k => Age0(evs[j].slot) > Age0(evs[k].slot)
      /\ \A j, k \in DOMAIN arm : j < k => Age0(arm[j].slot) > Age0(arm[k].slot)
      /\ \A j \in DoneIn(evs, e), k \in DOMAIN arm : Age0(evs[j].slot) > Age0(arm[k].slot)
      /\ \A k \in DoneIn(evs, e) : evs[k].slot \in occ
      /\ \A k \in DOMAIN arm : arm[k].slot \in occ
      /\ \A s \in occ : \/ \E k \in DoneIn(evs, e) : evs[k].slot = s
                        \/ \E k \in DOMAIN arm : arm[k].slot = s
      /\ \A s \in occ, u \in 0 .. n - 1 : Age0(u) <= Age0(s) => u \in occ
  BY DEF TrackedBy
<1> HIDE DEF a, z, Age0, Age1
<1>5. \A s \in occ : Age1(s) = Age0(s) + 1 /\ s # next /\ Age0(s) \in Nat /\ Age0(s) >= 1
  BY <1>3
<1>0. ASSUME NEW s \in occ, NEW u \in occ, Age0(s) > Age0(u)
      PROVE  Age1(s) > Age1(u)
  <2>1. Age1(s) = Age0(s) + 1 /\ Age1(u) = Age0(u) + 1 /\ Age0(s) \in Nat /\ Age0(u) \in Nat
    BY <1>5
  <2> QED BY <1>0, <2>1
<1>6. \A j, k \in DoneIn(evs, e) : j < k => Age1(evs[j].slot) > Age1(evs[k].slot)
  <2> SUFFICES ASSUME NEW j \in DoneIn(evs, e), NEW k \in DoneIn(evs, e), j < k
               PROVE  Age1(evs[j].slot) > Age1(evs[k].slot)
    OBVIOUS
  <2>1. evs[j].slot \in occ /\ evs[k].slot \in occ /\ Age0(evs[j].slot) > Age0(evs[k].slot)
    BY <1>4
  <2> QED BY <1>0, <2>1
<1>7. \A j, k \in DOMAIN a : j < k => Age1(a[j].slot) > Age1(a[k].slot)
  <2> SUFFICES ASSUME NEW j \in DOMAIN a, NEW k \in DOMAIN a, j < k
               PROVE  Age1(a[j].slot) > Age1(a[k].slot)
    OBVIOUS
  <2>1. j \in DOMAIN arm /\ a[j] = arm[j] /\ arm[j].slot \in occ
    BY <1>1, <1>4
  <2>2. Age1(arm[j].slot) = Age0(arm[j].slot) + 1 /\ Age0(arm[j].slot) \in Nat
        /\ Age0(arm[j].slot) >= 1
    BY <1>5, <2>1
  <2>3. CASE k = z
    <3>1. Age1(a[k].slot) = 1
      BY <1>1, <1>3, <2>3
    <3> QED BY <2>1, <2>2, <3>1
  <2>4. CASE k \in DOMAIN arm
    <3>1. a[k] = arm[k] /\ arm[k].slot \in occ /\ Age0(arm[j].slot) > Age0(arm[k].slot)
      BY <1>1, <1>4, <2>1, <2>4
    <3> QED BY <1>0, <2>1, <3>1
  <2> QED BY <1>1, <2>3, <2>4
<1>8. \A j \in DoneIn(evs, e), k \in DOMAIN a : Age1(evs[j].slot) > Age1(a[k].slot)
  <2> SUFFICES ASSUME NEW j \in DoneIn(evs, e), NEW k \in DOMAIN a
               PROVE  Age1(evs[j].slot) > Age1(a[k].slot)
    OBVIOUS
  <2>1. evs[j].slot \in occ
    BY <1>4
  <2>2. Age1(evs[j].slot) = Age0(evs[j].slot) + 1 /\ Age0(evs[j].slot) \in Nat
        /\ Age0(evs[j].slot) >= 1
    BY <1>5, <2>1
  <2>3. CASE k = z
    <3>1. Age1(a[k].slot) = 1
      BY <1>1, <1>3, <2>3
    <3> QED BY <2>2, <3>1
  <2>4. CASE k \in DOMAIN arm
    <3>1. a[k] = arm[k] /\ arm[k].slot \in occ /\ Age0(evs[j].slot) > Age0(arm[k].slot)
      BY <1>1, <1>4, <2>4
    <3> QED BY <1>0, <2>1, <3>1
  <2> QED BY <1>1, <2>3, <2>4
<1>9. /\ \A k \in DoneIn(evs, e) : evs[k].slot \in all
      /\ \A k \in DOMAIN a : a[k].slot \in all
      /\ \A s \in all : \/ \E k \in DoneIn(evs, e) : evs[k].slot = s
                        \/ \E k \in DOMAIN a : a[k].slot = s
  <2>1. \A k \in DOMAIN a : a[k].slot \in all
    BY <1>1, <1>4
  <2>2. ASSUME NEW s \in all
        PROVE  \/ \E k \in DoneIn(evs, e) : evs[k].slot = s
               \/ \E k \in DOMAIN a : a[k].slot = s
    <3>1. CASE s = next
      BY <1>1, <3>1
    <3>2. CASE s \in occ
      BY <1>1, <1>4, <3>2
    <3> QED BY <3>1, <3>2
  <2> QED BY <1>4, <2>1, <2>2
<1>10. \A s \in all, u \in 0 .. n - 1 : Age1(u) <= Age1(s) => u \in all
  <2> SUFFICES ASSUME NEW s \in all, NEW u \in 0 .. n - 1, Age1(u) <= Age1(s), u # next
               PROVE  u \in occ
    OBVIOUS
  <2>1. Age1(u) = Age0(u) + 1 /\ Age0(u) \in Nat /\ Age0(u) >= 1
    BY <1>3
  <2>2. s # next
    BY <1>3, <2>1
  <2> QED BY <1>4, <1>5, <2>1, <2>2
<1> QED BY <1>6, <1>7, <1>8, <1>9, <1>10 DEF TrackedBy, Age1, a

\* A new ring, once no completion of the old one is left.
LEMMA Fresh ==
    ASSUME NEW n, NEW next, NEW evs, NEW e, DoneIn(evs, e) = {}
    PROVE  TrackedBy(n, next, {}, evs, <<>>, e)
BY DEF TrackedBy

\* A ring without a free slot at `next' is full.
LEMMA FullRing ==
    ASSUME NEW n \in Nat, NEW next \in 0 .. n - 1, NEW occ, NEW evs, NEW arm, NEW e,
           TrackedBy(n, next, occ, evs, arm, e), next \in occ
    PROVE  0 .. n - 1 \subseteq occ
<1>1. \A u \in 0 .. n - 1 : AgeIn(n, next, u) <= AgeIn(n, next, next)
  BY DEF AgeIn
<1> QED BY <1>1 DEF TrackedBy

(***************************************************************************)
(* The channel.                                                            *)
(***************************************************************************)
LEMMA ChannelFacts ==
    ASSUME channel \in DOMAIN Bounds
    PROVE  /\ Slots \in Nat /\ Count \in {1, 2} /\ Slots > Count
           /\ SlotNumbers = 0 .. Slots - 1 /\ NONE \notin SlotNumbers
           /\ Buffers = IF Ncm THEN {0, 1} ELSE {0}
           /\ Count = IF Ncm THEN 2 ELSE 1
<1>1. Count = (IF channel = "Ncm" THEN 2 ELSE 1) /\ Count \in {1, 2}
  BY DEF Count, Ncm
<1>2. Slots \in Nat /\ Slots > Count
  BY <1>1, XudcAssumption DEF Slots
<1>3. Buffers = IF Ncm THEN {0, 1} ELSE {0}
  <2>1. CASE Ncm
    <3>1. Buffers = 0 .. 1
      BY <2>1 DEF Buffers, Count
    <3> QED BY <2>1, <3>1
  <2>2. CASE ~Ncm
    <3>1. Buffers = 0 .. 0
      BY <2>2 DEF Buffers, Count
    <3> QED BY <2>2, <3>1
  <2> QED BY <2>1, <2>2
<1>4. NONE \notin SlotNumbers
  BY <1>2 DEF NONE, SlotNumbers
<1> QED BY <1>1, <1>2, <1>3, <1>4 DEF SlotNumbers, Count

\* What is fixed by the channel that is modelled stays the same.
LEMMA ChannelKept ==
    ASSUME channel' = channel
    PROVE  /\ Slots' = Slots /\ Count' = Count /\ Ncm' = Ncm /\ Buffers' = Buffers
           /\ SlotNumbers' = SlotNumbers /\ Events' = Events
           /\ Descriptors("out")' = Descriptors("out") /\ Descriptors("in")' = Descriptors("in")
<1>1. Slots' = Slots /\ Count' = Count /\ Ncm' = Ncm
  BY DEF Slots, Count, Ncm
<1>2. Buffers' = Buffers /\ SlotNumbers' = SlotNumbers
  BY <1>1 DEF Buffers, SlotNumbers
<1> QED BY <1>1, <1>2 DEF Events, Descriptors

\* `Tracked' is `TrackedBy' of the ring as it is, ...
LEMMA TrackedNow ==
    ASSUME NEW e
    PROVE  Tracked(e) <=> TrackedBy(Slots, rings[e].next, rings[e].occupied, events, armed[e], e)
<1>1. Done(e) = DoneIn(events, e)
  BY DEF Done, DoneIn
<1>2. \A t : Age(e, t) = AgeIn(Slots, rings[e].next, t)
  BY DEF Age, AgeIn
<1>3. rings[e].occupied = {events[k].slot : k \in Done(e)}
                          \cup {armed[e][k].slot : k \in DOMAIN armed[e]}
      <=> /\ \A k \in Done(e) : events[k].slot \in rings[e].occupied
          /\ \A k \in DOMAIN armed[e] : armed[e][k].slot \in rings[e].occupied
          /\ \A s \in rings[e].occupied : \/ \E k \in Done(e) : events[k].slot = s
                                          \/ \E k \in DOMAIN armed[e] : armed[e][k].slot = s
  OBVIOUS
<1> QED BY <1>1, <1>2, <1>3 DEF Tracked, TrackedBy, SlotNumbers

\* ... and as it is after a step.
LEMMA TrackedNext ==
    ASSUME NEW e, channel' = channel
    PROVE  Tracked(e)' <=>
             TrackedBy(Slots, rings'[e].next, rings'[e].occupied, events', armed'[e], e)
<1>0. Slots' = Slots
  BY ChannelKept
<1>1. Done(e)' = DoneIn(events', e)
  BY DEF Done, DoneIn
<1>2. \A t : Age(e, t)' = AgeIn(Slots, rings'[e].next, t)
  BY <1>0 DEF Age, AgeIn
<1>3. rings'[e].occupied = {events'[k].slot : k \in Done(e)'}
                           \cup {armed'[e][k].slot : k \in DOMAIN armed'[e]}
      <=> /\ \A k \in Done(e)' : events'[k].slot \in rings'[e].occupied
          /\ \A k \in DOMAIN armed'[e] : armed'[e][k].slot \in rings'[e].occupied
          /\ \A s \in rings'[e].occupied : \/ \E k \in Done(e)' : events'[k].slot = s
                                           \/ \E k \in DOMAIN armed'[e] : armed'[e][k].slot = s
  OBVIOUS
<1> QED BY <1>0, <1>1, <1>2, <1>3 DEF Tracked, TrackedBy, SlotNumbers

(***************************************************************************)
(* Steps that leave a ring alone: another event comes or goes, and neither *)
(* is the channel activated nor a poll ended.                              *)
(***************************************************************************)
OtherEvent(e) ==
    \/ events' = events
    \/ \E x \in Events : events' = Append(events, x) /\ ~(x.kind = "transfer" /\ x.ep = e)
    \/ /\ events # <<>> /\ events' = Tail(events)
       /\ ~(Head(events).kind = "transfer" /\ Head(events).ep = e)

\* The step neither connects the endpoints nor lets a poll end while they are connected.
Steady ==
    /\ connected' => connected
    /\ pc = "poll" \/ ~connected => pc' = "poll" \/ ~connected'

\* A step that leaves a ring alone keeps it tracked, or off.
LEMMA RingKept ==
    ASSUME NEW e, channel' = channel, events \in Seq(Events), OtherEvent(e), Steady,
           rings'[e] = rings[e], armed'[e] = armed[e]
    PROVE  /\ Tracked(e) => /\ Tracked(e)'
                            /\ \A k \in Done(e)' : \E l \in Done(e) : events'[k] = events[l]
           /\ Off(e) => Off(e)'
<1>1. Off(e) => Off(e)'
  BY DEF Off, Steady
<1>2. ASSUME Tracked(e)
      PROVE  Tracked(e)' /\ \A k \in Done(e)' : \E l \in Done(e) : events'[k] = events[l]
  <2> DEFINE next == rings[e].next
             occ == rings[e].occupied
             arm == armed[e]
  <2>1. TrackedBy(Slots, next, occ, events, arm, e)
    BY <1>2, TrackedNow
  <2>2. Tracked(e)' <=> TrackedBy(Slots, next, occ, events', arm, e)
    BY TrackedNext
  <2>3. Done(e) = DoneIn(events, e) /\ Done(e)' = DoneIn(events', e)
    BY DEF Done, DoneIn
  <2> HIDE DEF next, occ, arm
  <2>4. CASE events' = events
    BY <2>1, <2>2, <2>3, <2>4
  <2>5. ASSUME NEW x \in Events, events' = Append(events, x), ~(x.kind = "transfer" /\ x.ep = e)
        PROVE  /\ TrackedBy(Slots, next, occ, events', arm, e)
               /\ NoneAdded(events, events', e)
    BY <2>1, <2>5, Note
  <2>6. ASSUME events # <<>>, events' = Tail(events),
               ~(Head(events).kind = "transfer" /\ Head(events).ep = e)
        PROVE  /\ TrackedBy(Slots, next, occ, events', arm, e)
               /\ NoneAdded(events, events', e)
    BY <2>1, <2>6, Skip
  <2> QED BY <2>2, <2>3, <2>4, <2>5, <2>6 DEF OtherEvent, NoneAdded
<1> QED BY <1>1, <1>2

\* The types of one ring.
LEMMA RingTypes ==
    ASSUME XudcTypeOK, NEW e \in Endpoints
    PROVE  /\ rings[e].next \in 0 .. Slots - 1 /\ rings[e].occupied \in SUBSET (0 .. Slots - 1)
           /\ rings[e].next \in Nat /\ rings[e].occupied \in SUBSET Nat
           /\ armed[e] \in Seq(Descriptors(e)) /\ events \in Seq(Events)
           /\ Slots \in Nat /\ NONE \notin 0 .. Slots - 1
<1>1. /\ rings[e] \in [next : SlotNumbers, occupied : SUBSET SlotNumbers]
      /\ armed[e] \in Seq(Descriptors(e)) /\ events \in Seq(Events)
  BY DEF XudcTypeOK
<1>2. Slots \in Nat /\ SlotNumbers = 0 .. Slots - 1 /\ NONE \notin SlotNumbers
  BY ChannelFacts DEF XudcTypeOK
<1>3. rings[e].next \in SlotNumbers /\ rings[e].occupied \in SUBSET SlotNumbers
  BY <1>1
<1> QED BY <1>1, <1>2, <1>3

\* A step that leaves the OUT ring alone.
LEMMA ReceivesKept ==
    ASSUME XudcTypeOK, ReceivesAreKnown, channel' = channel, OtherEvent("out"), Steady,
           rings'["out"] = rings["out"], armed'["out"] = armed["out"],
           UNCHANGED <<out, length, cursor, index>>
    PROVE  ReceivesAreKnown'
<1>1. events \in Seq(Events)
  BY DEF XudcTypeOK
<1>2. (Tracked("out") => Tracked("out")') /\ (Off("out") => Off("out")')
  BY <1>1, RingKept
<1>3. Buffers' = Buffers
  BY ChannelKept
<1> QED BY <1>2, <1>3 DEF ReceivesAreKnown

\* A step that leaves the IN ring alone.
LEMMA SendsKept ==
    ASSUME XudcTypeOK, SendsAreKnown, channel' = channel, OtherEvent("in"), Steady,
           rings'["in"] = rings["in"], armed'["in"] = armed["in"],
           UNCHANGED <<tx, zlp_needed, open>>
    PROVE  SendsAreKnown'
<1>1. events \in Seq(Events)
  BY DEF XudcTypeOK
<1>2. /\ Tracked("in") => /\ Tracked("in")'
                          /\ \A k \in Done("in")' : \E l \in Done("in") : events'[k] = events[l]
      /\ Off("in") => Off("in")'
  BY <1>1, RingKept
<1> QED BY <1>2 DEF SendsAreKnown

\* A ring that is given up.
LEMMA ReceivesGivenUp ==
    ASSUME channel' = channel, clear_out, Off("out")'
    PROVE  ReceivesAreKnown'
<1>1. Buffers' = Buffers
  BY ChannelKept
<1>2. \A b \in Buffers : out'[b] = NONE
  BY DEF clear_out
<1>3. cursor' # 1
  BY DEF clear_out
<1> QED BY <1>1, <1>2, <1>3 DEF ReceivesAreKnown

\* clear_endpoint_state gives up what is being sent.
LEMMA SendsGivenUp ==
    ASSUME clear_in, Off("in")'
    PROVE  SendsAreKnown'
BY DEF clear_in, SendsAreKnown

\* The controller ends a transfer.
LEMMA CompletionType ==
    ASSUME XudcTypeOK, NEW e \in Endpoints, armed[e] # <<>>, NEW ok \in BOOLEAN
    PROVE  /\ Completion(e, ok) \in Events /\ Completion(e, ok).kind = "transfer"
           /\ Completion(e, ok).ep = e /\ Completion(e, ok).slot = Head(armed[e]).slot
           /\ Completion(e, ok).ok = ok
<1>1. Head(armed[e]) \in Descriptors(e)
  BY RingTypes, TailOf
<1>2. Head(armed[e]).slot \in SlotNumbers
  BY <1>1 DEF Descriptors
<1> QED BY <1>2 DEF Completion, Events

\* The controller completes the first descriptor of a ring.
LEMMA RingCompletes ==
    ASSUME XudcTypeOK, channel' = channel, NEW e \in Endpoints, armed[e] # <<>>,
           NEW ok \in BOOLEAN, Finish(e, ok), Tracked(e)
    PROVE  /\ Tracked(e)' /\ rings' = rings
           /\ \A k \in DOMAIN armed'[e] :
                \E l \in DOMAIN armed[e] : l # 1 /\ armed'[e][k] = armed[e][l]
           /\ \A k \in Done(e)' : events'[k].ok = ok \/ \E l \in Done(e) : events'[k] = events[l]
<1> DEFINE x == Completion(e, ok)
           D == Descriptors(e)
<1>1. x \in Events /\ x.kind = "transfer" /\ x.ep = e /\ x.slot = Head(armed[e]).slot /\ x.ok = ok
  BY CompletionType
<1>2. /\ rings[e].next \in Nat /\ rings[e].occupied \in SUBSET Nat
      /\ armed[e] \in Seq(D) /\ events \in Seq(Events) /\ Slots \in Nat
  BY RingTypes
<1>3. armed'[e] = Tail(armed[e]) /\ events' = Append(events, x) /\ rings' = rings
  BY DEF Finish, XudcTypeOK, driverVars
<1>4. TrackedBy(Slots, rings[e].next, rings[e].occupied, events, armed[e], e)
  BY TrackedNow
<1> HIDE DEF x, D
<1>5. TrackedBy(Slots, rings[e].next, rings[e].occupied, Append(events, x), Tail(armed[e]), e)
  BY <1>1, <1>2, <1>4, Complete
<1>6. Tracked(e)'
  BY <1>3, <1>5, TrackedNext
<1>7. \A k \in DOMAIN armed'[e] : \E l \in DOMAIN armed[e] : l # 1 /\ armed'[e][k] = armed[e][l]
  <2>1. /\ \A k : k \in DOMAIN Tail(armed[e]) <=> k \in Nat /\ k >= 1 /\ k + 1 \in DOMAIN armed[e]
        /\ \A k \in DOMAIN Tail(armed[e]) : Tail(armed[e])[k] = armed[e][k + 1]
    BY <1>2, TailOf
  <2> QED BY <1>3, <2>1
<1>8. \A k \in Done(e)' : events'[k].ok = ok \/ \E l \in Done(e) : events'[k] = events[l]
  <2>1. AfterAppend(events, Append(events, x), x, Len(events) + 1, e)
    BY <1>1, <1>2, DoneAppend
  <2>2. Done(e) = DoneIn(events, e) /\ Done(e)' = DoneIn(events', e)
    BY DEF Done, DoneIn
  <2>3. \A k \in DoneIn(events', e) :
            (k \in DoneIn(events, e) /\ events'[k] = events[k]) \/ events'[k] = x
    BY <1>3, <2>1 DEF AfterAppend
  <2> QED BY <1>1, <2>2, <2>3
<1> QED BY <1>3, <1>6, <1>7, <1>8

\* The same for the OUT ring, ...
LEMMA ReceiveCompletes ==
    ASSUME XudcTypeOK, ReceivesAreKnown, channel' = channel, armed["out"] # <<>>,
           NEW ok \in BOOLEAN, Finish("out", ok)
    PROVE  ReceivesAreKnown'
<1>1. Tracked("out")
  BY DEF ReceivesAreKnown, Off
<1>2. /\ Tracked("out")' /\ rings' = rings
      /\ \A k \in DOMAIN armed'["out"] :
           \E l \in DOMAIN armed["out"] : armed'["out"][k] = armed["out"][l]
  BY <1>1, RingCompletes DEF Endpoints
<1>3. Buffers' = Buffers
  BY ChannelKept
<1>4. UNCHANGED <<out, length, cursor, index>>
  BY DEF Finish, driverVars
<1> QED BY <1>1, <1>2, <1>3, <1>4 DEF ReceivesAreKnown, Off

\* ... and for the IN ring.
LEMMA SendCompletes ==
    ASSUME XudcTypeOK, SendsAreKnown, channel' = channel, armed["in"] # <<>>,
           NEW ok \in BOOLEAN, Finish("in", ok),
           open' = IF ok THEN Head(armed["in"]).full ELSE open
    PROVE  SendsAreKnown'
<1>1. Tracked("in") /\ ~Off("in")
  BY DEF SendsAreKnown, Off
<1>2. /\ Tracked("in")' /\ rings' = rings
      /\ \A k \in DOMAIN armed'["in"] :
           \E l \in DOMAIN armed["in"] : l # 1 /\ armed'["in"][k] = armed["in"][l]
      /\ \A k \in Done("in")' : events'[k].ok = ok \/ \E l \in Done("in") : events'[k] = events[l]
  BY <1>1, RingCompletes DEF Endpoints
<1>3. UNCHANGED <<tx, zlp_needed>>
  BY DEF Finish, driverVars
<1>4. 1 \in DOMAIN armed["in"] /\ Head(armed["in"]) = armed["in"][1]
  BY RingTypes, TailOf DEF Endpoints
<1>5. DOMAIN armed'["in"] = {}
  <2> SUFFICES ASSUME NEW l \in DOMAIN armed["in"], l # 1 PROVE FALSE
    BY <1>2
  <2>1. armed["in"][1].slot = tx /\ armed["in"][l].slot = tx
    BY <1>1, <1>4 DEF SendsAreKnown, Tracked
  <2>2. l \in Nat /\ 1 < l
    BY RingTypes, LenProperties DEF Endpoints
  <2>3. Age("in", armed["in"][1].slot) > Age("in", armed["in"][l].slot)
    BY <1>1, <1>4, <2>2 DEF Tracked
  <2>4. tx \in rings["in"].occupied /\ rings["in"].occupied \in SUBSET Nat /\ rings["in"].next \in Nat
        /\ Slots \in Nat
    BY <1>1, <1>4, <2>1, RingTypes DEF Tracked, Endpoints
  <2>5. Age("in", tx) \in Int
    BY <2>4 DEF Age
  <2> QED BY <2>1, <2>3, <2>5
<1>6. open' /\ ~zlp_needed' => tx' # NONE /\ \A k \in Done("in")' : ~events'[k].ok
  <2>1. CASE ok
    BY <1>1, <1>3, <1>4, <2>1 DEF SendsAreKnown
  <2>2. CASE ~ok
    BY <1>1, <1>2, <1>3, <2>2 DEF SendsAreKnown
  <2> QED BY <2>1, <2>2
<1> QED BY <1>1, <1>2, <1>3, <1>5, <1>6 DEF SendsAreKnown

\* The driver takes a completion.
LEMMA TransferFacts ==
    ASSUME XudcTypeOK, channel' = channel, Transfer, NEW e \in Endpoints
    PROVE  /\ Head(events).kind = "transfer" /\ Head(events).ep \in Endpoints
           /\ Head(events).slot \in SlotNumbers /\ Head(events).ok \in BOOLEAN
           /\ events # <<>> /\ events' = Tail(events) /\ armed' = armed
           /\ Head(events).ep # e => rings'[e] = rings[e]
           /\ Head(events).ep = e => /\ rings'[e].next = rings[e].next
                                     /\ rings'[e].occupied = rings[e].occupied \ {Head(events).slot}
           /\ Steady
<1> DEFINE x == Head(events)
<1>1. events # <<>> /\ events \in Seq(Events) /\ x.kind = "transfer"
  BY DEF Transfer, Event, XudcTypeOK
<1>2. x \in Events
  BY <1>1, TailOf
<1>3. x.ep \in Endpoints /\ x.slot \in SlotNumbers /\ x.ok \in BOOLEAN
  BY <1>1, <1>2 DEF Events
<1>4. /\ events' = Tail(events) /\ armed' = armed
      /\ rings' = [rings EXCEPT ![x.ep].occupied = @ \ {x.slot}]
  BY DEF Transfer, Handled, Failed
<1>5. (x.ep # e => rings'[e] = rings[e]) /\ (x.ep = e => /\ rings'[e].next = rings[e].next
                                                      /\ rings'[e].occupied = rings[e].occupied \ {x.slot})
  <2>1. rings \in [Endpoints -> [next : SlotNumbers, occupied : SUBSET SlotNumbers]]
    BY DEF XudcTypeOK
  <2> QED BY <1>3, <1>4, <2>1
<1>6. Steady
  <2>1. /\ configuration' = configuration /\ alternate' = alternate
        /\ (pc' = pc /\ failed' = failed) \/ failed' = TRUE
    BY DEF Transfer, Handled, Failed
  <2>2. active' = active
    BY <2>1, ChannelKept DEF active
  <2> QED BY <2>1, <2>2 DEF Steady, connected
<1> QED BY <1>1, <1>2, <1>3, <1>4, <1>5, <1>6

\* transfer() takes a completion: it frees its slot, if the slot is occupied.
LEMMA RingTaken ==
    ASSUME XudcTypeOK, channel' = channel, Transfer, NEW e \in Endpoints, Head(events).ep = e
    PROVE  /\ Tracked(e) => /\ Tracked(e)' /\ Head(events).slot \in rings[e].occupied
                            /\ \A k \in Done(e)' : \E l \in Done(e) : events'[k] = events[l]
                            /\ 1 \in Done(e) /\ Head(events) = events[1]
                            /\ \A k \in DOMAIN armed[e] : armed[e][k].slot # Head(events).slot
           /\ Off(e) => Off(e)'
<1> DEFINE x == Head(events)
<1>1. /\ x.kind = "transfer" /\ events # <<>> /\ events' = Tail(events) /\ armed' = armed
      /\ rings'[e].next = rings[e].next /\ rings'[e].occupied = rings[e].occupied \ {x.slot}
      /\ Steady
  BY TransferFacts
<1>2. /\ rings[e].next \in Nat /\ rings[e].occupied \in SUBSET Nat
      /\ events \in Seq(Events) /\ Slots \in Nat
  BY RingTypes
<1>3. AfterTail(events, Tail(events), e)
  BY <1>1, <1>2, DoneTail
<1>4. Done(e) = DoneIn(events, e) /\ Done(e)' = DoneIn(events', e)
  BY DEF Done, DoneIn
<1>5. ASSUME Tracked(e)
      PROVE  Tracked(e)' /\ x.slot \in rings[e].occupied
  <2>1. TrackedBy(Slots, rings[e].next, rings[e].occupied, events, armed[e], e)
    BY <1>5, TrackedNow
  <2>2. /\ x.slot \in rings[e].occupied
        /\ TrackedBy(Slots, rings[e].next, rings[e].occupied \ {x.slot}, Tail(events), armed[e], e)
    BY <1>1, <1>2, <2>1, Take
  <2> QED BY <1>1, <2>2, TrackedNext
<1>6. /\ \A k \in Done(e)' : \E l \in Done(e) : events'[k] = events[l]
      /\ 1 \in Done(e) /\ x = events[1]
  <2>1. /\ \A k \in DoneIn(events', e) : k + 1 \in DoneIn(events, e) /\ events'[k] = events[k + 1]
        /\ 1 \in DoneIn(events, e) /\ x = events[1]
    BY <1>1, <1>3 DEF AfterTail
  <2> QED BY <1>4, <2>1
<1>7. ASSUME Tracked(e), NEW k \in DOMAIN armed[e]
      PROVE  armed[e][k].slot # x.slot
  <2>1. armed'[e][k].slot \in rings'[e].occupied
    BY <1>1, <1>5, <1>7 DEF Tracked
  <2> QED BY <1>1, <2>1
<1>8. Off(e) => Off(e)'
  BY <1>1 DEF Off, Steady
<1> QED BY <1>5, <1>6, <1>7, <1>8

\* The buffer that waited for the slot holds the data, ...
LEMMA ReceiveTaken ==
    ASSUME XudcTypeOK, ReceivesAreKnown, channel' = channel, Transfer, Head(events).ep = "out"
    PROVE  ReceivesAreKnown'
<1> DEFINE x == Head(events)
           Hit == x.slot \in rings["out"].occupied /\ x.ok /\ \E b \in Buffers : out[b] = x.slot
           c == CHOOSE b \in Buffers : out[b] = x.slot
<1>0. Buffers' = Buffers /\ NONE \notin SlotNumbers
  BY ChannelKept, ChannelFacts DEF XudcTypeOK
<1>1. /\ armed' = armed /\ x.slot \in SlotNumbers
      /\ rings'["out"].occupied = rings["out"].occupied \ {x.slot}
  BY TransferFacts DEF Endpoints
<1>2. /\ Tracked("out") => /\ Tracked("out")' /\ x.slot \in rings["out"].occupied
                           /\ \A k \in DOMAIN armed["out"] : armed["out"][k].slot # x.slot
      /\ Off("out") => Off("out")'
  BY RingTaken DEF Endpoints
<1>3. /\ IF Hit THEN out' = [out EXCEPT ![c] = NONE] /\ length' = [length EXCEPT ![c] = TRUE]
         ELSE UNCHANGED <<out, length>>
      /\ UNCHANGED <<cursor, index>>
  BY DEF Transfer
<1>4. /\ out \in [Buffers -> {NONE} \cup SlotNumbers] /\ length \in [Buffers -> BOOLEAN]
      /\ index \in Buffers
      /\ \A k \in DOMAIN armed["out"] : armed["out"][k].buffer \in Buffers
  <2>1. armed["out"] \in Seq([slot : SlotNumbers, buffer : Buffers])
    BY RingTypes DEF Descriptors, Endpoints
  <2>2. \A k \in DOMAIN armed["out"] : armed["out"][k] \in [slot : SlotNumbers, buffer : Buffers]
    BY <2>1, ElementOfSeq, LenProperties
  <2> QED BY <2>2 DEF XudcTypeOK
<1>5. Hit => c \in Buffers /\ out[c] = x.slot
  <2> SUFFICES ASSUME Hit PROVE c \in Buffers /\ out[c] = x.slot
    OBVIOUS
  <2>1. \E b \in Buffers : out[b] = x.slot
    OBVIOUS
  <2> QED BY <2>1
<1>6. \A b \in Buffers : (out'[b] = IF Hit /\ b = c THEN NONE ELSE out[b])
                        /\ (length'[b] = IF Hit /\ b = c THEN TRUE ELSE length[b])
  <2> HIDE DEF c
  <2>1. CASE Hit
    BY <1>3, <1>4, <2>1
  <2>2. CASE ~Hit
    BY <1>3, <2>2
  <2> QED BY <2>1, <2>2
<1> HIDE DEF c
<1>7. ASSUME Tracked("out"),
             \A s \in rings["out"].occupied : \E b \in Buffers : out[b] = s,
             \A k \in DOMAIN armed["out"] : out[armed["out"][k].buffer] = armed["out"][k].slot
      PROVE  /\ \A s \in rings'["out"].occupied : \E b \in Buffers : out'[b] = s
             /\ \A k \in DOMAIN armed'["out"] :
                   out'[armed'["out"][k].buffer] = armed'["out"][k].slot
  <2>1. ASSUME NEW s \in rings'["out"].occupied
        PROVE  \E b \in Buffers : out'[b] = s
    <3>1. s \in rings["out"].occupied /\ s # x.slot
      BY <1>1, <2>1
    <3>2. PICK b \in Buffers : out[b] = s
      BY <1>7, <3>1
    <3>3. Hit => b # c
      BY <1>5, <3>1, <3>2
    <3> QED BY <1>6, <3>2, <3>3
  <2>2. ASSUME NEW k \in DOMAIN armed'["out"]
        PROVE  out'[armed'["out"][k].buffer] = armed'["out"][k].slot
    <3> DEFINE b == armed["out"][k].buffer
    <3>1. b \in Buffers /\ out[b] = armed["out"][k].slot /\ armed["out"][k].slot # x.slot
      BY <1>1, <1>2, <1>4, <1>7
    <3>2. Hit => b # c
      BY <1>5, <3>1
    <3> QED BY <1>1, <1>6, <3>1, <3>2
  <2> QED BY <2>1, <2>2
<1>8. (\A b \in Buffers : out[b] = NONE) => \A b \in Buffers : out'[b] = NONE
  BY <1>6
<1>9. (\A b \in Buffers : out'[b] # NONE => ~length'[b]) /\ (cursor' = 1 => length'[index'])
  BY <1>3, <1>4, <1>6 DEF ReceivesAreKnown
<1> QED BY <1>0, <1>2, <1>7, <1>8, <1>9 DEF ReceivesAreKnown

\* ... and the transfer that was under way is done.
LEMMA SendTaken ==
    ASSUME XudcTypeOK, SendsAreKnown, channel' = channel, Transfer, Head(events).ep = "in"
    PROVE  SendsAreKnown'
<1> DEFINE x == Head(events)
<1>0. NONE \notin SlotNumbers
  BY ChannelFacts DEF XudcTypeOK
<1>1. /\ armed' = armed /\ x.slot \in SlotNumbers /\ x.ok \in BOOLEAN
      /\ rings'["in"].occupied = rings["in"].occupied \ {x.slot}
  BY TransferFacts DEF Endpoints
<1>2. /\ Tracked("in") => /\ Tracked("in")' /\ x.slot \in rings["in"].occupied
                          /\ \A k \in Done("in")' : \E l \in Done("in") : events'[k] = events[l]
                          /\ 1 \in Done("in") /\ x = events[1]
                          /\ \A k \in DOMAIN armed["in"] : armed["in"][k].slot # x.slot
      /\ Off("in") => Off("in")'
  BY RingTaken DEF Endpoints
<1>3. /\ UNCHANGED <<zlp_needed, open>>
      /\ tx' = IF x.slot \in rings["in"].occupied /\ x.ok /\ tx = x.slot THEN NONE ELSE tx
  BY DEF Transfer
<1>4. CASE Off("in") /\ tx = NONE /\ ~zlp_needed /\ ~open
  BY <1>0, <1>1, <1>2, <1>3, <1>4 DEF SendsAreKnown
<1>5. CASE Tracked("in") /\ ~(Off("in") /\ tx = NONE /\ ~zlp_needed /\ ~open)
  <2>1. rings["in"].occupied \subseteq {tx} /\ tx = x.slot /\ rings'["in"].occupied = {}
    BY <1>1, <1>2, <1>5 DEF SendsAreKnown
  <2>2. DOMAIN armed'["in"] = {}
    BY <1>1, <1>2, <1>5, <2>1 DEF Tracked
  <2>3. open' /\ ~zlp_needed' => tx' # NONE /\ \A k \in Done("in")' : ~events'[k].ok
    BY <1>0, <1>1, <1>2, <1>3, <1>5, <2>1 DEF SendsAreKnown
  <2> QED BY <1>2, <1>5, <2>1, <2>2, <2>3 DEF SendsAreKnown
<1> QED BY <1>4, <1>5 DEF SendsAreKnown

(***************************************************************************)
(* When a poll ends, a ring that was set up again is tracked: no           *)
(* completion of the old one is left.                                      *)
(***************************************************************************)
LEMMA RingAfterPoll ==
    ASSUME XudcTypeOK, channel' = channel, EndPoll, StaleAreTaken, NEW e \in Endpoints
    PROVE  /\ UNCHANGED <<rings, armed, events>> /\ Done(e)' = Done(e)
           /\ Tracked(e) => Tracked(e)'
           /\ Off(e) => \/ Off(e)'
                        \/ /\ Tracked(e)' /\ rings'[e].occupied = {} /\ armed'[e] = <<>>
                           /\ Done(e)' = {}
<1>1. /\ pc = "poll" /\ UNCHANGED <<rings, armed, events, configuration, alternate, failed>>
      /\ events = <<>> \/ polled = PollLimit
  BY DEF EndPoll, controllerVars
<1>2. Done(e)' = Done(e) /\ active' = active /\ connected' = connected
  BY <1>1, ChannelKept DEF Done, active, connected
<1>3. Tracked(e) => Tracked(e)'
  BY <1>1, TrackedNow, TrackedNext
<1>4. CASE Off(e) /\ connected
  <2>1. rings[e].occupied = {} /\ armed[e] = <<>>
    BY <1>4 DEF Off, connected
  <2>2. Done(e) = {}
    BY <1>1, <2>1 DEF StaleAreTaken, Done
  <2>3. DoneIn(events, e) = {}
    BY <2>2 DEF Done, DoneIn
  <2>4. TrackedBy(Slots, rings[e].next, {}, events, <<>>, e)
    BY <2>3, Fresh
  <2> QED BY <1>1, <1>2, <1>3, <2>1, <2>2, <2>4, TrackedNext
<1>5. CASE Off(e) /\ ~connected
  BY <1>1, <1>2, <1>3, <1>5 DEF Off
<1> QED BY <1>1, <1>2, <1>3, <1>4, <1>5

\* A poll that ends has taken the completions of rings that were given up.
LEMMA KnownAfterPoll ==
    ASSUME XudcTypeOK, ReceivesAreKnown, SendsAreKnown, channel' = channel, EndPoll, StaleAreTaken
    PROVE  ReceivesAreKnown' /\ SendsAreKnown'
<1>1. UNCHANGED <<out, length, cursor, index, tx, zlp_needed, open, rings, armed, events>>
  BY DEF EndPoll, controllerVars, historyVars
<1>2. Buffers' = Buffers
  BY ChannelKept
<1>3. /\ Done("out")' = Done("out") /\ Done("in")' = Done("in")
      /\ Tracked("out") => Tracked("out")'
      /\ Tracked("in") => Tracked("in")'
      /\ Off("out") => \/ Off("out")'
                       \/ Tracked("out")' /\ rings'["out"].occupied = {} /\ armed'["out"] = <<>>
      /\ Off("in") => \/ Off("in")'
                      \/ Tracked("in")' /\ rings'["in"].occupied = {} /\ armed'["in"] = <<>>
  BY RingAfterPoll DEF Endpoints
<1>4. DOMAIN <<>> = {}
  OBVIOUS
<1>5. ReceivesAreKnown'
  BY <1>1, <1>2, <1>3, <1>4 DEF ReceivesAreKnown
<1>6. SendsAreKnown'
  BY <1>1, <1>3, <1>4 DEF SendsAreKnown
<1> QED BY <1>5, <1>6

(***************************************************************************)
(* Queueing descriptors.                                                   *)
(***************************************************************************)
Receiving(n, B, next, occ, evs, arm, f) ==
    /\ TrackedBy(n, next, occ, evs, arm, "out")
    /\ \A s \in occ : \E b \in B : f[b] = s
    /\ \A k \in DOMAIN arm : f[arm[k].buffer] = arm[k].slot

\* A buffer that is free takes the next slot.
LEMMA Refill ==
    ASSUME NEW R, NEW evs \in Seq(R), NEW B, NEW n \in Nat, NEW next \in 0 .. n - 1,
           NEW occ \in SUBSET (0 .. n - 1), NEW arm \in Seq([slot : 0 .. n - 1, buffer : B]),
           NEW f \in [B -> {NONE} \cup 0 .. n - 1],
           Receiving(n, B, next, occ, evs, arm, f), next \notin occ,
           NEW b \in B, f[b] = NONE
    PROVE  Receiving(n, B, (next + 1) % n, occ \cup {next}, evs,
                     Append(arm, [slot |-> next, buffer |-> b]), [f EXCEPT ![b] = next])
<1> DEFINE d == [slot |-> next, buffer |-> b]
           D == [slot : 0 .. n - 1, buffer : B]
           a == Append(arm, d)
           g == [f EXCEPT ![b] = next]
           all == occ \cup {next}
<1>1. d \in D /\ d.slot = next /\ d.buffer = b /\ arm \in Seq(D)
  OBVIOUS
<1>2. /\ TrackedBy(n, next, occ, evs, arm, "out")
      /\ \A s \in occ : \E c \in B : f[c] = s
      /\ \A k \in DOMAIN arm : f[arm[k].buffer] = arm[k].slot
      /\ \A k \in DOMAIN arm : arm[k].slot \in occ
  BY DEF Receiving, TrackedBy
<1>3. \A k \in DOMAIN arm : arm[k] \in D
  <2> HIDE DEF D
  <2>1. DOMAIN arm = 1 .. Len(arm)
    BY <1>1, LenProperties
  <2> QED BY <1>1, <2>1, ElementOfSeq
<1>4. g[b] = next /\ (\A c \in B : c # b => g[c] = f[c]) /\ NONE \notin occ
  BY DEF NONE
<1>5. DOMAIN a = DOMAIN arm \cup {Len(arm) + 1} /\ a[Len(arm) + 1] = d
      /\ \A k \in DOMAIN arm : a[k] = arm[k]
  BY <1>1, AppendOf
<1> HIDE DEF d, D
<1>6. TrackedBy(n, (next + 1) % n, all, evs, a, "out")
  BY <1>1, <1>2, Queue
<1> HIDE DEF a, g
<1>7. ASSUME NEW s \in all PROVE \E c \in B : g[c] = s
  <2>1. CASE s = next
    BY <1>4, <2>1
  <2>2. CASE s \in occ
    <3>1. PICK c \in B : f[c] = s
      BY <1>2, <2>2
    <3>2. c # b
      BY <1>4, <2>2, <3>1
    <3> QED BY <1>4, <3>1, <3>2
  <2> QED BY <2>1, <2>2
<1>8. ASSUME NEW k \in DOMAIN a PROVE g[a[k].buffer] = a[k].slot
  <2>1. CASE k = Len(arm) + 1
    BY <1>1, <1>4, <1>5, <2>1
  <2>2. CASE k \in DOMAIN arm
    <3>1. arm[k].buffer \in B
      BY <1>3, <2>2 DEF D
    <3>2. arm[k].buffer # b
      BY <1>2, <1>4, <2>2
    <3> QED BY <1>2, <1>4, <1>5, <2>2, <3>1, <3>2
  <2> QED BY <1>5, <2>1, <2>2
<1> QED BY <1>6, <1>7, <1>8 DEF Receiving, a, g, d

\* There are fewer buffers than slots.
LEMMA RoomFor ==
    ASSUME NEW two \in BOOLEAN, NEW n \in Nat, n > (IF two THEN 2 ELSE 1),
           NEW next \in 0 .. n - 1, NEW occ, NEW evs, NEW arm, NEW f, NEW e,
           TrackedBy(n, next, occ, evs, arm, e),
           \A s \in occ : \E b \in IF two THEN {0, 1} ELSE {0} : f[b] = s
    PROVE  next \notin occ
<1> SUFFICES ASSUME next \in occ PROVE FALSE
  OBVIOUS
<1>1. 0 .. n - 1 \subseteq occ
  BY FullRing
<1>2. CASE two
  <2>1. 0 \in occ /\ 1 \in occ /\ 2 \in occ
    BY <1>1, <1>2
  <2>2. \A s \in occ : f[0] = s \/ f[1] = s
    BY <1>2
  <2> QED BY <2>1, <2>2
<1>3. CASE ~two
  <2>1. 0 \in occ /\ 1 \in occ
    BY <1>1, <1>3
  <2>2. \A s \in occ : f[0] = s
    BY <1>3
  <2> QED BY <2>1, <2>2
<1> QED BY <1>2, <1>3

\* The slots that queue() takes one after the other.
LEMMA QueuedSlots ==
    ASSUME XudcTypeOK, NEW e \in Endpoints
    PROVE  /\ Queued(e, 0) = rings[e].next /\ Queued(e, 1) = (rings[e].next + 1) % Slots
           /\ Queued(e, 1) \in 0 .. Slots - 1
           /\ Queued(e, 2) = (Queued(e, 1) + 1) % Slots /\ Queued(e, 2) \in 0 .. Slots - 1
<1> DEFINE r == rings[e].next
           n == Slots
<1>1. n \in Nat /\ n > 1 /\ r \in Nat /\ r < n /\ r \in 0 .. n - 1
  <2>1. n \in Nat /\ n > Count /\ Count \in {1, 2}
    BY ChannelFacts DEF XudcTypeOK
  <2>2. r \in 0 .. n - 1
    BY RingTypes
  <2> QED BY <2>1, <2>2
<1>2. Queued(e, 0) = (r + 0) % n /\ Queued(e, 1) = (r + 1) % n /\ Queued(e, 2) = (r + 2) % n
  BY DEF Queued
<1> HIDE DEF r, n
<1>3. (r + 0) % n = r
  BY <1>1
<1>4. (r + 1) % n = IF r + 1 = n THEN 0 ELSE r + 1
  BY <1>1
<1>5. (r + 2) % n = IF r + 2 = n THEN 0 ELSE IF r + 1 = n THEN 1 ELSE r + 2
  <2>1. CASE r + 1 = n
    <3>1. r + 2 = n + 1 /\ (n + 1) % n = 1
      BY <1>1, <2>1
    <3> QED BY <1>1, <2>1, <3>1
  <2>2. CASE r + 2 <= n
    BY <1>1, <2>2
  <2> QED BY <1>1, <2>1, <2>2
<1>6. (IF r + 1 = n THEN 0 ELSE r + 1) + 1 <= n
  BY <1>1
<1>7. (((r + 1) % n) + 1) % n = (r + 2) % n
  <2>1. CASE r + 1 = n
    <3>1. (r + 1) % n = 0 /\ (0 + 1) % n = 1
      BY <1>1, <1>4, <2>1
    <3> QED BY <1>1, <1>5, <2>1, <3>1
  <2>2. CASE r + 1 < n
    <3>1. (r + 1) % n = r + 1 /\ (r + 1) + 1 = r + 2
      BY <1>1, <1>4, <2>2
    <3> QED BY <3>1
  <2> QED BY <1>1, <2>1, <2>2
<1>8. (r + 1) % n \in 0 .. n - 1 /\ (r + 2) % n \in 0 .. n - 1
  BY <1>1, <1>4, <1>5
<1> QED BY <1>2, <1>3, <1>7, <1>8 DEF r, n

\* The ring after queue() was called once or twice.
LEMMA Advanced ==
    ASSUME XudcTypeOK, NEW e \in Endpoints
    PROVE  /\ Advance(e, 0) = rings[e]
           /\ Advance(e, 1) = [next |-> Queued(e, 1), occupied |-> rings[e].occupied \cup {Queued(e, 0)}]
           /\ Advance(e, 2) = [next |-> Queued(e, 2),
                               occupied |-> (rings[e].occupied \cup {Queued(e, 0)}) \cup {Queued(e, 1)}]
<1>1. rings[e] \in [next : SlotNumbers, occupied : SUBSET SlotNumbers] /\ Queued(e, 0) = rings[e].next
  BY QueuedSlots DEF XudcTypeOK
<1>2. 0 .. 0 - 1 = {} /\ 0 .. 1 - 1 = {0} /\ 0 .. 2 - 1 = {0, 1}
  OBVIOUS
<1>3. Advance(e, 0) = rings[e]
  <2>1. Advance(e, 0) = [next |-> rings[e].next, occupied |-> rings[e].occupied]
    BY <1>1, <1>2 DEF Advance
  <2> QED BY <1>1, <2>1
<1>4. {Queued(e, k) : k \in 0 .. 1 - 1} = {Queued(e, 0)}
  BY <1>2
<1>5. {Queued(e, k) : k \in 0 .. 2 - 1} = {Queued(e, 0), Queued(e, 1)}
  BY <1>2
<1>6. rings[e].occupied \cup {Queued(e, 0), Queued(e, 1)}
        = (rings[e].occupied \cup {Queued(e, 0)}) \cup {Queued(e, 1)}
  OBVIOUS
<1> QED BY <1>3, <1>4, <1>5, <1>6 DEF Advance

\* One descriptor behind the others, ...
LEMMA ConcatOne ==
    ASSUME NEW D, NEW q \in Seq(D), NEW r \in Seq(D), Len(r) = 1
    PROVE  q \o r = Append(q, r[1])
<1> DEFINE w == q \o r
           a == Append(q, r[1])
           m == Len(q)
<1>1. 1 \in 1 .. Len(r)
  OBVIOUS
<1>2. r[1] \in D
  BY <1>1, ElementOfSeq
<1>3. m \in Nat
  BY LenProperties
<1>4. /\ w \in Seq(D) /\ Len(w) = m + Len(r)
      /\ \A i \in 1 .. m + Len(r) : w[i] = IF i <= m THEN q[i] ELSE r[i - m]
  BY ConcatProperties
<1>5. a \in Seq(D) /\ Len(a) = m + 1 /\ (\A i \in 1 .. m : a[i] = q[i]) /\ a[m + 1] = r[1]
  BY <1>2, AppendProperties
<1> HIDE DEF w, a, m
<1>6. ASSUME NEW i \in 1 .. m + 1
      PROVE  w[i] = a[i]
  <2>1. w[i] = IF i <= m THEN q[i] ELSE r[i - m]
    BY <1>4
  <2>2. CASE i = m + 1
    <3>1. i - m = 1 /\ ~(i <= m)
      BY <1>3, <2>2
    <3> QED BY <1>5, <2>1, <2>2, <3>1
  <2>3. CASE i <= m
    BY <1>3, <1>5, <2>1, <2>3
  <2> QED BY <1>3, <2>2, <2>3
<1>7. Len(w) = Len(a) /\ \A i \in 1 .. Len(w) : w[i] = a[i]
  BY <1>3, <1>4, <1>5, <1>6
<1>8. w = a
  BY <1>4, <1>5, <1>7, SeqEqual
<1> QED BY <1>8 DEF w, a

\* ... or two.
LEMMA ConcatTwo ==
    ASSUME NEW D, NEW q \in Seq(D), NEW r \in Seq(D), Len(r) = 2
    PROVE  q \o r = Append(Append(q, r[1]), r[2])
<1> DEFINE w == q \o r
           a == Append(q, r[1])
           b == Append(a, r[2])
           m == Len(q)
<1>1. 1 \in 1 .. Len(r) /\ 2 \in 1 .. Len(r)
  OBVIOUS
<1>2. r[1] \in D /\ r[2] \in D
  BY <1>1, ElementOfSeq
<1>3. m \in Nat
  BY LenProperties
<1>4. /\ w \in Seq(D) /\ Len(w) = m + Len(r)
      /\ \A i \in 1 .. m + Len(r) : w[i] = IF i <= m THEN q[i] ELSE r[i - m]
  BY ConcatProperties
<1>5. a \in Seq(D) /\ Len(a) = m + 1 /\ (\A i \in 1 .. m : a[i] = q[i]) /\ a[m + 1] = r[1]
  BY <1>2, AppendProperties
<1> HIDE DEF a
<1>6. /\ b \in Seq(D) /\ Len(b) = Len(a) + 1
      /\ (\A i \in 1 .. Len(a) : b[i] = a[i]) /\ b[Len(a) + 1] = r[2]
  BY <1>2, <1>5, AppendProperties
<1> HIDE DEF w, b, m
<1>7. ASSUME NEW i \in 1 .. m + 2
      PROVE  w[i] = b[i]
  <2>1. w[i] = IF i <= m THEN q[i] ELSE r[i - m]
    BY <1>4
  <2>2. CASE i = m + 2
    <3>1. i - m = 2 /\ ~(i <= m) /\ i = (m + 1) + 1
      BY <1>3, <2>2
    <3> QED BY <1>5, <1>6, <2>1, <3>1
  <2>3. CASE i = m + 1
    <3>1. i - m = 1 /\ ~(i <= m) /\ i \in 1 .. m + 1
      BY <1>3, <2>3
    <3> QED BY <1>5, <1>6, <2>1, <2>3, <3>1
  <2>4. CASE i <= m
    <3>1. i \in 1 .. m /\ i \in 1 .. m + 1
      BY <1>3, <2>4
    <3> QED BY <1>5, <1>6, <2>1, <2>4, <3>1
  <2> QED BY <1>3, <2>2, <2>3, <2>4
<1>8. Len(w) = Len(b) /\ \A i \in 1 .. Len(w) : w[i] = b[i]
  BY <1>3, <1>4, <1>5, <1>6, <1>7
<1>9. w = b
  BY <1>4, <1>6, <1>8, SeqEqual
<1> QED BY <1>9 DEF w, b, a

\* A descriptor is queued in the IN ring, when none is under way.
LEMMA SendQueued ==
    ASSUME XudcTypeOK, SendsAreKnown, channel' = channel, ~Off("in"), tx = NONE,
           rings["in"].next \notin rings["in"].occupied,
           NEW d \in Descriptors("in"), d.slot = rings["in"].next,
           armed'["in"] = Append(armed["in"], d), rings'["in"] = Advance("in", 1),
           events' = events, tx' = rings["in"].next, open' = open,
           d.full = zlp_needed', zlp_needed' => d.data, open => ~d.data
    PROVE  SendsAreKnown' /\ rings'["in"].next \notin rings'["in"].occupied
<1> DEFINE next == rings["in"].next
           occ == rings["in"].occupied
           arm == armed["in"]
<1>1. Tracked("in") /\ occ \subseteq {NONE}
  BY DEF SendsAreKnown
<1>2. /\ next \in 0 .. Slots - 1 /\ occ \in SUBSET (0 .. Slots - 1)
      /\ arm \in Seq(Descriptors("in")) /\ events \in Seq(Events)
      /\ Slots \in Nat /\ NONE \notin 0 .. Slots - 1
  BY RingTypes DEF Endpoints
<1>3. occ = {}
  BY <1>1, <1>2
<1>4. DOMAIN arm = {} /\ Done("in") = {}
  BY <1>1, <1>3 DEF Tracked
<1>5. rings'["in"].next = (next + 1) % Slots /\ rings'["in"].occupied = occ \cup {next}
  BY Advanced, QueuedSlots DEF Endpoints
<1>6. TrackedBy(Slots, next, occ, events, arm, "in")
  BY <1>1, TrackedNow
<1> HIDE DEF next, occ, arm
<1>7. TrackedBy(Slots, (next + 1) % Slots, occ \cup {next}, events, Append(arm, d), "in")
  <2>1. next \notin occ /\ d.slot = next
    BY DEF next, occ
  <2> QED BY <1>2, <1>6, <2>1, Queue
<1>8. Tracked("in")'
  BY <1>5, <1>7, TrackedNext DEF arm
<1>9. \A k \in DOMAIN armed'["in"] : armed'["in"][k] = d
  <2>1. /\ DOMAIN Append(arm, d) = DOMAIN arm \cup {Len(arm) + 1}
        /\ Append(arm, d)[Len(arm) + 1] = d
    BY <1>2, AppendOf
  <2> QED BY <1>4, <2>1 DEF arm
<1>10. Done("in")' = {}
  BY <1>4 DEF Done
<1>11. tx' = next /\ next # NONE /\ rings'["in"].occupied = {next}
  BY <1>2, <1>3, <1>5 DEF next
<1>12. (next + 1) % Slots \notin occ \cup {next}
  <2>1. Slots > 1
    BY ChannelFacts DEF XudcTypeOK
  <2>2. (next + 1) % Slots \in 0 .. Slots - 1
    BY <1>2, Older
  <2> DEFINE f == [b \in {0} |-> next]
  <2>3. \A s \in occ \cup {next} : \E b \in {0} : f[b] = s
    BY <1>3
  <2> DEFINE all == occ \cup {next}
             then == (next + 1) % Slots
  <2> HIDE DEF f, all, then
  <2>4. /\ TrackedBy(Slots, then, all, events, Append(arm, d), "in") /\ Slots \in Nat
        /\ then \in 0 .. Slots - 1 /\ Slots > (IF FALSE THEN 2 ELSE 1)
        /\ \A s \in all : \E b \in IF FALSE THEN {0, 1} ELSE {0} : f[b] = s
    BY <1>2, <1>7, <2>1, <2>2, <2>3 DEF all, then
  <2>5. then \notin all
    BY <2>4, RoomFor
  <2> QED BY <2>5 DEF all, then
<1> QED BY <1>5, <1>8, <1>9, <1>10, <1>11, <1>12 DEF SendsAreKnown

\* The order in which two free buffers are refilled.
LEMMA ConcatPair ==
    ASSUME NEW B, NEW x \in B, NEW y \in B
    PROVE  <<x>> \o <<y>> = <<x, y>>
<1> DEFINE w == <<x>> \o <<y>>
           v == <<x, y>>
<1>1. <<x>> \in Seq(B) /\ <<y>> \in Seq(B) /\ Len(<<x>>) = 1 /\ Len(<<y>>) = 1
  OBVIOUS
<1>2. w \in Seq(B) /\ Len(w) = 1 + 1
      /\ \A i \in 1 .. 1 + 1 : w[i] = IF i <= 1 THEN <<x>>[i] ELSE <<y>>[i - 1]
  BY <1>1, ConcatProperties
<1>3. v \in Seq(B) /\ Len(v) = 2 /\ v[1] = x /\ v[2] = y
  OBVIOUS
<1> HIDE DEF w, v
<1>4. 1 \in 1 .. 1 + 1 /\ 2 \in 1 .. 1 + 1 /\ 2 - 1 = 1
  OBVIOUS
<1>5. w[1] = <<x>>[1] /\ w[2] = <<y>>[2 - 1]
  BY <1>2, <1>4
<1>6. w[1] = x /\ w[2] = y
  BY <1>4, <1>5
<1>7. Len(w) = Len(v) /\ \A i \in 1 .. Len(w) : w[i] = v[i]
  BY <1>2, <1>3, <1>6
<1>8. w = v
  BY <1>2, <1>3, <1>7, SeqEqual
<1> QED BY <1>8 DEF w, v

\* The buffers that are queued: none, one or both.
LEMMA RefillForms ==
    ASSUME XudcTypeOK
    PROVE  \/ RefillOrder = <<>>
           \/ \E b \in Buffers : Free(b) /\ RefillOrder = <<b>>
           \/ \E b, c \in Buffers : b # c /\ Free(b) /\ Free(c) /\ RefillOrder = <<b, c>>
<1>1. index \in Buffers /\ Buffers = IF Ncm THEN {0, 1} ELSE {0}
  BY ChannelFacts DEF XudcTypeOK
<1>2. CASE ~Ncm
  BY <1>1, <1>2 DEF RefillOrder, IfFree
<1>3. CASE Ncm
  <2> DEFINE c == 1 - index
  <2>1. c \in Buffers /\ c # index
    BY <1>1, <1>3
  <2>2. RefillOrder = IfFree(index) \o IfFree(c)
    BY <1>3 DEF RefillOrder
  <2> HIDE DEF c
  <2>3. CASE ~Free(index) /\ ~Free(c)
    BY <2>2, <2>3 DEF IfFree
  <2>4. CASE ~Free(index) /\ Free(c)
    BY <2>1, <2>2, <2>4 DEF IfFree
  <2>5. CASE Free(index) /\ ~Free(c)
    BY <1>1, <2>2, <2>5 DEF IfFree
  <2>6. CASE Free(index) /\ Free(c)
    <3>1. RefillOrder = <<index>> \o <<c>> /\ <<index>> \in Seq(Buffers)
      BY <1>1, <2>2, <2>6 DEF IfFree
    <3>2. RefillOrder = <<index, c>>
      BY <1>1, <2>1, <3>1, ConcatPair
    <3> QED BY <1>1, <2>1, <2>6, <3>2
  <2> QED BY <2>3, <2>4, <2>5, <2>6
<1> QED BY <1>2, <1>3

\* arm_data() with no buffer to refill, ...
LEMMA NothingArmed ==
    ASSUME XudcTypeOK, ReceivesAreKnown, channel' = channel, ArmData,
           ~(connected /\ "out" \notin halt) \/ RefillOrder = <<>>
    PROVE  ReceivesAreKnown' /\ rings'["out"] = rings["out"]
<1> DEFINE refill == IF connected /\ "out" \notin halt THEN RefillOrder ELSE <<>>
<1>1. refill = <<>>
  OBVIOUS
<1>2. /\ pc = "arm" /\ UNCHANGED <<configuration, alternate, failed, length, cursor, index, events>>
      /\ out' = [b \in Buffers |->
                   IF \E k \in DOMAIN refill : refill[k] = b
                   THEN Queued("out", (CHOOSE k \in DOMAIN refill : refill[k] = b) - 1)
                   ELSE out[b]]
      /\ armed'["out"] = armed["out"] \o [k \in DOMAIN refill |->
                                [slot |-> Queued("out", k - 1), buffer |-> refill[k]]]
      /\ rings'["out"] = Advance("out", Len(refill))
  BY DEF ArmData, XudcTypeOK, Endpoints
<1> HIDE DEF refill
<1>3. DOMAIN refill = {} /\ Len(refill) = 0
  BY <1>1
<1>4. out' = out
  <2>1. out' = [b \in Buffers |-> out[b]]
    BY <1>2, <1>3
  <2> QED BY <2>1 DEF XudcTypeOK
<1>5. rings'["out"] = rings["out"]
  BY <1>2, <1>3, Advanced DEF Endpoints
<1>6. armed'["out"] = armed["out"]
  <2>1. [k \in DOMAIN refill |-> [slot |-> Queued("out", k - 1), buffer |-> refill[k]]] = <<>>
    BY <1>3
  <2>2. armed["out"] \in Seq(Descriptors("out"))
    BY RingTypes DEF Endpoints
  <2> QED BY <1>2, <2>1, <2>2, ConcatEmptySeq
<1>7. active' = active /\ connected' = connected
  BY <1>2, ChannelKept DEF active, connected
<1>8. Steady /\ OtherEvent("out")
  BY <1>2, <1>7 DEF Steady, OtherEvent
<1> QED BY <1>2, <1>4, <1>5, <1>6, <1>8, ReceivesKept

\* What has to be shown of the OUT ring when buffers are refilled.
LEMMA ReceivingNext ==
    ASSUME XudcTypeOK, ReceivesAreKnown, channel' = channel, UNCHANGED <<length, cursor, index>>,
           Receiving(Slots, Buffers, rings'["out"].next, rings'["out"].occupied, events',
                     armed'["out"], out'),
           rings'["out"].next \in 0 .. Slots - 1,
           \A b \in Buffers : out'[b] # NONE => ~length[b]
    PROVE  ReceivesAreKnown' /\ rings'["out"].next \notin rings'["out"].occupied
<1>1. Buffers' = Buffers
  BY ChannelKept
<1>2. /\ TrackedBy(Slots, rings'["out"].next, rings'["out"].occupied, events', armed'["out"], "out")
      /\ \A s \in rings'["out"].occupied : \E b \in Buffers : out'[b] = s
      /\ \A k \in DOMAIN armed'["out"] : out'[armed'["out"][k].buffer] = armed'["out"][k].slot
  BY DEF Receiving
<1>3. Tracked("out")'
  BY <1>2, TrackedNext
<1>4. ReceivesAreKnown'
  BY <1>1, <1>2, <1>3 DEF ReceivesAreKnown
<1>5. rings'["out"].next \notin rings'["out"].occupied
  <2>1. /\ Slots \in Nat /\ Slots > (IF Ncm THEN 2 ELSE 1) /\ Ncm \in BOOLEAN
        /\ Buffers = IF Ncm THEN {0, 1} ELSE {0}
    BY ChannelFacts DEF XudcTypeOK, Ncm
  <2>2. \A s \in rings'["out"].occupied : \E b \in IF Ncm THEN {0, 1} ELSE {0} : out'[b] = s
    BY <1>2, <2>1
  <2> HIDE DEF Ncm
  <2> QED BY <1>2, <2>1, <2>2, RoomFor
<1> QED BY <1>4, <1>5

\* What arm_data finds, and what it does with the buffers of `refill'.
LEMMA ArmDataFinds ==
    ASSUME XudcTypeOK, ReceivesAreKnown, ArmData, connected, "out" \notin halt
    PROVE  /\ Receiving(Slots, Buffers, rings["out"].next, rings["out"].occupied, events,
                        armed["out"], out)
           /\ UNCHANGED <<length, cursor, index, events>>
           /\ out' = [b \in Buffers |->
                        IF \E k \in DOMAIN RefillOrder : RefillOrder[k] = b
                        THEN Queued("out", (CHOOSE k \in DOMAIN RefillOrder : RefillOrder[k] = b) - 1)
                        ELSE out[b]]
           /\ armed'["out"] = armed["out"] \o [k \in DOMAIN RefillOrder |->
                                  [slot |-> Queued("out", k - 1), buffer |-> RefillOrder[k]]]
           /\ rings'["out"] = Advance("out", Len(RefillOrder))
<1>1. pc = "arm"
  BY DEF ArmData
<1>2. ~Off("out")
  BY <1>1 DEF Off
<1>3. /\ Tracked("out")
      /\ \A s \in rings["out"].occupied : \E b \in Buffers : out[b] = s
      /\ \A k \in DOMAIN armed["out"] : out[armed["out"][k].buffer] = armed["out"][k].slot
  BY <1>2 DEF ReceivesAreKnown
<1>4. Receiving(Slots, Buffers, rings["out"].next, rings["out"].occupied, events, armed["out"], out)
  BY <1>3, TrackedNow DEF Receiving
<1>5. IF connected /\ "out" \notin halt THEN TRUE ELSE FALSE
  OBVIOUS
<1> DEFINE refill == IF connected /\ "out" \notin halt THEN RefillOrder ELSE <<>>
<1>6. refill = RefillOrder
  OBVIOUS
<1>7. /\ UNCHANGED <<length, cursor, index, events>>
      /\ out' = [b \in Buffers |->
                   IF \E k \in DOMAIN refill : refill[k] = b
                   THEN Queued("out", (CHOOSE k \in DOMAIN refill : refill[k] = b) - 1)
                   ELSE out[b]]
      /\ armed'["out"] = armed["out"] \o [k \in DOMAIN refill |->
                                [slot |-> Queued("out", k - 1), buffer |-> refill[k]]]
      /\ rings'["out"] = Advance("out", Len(refill))
  BY DEF ArmData, XudcTypeOK, Endpoints
<1> HIDE DEF refill
<1> QED BY <1>4, <1>6, <1>7

\* ... with one, ...
LEMMA OneArmed ==
    ASSUME XudcTypeOK, ReceivesAreKnown, channel' = channel, ArmData, connected, "out" \notin halt,
           rings["out"].next \notin rings["out"].occupied,
           NEW b \in Buffers, Free(b), RefillOrder = <<b>>
    PROVE  ReceivesAreKnown' /\ rings'["out"].next \notin rings'["out"].occupied
<1> DEFINE next == rings["out"].next
           occ == rings["out"].occupied
           arm == armed["out"]
           D == [slot : 0 .. Slots - 1, buffer : Buffers]
           d == [slot |-> next, buffer |-> b]
<1>1. /\ Receiving(Slots, Buffers, next, occ, events, arm, out)
      /\ UNCHANGED <<length, cursor, index, events>>
      /\ out' = [c \in Buffers |->
                   IF \E k \in DOMAIN <<b>> : <<b>>[k] = c
                   THEN Queued("out", (CHOOSE k \in DOMAIN <<b>> : <<b>>[k] = c) - 1)
                   ELSE out[c]]
      /\ armed'["out"] = arm \o [k \in DOMAIN <<b>> |->
                                   [slot |-> Queued("out", k - 1), buffer |-> <<b>>[k]]]
      /\ rings'["out"] = Advance("out", Len(<<b>>))
  BY ArmDataFinds
<1>2. DOMAIN <<b>> = {1} /\ <<b>>[1] = b /\ Len(<<b>>) = 1 /\ 1 - 1 = 0
  OBVIOUS
<1>3. /\ next \in 0 .. Slots - 1 /\ occ \in SUBSET (0 .. Slots - 1) /\ arm \in Seq(D)
      /\ events \in Seq(Events) /\ Slots \in Nat /\ next \notin occ
      /\ out \in [Buffers -> {NONE} \cup 0 .. Slots - 1]
  BY RingTypes DEF Endpoints, Descriptors, XudcTypeOK, SlotNumbers
<1>4. /\ Queued("out", 0) = next /\ Queued("out", 1) = (next + 1) % Slots
      /\ Queued("out", 1) \in 0 .. Slots - 1
  BY QueuedSlots DEF Endpoints
<1>5. rings'["out"].next = (next + 1) % Slots /\ rings'["out"].occupied = occ \cup {next}
  BY <1>1, <1>2, <1>4, Advanced DEF Endpoints
<1>6. out[b] = NONE /\ ~length[b]
  BY DEF Free
<1> HIDE DEF next, occ, arm
<1>7. out' = [out EXCEPT ![b] = next]
  <2>1. ASSUME NEW c \in Buffers
        PROVE  (IF \E k \in DOMAIN <<b>> : <<b>>[k] = c
                THEN Queued("out", (CHOOSE k \in DOMAIN <<b>> : <<b>>[k] = c) - 1)
                ELSE out[c]) = IF c = b THEN next ELSE out[c]
    <3>1. CASE c = b
      <4>1. (CHOOSE k \in DOMAIN <<b>> : <<b>>[k] = c) = 1
        BY <1>2, <3>1
      <4> QED BY <1>2, <1>4, <3>1, <4>1
    <3>2. CASE c # b
      BY <1>2, <3>2
    <3> QED BY <3>1, <3>2
  <2>2. out' = [c \in Buffers |-> IF c = b THEN next ELSE out[c]]
    BY <1>1, <2>1
  <2> QED BY <1>3, <2>2
<1>8. armed'["out"] = Append(arm, d)
  <2> DEFINE q == [k \in DOMAIN <<b>> |-> [slot |-> Queued("out", k - 1), buffer |-> <<b>>[k]]]
  <2>1. q[1] = d
    BY <1>2, <1>4
  <2>2. d \in D
    BY <1>3
  <2>3. DOMAIN q = 1 .. 1 /\ \A k \in 1 .. 1 : q[k] \in D
    BY <1>2, <2>1, <2>2
  <2>4. q = [k \in 1 .. 1 |-> q[k]]
    BY <2>3
  <2> HIDE DEF q, D, d
  <2>5. q \in Seq(D) /\ Len(q) = 1
    BY <2>3, <2>4, LenProperties
  <2> QED BY <1>1, <1>3, <2>1, <2>5, ConcatOne DEF q
<1>9. Receiving(Slots, Buffers, (next + 1) % Slots, occ \cup {next}, events, Append(arm, d),
                [out EXCEPT ![b] = next])
  BY <1>1, <1>3, <1>6, Refill
<1>10. \A c \in Buffers : out'[c] # NONE => ~length[c]
  BY <1>3, <1>6, <1>7 DEF ReceivesAreKnown
<1> QED BY <1>1, <1>4, <1>5, <1>7, <1>8, <1>9, <1>10, ReceivingNext

\* ... and with both.
LEMMA BothArmed ==
    ASSUME XudcTypeOK, ReceivesAreKnown, channel' = channel, ArmData, connected, "out" \notin halt,
           rings["out"].next \notin rings["out"].occupied,
           NEW b \in Buffers, NEW c \in Buffers, b # c, Free(b), Free(c), RefillOrder = <<b, c>>
    PROVE  ReceivesAreKnown' /\ rings'["out"].next \notin rings'["out"].occupied
<1> DEFINE next == rings["out"].next
           then == (next + 1) % Slots
           occ == rings["out"].occupied
           arm == armed["out"]
           D == [slot : 0 .. Slots - 1, buffer : Buffers]
           d == [slot |-> next, buffer |-> b]
           g == [slot |-> then, buffer |-> c]
           f == [out EXCEPT ![b] = next]
<1>1. /\ Receiving(Slots, Buffers, next, occ, events, arm, out)
      /\ UNCHANGED <<length, cursor, index, events>>
      /\ out' = [a \in Buffers |->
                   IF \E k \in DOMAIN RefillOrder : RefillOrder[k] = a
                   THEN Queued("out", (CHOOSE k \in DOMAIN RefillOrder : RefillOrder[k] = a) - 1)
                   ELSE out[a]]
      /\ armed'["out"] = arm \o [k \in DOMAIN RefillOrder |->
                                   [slot |-> Queued("out", k - 1), buffer |-> RefillOrder[k]]]
      /\ rings'["out"] = Advance("out", Len(RefillOrder))
  BY ArmDataFinds
<1>2. /\ DOMAIN RefillOrder = {1, 2} /\ RefillOrder[1] = b /\ RefillOrder[2] = c /\ Len(RefillOrder) = 2
      /\ 1 - 1 = 0 /\ 2 - 1 = 1
  OBVIOUS
<1>3. /\ next \in 0 .. Slots - 1 /\ occ \in SUBSET (0 .. Slots - 1) /\ arm \in Seq(D)
      /\ events \in Seq(Events) /\ Slots \in Nat /\ next \notin occ
      /\ out \in [Buffers -> {NONE} \cup 0 .. Slots - 1]
  BY RingTypes DEF Endpoints, Descriptors, XudcTypeOK, SlotNumbers
<1>4. /\ Queued("out", 0) = next /\ Queued("out", 1) = then /\ then \in 0 .. Slots - 1
      /\ Queued("out", 2) = (then + 1) % Slots /\ Queued("out", 2) \in 0 .. Slots - 1
  BY QueuedSlots DEF Endpoints
<1>5. /\ rings'["out"].next = (then + 1) % Slots
      /\ rings'["out"].occupied = (occ \cup {next}) \cup {then}
  BY <1>1, <1>2, <1>4, Advanced DEF Endpoints
<1>6. out[b] = NONE /\ ~length[b] /\ out[c] = NONE /\ ~length[c]
  BY DEF Free
<1> HIDE DEF next, occ, arm, then
<1>7. out' = [f EXCEPT ![c] = then]
  <2>1. ASSUME NEW a \in Buffers
        PROVE  (IF \E k \in DOMAIN RefillOrder : RefillOrder[k] = a
                THEN Queued("out", (CHOOSE k \in DOMAIN RefillOrder : RefillOrder[k] = a) - 1)
                ELSE out[a]) = IF a = c THEN then ELSE IF a = b THEN next ELSE out[a]
    <3>1. CASE a = b
      <4>1. (CHOOSE k \in DOMAIN RefillOrder : RefillOrder[k] = a) = 1
        BY <1>2, <3>1
      <4> QED BY <1>2, <1>4, <3>1, <4>1
    <3>2. CASE a = c
      <4>1. (CHOOSE k \in DOMAIN RefillOrder : RefillOrder[k] = a) = 2
        BY <1>2, <3>2
      <4> QED BY <1>2, <1>4, <3>2, <4>1
    <3>3. CASE a # b /\ a # c
      BY <1>2, <3>3
    <3> QED BY <3>1, <3>2, <3>3
  <2>2. out' = [a \in Buffers |-> IF a = c THEN then ELSE IF a = b THEN next ELSE out[a]]
    BY <1>1, <2>1
  <2> QED BY <1>3, <2>2
<1>8. d \in D /\ g \in D
  BY <1>3, <1>4
<1>9. armed'["out"] = Append(Append(arm, d), g)
  <2> DEFINE q == [k \in DOMAIN RefillOrder |->
                     [slot |-> Queued("out", k - 1), buffer |-> RefillOrder[k]]]
  <2>1. q[1] = d /\ q[2] = g
    BY <1>2, <1>4
  <2>2. DOMAIN q = 1 .. 2 /\ \A k \in 1 .. 2 : q[k] \in D
    BY <1>2, <1>8, <2>1
  <2>3. q = [k \in 1 .. 2 |-> q[k]]
    BY <2>2
  <2> HIDE DEF q, D, d, g
  <2>4. q \in Seq(D) /\ Len(q) = 2
    BY <2>2, <2>3, LenProperties
  <2> QED BY <1>1, <1>3, <2>1, <2>4, ConcatTwo DEF q
<1>10. Receiving(Slots, Buffers, then, occ \cup {next}, events, Append(arm, d), f)
  BY <1>1, <1>3, <1>6, Refill DEF then
<1>11. /\ Append(arm, d) \in Seq(D) /\ f \in [Buffers -> {NONE} \cup 0 .. Slots - 1]
       /\ f[c] = NONE /\ occ \cup {next} \in SUBSET (0 .. Slots - 1)
  <2>1. Append(arm, d) \in Seq(D)
    BY <1>3, <1>8, AppendProperties
  <2> QED BY <1>3, <1>6, <2>1
<1> HIDE DEF d, g, f
<1>12. then \notin occ \cup {next}
  <2>1. /\ Slots > (IF Ncm THEN 2 ELSE 1) /\ Ncm \in BOOLEAN
        /\ Buffers = IF Ncm THEN {0, 1} ELSE {0}
    BY ChannelFacts DEF XudcTypeOK, Ncm
  <2>2. /\ TrackedBy(Slots, then, occ \cup {next}, events, Append(arm, d), "out")
        /\ \A s \in occ \cup {next} : \E a \in IF Ncm THEN {0, 1} ELSE {0} : f[a] = s
    BY <1>10, <2>1 DEF Receiving
  <2>3. Slots \in Nat /\ then \in 0 .. Slots - 1
    BY <1>3, <1>4
  <2> DEFINE all == occ \cup {next}
  <2> HIDE DEF Ncm, all
  <2>4. /\ TrackedBy(Slots, then, all, events, Append(arm, d), "out")
        /\ \A s \in all : \E a \in IF Ncm THEN {0, 1} ELSE {0} : f[a] = s
    BY <2>2 DEF all
  <2>5. then \notin all
    BY <2>1, <2>3, <2>4, RoomFor
  <2> QED BY <2>5 DEF all
<1>13. Receiving(Slots, Buffers, (then + 1) % Slots, (occ \cup {next}) \cup {then}, events,
                 Append(Append(arm, d), g), [f EXCEPT ![c] = then])
  BY <1>3, <1>4, <1>10, <1>11, <1>12, Refill DEF g
<1>14. \A a \in Buffers : out'[a] # NONE => ~length[a]
  BY <1>3, <1>6, <1>7 DEF ReceivesAreKnown, f
<1> QED BY <1>1, <1>4, <1>5, <1>7, <1>9, <1>13, <1>14, ReceivingNext

\* arm_data() refills the OUT ring in any of these cases.
LEMMA ReceivesArmed ==
    ASSUME XudcTypeOK, ReceivesAreKnown, channel' = channel, ArmData,
           rings["out"].next \notin rings["out"].occupied
    PROVE  ReceivesAreKnown' /\ rings'["out"].next \notin rings'["out"].occupied
<1>1. CASE ~(connected /\ "out" \notin halt) \/ RefillOrder = <<>>
  BY <1>1, NothingArmed
<1>2. CASE connected /\ "out" \notin halt /\ RefillOrder # <<>>
  BY <1>2, RefillForms, OneArmed, BothArmed
<1> QED BY <1>1, <1>2

\* The zero-length packet.
LEMMA SendsArmed ==
    ASSUME XudcTypeOK, SendsAreKnown, channel' = channel, ArmData,
           rings["in"].next \notin rings["in"].occupied
    PROVE  SendsAreKnown' /\ rings'["in"].next \notin rings'["in"].occupied
<1> DEFINE zlp == connected /\ zlp_needed /\ tx = NONE
           d == [slot |-> rings["in"].next, data |-> FALSE, full |-> FALSE]
<1>1. /\ pc = "arm" /\ UNCHANGED <<configuration, alternate, failed, events, open>>
      /\ armed'["in"] = IF zlp THEN Append(armed["in"], d) ELSE armed["in"]
      /\ rings'["in"] = IF zlp THEN Advance("in", 1) ELSE rings["in"]
      /\ tx' = IF zlp THEN rings["in"].next ELSE tx
      /\ zlp_needed' = (zlp_needed /\ ~zlp)
  BY DEF ArmData, XudcTypeOK, Endpoints, historyVars
<1>2. CASE zlp
  <2>1. ~Off("in")
    BY <1>1, <1>2 DEF Off
  <2>2. d \in Descriptors("in") /\ d.slot = rings["in"].next /\ ~d.data /\ ~d.full
    BY RingTypes DEF Descriptors, SlotNumbers, Endpoints
  <2> HIDE DEF d
  <2>3. d.full = zlp_needed' /\ ~zlp_needed'
    BY <1>1, <1>2, <2>2 DEF d, XudcTypeOK
  <2> QED BY <1>1, <1>2, <2>1, <2>2, <2>3, SendQueued
<1>3. CASE ~zlp
  <2>1. active' = active /\ connected' = connected
    BY <1>1, ChannelKept DEF active, connected
  <2>2. Steady /\ OtherEvent("in")
    BY <1>1, <2>1 DEF Steady, OtherEvent
  <2>3. zlp_needed' = zlp_needed
    BY <1>1, <1>3 DEF XudcTypeOK
  <2> QED BY <1>1, <1>3, <2>2, <2>3, SendsKept
<1> QED BY <1>2, <1>3

\* send_channel() queues a transfer.
LEMMA SendsSent ==
    ASSUME XudcTypeOK, SendsAreKnown, channel' = channel, NEW full \in BOOLEAN, Send(full),
           rings["in"].next \notin rings["in"].occupied
    PROVE  SendsAreKnown' /\ rings'["in"].next \notin rings'["in"].occupied
<1> DEFINE d == [slot |-> rings["in"].next, data |-> TRUE, full |-> full]
<1>1. /\ pc = "idle" /\ connected /\ tx = NONE /\ ~zlp_needed
      /\ UNCHANGED <<events, open>>
      /\ armed'["in"] = Append(armed["in"], d)
      /\ rings'["in"] = Advance("in", 1)
      /\ tx' = rings["in"].next /\ zlp_needed' = full
  BY DEF Send, send_capacity, XudcTypeOK, Endpoints, Zlp
<1>2. ~Off("in")
  BY <1>1 DEF Off
<1>3. d \in Descriptors("in") /\ d.slot = rings["in"].next /\ d.data /\ d.full = full
  BY RingTypes DEF Descriptors, SlotNumbers, Endpoints
<1>4. ~open
  BY <1>1, <1>2 DEF SendsAreKnown
<1> HIDE DEF d
<1> QED BY <1>1, <1>2, <1>3, <1>4, SendQueued

\* Reading the last part of a transfer frees its buffer.
LEMMA ReceivesRead ==
    ASSUME XudcTypeOK, ReceivesAreKnown, channel' = channel, Read
    PROVE  ReceivesAreKnown'
<1>1. /\ pc = "idle" /\ (length[index] \/ cursor = 1)
      /\ UNCHANGED <<configuration, alternate, failed, rings, out, armed, events>>
      /\ IF cursor = 0 THEN cursor' = 1 /\ UNCHANGED <<length, index, pc>>
         ELSE cursor' = 0 /\ length' = [length EXCEPT ![index] = FALSE] /\ pc' = "arm"
  BY DEF Read, controllerVars
<1>2. active' = active /\ connected' = connected /\ Buffers' = Buffers
  BY <1>1, ChannelKept DEF active, connected
<1>3. (Tracked("out") => Tracked("out")') /\ (Off("out") => Off("out")')
  <2>1. Steady /\ OtherEvent("out")
    BY <1>1, <1>2 DEF Steady, OtherEvent
  <2> QED BY <1>1, <2>1, RingKept DEF XudcTypeOK
<1>4. length \in [Buffers -> BOOLEAN] /\ cursor \in {0, 1}
  BY DEF XudcTypeOK
<1>5. \A b \in Buffers : length'[b] => length[b]
  BY <1>1, <1>4
<1>6. cursor' = 1 => length'[index']
  BY <1>1, <1>4
<1> QED BY <1>1, <1>2, <1>3, <1>5, <1>6 DEF ReceivesAreKnown

(***************************************************************************)
(* The actions.                                                            *)
(***************************************************************************)
Room == \A e \in Endpoints : rings[e].next \notin rings[e].occupied

\* The inductive invariant.
ChannelCore == XudcTypeOK /\ Room /\ ReceivesAreKnown /\ SendsAreKnown

\* The types, with the channel's sets as they were.
LEMMA TypeNext ==
    ASSUME XudcTypeOK, channel' = channel,
           configuration' \in {0, 1}, alternate' \in {0, 1}, failed' \in BOOLEAN,
           halted' \subseteq Endpoints, halt' \subseteq Endpoints,
           rings' \in [Endpoints -> [next : SlotNumbers, occupied : SUBSET SlotNumbers]],
           out' \in [Buffers -> {NONE} \cup SlotNumbers], length' \in [Buffers -> BOOLEAN],
           cursor' \in {0, 1}, index' \in Buffers,
           tx' \in {NONE} \cup SlotNumbers, zlp_needed' \in BOOLEAN, open' \in BOOLEAN,
           pc' \in {"idle", "poll", "arm"}, polled' \in 0 .. EventLimit,
           DOMAIN armed' = Endpoints, armed'["out"] \in Seq(Descriptors("out")),
           armed'["in"] \in Seq(Descriptors("in")), events' \in Seq(Events)
    PROVE  XudcTypeOK'
<1>1. /\ Buffers' = Buffers /\ SlotNumbers' = SlotNumbers /\ Events' = Events
      /\ Descriptors("out")' = Descriptors("out") /\ Descriptors("in")' = Descriptors("in")
  BY ChannelKept
<1>2. channel' \in DOMAIN Bounds
  BY DEF XudcTypeOK
<1>3. \A e \in Endpoints : armed'[e] \in Seq(Descriptors(e)')
  BY <1>1 DEF Endpoints
<1> QED BY <1>1, <1>2, <1>3 DEF XudcTypeOK

\* Both rings are as they were, up to other events.
LEMMA BothKept ==
    ASSUME ChannelCore, channel' = channel, XudcTypeOK', OtherEvent("out"), OtherEvent("in"), Steady,
           UNCHANGED <<rings, armed, out, length, cursor, index, tx, zlp_needed, open>>
    PROVE  ChannelCore'
<1>1. ReceivesAreKnown'
  BY ReceivesKept DEF ChannelCore
<1>2. SendsAreKnown'
  BY SendsKept DEF ChannelCore
<1>3. Room'
  BY DEF ChannelCore, Room
<1> QED BY <1>1, <1>2, <1>3 DEF ChannelCore

\* A completion changes one ring, and only its descriptors.
LEMMA FinishType ==
    ASSUME XudcTypeOK, channel' = channel, NEW e \in Endpoints, armed[e] # <<>>,
           NEW ok \in BOOLEAN, Finish(e, ok), open' \in BOOLEAN
    PROVE  /\ XudcTypeOK' /\ rings' = rings /\ Steady
           /\ UNCHANGED <<out, length, cursor, index, tx, zlp_needed>>
           /\ \A f \in Endpoints : f # e => armed'[f] = armed[f] /\ OtherEvent(f)
<1>1. /\ UNCHANGED <<configuration, alternate, failed, halted, rings, out, length, cursor, index,
                     tx, zlp_needed, pc, polled, halt>>
      /\ armed' = [armed EXCEPT ![e] = Tail(@)] /\ events' = Append(events, Completion(e, ok))
  BY DEF Finish, driverVars
<1>2. Completion(e, ok) \in Events /\ Completion(e, ok).ep = e
  BY CompletionType
<1>3. events' \in Seq(Events)
  BY <1>1, <1>2, AppendProperties DEF XudcTypeOK
<1>4. Tail(armed[e]) \in Seq(Descriptors(e))
  BY RingTypes, TailOf
<1>5. /\ DOMAIN armed' = Endpoints /\ armed'["out"] \in Seq(Descriptors("out"))
      /\ armed'["in"] \in Seq(Descriptors("in"))
  BY <1>1, <1>4 DEF XudcTypeOK, Endpoints
<1>6. XudcTypeOK'
  <2>1. /\ configuration \in {0, 1} /\ alternate \in {0, 1} /\ failed \in BOOLEAN
        /\ halted \subseteq Endpoints /\ halt \subseteq Endpoints
        /\ rings \in [Endpoints -> [next : SlotNumbers, occupied : SUBSET SlotNumbers]]
        /\ out \in [Buffers -> {NONE} \cup SlotNumbers] /\ length \in [Buffers -> BOOLEAN]
        /\ cursor \in {0, 1} /\ index \in Buffers
        /\ tx \in {NONE} \cup SlotNumbers /\ zlp_needed \in BOOLEAN
        /\ pc \in {"idle", "poll", "arm"} /\ polled \in 0 .. EventLimit
    BY DEF XudcTypeOK
  <2> QED BY <1>1, <1>3, <1>5, <2>1, TypeNext
<1>7. Steady
  <2>1. active' = active /\ connected' = connected
    BY <1>1, ChannelKept DEF active, connected
  <2> QED BY <1>1, <2>1 DEF Steady
<1>8. ASSUME NEW f \in Endpoints, f # e
      PROVE  armed'[f] = armed[f] /\ OtherEvent(f)
  BY <1>1, <1>2, <1>8 DEF XudcTypeOK, OtherEvent
<1> QED BY <1>1, <1>6, <1>7, <1>8

\* The invariant is kept by a transfer from the host.
LEMMA HostOutStep ==
    ASSUME ChannelCore, channel' = channel, HostOut
    PROVE  ChannelCore'
<1>1. armed["out"] # <<>> /\ Finish("out", TRUE) /\ open' = open
  BY DEF HostOut, Usable
<1>2. XudcTypeOK /\ Room /\ ReceivesAreKnown /\ SendsAreKnown /\ open \in BOOLEAN
  BY DEF ChannelCore, XudcTypeOK
<1>3. /\ XudcTypeOK' /\ rings' = rings /\ Steady
      /\ UNCHANGED <<out, length, cursor, index, tx, zlp_needed>>
      /\ armed'["in"] = armed["in"] /\ OtherEvent("in")
  BY <1>1, <1>2, FinishType DEF Endpoints
<1>4. ReceivesAreKnown'
  BY <1>1, <1>2, ReceiveCompletes
<1>5. SendsAreKnown'
  BY <1>1, <1>2, <1>3, SendsKept
<1> QED BY <1>2, <1>3, <1>4, <1>5 DEF ChannelCore, Room

\* The invariant is kept by a transfer to the host.
LEMMA HostInStep ==
    ASSUME ChannelCore, channel' = channel, HostIn
    PROVE  ChannelCore'
<1>1. armed["in"] # <<>> /\ Finish("in", TRUE) /\ open' = Head(armed["in"]).full
  BY DEF HostIn, Usable
<1>2. XudcTypeOK /\ Room /\ ReceivesAreKnown /\ SendsAreKnown
  BY DEF ChannelCore
<1>3. Head(armed["in"]) \in Descriptors("in")
  BY <1>1, <1>2, RingTypes, TailOf DEF Endpoints
<1>4. open' \in BOOLEAN
  BY <1>1, <1>3 DEF Descriptors
<1>5. /\ XudcTypeOK' /\ rings' = rings /\ Steady
      /\ UNCHANGED <<out, length, cursor, index, tx, zlp_needed>>
      /\ armed'["out"] = armed["out"] /\ OtherEvent("out")
  BY <1>1, <1>2, <1>4, FinishType DEF Endpoints
<1>6. SendsAreKnown'
  BY <1>1, <1>2, SendCompletes
<1>7. ReceivesAreKnown'
  BY <1>1, <1>2, <1>5, ReceivesKept
<1> QED BY <1>2, <1>5, <1>6, <1>7 DEF ChannelCore, Room

\* The invariant is kept by a failed transfer.
LEMMA TransferErrorStep ==
    ASSUME ChannelCore, channel' = channel, NEW e \in Endpoints, TransferError(e)
    PROVE  ChannelCore'
<1>1. armed[e] # <<>> /\ Finish(e, FALSE) /\ open' = open
  BY DEF TransferError, Usable
<1>2. XudcTypeOK /\ Room /\ ReceivesAreKnown /\ SendsAreKnown /\ open \in BOOLEAN
  BY DEF ChannelCore, XudcTypeOK
<1>3. /\ XudcTypeOK' /\ rings' = rings /\ Steady
      /\ UNCHANGED <<out, length, cursor, index, tx, zlp_needed>>
      /\ \A f \in Endpoints : f # e => armed'[f] = armed[f] /\ OtherEvent(f)
  BY <1>1, <1>2, FinishType
<1>4. CASE e = "out"
  <2>1. armed'["in"] = armed["in"] /\ OtherEvent("in")
    BY <1>3, <1>4 DEF Endpoints
  <2>2. ReceivesAreKnown'
    BY <1>1, <1>2, <1>4, ReceiveCompletes
  <2>3. SendsAreKnown'
    BY <1>1, <1>2, <1>3, <2>1, SendsKept
  <2> QED BY <1>2, <1>3, <2>2, <2>3 DEF ChannelCore, Room
<1>5. CASE e = "in"
  <2>1. armed'["out"] = armed["out"] /\ OtherEvent("out")
    BY <1>3, <1>5 DEF Endpoints
  <2>2. ReceivesAreKnown'
    BY <1>1, <1>2, <1>3, <2>1, ReceivesKept
  <2>3. SendsAreKnown'
    BY <1>1, <1>2, <1>5, SendCompletes
  <2> QED BY <1>2, <1>3, <2>2, <2>3 DEF ChannelCore, Room
<1> QED BY <1>4, <1>5 DEF Endpoints

\* The types of what a step leaves alone.
LEMMA TypesNow ==
    ASSUME XudcTypeOK
    PROVE  /\ configuration \in {0, 1} /\ alternate \in {0, 1} /\ failed \in BOOLEAN
           /\ halted \subseteq Endpoints /\ halt \subseteq Endpoints
           /\ rings \in [Endpoints -> [next : SlotNumbers, occupied : SUBSET SlotNumbers]]
           /\ out \in [Buffers -> {NONE} \cup SlotNumbers] /\ length \in [Buffers -> BOOLEAN]
           /\ cursor \in {0, 1} /\ index \in Buffers
           /\ tx \in {NONE} \cup SlotNumbers /\ zlp_needed \in BOOLEAN /\ open \in BOOLEAN
           /\ pc \in {"idle", "poll", "arm"} /\ polled \in 0 .. EventLimit
           /\ DOMAIN armed = Endpoints /\ armed["out"] \in Seq(Descriptors("out"))
           /\ armed["in"] \in Seq(Descriptors("in")) /\ events \in Seq(Events)
BY DEF XudcTypeOK, Endpoints

\* The invariant is kept by the arrival of a request.
LEMMA RequestStep ==
    ASSUME ChannelCore, channel' = channel, NEW x \in Events, x.kind # "transfer", Request(x)
    PROVE  ChannelCore'
<1>1. /\ UNCHANGED <<configuration, alternate, failed, halted, rings, out, length, cursor, index,
                     tx, zlp_needed, pc, polled, halt, armed, open>>
      /\ events' = Append(events, x)
  BY DEF Request, driverVars
<1>2. XudcTypeOK
  BY DEF ChannelCore
<1>3. events' \in Seq(Events)
  BY <1>1, <1>2, AppendProperties DEF XudcTypeOK
<1>4. XudcTypeOK'
  BY <1>1, <1>2, <1>3, TypesNow, TypeNext
<1>5. active' = active /\ connected' = connected
  BY <1>1, ChannelKept DEF active, connected
<1>6. Steady /\ OtherEvent("out") /\ OtherEvent("in")
  BY <1>1, <1>5 DEF Steady, OtherEvent
<1> QED BY <1>1, <1>4, <1>6, BothKept

\* The invariant is kept by all requests of the host.
LEMMA RequestsStep ==
    ASSUME ChannelCore, channel' = channel, Requests
    PROVE  ChannelCore'
<1>1. CASE Request([kind |-> "port"])
  <2>1. [kind |-> "port"] \in Events
    BY DEF Events
  <2> QED BY <1>1, <2>1, RequestStep
<1>2. ASSUME NEW c \in {0, 1}, Request([kind |-> "configuration", value |-> c])
      PROVE  ChannelCore'
  <2>1. [kind |-> "configuration", value |-> c] \in Events
    BY DEF Events
  <2> QED BY <1>2, <2>1, RequestStep
<1>3. ASSUME Ncm, NEW a \in {0, 1}, Request([kind |-> "alternate", value |-> a])
      PROVE  ChannelCore'
  <2>1. [kind |-> "alternate", value |-> a] \in Events
    BY <1>3 DEF Events
  <2> QED BY <1>3, <2>1, RequestStep
<1>4. ASSUME NEW e \in Endpoints, NEW kind \in {"clear_halt", "set_halt"},
             Request([kind |-> kind, ep |-> e])
      PROVE  ChannelCore'
  <2>1. [kind |-> kind, ep |-> e] \in Events
    BY DEF Events
  <2> QED BY <1>4, <2>1, RequestStep
<1> QED BY <1>1, <1>2, <1>3, <1>4 DEF Requests

\* The invariant is kept by the start of a poll.
LEMMA PollStep ==
    ASSUME ChannelCore, channel' = channel, Poll
    PROVE  ChannelCore'
<1>1. /\ UNCHANGED <<configuration, alternate, failed, halted, rings, out, length, cursor, index,
                     tx, zlp_needed, halt, armed, events, open>>
      /\ pc' = "poll" /\ polled' = 0
  BY DEF Poll, controllerVars, historyVars
<1>2. XudcTypeOK /\ 0 \in 0 .. EventLimit
  BY XudcAssumption DEF ChannelCore
<1>3. XudcTypeOK'
  BY <1>1, <1>2, TypesNow, TypeNext
<1>4. connected' = connected
  BY <1>1, ChannelKept DEF active, connected
<1>5. Steady /\ OtherEvent("out") /\ OtherEvent("in")
  BY <1>1, <1>4 DEF Steady, OtherEvent
<1> QED BY <1>1, <1>3, <1>5, BothKept

\* The invariant is kept by its end.
LEMMA EndPollStep ==
    ASSUME ChannelCore, channel' = channel, EndPoll, StaleAreTaken
    PROVE  ChannelCore'
<1>1. /\ UNCHANGED <<configuration, alternate, failed, halted, rings, out, length, cursor, index,
                     tx, zlp_needed, halt, armed, events, open>>
      /\ pc' = "arm" /\ polled' = 0
  BY DEF EndPoll, controllerVars, historyVars
<1>2. XudcTypeOK /\ 0 \in 0 .. EventLimit
  BY XudcAssumption DEF ChannelCore
<1>3. XudcTypeOK'
  BY <1>1, <1>2, TypesNow, TypeNext
<1>4. ReceivesAreKnown' /\ SendsAreKnown'
  BY KnownAfterPoll DEF ChannelCore
<1> QED BY <1>1, <1>3, <1>4 DEF ChannelCore, Room

\* What is true of every event that the driver handles.
LEMMA EventFacts ==
    ASSUME XudcTypeOK, events # <<>>, polled < PollLimit
    PROVE  /\ Head(events) \in Events /\ Tail(events) \in Seq(Events)
           /\ polled + 1 \in 0 .. EventLimit /\ 0 \in 0 .. EventLimit
<1>1. polled \in 0 .. EventLimit /\ EventLimit \in Nat /\ events \in Seq(Events)
  BY XudcAssumption DEF XudcTypeOK
<1>2. polled + 1 \in 0 .. EventLimit /\ 0 \in 0 .. EventLimit
  BY <1>1 DEF PollLimit
<1> QED BY <1>1, <1>2, TailOf

\* The invariant is kept by a completion that is taken.
LEMMA TransferStep ==
    ASSUME ChannelCore, channel' = channel, Transfer
    PROVE  ChannelCore'
<1> DEFINE x == Head(events)
<1>1. XudcTypeOK /\ Room /\ ReceivesAreKnown /\ SendsAreKnown
  BY DEF ChannelCore
<1>2. events # <<>> /\ polled < PollLimit
  BY DEF Transfer, Event
<1>3. /\ x.ep \in Endpoints /\ x.slot \in SlotNumbers /\ x.kind = "transfer"
      /\ events' = Tail(events) /\ armed' = armed /\ Steady
      /\ x.ep # "out" => rings'["out"] = rings["out"]
      /\ x.ep # "in" => rings'["in"] = rings["in"]
  BY <1>1, TransferFacts DEF Endpoints
<1>4. events' \in Seq(Events) /\ polled' \in 0 .. EventLimit /\ failed' \in BOOLEAN
      /\ pc' \in {"idle", "poll", "arm"}
  <2>1. Tail(events) \in Seq(Events) /\ polled + 1 \in 0 .. EventLimit /\ 0 \in 0 .. EventLimit
    BY <1>1, <1>2, EventFacts
  <2>2. failed \in BOOLEAN /\ pc \in {"idle", "poll", "arm"}
    BY <1>1 DEF XudcTypeOK
  <2>3. \/ polled' = polled + 1 /\ UNCHANGED <<pc, failed>>
        \/ polled' = 0 /\ pc' = "idle" /\ failed' = TRUE
    BY DEF Transfer, Handled, Failed
  <2> QED BY <1>3, <2>1, <2>2, <2>3
<1>5. rings' \in [Endpoints -> [next : SlotNumbers, occupied : SUBSET SlotNumbers]]
  <2>1. rings' = [rings EXCEPT ![x.ep].occupied = @ \ {x.slot}]
    BY DEF Transfer
  <2>2. rings \in [Endpoints -> [next : SlotNumbers, occupied : SUBSET SlotNumbers]]
    BY <1>1 DEF XudcTypeOK
  <2> QED BY <1>3, <2>1, <2>2
<1>6. out' \in [Buffers -> {NONE} \cup SlotNumbers] /\ length' \in [Buffers -> BOOLEAN]
      /\ tx' \in {NONE} \cup SlotNumbers
  <2>1. /\ out \in [Buffers -> {NONE} \cup SlotNumbers] /\ length \in [Buffers -> BOOLEAN]
        /\ tx \in {NONE} \cup SlotNumbers
    BY <1>1 DEF XudcTypeOK
  <2>2. \/ UNCHANGED <<out, length>>
        \/ \E b : out' = [out EXCEPT ![b] = NONE] /\ length' = [length EXCEPT ![b] = TRUE]
    BY DEF Transfer
  <2>3. tx' = NONE \/ tx' = tx
    BY DEF Transfer
  <2> QED BY <2>1, <2>2, <2>3
<1>7. XudcTypeOK'
  <2>1. UNCHANGED <<configuration, alternate, halted, cursor, index, zlp_needed, halt, open>>
    BY DEF Transfer
  <2> QED BY <1>1, <1>3, <1>4, <1>5, <1>6, <2>1, TypesNow, TypeNext
<1>8. Room'
  <2>1. ASSUME NEW e \in Endpoints
        PROVE  rings'[e].next = rings[e].next /\ rings'[e].occupied \subseteq rings[e].occupied
    BY <1>1, TransferFacts
  <2> QED BY <1>1, <2>1 DEF Room
<1>9. CASE x.ep = "out"
  <2>1. OtherEvent("in") /\ UNCHANGED <<tx, zlp_needed, open>>
    BY <1>2, <1>3, <1>9 DEF OtherEvent, Transfer
  <2> QED BY <1>1, <1>3, <1>7, <1>8, <1>9, <2>1, ReceiveTaken, SendsKept DEF ChannelCore
<1>10. CASE x.ep = "in"
  <2>1. OtherEvent("out") /\ UNCHANGED <<out, length, cursor, index>>
    BY <1>2, <1>3, <1>10 DEF OtherEvent, Transfer
  <2> QED BY <1>1, <1>3, <1>7, <1>8, <1>10, <2>1, ReceivesKept, SendTaken DEF ChannelCore
<1> QED BY <1>3, <1>9, <1>10 DEF Endpoints

(***************************************************************************)
(* Rings that are set up again, or stopped.                                *)
(***************************************************************************)
LEMMA EndpointFacts ==
    ASSUME XudcTypeOK, Room, NEW eps \in SUBSET Endpoints, endpoint(eps)
    PROVE  /\ rings' \in [Endpoints -> [next : SlotNumbers, occupied : SUBSET SlotNumbers]]
           /\ DOMAIN armed' = Endpoints /\ armed'["out"] \in Seq(Descriptors("out"))
           /\ armed'["in"] \in Seq(Descriptors("in")) /\ halt' \subseteq Endpoints
           /\ Room'
           /\ \A e \in eps : rings'[e].occupied = {} /\ armed'[e] = <<>>
           /\ \A e \in Endpoints \ eps : rings'[e] = rings[e] /\ armed'[e] = armed[e]
<1>1. NewRing \in [next : SlotNumbers, occupied : SUBSET SlotNumbers]
      /\ NewRing.occupied = {} /\ NewRing.next = 0
  <2>1. 0 \in SlotNumbers
    BY ChannelFacts DEF XudcTypeOK
  <2> QED BY <2>1 DEF NewRing
<1>2. /\ rings' = [e \in Endpoints |-> IF e \in eps THEN NewRing ELSE rings[e]]
      /\ armed' = [e \in Endpoints |-> IF e \in eps THEN <<>> ELSE armed[e]]
      /\ halt' = halt \ eps
  BY DEF endpoint
<1>3. /\ rings \in [Endpoints -> [next : SlotNumbers, occupied : SUBSET SlotNumbers]]
      /\ armed["out"] \in Seq(Descriptors("out")) /\ armed["in"] \in Seq(Descriptors("in"))
      /\ halt \subseteq Endpoints
  BY TypesNow
<1>4. rings' \in [Endpoints -> [next : SlotNumbers, occupied : SUBSET SlotNumbers]]
  BY <1>1, <1>2, <1>3
<1>5. /\ \A e \in eps : rings'[e] = NewRing /\ armed'[e] = <<>>
      /\ \A e \in Endpoints \ eps : rings'[e] = rings[e] /\ armed'[e] = armed[e]
      /\ DOMAIN armed' = Endpoints
  BY <1>2
<1>6. Room'
  BY <1>1, <1>5 DEF Room
<1>7. armed'["out"] \in Seq(Descriptors("out")) /\ armed'["in"] \in Seq(Descriptors("in"))
  BY <1>3, <1>5, EmptySeq DEF Endpoints
<1> QED BY <1>1, <1>2, <1>3, <1>4, <1>5, <1>6, <1>7

\* stop_data() takes the descriptors of both rings away.
LEMMA StopFacts ==
    ASSUME XudcTypeOK, Room, Stop
    PROVE  /\ rings' \in [Endpoints -> [next : SlotNumbers, occupied : SUBSET SlotNumbers]]
           /\ DOMAIN armed' = Endpoints /\ armed'["out"] \in Seq(Descriptors("out"))
           /\ armed'["in"] \in Seq(Descriptors("in")) /\ halt' \subseteq Endpoints
           /\ Room' /\ \A e \in Endpoints : armed'[e] = <<>>
<1>1. /\ rings' = rings /\ armed' = [e \in Endpoints |-> <<>>]
      /\ halt' = IF active THEN Endpoints ELSE halt
  BY DEF Stop
<1>2. halt \subseteq Endpoints
      /\ rings \in [Endpoints -> [next : SlotNumbers, occupied : SUBSET SlotNumbers]]
  BY TypesNow
<1>3. DOMAIN armed' = Endpoints /\ \A e \in Endpoints : armed'[e] = <<>>
  BY <1>1
<1>4. armed'["out"] = <<>> /\ armed'["in"] = <<>>
  BY <1>3 DEF Endpoints
<1>5. Room'
  BY <1>1 DEF Room
<1> QED BY <1>1, <1>2, <1>3, <1>4, <1>5, EmptySeq

\* clear_endpoint_state keeps the types.
LEMMA ClearTypes ==
    ASSUME XudcTypeOK
    PROVE  /\ clear_out => /\ out' \in [Buffers -> {NONE} \cup SlotNumbers]
                           /\ length' \in [Buffers -> BOOLEAN]
                           /\ cursor' \in {0, 1} /\ index' \in Buffers
           /\ clear_in => tx' \in {NONE} \cup SlotNumbers /\ zlp_needed' \in BOOLEAN /\ open' \in BOOLEAN
<1>1. 0 \in Buffers
  BY ChannelFacts DEF XudcTypeOK
<1> QED BY <1>1 DEF clear_out, clear_in

\* Everything is given up.
LEMMA ResetStep ==
    ASSUME ChannelCore, channel' = channel, clear_out, clear_in,
           endpoint(Endpoints) \/ (Stop /\ ~active'),
           pc' = "poll" \/ ~connected',
           configuration' \in {0, 1}, alternate' \in {0, 1}, failed' \in BOOLEAN,
           halted' \subseteq Endpoints, pc' \in {"idle", "poll", "arm"},
           polled' \in 0 .. EventLimit, events' \in Seq(Events)
    PROVE  ChannelCore'
<1>1. XudcTypeOK /\ Room
  BY DEF ChannelCore
<1>2. /\ rings' \in [Endpoints -> [next : SlotNumbers, occupied : SUBSET SlotNumbers]]
      /\ DOMAIN armed' = Endpoints /\ armed'["out"] \in Seq(Descriptors("out"))
      /\ armed'["in"] \in Seq(Descriptors("in")) /\ halt' \subseteq Endpoints /\ Room'
      /\ \A e \in Endpoints : armed'[e] = <<>> /\ (rings'[e].occupied = {} \/ ~connected')
  <2>1. CASE endpoint(Endpoints)
    BY <1>1, <2>1, EndpointFacts
  <2>2. CASE Stop /\ ~active'
    BY <1>1, <2>2, StopFacts DEF connected
  <2> QED BY <2>1, <2>2
<1>3. XudcTypeOK'
  BY <1>1, <1>2, ClearTypes, TypeNext
<1>4. Off("out")' /\ Off("in")'
  BY <1>2 DEF Off, Endpoints
<1> QED BY <1>2, <1>3, <1>4, ReceivesGivenUp, SendsGivenUp DEF ChannelCore

\* The invariant is kept by SET_CONFIGURATION.
LEMMA SetConfigurationStep ==
    ASSUME ChannelCore, channel' = channel, SetConfiguration
    PROVE  ChannelCore'
<1> DEFINE c == Head(events).value
<1>1. /\ pc = "poll" /\ events # <<>> /\ polled < PollLimit /\ Head(events).kind = "configuration"
      /\ events' = Tail(events) /\ polled' = polled + 1 /\ UNCHANGED <<pc, failed, halted>>
      /\ configuration' = c /\ alternate' = 0 /\ clear_out /\ clear_in
      /\ IF c = 1 /\ ~Ncm THEN endpoint(Endpoints) ELSE Stop
  BY DEF SetConfiguration, Event, Handled
<1>2. XudcTypeOK
  BY DEF ChannelCore
<1>3. Head(events) \in Events /\ Tail(events) \in Seq(Events) /\ polled + 1 \in 0 .. EventLimit
  BY <1>1, <1>2, EventFacts
<1>4. c \in {0, 1}
  BY <1>1, <1>3 DEF Events
<1>5. endpoint(Endpoints) \/ (Stop /\ ~active')
  BY <1>1, <1>4, ChannelKept DEF active
<1> QED BY <1>1, <1>2, <1>3, <1>4, <1>5, TypesNow, ResetStep

\* A request that changes nothing here.
LEMMA IgnoredStep ==
    ASSUME ChannelCore, channel' = channel, events # <<>>, polled < PollLimit,
           Head(events).kind # "transfer", Handled, halted' \subseteq Endpoints,
           halt' \subseteq Endpoints, UNCHANGED <<configuration, alternate, rings, armed>>,
           KeepOut, KeepIn
    PROVE  ChannelCore'
<1>1. XudcTypeOK
  BY DEF ChannelCore
<1>2. Head(events) \in Events /\ Tail(events) \in Seq(Events) /\ polled + 1 \in 0 .. EventLimit
  BY <1>1, EventFacts
<1>3. /\ events' = Tail(events) /\ polled' = polled + 1
      /\ UNCHANGED <<pc, failed, out, length, cursor, index, tx, zlp_needed, open>>
  BY DEF Handled, KeepOut, KeepIn
<1>4. XudcTypeOK'
  BY <1>1, <1>2, <1>3, TypesNow, TypeNext
<1>5. active' = active /\ connected' = connected
  BY <1>3, ChannelKept DEF active, connected
<1>6. Steady /\ OtherEvent("out") /\ OtherEvent("in")
  BY <1>3, <1>5 DEF Steady, OtherEvent
<1> QED BY <1>3, <1>4, <1>6, BothKept

\* The invariant is kept by SET_INTERFACE of the network function.
LEMMA SetAlternateStep ==
    ASSUME ChannelCore, channel' = channel, SetAlternate
    PROVE  ChannelCore'
<1> DEFINE a == Head(events).value
<1>1. /\ pc = "poll" /\ events # <<>> /\ polled < PollLimit /\ Head(events).kind = "alternate"
      /\ Handled /\ UNCHANGED <<configuration, halted>>
  BY DEF SetAlternate, Event
<1>2. XudcTypeOK
  BY DEF ChannelCore
<1>3. Head(events) \in Events /\ Tail(events) \in Seq(Events) /\ polled + 1 \in 0 .. EventLimit
  BY <1>1, <1>2, EventFacts
<1>4. a \in {0, 1} /\ Ncm
  BY <1>1, <1>3 DEF Events
<1>5. CASE configuration = 1
  <2>1. /\ alternate' = a /\ clear_out /\ clear_in
        /\ IF a = 1 THEN endpoint(Endpoints) ELSE Stop
    BY <1>5 DEF SetAlternate
  <2>2. endpoint(Endpoints) \/ (Stop /\ ~active')
    BY <1>4, <2>1, ChannelKept DEF active
  <2>3. events' = Tail(events) /\ polled' = polled + 1 /\ UNCHANGED <<pc, failed>>
    BY <1>1 DEF Handled
  <2> QED BY <1>1, <1>2, <1>3, <1>4, <2>1, <2>2, <2>3, TypesNow, ResetStep
<1>6. CASE configuration # 1
  <2>1. UNCHANGED <<alternate, rings, armed, halt>> /\ KeepOut /\ KeepIn
    BY <1>6 DEF SetAlternate
  <2> QED BY <1>1, <1>2, <2>1, TypesNow, IgnoredStep
<1> QED BY <1>5, <1>6

\* The invariant is kept by SET_FEATURE(ENDPOINT_HALT).
LEMMA SetHaltStep ==
    ASSUME ChannelCore, channel' = channel, SetHalt
    PROVE  ChannelCore'
<1> DEFINE e == Head(events).ep
<1>1. /\ pc = "poll" /\ events # <<>> /\ polled < PollLimit /\ Head(events).kind = "set_halt"
      /\ Handled /\ UNCHANGED <<configuration, alternate, rings, armed>> /\ KeepOut /\ KeepIn
      /\ IF active THEN halted' = halted \cup {e} /\ halt' = halt \cup {e}
         ELSE UNCHANGED <<halted, halt>>
  BY DEF SetHalt, Event, Configured
<1>2. XudcTypeOK
  BY DEF ChannelCore
<1>3. Head(events) \in Events
  BY <1>1, <1>2, EventFacts
<1>4. e \in Endpoints
  BY <1>1, <1>3 DEF Events
<1>5. halted' \subseteq Endpoints /\ halt' \subseteq Endpoints
  BY <1>1, <1>2, <1>4, TypesNow
<1> QED BY <1>1, <1>5, IgnoredStep

\* The invariant is kept by CLEAR_FEATURE(ENDPOINT_HALT).
LEMMA ClearHaltStep ==
    ASSUME ChannelCore, channel' = channel, ClearHalt
    PROVE  ChannelCore'
<1> DEFINE e == Head(events).ep
<1>1. /\ pc = "poll" /\ events # <<>> /\ polled < PollLimit /\ Head(events).kind = "clear_halt"
      /\ Handled /\ UNCHANGED <<configuration, alternate>>
  BY DEF ClearHalt, Event, Configured
<1>2. XudcTypeOK /\ Room /\ ReceivesAreKnown /\ SendsAreKnown
  BY DEF ChannelCore
<1>3. Head(events) \in Events /\ Tail(events) \in Seq(Events) /\ polled + 1 \in 0 .. EventLimit
  BY <1>1, <1>2, EventFacts
<1>4. e \in Endpoints
  BY <1>1, <1>3 DEF Events
<1>5. CASE ~active
  <2>1. UNCHANGED <<halted, rings, armed, halt>> /\ KeepOut /\ KeepIn
    BY <1>5 DEF ClearHalt
  <2> QED BY <1>1, <1>2, <2>1, TypesNow, IgnoredStep
<1>6. CASE active
  <2>1. /\ halted' = halted \ {e} /\ endpoint({e})
        /\ IF e = "out" THEN clear_out /\ KeepIn ELSE clear_in /\ KeepOut
    BY <1>6 DEF ClearHalt
  <2>2. /\ rings' \in [Endpoints -> [next : SlotNumbers, occupied : SUBSET SlotNumbers]]
        /\ DOMAIN armed' = Endpoints /\ armed'["out"] \in Seq(Descriptors("out"))
        /\ armed'["in"] \in Seq(Descriptors("in")) /\ halt' \subseteq Endpoints /\ Room'
        /\ rings'[e].occupied = {} /\ armed'[e] = <<>>
        /\ \A f \in Endpoints : f # e => rings'[f] = rings[f] /\ armed'[f] = armed[f]
    BY <1>2, <1>4, <2>1, EndpointFacts
  <2>3. events' = Tail(events) /\ polled' = polled + 1 /\ UNCHANGED <<pc, failed>>
    BY <1>1 DEF Handled
  <2>4. active' = active /\ connected' = connected
    BY <1>1, <2>3, ChannelKept DEF active, connected
  <2>5. Steady /\ OtherEvent("out") /\ OtherEvent("in")
    BY <1>1, <2>3, <2>4 DEF Steady, OtherEvent
  <2>6. halted' \subseteq Endpoints
    BY <1>2, <2>1, TypesNow
  <2>7. CASE e = "out"
    <3>1. clear_out /\ UNCHANGED <<tx, zlp_needed, open>>
      BY <2>1, <2>7 DEF KeepIn
    <3>2. rings'["in"] = rings["in"] /\ armed'["in"] = armed["in"]
      BY <2>2, <2>7 DEF Endpoints
    <3>3. XudcTypeOK'
      BY <1>1, <1>2, <1>3, <2>2, <2>3, <2>6, <3>1, ClearTypes, TypesNow, TypeNext
    <3>4. Off("out")'
      BY <1>1, <2>2, <2>3, <2>7 DEF Off
    <3> QED BY <1>2, <2>2, <2>5, <3>1, <3>2, <3>3, <3>4, ReceivesGivenUp, SendsKept DEF ChannelCore
  <2>8. CASE e = "in"
    <3>1. clear_in /\ UNCHANGED <<out, length, cursor, index>>
      BY <2>1, <2>8 DEF KeepOut
    <3>2. rings'["out"] = rings["out"] /\ armed'["out"] = armed["out"]
      BY <2>2, <2>8 DEF Endpoints
    <3>3. XudcTypeOK'
      BY <1>1, <1>2, <1>3, <2>2, <2>3, <2>6, <3>1, ClearTypes, TypesNow, TypeNext
    <3>4. Off("in")'
      BY <1>1, <2>2, <2>3, <2>8 DEF Off
    <3> QED BY <1>2, <2>2, <2>5, <3>1, <3>2, <3>3, <3>4, SendsGivenUp, ReceivesKept DEF ChannelCore
  <2> QED BY <1>4, <2>7, <2>8 DEF Endpoints
<1> QED BY <1>5, <1>6

\* The invariant is kept by a port reset.
LEMMA PortStep ==
    ASSUME ChannelCore, channel' = channel, Port
    PROVE  ChannelCore'
<1>1. /\ pc = "poll" /\ events # <<>> /\ polled < PollLimit
      /\ events' = Tail(events) /\ polled' = polled + 1 /\ UNCHANGED pc
      /\ failed' = FALSE /\ configuration' = 0 /\ alternate' = 0 /\ halted' = {}
      /\ clear_out /\ clear_in /\ Stop
  BY DEF Port, Event
<1>2. XudcTypeOK
  BY DEF ChannelCore
<1>3. Tail(events) \in Seq(Events) /\ polled + 1 \in 0 .. EventLimit
  BY <1>1, <1>2, EventFacts
<1>4. ~active'
  BY <1>1 DEF active
<1> QED BY <1>1, <1>3, <1>4, ResetStep

\* A request fails: what it had given up is off, and the rest as it was.
LEMMA AbandonStep ==
    ASSUME ChannelCore, channel' = channel,
           NEW gone \in SUBSET Endpoints, NEW fresh \in SUBSET gone, Abandon(gone, fresh),
           events # <<>>, polled < PollLimit, Head(events).kind # "transfer", Failed,
           configuration' \in {0, 1}, alternate' \in {0, 1}, halted' \subseteq Endpoints
    PROVE  ChannelCore'
<1>1. events' = Tail(events) /\ polled' = 0 /\ pc' = "idle" /\ failed' = TRUE /\ ~connected'
  BY DEF Failed, connected
<1>2. XudcTypeOK /\ Room /\ ReceivesAreKnown /\ SendsAreKnown
  BY DEF ChannelCore
<1>3. Tail(events) \in Seq(Events) /\ 0 \in 0 .. EventLimit
  BY <1>2, EventFacts
<1>4. /\ "out" \in gone => clear_out
      /\ "out" \notin gone => UNCHANGED <<out, length, cursor, index>>
      /\ "in" \in gone => clear_in
      /\ "in" \notin gone => UNCHANGED <<tx, zlp_needed, open>>
      /\ rings' = [e \in Endpoints |-> IF e \in fresh THEN NewRing ELSE rings[e]]
      /\ armed' = [e \in Endpoints |-> IF e \in gone THEN <<>> ELSE armed[e]]
  BY DEF Abandon, KeepOut, KeepIn
<1>5. halt' \subseteq Endpoints
  <2>1. PICK stopped \in SUBSET Endpoints, runs \in SUBSET fresh : halt' = (halt \cup stopped) \ runs
    BY DEF Abandon
  <2> QED BY <1>2, <2>1, TypesNow
<1>6. /\ NewRing \in [next : SlotNumbers, occupied : SUBSET SlotNumbers]
      /\ NewRing.next \notin NewRing.occupied
  <2>1. 0 \in SlotNumbers
    BY <1>2, ChannelFacts DEF XudcTypeOK
  <2> QED BY <2>1 DEF NewRing
<1>7. /\ rings \in [Endpoints -> [next : SlotNumbers, occupied : SUBSET SlotNumbers]]
      /\ armed["out"] \in Seq(Descriptors("out")) /\ armed["in"] \in Seq(Descriptors("in"))
  BY <1>2, TypesNow
<1>8. /\ rings' \in [Endpoints -> [next : SlotNumbers, occupied : SUBSET SlotNumbers]]
      /\ DOMAIN armed' = Endpoints
      /\ \A e \in fresh : rings'[e] = NewRing
      /\ \A e \in Endpoints : e \notin fresh => rings'[e] = rings[e]
      /\ \A e \in gone : armed'[e] = <<>>
      /\ \A e \in Endpoints : e \notin gone => armed'[e] = armed[e] /\ rings'[e] = rings[e]
  BY <1>4, <1>6, <1>7
<1>9. Room'
  BY <1>2, <1>6, <1>8 DEF Room
<1>10. armed'["out"] \in Seq(Descriptors("out")) /\ armed'["in"] \in Seq(Descriptors("in"))
  BY <1>7, <1>8, EmptySeq DEF Endpoints
<1>11. XudcTypeOK'
  <2>1. /\ out' \in [Buffers -> {NONE} \cup SlotNumbers] /\ length' \in [Buffers -> BOOLEAN]
        /\ cursor' \in {0, 1} /\ index' \in Buffers
    BY <1>2, <1>4, ClearTypes, TypesNow
  <2>2. tx' \in {NONE} \cup SlotNumbers /\ zlp_needed' \in BOOLEAN /\ open' \in BOOLEAN
    BY <1>2, <1>4, ClearTypes, TypesNow
  <2> QED BY <1>1, <1>2, <1>3, <1>5, <1>8, <1>10, <2>1, <2>2, TypeNext
<1>12. \A e \in gone : Off(e)'
  BY <1>1, <1>8 DEF Off
<1>13. Steady /\ OtherEvent("out") /\ OtherEvent("in")
  BY <1>1 DEF Steady, OtherEvent
<1>14. ReceivesAreKnown'
  <2>1. CASE "out" \in gone
    BY <1>4, <1>12, <2>1, ReceivesGivenUp
  <2>2. CASE "out" \notin gone
    <3>1. rings'["out"] = rings["out"] /\ armed'["out"] = armed["out"]
      BY <1>8, <2>2 DEF Endpoints
    <3> QED BY <1>2, <1>4, <1>13, <2>2, <3>1, ReceivesKept
  <2> QED BY <2>1, <2>2
<1>15. SendsAreKnown'
  <2>1. CASE "in" \in gone
    BY <1>4, <1>12, <2>1, SendsGivenUp
  <2>2. CASE "in" \notin gone
    <3>1. rings'["in"] = rings["in"] /\ armed'["in"] = armed["in"]
      BY <1>8, <2>2 DEF Endpoints
    <3> QED BY <1>2, <1>4, <1>13, <2>2, <3>1, SendsKept
  <2> QED BY <2>1, <2>2
<1> QED BY <1>9, <1>11, <1>14, <1>15 DEF ChannelCore

\* The invariant is kept by a register that does not change in time.
LEMMA TimeoutStep ==
    ASSUME ChannelCore, channel' = channel, Timeout
    PROVE  ChannelCore'
<1> DEFINE event == Head(events)
<1>1. events # <<>> /\ polled < PollLimit /\ event.kind # "transfer" /\ Failed
  BY DEF Timeout
<1>2. XudcTypeOK
  BY DEF ChannelCore
<1>3. event \in Events
  BY <1>1, <1>2, EventFacts
<1>4. /\ event.kind \in {"set_halt", "clear_halt"} => event.ep \in Endpoints
      /\ event.kind \in {"configuration", "alternate"} => event.value \in {0, 1}
  BY <1>3 DEF Events
<1>5. configuration \in {0, 1} /\ alternate \in {0, 1} /\ halted \subseteq Endpoints
  BY <1>2, TypesNow
<1>6. \E gone \in SUBSET Endpoints : \E fresh \in SUBSET gone : Abandon(gone, fresh)
  <2>1. CASE Abandon({}, {})
    BY <2>1
  <2>2. CASE event.kind = "clear_halt" /\ Abandon({event.ep}, {event.ep})
    BY <1>4, <2>2
  <2>3. CASE Abandon({"out"}, IF event.value = 1 THEN {"out"} ELSE {})
    BY <2>3 DEF Endpoints
  <2>4. CASE Abandon(Endpoints, IF event.value = 1 THEN Endpoints ELSE {})
    BY <2>4
  <2>5. CASE \E fresh \in {{}, {"out"}, Endpoints} : Abandon(Endpoints, fresh)
    BY <2>5 DEF Endpoints
  <2>6. CASE Abandon(Endpoints, {})
    BY <2>6
  <2> QED BY <2>1, <2>2, <2>3, <2>4, <2>5, <2>6 DEF Timeout
<1>7. configuration' \in {0, 1} /\ alternate' \in {0, 1}
  BY <1>4, <1>5 DEF Timeout, Configured
<1>8. halted' \subseteq Endpoints
  BY <1>4, <1>5 DEF Timeout
<1> QED BY <1>1, <1>6, <1>7, <1>8, AbandonStep

\* The invariant is kept by arm_data().
LEMMA ArmDataStep ==
    ASSUME ChannelCore, channel' = channel, ArmData
    PROVE  ChannelCore'
<1> DEFINE refill == IF connected /\ "out" \notin halt THEN RefillOrder ELSE <<>>
           zlp == connected /\ zlp_needed /\ tx = NONE
           d == [slot |-> rings["in"].next, data |-> FALSE, full |-> FALSE]
           q == [k \in DOMAIN refill |-> [slot |-> Queued("out", k - 1), buffer |-> refill[k]]]
<1>1. XudcTypeOK /\ ReceivesAreKnown /\ SendsAreKnown
      /\ \A e \in Endpoints : rings[e].next \notin rings[e].occupied
  BY DEF ChannelCore, Room
<1>2. /\ ReceivesAreKnown' /\ rings'["out"].next \notin rings'["out"].occupied
      /\ SendsAreKnown' /\ rings'["in"].next \notin rings'["in"].occupied
  BY <1>1, ReceivesArmed, SendsArmed DEF Endpoints
<1>3. /\ pc' = "idle"
      /\ UNCHANGED <<configuration, alternate, failed, halted, length, cursor, index, polled, halt,
                     events, open>>
      /\ out' = [b \in Buffers |->
                   IF \E k \in DOMAIN refill : refill[k] = b
                   THEN Queued("out", (CHOOSE k \in DOMAIN refill : refill[k] = b) - 1)
                   ELSE out[b]]
      /\ DOMAIN armed' = Endpoints /\ armed'["out"] = armed["out"] \o q
      /\ armed'["in"] = IF zlp THEN Append(armed["in"], d) ELSE armed["in"]
      /\ rings' = [rings EXCEPT !["out"] = Advance("out", Len(refill)),
                                !["in"] = IF zlp THEN Advance("in", 1) ELSE @]
      /\ tx' = IF zlp THEN rings["in"].next ELSE tx
      /\ zlp_needed' = (zlp_needed /\ ~zlp)
  BY <1>1 DEF ArmData, XudcTypeOK, Endpoints, historyVars
<1>4. /\ refill \in Seq(Buffers) /\ Len(refill) \in {0, 1, 2}
      /\ DOMAIN refill \subseteq {1, 2} /\ \A k \in DOMAIN refill : refill[k] \in Buffers
  <2>1. CASE refill = <<>>
    <3> HIDE DEF refill
    <3>1. Len(refill) = 0 /\ DOMAIN refill = {} /\ refill \in Seq(Buffers)
      BY <2>1, EmptySeq
    <3> QED BY <3>1
  <2>2. ASSUME NEW b \in Buffers, refill = <<b>>
        PROVE  /\ refill \in Seq(Buffers) /\ Len(refill) \in {0, 1, 2}
               /\ DOMAIN refill \subseteq {1, 2} /\ \A k \in DOMAIN refill : refill[k] \in Buffers
    <3> HIDE DEF refill
    <3> QED BY <2>2
  <2>3. ASSUME NEW b \in Buffers, NEW c \in Buffers, refill = <<b, c>>
        PROVE  /\ refill \in Seq(Buffers) /\ Len(refill) \in {0, 1, 2}
               /\ DOMAIN refill \subseteq {1, 2} /\ \A k \in DOMAIN refill : refill[k] \in Buffers
    <3> HIDE DEF refill
    <3> QED BY <2>3
  <2> QED BY <1>1, <2>1, <2>2, <2>3, RefillForms
<1>5. \A k \in {1, 2} : Queued("out", k - 1) \in SlotNumbers
  <2>1. Queued("out", 0) \in 0 .. Slots - 1 /\ Queued("out", 1) \in 0 .. Slots - 1
    BY <1>1, QueuedSlots, RingTypes DEF Endpoints
  <2>2. 1 - 1 = 0 /\ 2 - 1 = 1
    OBVIOUS
  <2> QED BY <2>1, <2>2 DEF SlotNumbers
<1> HIDE DEF refill
<1>6. out' \in [Buffers -> {NONE} \cup SlotNumbers]
  <2>1. out \in [Buffers -> {NONE} \cup SlotNumbers]
    BY <1>1, TypesNow
  <2>2. ASSUME NEW b \in Buffers, \E k \in DOMAIN refill : refill[k] = b
        PROVE  (CHOOSE k \in DOMAIN refill : refill[k] = b) \in {1, 2}
    <3>1. (CHOOSE k \in DOMAIN refill : refill[k] = b) \in DOMAIN refill
      BY <2>2
    <3> QED BY <1>4, <3>1
  <2> QED BY <1>3, <1>5, <2>1, <2>2
<1>7. armed'["out"] \in Seq(Descriptors("out"))
  <2>1. \A k \in DOMAIN refill : q[k] \in Descriptors("out")
    BY <1>4, <1>5 DEF Descriptors
  <2>2. DOMAIN q = 1 .. Len(refill) /\ Len(refill) \in Nat
    BY <1>4, LenProperties
  <2> DEFINE D == Descriptors("out")
  <2> HIDE DEF q, D
  <2>3. q = [k \in 1 .. Len(refill) |-> q[k]]
    BY <2>2 DEF q
  <2>4. q \in Seq(D)
    <3>1. \A k \in 1 .. Len(refill) : q[k] \in D
      BY <1>4, <2>1, LenProperties DEF D
    <3> QED BY <2>2, <2>3, <3>1
  <2>5. armed["out"] \in Seq(D)
    BY <1>1, TypesNow DEF D
  <2> QED BY <1>3, <2>4, <2>5, ConcatProperties DEF D
<1>8. rings["in"].next \in SlotNumbers /\ armed'["in"] \in Seq(Descriptors("in"))
  <2>1. rings["in"].next \in SlotNumbers /\ armed["in"] \in Seq(Descriptors("in"))
    BY <1>1, RingTypes DEF SlotNumbers, Endpoints
  <2>2. d \in Descriptors("in")
    BY <2>1 DEF Descriptors
  <2> HIDE DEF d
  <2>3. Append(armed["in"], d) \in Seq(Descriptors("in"))
    BY <2>1, <2>2, AppendProperties
  <2> QED BY <1>3, <2>1, <2>3
<1>9. rings' \in [Endpoints -> [next : SlotNumbers, occupied : SUBSET SlotNumbers]]
  <2> DEFINE Ring == [next : SlotNumbers, occupied : SUBSET SlotNumbers]
  <2>1. rings \in [Endpoints -> Ring]
    BY <1>1, TypesNow
  <2>2. ASSUME NEW e \in Endpoints, NEW m \in {0, 1, 2}
        PROVE  Advance(e, m) \in Ring
    <3>1. /\ Queued(e, 0) \in SlotNumbers /\ Queued(e, 1) \in SlotNumbers
          /\ Queued(e, 2) \in SlotNumbers /\ rings[e] \in Ring
      BY <1>1, <2>1, QueuedSlots, RingTypes DEF SlotNumbers
    <3> QED BY <1>1, <3>1, Advanced
  <2>3. Advance("out", Len(refill)) \in Ring /\ Advance("in", 1) \in Ring
    BY <1>4, <2>2 DEF Endpoints
  <2> HIDE DEF Ring
  <2>4. rings' \in [Endpoints -> Ring]
    BY <1>3, <2>1, <2>3 DEF Endpoints
  <2> QED BY <2>4 DEF Ring
<1>10. tx' \in {NONE} \cup SlotNumbers /\ zlp_needed' \in BOOLEAN
  BY <1>1, <1>3, <1>8, TypesNow
<1>11. XudcTypeOK'
  <2> HIDE DEF q, d, zlp
  <2> QED BY <1>1, <1>3, <1>6, <1>7, <1>8, <1>9, <1>10, TypesNow, TypeNext
<1> QED BY <1>2, <1>11 DEF ChannelCore, Room, Endpoints

\* The invariant is kept by receive_channel().
LEMMA ReadStep ==
    ASSUME ChannelCore, channel' = channel, Read
    PROVE  ChannelCore'
<1>1. XudcTypeOK /\ Room /\ ReceivesAreKnown /\ SendsAreKnown
  BY DEF ChannelCore
<1>2. /\ UNCHANGED <<configuration, alternate, failed, halted, rings, out, tx, zlp_needed, polled,
                     halt, armed, events, open>>
      /\ pc = "idle"
      /\ \/ cursor' = 1 /\ UNCHANGED <<length, index, pc>>
         \/ /\ cursor' = 0 /\ length' = [length EXCEPT ![index] = FALSE]
            /\ index' = NextIndex /\ pc' = "arm"
  BY DEF Read, controllerVars
<1>3. NextIndex \in Buffers
  <2>1. index \in Buffers /\ Count = (IF Ncm THEN 2 ELSE 1) /\ Buffers = IF Ncm THEN {0, 1} ELSE {0}
    BY <1>1, ChannelFacts, TypesNow DEF XudcTypeOK
  <2> QED BY <2>1 DEF NextIndex
<1>4. XudcTypeOK'
  <2>1. /\ cursor' \in {0, 1} /\ length' \in [Buffers -> BOOLEAN] /\ index' \in Buffers
        /\ pc' \in {"idle", "poll", "arm"}
    BY <1>1, <1>2, <1>3, TypesNow
  <2> QED BY <1>1, <1>2, <2>1, TypesNow, TypeNext
<1>5. Steady /\ OtherEvent("in")
  <2>1. active' = active /\ connected' = connected
    BY <1>2, ChannelKept DEF active, connected
  <2> QED BY <1>2, <2>1 DEF Steady, OtherEvent
<1> QED BY <1>1, <1>2, <1>4, <1>5, ReceivesRead, SendsKept DEF ChannelCore, Room

\* The invariant is kept by send_channel().
LEMMA SendStep ==
    ASSUME ChannelCore, channel' = channel, NEW full \in BOOLEAN, Send(full)
    PROVE  ChannelCore'
<1> DEFINE d == [slot |-> rings["in"].next, data |-> TRUE, full |-> full]
<1>1. XudcTypeOK /\ ReceivesAreKnown /\ SendsAreKnown
      /\ \A e \in Endpoints : rings[e].next \notin rings[e].occupied
  BY DEF ChannelCore, Room
<1>2. /\ UNCHANGED <<configuration, alternate, failed, halted, out, length, cursor, index, pc,
                     polled, halt, events, open>>
      /\ armed' = [armed EXCEPT !["in"] = Append(@, d)]
      /\ rings' = [rings EXCEPT !["in"] = Advance("in", 1)]
      /\ tx' = rings["in"].next /\ zlp_needed' = full
  BY DEF Send, Zlp
<1>3. /\ rings["in"].next \in SlotNumbers /\ armed["in"] \in Seq(Descriptors("in"))
      /\ DOMAIN armed = Endpoints /\ armed["out"] \in Seq(Descriptors("out"))
      /\ rings \in [Endpoints -> [next : SlotNumbers, occupied : SUBSET SlotNumbers]]
  BY <1>1, RingTypes, TypesNow DEF SlotNumbers, Endpoints
<1>4. d \in Descriptors("in")
  BY <1>3 DEF Descriptors
<1> HIDE DEF d
<1>5. /\ DOMAIN armed' = Endpoints /\ armed'["out"] = armed["out"]
      /\ armed'["in"] \in Seq(Descriptors("in"))
  <2>1. Append(armed["in"], d) \in Seq(Descriptors("in"))
    BY <1>3, <1>4, AppendProperties
  <2> QED BY <1>2, <1>3, <2>1 DEF Endpoints
<1>6. Advance("in", 1) \in [next : SlotNumbers, occupied : SUBSET SlotNumbers]
  <2>1. Queued("in", 0) \in SlotNumbers /\ Queued("in", 1) \in SlotNumbers
    BY <1>1, <1>3, QueuedSlots DEF SlotNumbers, Endpoints
  <2>2. rings["in"].occupied \in SUBSET SlotNumbers
    BY <1>3 DEF Endpoints
  <2> QED BY <1>1, <2>1, <2>2, Advanced DEF Endpoints
<1>7. /\ rings' \in [Endpoints -> [next : SlotNumbers, occupied : SUBSET SlotNumbers]]
      /\ rings'["out"] = rings["out"]
  BY <1>2, <1>3, <1>6 DEF Endpoints
<1>8. XudcTypeOK'
  BY <1>1, <1>2, <1>3, <1>5, <1>7, TypesNow, TypeNext
<1>9. Steady /\ OtherEvent("out")
  <2>1. active' = active /\ connected' = connected
    BY <1>2, ChannelKept DEF active, connected
  <2> QED BY <1>2, <2>1 DEF Steady, OtherEvent
<1>10. ReceivesAreKnown'
  BY <1>1, <1>2, <1>5, <1>7, <1>9, ReceivesKept
<1>11. SendsAreKnown' /\ rings'["in"].next \notin rings'["in"].occupied
  BY <1>1, SendsSent DEF Endpoints
<1> QED BY <1>1, <1>7, <1>8, <1>10, <1>11 DEF ChannelCore, Room, Endpoints

\* The invariant holds initially, ...
LEMMA ChannelStart == XudcInit => ChannelCore
<1> SUFFICES ASSUME XudcInit PROVE ChannelCore
  OBVIOUS
<1>1. channel \in DOMAIN Bounds
  BY DEF XudcInit
<1>2. 0 \in SlotNumbers /\ 0 \in Buffers /\ 0 \in 0 .. EventLimit
  BY <1>1, ChannelFacts, XudcAssumption
<1>3. XudcTypeOK
  <2>1. armed = [e \in Endpoints |-> <<>>] /\ events = <<>>
    BY DEF XudcInit
  <2>2. DOMAIN armed = Endpoints /\ \A e \in Endpoints : armed[e] \in Seq(Descriptors(e))
    BY <2>1, EmptySeq
  <2>3. events \in Seq(Events)
    BY <2>1, EmptySeq
  <2>4. rings \in [Endpoints -> [next : SlotNumbers, occupied : SUBSET SlotNumbers]]
    BY <1>2 DEF XudcInit, NewRing
  <2> QED BY <1>1, <1>2, <2>2, <2>3, <2>4 DEF XudcInit, XudcTypeOK
<1>4. \A e \in Endpoints : rings[e].occupied = {} /\ armed[e] = <<>>
  BY DEF XudcInit, NewRing
<1>5. ASSUME NEW e \in Endpoints PROVE Tracked(e)
  <2>1. DoneIn(events, e) = {}
    BY DEF XudcInit, DoneIn
  <2>2. TrackedBy(Slots, rings[e].next, {}, events, <<>>, e)
    BY <2>1, Fresh
  <2> QED BY <1>4, <2>2, TrackedNow
<1>6. ReceivesAreKnown
  BY <1>4, <1>5 DEF ReceivesAreKnown, Endpoints, XudcInit
<1>7. SendsAreKnown
  BY <1>4, <1>5 DEF SendsAreKnown, Endpoints, XudcInit
<1> QED BY <1>3, <1>4, <1>6, <1>7 DEF ChannelCore, Room

\* ... is kept by every step, ...
LEMMA ChannelStep ==
    ASSUME ChannelCore, StaleAreTaken, [XudcNext]_vars
    PROVE  ChannelCore'
<1>1. CASE UNCHANGED vars
  <2>1. /\ UNCHANGED <<channel, configuration, alternate, failed, halted, rings, out, length, cursor,
                       index, tx, zlp_needed, pc, polled, halt, armed, events, open>>
    BY <1>1 DEF vars, stepVars, driverVars, controllerVars, historyVars
  <2>2. XudcTypeOK'
    BY <2>1, TypesNow, TypeNext DEF ChannelCore
  <2>3. active' = active /\ connected' = connected
    BY <2>1, ChannelKept DEF active, connected
  <2>4. Steady /\ OtherEvent("out") /\ OtherEvent("in")
    BY <2>1, <2>3 DEF Steady, OtherEvent
  <2> QED BY <2>1, <2>2, <2>4, BothKept
<1>2. CASE XudcNext
  <2>1. channel' = channel
    BY <1>2 DEF XudcNext
  <2> QED BY <1>2, <2>1, HostOutStep, HostInStep, TransferErrorStep, RequestsStep, PollStep,
             EndPollStep, TransferStep, SetConfigurationStep, SetAlternateStep, ClearHaltStep,
             SetHaltStep, PortStep, TimeoutStep, ArmDataStep, ReadStep, SendStep
          DEF XudcNext, Handle
<1> QED BY <1>1, <1>2

\* ... and implies the properties of a channel.
LEMMA CoreSuffices == ChannelCore => ChannelInvariant
<1> SUFFICES ASSUME XudcTypeOK, Room, ReceivesAreKnown, SendsAreKnown PROVE ChannelInvariant
  BY DEF ChannelCore
<1>1. NONE \notin SlotNumbers
  BY ChannelFacts DEF XudcTypeOK
<1>2. \A k \in DOMAIN armed["out"] : armed["out"][k] \in [slot : SlotNumbers, buffer : Buffers]
  <2>1. armed["out"] \in Seq([slot : SlotNumbers, buffer : Buffers])
    BY TypesNow DEF Descriptors
  <2> QED BY <2>1, ElementOfSeq, LenProperties
<1>3. DOMAIN armed["out"] # {} =>
        /\ Tracked("out")
        /\ \A k \in DOMAIN armed["out"] : out[armed["out"][k].buffer] = armed["out"][k].slot
  BY DEF ReceivesAreKnown, Off
<1>4. ControllerKeepsOff
  <2> SUFFICES ASSUME NEW k \in DOMAIN armed["out"]
               PROVE  LET b == armed["out"][k].buffer IN ~length[b] /\ ~(b = index /\ cursor = 1)
    BY DEF ControllerKeepsOff
  <2>1. armed["out"][k].buffer \in Buffers /\ out[armed["out"][k].buffer] # NONE
    BY <1>1, <1>2, <1>3
  <2> QED BY <2>1 DEF ReceivesAreKnown
<1>5. RingsHaveRoom
  BY <1>3 DEF RingsHaveRoom, Room, Tracked
<1>6. TransfersAreTerminated
  <2> SUFFICES ASSUME open, armed["in"] # <<>> PROVE ~Head(armed["in"]).data
    BY DEF TransfersAreTerminated
  <2>1. 1 \in DOMAIN armed["in"] /\ Head(armed["in"]) = armed["in"][1]
    BY TypesNow, TailOf
  <2> QED BY <2>1 DEF SendsAreKnown, Off
<1> QED BY <1>4, <1>5, <1>6 DEF ChannelInvariant

(***************************************************************************)
(* For every number of slots, transfers and events, as long as no poll     *)
(* leaves a completion of a transfer that was given up: the controller     *)
(* keeps off a buffer that is being read, a descriptor can be queued when  *)
(* one is due, and a transfer of full packets is terminated                *)
(* (ChannelInvariant).                                                     *)
(***************************************************************************)
THEOREM BuffersAndRingsAgree == XudcSpec /\ []StaleAreTaken => []ChannelInvariant
<1>1. ChannelCore /\ StaleAreTaken /\ [XudcNext]_vars => ChannelCore'
  BY ChannelStep
<1> QED BY <1>1, ChannelStart, CoreSuffices, PTL DEF XudcSpec
=============================================================================
