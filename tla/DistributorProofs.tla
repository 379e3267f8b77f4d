------------------------- MODULE DistributorProofs --------------------------
(***************************************************************************)
(* Proofs about the guest-visible interrupt controllers, for every set of  *)
(* interrupts, every layout of the register words and every choice of the  *)
(* interrupts that EL2 owns, and about the publication of their settings,  *)
(* for every set of CPUs and of priorities.                                *)
(***************************************************************************)
EXTENDS Distributor, Publication, SequenceTheorems, TLAPS

-----------------------------------------------------------------------------
(***************************************************************************)
(* Operators.                                                              *)
(***************************************************************************)
\* An access reaches interrupts that exist.
LEMMA ReachesIds ==
    ASSUME NEW word, NEW ids \in Reachable(word)
    PROVE  ids \subseteq Ids
BY DEF Reachable, Words

LEMMA ReachesSources ==
    ASSUME NEW word \in SourceWords
    PROVE  word \subseteq Sources
BY DEF SourceWords

\* The five bits that the virtual interface implements.
LEMMA FiveBitsType ==
    ASSUME NEW v \in Bytes
    PROVE  FiveBits(v) \in {b \in Bytes : b % 8 = 0}
<1>1. v \in Int /\ v - (v % 8) \in Bytes
  BY DistributorAssumption
<1>2. (v - (v % 8)) % 8 = 0
  BY <1>1
<1> QED BY <1>1, <1>2 DEF FiveBits

-----------------------------------------------------------------------------
(***************************************************************************)
(* Type correctness.                                                       *)
(***************************************************************************)
LEMMA InitType == DistributorInit => DistributorTypeOK
<1> SUFFICES ASSUME DistributorInit PROVE DistributorTypeOK
  OBVIOUS
<1>1. Protected \subseteq Ids /\ Owned \subseteq Sources
  BY DistributorAssumption DEF Protected, Sources
<1>2. bits \in [WriteOneRegisters -> SUBSET Ids]
  BY <1>1 DEF DistributorInit
<1>3. lic \in [{"ier", "fir", "class"} -> SUBSET Sources]
  BY <1>1 DEF DistributorInit
<1>4. priorities \in [Ids -> Bytes] /\ attributes \in [Ids -> Attributes]
  BY DistributorAssumption DEF DistributorInit
<1>5. DEFAULT_OWNED_PRIORITY \in {b \in Bytes : b % 8 = 0}
  BY DistributorAssumption DEF DEFAULT_OWNED_PRIORITY
<1>6. owned_interrupt_priority \in [Owned -> {b \in Bytes : b % 8 = 0}]
  BY <1>5 DEF DistributorInit
<1> QED BY <1>2, <1>3, <1>4, <1>6 DEF DistributorInit, DistributorTypeOK

\* What each access of the guest does to the registers that EL2 relies on.
Untouched ==
    /\ gicd'
    /\ \A r \in DOMAIN bits : (bits'[r] \cap Protected) = (bits[r] \cap Protected)
    /\ \A i \in Protected : /\ priorities'[i] = priorities[i]
                            /\ attributes'[i] = attributes[i]
    /\ \A r \in DOMAIN lic : (lic'[r] \cap Owned) = (lic[r] \cap Owned)

LEMMA WriteOneStep ==
    ASSUME DistributorTypeOK, gicd, NEW r \in WriteOneRegisters, NEW on \in BOOLEAN,
           NEW ones \in SUBSET Ids, WriteOne(r, on, ones)
    PROVE  DistributorTypeOK' /\ Untouched
<1>1. /\ bits' = [bits EXCEPT ![r] = Written(bits[r], on, ones \ Protected)]
      /\ UNCHANGED <<gicd, priorities, attributes, lic, guest_control, owned_interrupt_priority,
                     guest_enabled>>
  BY DEF WriteOne
<1>2. bits[r] \subseteq Ids
  BY DEF DistributorTypeOK
<1>3. /\ Written(bits[r], on, ones \ Protected) \subseteq Ids
      /\ Written(bits[r], on, ones \ Protected) \cap Protected = bits[r] \cap Protected
  BY <1>2 DEF Written
<1>4. bits' \in [WriteOneRegisters -> SUBSET Ids]
  BY <1>1, <1>3 DEF DistributorTypeOK
<1>5. owned_interrupt_enabled' \subseteq Owned
  BY DEF WriteOne, Written, DistributorTypeOK
<1>6. DistributorTypeOK'
  BY <1>1, <1>4, <1>5 DEF DistributorTypeOK
<1>7. \A q \in DOMAIN bits : bits'[q] \cap Protected = bits[q] \cap Protected
  BY <1>1, <1>3 DEF DistributorTypeOK
<1> QED BY <1>1, <1>6, <1>7 DEF Untouched

LEMMA WriteFieldStep ==
    ASSUME DistributorTypeOK, gicd, NEW covered \in SUBSET Ids,
           \/ \E values \in [covered -> Bytes] : WritePriority(values)
           \/ \E values \in [covered -> Attributes] : WriteAttribute(values)
    PROVE  DistributorTypeOK' /\ Untouched
<1>1. Protected \subseteq Ids
  BY DistributorAssumption DEF Protected
<1>2. ASSUME NEW values \in [covered -> Bytes], WritePriority(values)
      PROVE  DistributorTypeOK' /\ Untouched
  <2>1. /\ priorities' \in [Ids -> Bytes]
        /\ \A i \in Protected : priorities'[i] = priorities[i]
    <3>1. /\ Merge(priorities, values) \in [Ids -> Bytes]
          /\ \A i \in Ids : Merge(priorities, values)[i]
                              = IF i \in covered \ Protected THEN values[i] ELSE priorities[i]
      <4>1. priorities \in [Ids -> Bytes]
        BY DEF DistributorTypeOK
      <4> QED BY <4>1 DEF Merge
    <3> QED BY <1>1, <1>2, <3>1 DEF WritePriority
  <2>2. owned_interrupt_priority' \in [Owned -> {b \in Bytes : b % 8 = 0}]
    <3> DEFINE Top == {b \in Bytes : b % 8 = 0}
    <3>1. \A i \in covered : FiveBits(values[i]) \in Top
      BY FiveBitsType
    <3>2. owned_interrupt_priority \in [Owned -> Top]
      BY DEF DistributorTypeOK
    <3> HIDE DEF Top
    <3>3. owned_interrupt_priority' \in [Owned -> Top]
      BY <1>2, <3>1, <3>2 DEF WritePriority
    <3> QED BY <3>3 DEF Top
  <2>3. UNCHANGED <<gicd, bits, attributes, lic, guest_control, owned_interrupt_enabled,
                    guest_enabled>>
    BY <1>2 DEF WritePriority
  <2> QED BY <2>1, <2>2, <2>3 DEF DistributorTypeOK, Untouched
<1>3. ASSUME NEW values \in [covered -> Attributes], WriteAttribute(values)
      PROVE  DistributorTypeOK' /\ Untouched
  <2>1. /\ attributes' \in [Ids -> Attributes]
        /\ \A i \in Protected : attributes'[i] = attributes[i]
    <3>1. /\ Merge(attributes, values) \in [Ids -> Attributes]
          /\ \A i \in Ids : Merge(attributes, values)[i]
                              = IF i \in covered \ Protected THEN values[i] ELSE attributes[i]
      <4>1. attributes \in [Ids -> Attributes]
        BY DEF DistributorTypeOK
      <4> QED BY <4>1 DEF Merge
    <3> QED BY <1>1, <1>3, <3>1 DEF WriteAttribute
  <2>2. UNCHANGED <<gicd, bits, priorities, lic, shadowVars>>
    BY <1>3 DEF WriteAttribute
  <2> QED BY <2>1, <2>2 DEF DistributorTypeOK, Untouched, shadowVars
<1> QED BY <1>2, <1>3

LEMMA WriteLicStep ==
    ASSUME DistributorTypeOK, gicd, NEW word \in SourceWords, NEW ones \in SUBSET word,
           \/ \E on \in BOOLEAN : WriteLicEnable(on, ones) \/ WriteLicForce(on, ones)
           \/ WriteLicClass(word, ones)
    PROVE  DistributorTypeOK' /\ Untouched
<1> DEFINE Kept(r, new) == /\ lic' = [lic EXCEPT ![r] = new]
                           /\ new \subseteq Sources
                           /\ new \cap Owned = lic[r] \cap Owned
<1>1. \A r \in {"ier", "fir", "class"} : lic[r] \subseteq Sources
  BY DEF DistributorTypeOK
<1>2. ones \subseteq Sources /\ word \subseteq Sources
  BY ReachesSources
<1>3. \E r \in {"ier", "fir", "class"}, new \in SUBSET Sources : Kept(r, new)
  <2>1. ASSUME NEW on \in BOOLEAN, WriteLicEnable(on, ones)
        PROVE  Kept("ier", Written(lic["ier"], on, ones \ Owned))
    BY <1>1, <1>2, <2>1 DEF WriteLicEnable, Written
  <2>2. ASSUME NEW on \in BOOLEAN, WriteLicForce(on, ones)
        PROVE  Kept("fir", Written(lic["fir"], on, ones \ Owned))
    BY <1>1, <1>2, <2>2 DEF WriteLicForce, Written
  <2>3. ASSUME WriteLicClass(word, ones)
        PROVE  Kept("class", (lic["class"] \ (word \ Owned)) \cup (ones \ Owned))
    BY <1>1, <1>2, <2>3 DEF WriteLicClass
  <2> QED BY <2>1, <2>2, <2>3
<1>4. PICK r \in {"ier", "fir", "class"}, new \in SUBSET Sources : Kept(r, new)
  BY <1>3
<1>5. /\ lic' \in [{"ier", "fir", "class"} -> SUBSET Sources]
      /\ \A q \in DOMAIN lic : lic'[q] \cap Owned = lic[q] \cap Owned
  BY <1>4 DEF DistributorTypeOK
<1>6. guest_enabled' \subseteq Owned
  BY DEF DistributorTypeOK, WriteLicEnable, WriteLicForce, WriteLicClass, Written, shadowVars
<1>7. UNCHANGED <<gicd, bits, priorities, attributes, guest_control, owned_interrupt_enabled,
                  owned_interrupt_priority>>
  BY DEF WriteLicEnable, WriteLicForce, WriteLicClass, shadowVars
<1> QED BY <1>5, <1>6, <1>7 DEF DistributorTypeOK, Untouched

\* Whatever the guest writes, EL2's interrupts are untouched.
LEMMA AccessStep ==
    ASSUME DistributorTypeOK, gicd, Access
    PROVE  DistributorTypeOK' /\ Untouched
<1>1. ASSUME NEW on \in BOOLEAN, WriteControl(on)
      PROVE  DistributorTypeOK' /\ Untouched
  BY <1>1 DEF WriteControl, DistributorTypeOK, Untouched
<1>2. ASSUME NEW r \in WriteOneRegisters, NEW on \in BOOLEAN, NEW ones \in Reachable(BitWord),
             WriteOne(r, on, ones)
      PROVE  DistributorTypeOK' /\ Untouched
  BY <1>2, ReachesIds, WriteOneStep
<1>3. ASSUME NEW covered \in Reachable(ByteWord),
             \/ \E values \in [covered -> Bytes] : WritePriority(values)
             \/ \E values \in [covered -> Attributes] : WriteAttribute(values)
      PROVE  DistributorTypeOK' /\ Untouched
  BY <1>3, ReachesIds, WriteFieldStep
<1>4. ASSUME NEW word \in SourceWords, NEW ones \in SUBSET word,
             \/ \E on \in BOOLEAN : WriteLicEnable(on, ones) \/ WriteLicForce(on, ones)
             \/ WriteLicClass(word, ones)
      PROVE  DistributorTypeOK' /\ Untouched
  BY <1>4, WriteLicStep
<1> QED BY <1>1, <1>2, <1>3, <1>4 DEF Access

LEMMA HardwareStep ==
    ASSUME DistributorTypeOK, NEW i \in Ids, Hardware(i)
    PROVE  DistributorTypeOK' /\ gicd' = gicd
<1>1. bits' \in [WriteOneRegisters -> SUBSET Ids]
  <2> DEFINE new == IF i \in bits["state"] THEN bits["state"] \ {i} ELSE bits["state"] \cup {i}
  <2>1. bits \in [WriteOneRegisters -> SUBSET Ids] /\ "state" \in WriteOneRegisters
    BY DEF DistributorTypeOK, WriteOneRegisters
  <2>2. new \in SUBSET Ids
    BY <2>1
  <2>3. bits' = [bits EXCEPT !["state"] = new]
    BY DEF Hardware
  <2> HIDE DEF new
  <2> QED BY <2>1, <2>2, <2>3
<1> QED BY <1>1 DEF Hardware, DistributorTypeOK, shadowVars

\* Registers keep values that they can have, and GICD_CTLR stays on.
LEMMA DistributorStep ==
    ASSUME DistributorTypeOK, gicd, [DistributorNext]_vars
    PROVE  DistributorTypeOK' /\ gicd'
<1>1. CASE Access
  BY <1>1, AccessStep DEF Untouched
<1>2. CASE \E i \in Ids : Hardware(i)
  BY <1>2, HardwareStep
<1>3. CASE UNCHANGED vars
  BY <1>3 DEF vars, hardwareVars, shadowVars, DistributorTypeOK
<1> QED BY <1>1, <1>2, <1>3 DEF DistributorNext

(***************************************************************************)
(* No access of the guest changes the physical state of an interrupt that  *)
(* EL2 needs (Distributor::write masks protected ids, Lic::write_word      *)
(* owned ones), and every register keeps a value that it can have.         *)
(***************************************************************************)
THEOREM ProtectedStayUntouched == DistributorSpec => ProtectedAreUntouched
<1> DEFINE Inv == DistributorTypeOK /\ gicd
<1>1. DistributorInit => Inv
  BY InitType DEF DistributorInit
<1>2. Inv /\ [DistributorNext]_vars => Inv'
  BY DistributorStep
<1>3. Inv /\ [DistributorNext]_vars =>
        [ /\ DistributorTypeOK'
          /\ Access =>
               /\ gicd'
               /\ \A r \in DOMAIN bits : (bits'[r] \cap Protected) = (bits[r] \cap Protected)
               /\ \A i \in Protected : /\ priorities'[i] = priorities[i]
                                       /\ attributes'[i] = attributes[i]
               /\ \A r \in DOMAIN lic : (lic'[r] \cap Owned) = (lic[r] \cap Owned) ]_vars
  BY DistributorStep, AccessStep DEF Untouched
<1> QED BY <1>1, <1>2, <1>3, PTL DEF DistributorSpec, ProtectedAreUntouched

-----------------------------------------------------------------------------
(***************************************************************************)
(* What the guest reads.                                                   *)
(***************************************************************************)
\* GICD_CTLR.
LEMMA ControlIsPlain ==
    ASSUME NEW on, WriteControl(on)
    PROVE  Guest!WriteControl(on)
BY DEF WriteControl, Guest!WriteControl, guest_word_enable, guest_word_priority, read_word_ier

\* The enable bits: physical ones and the shadow together.
LEMMA EnableIsPlain ==
    ASSUME DistributorTypeOK, NEW on \in BOOLEAN, NEW ones \in SUBSET Ids,
           WriteOne("enable", on, ones)
    PROVE  Guest!WriteEnable(on, ones)
<1>1. /\ bits'["enable"] = Written(bits["enable"], on, ones \ Protected)
      /\ owned_interrupt_enabled' = Written(owned_interrupt_enabled, on, ones \cap Owned)
      /\ UNCHANGED <<guest_control, priorities, lic, owned_interrupt_priority, guest_enabled>>
  BY DEF WriteOne, DistributorTypeOK, WriteOneRegisters
<1>2. owned_interrupt_enabled \subseteq Owned /\ MAINTENANCE \notin Owned
  BY DistributorAssumption DEF DistributorTypeOK
<1>3. guest_word_enable' = IF on THEN guest_word_enable \cup (ones \ {MAINTENANCE})
                                 ELSE guest_word_enable \ ones
  <2>1. CASE on
    BY <1>1, <1>2, <2>1 DEF guest_word_enable, Written, Protected
  <2>2. CASE ~on
    BY <1>1, <1>2, <2>2 DEF guest_word_enable, Written, Protected
  <2> QED BY <2>1, <2>2
<1>4. UNCHANGED <<guest_control, guest_word_priority, read_word_ier>>
  BY <1>1 DEF guest_word_priority, read_word_ier
<1> QED BY <1>3, <1>4 DEF Guest!WriteEnable

\* Pending and active bits are not shadowed.
LEMMA StateIsHidden ==
    ASSUME DistributorTypeOK, NEW on, NEW ones, WriteOne("state", on, ones)
    PROVE  UNCHANGED Guest!vars
<1>1. bits'["enable"] = bits["enable"] /\ owned_interrupt_enabled' = owned_interrupt_enabled
  BY DEF WriteOne, DistributorTypeOK, WriteOneRegisters
<1> QED BY <1>1 DEF WriteOne, Guest!vars, guest_word_enable, guest_word_priority, read_word_ier

\* The priority bytes: a write of any width names its own ids only.
LEMMA PriorityIsPlain ==
    ASSUME DistributorTypeOK, NEW covered \in SUBSET Ids, NEW values \in [covered -> Bytes],
           WritePriority(values)
    PROVE  Guest!WritePriority(values)
<1> DEFINE unit == [i \in covered |-> IF i \in Owned THEN 8 ELSE 1]
<1>1. DOMAIN values = covered /\ unit \in [DOMAIN values -> {1, 8}]
  OBVIOUS
<1>2. ASSUME NEW i \in Ids
      PROVE  guest_word_priority'[i] = IF i \in covered \ {MAINTENANCE}
                                       THEN values[i] - (values[i] % unit[i])
                                       ELSE guest_word_priority[i]
  <2>1. CASE i \in Owned
    <3>1. /\ guest_word_priority'[i] = owned_interrupt_priority'[i]
          /\ guest_word_priority[i] = owned_interrupt_priority[i]
          /\ i # MAINTENANCE
      BY <2>1, DistributorAssumption DEF guest_word_priority
    <3>2. owned_interrupt_priority'[i] = IF i \in covered THEN values[i] - (values[i] % 8)
                                         ELSE owned_interrupt_priority[i]
      BY <2>1, <1>1 DEF WritePriority, FiveBits
    <3> QED BY <2>1, <3>1, <3>2
  <2>2. CASE i \notin Owned
    <3>1. /\ guest_word_priority'[i] = priorities'[i]
          /\ guest_word_priority[i] = priorities[i]
      BY <2>2 DEF guest_word_priority
    <3>2. priorities'[i] = IF i \in covered \ {MAINTENANCE} THEN values[i] ELSE priorities[i]
      BY <2>2, <1>1 DEF WritePriority, Merge, Protected
    <3>3. i \in covered => values[i] - (values[i] % 1) = values[i]
      <4>1. \A b \in Bytes : b \in Int
        BY DistributorAssumption
      <4>2. \A b \in Int : b - (b % 1) = b
        OBVIOUS
      <4>3. i \in covered => values[i] \in Bytes
        OBVIOUS
      <4> HIDE DEF unit
      <4> QED BY <4>1, <4>2, <4>3
    <3>4. i \in covered => unit[i] = 1
      BY <2>2
    <3> HIDE DEF unit
    <3> QED BY <3>1, <3>2, <3>3, <3>4
  <2> QED BY <2>1, <2>2
<1>3. guest_word_priority' = [i \in Ids |-> IF i \in DOMAIN values \ {MAINTENANCE}
                                            THEN values[i] - (values[i] % unit[i])
                                            ELSE guest_word_priority[i]]
  <2> HIDE DEF unit
  <2>1. guest_word_priority' = [i \in Ids |-> guest_word_priority'[i]]
    BY DEF guest_word_priority
  <2> QED BY <1>1, <1>2, <2>1
<1>4. UNCHANGED <<guest_control, guest_word_enable, read_word_ier>>
  BY DEF WritePriority, guest_word_enable, read_word_ier
<1> HIDE DEF unit
<1> QED BY <1>1, <1>3, <1>4 DEF Guest!WritePriority

\* CPU_IER of the legacy controller.
LEMMA IerIsPlain ==
    ASSUME DistributorTypeOK, NEW on \in BOOLEAN, NEW ones, WriteLicEnable(on, ones)
    PROVE  Guest!WriteIer(on, ones)
<1>1. /\ lic'["ier"] = Written(lic["ier"], on, ones \ Owned)
      /\ guest_enabled' = Written(guest_enabled, on, ones \cap Owned)
      /\ UNCHANGED <<guest_control, bits, priorities, owned_interrupt_enabled,
                     owned_interrupt_priority>>
  BY DEF WriteLicEnable, DistributorTypeOK
<1>2. guest_enabled \subseteq Owned
  BY DEF DistributorTypeOK
<1>3. read_word_ier' = IF on THEN read_word_ier \cup ones ELSE read_word_ier \ ones
  <2>1. CASE on
    BY <1>1, <1>2, <2>1 DEF read_word_ier, Written
  <2>2. CASE ~on
    BY <1>1, <1>2, <2>2 DEF read_word_ier, Written
  <2> QED BY <2>1, <2>2
<1>4. UNCHANGED <<guest_control, guest_word_enable, guest_word_priority>>
  BY <1>1 DEF guest_word_enable, guest_word_priority
<1> QED BY <1>3, <1>4 DEF Guest!WriteIer

(***************************************************************************)
(* Hardware and shadow together behave as a controller of the guest's own  *)
(* (guest_word and read_word after Distributor::write, Lic::write_word).   *)
(***************************************************************************)
THEOREM GuestAlwaysSeesPlainRegisters == DistributorSpec => GuestSeesPlainRegisters
<1> DEFINE Inv == DistributorTypeOK /\ gicd
<1>1. DistributorInit => Inv
  BY InitType DEF DistributorInit
<1>2. Inv /\ [DistributorNext]_vars => Inv'
  BY DistributorStep
<1>3. Inv /\ [DistributorNext]_vars =>
        [ /\ \A on \in BOOLEAN : WriteControl(on) => Guest!WriteControl(on)
          /\ \A on \in BOOLEAN, ones \in Reachable(BitWord) :
               /\ WriteOne("enable", on, ones) => Guest!WriteEnable(on, ones)
               /\ WriteOne("state", on, ones) => UNCHANGED Guest!vars
          /\ \A covered \in Reachable(ByteWord) : \A values \in [covered -> Bytes] :
               WritePriority(values) => Guest!WritePriority(values)
          /\ \A on \in BOOLEAN, ones \in UNION {SUBSET word : word \in SourceWords} :
               WriteLicEnable(on, ones) => Guest!WriteIer(on, ones) ]_vars
  <2> SUFFICES ASSUME DistributorTypeOK
               PROVE  /\ \A on \in BOOLEAN : WriteControl(on) => Guest!WriteControl(on)
                      /\ \A on \in BOOLEAN, ones \in Reachable(BitWord) :
                           /\ WriteOne("enable", on, ones) => Guest!WriteEnable(on, ones)
                           /\ WriteOne("state", on, ones) => UNCHANGED Guest!vars
                      /\ \A covered \in Reachable(ByteWord) : \A values \in [covered -> Bytes] :
                           WritePriority(values) => Guest!WritePriority(values)
                      /\ \A on \in BOOLEAN, ones \in UNION {SUBSET word : word \in SourceWords} :
                           WriteLicEnable(on, ones) => Guest!WriteIer(on, ones)
    OBVIOUS
  <2>1. \A on \in BOOLEAN : WriteControl(on) => Guest!WriteControl(on)
    BY ControlIsPlain
  <2>2. \A on \in BOOLEAN, ones \in Reachable(BitWord) :
          /\ WriteOne("enable", on, ones) => Guest!WriteEnable(on, ones)
          /\ WriteOne("state", on, ones) => UNCHANGED Guest!vars
    BY ReachesIds, EnableIsPlain, StateIsHidden
  <2>3. \A covered \in Reachable(ByteWord) : \A values \in [covered -> Bytes] :
          WritePriority(values) => Guest!WritePriority(values)
    BY ReachesIds, PriorityIsPlain
  <2>4. \A on \in BOOLEAN, ones \in UNION {SUBSET word : word \in SourceWords} :
          WriteLicEnable(on, ones) => Guest!WriteIer(on, ones)
    BY IerIsPlain
  <2> QED BY <2>1, <2>2, <2>3, <2>4
<1> QED BY <1>1, <1>2, <1>3, PTL DEF DistributorSpec, GuestSeesPlainRegisters

-----------------------------------------------------------------------------
(***************************************************************************)
(* Programs.                                                               *)
(***************************************************************************)
Records == [op : Operations, id : {USB, NETWORK}]

Kinds(s) == {s[k].op : k \in DOMAIN s}

\* Programs that deliver nothing.
Plain(s) ==
    /\ s \in Seq(Records)
    /\ Kinds(s) \cap Delivery = {}
    /\ \A j, k \in DOMAIN s : s[j].op = "store_enable" /\ s[k].op = "store_priority" => k < j

\* The elements of a concatenation.
LEMMA ConcatElements ==
    ASSUME NEW R, NEW s \in Seq(R), NEW t \in Seq(R)
    PROVE  /\ s \o t \in Seq(R) /\ Len(s \o t) = Len(s) + Len(t)
           /\ DOMAIN (s \o t) = 1 .. Len(s) + Len(t)
           /\ DOMAIN s = 1 .. Len(s) /\ DOMAIN t = 1 .. Len(t) /\ Len(s) \in Nat /\ Len(t) \in Nat
           /\ \A k \in DOMAIN s : k \in DOMAIN (s \o t) /\ (s \o t)[k] = s[k]
           /\ \A k \in DOMAIN t : Len(s) + k \in DOMAIN (s \o t) /\ (s \o t)[Len(s) + k] = t[k]
           /\ \A k \in DOMAIN (s \o t) :
                \/ k \in DOMAIN s /\ (s \o t)[k] = s[k]
                \/ k - Len(s) \in DOMAIN t /\ (s \o t)[k] = t[k - Len(s)] /\ k > Len(s)
<1>1. /\ s \o t \in Seq(R) /\ Len(s \o t) = Len(s) + Len(t)
      /\ \A k \in 1 .. Len(s) + Len(t) :
           (s \o t)[k] = IF k <= Len(s) THEN s[k] ELSE t[k - Len(s)]
  BY ConcatProperties, Zenon
<1>2. Len(s) \in Nat /\ Len(t) \in Nat /\ DOMAIN s = 1 .. Len(s) /\ DOMAIN t = 1 .. Len(t)
  BY LenProperties
<1>3. DOMAIN (s \o t) = 1 .. Len(s) + Len(t)
  BY <1>1
<1>4. \A k \in 1 .. Len(s) : k \in DOMAIN (s \o t) /\ (s \o t)[k] = s[k]
  BY <1>1, <1>2, <1>3
<1>5. \A k \in 1 .. Len(t) : Len(s) + k \in DOMAIN (s \o t) /\ (s \o t)[Len(s) + k] = t[k]
  <2> TAKE k \in 1 .. Len(t)
  <2>1. Len(s) + k \in 1 .. Len(s) + Len(t) /\ ~(Len(s) + k <= Len(s)) /\ Len(s) + k - Len(s) = k
    BY <1>2
  <2> QED BY <1>1, <1>3, <2>1
<1>6. \A k \in DOMAIN (s \o t) :
        \/ k \in DOMAIN s /\ (s \o t)[k] = s[k]
        \/ k - Len(s) \in DOMAIN t /\ (s \o t)[k] = t[k - Len(s)] /\ k > Len(s)
  <2> TAKE k \in DOMAIN (s \o t)
  <2>1. k \in 1 .. Len(s) + Len(t)
    BY <1>3
  <2>2. CASE k <= Len(s)
    BY <1>2, <1>4, <2>1, <2>2
  <2>3. CASE k > Len(s)
    <3>1. k - Len(s) \in 1 .. Len(t) /\ Len(s) + (k - Len(s)) = k
      BY <1>2, <2>1, <2>3
    <3> QED BY <1>2, <1>5, <2>3, <3>1
  <2> QED BY <1>2, <2>1, <2>2, <2>3
<1> QED BY <1>1, <1>2, <1>3, <1>4, <1>5, <1>6

LEMMA PlainConcat ==
    ASSUME NEW s, NEW t, Plain(s), Plain(t),
           "store_priority" \notin Kinds(t) \/ "store_enable" \notin Kinds(s)
    PROVE  /\ Plain(s \o t)
           /\ Kinds(s \o t) = Kinds(s) \cup Kinds(t)
           /\ \A op, i : Due(s, op, i) \/ Due(t, op, i) => Due(s \o t, op, i)
<1>1. s \in Seq(Records) /\ t \in Seq(Records)
  BY DEF Plain
<1> DEFINE u == s \o t
<1> HIDE DEF u, Records
<1>2. /\ u \in Seq(Records) /\ DOMAIN u = 1 .. Len(s) + Len(t)
      /\ DOMAIN s = 1 .. Len(s) /\ DOMAIN t = 1 .. Len(t) /\ Len(s) \in Nat /\ Len(t) \in Nat
  BY <1>1, ConcatElements DEF u
<1>3. \A k \in DOMAIN u : \/ k \in DOMAIN s /\ u[k] = s[k]
                          \/ k - Len(s) \in DOMAIN t /\ u[k] = t[k - Len(s)] /\ k > Len(s)
  BY <1>1, ConcatElements DEF u
<1>4. \A k \in DOMAIN s : k \in DOMAIN u /\ u[k] = s[k]
  BY <1>1, ConcatElements DEF u
<1>5. \A k \in DOMAIN t : Len(s) + k \in DOMAIN u /\ u[Len(s) + k] = t[k]
  BY <1>1, ConcatElements DEF u
<1>6. Kinds(u) = Kinds(s) \cup Kinds(t)
  BY <1>3, <1>4, <1>5 DEF Kinds
<1>7. ASSUME NEW op, NEW i, Due(s, op, i) \/ Due(t, op, i)
      PROVE  Due(u, op, i)
  BY <1>4, <1>5, <1>7 DEF Due
<1>8. ASSUME NEW j \in DOMAIN u, NEW k \in DOMAIN u,
             u[j].op = "store_enable", u[k].op = "store_priority"
      PROVE  k < j
  <2>1. /\ j \in DOMAIN s \/ (j - Len(s) \in DOMAIN t /\ j > Len(s))
        /\ k \in DOMAIN s \/ (k - Len(s) \in DOMAIN t /\ k > Len(s))
    BY <1>3
  <2>2. CASE j \in DOMAIN s /\ k \in DOMAIN s
    BY <1>4, <1>8, <2>2 DEF Plain
  <2>3. CASE j - Len(s) \in DOMAIN t /\ j > Len(s) /\ k \in DOMAIN s
    BY <1>2, <2>3 DEF u
  <2>4. CASE j \in DOMAIN s /\ k - Len(s) \in DOMAIN t /\ k > Len(s)
    <3>1. s[j].op = "store_enable" /\ t[k - Len(s)].op = "store_priority"
      <4>1. k \notin DOMAIN s
        BY <1>2, <2>4
      <4> QED BY <1>3, <1>4, <1>8, <2>4, <4>1
    <3> QED BY <2>4, <3>1 DEF Kinds
  <2>5. CASE j - Len(s) \in DOMAIN t /\ j > Len(s) /\ k - Len(s) \in DOMAIN t /\ k > Len(s)
    <3>1. j \notin DOMAIN s /\ k \notin DOMAIN s
      BY <1>2, <2>5
    <3>2. t[j - Len(s)].op = "store_enable" /\ t[k - Len(s)].op = "store_priority"
      BY <1>3, <1>8, <3>1
    <3>3. k - Len(s) < j - Len(s)
      BY <2>5, <3>2 DEF Plain
    <3>4. j \in Int /\ k \in Int
      BY <1>2 DEF u
    <3> QED BY <1>2, <3>3, <3>4
  <2> QED BY <2>1, <2>2, <2>3, <2>4, <2>5
<1>9. Plain(u)
  BY <1>2, <1>6, <1>8 DEF Plain, u
<1> QED BY <1>6, <1>7, <1>9 DEF u

\* Operations on one interrupt.
LEMMA OfOne ==
    ASSUME NEW i \in {USB, NETWORK}, NEW x \in Operations \ Delivery
    PROVE  /\ Plain(Of(i, <<x>>)) /\ Kinds(Of(i, <<x>>)) \subseteq {x}
           /\ i \in Looked => Due(Of(i, <<x>>), x, i)
<1>1. CASE i \in Looked
  <2>1. Of(i, <<x>>) = <<Op(x, i)>>
    BY <1>1 DEF Of
  <2>2. Op(x, i) \in Records
    BY DEF Op, Records
  <2>3. \A k \in DOMAIN <<Op(x, i)>> : k = 1 /\ <<Op(x, i)>>[k] = Op(x, i)
    OBVIOUS
  <2>4. Due(<<Op(x, i)>>, x, i)
    BY DEF Due
  <2>5. Kinds(<<Op(x, i)>>) = {x}
    BY DEF Kinds, Op
  <2>6. Plain(<<Op(x, i)>>)
    BY <2>2, <2>3, <2>5 DEF Plain, Op, Delivery
  <2> QED BY <2>1, <2>4, <2>5, <2>6
<1>2. CASE i \notin Looked
  <2>1. Of(i, <<x>>) = <<>>
    BY <1>2 DEF Of
  <2>2. Plain(<<>>) /\ Kinds(<<>>) = {}
    BY DEF Plain, Kinds
  <2> QED BY <1>2, <2>1, <2>2
<1> QED BY <1>1, <1>2

LEMMA OfTwo ==
    ASSUME NEW i \in {USB, NETWORK},
           NEW x \in {"load_enable", "load_source", "load_line", "load_control", "pend"},
           NEW y \in {"load_enable", "load_source", "load_line", "load_control", "pend"}
    PROVE  Plain(Of(i, <<x, y>>)) /\ Kinds(Of(i, <<x, y>>)) \subseteq {x, y}
<1>1. CASE i \in Looked
  <2>1. Of(i, <<x, y>>) = <<Op(x, i), Op(y, i)>>
    BY <1>1 DEF Of
  <2>2. Op(x, i) \in Records /\ Op(y, i) \in Records
    BY DEF Op, Records, Operations
  <2>3. Kinds(<<Op(x, i), Op(y, i)>>) = {x, y}
    BY DEF Kinds, Op
  <2>4. Plain(<<Op(x, i), Op(y, i)>>)
    <3>1. <<Op(x, i), Op(y, i)>> \in Seq(Records)
      BY <2>2
    <3>2. \A k \in DOMAIN <<Op(x, i), Op(y, i)>> : <<Op(x, i), Op(y, i)>>[k].op # "store_enable"
      BY DEF Op
    <3> QED BY <2>3, <3>1, <3>2 DEF Plain, Delivery
  <2> QED BY <2>1, <2>3, <2>4
<1>2. CASE i \notin Looked
  <2>1. Of(i, <<x, y>>) = <<>>
    BY <1>2 DEF Of
  <2>2. Plain(<<>>) /\ Kinds(<<>>) = {}
    BY DEF Plain, Kinds
  <2> QED BY <1>2, <2>1, <2>2
<1> QED BY <1>1, <1>2

\* The guest's traps, the notifications and the vector's recheck.
Reads == {"set_distributor_enabled", "load_enable", "load_source", "load_line", "load_control",
          "pend"}

LEMMA EnabledProgram ==
    ASSUME NEW i \in {USB, NETWORK}
    PROVE  Plain(interrupt_enabled(i)) /\ Kinds(interrupt_enabled(i)) \subseteq Reads
  BY OfTwo DEF interrupt_enabled, Reads

LEMMA ReadsConcat ==
    ASSUME NEW s, NEW t, Plain(s), Plain(t), Kinds(s) \subseteq Reads, Kinds(t) \subseteq Reads
    PROVE  Plain(s \o t) /\ Kinds(s \o t) \subseteq Reads
<1>1. "store_priority" \notin Kinds(t)
  BY DEF Reads
<1> QED BY <1>1, PlainConcat

\* What every trap and the vector start with.
LEMMA GicProgram ==
    Plain(set_distributor_enabled) /\ Kinds(set_distributor_enabled) \subseteq Reads
<1> DEFINE x == Op("set_distributor_enabled", NETWORK)
<1>1. x \in Records /\ x.op = "set_distributor_enabled"
  BY DEF Op, Records, Operations
<1>2. set_distributor_enabled = <<x>>
  BY DEF set_distributor_enabled
<1> HIDE DEF x
<1>3. /\ set_distributor_enabled \in Seq(Records)
      /\ \A k \in DOMAIN set_distributor_enabled :
           set_distributor_enabled[k].op = "set_distributor_enabled"
  BY <1>1, <1>2
<1>4. Kinds(set_distributor_enabled) \subseteq {"set_distributor_enabled"}
  BY <1>3 DEF Kinds
<1> QED BY <1>3, <1>4 DEF Plain, Reads, Delivery

LEMMA ReadPrograms ==
    /\ Plain(synchronize_distributor) /\ Kinds(synchronize_distributor) \subseteq Reads
    /\ \A i \in Looked : Plain(Notify(i)) /\ Kinds(Notify(i)) \subseteq Reads
    /\ \A i \in Looked : Plain(RecheckedBy(i)) /\ Kinds(RecheckedBy(i)) \subseteq Reads
<1>1. ASSUME NEW i \in {USB, NETWORK}
      PROVE  /\ Plain(interrupt_enabled(i)) /\ Kinds(interrupt_enabled(i)) \subseteq Reads
             /\ Plain(Of(i, <<"load_line", "pend">>))
             /\ Kinds(Of(i, <<"load_line", "pend">>)) \subseteq Reads
             /\ Plain(Of(i, <<"load_control", "load_line">>))
             /\ Kinds(Of(i, <<"load_control", "load_line">>)) \subseteq Reads
  BY OfTwo, EnabledProgram DEF Reads
<1>2. ASSUME NEW i \in {USB, NETWORK}, NEW x \in Reads
      PROVE  Plain(Of(i, <<x>>)) /\ Kinds(Of(i, <<x>>)) \subseteq Reads
  <2>1. x \in Operations \ Delivery
    BY DEF Reads, Operations, Delivery
  <2> QED BY <2>1, OfOne
<1>0. Plain(set_distributor_enabled) /\ Kinds(set_distributor_enabled) \subseteq Reads
  BY GicProgram
<1>3. Plain(synchronize_distributor) /\ Kinds(synchronize_distributor) \subseteq Reads
  BY <1>0, <1>1, ReadsConcat DEF synchronize_distributor
<1>4. Plain(pend_network_interrupt) /\ Kinds(pend_network_interrupt) \subseteq Reads
  <2>1. "load_control" \in Reads /\ "pend" \in Reads
    BY DEF Reads
  <2> QED BY <1>1, <1>2, <2>1, ReadsConcat DEF pend_network_interrupt
<1>5. Plain(pend_console_interrupt) /\ Kinds(pend_console_interrupt) \subseteq Reads
  <2>1. "pend" \in Reads
    BY DEF Reads
  <2> QED BY <1>2, <2>1 DEF pend_console_interrupt
<1>6. Plain(Recheck) /\ Kinds(Recheck) \subseteq Reads
  <2>1. "pend" \in Reads
    BY DEF Reads
  <2> QED BY <1>1, <1>2, <2>1, ReadsConcat DEF Recheck
<1>7. Plain(<<>>) /\ Kinds(<<>>) \subseteq Reads
  BY DEF Plain, Kinds
<1> QED BY <1>3, <1>4, <1>5, <1>6, <1>7 DEF Notify, RecheckedBy

\* A write to the distributor stores every setting, a write to the LIC the
\* sources.
LEMMA DistributorProgram ==
    LET p == publish_distributor \o publish_control \o synchronize_distributor IN
    /\ Plain(p)
    /\ Kinds(p) \subseteq DISTRIBUTOR \cup Reads
    /\ Due(p, "store_control", NETWORK)
    /\ \A i \in Looked : Due(p, "store_priority", i) /\ Due(p, "store_enable", i)
<1> DEFINE a == Of(NETWORK, <<"store_priority">>)
           b == Of(USB, <<"store_priority">>)
           c == Of(NETWORK, <<"store_enable">>)
           d == Of(USB, <<"store_enable">>)
           e == publish_control
           f == synchronize_distributor
<1>1. /\ Plain(a) /\ Kinds(a) \subseteq {"store_priority"}
      /\ Plain(b) /\ Kinds(b) \subseteq {"store_priority"}
      /\ Plain(c) /\ Kinds(c) \subseteq {"store_enable"}
      /\ Plain(d) /\ Kinds(d) \subseteq {"store_enable"}
      /\ NETWORK \in Looked => Due(a, "store_priority", NETWORK) /\ Due(c, "store_enable", NETWORK)
      /\ USB \in Looked => Due(b, "store_priority", USB) /\ Due(d, "store_enable", USB)
  <2>1. {"store_priority", "store_enable"} \subseteq Operations \ Delivery
    BY DEF Operations, Delivery
  <2> QED BY <2>1, OfOne
<1>2. Plain(e) /\ Kinds(e) \subseteq {"store_control"} /\ Due(e, "store_control", NETWORK)
  <2>1. Op("store_control", NETWORK) \in Records /\ e = <<Op("store_control", NETWORK)>>
    BY DEF Op, Records, Operations, publish_control
  <2>2. e \in Seq(Records)
    BY <2>1
  <2>3. \A k \in DOMAIN e : e[k].op = "store_control"
    BY <2>1 DEF Op
  <2>4. Kinds(e) \subseteq {"store_control"}
    BY <2>3 DEF Kinds
  <2>5. Due(e, "store_control", NETWORK)
    BY <2>1 DEF Due
  <2> QED BY <2>2, <2>3, <2>4, <2>5 DEF Plain, Delivery
<1>3. Plain(f) /\ Kinds(f) \subseteq Reads
  BY ReadPrograms
<1> HIDE DEF a, b, c, d, e, f
<1>4. /\ Plain(a \o b) /\ Kinds(a \o b) \subseteq {"store_priority"}
      /\ \A op, i : Due(a, op, i) \/ Due(b, op, i) => Due(a \o b, op, i)
  <2>1. "store_enable" \notin Kinds(a)
    BY <1>1
  <2> QED BY <1>1, <2>1, PlainConcat
<1> DEFINE ab == a \o b
<1> HIDE DEF ab
<1>5. /\ Plain(ab \o c) /\ Kinds(ab \o c) \subseteq DISTRIBUTOR
      /\ \A op, i : Due(ab, op, i) \/ Due(c, op, i) => Due(ab \o c, op, i)
  <2>1. "store_priority" \notin Kinds(c)
    BY <1>1
  <2> QED BY <1>1, <1>4, <2>1, PlainConcat DEF ab, DISTRIBUTOR
<1> DEFINE abc == ab \o c
<1> HIDE DEF abc
<1>6. /\ Plain(abc \o d) /\ Kinds(abc \o d) \subseteq DISTRIBUTOR
      /\ \A op, i : Due(abc, op, i) \/ Due(d, op, i) => Due(abc \o d, op, i)
  <2>1. "store_priority" \notin Kinds(d)
    BY <1>1
  <2> QED BY <1>1, <1>5, <2>1, PlainConcat DEF abc, DISTRIBUTOR
<1> DEFINE abcd == abc \o d
<1> HIDE DEF abcd
<1>7. /\ Plain(abcd \o e) /\ Kinds(abcd \o e) \subseteq DISTRIBUTOR
      /\ \A op, i : Due(abcd, op, i) \/ Due(e, op, i) => Due(abcd \o e, op, i)
  <2>1. "store_priority" \notin Kinds(e)
    BY <1>2
  <2> QED BY <1>2, <1>6, <2>1, PlainConcat DEF abcd, DISTRIBUTOR
<1> DEFINE abcde == abcd \o e
<1> HIDE DEF abcde
<1>8. /\ Plain(abcde \o f) /\ Kinds(abcde \o f) \subseteq DISTRIBUTOR \cup Reads
      /\ \A op, i : Due(abcde, op, i) \/ Due(f, op, i) => Due(abcde \o f, op, i)
  <2>1. "store_priority" \notin Kinds(f)
    BY <1>3 DEF Reads
  <2> QED BY <1>3, <1>7, <2>1, PlainConcat DEF abcde
<1>9. abcde \o f = publish_distributor \o publish_control \o synchronize_distributor
  BY DEF a, b, c, d, e, f, ab, abc, abcd, abcde, publish_distributor
<1>10. Due(abcde \o f, "store_control", NETWORK)
  BY <1>2, <1>7, <1>8 DEF abcde
<1>11. ASSUME NEW i \in Looked
       PROVE  Due(abcde \o f, "store_priority", i) /\ Due(abcde \o f, "store_enable", i)
  <2>1. i \in {USB, NETWORK}
    BY PublicationAssumption
  <2>2. Due(ab, "store_priority", i)
    BY <1>1, <1>4, <1>11, <2>1 DEF ab
  <2>3. Due(abcd, "store_priority", i) /\ Due(abcd, "store_enable", i)
    BY <1>1, <1>5, <1>6, <1>11, <2>1, <2>2 DEF abc, abcd
  <2> QED BY <1>7, <1>8, <2>3 DEF abcde
<1> QED BY <1>8, <1>9, <1>10, <1>11

LEMMA LicProgram ==
    LET p == publish_lic \o synchronize_distributor IN
    /\ Plain(p) /\ Kinds(p) \subseteq LIC \cup Reads
    /\ \A i \in Looked : Due(p, "store_source", i)
<1> DEFINE a == Of(USB, <<"store_source">>)
           b == Of(NETWORK, <<"store_source">>)
           f == synchronize_distributor
<1>1. /\ Plain(a) /\ Plain(b) /\ Kinds(a) \subseteq {"store_source"} /\ Kinds(b) \subseteq {"store_source"}
      /\ USB \in Looked => Due(a, "store_source", USB)
      /\ NETWORK \in Looked => Due(b, "store_source", NETWORK)
  <2>1. "store_source" \in Operations \ Delivery
    BY DEF Operations, Delivery
  <2> QED BY <2>1, OfOne
<1>2. Plain(f) /\ Kinds(f) \subseteq Reads
  BY ReadPrograms
<1> HIDE DEF a, b, f
<1>3. /\ Plain(a \o b) /\ Kinds(a \o b) \subseteq LIC
      /\ \A op, i : Due(a, op, i) \/ Due(b, op, i) => Due(a \o b, op, i)
  <2>1. "store_priority" \notin Kinds(b)
    BY <1>1
  <2> QED BY <1>1, <2>1, PlainConcat DEF LIC
<1> DEFINE ab == a \o b
<1> HIDE DEF ab
<1>4. /\ Plain(ab \o f) /\ Kinds(ab \o f) \subseteq LIC \cup Reads
      /\ \A op, i : Due(ab, op, i) \/ Due(f, op, i) => Due(ab \o f, op, i)
  <2>1. "store_priority" \notin Kinds(f)
    BY <1>2 DEF Reads
  <2> QED BY <1>2, <1>3, <2>1, PlainConcat DEF ab
<1>5. ab \o f = publish_lic \o synchronize_distributor
  BY DEF ab, a, b, f, publish_lic
<1>6. ASSUME NEW i \in Looked PROVE Due(ab \o f, "store_source", i)
  <2>1. i \in {USB, NETWORK}
    BY PublicationAssumption
  <2> QED BY <1>1, <1>3, <1>4, <1>6, <2>1 DEF ab
<1> QED BY <1>4, <1>5, <1>6

LEMMA PlainOrdered ==
    ASSUME NEW s, Plain(s)
    PROVE  Ordered(s) /\ \A k \in DOMAIN s : s[k].op \notin Delivery
<1>1. \A k \in DOMAIN s : s[k].op \notin Delivery
  BY DEF Plain, Kinds
<1>2. \A i \in Looked : ~Due(s, "finish", i)
  BY <1>1 DEF Due, Op, Delivery
<1> QED BY <1>1, <1>2 DEF Plain, Ordered, Delivery

\* The service of an owned interrupt: the enable is loaded before the priority, and `finish` is last.
LEMMA IrqProgram ==
    ASSUME NEW i \in Looked
    PROVE  /\ service_owned(i) \in Seq(Records) /\ Ordered(service_owned(i))
           /\ Due(service_owned(i), "load_enable", i) /\ Due(service_owned(i), "load_priority", i)
           /\ \A j : Due(service_owned(i), "finish", j) <=> j = i
           /\ \A k \in DOMAIN service_owned(i) : service_owned(i)[k].op \notin DISTRIBUTOR \cup LIC
<1> DEFINE a == Of(i, <<"load_line">>)
           b == interrupt_enabled(i)
           s == a \o RecheckedBy(i) \o b
           t == Of(i, <<"load_priority", "load_control", "finish">>)
           u == s \o t
<1>1. i \in {USB, NETWORK}
  BY PublicationAssumption
<1>2. Plain(s) /\ Kinds(s) \subseteq Reads
  <2>1. "load_line" \in Operations \ Delivery /\ "load_line" \in Reads
    BY DEF Operations, Reads, Delivery
  <2>2. Plain(a) /\ Kinds(a) \subseteq Reads
    BY <1>1, <2>1, OfOne
  <2>3. Plain(b) /\ Kinds(b) \subseteq Reads
    BY <1>1, EnabledProgram
  <2>4. Plain(RecheckedBy(i)) /\ Kinds(RecheckedBy(i)) \subseteq Reads
    BY ReadPrograms
  <2> HIDE DEF a, b
  <2> QED BY <2>2, <2>3, <2>4, ReadsConcat
<1>3. Due(s, "load_enable", i)
  <2>1. Due(b, "load_enable", i)
    BY DEF interrupt_enabled, Of, Due
  <2>2. "load_line" \in Operations \ Delivery /\ "load_line" \in Reads
    BY DEF Operations, Reads, Delivery
  <2>3. Plain(a) /\ Kinds(a) \subseteq Reads
    BY <1>1, <2>2, OfOne
  <2>4. Plain(b) /\ Kinds(b) \subseteq Reads
    BY <1>1, EnabledProgram
  <2> DEFINE ar == a \o RecheckedBy(i)
  <2>5. Plain(ar)
    BY <2>3, ReadPrograms, ReadsConcat
  <2>6. "store_priority" \notin Kinds(b)
    BY <2>4 DEF Reads
  <2> HIDE DEF ar, b
  <2>7. Due(ar \o b, "load_enable", i)
    BY <2>1, <2>4, <2>5, <2>6, PlainConcat
  <2> QED BY <2>7 DEF ar
<1>4. /\ t \in Seq(Records) /\ Len(t) = 3 /\ DOMAIN t = 1 .. 3
      /\ t[1] = Op("load_priority", i) /\ t[2] = Op("load_control", i) /\ t[3] = Op("finish", i)
  <2>1. t = <<Op("load_priority", i), Op("load_control", i), Op("finish", i)>>
    BY DEF Of
  <2>2. /\ Op("load_priority", i) \in Records /\ Op("load_control", i) \in Records
        /\ Op("finish", i) \in Records
    BY <1>1 DEF Op, Records, Operations
  <2> DEFINE x == Op("load_priority", i)
             y == Op("load_control", i)
             z == Op("finish", i)
  <2> HIDE DEF x, y, z, t
  <2>3. t = <<x, y, z>> /\ x \in Records /\ y \in Records /\ z \in Records
    BY <2>1, <2>2 DEF x, y, z
  <2>4. t \in Seq(Records) /\ Len(t) = 3 /\ DOMAIN t = 1 .. 3 /\ t[1] = x /\ t[2] = y /\ t[3] = z
    BY <2>3
  <2> QED BY <2>4 DEF x, y, z
<1>5. u = service_owned(i) /\ u = s \o t
  BY DEF service_owned
<1>6. s \in Seq(Records) /\ \A k \in DOMAIN s : s[k].op \in Reads
  BY <1>2 DEF Plain, Kinds
<1> HIDE DEF s, t, u
<1>7. /\ u \in Seq(Records) /\ Len(u) = Len(s) + 3 /\ Len(s) \in Nat
      /\ DOMAIN u = 1 .. Len(s) + 3 /\ DOMAIN s = 1 .. Len(s)
  <2>1. s \in Seq(Records) /\ t \in Seq(Records)
    BY <1>4, <1>6
  <2>2. /\ s \o t \in Seq(Records) /\ Len(s \o t) = Len(s) + Len(t) /\ Len(s) \in Nat
        /\ DOMAIN (s \o t) = 1 .. Len(s) + Len(t) /\ DOMAIN s = 1 .. Len(s)
    BY <2>1, ConcatElements
  <2> QED BY <1>4, <1>5, <2>2
<1>8. /\ \A k \in DOMAIN s : k \in DOMAIN u /\ u[k] = s[k]
      /\ u[Len(s) + 1] = Op("load_priority", i) /\ u[Len(s) + 2] = Op("load_control", i)
      /\ u[Len(s) + 3] = Op("finish", i)
  <2>1. \A k \in 1 .. 3 : u[Len(s) + k] = t[k]
    BY <1>4, <1>5, <1>6, ConcatElements
  <2>2. \A k \in DOMAIN s : k \in DOMAIN u /\ u[k] = s[k]
    BY <1>4, <1>5, <1>6, ConcatElements
  <2> QED BY <1>4, <2>1, <2>2
<1>9. \A k \in DOMAIN u : \/ k \in DOMAIN s /\ u[k] = s[k] /\ u[k].op \in Reads /\ k <= Len(s)
                          \/ k = Len(s) + 1 \/ k = Len(s) + 2 \/ k = Len(s) + 3
  BY <1>6, <1>7, <1>8
<1>10. Due(u, "load_enable", i) /\ Due(u, "load_priority", i) /\ Due(u, "finish", i)
  <2>1. Len(s) + 1 \in DOMAIN u /\ Len(s) + 3 \in DOMAIN u
    BY <1>7
  <2> QED BY <1>3, <1>8, <2>1 DEF Due
<1>11. \A k \in DOMAIN u :
         /\ u[k].op = "finish" => k = Len(u) /\ u[k] = Op("finish", i)
         /\ u[k].op # "take_interrupt"
         /\ u[k].op = "load_priority" => k = Len(s) + 1 /\ u[k].id = i
         /\ u[k].op = "load_enable" => k <= Len(s)
         /\ u[k].op \in Reads \cup {"load_priority", "load_control", "finish"}
  BY <1>7, <1>8, <1>9 DEF Reads, Op
<1>12. \A j : Due(u, "finish", j) => j = i
  BY <1>11 DEF Due, Op
<1>13. Ordered(u)
  <2>1. ASSUME NEW j \in DOMAIN u, NEW k \in DOMAIN u
        PROVE  /\ u[j].op = "store_enable" /\ u[k].op = "store_priority" => k < j
               /\ u[j].op = "load_priority" /\ u[k] = Op("load_enable", u[j].id) => k < j
               /\ u[j].op \in {"finish", "take_interrupt"} => j = Len(u)
               /\ u[j].op = "finish" /\ u[k].op = "load_priority" => u[j].id = u[k].id
    <3>1. u[j].op # "store_enable"
      BY <1>11 DEF Reads
    <3>2. u[j].op = "load_priority" /\ u[k] = Op("load_enable", u[j].id) => k < j
      <4>1. u[k] = Op("load_enable", u[j].id) => u[k].op = "load_enable"
        BY DEF Op
      <4>2. j \in Int /\ k \in Int
        BY <1>7
      <4> QED BY <1>7, <1>11, <4>1, <4>2
    <3>3. u[j].op = "finish" => u[j].id = i
      BY <1>11 DEF Op
    <3> QED BY <1>11, <3>1, <3>2, <3>3
  <2>2. \A j \in Looked : Due(u, "finish", j) => Due(u, "load_priority", j)
    BY <1>10, <1>12
  <2> QED BY <2>1, <2>2 DEF Ordered
<1>14. \A k \in DOMAIN u : u[k].op \notin DISTRIBUTOR \cup LIC
  BY <1>11 DEF DISTRIBUTOR, LIC, Reads
<1> QED BY <1>5, <1>7, <1>10, <1>12, <1>13, <1>14

\* The vector has nothing in hand before it takes an interrupt.
LEMMA VectorProgram ==
    /\ rust_irq \in Seq(Records) /\ Ordered(rust_irq)
    /\ \A i : ~Due(rust_irq, "finish", i)
    /\ \A k \in DOMAIN rust_irq : rust_irq[k].op \notin DISTRIBUTOR \cup LIC
<1> DEFINE x == Op("set_distributor_enabled", NETWORK)
           y == Op("take_interrupt", NETWORK)
<1>1. /\ x \in Records /\ x.op = "set_distributor_enabled"
      /\ y \in Records /\ y.op = "take_interrupt"
  BY DEF Op, Records, Operations
<1>2. rust_irq = <<x>> \o <<y>>
  BY DEF rust_irq, set_distributor_enabled
<1> HIDE DEF x, y
<1>3. /\ rust_irq \in Seq(Records) /\ Len(rust_irq) = 2 /\ DOMAIN rust_irq = 1 .. 2
      /\ rust_irq[1].op = "set_distributor_enabled" /\ rust_irq[2].op = "take_interrupt"
  BY <1>1, <1>2
<1>4. \A k \in DOMAIN rust_irq : \/ k = 1 /\ rust_irq[k].op = "set_distributor_enabled"
                                 \/ k = 2 /\ rust_irq[k].op = "take_interrupt"
  BY <1>3
<1>5. \A i : ~Due(rust_irq, "finish", i)
  BY <1>4 DEF Due, Op
<1>6. Ordered(rust_irq)
  BY <1>3, <1>4, <1>5 DEF Ordered
<1>7. \A k \in DOMAIN rust_irq : rust_irq[k].op \notin DISTRIBUTOR \cup LIC
  BY <1>4 DEF DISTRIBUTOR, LIC
<1> QED BY <1>3, <1>5, <1>6, <1>7

\* One operation less.
LEMMA TailElements ==
    ASSUME NEW R, NEW s \in Seq(R), s # <<>>
    PROVE  /\ Tail(s) \in Seq(R) /\ Len(Tail(s)) = Len(s) - 1 /\ Len(s) \in Nat \ {0}
           /\ DOMAIN s = 1 .. Len(s) /\ DOMAIN Tail(s) = 1 .. Len(s) - 1
           /\ Head(s) = s[1] /\ Head(s) \in R /\ 1 \in DOMAIN s
           /\ \A k \in DOMAIN Tail(s) : k + 1 \in DOMAIN s /\ Tail(s)[k] = s[k + 1]
           /\ \A k \in DOMAIN s : k = 1 \/ (k - 1 \in DOMAIN Tail(s) /\ s[k] = Tail(s)[k - 1])
<1>1. Len(s) \in Nat \ {0} /\ DOMAIN s = 1 .. Len(s)
  BY EmptySeq, LenProperties
<1>2. /\ Head(s) = s[1] /\ Tail(s) \in Seq(R) /\ Len(Tail(s)) = Len(s) - 1
      /\ \A k \in 1 .. Len(Tail(s)) : Tail(s)[k] = s[k + 1]
  BY HeadTailProperties
<1>3. DOMAIN Tail(s) = 1 .. Len(s) - 1
  BY <1>1, <1>2
<1>4. 1 \in DOMAIN s /\ s[1] \in R
  BY <1>1
<1>5. \A k \in DOMAIN Tail(s) : k + 1 \in DOMAIN s /\ Tail(s)[k] = s[k + 1]
  BY <1>1, <1>2, <1>3
<1>6. \A k \in DOMAIN s : k = 1 \/ (k - 1 \in DOMAIN Tail(s) /\ s[k] = Tail(s)[k - 1])
  <2> TAKE k \in DOMAIN s
  <2>1. CASE k # 1
    <3>1. k - 1 \in DOMAIN Tail(s) /\ (k - 1) + 1 = k
      BY <1>1, <1>3, <2>1
    <3> QED BY <1>5, <3>1
  <2> QED BY <2>1
<1> QED BY <1>1, <1>2, <1>3, <1>4, <1>5, <1>6

LEMMA DueTail ==
    ASSUME NEW s \in Seq(Records), s # <<>>, NEW op, NEW i
    PROVE  /\ Due(Tail(s), op, i) => Due(s, op, i)
           /\ Due(s, op, i) => Due(Tail(s), op, i) \/ Head(s) = Op(op, i)
           /\ Head(s) = Op(op, i) => Due(s, op, i)
<1> DEFINE t == Tail(s)
<1>1. /\ Head(s) = s[1] /\ 1 \in DOMAIN s
      /\ \A k \in DOMAIN t : k + 1 \in DOMAIN s /\ t[k] = s[k + 1]
      /\ \A k \in DOMAIN s : k = 1 \/ (k - 1 \in DOMAIN t /\ s[k] = t[k - 1])
  BY TailElements
<1> HIDE DEF t
<1>2. /\ Due(t, op, i) => Due(s, op, i)
      /\ Due(s, op, i) => Due(t, op, i) \/ Head(s) = Op(op, i)
      /\ Head(s) = Op(op, i) => Due(s, op, i)
  BY <1>1 DEF Due
<1> QED BY <1>2 DEF t

LEMMA OrderedTail ==
    ASSUME NEW s \in Seq(Records), s # <<>>, Ordered(s)
    PROVE  Ordered(Tail(s))
<1> DEFINE t == Tail(s)
<1>1. /\ Len(t) = Len(s) - 1 /\ Len(s) \in Nat \ {0} /\ Head(s) = s[1] /\ 1 \in DOMAIN s
      /\ DOMAIN s = 1 .. Len(s) /\ DOMAIN t = 1 .. Len(s) - 1
      /\ \A k \in DOMAIN t : k + 1 \in DOMAIN s /\ t[k] = s[k + 1]
  BY TailElements
<1>2. \A op, i : Due(t, op, i) => Due(s, op, i)
  BY DueTail
<1>3. \A op, i : Due(s, op, i) => Due(t, op, i) \/ Head(s) = Op(op, i)
  BY DueTail
<1> HIDE DEF t
<1>4. ASSUME NEW j \in DOMAIN t, NEW k \in DOMAIN t
      PROVE  /\ t[j].op = "store_enable" /\ t[k].op = "store_priority" => k < j
             /\ t[j].op = "load_priority" /\ t[k] = Op("load_enable", t[j].id) => k < j
             /\ t[j].op \in {"finish", "take_interrupt"} => j = Len(t)
             /\ t[j].op = "finish" /\ t[k].op = "load_priority" => t[j].id = t[k].id
  <2>1. /\ j + 1 \in DOMAIN s /\ k + 1 \in DOMAIN s /\ t[j] = s[j + 1] /\ t[k] = s[k + 1]
        /\ j \in Int /\ k \in Int
    BY <1>1
  <2>2. /\ k + 1 < j + 1 => k < j
        /\ j + 1 = Len(s) => j = Len(t)
    BY <1>1, <2>1
  <2> QED BY <2>1, <2>2 DEF Ordered
<1>5. ASSUME NEW i \in Looked, Due(t, "finish", i), Due(t, "load_enable", i)
      PROVE  Due(t, "load_priority", i)
  <2>1. Due(s, "load_priority", i)
    BY <1>2, <1>5 DEF Ordered
  <2>2. ASSUME Head(s) = Op("load_priority", i) PROVE FALSE
    <3>1. PICK k \in DOMAIN t : t[k] = Op("load_enable", i)
      BY <1>5 DEF Due
    <3>2. k + 1 \in DOMAIN s /\ s[k + 1] = Op("load_enable", i) /\ ~(k + 1 < 1)
      BY <1>1, <3>1
    <3>3. s[1].op = "load_priority" /\ s[1].id = i
      BY <1>1, <2>2 DEF Op
    <3> QED BY <1>1, <3>2, <3>3 DEF Ordered
  <2> QED BY <1>3, <2>1, <2>2
<1> QED BY <1>4, <1>5 DEF Ordered, t
-----------------------------------------------------------------------------
(***************************************************************************)
(* The parts of the invariant, step by step.                               *)
(***************************************************************************)
PublicationCore ==
    /\ PublicationTypeOK
    /\ ProgramsAreOrdered /\ OneCpuStores
    /\ StoresAreDue /\ PrioritiesAreSince /\ IrqUnderWay /\ QueuedWhileDisabled

\* While a lock is free, nothing is left to store under it.
LEMMA NothingDue ==
    ASSUME NEW lock, LockFree(lock), NEW c \in Cpus, NEW i, NEW op \in lock
    PROVE  ~Due(todo[c], op, i)
<1> SUFFICES ASSUME NEW k \in DOMAIN todo[c], todo[c][k] = Op(op, i)
             PROVE  FALSE
  BY DEF Due
<1>1. todo[c][k].op = op
  BY DEF Op
<1> QED BY <1>1 DEF LockFree

LEMMA Settled ==
    ASSUME PublicationTypeOK, StoresAreDue
    PROVE  /\ LockFree(DISTRIBUTOR) =>
                /\ GICD_ENABLED = control
                /\ \A i \in Looked : /\ INTERRUPT_PRIORITY[i] = priority[i]
                                     /\ i \in INTERRUPT_ENABLED <=> i \in enabled
           /\ LockFree(LIC) => \A i \in Looked : i \in LIC_SOURCE_ENABLED <=> i \in ier
<1>1. ASSUME LockFree(DISTRIBUTOR)
      PROVE  /\ GICD_ENABLED = control
             /\ \A i \in Looked : /\ INTERRUPT_PRIORITY[i] = priority[i]
                                  /\ i \in INTERRUPT_ENABLED <=> i \in enabled
  <2>1. \A c \in Cpus, i \in Looked \cup {NETWORK} :
          /\ ~Due(todo[c], "store_control", i)
          /\ ~Due(todo[c], "store_priority", i)
          /\ ~Due(todo[c], "store_enable", i)
    <3>1. "store_control" \in DISTRIBUTOR /\ "store_priority" \in DISTRIBUTOR
          /\ "store_enable" \in DISTRIBUTOR
      BY DEF DISTRIBUTOR
    <3> QED BY <1>1, <3>1, NothingDue
  <2> QED BY <2>1 DEF StoresAreDue
<1>2. ASSUME LockFree(LIC), NEW i \in Looked
      PROVE  i \in LIC_SOURCE_ENABLED <=> i \in ier
  <2>1. \A c \in Cpus : ~Due(todo[c], "store_source", i)
    BY <1>2, NothingDue DEF LIC
  <2> QED BY <2>1 DEF StoresAreDue
<1> QED BY <1>1, <1>2

LEMMA CoreImplies == PublicationCore => PriorityIsCurrent /\ SettingsArePublished
<1> SUFFICES ASSUME PublicationCore
             PROVE  PriorityIsCurrent /\ SettingsArePublished
  OBVIOUS
<1>1. SettingsArePublished
  <2>1. /\ INTERRUPT_ENABLED \subseteq Looked /\ enabled \subseteq Looked
        /\ LIC_SOURCE_ENABLED \subseteq Looked /\ ier \subseteq Looked
        /\ priority \in [Looked -> Priorities] /\ INTERRUPT_PRIORITY \in [Looked -> Priorities]
    BY DEF PublicationCore, PublicationTypeOK
  <2>2. ASSUME LockFree(DISTRIBUTOR)
        PROVE  /\ GICD_ENABLED = control /\ INTERRUPT_ENABLED = enabled
               /\ INTERRUPT_PRIORITY = priority
    <3>1. /\ GICD_ENABLED = control
          /\ \A i \in Looked : /\ INTERRUPT_PRIORITY[i] = priority[i]
                               /\ i \in INTERRUPT_ENABLED <=> i \in enabled
      BY <2>2, Settled DEF PublicationCore
    <3>2. INTERRUPT_PRIORITY = priority
      BY <2>1, <3>1
    <3>3. INTERRUPT_ENABLED = enabled
      BY <2>1, <3>1
    <3> QED BY <3>1, <3>2, <3>3
  <2>3. ASSUME LockFree(LIC) PROVE LIC_SOURCE_ENABLED = ier
    <3>1. \A i \in Looked : i \in LIC_SOURCE_ENABLED <=> i \in ier
      BY <2>3, Settled DEF PublicationCore
    <3> QED BY <2>1, <3>1
  <2> QED BY <2>2, <2>3 DEF SettingsArePublished
<1>2. PriorityIsCurrent
  <2> DEFINE s == todo[Boot]
             i == Head(s).id
  <2> SUFFICES ASSUME s # <<>>, Head(s).op = "finish", i \in held[Boot]
               PROVE  loaded \in seen
    BY DEF PriorityIsCurrent
  <2>1. s \in Seq(Records)
    BY PublicationAssumption DEF PublicationCore, PublicationTypeOK, Records
  <2>2. /\ Head(s) = s[1] /\ Head(s) \in Records /\ 1 \in DOMAIN s /\ DOMAIN s = 1 .. Len(s)
    BY <2>1, TailElements
  <2>3. Head(s) = Op("finish", i)
    BY <2>2 DEF Records, Op
  <2>4. Due(s, "finish", i)
    BY <2>2, <2>3 DEF Due
  <2>5. ~Due(s, "load_priority", i)
    <3> SUFFICES ASSUME NEW k \in DOMAIN s, s[k] = Op("load_priority", i)
                 PROVE  FALSE
      BY DEF Due
    <3>1. 1 = Len(s)
      BY <2>2, PublicationAssumption DEF PublicationCore, ProgramsAreOrdered, Ordered
    <3>2. k = 1
      BY <2>2, <3>1
    <3> QED BY <2>2, <3>2 DEF Op
  <2> QED BY <2>4, <2>5 DEF PublicationCore, IrqUnderWay
<1> QED BY <1>1, <1>2

\* A CPU that has nothing to do gets a program.
LEMMA RunProgram ==
    ASSUME PublicationTypeOK, ProgramsAreOrdered, NEW c \in Cpus, NEW p \in Seq(Records),
           Ordered(p),
           c # Boot => \A k \in DOMAIN p : p[k].op \notin Delivery,
           Run(c, p)
    PROVE  /\ todo' \in [Cpus -> Seq(Records)] /\ held' \in [Cpus -> SUBSET Looked]
           /\ ProgramsAreOrdered'
           /\ todo'[c] = p /\ held'[c] = Looked
           /\ \A d \in Cpus \ {c} : todo'[d] = todo[d] /\ held'[d] = held[d]
<1>1. /\ todo \in [Cpus -> Seq(Records)] /\ held \in [Cpus -> SUBSET Looked]
      /\ todo' = [todo EXCEPT ![c] = p] /\ held' = [held EXCEPT ![c] = Looked]
  BY DEF PublicationTypeOK, Records, Run
<1>2. /\ todo' \in [Cpus -> Seq(Records)] /\ held' \in [Cpus -> SUBSET Looked]
      /\ todo'[c] = p /\ held'[c] = Looked
      /\ \A d \in Cpus \ {c} : todo'[d] = todo[d] /\ held'[d] = held[d]
  BY <1>1
<1>3. ProgramsAreOrdered'
  <2>1. ASSUME NEW d \in Cpus
        PROVE  /\ Ordered(todo'[d])
               /\ d # Boot => \A k \in DOMAIN todo'[d] :
                               todo'[d][k].op \notin Delivery
    <3>1. CASE d = c
      BY <1>2, <3>1
    <3>2. CASE d # c
      BY <1>2, <3>2 DEF ProgramsAreOrdered
    <3> QED BY <3>1, <3>2
  <2> QED BY <2>1 DEF ProgramsAreOrdered
<1> QED BY <1>2, <1>3

LEMMA RunHolds ==
    ASSUME NEW lock, HeldByOne(lock), NEW c \in Cpus, NEW p, todo'[c] = p,
           \A d \in Cpus \ {c} : todo'[d] = todo[d],
           LockFree(lock) \/ \A k \in DOMAIN p : p[k].op \notin lock
    PROVE  HeldByOne(lock)'
<1> SUFFICES ASSUME NEW d \in Cpus, NEW e \in Cpus,
                    NEW j \in DOMAIN todo'[d], NEW k \in DOMAIN todo'[e],
                    todo'[d][j].op \in lock, todo'[e][k].op \in lock
             PROVE  d = e
  BY DEF HeldByOne
<1>1. CASE LockFree(lock)
  <2>1. \A x \in Cpus \ {c} : \A l \in DOMAIN todo'[x] : todo'[x][l].op \notin lock
    BY <1>1 DEF LockFree
  <2> QED BY <2>1
<1>2. CASE \A l \in DOMAIN p : p[l].op \notin lock
  <2>1. d # c /\ e # c
    BY <1>2
  <2> QED BY <2>1 DEF HeldByOne
<1> QED BY <1>1, <1>2

LEMMA RunStores ==
    ASSUME OneCpuStores, NEW c \in Cpus, NEW p, todo'[c] = p,
           \A d \in Cpus \ {c} : todo'[d] = todo[d],
           LockFree(DISTRIBUTOR) \/ \A k \in DOMAIN p : p[k].op \notin DISTRIBUTOR,
           LockFree(LIC) \/ \A k \in DOMAIN p : p[k].op \notin LIC
    PROVE  OneCpuStores'
<1>1. HeldByOne(DISTRIBUTOR)'
  BY RunHolds DEF OneCpuStores
<1>2. HeldByOne(LIC)'
  BY RunHolds DEF OneCpuStores
<1> QED BY <1>1, <1>2 DEF OneCpuStores

\* Nothing that is due is forgotten when a CPU that is idle, or takes an
\* interrupt, gets a program.
LEMMA StaysDue ==
    ASSUME NEW c \in Cpus, \A k \in DOMAIN todo[c] : todo[c][k].op = "take_interrupt",
           \A d \in Cpus \ {c} : todo'[d] = todo[d],
           NEW op, NEW i, op # "take_interrupt", \E d \in Cpus : Due(todo[d], op, i)
    PROVE  \E d \in Cpus : Due(todo'[d], op, i)
<1>1. PICK d \in Cpus : Due(todo[d], op, i)
  OBVIOUS
<1>2. d # c
  BY <1>1 DEF Due, Op
<1> QED BY <1>1, <1>2

LEMMA RunKeepsDue ==
    ASSUME StoresAreDue, NEW c \in Cpus,
           \A k \in DOMAIN todo[c] : todo[c][k].op = "take_interrupt",
           \A d \in Cpus \ {c} : todo'[d] = todo[d],
           UNCHANGED <<registerVars, publishedVars>>
    PROVE  StoresAreDue'
<1>1. ASSUME NEW op, NEW i, op # "take_interrupt", \E d \in Cpus : Due(todo[d], op, i)
      PROVE  \E d \in Cpus : Due(todo'[d], op, i)
  BY <1>1, StaysDue
<1>2. /\ UNCHANGED <<GICD_ENABLED, control, INTERRUPT_PRIORITY, priority>>
      /\ UNCHANGED <<INTERRUPT_ENABLED, enabled, LIC_SOURCE_ENABLED, ier>>
  BY DEF registerVars, publishedVars
<1>3. GICD_ENABLED' = control' \/ \E d \in Cpus : Due(todo'[d], "store_control", NETWORK)
  BY <1>1, <1>2 DEF StoresAreDue
<1>4. ASSUME NEW i \in Looked
      PROVE  /\ \/ INTERRUPT_PRIORITY'[i] = priority'[i]
                \/ \E d \in Cpus : Due(todo'[d], "store_priority", i)
             /\ \/ i \in INTERRUPT_ENABLED' <=> i \in enabled'
                \/ \E d \in Cpus : Due(todo'[d], "store_enable", i)
             /\ \/ i \in LIC_SOURCE_ENABLED' <=> i \in ier'
                \/ \E d \in Cpus : Due(todo'[d], "store_source", i)
  BY <1>1, <1>2 DEF StoresAreDue
<1> QED BY <1>3, <1>4 DEF StoresAreDue

\* A program that neither stores nor delivers.
LEMMA QuietProgram ==
    ASSUME PublicationCore, NEW c \in Cpus, todo[c] = <<>>, NEW p,
           Plain(p), Kinds(p) \subseteq Reads, Run(c, p),
           UNCHANGED <<registerVars, publishedVars, loaded, gicVars, historyVars>>,
           line' \subseteq Looked
    PROVE  PublicationCore'
<1>0. In("hand")' = In("hand")
  BY DEF gicVars, In
<1>1. /\ p \in Seq(Records) /\ Ordered(p)
      /\ \A k \in DOMAIN p : p[k].op \notin Delivery
  BY PlainOrdered DEF Plain
<1>2. \A k \in DOMAIN p : p[k].op \notin DISTRIBUTOR /\ p[k].op \notin LIC
  BY DEF Kinds, Reads, DISTRIBUTOR, LIC
<1>3. PublicationTypeOK /\ ProgramsAreOrdered /\ OneCpuStores /\ StoresAreDue
  BY DEF PublicationCore
<1>4. /\ todo' \in [Cpus -> Seq(Records)] /\ held' \in [Cpus -> SUBSET Looked]
      /\ ProgramsAreOrdered' /\ todo'[c] = p /\ held'[c] = Looked
      /\ \A d \in Cpus \ {c} : todo'[d] = todo[d] /\ held'[d] = held[d]
  BY <1>1, <1>3, RunProgram
<1>5. OneCpuStores'
  BY <1>2, <1>3, <1>4, RunStores
<1>6. StoresAreDue'
  BY <1>3, <1>4, RunKeepsDue
<1>7. PublicationTypeOK'
  BY <1>3, <1>4 DEF PublicationTypeOK, Records, registerVars, publishedVars, gicVars, historyVars
<1>8. PrioritiesAreSince'
  BY DEF PublicationCore, PrioritiesAreSince, registerVars, publishedVars, historyVars
<1>9. IrqUnderWay'
  <2>1. CASE c = Boot
    <3>1. \A i : ~Due(todo[Boot], "finish", i) /\ ~Due(todo'[Boot], "finish", i)
      BY <1>1, <1>4, <2>1 DEF Due, Op, Delivery
    <3> QED BY <1>0, <3>1 DEF PublicationCore, IrqUnderWay
  <2>2. CASE c # Boot
    <3>1. todo'[Boot] = todo[Boot] /\ held'[Boot] = held[Boot]
      BY <1>4, <2>2, PublicationAssumption
    <3> QED BY <1>0, <3>1 DEF PublicationCore, IrqUnderWay, registerVars, publishedVars, historyVars
  <2> QED BY <2>1, <2>2
<1>10. QueuedWhileDisabled'
  BY DEF PublicationCore, QueuedWhileDisabled, gicVars, In
<1> QED BY <1>4, <1>5, <1>6, <1>7, <1>8, <1>9, <1>10 DEF PublicationCore

LEMMA DeviceStep ==
    ASSUME PublicationCore, NEW c \in Cpus, NEW i \in Looked,
           TrapDevice(c, i) \/ Service(c, i)
    PROVE  PublicationCore'
<1>1. line \subseteq Looked
  BY DEF PublicationCore, PublicationTypeOK
<1>2. CASE TrapDevice(c, i)
  <2>1. /\ todo[c] = <<>> /\ line' \subseteq Looked /\ Run(c, synchronize_distributor)
        /\ UNCHANGED <<registerVars, publishedVars, loaded, gicVars, historyVars>>
    BY <1>1, <1>2 DEF TrapDevice, GuestRuns
  <2> QED BY <2>1, ReadPrograms, QuietProgram
<1>3. CASE Service(c, i)
  <2>1. /\ todo[c] = <<>> /\ line' \subseteq Looked /\ Run(c, Notify(i))
        /\ UNCHANGED <<registerVars, publishedVars, loaded, gicVars, historyVars>>
    BY <1>1, <1>3 DEF Service, GuestRuns
  <2> QED BY <2>1, ReadPrograms, QuietProgram
<1> QED BY <1>2, <1>3

\* What the guest can write to its registers.
LEMMA RegisterTypes ==
    ASSUME PublicationTypeOK, NEW c \in Cpus, TrapDistributor(c)
    PROVE  /\ control' \in BOOLEAN /\ enabled' \subseteq Looked
           /\ priority' \in [Looked -> Priorities] /\ ier' = ier
<1>1. CASE \E on \in BOOLEAN, ones \in SUBSET Looked : Registers!WriteEnable(on, ones)
  BY <1>1 DEF PublicationTypeOK, Registers!WriteEnable
<1>2. CASE \E on \in BOOLEAN : Registers!WriteControl(on)
  BY <1>2 DEF PublicationTypeOK, Registers!WriteControl
<1>3. CASE \E covered \in SUBSET Looked :
             \E values \in [covered -> Priorities] : Registers!WritePriority(values)
  <2>0. PICK covered \in SUBSET Looked :
          \E values \in [covered -> Priorities] : Registers!WritePriority(values)
    BY <1>3
  <2>1. PICK values \in [covered -> Priorities] : Registers!WritePriority(values)
    BY <2>0
  <2>2. PICK unit \in [covered -> {1, 8}] :
          priority' = [i \in Looked |-> IF i \in covered \ {}
                                       THEN values[i] - (values[i] % unit[i])
                                       ELSE priority[i]]
    BY <2>1 DEF Registers!WritePriority
  <2>3. ASSUME NEW i \in covered
        PROVE  values[i] - (values[i] % unit[i]) \in Priorities
    <3>1. values[i] \in Priorities /\ values[i] \in 0 .. 255
          /\ values[i] - (values[i] % 8) \in Priorities
      BY PublicationAssumption
    <3>2. values[i] % 1 = 0 /\ values[i] - 0 = values[i]
      BY <3>1
    <3>3. unit[i] = 1 \/ unit[i] = 8
      OBVIOUS
    <3> QED BY <3>1, <3>2, <3>3
  <2>4. priority' \in [Looked -> Priorities]
    BY <2>2, <2>3 DEF PublicationTypeOK
  <2> QED BY <2>1, <2>4 DEF PublicationTypeOK, Registers!WritePriority
<1> QED BY <1>1, <1>2, <1>3 DEF TrapDistributor

LEMMA TrapDistributorStep ==
    ASSUME PublicationCore, NEW c \in Cpus, TrapDistributor(c)
    PROVE  PublicationCore'
<1> DEFINE p == publish_distributor \o publish_control \o synchronize_distributor
<1>1. /\ Plain(p) /\ Kinds(p) \subseteq DISTRIBUTOR \cup Reads /\ Due(p, "store_control", NETWORK)
      /\ \A i \in Looked : Due(p, "store_priority", i) /\ Due(p, "store_enable", i)
  BY DistributorProgram
<1>2. /\ todo[c] = <<>> /\ LockFree(DISTRIBUTOR) /\ Run(c, p) /\ History
      /\ UNCHANGED <<publishedVars, loaded, line, gicVars>>
  BY DEF TrapDistributor, GuestRuns
<1> HIDE DEF p
<1>3. /\ p \in Seq(Records) /\ Ordered(p)
      /\ \A k \in DOMAIN p : p[k].op \notin Delivery
  BY <1>1, PlainOrdered DEF Plain
<1>4. /\ PublicationTypeOK /\ ProgramsAreOrdered /\ OneCpuStores /\ StoresAreDue
      /\ PrioritiesAreSince /\ IrqUnderWay
  BY DEF PublicationCore
<1>5. /\ todo' \in [Cpus -> Seq(Records)] /\ held' \in [Cpus -> SUBSET Looked]
      /\ ProgramsAreOrdered' /\ todo'[c] = p /\ held'[c] = Looked
      /\ \A d \in Cpus \ {c} : todo'[d] = todo[d] /\ held'[d] = held[d]
  BY <1>2, <1>3, <1>4, RunProgram
<1>6. OneCpuStores'
  <2>1. \A k \in DOMAIN p : p[k].op \notin LIC
    BY <1>1 DEF Kinds, Reads, DISTRIBUTOR, LIC
  <2> QED BY <1>2, <1>4, <1>5, <2>1, RunStores
<1>7. /\ control' \in BOOLEAN /\ enabled' \subseteq Looked
      /\ priority' \in [Looked -> Priorities] /\ ier' = ier
  BY <1>4, RegisterTypes
<1>8. \A i \in Looked : i \in INTERRUPT_ENABLED <=> i \in enabled
  BY <1>2, <1>4, Settled
<1>9. StoresAreDue'
  <2>1. LIC_SOURCE_ENABLED' = LIC_SOURCE_ENABLED
    BY <1>2 DEF publishedVars
  <2>2. ASSUME NEW i \in Looked
        PROVE  \/ i \in LIC_SOURCE_ENABLED' <=> i \in ier'
               \/ \E d \in Cpus : Due(todo'[d], "store_source", i)
    <3>1. \/ i \in LIC_SOURCE_ENABLED <=> i \in ier
          \/ \E d \in Cpus : Due(todo[d], "store_source", i)
      BY <1>4 DEF StoresAreDue
    <3>2. (\E d \in Cpus : Due(todo[d], "store_source", i))
            => \E d \in Cpus : Due(todo'[d], "store_source", i)
      <4>1. \A k \in DOMAIN todo[c] : FALSE
        BY <1>2
      <4> QED BY <1>5, <4>1, StaysDue
    <3> QED BY <1>7, <2>1, <3>1, <3>2
  <2>3. /\ Due(todo'[c], "store_control", NETWORK)
        /\ \A i \in Looked : Due(todo'[c], "store_priority", i) /\ Due(todo'[c], "store_enable", i)
    BY <1>1, <1>5
  <2> QED BY <2>2, <2>3 DEF StoresAreDue
<1>10. /\ since' = [i \in Looked |-> IF i \in enabled' \ enabled THEN {priority'[i]}
                                    ELSE since[i] \cup {priority'[i]}]
       /\ seen' = IF seen = {} THEN {} ELSE seen \cup {priority'[i] : i \in In("hand")}
  BY <1>2 DEF History
<1>11. PublicationTypeOK'
  <2>1. since' \in [Looked -> SUBSET Priorities]
    BY <1>4, <1>7, <1>10 DEF PublicationTypeOK
  <2>2. seen' \subseteq Priorities
    BY <1>4, <1>7, <1>10 DEF PublicationTypeOK, In
  <2>3. UNCHANGED <<GICD_ENABLED, INTERRUPT_ENABLED, INTERRUPT_PRIORITY, LIC_SOURCE_ENABLED,
                    line, raised, place, distributor_enabled>>
    BY <1>2 DEF publishedVars, gicVars
  <2> QED BY <1>4, <1>5, <1>7, <2>1, <2>2, <2>3 DEF PublicationTypeOK, Records
<1>12. PrioritiesAreSince'
  <2>1. UNCHANGED <<INTERRUPT_ENABLED, INTERRUPT_PRIORITY>> /\ INTERRUPT_ENABLED \subseteq Looked
    BY <1>2, <1>4 DEF publishedVars, PublicationTypeOK
  <2>2. \A i \in Looked : priority'[i] \in since'[i]
    BY <1>10
  <2>3. ASSUME NEW i \in INTERRUPT_ENABLED PROVE INTERRUPT_PRIORITY[i] \in since'[i]
    <3>1. i \in Looked /\ i \in enabled
      BY <1>8, <2>1, Zenon
    <3>2. INTERRUPT_PRIORITY[i] \in since[i]
      BY <1>4 DEF PrioritiesAreSince
    <3> QED BY <1>10, <3>1, <3>2
  <2> QED BY <1>7, <2>1, <2>2, <2>3 DEF PrioritiesAreSince
<1>13. IrqUnderWay'
  <2>1. In("hand")' = In("hand") /\ UNCHANGED <<loaded, INTERRUPT_PRIORITY>>
    BY <1>2 DEF gicVars, publishedVars, In
  <2>2. CASE c = Boot
    <3>1. \A i : ~Due(todo[Boot], "finish", i) /\ ~Due(todo'[Boot], "finish", i)
      BY <1>2, <1>3, <1>5, <2>2 DEF Due, Op, Delivery
    <3> QED BY <1>4, <2>1, <3>1 DEF IrqUnderWay
  <2>3. CASE c # Boot
    <3>1. todo'[Boot] = todo[Boot] /\ held'[Boot] = held[Boot]
      BY <1>5, <2>3, PublicationAssumption
    <3>2. ASSUME NEW i \in held'[Boot], Due(todo'[Boot], "finish", i)
          PROVE  /\ ~Due(todo'[Boot], "load_enable", i)
                      => {INTERRUPT_PRIORITY'[i], priority'[i]} \subseteq seen'
                 /\ ~Due(todo'[Boot], "load_priority", i) => loaded' \in seen'
      <4>1. i \in Looked /\ i \in In("hand")
        BY <1>4, <3>1, <3>2, PublicationAssumption DEF IrqUnderWay, PublicationTypeOK
      <4>2. /\ ~Due(todo[Boot], "load_enable", i) => INTERRUPT_PRIORITY[i] \in seen
            /\ ~Due(todo[Boot], "load_priority", i) => loaded \in seen
        BY <1>4, <3>1, <3>2 DEF IrqUnderWay
      <4>3. seen # {} => seen \subseteq seen' /\ priority'[i] \in seen'
        BY <1>10, <4>1
      <4> QED BY <2>1, <3>1, <4>2, <4>3
    <3>3. \A i \in Looked : i \in In("hand")' <=> Due(todo'[Boot], "finish", i)
      BY <1>4, <2>1, <3>1 DEF IrqUnderWay
    <3> QED BY <3>2, <3>3 DEF IrqUnderWay
  <2> QED BY <2>2, <2>3
<1>14. QueuedWhileDisabled'
  BY <1>2 DEF PublicationCore, QueuedWhileDisabled, gicVars, In
<1> QED BY <1>5, <1>6, <1>9, <1>11, <1>12, <1>13, <1>14 DEF PublicationCore

LEMMA LicStep ==
    ASSUME PublicationCore, NEW c \in Cpus, TrapLic(c)
    PROVE  PublicationCore'
<1> DEFINE p == publish_lic \o synchronize_distributor
<1>1. /\ Plain(p) /\ Kinds(p) \subseteq LIC \cup Reads
      /\ \A i \in Looked : Due(p, "store_source", i)
  BY LicProgram
<1>2. /\ todo[c] = <<>> /\ LockFree(LIC) /\ Run(c, p)
      /\ UNCHANGED <<publishedVars, loaded, line, gicVars, historyVars>>
  BY DEF TrapLic, GuestRuns
<1> HIDE DEF p
<1>3. /\ p \in Seq(Records) /\ Ordered(p)
      /\ \A k \in DOMAIN p : p[k].op \notin Delivery
  BY <1>1, PlainOrdered DEF Plain
<1>4. /\ PublicationTypeOK /\ ProgramsAreOrdered /\ OneCpuStores /\ StoresAreDue
      /\ PrioritiesAreSince /\ IrqUnderWay
  BY DEF PublicationCore
<1>5. /\ todo' \in [Cpus -> Seq(Records)] /\ held' \in [Cpus -> SUBSET Looked]
      /\ ProgramsAreOrdered' /\ todo'[c] = p /\ held'[c] = Looked
      /\ \A d \in Cpus \ {c} : todo'[d] = todo[d] /\ held'[d] = held[d]
  BY <1>2, <1>3, <1>4, RunProgram
<1>6. OneCpuStores'
  <2>1. \A k \in DOMAIN p : p[k].op \notin DISTRIBUTOR
    BY <1>1 DEF Kinds, Reads, DISTRIBUTOR, LIC
  <2> QED BY <1>2, <1>4, <1>5, <2>1, RunStores
<1>7. UNCHANGED <<control, enabled, priority>> /\ ier' \subseteq Looked
  BY <1>4 DEF TrapLic, Registers!WriteIer, PublicationTypeOK
<1>8. UNCHANGED <<GICD_ENABLED, INTERRUPT_ENABLED, INTERRUPT_PRIORITY, LIC_SOURCE_ENABLED>>
  BY <1>2 DEF publishedVars
<1>9. StoresAreDue'
  <2>1. /\ \/ GICD_ENABLED' = control'
           \/ \E d \in Cpus : Due(todo'[d], "store_control", NETWORK)
        /\ \A i \in Looked :
             /\ \/ INTERRUPT_PRIORITY'[i] = priority'[i]
                \/ \E d \in Cpus : Due(todo'[d], "store_priority", i)
             /\ \/ i \in INTERRUPT_ENABLED' <=> i \in enabled'
                \/ \E d \in Cpus : Due(todo'[d], "store_enable", i)
    <3>1. ASSUME NEW op, NEW i, op # "take_interrupt", \E d \in Cpus : Due(todo[d], op, i)
          PROVE  \E d \in Cpus : Due(todo'[d], op, i)
      <4>1. \A k \in DOMAIN todo[c] : FALSE
        BY <1>2
      <4> QED BY <1>5, <3>1, <4>1, StaysDue
    <3> QED BY <1>4, <1>7, <1>8, <3>1 DEF StoresAreDue
  <2>2. \A i \in Looked : Due(todo'[c], "store_source", i)
    BY <1>1, <1>5
  <2> QED BY <2>1, <2>2 DEF StoresAreDue
<1>10. PublicationTypeOK'
  BY <1>2, <1>4, <1>5, <1>7, <1>8 DEF PublicationTypeOK, Records, gicVars, historyVars
<1>11. PrioritiesAreSince'
  BY <1>2, <1>4, <1>7, <1>8 DEF PrioritiesAreSince, historyVars
<1>12. IrqUnderWay'
  <2>1. In("hand")' = In("hand") /\ UNCHANGED <<loaded, seen>>
    BY <1>2 DEF gicVars, historyVars, In
  <2>2. CASE c = Boot
    <3>1. \A i : ~Due(todo[Boot], "finish", i) /\ ~Due(todo'[Boot], "finish", i)
      BY <1>2, <1>3, <1>5, <2>2 DEF Due, Op, Delivery
    <3> QED BY <1>4, <2>1, <3>1 DEF IrqUnderWay
  <2>3. CASE c # Boot
    <3>1. todo'[Boot] = todo[Boot] /\ held'[Boot] = held[Boot]
      BY <1>5, <2>3, PublicationAssumption
    <3> QED BY <1>4, <1>7, <1>8, <2>1, <3>1 DEF IrqUnderWay
  <2> QED BY <2>2, <2>3
<1>13. QueuedWhileDisabled'
  BY <1>2 DEF PublicationCore, QueuedWhileDisabled, gicVars, In
<1> QED BY <1>5, <1>6, <1>9, <1>10, <1>11, <1>12, <1>13 DEF PublicationCore

\* The boot CPU enters the vector.
LEMMA IrqStep ==
    ASSUME PublicationCore, TakeIrq
    PROVE  PublicationCore'
<1>1. /\ rust_irq \in Seq(Records) /\ Ordered(rust_irq) /\ \A i : ~Due(rust_irq, "finish", i)
      /\ \A k \in DOMAIN rust_irq : rust_irq[k].op \notin DISTRIBUTOR \cup LIC
  BY VectorProgram
<1>2. /\ todo[Boot] = <<>> /\ Run(Boot, rust_irq)
      /\ UNCHANGED <<registerVars, publishedVars, loaded, line, gicVars, historyVars>>
  BY DEF TakeIrq
<1>3. /\ PublicationTypeOK /\ ProgramsAreOrdered /\ OneCpuStores /\ StoresAreDue
      /\ PrioritiesAreSince /\ IrqUnderWay /\ Boot \in Cpus
  BY PublicationAssumption DEF PublicationCore
<1>4. /\ todo' \in [Cpus -> Seq(Records)] /\ held' \in [Cpus -> SUBSET Looked]
      /\ ProgramsAreOrdered' /\ todo'[Boot] = rust_irq
      /\ \A d \in Cpus \ {Boot} : todo'[d] = todo[d] /\ held'[d] = held[d]
  BY <1>1, <1>2, <1>3, RunProgram
<1>5. OneCpuStores'
  <2>1. \A k \in DOMAIN rust_irq : rust_irq[k].op \notin DISTRIBUTOR /\ rust_irq[k].op \notin LIC
    BY <1>1
  <2> QED BY <1>3, <1>4, <2>1, RunStores
<1>6. StoresAreDue'
  <2>1. \A k \in DOMAIN todo[Boot] : FALSE
    BY <1>2
  <2> QED BY <1>2, <1>3, <1>4, <2>1, RunKeepsDue
<1>7. PublicationTypeOK'
  BY <1>2, <1>3, <1>4 DEF PublicationTypeOK, Records, registerVars, publishedVars, gicVars, historyVars
<1>8. PrioritiesAreSince'
  BY <1>2, <1>3 DEF PrioritiesAreSince, registerVars, publishedVars, historyVars
<1>9. IrqUnderWay'
  <2>1. In("hand")' = In("hand")
    BY <1>2 DEF gicVars, In
  <2>2. \A i : ~Due(todo[Boot], "finish", i) /\ ~Due(todo'[Boot], "finish", i)
    BY <1>1, <1>2, <1>4 DEF Due
  <2> QED BY <1>3, <2>1, <2>2 DEF IrqUnderWay
<1>10. QueuedWhileDisabled'
  BY <1>2 DEF PublicationCore, QueuedWhileDisabled, gicVars, In
<1> QED BY <1>4, <1>5, <1>6, <1>7, <1>8, <1>9, <1>10 DEF PublicationCore

\* It takes an owned interrupt: nothing else was left for it to do.
LEMMA TakeStep ==
    ASSUME PublicationCore, NEW i \in Looked, TakeInterrupt(i)
    PROVE  PublicationCore'
<1> DEFINE p == service_owned(i)
<1>1. /\ p \in Seq(Records) /\ Ordered(p)
      /\ Due(p, "load_enable", i) /\ Due(p, "load_priority", i)
      /\ \A j : Due(p, "finish", j) <=> j = i
      /\ \A k \in DOMAIN p : p[k].op \notin DISTRIBUTOR \cup LIC
  BY IrqProgram
<1>2. /\ todo[Boot] # <<>> /\ Head(todo[Boot]).op = "take_interrupt" /\ Run(Boot, p)
      /\ raised' = raised \ {i} /\ place' = [place EXCEPT ![i] = "hand"] /\ seen' = {}
      /\ UNCHANGED <<registerVars, publishedVars, loaded, line, distributor_enabled, since>>
  BY DEF TakeInterrupt
<1> HIDE DEF p
<1>3. /\ PublicationTypeOK /\ ProgramsAreOrdered /\ OneCpuStores /\ StoresAreDue
      /\ PrioritiesAreSince /\ IrqUnderWay /\ QueuedWhileDisabled /\ Boot \in Cpus
  BY PublicationAssumption DEF PublicationCore
<1>4. /\ todo' \in [Cpus -> Seq(Records)] /\ held' \in [Cpus -> SUBSET Looked]
      /\ ProgramsAreOrdered' /\ todo'[Boot] = p
      /\ \A d \in Cpus \ {Boot} : todo'[d] = todo[d] /\ held'[d] = held[d]
  BY <1>1, <1>2, <1>3, RunProgram
<1>5. OneCpuStores'
  <2>1. \A k \in DOMAIN p : p[k].op \notin DISTRIBUTOR /\ p[k].op \notin LIC
    BY <1>1
  <2> QED BY <1>3, <1>4, <2>1, RunStores
<1>6. \A k \in DOMAIN todo[Boot] : todo[Boot][k].op = "take_interrupt"
  <2> DEFINE s == todo[Boot]
  <2>1. s \in Seq(Records) /\ s # <<>>
    BY <1>2, <1>3 DEF PublicationTypeOK, Records
  <2>2. /\ Head(s) = s[1] /\ 1 \in DOMAIN s /\ DOMAIN s = 1 .. Len(s)
    BY <2>1, TailElements
  <2>3. 1 = Len(s)
    BY <1>2, <1>3, <2>2 DEF ProgramsAreOrdered, Ordered
  <2>4. \A k \in DOMAIN s : s[k] = Head(s)
    BY <2>2, <2>3
  <2> QED BY <1>2, <2>4
<1>7. StoresAreDue'
  BY <1>2, <1>3, <1>4, <1>6, RunKeepsDue
<1>8. PublicationTypeOK'
  <2>1. place' \in [Looked -> Places] /\ raised' \subseteq Looked
    BY <1>2, <1>3 DEF PublicationTypeOK, Places
  <2> QED BY <1>2, <1>3, <1>4, <2>1 DEF PublicationTypeOK, Records, registerVars, publishedVars
<1>9. PrioritiesAreSince'
  BY <1>2, <1>3 DEF PrioritiesAreSince, registerVars, publishedVars
<1>10. IrqUnderWay'
  <2>1. \A j \in Looked : j \notin In("hand")
    <3>1. \A j : ~Due(todo[Boot], "finish", j)
      BY <1>6 DEF Due, Op
    <3> QED BY <1>3, <3>1 DEF IrqUnderWay
  <2>2. \A j \in Looked : j \in In("hand")' <=> j = i
    BY <1>2, <1>3, <2>1 DEF In, PublicationTypeOK
  <2> QED BY <1>1, <1>4, <2>2 DEF IrqUnderWay
<1>11. QueuedWhileDisabled'
  <2>1. In("queued")' \subseteq In("queued")
    BY <1>2, <1>3 DEF In, PublicationTypeOK
  <2> QED BY <1>2, <1>3, <2>1 DEF QueuedWhileDisabled
<1> QED BY <1>4, <1>5, <1>7, <1>8, <1>9, <1>10, <1>11 DEF PublicationCore

\* What the guest does with the interrupts that it has.
LEMMA GuestStep ==
    ASSUME PublicationCore, NEW i \in Looked, GuestAck(i) \/ GuestEoi(i)
    PROVE  PublicationCore'
<1>1. PICK p \in {"guest", "inactive"} :
        /\ place' = [place EXCEPT ![i] = p] /\ place[i] \in {"register", "guest"}
        /\ UNCHANGED <<control, enabled, priority, ier, GICD_ENABLED, INTERRUPT_ENABLED,
                       INTERRUPT_PRIORITY, LIC_SOURCE_ENABLED, todo, held, loaded, line, raised,
                       distributor_enabled, since, seen>>
  BY DEF GuestAck, GuestEoi, registerVars, publishedVars, historyVars
<1>2. place' \in [Looked -> Places] /\ place \in [Looked -> Places]
  BY <1>1 DEF PublicationCore, PublicationTypeOK, Places
<1>3. In("hand")' = In("hand") /\ In("queued")' = In("queued")
  BY <1>1, <1>2 DEF In
<1>4. PublicationTypeOK'
  BY <1>1, <1>2 DEF PublicationCore, PublicationTypeOK
<1>5. ProgramsAreOrdered' /\ OneCpuStores'
  BY <1>1 DEF PublicationCore, ProgramsAreOrdered, OneCpuStores, HeldByOne
<1>6. StoresAreDue' /\ PrioritiesAreSince'
  BY <1>1 DEF PublicationCore, StoresAreDue, PrioritiesAreSince
<1>7. IrqUnderWay' /\ QueuedWhileDisabled'
  BY <1>1, <1>3 DEF PublicationCore, IrqUnderWay, QueuedWhileDisabled
<1> QED BY <1>4, <1>5, <1>6, <1>7 DEF PublicationCore

\* One operation of a program, in the parts that it changes.
LEMMA StepFacts ==
    ASSUME PublicationCore, NEW c \in Cpus, Step(c)
    PROVE  /\ todo[c] \in Seq(Records) /\ todo[c] # <<>> /\ Head(todo[c]) \in Records
           /\ todo' \in [Cpus -> Seq(Records)] /\ todo'[c] = Tail(todo[c])
           /\ held' \in [Cpus -> SUBSET Looked]
           /\ \A d \in Cpus \ {c} : todo'[d] = todo[d] /\ held'[d] = held[d]
           /\ UNCHANGED <<control, enabled, priority, ier, line, since>>
<1>1. /\ todo \in [Cpus -> Seq(Records)] /\ held \in [Cpus -> SUBSET Looked]
      /\ todo[c] # <<>> /\ todo' = [todo EXCEPT ![c] = Tail(todo[c])]
  BY DEF PublicationCore, PublicationTypeOK, Records, Step
<1>2. Tail(todo[c]) \in Seq(Records) /\ Head(todo[c]) \in Records
  BY <1>1, TailElements
<1>3. PICK h \in SUBSET Looked : held' = [held EXCEPT ![c] = h]
  <2>1. held[c] \in SUBSET Looked /\ held[c] \ {Head(todo[c]).id} \in SUBSET Looked
    BY <1>1
  <2> QED BY <2>1 DEF Step
<1>4. UNCHANGED <<control, enabled, priority, ier, line, since>>
  BY DEF Step, registerVars
<1> QED BY <1>1, <1>2, <1>3, <1>4

LEMMA StepPrograms ==
    ASSUME PublicationCore, NEW c \in Cpus, Step(c)
    PROVE  ProgramsAreOrdered' /\ OneCpuStores'
<1> DEFINE s == todo[c]
           t == Tail(s)
<1>1. /\ s \in Seq(Records) /\ s # <<>> /\ todo'[c] = t
      /\ \A d \in Cpus \ {c} : todo'[d] = todo[d]
  BY StepFacts
<1>2. \A k \in DOMAIN t : k + 1 \in DOMAIN s /\ t[k] = s[k + 1]
  BY <1>1, TailElements
<1>3. Ordered(t)
  BY <1>1, OrderedTail DEF PublicationCore, ProgramsAreOrdered
<1> HIDE DEF t
<1>4. \A d \in Cpus : \A k \in DOMAIN todo'[d] :
        \E l \in DOMAIN todo[d] : todo'[d][k] = todo[d][l]
  <2> TAKE d \in Cpus
  <2> TAKE k \in DOMAIN todo'[d]
  <2>1. CASE d = c
    BY <1>1, <1>2, <2>1
  <2>2. CASE d # c
    BY <1>1, <2>2
  <2> QED BY <2>1, <2>2
<1>5. OneCpuStores'
  <2>1. ASSUME NEW lock, HeldByOne(lock) PROVE HeldByOne(lock)'
    <3> SUFFICES ASSUME NEW d \in Cpus, NEW e \in Cpus,
                        NEW j \in DOMAIN todo'[d], NEW k \in DOMAIN todo'[e],
                        todo'[d][j].op \in lock, todo'[e][k].op \in lock
                 PROVE  d = e
      BY DEF HeldByOne
    <3>1. PICK l \in DOMAIN todo[d] : todo'[d][j] = todo[d][l]
      BY <1>4
    <3>2. PICK m \in DOMAIN todo[e] : todo'[e][k] = todo[e][m]
      BY <1>4
    <3> QED BY <2>1, <3>1, <3>2 DEF HeldByOne
  <2>2. HeldByOne(DISTRIBUTOR)' /\ HeldByOne(LIC)'
    BY <2>1 DEF PublicationCore, OneCpuStores
  <2> QED BY <2>2 DEF OneCpuStores
<1>6. ProgramsAreOrdered'
  <2>1. ASSUME NEW d \in Cpus
        PROVE  /\ Ordered(todo'[d])
               /\ d # Boot => \A k \in DOMAIN todo'[d] :
                               todo'[d][k].op \notin Delivery
    <3>1. Ordered(todo'[d])
      <4>1. CASE d = c
        BY <1>1, <1>3, <4>1
      <4>2. CASE d # c
        BY <1>1, <4>2 DEF PublicationCore, ProgramsAreOrdered
      <4> QED BY <4>1, <4>2
    <3>2. ASSUME d # Boot, NEW k \in DOMAIN todo'[d]
          PROVE  todo'[d][k].op \notin Delivery
      <4>1. PICK l \in DOMAIN todo[d] : todo'[d][k] = todo[d][l]
        BY <1>4
      <4> QED BY <3>2, <4>1 DEF PublicationCore, ProgramsAreOrdered
    <3> QED BY <3>1, <3>2
  <2> QED BY <2>1 DEF ProgramsAreOrdered
<1> QED BY <1>5, <1>6

LEMMA StepStores ==
    ASSUME PublicationCore, NEW c \in Cpus, Step(c)
    PROVE  StoresAreDue'
<1> DEFINE s == todo[c]
           o == Head(s).op
           n == Head(s).id
<1>1. /\ s \in Seq(Records) /\ s # <<>> /\ todo'[c] = Tail(s) /\ Head(s) \in Records
      /\ \A d \in Cpus \ {c} : todo'[d] = todo[d]
      /\ UNCHANGED <<control, enabled, priority, ier>>
  BY StepFacts
<1>2. Head(s) = Op(o, n)
  BY <1>1 DEF Records, Op
<1>3. ASSUME NEW op, NEW i, ~(o = op /\ n = i), \E d \in Cpus : Due(todo[d], op, i)
      PROVE  \E d \in Cpus : Due(todo'[d], op, i)
  <2>1. PICK d \in Cpus : Due(todo[d], op, i)
    BY <1>3
  <2>2. CASE d # c
    BY <1>1, <2>1, <2>2
  <2>3. CASE d = c
    <3>1. Head(s) # Op(op, i)
      BY <1>3 DEF Op
    <3>2. Due(Tail(s), op, i)
      BY <1>1, <2>1, <2>3, <3>1, DueTail
    <3> QED BY <1>1, <3>2
  <2> QED BY <2>2, <2>3
<1>4. /\ INTERRUPT_PRIORITY' = IF o = "store_priority"
                               THEN [INTERRUPT_PRIORITY EXCEPT ![n] = priority[n]]
                               ELSE INTERRUPT_PRIORITY
      /\ INTERRUPT_ENABLED' = IF o = "store_enable" THEN Copy(INTERRUPT_ENABLED, enabled, n)
                              ELSE INTERRUPT_ENABLED
      /\ LIC_SOURCE_ENABLED' = IF o = "store_source" THEN Copy(LIC_SOURCE_ENABLED, ier, n)
                               ELSE LIC_SOURCE_ENABLED
      /\ GICD_ENABLED' = IF o = "store_control" THEN control ELSE GICD_ENABLED
  BY DEF Step
<1> HIDE DEF s, o, n
<1>5. GICD_ENABLED' = control' \/ \E d \in Cpus : Due(todo'[d], "store_control", NETWORK)
  <2>1. CASE o = "store_control"
    BY <1>1, <1>4, <2>1
  <2>2. CASE o # "store_control"
    BY <1>1, <1>3, <1>4, <2>2 DEF PublicationCore, StoresAreDue
  <2> QED BY <2>1, <2>2
<1>6. ASSUME NEW i \in Looked
      PROVE  \/ INTERRUPT_PRIORITY'[i] = priority'[i]
             \/ \E d \in Cpus : Due(todo'[d], "store_priority", i)
  <2>1. CASE o = "store_priority" /\ n = i
    BY <1>1, <1>4, <2>1 DEF PublicationCore, PublicationTypeOK
  <2>2. CASE ~(o = "store_priority" /\ n = i)
    <3>1. INTERRUPT_PRIORITY'[i] = INTERRUPT_PRIORITY[i]
      BY <1>4, <2>2 DEF PublicationCore, PublicationTypeOK
    <3> QED BY <1>1, <1>3, <2>2, <3>1 DEF PublicationCore, StoresAreDue
  <2> QED BY <2>1, <2>2
<1>7. ASSUME NEW i \in Looked
      PROVE  \/ i \in INTERRUPT_ENABLED' <=> i \in enabled'
             \/ \E d \in Cpus : Due(todo'[d], "store_enable", i)
  <2>1. CASE o = "store_enable" /\ n = i
    BY <1>1, <1>4, <2>1 DEF Copy
  <2>2. CASE ~(o = "store_enable" /\ n = i)
    <3>1. i \in INTERRUPT_ENABLED' <=> i \in INTERRUPT_ENABLED
      BY <1>4, <2>2 DEF Copy
    <3> QED BY <1>1, <1>3, <2>2, <3>1 DEF PublicationCore, StoresAreDue
  <2> QED BY <2>1, <2>2
<1>8. ASSUME NEW i \in Looked
      PROVE  \/ i \in LIC_SOURCE_ENABLED' <=> i \in ier'
             \/ \E d \in Cpus : Due(todo'[d], "store_source", i)
  <2>1. CASE o = "store_source" /\ n = i
    BY <1>1, <1>4, <2>1 DEF Copy
  <2>2. CASE ~(o = "store_source" /\ n = i)
    <3>1. i \in LIC_SOURCE_ENABLED' <=> i \in LIC_SOURCE_ENABLED
      BY <1>4, <2>2 DEF Copy
    <3> QED BY <1>1, <1>3, <2>2, <3>1 DEF PublicationCore, StoresAreDue
  <2> QED BY <2>1, <2>2
<1> QED BY <1>5, <1>6, <1>7, <1>8 DEF StoresAreDue

\* The enable is stored after the priority, and only one CPU stores.
LEMMA StepSince ==
    ASSUME PublicationCore, NEW c \in Cpus, Step(c)
    PROVE  PrioritiesAreSince'
<1> DEFINE s == todo[c]
           o == Head(s).op
           n == Head(s).id
<1>1. /\ s \in Seq(Records) /\ s # <<>> /\ Head(s) \in Records
      /\ UNCHANGED <<enabled, priority, since>>
  BY StepFacts
<1>2. /\ Head(s) = s[1] /\ 1 \in DOMAIN s /\ DOMAIN s = 1 .. Len(s) /\ Len(s) \in Nat
  BY <1>1, TailElements
<1>3. /\ INTERRUPT_PRIORITY' = IF o = "store_priority"
                               THEN [INTERRUPT_PRIORITY EXCEPT ![n] = priority[n]]
                               ELSE INTERRUPT_PRIORITY
      /\ INTERRUPT_ENABLED' = IF o = "store_enable" THEN Copy(INTERRUPT_ENABLED, enabled, n)
                              ELSE INTERRUPT_ENABLED
  BY DEF Step
<1>4. /\ \A i \in enabled \cup INTERRUPT_ENABLED : priority[i] \in since[i] /\ i \in Looked
      /\ \A i \in INTERRUPT_ENABLED : INTERRUPT_PRIORITY[i] \in since[i]
      /\ INTERRUPT_PRIORITY \in [Looked -> Priorities]
  BY DEF PublicationCore, PrioritiesAreSince, PublicationTypeOK
<1>5. ASSUME o = "store_enable", NEW i \in Looked
      PROVE  INTERRUPT_PRIORITY[i] = priority[i]
  <2>1. ASSUME NEW d \in Cpus, Due(todo[d], "store_priority", i) PROVE FALSE
    <3>1. PICK k \in DOMAIN todo[d] : todo[d][k] = Op("store_priority", i)
      BY <2>1 DEF Due
    <3>2. todo[d][k].op \in DISTRIBUTOR /\ todo[d][k].op = "store_priority"
      BY <3>1 DEF DISTRIBUTOR, Op
    <3>3. s[1].op \in DISTRIBUTOR
      BY <1>2, <1>5 DEF DISTRIBUTOR
    <3>4. d = c
      BY <1>2, <3>2, <3>3 DEF PublicationCore, OneCpuStores, HeldByOne
    <3>5. k < 1
      BY <1>2, <1>5, <3>2, <3>4 DEF PublicationCore, ProgramsAreOrdered, Ordered
    <3> QED BY <1>2, <3>4, <3>5
  <2> QED BY <2>1 DEF PublicationCore, StoresAreDue
<1> HIDE DEF s, o, n
<1>6. CASE o = "store_priority"
  <2>1. INTERRUPT_ENABLED' = INTERRUPT_ENABLED
    BY <1>3, <1>6
  <2>2. \A i \in Looked : INTERRUPT_PRIORITY'[i] = INTERRUPT_PRIORITY[i]
                       \/ INTERRUPT_PRIORITY'[i] = priority[i]
    BY <1>3, <1>4, <1>6
  <2> QED BY <1>1, <1>4, <2>1, <2>2 DEF PrioritiesAreSince
<1>7. CASE o = "store_enable"
  <2>1. INTERRUPT_PRIORITY' = INTERRUPT_PRIORITY
    BY <1>3, <1>7
  <2>2. \A i \in INTERRUPT_ENABLED' : i \in INTERRUPT_ENABLED \/ i \in enabled
    BY <1>3, <1>7 DEF Copy
  <2>3. ASSUME NEW i \in enabled \cup INTERRUPT_ENABLED' PROVE priority[i] \in since[i]
    BY <1>4, <2>2
  <2>4. ASSUME NEW i \in INTERRUPT_ENABLED' PROVE INTERRUPT_PRIORITY[i] \in since[i]
    BY <1>4, <1>5, <1>7, <2>2
  <2> QED BY <1>1, <2>1, <2>3, <2>4 DEF PrioritiesAreSince
<1>8. CASE o \notin {"store_priority", "store_enable"}
  <2>1. INTERRUPT_PRIORITY' = INTERRUPT_PRIORITY /\ INTERRUPT_ENABLED' = INTERRUPT_ENABLED
    BY <1>3, <1>8
  <2> QED BY <1>1, <1>4, <2>1 DEF PrioritiesAreSince
<1> QED BY <1>6, <1>7, <1>8

\* What the controllers do in a step.
LEMMA StepGic ==
    ASSUME PublicationCore, NEW c \in Cpus, Step(c)
    PROVE  LET o == Head(todo[c]).op
               i == Head(todo[c]).id
           IN  /\ In("hand")' = IF o = "finish" THEN In("hand") \ {i} ELSE In("hand")
               /\ raised' \subseteq Looked /\ place' \in [Looked -> Places]
               /\ distributor_enabled' \in BOOLEAN
               /\ QueuedWhileDisabled'
<1> DEFINE s == todo[c]
           o == Head(s).op
           i == Head(s).id
<1>1. s \in Seq(Records) /\ s # <<>> /\ Head(s) \in Records
  BY StepFacts
<1>2. Head(s) = s[1] /\ 1 \in DOMAIN s
  BY <1>1, TailElements
<1>3. /\ held[c] \subseteq Looked /\ raised \subseteq Looked /\ place \in [Looked -> Places]
      /\ distributor_enabled \in BOOLEAN /\ GICD_ENABLED \in BOOLEAN /\ QueuedWhileDisabled
  BY DEF PublicationCore, PublicationTypeOK
<1>4. \/ o = "finish" /\ finish_owned_interrupt(i, i \in held[c])
      \/ o = "set_distributor_enabled" /\ Synchronize
      \/ /\ o = "pend" /\ i \in held[c] /\ raised' = raised \cup {i}
         /\ UNCHANGED <<place, distributor_enabled>>
      \/ o # "finish" /\ UNCHANGED gicVars
  BY DEF Step
<1>5. Places = {"inactive", "hand", "queued", "register", "guest"}
  BY DEF Places
<1> HIDE DEF s, o, i
<1>6. CASE o = "finish" /\ finish_owned_interrupt(i, i \in held[c])
  <2>1. PICK p \in {"inactive", "register", "queued"} :
          /\ place' = [place EXCEPT ![i] = p]
          /\ p = "queued" => ~distributor_enabled
    BY <1>6 DEF finish_owned_interrupt
  <2>2. UNCHANGED distributor_enabled /\ raised' \subseteq Looked
    BY <1>3, <1>6 DEF finish_owned_interrupt
  <2>3. place' \in [Looked -> Places]
    BY <1>3, <1>5, <2>1
  <2>4. In("hand")' = In("hand") \ {i}
    BY <1>3, <2>1 DEF In
  <2>5. In("queued")' \subseteq In("queued") \/ p = "queued"
    BY <1>3, <2>1 DEF In
  <2>6. QueuedWhileDisabled'
    BY <1>3, <2>1, <2>2, <2>5 DEF QueuedWhileDisabled
  <2> QED BY <1>3, <1>6, <2>2, <2>3, <2>4, <2>6 DEF s, o, i
<1>7. CASE o = "set_distributor_enabled" /\ Synchronize
  <2>1. /\ raised' = raised /\ distributor_enabled' = GICD_ENABLED
        /\ place' = IF GICD_ENABLED /\ ~distributor_enabled
                    THEN [j \in Looked |-> IF place[j] = "queued" THEN "register" ELSE place[j]]
                    ELSE place
    BY <1>7 DEF Synchronize
  <2>2. place' \in [Looked -> Places]
    BY <1>3, <1>5, <2>1
  <2>3. In("hand")' = In("hand")
    BY <1>3, <2>1 DEF In
  <2>4. QueuedWhileDisabled'
    <3>1. CASE GICD_ENABLED /\ ~distributor_enabled
      <4>1. In("queued")' = {}
        BY <1>3, <2>1, <3>1 DEF In
      <4> QED BY <4>1 DEF QueuedWhileDisabled
    <3>2. CASE ~(GICD_ENABLED /\ ~distributor_enabled)
      <4>1. In("queued")' = In("queued")
        BY <2>1, <3>2 DEF In
      <4> QED BY <1>3, <2>1, <3>2, <4>1 DEF QueuedWhileDisabled
    <3> QED BY <3>1, <3>2
  <2> QED BY <1>3, <1>7, <2>1, <2>2, <2>3, <2>4 DEF s, o, i
<1>8. CASE \/ /\ o = "pend" /\ i \in held[c] /\ raised' = raised \cup {i}
              /\ UNCHANGED <<place, distributor_enabled>>
           \/ o # "finish" /\ UNCHANGED gicVars
  <2>1. /\ o # "finish" /\ raised' \subseteq Looked
        /\ UNCHANGED <<place, distributor_enabled>>
    BY <1>3, <1>8 DEF gicVars
  <2>2. In("hand")' = In("hand") /\ QueuedWhileDisabled'
    BY <1>3, <2>1 DEF In, QueuedWhileDisabled
  <2> QED BY <1>3, <2>1, <2>2 DEF s, o, i
<1> QED BY <1>4, <1>6, <1>7, <1>8

LEMMA StepTypes ==
    ASSUME PublicationCore, NEW c \in Cpus, Step(c)
    PROVE  PublicationTypeOK'
<1> DEFINE o == Head(todo[c]).op
           i == Head(todo[c]).id
<1>1. PublicationTypeOK
  BY DEF PublicationCore
<1>2. /\ todo' \in [Cpus -> Seq(Records)] /\ held' \in [Cpus -> SUBSET Looked]
      /\ UNCHANGED <<control, enabled, priority, ier, line, since>>
  BY StepFacts
<1>3. /\ raised' \subseteq Looked /\ place' \in [Looked -> Places]
      /\ distributor_enabled' \in BOOLEAN
  BY StepGic
<1>4. INTERRUPT_PRIORITY' \in [Looked -> Priorities]
  <2>1. INTERRUPT_PRIORITY' = [INTERRUPT_PRIORITY EXCEPT ![i] = priority[i]]
        \/ INTERRUPT_PRIORITY' = INTERRUPT_PRIORITY
    BY DEF Step
  <2> HIDE DEF i
  <2> QED BY <1>1, <2>1 DEF PublicationTypeOK
<1>5. INTERRUPT_ENABLED' \subseteq Looked /\ LIC_SOURCE_ENABLED' \subseteq Looked
  <2>1. INTERRUPT_ENABLED' = Copy(INTERRUPT_ENABLED, enabled, i)
        \/ INTERRUPT_ENABLED' = INTERRUPT_ENABLED
    BY DEF Step
  <2>2. LIC_SOURCE_ENABLED' = Copy(LIC_SOURCE_ENABLED, ier, i)
        \/ LIC_SOURCE_ENABLED' = LIC_SOURCE_ENABLED
    BY DEF Step
  <2> HIDE DEF i
  <2> QED BY <1>1, <2>1, <2>2 DEF PublicationTypeOK, Copy
<1>6. GICD_ENABLED' \in BOOLEAN
  BY <1>1 DEF Step, PublicationTypeOK
<1>7. seen' \subseteq Priorities
  <2>1. seen' = {} \/ seen' = seen \/ (i \in Looked /\ seen' = since[i])
    BY DEF Step, In
  <2> HIDE DEF i
  <2> QED BY <1>1, <2>1 DEF PublicationTypeOK
<1> QED BY <1>1, <1>2, <1>3, <1>4, <1>5, <1>6, <1>7 DEF PublicationTypeOK, Records

\* Once the enable has been found, what can be loaded may be delivered.
LEMMA StepIrq ==
    ASSUME PublicationCore, NEW c \in Cpus, Step(c)
    PROVE  IrqUnderWay'
<1> DEFINE s == todo[c]
           t == Tail(s)
           o == Head(s).op
           n == Head(s).id
<1>1. /\ s \in Seq(Records) /\ s # <<>> /\ Head(s) \in Records /\ todo'[c] = t
      /\ \A d \in Cpus \ {c} : todo'[d] = todo[d] /\ held'[d] = held[d]
      /\ priority' = priority
  BY StepFacts
<1>2. /\ Head(s) = s[1] /\ 1 \in DOMAIN s /\ DOMAIN s = 1 .. Len(s) /\ Len(s) \in Nat
      /\ DOMAIN t = 1 .. Len(s) - 1
  BY <1>1, TailElements
<1>3. Head(s) = Op(o, n)
  BY <1>1 DEF Records, Op
<1>4. /\ \A op, i : Due(t, op, i) => Due(s, op, i)
      /\ \A op, i : Due(s, op, i) => Due(t, op, i) \/ (o = op /\ n = i)
      /\ Due(s, o, n)
  <2>1. ASSUME NEW op, NEW i
        PROVE  /\ Due(t, op, i) => Due(s, op, i)
               /\ Due(s, op, i) => Due(t, op, i) \/ (o = op /\ n = i)
    <3>1. /\ Due(t, op, i) => Due(s, op, i)
          /\ Due(s, op, i) => Due(t, op, i) \/ Head(s) = Op(op, i)
      BY <1>1, DueTail
    <3>2. Head(s) = Op(op, i) => o = op /\ n = i
      BY DEF Op
    <3> QED BY <3>1, <3>2
  <2>2. Due(s, o, n)
    BY <1>2, <1>3 DEF Due
  <2> QED BY <2>1, <2>2
<1>5. In("hand")' = IF o = "finish" THEN In("hand") \ {n} ELSE In("hand")
  BY StepGic
<1>6. /\ loaded' = IF o = "load_priority" THEN INTERRUPT_PRIORITY[n]
                   ELSE IF o = "finish" THEN Unloaded ELSE loaded
      /\ seen' = IF o = "finish" THEN {}
                 ELSE IF o = "load_enable" /\ c = Boot /\ n \in In("hand")
                 THEN since[n] ELSE seen
      /\ held' = [held EXCEPT ![c] = IF t = <<>> THEN Looked
                                     ELSE IF Held(o, n) THEN held[c] ELSE held[c] \ {n}]
  BY DEF Step
<1>7. \A i \in Looked : INTERRUPT_PRIORITY'[i] \in {INTERRUPT_PRIORITY[i], priority[i]}
                     /\ (o # "store_priority" => INTERRUPT_PRIORITY'[i] = INTERRUPT_PRIORITY[i])
  <2>1. INTERRUPT_PRIORITY' = IF o = "store_priority"
                              THEN [INTERRUPT_PRIORITY EXCEPT ![n] = priority[n]]
                              ELSE INTERRUPT_PRIORITY
    BY DEF Step
  <2> HIDE DEF o, n
  <2> QED BY <2>1 DEF PublicationCore, PublicationTypeOK
<1>8. /\ \A i \in Looked : i \in In("hand") <=> Due(todo[Boot], "finish", i)
      /\ \A i \in held[Boot] : Due(todo[Boot], "finish", i) =>
           /\ ~Due(todo[Boot], "load_enable", i) => {INTERRUPT_PRIORITY[i], priority[i]} \subseteq seen
           /\ ~Due(todo[Boot], "load_priority", i) => loaded \in seen
      /\ Boot \in Cpus /\ held \in [Cpus -> SUBSET Looked]
  BY PublicationAssumption DEF PublicationCore, IrqUnderWay, PublicationTypeOK
<1>9. Ordered(s)
  BY DEF PublicationCore, ProgramsAreOrdered
<1>10. c # Boot => o \notin {"finish", "load_priority"}
  BY <1>2 DEF PublicationCore, ProgramsAreOrdered, Delivery
<1>11. Held("load_enable", n) => n \in INTERRUPT_ENABLED
  BY DEF Held
<1>12. \A i \in INTERRUPT_ENABLED : INTERRUPT_PRIORITY[i] \in since[i] /\ priority[i] \in since[i]
  BY DEF PublicationCore, PrioritiesAreSince
<1> HIDE DEF s, t, o, n
<1>13. CASE c # Boot
  <2>1. todo'[Boot] = todo[Boot] /\ held'[Boot] = held[Boot]
    BY <1>1, <1>8, <1>13
  <2>2. In("hand")' = In("hand") /\ UNCHANGED <<loaded, seen>>
    BY <1>5, <1>6, <1>10, <1>13
  <2>3. ASSUME NEW i \in held[Boot], Due(todo[Boot], "finish", i)
        PROVE  /\ ~Due(todo[Boot], "load_enable", i)
                    => {INTERRUPT_PRIORITY'[i], priority[i]} \subseteq seen
               /\ ~Due(todo[Boot], "load_priority", i) => loaded \in seen
    BY <1>7, <1>8, <2>3
  <2> QED BY <1>1, <1>8, <2>1, <2>2, <2>3 DEF IrqUnderWay
<1>14. CASE c = Boot /\ o = "finish"
  <2>1. 1 = Len(s)
    BY <1>2, <1>9, <1>14 DEF Ordered, o
  <2>2. \A op, i : ~Due(t, op, i)
    <3>1. DOMAIN t = 1 .. Len(s) - 1 /\ Len(s) = 1
      BY <1>2, <2>1
    <3>2. ASSUME NEW k \in DOMAIN t PROVE FALSE
      BY <3>1, <3>2
    <3> QED BY <3>2, Zenon DEF Due
  <2>3. \A i \in Looked : i \in In("hand") => i = n
    BY <1>4, <1>8, <1>14, <2>2 DEF s
  <2>4. \A i \in Looked : i \notin In("hand")'
    BY <1>5, <1>14, <2>3
  <2>5. todo'[Boot] = t
    BY <1>1, <1>14
  <2> QED BY <2>2, <2>4, <2>5 DEF IrqUnderWay
<1>15. CASE c = Boot /\ o # "finish"
  <2>1. todo'[Boot] = t /\ s = todo[Boot] /\ In("hand")' = In("hand")
    BY <1>1, <1>5, <1>15 DEF s
  <2>2. \A i : Due(t, "finish", i) <=> Due(s, "finish", i)
    BY <1>4, <1>15
  <2>3. ASSUME NEW i, NEW j, Due(s, "finish", i), Due(s, "finish", j) PROVE i = j
    <3>1. PICK k \in DOMAIN s : s[k] = Op("finish", i)
      BY <2>3 DEF Due
    <3>2. PICK l \in DOMAIN s : s[l] = Op("finish", j)
      BY <2>3 DEF Due
    <3>3. k = Len(s) /\ l = Len(s)
      BY <1>9, <3>1, <3>2 DEF Ordered, Op
    <3> QED BY <3>1, <3>2, <3>3 DEF Op
  <2>4. ASSUME NEW i \in held'[Boot], Due(t, "finish", i)
        PROVE  /\ ~Due(t, "load_enable", i) => {INTERRUPT_PRIORITY'[i], priority[i]} \subseteq seen'
               /\ ~Due(t, "load_priority", i) => loaded' \in seen'
    <3>1. t # <<>>
      BY <2>4 DEF Due
    <3>2. i \in held[Boot] /\ (n = i => Held(o, n))
      BY <1>6, <1>8, <1>15, <2>4, <3>1
    <3>3. i \in Looked /\ Due(s, "finish", i) /\ i \in In("hand")
      BY <1>8, <2>1, <2>2, <2>4, <3>2
    <3>4. n \in In("hand") => n = i
      BY <1>8, <2>1, <2>3, <3>3 DEF In
    <3>5. /\ ~Due(s, "load_enable", i) => INTERRUPT_PRIORITY[i] \in seen /\ priority[i] \in seen
          /\ ~Due(s, "load_priority", i) => loaded \in seen
      BY <1>8, <2>1, <3>2, <3>3
    <3>6. ASSUME ~Due(t, "load_enable", i)
          PROVE  INTERRUPT_PRIORITY'[i] \in seen' /\ priority[i] \in seen'
      <4>1. CASE o = "load_enable" /\ n = i
        <5>1. i \in INTERRUPT_ENABLED
          BY <1>11, <3>2, <4>1
        <5>2. seen' = since[i] /\ INTERRUPT_PRIORITY'[i] = INTERRUPT_PRIORITY[i]
          BY <1>6, <1>7, <1>15, <3>3, <4>1
        <5> QED BY <1>12, <5>1, <5>2
      <4>2. CASE ~(o = "load_enable" /\ n = i)
        <5>1. ~Due(s, "load_enable", i)
          BY <1>4, <3>6, <4>2
        <5>2. seen' = seen
          BY <1>6, <1>15, <3>4, <4>2
        <5> QED BY <1>7, <3>3, <3>5, <5>1, <5>2
      <4> QED BY <4>1, <4>2
    <3>7. ASSUME ~Due(t, "load_priority", i)
          PROVE  loaded' \in seen'
      <4>1. CASE o = "load_priority"
        <5>1. PICK k \in DOMAIN s : s[k] = Op("finish", i)
          BY <3>3 DEF Due
        <5>2. n = i
          BY <1>2, <1>3, <1>9, <4>1, <5>1 DEF Ordered, Op
        <5>3. ~Due(s, "load_enable", i)
          <6> SUFFICES ASSUME NEW l \in DOMAIN s, s[l] = Op("load_enable", i)
                       PROVE  FALSE
            BY DEF Due
          <6>1. s[1].op = "load_priority" /\ s[1].id = i
            BY <1>2, <1>3, <4>1, <5>2 DEF Op
          <6>2. l < 1
            BY <1>2, <1>9, <6>1 DEF Ordered
          <6> QED BY <1>2, <6>2
        <5>4. loaded' = INTERRUPT_PRIORITY[i] /\ seen' = seen
          BY <1>6, <4>1, <5>2
        <5> QED BY <3>5, <5>3, <5>4
      <4>2. CASE o # "load_priority"
        <5>1. ~Due(s, "load_priority", i)
          BY <1>4, <3>7, <4>2
        <5>2. ~(o = "load_enable" /\ n = i)
          BY <1>4, <1>9, <3>3, <5>1 DEF Ordered
        <5>3. seen' = seen /\ loaded' = loaded
          BY <1>6, <1>15, <3>4, <4>2, <5>2
        <5> QED BY <3>5, <5>1, <5>3
      <4> QED BY <4>1, <4>2
    <3> QED BY <3>6, <3>7
  <2> QED BY <1>1, <1>8, <2>1, <2>2, <2>4 DEF IrqUnderWay
<1> QED BY <1>13, <1>14, <1>15

LEMMA PublicationStart ==
    ASSUME PublicationInit
    PROVE  PublicationCore
<1>1. <<>> \in Seq(Records) /\ DOMAIN <<>> = {}
  OBVIOUS
<1>2. /\ todo = [c \in Cpus |-> <<>>] /\ held = [c \in Cpus |-> Looked]
      /\ control \in BOOLEAN /\ enabled = {} /\ ier = {}
      /\ GICD_ENABLED = control /\ INTERRUPT_ENABLED = enabled
      /\ INTERRUPT_PRIORITY = priority /\ LIC_SOURCE_ENABLED = ier
      /\ line = {} /\ raised = {} /\ place = [i \in Looked |-> "inactive"]
      /\ distributor_enabled = control
      /\ since = [i \in Looked |-> {}] /\ seen = {}
      /\ priority \in {[i \in Looked |-> p] : p \in Priorities}
  BY DEF PublicationInit
<1>3. \A c \in Cpus : todo[c] = <<>> /\ DOMAIN todo[c] = {}
  BY <1>1, <1>2
<1>4. priority \in [Looked -> Priorities]
  BY <1>2
<1>5. todo \in [Cpus -> Seq(Records)] /\ held \in [Cpus -> SUBSET Looked]
  BY <1>1, <1>2
<1>6. PublicationTypeOK
  BY <1>2, <1>4, <1>5 DEF PublicationTypeOK, Records, Places
<1>7. \A c \in Cpus : \A op, i : ~Due(todo[c], op, i)
  BY <1>3, Zenon DEF Due
<1>8. ProgramsAreOrdered
  <2>1. \A c \in Cpus : Ordered(todo[c])
    BY <1>3, <1>7, Zenon DEF Ordered
  <2> QED BY <1>3, <2>1, Zenon DEF ProgramsAreOrdered
<1>9. OneCpuStores
  BY <1>3, Zenon DEF OneCpuStores, HeldByOne
<1>10. StoresAreDue /\ PrioritiesAreSince
  BY <1>2 DEF StoresAreDue, PrioritiesAreSince
<1>11. In("hand") = {} /\ In("queued") = {}
  BY <1>2 DEF In
<1>12. IrqUnderWay /\ QueuedWhileDisabled
  BY <1>2, <1>7, <1>11, PublicationAssumption DEF IrqUnderWay, QueuedWhileDisabled
<1> QED BY <1>6, <1>8, <1>9, <1>10, <1>12 DEF PublicationCore

\* Every step keeps what the settings rest on.
LEMMA PublicationStep ==
    ASSUME PublicationCore, [PublicationNext]_allVars
    PROVE  PublicationCore'
<1>1. CASE UNCHANGED allVars
  BY <1>1 DEF PublicationCore, PublicationTypeOK, ProgramsAreOrdered, OneCpuStores, HeldByOne,
    StoresAreDue, PrioritiesAreSince, IrqUnderWay, QueuedWhileDisabled, In, allVars, registerVars, publishedVars, gicVars, historyVars
<1>2. ASSUME NEW c \in Cpus, TrapDistributor(c)
      PROVE  PublicationCore'
  BY <1>2, TrapDistributorStep
<1>3. ASSUME NEW c \in Cpus, TrapLic(c)
      PROVE  PublicationCore'
  BY <1>3, LicStep
<1>4. ASSUME NEW c \in Cpus, NEW i \in Looked, TrapDevice(c, i) \/ Service(c, i)
      PROVE  PublicationCore'
  BY <1>4, DeviceStep
<1>5. ASSUME NEW i \in Looked, GuestAck(i) \/ GuestEoi(i)
      PROVE  PublicationCore'
  BY <1>5, GuestStep
<1>6. ASSUME NEW i \in Looked, TakeInterrupt(i)
      PROVE  PublicationCore'
  BY <1>6, TakeStep
<1>8. CASE TakeIrq
  BY <1>8, IrqStep
<1>7. ASSUME NEW c \in Cpus, Step(c)
      PROVE  PublicationCore'
  <2>1. ProgramsAreOrdered' /\ OneCpuStores'
    BY <1>7, StepPrograms
  <2>2. StoresAreDue'
    BY <1>7, StepStores
  <2>3. PrioritiesAreSince'
    BY <1>7, StepSince
  <2>4. PublicationTypeOK'
    BY <1>7, StepTypes
  <2>5. IrqUnderWay' /\ QueuedWhileDisabled'
    BY <1>7, StepIrq, StepGic
  <2> QED BY <2>1, <2>2, <2>3, <2>4, <2>5 DEF PublicationCore
<1> QED BY <1>1, <1>2, <1>3, <1>4, <1>5, <1>6, <1>7, <1>8 DEF PublicationNext, GuestAccess

(***************************************************************************)
(* The interrupt settings that reach the CPUs are consistent, for any      *)
(* number of CPUs and any set of priorities: when no CPU holds the lock of *)
(* a controller, every atomic of vm/interrupt.rs has the value that the    *)
(* guest reads from it, and rust_irq, which loads enable and priority one  *)
(* by one and without a lock, delivers an interrupt only with a priority   *)
(* that it has had since the guest enabled it.                             *)
(***************************************************************************)
THEOREM SettingsReachTheCpus == PublicationSpec => []PublicationInvariant
<1>1. PublicationInit => PublicationCore
  BY PublicationStart
<1>2. PublicationCore /\ [PublicationNext]_allVars => PublicationCore'
  BY PublicationStep
<1>3. PublicationCore => PublicationInvariant
  BY CoreImplies DEF PublicationCore, PublicationInvariant
<1> QED BY <1>1, <1>2, <1>3, PTL DEF PublicationSpec
=============================================================================
