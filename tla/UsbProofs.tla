------------------------------ MODULE UsbProofs ------------------------------
(***************************************************************************)
(* Proofs about the two protocols that a USB host drives: bundles for the  *)
(* loader, for every memory layout, every digest and every set of          *)
(* descriptors and chunks, and requests to endpoint zero, for every number *)
(* of descriptors, every set of line codings, and any number of requests   *)
(* and port resets.                                                        *)
(***************************************************************************)
EXTENDS Loader, ControlPipe, SequenceTheorems, TLAPS

(***************************************************************************)
(* Ranges (guest_range in loader.rs, AddressRange in memory.rs).           *)
(***************************************************************************)
\* A non-empty part of a guest range is a guest range.
LEMMA SubRange ==
    ASSUME NEW address \in Nat, NEW size \in Nat, NEW a \in Nat, NEW m \in Nat,
           guest_range(address, size),
           address <= a, m # 0, a + m <= address + size
    PROVE  guest_range(a, m)
<1>1. IsRange(a, m)
    BY LoaderAssumption DEF guest_range, IsRange, Word64
<1>2. \A p \in Protected : ~Overlap(a, m, p.start, p.size)
  <2> SUFFICES ASSUME NEW p \in Protected, Overlap(a, m, p.start, p.size)
               PROVE  Overlap(address, size, p.start, p.size)
      BY DEF guest_range
  <2>1. p.start \in Nat /\ p.size \in Nat
      BY LoaderAssumption DEF Word64
  <2> QED BY <2>1 DEF Overlap
<1>3. a >= GUEST_RAM_BASE /\ a + m <= GUEST_RAM_END
    BY LoaderAssumption DEF guest_range, Word64
<1> QED BY <1>1, <1>2, <1>3 DEF guest_range

\* The fields of a descriptor that hosts send are numbers.
LEMMA ImageFields ==
    ASSUME NEW i \in OfferedImages
    PROVE  /\ i.address \in Nat /\ i.file_size \in Nat /\ i.runtime_size \in Nat
           /\ i # None
BY LoaderAssumption DEF ImageDescriptor, Word64

\* The same for bundles.
LEMMA BundleFields ==
    ASSUME NEW b \in OfferedBundles
    PROVE  b.entry \in Nat /\ b.image_count \in Nat /\ b # None /\ b # Fallback
BY LoaderAssumption DEF BundleDescriptor, Word64

\* A valid image lies in memory.
LEMMA ValidImage ==
    ASSUME NEW i \in OfferedImages, ImageValid(i)
    PROVE  /\ i.file_size # 0
           /\ i.file_size <= i.runtime_size
           /\ i.address + i.runtime_size < U64
           /\ guest_range(i.address, i.runtime_size)
BY ImageFields DEF ImageValid, guest_range, IsRange

(***************************************************************************)
(* Slices of memory.                                                       *)
(***************************************************************************)
\* A slice is a sequence of bytes.
LEMMA SliceIsSeq ==
    ASSUME NEW m \in [Memory -> Byte], NEW a \in Nat, NEW l \in Nat, a + l < U64
    PROVE  /\ Slice(m, a, l) \in Seq(Byte)
           /\ Len(Slice(m, a, l)) = l
           /\ \A k \in 1 .. l : Slice(m, a, l)[k] = m[a + k - 1]
<1>1. \A k \in 1 .. l : a + k - 1 \in Memory
    BY LoaderAssumption DEF Memory
<1>2. Slice(m, a, l) \in [1 .. l -> Byte]
    BY <1>1 DEF Slice
<1>3. Slice(m, a, l) \in Seq(Byte)
    BY <1>2
<1>4. Len(Slice(m, a, l)) = l
    BY <1>2, <1>3
<1> QED BY <1>3, <1>4 DEF Slice

\* A slice that no write has touched is the same.
LEMMA SliceKept ==
    ASSUME NEW m, NEW w, NEW a \in Nat, NEW l \in Nat, a + l < U64,
           \A x \in Memory : a <= x /\ x < a + l => w[x] = m[x]
    PROVE  Slice(w, a, l) = Slice(m, a, l)
<1>1. \A k \in 1 .. l : w[a + k - 1] = m[a + k - 1]
    BY LoaderAssumption DEF Memory
<1> QED BY <1>1 DEF Slice

\* Bytes written behind a slice extend it.
LEMMA SliceExtended ==
    ASSUME NEW m \in [Memory -> Byte], NEW w \in [Memory -> Byte],
           NEW a \in Nat, NEW l \in Nat, NEW body \in Seq(Byte),
           a + l + Len(body) < U64,
           w = [x \in Memory |-> IF a + l <= x /\ x < a + l + Len(body)
                                 THEN body[x - (a + l) + 1] ELSE m[x]]
    PROVE  Slice(m, a, l) \o body = Slice(w, a, l + Len(body))
<1> DEFINE s == Slice(m, a, l)
           n == l + Len(body)
           t == Slice(w, a, n)
<1>1. Len(body) \in Nat /\ n \in Nat /\ a + n < U64 /\ a + l < U64
    BY LoaderAssumption
<1>2. /\ s \in Seq(Byte) /\ Len(s) = l
      /\ \A k \in 1 .. l : s[k] = m[a + k - 1]
    BY <1>1, SliceIsSeq
<1> HIDE DEF n
<1>3. /\ t \in Seq(Byte) /\ Len(t) = n
      /\ \A k \in 1 .. n : t[k] = w[a + k - 1]
    BY <1>1, SliceIsSeq
<1> HIDE DEF s, t
<1>4. /\ s \o body \in Seq(Byte) /\ Len(s \o body) = n
      /\ \A k \in 1 .. n : (s \o body)[k] = IF k <= l THEN s[k] ELSE body[k - l]
    BY <1>2, ConcatProperties DEF n
<1>5. ASSUME NEW k \in 1 .. n PROVE (s \o body)[k] = t[k]
  <2>1. a + k - 1 \in Memory
      BY <1>1, LoaderAssumption DEF Memory
  <2>2. CASE k <= l
    <3>1. w[a + k - 1] = m[a + k - 1]
        BY <2>1, <2>2, <1>1, LoaderAssumption
    <3> QED BY <1>1, <1>2, <1>3, <1>4, <2>2, <3>1
  <2>3. CASE k > l
    <3>1. w[a + k - 1] = body[(a + k - 1) - (a + l) + 1]
        BY <2>1, <2>3, <1>1, LoaderAssumption DEF n
    <3>2. k \in Int /\ ~(k <= l)
        BY <1>1, <2>3
    <3>3. (a + k - 1) - (a + l) + 1 = k - l
        BY <3>2
    <3>4. (s \o body)[k] = body[k - l]
        BY <1>4, <3>2
    <3>5. t[k] = w[a + k - 1]
        BY <1>3
    <3> QED BY <3>1, <3>3, <3>4, <3>5, Zenon
  <2>4. k <= l \/ k > l
      BY <1>1
  <2> QED BY <2>2, <2>3, <2>4, Zenon
<1>6. s \o body = t
    BY <1>3, <1>4, <1>5, SeqEqual
<1> QED BY <1>6 DEF s, t, n

\* A fresh loader satisfies the invariant.
LEMMA InitLoaderInvariant == LoaderInit => LoaderInvariant
<1> SUFFICES ASSUME LoaderInit PROVE LoaderInvariant
    OBVIOUS
<1>1. LoaderTypeOK
  <2>1. images \in Seq(OfferedImages) /\ crc32 \in Seq(Byte) /\ received \in Nat
      BY DEF LoaderInit
  <2>2. memory \in [Memory -> Byte]
      BY LoaderAssumption DEF LoaderInit
  <2>3. state \in States /\ phase \in Phases
      BY DEF LoaderInit, States, Phases
  <2> QED BY <2>1, <2>2, <2>3, Zenon DEF LoaderInit, LoaderTypeOK
<1>2. images = <<>> /\ bundle = None /\ current = None /\ state = "Idle"
    BY DEF LoaderInit
<1>3. StateFollowsTransfer
    BY <1>2 DEF StateFollowsTransfer
<1>4. ImagesAreApart /\ ReceivedIsInMemory
    BY <1>2 DEF ImagesAreApart, ReceivedIsInMemory
<1>5. CompletedAreInMemory
    BY <1>2 DEF CompletedAreInMemory
<1>6. BootFollowsUpload
    BY LoaderAssumption DEF LoaderInit, BootFollowsUpload
<1> QED BY <1>1, <1>3, <1>4, <1>5, <1>6 DEF LoaderInvariant

\* The invariant does not mention the pending answer.
LEMMA QuietKeepsInvariant ==
    LoaderInvariant /\ UNCHANGED <<uploadVars, claimed, memory, boot, bootVars>>
        => LoaderInvariant'
BY DEF LoaderInvariant, LoaderTypeOK, StateFollowsTransfer, ImagesAreApart,
       ReceivedIsInMemory, CompletedAreInMemory, BootFollowsUpload, uploadVars, bootVars

-----------------------------------------------------------------------------
(***************************************************************************)
(* Requests that are accepted.                                             *)
(***************************************************************************)
\* A bundle begins with no image.
LEMMA BeginBundleKeepsInvariant ==
    ASSUME LoaderInvariant, NEW b \in OfferedBundles, NEW plain \in BOOLEAN,
           BeginBundle(b, plain)
    PROVE  LoaderInvariant'
<1>1. CASE BeginBundleCode(b, plain) # "Ok"
    BY <1>1, QuietKeepsInvariant DEF BeginBundle, Refuse
<1>2. CASE BeginBundleCode(b, plain) = "Ok"
  <2>1. state = "Idle" /\ BundleValid(b)
      BY <1>2 DEF BeginBundleCode
  <2>2. /\ bundle' = b /\ state' = "Bundle" /\ claimed' = TRUE
        /\ UNCHANGED <<images, current, received, crc32, memory, boot>>
        /\ UNCHANGED <<available, require_upload, phase, launched>>
      BY <1>2 DEF BeginBundle, bootVars
  <2>3. bundle = None /\ current = None /\ images = <<>>
      BY <2>1 DEF LoaderInvariant, StateFollowsTransfer, ImagesAreApart
  <2>4. LoaderTypeOK'
      BY <2>2 DEF LoaderInvariant, LoaderTypeOK, States
  <2>5. StateFollowsTransfer'
      BY <2>1, <2>2, <2>3, BundleFields DEF StateFollowsTransfer, BundleValid, guest_range, IsRange
  <2>6. ImagesAreApart' /\ ReceivedIsInMemory' /\ CompletedAreInMemory'
      BY <2>2, <2>3 DEF ImagesAreApart, ReceivedIsInMemory, CompletedAreInMemory
  <2>7. BootFollowsUpload'
    <3>1. available
        BY DEF BeginBundle, Serving
    <3> QED BY <2>1, <2>2, <3>1 DEF LoaderInvariant, BootFollowsUpload, BeginBundle, Serving
  <2> QED BY <2>4, <2>5, <2>6, <2>7 DEF LoaderInvariant
<1> QED BY <1>1, <1>2

\* An image begins apart from the completed ones.
LEMMA BeginImageKeepsInvariant ==
    ASSUME LoaderInvariant, NEW i \in OfferedImages, NEW plain \in BOOLEAN,
           BeginImage(i, plain)
    PROVE  LoaderInvariant'
<1>1. CASE BeginImageCode(i, plain) # "Ok"
    BY <1>1, QuietKeepsInvariant DEF BeginImage, Refuse
<1>2. CASE BeginImageCode(i, plain) = "Ok"
  <2>1. /\ state = "Bundle" /\ ~(Len(images) >= bundle.image_count) /\ ImageValid(i)
        /\ \A n \in DOMAIN images : ~overlaps(i, images[n])
      BY <1>2 DEF BeginImageCode
  <2>2. /\ current' = i /\ state' = "Receiving" /\ received' = 0 /\ crc32' = <<>>
        /\ UNCHANGED <<bundle, images, claimed, memory, boot>>
        /\ UNCHANGED <<available, require_upload, phase, launched>>
      BY <1>2 DEF BeginImage, bootVars
  <2>3. i # None /\ i.address \in Nat /\ i.file_size \in Nat
      BY ImageFields
  <2>4. LoaderTypeOK'
      BY <2>2 DEF LoaderInvariant, LoaderTypeOK, States
  <2>5. StateFollowsTransfer'
    <3>1. bundle \in OfferedBundles /\ bundle # None
        BY <2>1 DEF LoaderInvariant, LoaderTypeOK, StateFollowsTransfer
    <3>2. Len(images) \in Nat /\ bundle.image_count \in Nat
        BY <3>1, BundleFields DEF LoaderInvariant, LoaderTypeOK
    <3>3. claimed /\ BundleValid(bundle)
        BY <3>1 DEF LoaderInvariant, StateFollowsTransfer
    <3> QED BY <2>1, <2>2, <2>3, <3>1, <3>2, <3>3 DEF StateFollowsTransfer, BundleValid, guest_range, IsRange
  <2>6. ImagesAreApart'
      BY <2>1, <2>2, <2>3 DEF LoaderInvariant, ImagesAreApart, ImageValid, overlaps
  <2>7. ReceivedIsInMemory'
      BY <2>2, <2>3 DEF ReceivedIsInMemory, Slice
  <2>8. CompletedAreInMemory'
      BY <2>2 DEF LoaderInvariant, CompletedAreInMemory
  <2>9. BootFollowsUpload'
      BY <2>1, <2>2 DEF LoaderInvariant, BootFollowsUpload
  <2> QED BY <2>4, <2>5, <2>6, <2>7, <2>8, <2>9 DEF LoaderInvariant
<1> QED BY <1>1, <1>2

\* What is known while an image is being received.
LEMMA ReceivingFacts ==
    ASSUME LoaderInvariant, state = "Receiving"
    PROVE  /\ current \in OfferedImages /\ current # None /\ ImageValid(current)
           /\ received \in Nat /\ received <= current.file_size
           /\ crc32 = Slice(memory, current.address, received)
           /\ bundle \in OfferedBundles /\ bundle # None /\ claimed
           /\ Len(images) \in Nat /\ Len(images) < bundle.image_count
<1>1. current # None /\ bundle # None
    BY DEF LoaderInvariant, StateFollowsTransfer
<1>2. current \in OfferedImages /\ bundle \in OfferedBundles
      /\ received \in Nat /\ Len(images) \in Nat
    BY <1>1 DEF LoaderInvariant, LoaderTypeOK
<1>3. ImageValid(current)
    BY <1>1 DEF LoaderInvariant, ImagesAreApart
<1>4. received <= current.file_size /\ crc32 = Slice(memory, current.address, received)
    BY <1>1 DEF LoaderInvariant, ReceivedIsInMemory
<1>5. claimed /\ Len(images) < bundle.image_count
    BY <1>1 DEF LoaderInvariant, StateFollowsTransfer
<1> QED BY <1>1, <1>2, <1>3, <1>4, <1>5

\* Writes inside the current image leave a completed one as it is.
LEMMA CompletedUntouched ==
    ASSUME LoaderInvariant, state = "Receiving", NEW w,
           \A x \in Memory :
              ~(current.address <= x /\ x < current.address + current.runtime_size)
                 => w[x] = memory[x],
           NEW n \in DOMAIN images
    PROVE  /\ Crc(Slice(w, images[n].address, images[n].file_size)) = images[n].crc32
           /\ \A a \in Memory :
                 /\ images[n].address + images[n].file_size <= a
                 /\ a < images[n].address + images[n].runtime_size
                 => w[a] = 0
<1> DEFINE i == images[n]
<1>1. i \in OfferedImages
    BY DEF LoaderInvariant, LoaderTypeOK
<1>2. ImageValid(i) /\ ~overlaps(current, i)
    BY ReceivingFacts DEF LoaderInvariant, ImagesAreApart
<1>3. /\ Crc(Slice(memory, i.address, i.file_size)) = i.crc32
      /\ \A a \in Memory :
            i.address + i.file_size <= a /\ a < i.address + i.runtime_size => memory[a] = 0
    BY DEF LoaderInvariant, CompletedAreInMemory
<1> HIDE DEF i
<1>4. /\ i.address \in Nat /\ i.file_size \in Nat /\ i.runtime_size \in Nat
      /\ i.file_size <= i.runtime_size /\ i.address + i.runtime_size < U64
    BY <1>1, <1>2, ImageFields, ValidImage
<1>5. current.address \in Nat /\ current.runtime_size \in Nat
    BY ReceivingFacts, ImageFields
<1>6. \A x \in Memory : i.address <= x /\ x < i.address + i.runtime_size => w[x] = memory[x]
  <2> SUFFICES ASSUME NEW x \in Memory, i.address <= x, x < i.address + i.runtime_size
               PROVE  ~(current.address <= x /\ x < current.address + current.runtime_size)
      OBVIOUS
  <2>1. x \in Nat
      BY LoaderAssumption DEF Memory
  <2> QED BY <1>2, <1>4, <1>5, <2>1 DEF overlaps, Overlap
<1>7. i.address + i.file_size < U64
    BY <1>4, LoaderAssumption
<1>8. \A x \in Memory : i.address <= x /\ x < i.address + i.file_size => w[x] = memory[x]
    BY <1>4, <1>6, LoaderAssumption DEF Memory
<1>9. Slice(w, i.address, i.file_size) = Slice(memory, i.address, i.file_size)
    BY <1>4, <1>7, <1>8, SliceKept
<1>10. ASSUME NEW a \in Memory,
              i.address + i.file_size <= a, a < i.address + i.runtime_size
       PROVE  w[a] = 0
  <2>1. a \in Nat
      BY LoaderAssumption DEF Memory
  <2>2. i.address <= a
      BY <1>4, <1>10, <2>1
  <2> QED BY <1>3, <1>6, <1>10, <2>2
<1> QED BY <1>3, <1>9, <1>10 DEF i

\* Data extends what has arrived of the current image.
LEMMA DataKeepsInvariant ==
    ASSUME LoaderInvariant, NEW offset \in Word64, NEW plain \in BOOLEAN,
           NEW body \in Chunks, Data(offset, plain, body)
    PROVE  LoaderInvariant'
<1>1. CASE DataCode(offset, plain, body) # "Ok"
    BY <1>1, QuietKeepsInvariant DEF Data, Refuse
<1>2. CASE DataCode(offset, plain, body) = "Ok"
  <2>1. /\ state = "Receiving"
        /\ ~(received + Len(body) > current.file_size)
      BY <1>2 DEF DataCode
  <2>2. /\ Write(current.address + received, body)
        /\ crc32' = crc32 \o body /\ received' = received + Len(body)
        /\ UNCHANGED <<state, bundle, images, current, claimed, boot>>
        /\ UNCHANGED <<available, require_upload, phase, launched>>
      BY <1>2 DEF Data, bootVars
  <2>3. body \in Seq(Byte) /\ Len(body) \in Nat
      BY LoaderAssumption
  <2>4. /\ current.address \in Nat /\ current.file_size \in Nat /\ current.runtime_size \in Nat
        /\ current.file_size <= current.runtime_size
        /\ current.address + current.runtime_size < U64
      BY <2>1, ReceivingFacts, ImageFields, ValidImage
  <2>5. received \in Nat /\ crc32 \in Seq(Byte) /\ memory \in [Memory -> Byte]
      BY DEF LoaderInvariant, LoaderTypeOK
  <2>6. received + Len(body) <= current.file_size
      BY <2>1, <2>3, <2>4, <2>5
  <2>7. memory' \in [Memory -> Byte]
    <3>1. ASSUME NEW a \in Memory,
                 current.address + received <= a, a < current.address + received + Len(body)
          PROVE  body[a - (current.address + received) + 1] \in Byte
      <4>1. a \in Nat
          BY LoaderAssumption DEF Memory
      <4>2. a - (current.address + received) + 1 \in 1 .. Len(body)
          BY <2>3, <2>4, <2>5, <3>1, <4>1
      <4> QED BY <2>3, <4>2
    <3> QED BY <2>2, <2>5, <3>1 DEF Write
  <2>8. LoaderTypeOK'
    <3>1. crc32' \in Seq(Byte) /\ received' \in Nat
        BY <2>2, <2>3, <2>5, ConcatProperties
    <3> QED BY <2>2, <2>7, <3>1 DEF LoaderInvariant, LoaderTypeOK
  <2>9. StateFollowsTransfer' /\ ImagesAreApart'
      BY <2>2 DEF LoaderInvariant, StateFollowsTransfer, ImagesAreApart
  <2>10. ReceivedIsInMemory'
    <3>3. current.address + received + Len(body) < U64
      <4>1. U64 \in Nat
          BY LoaderAssumption
      <4> QED BY <2>3, <2>4, <2>5, <2>6, <4>1
    <3>4. Slice(memory, current.address, received) \o body
             = Slice(memory', current.address, received + Len(body))
      <4>1. memory' = [x \in Memory |->
                          IF /\ current.address + received <= x
                             /\ x < current.address + received + Len(body)
                          THEN body[x - (current.address + received) + 1] ELSE memory[x]]
          BY <2>2 DEF Write
      <4>2. ASSUME NEW m \in [Memory -> Byte], NEW w \in [Memory -> Byte],
                   NEW a \in Nat, NEW l \in Nat, a + l + Len(body) < U64,
                   w = [x \in Memory |-> IF a + l <= x /\ x < a + l + Len(body)
                                         THEN body[x - (a + l) + 1] ELSE m[x]]
            PROVE Slice(m, a, l) \o body = Slice(w, a, l + Len(body))
        <5>1. body \in Seq(Byte)
            BY <2>3
        <5> QED BY <4>2, <5>1, SliceExtended
      <4>3. ASSUME NEW a \in Nat, NEW l \in Nat, a + l + Len(body) < U64,
                   memory' = [x \in Memory |-> IF a + l <= x /\ x < a + l + Len(body)
                                         THEN body[x - (a + l) + 1] ELSE memory[x]]
            PROVE Slice(memory, a, l) \o body = Slice(memory', a, l + Len(body))
          BY <2>5, <2>7, <4>2, <4>3
      <4> QED BY <2>3, <2>4, <2>5, <2>7, <3>3, <4>1, <4>3
    <3>5. crc32 = Slice(memory, current.address, received)
        BY <2>1, ReceivingFacts
    <3> QED BY <2>2, <2>6, <3>4, <3>5 DEF ReceivedIsInMemory
  <2>11. CompletedAreInMemory'
    <3>1. \A x \in Memory :
             ~(current.address <= x /\ x < current.address + current.runtime_size)
                => memory'[x] = memory[x]
      <4> SUFFICES ASSUME NEW x \in Memory,
                          ~(current.address <= x
                              /\ x < current.address + current.runtime_size)
                   PROVE  ~(current.address + received <= x
                              /\ x < current.address + received + Len(body))
          BY <2>2 DEF Write
      <4>1. x \in Nat
          BY LoaderAssumption DEF Memory
      <4> QED BY <2>3, <2>4, <2>5, <2>6, <4>1
    <3> QED BY <2>1, <2>2, <3>1, CompletedUntouched DEF CompletedAreInMemory
  <2>12. BootFollowsUpload'
    <3>1. claimed
        BY <2>1, ReceivingFacts
    <3> QED BY <2>2, <3>1 DEF LoaderInvariant, BootFollowsUpload
  <2> QED BY <2>8, <2>9, <2>10, <2>11, <2>12 DEF LoaderInvariant
<1> QED BY <1>1, <1>2

\* EndImage turns the current image into a completed one.
LEMMA EndImageKeepsInvariant ==
    ASSUME LoaderInvariant, NEW empty \in BOOLEAN, EndImage(empty)
    PROVE  LoaderInvariant'
<1>1. CASE EndImageCode(empty) # "Ok"
    BY <1>1, QuietKeepsInvariant DEF EndImage, Refuse
<1>2. CASE EndImageCode(empty) = "Ok"
  <2>1. state = "Receiving" /\ received = current.file_size /\ Crc(crc32) = current.crc32
      BY <1>2 DEF EndImageCode
  <2>2. /\ Zero(current.address + current.file_size, current.runtime_size - current.file_size)
        /\ images' = Append(images, current) /\ current' = None
        /\ received' = 0 /\ crc32' = <<>> /\ state' = "Bundle"
        /\ UNCHANGED <<bundle, claimed, boot>>
        /\ UNCHANGED <<available, require_upload, phase, launched>>
      BY <1>2 DEF EndImage, bootVars
  <2>3. /\ current \in OfferedImages /\ current # None /\ ImageValid(current)
        /\ crc32 = Slice(memory, current.address, received)
        /\ bundle \in OfferedBundles /\ bundle # None /\ claimed
        /\ Len(images) \in Nat /\ Len(images) < bundle.image_count
      BY <2>1, ReceivingFacts
  <2>4. /\ current.address \in Nat /\ current.file_size \in Nat /\ current.runtime_size \in Nat
        /\ current.file_size <= current.runtime_size
        /\ current.address + current.runtime_size < U64
      BY <2>3, ImageFields, ValidImage
  <2>5. memory \in [Memory -> Byte] /\ images \in Seq(OfferedImages)
      BY DEF LoaderInvariant, LoaderTypeOK
  <2>6. /\ images' \in Seq(OfferedImages) /\ Len(images') = Len(images) + 1
        /\ DOMAIN images' = 1 .. Len(images) + 1 /\ DOMAIN images = 1 .. Len(images)
        /\ \A n \in 1 .. Len(images) : images'[n] = images[n]
        /\ images'[Len(images) + 1] = current
      BY <2>2, <2>3, <2>5, AppendProperties
  <2>7. \A n \in DOMAIN images' : n \in DOMAIN images \/ n = Len(images) + 1
      BY <2>3, <2>6
  <2>8. memory' \in [Memory -> Byte]
      BY <2>2, <2>5, LoaderAssumption DEF Zero
  <2>9. LoaderTypeOK'
    <3>1. crc32' \in Seq(Byte) /\ received' \in Nat /\ current' \in OfferedImages \cup {None}
        BY <2>2
    <3>2. state' \in States
        BY <2>2 DEF States
    <3> QED BY <2>2, <2>6, <2>8, <3>1, <3>2 DEF LoaderInvariant, LoaderTypeOK
  <2>10. StateFollowsTransfer'
    <3>1. bundle.image_count \in Nat
        BY <2>3, BundleFields
    <3>2. Len(images') <= bundle.image_count
        BY <2>3, <2>6, <3>1
    <3>3. BundleValid(bundle)'
        BY <2>2, <2>3 DEF LoaderInvariant, StateFollowsTransfer, BundleValid, guest_range, IsRange
    <3> QED BY <2>2, <2>3, <3>2, <3>3 DEF StateFollowsTransfer
  <2>11. ImagesAreApart'
    <3>1. /\ \A n \in DOMAIN images : ImageValid(images[n]) /\ ~overlaps(current, images[n])
          /\ \A m, n \in DOMAIN images : m # n => ~overlaps(images[m], images[n])
        BY <2>3 DEF LoaderInvariant, ImagesAreApart
    <3>2. \A n \in DOMAIN images' : ImageValid(images'[n])
        BY <2>3, <2>6, <2>7, <3>1
    <3>3. \A n \in DOMAIN images : ~overlaps(images[n], current)
        BY <3>1 DEF overlaps, Overlap
    <3>4. \A m, n \in DOMAIN images' : m # n => ~overlaps(images'[m], images'[n])
        BY <2>6, <2>7, <3>1, <3>3
    <3>5. current' = None /\ bundle' # None
        BY <2>2, <2>3
    <3> QED BY <3>2, <3>4, <3>5 DEF ImagesAreApart, ImageValid, overlaps
  <2>12. ReceivedIsInMemory'
      BY <2>2 DEF ReceivedIsInMemory
  <2>13. CompletedAreInMemory'
    <3>1. \A x \in Memory :
             ~(/\ current.address + current.file_size <= x
               /\ x < current.address + current.runtime_size) => memory'[x] = memory[x]
        BY <2>2, <2>4, LoaderAssumption DEF Zero, Memory
    <3>2. \A x \in Memory :
             /\ current.address + current.file_size <= x
             /\ x < current.address + current.runtime_size
             => memory'[x] = 0
        BY <2>2, <2>4, LoaderAssumption DEF Zero, Memory
    <3>3. \A x \in Memory :
             ~(current.address <= x /\ x < current.address + current.runtime_size)
                => memory'[x] = memory[x]
        BY <2>4, <3>1, LoaderAssumption DEF Memory
    <3>4. ASSUME NEW n \in DOMAIN images'
          PROVE  /\ Crc(Slice(memory', images'[n].address, images'[n].file_size))
                        = images'[n].crc32
                 /\ \A a \in Memory :
                       /\ images'[n].address + images'[n].file_size <= a
                       /\ a < images'[n].address + images'[n].runtime_size
                       => memory'[a] = 0
      <4>1. CASE n \in DOMAIN images
        <5>1. images'[n] = images[n]
            BY <2>6, <4>1
        <5> QED BY <2>1, <3>3, <4>1, <5>1, CompletedUntouched
      <4>2. CASE n = Len(images) + 1
        <5>1. images'[n] = current
            BY <2>6, <4>2
        <5>2. \A x \in Memory : current.address <= x /\ x < current.address + current.file_size
                                   => memory'[x] = memory[x]
            BY <2>4, <3>1, LoaderAssumption DEF Memory
        <5>3. current.address + current.file_size < U64
            BY <2>4, LoaderAssumption
        <5>4. Slice(memory', current.address, current.file_size) = crc32
          <6>1. Slice(memory', current.address, current.file_size)
                   = Slice(memory, current.address, current.file_size)
            <7>1. ASSUME NEW a, NEW l, NEW w, a \in Nat, l \in Nat, a + l < U64,
                         \A x \in Memory : a <= x /\ x < a + l => w[x] = memory[x]
                  PROVE  Slice(w, a, l) = Slice(memory, a, l)
                BY <7>1, SliceKept
            <7> HIDE DEF Slice, Memory
            <7> QED BY <2>4, <5>2, <5>3, <7>1
          <6> QED BY <2>1, <2>3, <6>1
        <5> QED BY <2>1, <3>2, <5>1, <5>4
      <4> QED BY <2>7, <4>1, <4>2
    <3> QED BY <3>4 DEF CompletedAreInMemory
  <2>14. BootFollowsUpload'
      BY <2>1, <2>2, <2>3 DEF LoaderInvariant, BootFollowsUpload
  <2> QED BY <2>9, <2>10, <2>11, <2>12, <2>13, <2>14 DEF LoaderInvariant
<1> QED BY <1>1, <1>2

\* The remaining requests do not touch memory.
LEMMA CommitKeepsInvariant ==
    ASSUME LoaderInvariant, NEW empty \in BOOLEAN, CommitBundle(empty)
    PROVE  LoaderInvariant'
<1>1. CASE CommitCode(empty) # "Ok"
    BY <1>1, QuietKeepsInvariant DEF CommitBundle, Refuse
<1>2. CASE CommitCode(empty) = "Ok"
  <2>1. /\ state = "Bundle" /\ Len(images) = bundle.image_count
        /\ \E n \in DOMAIN images : contains_entry(images[n], bundle.entry)
      BY <1>2 DEF CommitCode
  <2>2. /\ state' = "Ready"
        /\ UNCHANGED <<bundle, images, current, received, crc32, claimed, memory, boot>>
        /\ UNCHANGED <<available, require_upload, phase, launched>>
      BY <1>2 DEF CommitBundle, bootVars
  <2>3. LoaderTypeOK'
      BY <2>2 DEF LoaderInvariant, LoaderTypeOK, States
  <2>4. StateFollowsTransfer'
      BY <2>1, <2>2 DEF LoaderInvariant, StateFollowsTransfer, BundleValid, contains_entry
  <2>5. ImagesAreApart' /\ ReceivedIsInMemory' /\ CompletedAreInMemory'
      BY <2>2 DEF LoaderInvariant, ImagesAreApart, ReceivedIsInMemory, CompletedAreInMemory
  <2>6. BootFollowsUpload'
      BY <2>1, <2>2 DEF LoaderInvariant, BootFollowsUpload
  <2> QED BY <2>3, <2>4, <2>5, <2>6 DEF LoaderInvariant
<1> QED BY <1>1, <1>2

\* clear() leaves no transfer behind.
LEMMA ClearFacts ==
    ASSUME LoaderInvariant, NEW to \in {"Idle", "Disabled"}, clear(to), UNCHANGED memory,
           boot' \in OfferedBundles \cup {None}, UNCHANGED <<claimed, available, require_upload>>,
           phase' \in Phases, launched' \in OfferedBundles \cup {Fallback, None}
    PROVE  /\ LoaderTypeOK' /\ StateFollowsTransfer' /\ ImagesAreApart'
           /\ ReceivedIsInMemory' /\ CompletedAreInMemory'
<1>1. /\ state' = to /\ bundle' = None /\ images' = <<>> /\ current' = None
      /\ received' = 0 /\ crc32' = <<>>
    BY DEF clear
<1>2. LoaderTypeOK'
  <2>1. images' \in Seq(OfferedImages) /\ crc32' \in Seq(Byte) /\ received' \in Nat
      BY <1>1
  <2>2. state' \in States
      BY <1>1 DEF States
  <2> QED BY <1>1, <2>1, <2>2 DEF LoaderInvariant, LoaderTypeOK
<1>3. StateFollowsTransfer'
    BY <1>1 DEF StateFollowsTransfer
<1>4. ImagesAreApart' /\ ReceivedIsInMemory' /\ CompletedAreInMemory'
    BY <1>1 DEF ImagesAreApart, ReceivedIsInMemory, CompletedAreInMemory
<1> QED BY <1>2, <1>3, <1>4

\* Abort leaves no transfer behind.
LEMMA AbortKeepsInvariant ==
    ASSUME LoaderInvariant, NEW empty \in BOOLEAN, Abort(empty)
    PROVE  LoaderInvariant'
<1>1. CASE AbortCode(empty) # "Ok"
    BY <1>1, QuietKeepsInvariant DEF Abort, Refuse
<1>2. CASE AbortCode(empty) = "Ok"
  <2>1. state \in {"Bundle", "Receiving", "Ready"}
      BY <1>2 DEF AbortCode
  <2>2. /\ clear("Idle")
        /\ UNCHANGED <<claimed, memory, boot, available, require_upload, phase, launched>>
      BY <1>2 DEF Abort, bootVars
  <2>3. boot \in OfferedBundles \cup {None} /\ phase \in Phases
        /\ launched \in OfferedBundles \cup {Fallback, None}
      BY DEF LoaderInvariant, LoaderTypeOK
  <2>4. BootFollowsUpload'
      BY <2>1, <2>2 DEF LoaderInvariant, BootFollowsUpload, clear
  <2> QED BY <2>2, <2>3, <2>4, ClearFacts DEF LoaderInvariant
<1> QED BY <1>1, <1>2

\* Boot hands the bundle over and leaves no transfer behind.
LEMMA BootKeepsInvariant ==
    ASSUME LoaderInvariant, NEW empty \in BOOLEAN, Boot(empty)
    PROVE  LoaderInvariant'
<1>1. CASE BootCode(empty) # "Ok"
    BY <1>1, QuietKeepsInvariant DEF Boot, Refuse
<1>2. CASE BootCode(empty) = "Ok"
  <2>1. state = "Ready"
      BY <1>2 DEF BootCode
  <2>2. /\ clear("Disabled") /\ boot' = bundle
        /\ UNCHANGED <<claimed, memory, available, require_upload, phase, launched>>
      BY <1>2 DEF Boot, bootVars
  <2>3. bundle \in OfferedBundles /\ bundle # None /\ claimed
      BY <2>1 DEF LoaderInvariant, LoaderTypeOK, StateFollowsTransfer
  <2>4. phase \in Phases /\ launched \in OfferedBundles \cup {Fallback, None}
      BY DEF LoaderInvariant, LoaderTypeOK
  <2>5. phase = "preboot"
      BY <2>1 DEF LoaderInvariant, BootFollowsUpload, Boot, Serving
  <2>6. BootFollowsUpload'
      BY <2>1, <2>2, <2>3, <2>5 DEF LoaderInvariant, BootFollowsUpload, clear
  <2> QED BY <2>2, <2>3, <2>4, <2>6, ClearFacts DEF LoaderInvariant
<1> QED BY <1>1, <1>2
-----------------------------------------------------------------------------
(***************************************************************************)
(* The preboot loop and enter_guest of CPU 0 keep the invariant.           *)
(***************************************************************************)
LEMMA PrebootKeepsInvariant ==
    ASSUME LoaderInvariant, Preboot
    PROVE  LoaderInvariant'
<1>1. ASSUME UNCHANGED <<uploadVars, claimed, memory, available, require_upload>>,
             boot' \in OfferedBundles \cup {None}, phase' \in Phases,
             launched' \in OfferedBundles \cup {Fallback, None}
      PROVE  /\ LoaderTypeOK' /\ StateFollowsTransfer' /\ ImagesAreApart'
             /\ ReceivedIsInMemory' /\ CompletedAreInMemory'
    BY <1>1 DEF LoaderInvariant, LoaderTypeOK, StateFollowsTransfer, ImagesAreApart,
                ReceivedIsInMemory, CompletedAreInMemory, uploadVars
<1>2. /\ boot \in OfferedBundles \cup {None} /\ launched \in OfferedBundles \cup {Fallback, None}
      /\ {"handoff", "guest", "parked"} \subseteq Phases
    BY DEF LoaderInvariant, LoaderTypeOK, Phases
<1>3. CASE PrebootUnavailable
  <2>1. BootFollowsUpload'
      BY <1>3, LoaderAssumption
      DEF PrebootUnavailable, LoaderInvariant, BootFollowsUpload, uploadVars
  <2> QED BY <1>1, <1>2, <1>3, <2>1 DEF PrebootUnavailable, LoaderInvariant
<1>4. CASE PrebootBoot
  <2>1. boot # Fallback /\ boot # None
      BY <1>2, <1>4, BundleFields DEF PrebootBoot
  <2>2. BootFollowsUpload'
      BY <1>4, <2>1 DEF PrebootBoot, LoaderInvariant, BootFollowsUpload, uploadVars
  <2> QED BY <1>1, <1>2, <1>4, <2>2 DEF PrebootBoot, LoaderInvariant
<1>5. CASE PrebootExpire
  <2>1. BootFollowsUpload'
      BY <1>5, LoaderAssumption
      DEF PrebootExpire, LoaderInvariant, BootFollowsUpload, uploadVars
  <2> QED BY <1>1, <1>2, <1>5, <2>1 DEF PrebootExpire, LoaderInvariant
<1>6. CASE enter_guest
  <2>1. CASE available
    <3>1. clear("Disabled") /\ UNCHANGED memory
        BY <1>6, <2>1 DEF enter_guest
    <3>2. BootFollowsUpload'
        BY <1>6, <2>1, <3>1 DEF enter_guest, LoaderInvariant, BootFollowsUpload, clear
    <3> QED BY <1>2, <1>6, <3>1, <3>2, ClearFacts DEF enter_guest, LoaderInvariant
  <2>2. CASE ~available
    <3>1. BootFollowsUpload'
        BY <1>6, <2>2 DEF enter_guest, LoaderInvariant, BootFollowsUpload, uploadVars
    <3> QED BY <1>1, <1>2, <1>6, <2>2, <3>1 DEF enter_guest, LoaderInvariant
  <2> QED BY <2>1, <2>2
<1> QED BY <1>3, <1>4, <1>5, <1>6 DEF Preboot

\* Every step of the specification keeps the invariant.
LEMMA StepLoaderInvariant == LoaderInvariant /\ [LoaderNext]_vars => LoaderInvariant'
<1> SUFFICES ASSUME LoaderInvariant, [LoaderNext]_vars PROVE LoaderInvariant'
    OBVIOUS
<1>1. CASE UNCHANGED vars
    BY <1>1, QuietKeepsInvariant DEF vars
<1>2. CASE Transmit
    BY <1>2, QuietKeepsInvariant DEF Transmit
<1>3. CASE Preboot
    BY <1>3, PrebootKeepsInvariant
<1>4. CASE BundleRequest
  <2>1. CASE UnknownOpcode
      BY <2>1, QuietKeepsInvariant DEF UnknownOpcode, Refuse
  <2>2. ASSUME NEW empty \in BOOLEAN, NEW opcode, Inspect(opcode, empty)
        PROVE  LoaderInvariant'
      BY <2>2, QuietKeepsInvariant DEF Inspect, Refuse
  <2> QED BY <1>4, <2>1, <2>2, EndImageKeepsInvariant, CommitKeepsInvariant,
             AbortKeepsInvariant, BootKeepsInvariant, BeginBundleKeepsInvariant,
             BeginImageKeepsInvariant, DataKeepsInvariant DEF BundleRequest
<1> QED BY <1>1, <1>2, <1>3, <1>4 DEF LoaderNext

(***************************************************************************)
(* THEOREM.  The upload invariant holds in every reachable state: the      *)
(* bytes of every completed image are in memory with the digest they were  *)
(* accepted with, whatever the host sends (Loader::handle, preboot,        *)
(* enter_guest).                                                           *)
(***************************************************************************)
THEOREM LoaderInvariantHolds == LoaderSpec => []LoaderInvariant
BY InitLoaderInvariant, StepLoaderInvariant, PTL DEF LoaderSpec
-----------------------------------------------------------------------------
\* A valid image can be written and zero-filled to its end.
LEMMA InvariantStorage == LoaderInvariant => StorageNeverRefuses
<1> SUFFICES ASSUME LoaderInvariant PROVE StorageNeverRefuses
    OBVIOUS
<1>1. ASSUME NEW offset \in Word64, NEW body \in Chunks, DataCode(offset, TRUE, body) = "Storage"
      PROVE  FALSE
  <2>1. /\ state = "Receiving" /\ body # <<>>
        /\ ~(received + Len(body) > current.file_size)
        /\ ~guest_range(current.address + received, Len(body))
      BY <1>1 DEF DataCode
  <2>2. body \in Seq(Byte) /\ Len(body) \in Nat /\ Len(body) # 0
      BY <2>1, LoaderAssumption, EmptySeq
  <2>3. /\ current \in OfferedImages /\ ImageValid(current) /\ received \in Nat
        /\ current.address \in Nat /\ current.file_size \in Nat /\ current.runtime_size \in Nat
      BY <2>1, ReceivingFacts, ImageFields
  <2>4. /\ guest_range(current.address, current.runtime_size)
        /\ current.file_size <= current.runtime_size
      BY <2>3, ValidImage
  <2>5. /\ current.address + received \in Nat
        /\ current.address <= current.address + received
        /\ current.address + received + Len(body) <= current.address + current.runtime_size
      BY <2>1, <2>2, <2>3, <2>4
  <2> QED BY <2>1, <2>2, <2>3, <2>4, <2>5, SubRange
<1>2. ASSUME EndImageCode(TRUE) = "Storage"
      PROVE  FALSE
  <2>1. /\ state = "Receiving" /\ current.runtime_size # current.file_size
        /\ ~guest_range(current.address + current.file_size,
                        current.runtime_size - current.file_size)
      BY <1>2 DEF EndImageCode
  <2>2. /\ current \in OfferedImages /\ ImageValid(current)
        /\ current.address \in Nat /\ current.file_size \in Nat /\ current.runtime_size \in Nat
      BY <2>1, ReceivingFacts, ImageFields
  <2>3. /\ guest_range(current.address, current.runtime_size)
        /\ current.file_size <= current.runtime_size
      BY <2>2, ValidImage
  <2>4. /\ current.address + current.file_size \in Nat
        /\ current.runtime_size - current.file_size \in Nat
        /\ current.runtime_size - current.file_size # 0
        /\ current.address <= current.address + current.file_size
        /\ (current.address + current.file_size) + (current.runtime_size - current.file_size)
              <= current.address + current.runtime_size
      BY <2>1, <2>2, <2>3
  <2> QED BY <2>1, <2>2, <2>3, <2>4, SubRange
<1> QED BY <1>1, <1>2 DEF StorageNeverRefuses

(***************************************************************************)
(* THEOREM.  GuestMemory never refuses a write or a zero-fill of an image  *)
(* that was accepted, so no image is left half written by an answer        *)
(* Storage (loader.rs Data and EndImage, usb.rs GuestMemory).              *)
(***************************************************************************)
THEOREM StorageAlwaysAccepts == LoaderSpec => []StorageNeverRefuses
BY LoaderInvariantHolds, InvariantStorage, PTL
-----------------------------------------------------------------------------
(***************************************************************************)
(* The boot contract.                                                      *)
(***************************************************************************)
\* While requests can change memory no guest has been chosen.
LEMMA ReceivingHasNoGuest ==
    ASSUME LoaderInvariant, Serving, state # "Disabled"
    PROVE  boot = None /\ launched = None /\ phase = "preboot"
BY DEF LoaderInvariant, BootFollowsUpload, Serving

\* The addresses of a valid image are loadable.
LEMMA ValidIsLoadable ==
    ASSUME NEW i \in OfferedImages, ImageValid(i), NEW a \in Memory,
           i.address <= a, a < i.address + i.runtime_size
    PROVE  a \in Loadable
<1>1. /\ i.address \in Nat /\ i.runtime_size \in Nat /\ a \in Nat
      /\ guest_range(i.address, i.runtime_size)
    BY ImageFields, ValidImage, LoaderAssumption DEF Memory
<1>2. a + 1 <= i.address + i.runtime_size
    BY <1>1
<1>3. guest_range(a, 1)
    BY <1>1, <1>2, SubRange
<1> QED BY <1>3 DEF Loadable

\* Writes inside the current image are a Load step of the contract.
LEMMA WriteIsLoad ==
    ASSUME LoaderInvariant, Serving, state = "Receiving",
           memory' \in [Memory -> Byte],
           \A x \in Memory :
              ~(current.address <= x /\ x < current.address + current.runtime_size)
                 => memory'[x] = memory[x],
           UNCHANGED <<boot, launched>>
    PROVE  Contract!Load
<1>1. boot = None /\ launched = None
    BY ReceivingHasNoGuest
<1>2. memory \in [Memory -> Byte]
    BY DEF LoaderInvariant, LoaderTypeOK
<1>3. current \in OfferedImages /\ ImageValid(current)
    BY ReceivingFacts
<1>4. \A a \in Memory \ Loadable : memory'[a] = memory[a]
    BY <1>3, ValidIsLoadable
<1>5. DOMAIN memory = Memory /\ DOMAIN memory' = Memory
    BY <1>2
<1> QED BY <1>1, <1>4, <1>5 DEF Contract!Load

\* A committed bundle satisfies the contract's condition for starting.
LEMMA ReadyIsBootable ==
    ASSUME LoaderInvariant, state = "Ready"
    PROVE  Contract!Bootable(bundle, images, memory)
<1>1. /\ bundle \in OfferedBundles /\ images \in Seq(OfferedImages)
      /\ Len(images) = bundle.image_count
    BY DEF LoaderInvariant, LoaderTypeOK, StateFollowsTransfer
<1>2. ASSUME NEW n \in DOMAIN images
      PROVE  /\ images[n] \in OfferedImages /\ ImageValid(images[n])
             /\ images[n].address \in Nat /\ images[n].file_size \in Nat
             /\ images[n].runtime_size \in Nat
             /\ images[n].file_size <= images[n].runtime_size
             /\ images[n].address + images[n].runtime_size < U64
  <2>1. images[n] \in OfferedImages /\ ImageValid(images[n])
      BY <1>1 DEF LoaderInvariant, ImagesAreApart
  <2> QED BY <2>1, ImageFields, ValidImage
<1>3. ASSUME NEW n \in DOMAIN images PROVE Contract!Extent(images[n]) \subseteq Loadable
  <2> SUFFICES ASSUME NEW a \in Contract!Extent(images[n]) PROVE a \in Loadable
      OBVIOUS
  <2>1. /\ a \in Memory /\ images[n].address <= a
        /\ a < images[n].address + images[n].runtime_size
      BY <1>2, LoaderAssumption DEF Contract!Extent, Memory
  <2> QED BY <1>2, <2>1, ValidIsLoadable
<1>4. ASSUME NEW n \in DOMAIN images PROVE Contract!Installed(images[n], memory)
  <2>1. Crc(Slice(memory, images[n].address, images[n].file_size)) = images[n].crc32
      BY DEF LoaderInvariant, CompletedAreInMemory
  <2>2. ASSUME NEW a \in Contract!Extent(images[n]) \ Contract!File(images[n])
        PROVE  memory[a] = 0
    <3>1. /\ a \in Memory /\ images[n].address + images[n].file_size <= a
          /\ a < images[n].address + images[n].runtime_size
        BY <1>2, LoaderAssumption DEF Contract!Extent, Contract!File, Memory
    <3> QED BY <3>1 DEF LoaderInvariant, CompletedAreInMemory
  <2> QED BY <2>1, <2>2 DEF Contract!Installed, Slice
<1>5. ASSUME NEW m \in DOMAIN images, NEW n \in DOMAIN images, m # n
      PROVE  Contract!Extent(images[m]) \cap Contract!Extent(images[n]) = {}
  <2>1. ~overlaps(images[m], images[n])
      BY <1>5 DEF LoaderInvariant, ImagesAreApart
  <2> QED BY <1>2, <2>1 DEF overlaps, Overlap, Contract!Extent
<1>6. \E n \in DOMAIN images : bundle.entry .. bundle.entry + 3 \subseteq Contract!File(images[n])
  <2>1. PICK n \in DOMAIN images : contains_entry(images[n], bundle.entry)
      BY DEF LoaderInvariant, StateFollowsTransfer
  <2>2. bundle.entry \in Nat
      BY <1>1, BundleFields
  <2>3. bundle.entry .. bundle.entry + 3 \subseteq Contract!File(images[n])
      BY <1>2, <2>1, <2>2 DEF contains_entry, Contract!File
  <2> QED BY <2>3
<1> QED BY <1>1, <1>3, <1>4, <1>5, <1>6 DEF Contract!Bootable

\* The initial states are those of the contract.
LEMMA InitContract == LoaderInit => Contract!ContractInit
BY DEF LoaderInit, Contract!ContractInit

\* A step that leaves memory and the chosen guest alone is a stutter.
LEMMA StutterContract ==
    UNCHANGED <<memory, boot, launched>> => UNCHANGED Contract!contractVars
BY DEF Contract!contractVars

\* Data writes inside the current image.
LEMMA DataContract ==
    ASSUME LoaderInvariant, LoaderInvariant', NEW offset \in Word64, NEW plain \in BOOLEAN,
           NEW body \in Chunks, Data(offset, plain, body)
    PROVE  Contract!Load \/ UNCHANGED Contract!contractVars
<1>1. CASE DataCode(offset, plain, body) # "Ok"
    BY <1>1, StutterContract DEF Data, Refuse, bootVars
<1>2. CASE DataCode(offset, plain, body) = "Ok"
  <2>1. /\ state = "Receiving" /\ ~(received + Len(body) > current.file_size)
      BY <1>2 DEF DataCode
  <2>2. Write(current.address + received, body) /\ UNCHANGED <<boot, launched>> /\ Serving
      BY <1>2 DEF Data, bootVars
  <2>3. Len(body) \in Nat
      BY LoaderAssumption
  <2>4. /\ current.address \in Nat /\ current.file_size \in Nat /\ current.runtime_size \in Nat
        /\ current.file_size <= current.runtime_size /\ received \in Nat
      BY <2>1, ReceivingFacts, ImageFields, ValidImage
  <2>5. \A x \in Memory :
           ~(current.address <= x /\ x < current.address + current.runtime_size)
              => memory'[x] = memory[x]
    <3> SUFFICES ASSUME NEW x \in Memory,
                        ~(current.address <= x
                            /\ x < current.address + current.runtime_size)
                 PROVE  ~(current.address + received <= x
                            /\ x < current.address + received + Len(body))
        BY <2>2 DEF Write
    <3>1. x \in Nat
        BY LoaderAssumption DEF Memory
    <3> QED BY <2>1, <2>3, <2>4, <3>1
  <2>6. memory' \in [Memory -> Byte]
      BY DEF LoaderInvariant, LoaderTypeOK
  <2> QED BY <2>1, <2>2, <2>5, <2>6, WriteIsLoad
<1> QED BY <1>1, <1>2

\* EndImage writes the tail of the current image.
LEMMA EndImageContract ==
    ASSUME LoaderInvariant, LoaderInvariant', NEW empty \in BOOLEAN, EndImage(empty)
    PROVE  Contract!Load \/ UNCHANGED Contract!contractVars
<1>1. CASE EndImageCode(empty) # "Ok"
    BY <1>1, StutterContract DEF EndImage, Refuse, bootVars
<1>2. CASE EndImageCode(empty) = "Ok"
  <2>1. state = "Receiving"
      BY <1>2 DEF EndImageCode
  <2>2. /\ Zero(current.address + current.file_size, current.runtime_size - current.file_size)
        /\ UNCHANGED <<boot, launched>> /\ Serving
      BY <1>2 DEF EndImage, bootVars
  <2>3. /\ current.address \in Nat /\ current.file_size \in Nat /\ current.runtime_size \in Nat
      BY <2>1, ReceivingFacts, ImageFields
  <2>4. \A x \in Memory :
           ~(current.address <= x /\ x < current.address + current.runtime_size)
              => memory'[x] = memory[x]
      BY <2>2, <2>3, LoaderAssumption DEF Zero, Memory
  <2>5. memory' \in [Memory -> Byte]
      BY DEF LoaderInvariant, LoaderTypeOK
  <2> QED BY <2>1, <2>2, <2>4, <2>5, WriteIsLoad
<1> QED BY <1>1, <1>2

\* Boot starts the committed bundle.
LEMMA BootContractStep ==
    ASSUME LoaderInvariant, NEW empty \in BOOLEAN, Boot(empty)
    PROVE  \/ \E b \in OfferedBundles : Contract!StartBundle(b)
           \/ UNCHANGED Contract!contractVars
<1>1. CASE BootCode(empty) # "Ok"
    BY <1>1, StutterContract DEF Boot, Refuse, bootVars
<1>2. CASE BootCode(empty) = "Ok"
  <2>1. state = "Ready"
      BY <1>2 DEF BootCode
  <2>2. boot' = bundle /\ UNCHANGED <<memory, launched>> /\ Serving
      BY <1>2 DEF Boot, bootVars
  <2>3. /\ bundle \in OfferedBundles /\ bundle # None
        /\ images \in Seq(OfferedImages)
        /\ Len(images) = bundle.image_count /\ BundleValid(bundle)
      BY <2>1 DEF LoaderInvariant, LoaderTypeOK, StateFollowsTransfer
  <2>4. boot = None /\ launched = None
      BY <2>1, <2>2, ReceivingHasNoGuest
  <2>5. Contract!Bootable(bundle, images, memory)
      BY <2>1, ReadyIsBootable
  <2>6. Len(images) \in 1 .. MAX_IMAGES /\ images \in [1 .. Len(images) -> OfferedImages]
      BY <2>3 DEF BundleValid
  <2>7. \E n \in 1 .. MAX_IMAGES : \E s \in [1 .. n -> OfferedImages] :
           Contract!Bootable(bundle, s, memory)
      BY <2>5, <2>6
  <2>8. Contract!StartBundle(bundle)
      BY <2>2, <2>3, <2>4, <2>7 DEF Contract!StartBundle
  <2> QED BY <2>3, <2>8
<1> QED BY <1>1, <1>2

\* CPU 0 starts the packaged payload only in untouched memory.
LEMMA PrebootContract ==
    ASSUME LoaderInvariant, Preboot
    PROVE  Contract!StartFallback \/ UNCHANGED Contract!contractVars
<1>1. CASE PrebootUnavailable
  <2>1. ~available /\ phase = "preboot" /\ UNCHANGED <<memory, boot>>
      BY <1>1 DEF PrebootUnavailable
  <2>2. boot = None /\ launched = None /\ memory = InitialMemory
      BY <2>1 DEF LoaderInvariant, BootFollowsUpload
  <2>3. CASE require_upload
      BY <1>1, <2>1, <2>3, StutterContract DEF PrebootUnavailable
  <2>4. CASE ~require_upload
      BY <1>1, <2>1, <2>2, <2>4 DEF PrebootUnavailable, Contract!StartFallback
  <2> QED BY <2>3, <2>4
<1>2. CASE PrebootBoot
  <2>1. boot # None /\ launched' = boot /\ boot' = None /\ UNCHANGED memory
      BY <1>2 DEF PrebootBoot
  <2> QED BY <2>1 DEF Contract!contractVars
<1>3. CASE PrebootExpire
  <2>1. /\ ~claimed /\ phase = "preboot" /\ boot = None /\ launched' = Fallback
        /\ UNCHANGED <<memory, boot>>
      BY <1>3 DEF PrebootExpire
  <2>2. launched = None /\ memory = InitialMemory
      BY <2>1 DEF LoaderInvariant, BootFollowsUpload
  <2> QED BY <2>1, <2>2 DEF Contract!StartFallback
<1>4. CASE enter_guest
    BY <1>4, StutterContract DEF enter_guest
<1> QED BY <1>1, <1>2, <1>3, <1>4 DEF Preboot

\* Every step is a step of the contract or a stutter.
LEMMA StepContract ==
    LoaderInvariant /\ LoaderInvariant' /\ [LoaderNext]_vars
        => [Contract!ContractNext]_(Contract!contractVars)
<1> SUFFICES ASSUME LoaderInvariant, LoaderInvariant', [LoaderNext]_vars
             PROVE  Contract!ContractNext \/ UNCHANGED Contract!contractVars
    OBVIOUS
<1>1. CASE UNCHANGED vars
    BY <1>1, StutterContract DEF vars, bootVars
<1>2. CASE Transmit
    BY <1>2, StutterContract DEF Transmit, bootVars
<1>3. CASE Preboot
    BY <1>3, PrebootContract DEF Contract!ContractNext
<1>4. CASE BundleRequest
  <2>1. CASE UnknownOpcode
      BY <2>1, StutterContract DEF UnknownOpcode, Refuse, bootVars
  <2>2. ASSUME NEW empty \in BOOLEAN, NEW opcode, Inspect(opcode, empty)
        PROVE  UNCHANGED Contract!contractVars
      BY <2>2, StutterContract DEF Inspect, Refuse, bootVars
  <2>3. ASSUME NEW empty \in BOOLEAN, CommitBundle(empty) \/ Abort(empty)
        PROVE  UNCHANGED Contract!contractVars
      BY <2>3, StutterContract DEF CommitBundle, Abort, Refuse, bootVars
  <2>4. ASSUME NEW b, NEW plain, BeginBundle(b, plain) \/ BeginImage(b, plain)
        PROVE  UNCHANGED Contract!contractVars
      BY <2>4, StutterContract DEF BeginBundle, BeginImage, Refuse, bootVars
  <2>5. ASSUME NEW empty \in BOOLEAN, EndImage(empty) \/ Boot(empty)
        PROVE  Contract!ContractNext \/ UNCHANGED Contract!contractVars
      BY <2>5, EndImageContract, BootContractStep DEF Contract!ContractNext
  <2>6. ASSUME NEW offset \in Word64, NEW plain \in BOOLEAN, NEW body \in Chunks,
               Data(offset, plain, body)
        PROVE  Contract!ContractNext \/ UNCHANGED Contract!contractVars
      BY <2>6, DataContract DEF Contract!ContractNext
  <2> QED BY <1>4, <2>1, <2>2, <2>3, <2>4, <2>5, <2>6 DEF BundleRequest
<1> QED BY <1>1, <1>2, <1>3, <1>4 DEF LoaderNext

(***************************************************************************)
(* THEOREM.  The loader implements the boot contract: a bundle starts only *)
(* when all its images are in memory as they were checked, the packaged    *)
(* payload only in memory no upload has touched, and nothing is loaded     *)
(* once a guest has been chosen (README.md:303-312).                       *)
(***************************************************************************)
THEOREM LoaderRefinesBootContract == LoaderSpec => ImplementsBootContract
<1>1. LoaderInit => Contract!ContractInit
    BY InitContract
<1>2. LoaderInvariant /\ LoaderInvariant' /\ [LoaderNext]_vars
         => [Contract!ContractNext]_(Contract!contractVars)
    BY StepContract
<1> QED BY <1>1, <1>2, LoaderInvariantHolds, PTL DEF LoaderSpec, ImplementsBootContract

(***************************************************************************)
(* ENDPOINT ZERO.                                                          *)
(***************************************************************************)

(***************************************************************************)
(* The inductive invariant.  Its parts are about a queue of descriptors d, *)
(* a queue of events e, the slots o that are taken, the last SETUP s that  *)
(* was handled and the last one n that was sent, with the request r.       *)
(***************************************************************************)
EventSet ==
    [kind : {"setup"}, request : Requests, sequence : Nat]
    \cup [kind : {"transfer"}, slot : 0 .. Slots - 1, code : {"success", "short", "sequence"},
          sequence : Nat]
    \cup [kind : {"notified"}, function : Functions]
    \cup [kind : {"port"}]
DescriptorSet == [slot : 0 .. Slots - 1, stage : {"data", "status"}, sequence : Nat]

PipeTypes ==
    /\ PipeTypeOK
    /\ events \in Seq(EventSet) /\ armed \in Seq(DescriptorSet)
    /\ sequence \in Nat /\ number \in Nat
    /\ control \in [slot : 0 .. Slots, phase : Requests]
    /\ request \in Requests

\* Requests are handled in their order, and only the last one has the number
\* that the controller looks for.
Numbered(d, e, s, n, r) ==
    /\ s <= n
    /\ \A k \in DOMAIN d : d[k].sequence <= s
    /\ \A k \in DOMAIN e :
         e[k].kind = "setup" =>
           /\ s < e[k].sequence /\ e[k].sequence <= n
           /\ e[k].sequence = n => e[k].request = r
    /\ \A k \in DOMAIN e : e[k].kind \in {"setup", "port"} => s < n
    /\ \A j, k \in DOMAIN e :
         j < k /\ e[j].kind = "setup" =>
           /\ e[k].kind \in {"setup", "port"} => e[j].sequence < n
           /\ e[k].kind = "setup" => e[j].sequence < e[k].sequence

\* Nothing is completed between a port reset and its acknowledgement.
PortIsLast(e) ==
    \A j, k \in DOMAIN e : j < k /\ e[j].kind = "port" => e[k].kind # "transfer"

\* A slot is used again only after its completion has been handled.
SlotsAreDistinct(d, e, o) ==
    /\ \A j, k \in DOMAIN d : j # k => d[j].slot # d[k].slot
    /\ \A j \in DOMAIN d, k \in DOMAIN e : e[k].kind = "transfer" => e[k].slot # d[j].slot
    /\ \A j, k \in DOMAIN e :
         j # k /\ e[j].kind = "transfer" /\ e[k].kind = "transfer" => e[j].slot # e[k].slot
    /\ \A k \in DOMAIN d : d[k].slot \in o
    /\ \A k \in DOMAIN e : e[k].kind = "transfer" => e[k].slot \in o

\* The device is in the state that the host's request asks for.
Applied ==
    /\ request.kind = "configuration" => configuration = request.value
    /\ request.kind = "alternate" => alternate = request.value
    /\ request.kind = "dtr" => dtr = request.value
    /\ request.kind = "line coding" => line_coding = request.value
    /\ request.kind = "input size" => input_size = request.value

\* The driver waits for the descriptor of the last SETUP.
WaitsForLast ==
    \A k \in DOMAIN armed : armed[k].sequence = sequence => armed[k].slot = control.slot

\* While it waits for data, the request of the host is not complete; while
\* it answers a read, the request is one.
Reads == {"read", "full read"}
DataComesFirst ==
    /\ HasData(control.phase) /\ sequence = number =>
         /\ control.phase = request /\ stage # "done"
         /\ \A k \in DOMAIN armed : armed[k].sequence = number => armed[k].stage = "data"
    /\ control.phase.kind \in Reads /\ sequence = number => request.kind \in Reads

\* The buffer still holds the data whose completion is on its way.
DataAreThere ==
    \A k \in DOMAIN events :
        /\ events[k].kind = "transfer" /\ events[k].slot = control.slot
        /\ events[k].code = "success" /\ HasData(control.phase)
        => data = control.phase.value /\ control.phase \in whole

\* The status stage is offered only for a request that has taken effect.
StatusIsLast ==
    /\ \A k \in DOMAIN armed :
         armed[k].sequence = number /\ armed[k].stage = "status" => Applied
    /\ stage = "done" => Applied /\ sequence = number

EndpointInvariant ==
    /\ PipeTypes /\ Numbered(armed, events, sequence, number, request)
    /\ PortIsLast(events) /\ SlotsAreDistinct(armed, events, occupied)
    /\ WaitsForLast /\ DataComesFirst /\ DataAreThere /\ StatusIsLast
    /\ SettingsWereSent

-----------------------------------------------------------------------------
(***************************************************************************)
(* Queues.                                                                 *)
(***************************************************************************)
LEMMA Popped ==
    ASSUME NEW S, NEW s \in Seq(S), s # <<>>
    PROVE  /\ Tail(s) \in Seq(S) /\ 1 \in DOMAIN s /\ Head(s) = s[1] /\ Head(s) \in S
           /\ \A k \in DOMAIN Tail(s) :
                k \in Nat /\ k + 1 \in DOMAIN s /\ 1 < k + 1 /\ Tail(s)[k] = s[k + 1]
<1>1. Tail(s) \in Seq(S) /\ Len(Tail(s)) = Len(s) - 1 /\ Len(s) \in Nat /\ Len(s) # 0
  BY HeadTailProperties, EmptySeq
<1>2. \A k \in 1 .. Len(Tail(s)) : Tail(s)[k] = s[k + 1]
  BY HeadTailProperties
<1>3. DOMAIN s = 1 .. Len(s) /\ DOMAIN Tail(s) = 1 .. Len(s) - 1
  BY <1>1
<1>4. 1 \in DOMAIN s /\ Head(s) = s[1] /\ Head(s) \in S
  BY <1>1, <1>3
<1>5. \A k \in 1 .. Len(s) - 1 : k \in Nat /\ k + 1 \in 1 .. Len(s) /\ 1 < k + 1
  BY <1>1
<1> QED BY <1>1, <1>2, <1>3, <1>4, <1>5

LEMMA Pushed ==
    ASSUME NEW S, NEW s \in Seq(S), NEW e \in S
    PROVE  /\ Append(s, e) \in Seq(S)
           /\ \A k \in DOMAIN Append(s, e) :
                \/ k \in DOMAIN s /\ Append(s, e)[k] = s[k] /\ k < Len(s) + 1
                \/ k = Len(s) + 1 /\ Append(s, e)[k] = e
           /\ \A k \in DOMAIN s : ~(Len(s) + 1 < k) /\ k # Len(s) + 1
           /\ ~(Len(s) + 1 < Len(s) + 1)
<1>1. /\ Append(s, e) \in Seq(S) /\ Len(Append(s, e)) = Len(s) + 1 /\ Len(s) \in Nat
      /\ \A k \in 1 .. Len(s) : Append(s, e)[k] = s[k]
      /\ Append(s, e)[Len(s) + 1] = e
  BY AppendProperties
<1>2. DOMAIN s = 1 .. Len(s) /\ DOMAIN Append(s, e) = 1 .. Len(s) + 1
  BY <1>1
<1>3. \A k \in 1 .. Len(s) + 1 : (k \in 1 .. Len(s) /\ k < Len(s) + 1) \/ k = Len(s) + 1
  BY <1>1
<1>4. \A k \in 1 .. Len(s) : ~(Len(s) + 1 < k) /\ k # Len(s) + 1
  BY <1>1
<1>5. ~(Len(s) + 1 < Len(s) + 1)
  BY <1>1
<1> QED BY <1>1, <1>2, <1>3, <1>4, <1>5

LEMMA EventType ==
    ASSUME NEW e \in EventSet
    PROVE  /\ e.kind \in {"setup", "transfer", "notified", "port"}
           /\ e.kind = "setup" => e.request \in Requests /\ e.sequence \in Nat
           /\ e.kind = "transfer" => e.slot \in 0 .. Slots - 1
           /\ e.kind = "transfer" => e.code \in {"success", "short", "sequence"}
           /\ e.kind = "notified" => e.function \in Functions
BY DEF EventSet

LEMMA DescriptorType ==
    ASSUME NEW d \in DescriptorSet
    PROVE  d.slot \in 0 .. Slots - 1 /\ d.stage \in {"data", "status"} /\ d.sequence \in Nat
BY DEF DescriptorSet

LEMMA RequestType ==
    ASSUME NEW r \in Requests
    PROVE  /\ r.kind \in {"configuration", "alternate", "dtr"} => r.value \in Switch
           /\ r.kind \in {"line coding", "input size"} => r.value \in Codings
           /\ HasData(r) => r = Request(r.kind, r.value)
           /\ Unknown \in Requests /\ ~HasData(Unknown) /\ Unknown.kind = "unknown"
           /\ Request("read", NOTHING) \in Requests /\ ~HasData(Request("read", NOTHING))
<1>1. \/ r \in [kind : {"configuration", "alternate", "dtr"}, value : Switch]
      \/ r \in [kind : {"line coding", "input size"}, value : Codings]
      \/ r \in [kind : {"clear halt"}, value : Functions]
      \/ r \in {Request("read", NOTHING), Request("full read", NOTHING), Unknown}
  BY Zenon DEF Requests
<1>2. r \in {Request("read", NOTHING), Request("full read", NOTHING), Unknown}
        => r.kind \in {"read", "full read", "unknown"}
  <2>1. Request("read", NOTHING).kind = "read" /\ Request("full read", NOTHING).kind = "full read"
    BY DEF Request
  <2>2. Unknown.kind = "unknown"
    BY DEF Request, Unknown
  <2> QED BY <2>1, <2>2
<1>3. r.kind \in {"configuration", "alternate", "dtr"} => r.value \in Switch
  <2>1. CASE r \in [kind : {"configuration", "alternate", "dtr"}, value : Switch]
    BY <2>1
  <2>2. CASE r \in [kind : {"line coding", "input size"}, value : Codings]
    BY <2>2
  <2>3. CASE r \in [kind : {"clear halt"}, value : Functions]
    BY <2>3
  <2>4. CASE r.kind \in {"read", "full read", "unknown"}
    BY <2>4
  <2> QED BY <1>1, <1>2, <2>1, <2>2, <2>3, <2>4
<1>4. r.kind \in {"line coding", "input size"} =>
        r.value \in Codings /\ r = Request(r.kind, r.value)
  <2>1. CASE r \in [kind : {"configuration", "alternate", "dtr"}, value : Switch]
    BY <2>1
  <2>2. CASE r \in [kind : {"line coding", "input size"}, value : Codings]
    BY <2>2 DEF Request
  <2>3. CASE r \in [kind : {"clear halt"}, value : Functions]
    BY <2>3
  <2>4. CASE r.kind \in {"read", "full read", "unknown"}
    BY <2>4
  <2> QED BY <1>1, <1>2, <2>1, <2>2, <2>3, <2>4
<1>5. Unknown \in Requests /\ Unknown.kind = "unknown" /\ Request("read", NOTHING) \in Requests
  BY DEF Requests, Request, Unknown
<1>6. ~HasData(Unknown) /\ ~HasData(Request("read", NOTHING))
  BY DEF HasData, Unknown, Request
<1> QED BY <1>3, <1>4, <1>5, <1>6 DEF HasData

-----------------------------------------------------------------------------
(***************************************************************************)
(* The parts of the invariant that are about the queues.                   *)
(***************************************************************************)
\* An event is handled.
LEMMA PopNumbered ==
    ASSUME NEW d, NEW e \in Seq(EventSet), e # <<>>, NEW s, NEW n, NEW r,
           Numbered(d, e, s, n, r)
    PROVE  Numbered(d, Tail(e), s, n, r)
<1>1. \A k \in DOMAIN Tail(e) :
        k \in Nat /\ k + 1 \in DOMAIN e /\ 1 < k + 1 /\ Tail(e)[k] = e[k + 1]
  BY Popped
<1>2. \A j, k \in DOMAIN Tail(e) : j < k => j + 1 < k + 1
  BY <1>1
<1> QED BY <1>1, <1>2 DEF Numbered

LEMMA PopPort ==
    ASSUME NEW e \in Seq(EventSet), e # <<>>, PortIsLast(e)
    PROVE  /\ PortIsLast(Tail(e))
           /\ Head(e).kind = "port" => \A k \in DOMAIN Tail(e) : Tail(e)[k].kind # "transfer"
<1>1. /\ \A k \in DOMAIN Tail(e) :
           k \in Nat /\ k + 1 \in DOMAIN e /\ 1 < k + 1 /\ Tail(e)[k] = e[k + 1]
      /\ 1 \in DOMAIN e /\ Head(e) = e[1]
  BY Popped
<1>2. \A j, k \in DOMAIN Tail(e) : j < k => j + 1 < k + 1
  BY <1>1
<1> QED BY <1>1, <1>2 DEF PortIsLast

LEMMA PopDistinct ==
    ASSUME NEW d, NEW e \in Seq(EventSet), e # <<>>, NEW o, SlotsAreDistinct(d, e, o)
    PROVE  /\ SlotsAreDistinct(d, Tail(e), o)
           /\ Head(e).kind = "transfer" =>
                /\ SlotsAreDistinct(d, Tail(e), o \ {Head(e).slot}) /\ Head(e).slot \in o
                /\ \A k \in DOMAIN d : d[k].slot # Head(e).slot
<1>1. /\ \A k \in DOMAIN Tail(e) :
           k \in Nat /\ k + 1 \in DOMAIN e /\ 1 < k + 1 /\ Tail(e)[k] = e[k + 1]
      /\ 1 \in DOMAIN e /\ Head(e) = e[1]
  BY Popped
<1>2. /\ \A j, k \in DOMAIN Tail(e) : j # k => j + 1 # k + 1
      /\ \A k \in DOMAIN Tail(e) : k + 1 # 1
  BY <1>1
<1>3. SlotsAreDistinct(d, Tail(e), o)
  BY <1>1, <1>2 DEF SlotsAreDistinct
<1>4. ASSUME Head(e).kind = "transfer"
      PROVE  /\ SlotsAreDistinct(d, Tail(e), o \ {Head(e).slot}) /\ Head(e).slot \in o
             /\ \A k \in DOMAIN d : d[k].slot # Head(e).slot
  <2>1. Head(e).slot \in o /\ \A k \in DOMAIN d : d[k].slot # Head(e).slot
    BY <1>1, <1>4 DEF SlotsAreDistinct
  <2>2. \A k \in DOMAIN Tail(e) : Tail(e)[k].kind = "transfer" => Tail(e)[k].slot # Head(e).slot
    BY <1>1, <1>2, <1>4 DEF SlotsAreDistinct
  <2> QED BY <1>3, <2>1, <2>2 DEF SlotsAreDistinct
<1> QED BY <1>3, <1>4

\* A descriptor is queued in a slot that is free.
LEMMA QueueDistinct ==
    ASSUME NEW d \in Seq(DescriptorSet), NEW e, NEW o, SlotsAreDistinct(d, e, o),
           NEW x \in DescriptorSet, x.slot \notin o
    PROVE  SlotsAreDistinct(Append(d, x), e, o \cup {x.slot})
<1>1. /\ \A k \in DOMAIN Append(d, x) :
           \/ k \in DOMAIN d /\ Append(d, x)[k] = d[k] /\ k < Len(d) + 1
           \/ k = Len(d) + 1 /\ Append(d, x)[k] = x
  BY Pushed
<1> QED BY <1>1 DEF SlotsAreDistinct

LEMMA QueueNumbered ==
    ASSUME NEW d \in Seq(DescriptorSet), NEW e, NEW s \in Nat, NEW n, NEW r,
           Numbered(d, e, s, n, r), NEW x \in DescriptorSet, x.sequence = s
    PROVE  Numbered(Append(d, x), e, s, n, r)
<1>1. /\ \A k \in DOMAIN Append(d, x) :
           \/ k \in DOMAIN d /\ Append(d, x)[k] = d[k] /\ k < Len(d) + 1
           \/ k = Len(d) + 1 /\ Append(d, x)[k] = x
  BY Pushed
<1>2. \A k \in DOMAIN Append(d, x) : Append(d, x)[k].sequence <= s
  BY <1>1 DEF Numbered
<1> QED BY <1>2 DEF Numbered

\* The controller completes its next descriptor.
LEMMA CompleteDistinct ==
    ASSUME NEW d \in Seq(DescriptorSet), d # <<>>, NEW e \in Seq(EventSet), NEW o,
           SlotsAreDistinct(d, e, o),
           NEW x \in EventSet, x.kind = "transfer", x.slot = Head(d).slot
    PROVE  SlotsAreDistinct(Tail(d), Append(e, x), o)
<1>1. /\ \A k \in DOMAIN Tail(d) :
           k \in Nat /\ k + 1 \in DOMAIN d /\ 1 < k + 1 /\ Tail(d)[k] = d[k + 1]
      /\ 1 \in DOMAIN d /\ Head(d) = d[1]
  BY Popped
<1>2. /\ \A j, k \in DOMAIN Tail(d) : j # k => j + 1 # k + 1
      /\ \A k \in DOMAIN Tail(d) : k + 1 # 1
  BY <1>1
<1>3. \A k \in DOMAIN Append(e, x) :
        \/ k \in DOMAIN e /\ Append(e, x)[k] = e[k] /\ k < Len(e) + 1
        \/ k = Len(e) + 1 /\ Append(e, x)[k] = x
  BY Pushed
<1>4. \A k \in DOMAIN Tail(d) : Tail(d)[k].slot # x.slot /\ Tail(d)[k].slot \in o
  BY <1>1, <1>2 DEF SlotsAreDistinct
<1>5. \A k \in DOMAIN e : e[k].kind = "transfer" => e[k].slot # x.slot
  BY <1>1 DEF SlotsAreDistinct
<1>6. x.slot \in o
  BY <1>1 DEF SlotsAreDistinct
<1>7. \A j, k \in DOMAIN Tail(d) : j # k => Tail(d)[j].slot # Tail(d)[k].slot
  BY <1>1, <1>2 DEF SlotsAreDistinct
<1>8. \A j \in DOMAIN Tail(d), k \in DOMAIN Append(e, x) :
        Append(e, x)[k].kind = "transfer" => Append(e, x)[k].slot # Tail(d)[j].slot
  BY <1>1, <1>3, <1>4 DEF SlotsAreDistinct
<1>9. \A j, k \in DOMAIN Append(e, x) :
        j # k /\ Append(e, x)[j].kind = "transfer" /\ Append(e, x)[k].kind = "transfer"
        => Append(e, x)[j].slot # Append(e, x)[k].slot
  BY <1>3, <1>5 DEF SlotsAreDistinct
<1>10. \A k \in DOMAIN Append(e, x) :
         Append(e, x)[k].kind = "transfer" => Append(e, x)[k].slot \in o
  BY <1>3, <1>6 DEF SlotsAreDistinct
<1> QED BY <1>4, <1>7, <1>8, <1>9, <1>10 DEF SlotsAreDistinct

\* An event that is neither a SETUP nor a port reset.
LEMMA PushNumbered ==
    ASSUME NEW d, NEW e \in Seq(EventSet), NEW s, NEW n, NEW r, Numbered(d, e, s, n, r),
           NEW x \in EventSet, x.kind \notin {"setup", "port"}
    PROVE  Numbered(d, Append(e, x), s, n, r)
<1>1. \A k \in DOMAIN Append(e, x) :
        \/ k \in DOMAIN e /\ Append(e, x)[k] = e[k] /\ k < Len(e) + 1
        \/ k = Len(e) + 1 /\ Append(e, x)[k] = x
  BY Pushed
<1> QED BY <1>1 DEF Numbered

LEMMA FewerNumbered ==
    ASSUME NEW d \in Seq(DescriptorSet), d # <<>>, NEW e, NEW s, NEW n, NEW r,
           Numbered(d, e, s, n, r)
    PROVE  Numbered(Tail(d), e, s, n, r)
<1>1. \A k \in DOMAIN Tail(d) : k + 1 \in DOMAIN d /\ Tail(d)[k] = d[k + 1]
  BY Popped
<1>2. \A k \in DOMAIN Tail(d) : Tail(d)[k].sequence <= s
  BY <1>1 DEF Numbered
<1> QED BY <1>2 DEF Numbered

\* A SETUP or a port reset gets the next number.
LEMMA PushNewNumbered ==
    ASSUME NEW d, NEW e \in Seq(EventSet), NEW s \in Nat, NEW n \in Nat, NEW r,
           Numbered(d, e, s, n, r),
           NEW x \in EventSet, NEW q,
           x.kind = "port" \/ (x.kind = "setup" /\ x.sequence = n + 1 /\ x.request = q)
    PROVE  Numbered(d, Append(e, x), s, n + 1, q)
<1> DEFINE t == Append(e, x)
<1>1. /\ \A k \in DOMAIN t :
           \/ k \in DOMAIN e /\ t[k] = e[k] /\ k < Len(e) + 1
           \/ k = Len(e) + 1 /\ t[k] = x
      /\ \A k \in DOMAIN e : ~(Len(e) + 1 < k) /\ k # Len(e) + 1
      /\ ~(Len(e) + 1 < Len(e) + 1)
  BY Pushed
<1>2. s <= n + 1 /\ s < n + 1
  BY DEF Numbered
<1>3. ASSUME NEW k \in DOMAIN e, e[k].kind = "setup"
      PROVE  e[k].sequence \in Nat /\ s < e[k].sequence /\ e[k].sequence < n + 1
  <2>1. e[k].sequence \in Nat
    BY <1>3, EventType
  <2> QED BY <1>3, <2>1 DEF Numbered
<1> HIDE DEF t
<1>4. ASSUME NEW k \in DOMAIN t, t[k].kind = "setup"
      PROVE  /\ s < t[k].sequence /\ t[k].sequence <= n + 1
             /\ t[k].sequence = n + 1 => t[k].request = q
  <2>1. CASE k \in DOMAIN e /\ t[k] = e[k]
    <3>1. e[k].sequence \in Nat /\ s < e[k].sequence /\ e[k].sequence < n + 1
      BY <1>3, <1>4, <2>1
    <3> QED BY <2>1, <3>1
  <2>2. CASE t[k] = x
    BY <1>2, <1>4, <2>2
  <2> QED BY <1>1, <2>1, <2>2
<1>5. ASSUME NEW k \in DOMAIN t, NEW j \in DOMAIN t, j < k, t[j].kind = "setup"
      PROVE  /\ t[j].sequence < n + 1
             /\ t[k].kind = "setup" => t[j].sequence < t[k].sequence
  <2>1. j \in DOMAIN e /\ t[j] = e[j]
    BY <1>1, <1>5
  <2>2. e[j].sequence < n + 1
    BY <1>3, <1>5, <2>1
  <2>3. t[k].kind = "setup" => t[j].sequence < t[k].sequence
    <3>1. CASE k \in DOMAIN e /\ t[k] = e[k]
      BY <1>5, <2>1, <3>1 DEF Numbered
    <3>2. CASE t[k] = x
      BY <2>1, <2>2, <3>2
    <3> QED BY <1>1, <3>1, <3>2
  <2> QED BY <2>1, <2>2, <2>3
<1> QED BY <1>2, <1>4, <1>5 DEF Numbered, t

\* A SETUP is handled.
LEMMA SetupNumbered ==
    ASSUME NEW d \in Seq(DescriptorSet), NEW e \in Seq(EventSet), e # <<>>,
           NEW s \in Nat, NEW n \in Nat, NEW r,
           Numbered(d, e, s, n, r), Head(e).kind = "setup"
    PROVE  /\ Numbered(d, Tail(e), Head(e).sequence, n, r)
           /\ \A k \in DOMAIN d : d[k].sequence < Head(e).sequence /\ d[k].sequence < n
           /\ s < n /\ Head(e).sequence \in Nat
           /\ Head(e).sequence = n => Head(e).request = r
<1> DEFINE q == Head(e).sequence
           t == Tail(e)
<1>1. /\ \A k \in DOMAIN t : k \in Nat /\ k + 1 \in DOMAIN e /\ 1 < k + 1 /\ t[k] = e[k + 1]
      /\ 1 \in DOMAIN e /\ Head(e) = e[1] /\ Head(e) \in EventSet
  BY Popped
<1>2. s < n /\ q \in Nat /\ s < q /\ q <= n /\ (q = n => Head(e).request = r)
  BY <1>1, EventType DEF Numbered
<1>3. \A k \in DOMAIN d : d[k].sequence \in Nat /\ d[k].sequence <= s
  BY DescriptorType DEF Numbered
<1>4. \A k \in DOMAIN d : d[k].sequence < q /\ d[k].sequence < n /\ d[k].sequence <= q
  <2> HIDE DEF q
  <2> QED BY <1>2, <1>3
<1>5. \A k \in DOMAIN t :
        /\ t[k].kind = "setup" => q < t[k].sequence
        /\ t[k].kind \in {"setup", "port"} => q < n
  BY <1>1 DEF Numbered
<1>6. Numbered(d, t, s, n, r)
  BY PopNumbered
<1> HIDE DEF q, t
<1>7. Numbered(d, t, q, n, r)
  BY <1>2, <1>4, <1>5, <1>6 DEF Numbered
<1> QED BY <1>2, <1>4, <1>7 DEF q, t

\* A SETUP or a notification is no completion.
LEMMA PushDistinct ==
    ASSUME NEW d, NEW e \in Seq(EventSet), NEW o, SlotsAreDistinct(d, e, o),
           NEW x \in EventSet, x.kind # "transfer"
    PROVE  SlotsAreDistinct(d, Append(e, x), o)
<1>1. \A k \in DOMAIN Append(e, x) :
        \/ k \in DOMAIN e /\ Append(e, x)[k] = e[k] /\ k < Len(e) + 1
        \/ k = Len(e) + 1 /\ Append(e, x)[k] = x
  BY Pushed
<1> QED BY <1>1 DEF SlotsAreDistinct

LEMMA PushPort ==
    ASSUME NEW e \in Seq(EventSet), PortIsLast(e), NEW x \in EventSet,
           x.kind # "transfer" \/ \A k \in DOMAIN e : e[k].kind # "port"
    PROVE  PortIsLast(Append(e, x))
<1>1. /\ \A k \in DOMAIN Append(e, x) :
           \/ k \in DOMAIN e /\ Append(e, x)[k] = e[k] /\ k < Len(e) + 1
           \/ k = Len(e) + 1 /\ Append(e, x)[k] = x
      /\ \A k \in DOMAIN e : ~(Len(e) + 1 < k) /\ k # Len(e) + 1
      /\ ~(Len(e) + 1 < Len(e) + 1)
  BY Pushed
<1> QED BY <1>1 DEF PortIsLast

-----------------------------------------------------------------------------
(***************************************************************************)
(* The host and the controller.                                            *)
(***************************************************************************)
\* Steps of the notifications, and a stall that the host sees.
LEMMA QuietStep ==
    ASSUME EndpointInvariant, needed' \subseteq Functions,
           stage' = stage \/ stage' # "done",
           UNCHANGED <<configuration, alternate, dtr, line_coding, input_size, sequence, control,
                       next, occupied, armed, events, data, request, number, whole>>
    PROVE  EndpointInvariant'
<1>1. PipeTypes'
  BY DEF EndpointInvariant, PipeTypes, PipeTypeOK
<1>2. /\ Numbered(armed, events, sequence, number, request)'
      /\ PortIsLast(events)' /\ SlotsAreDistinct(armed, events, occupied)'
  BY DEF EndpointInvariant
<1>3. WaitsForLast' /\ DataComesFirst' /\ DataAreThere'
  BY DEF EndpointInvariant, WaitsForLast, DataComesFirst, DataAreThere
<1>4. StatusIsLast' /\ SettingsWereSent'
  BY DEF EndpointInvariant, StatusIsLast, SettingsWereSent, Applied
<1> QED BY <1>1, <1>2, <1>3, <1>4 DEF EndpointInvariant

\* A SETUP or a port reset: what was armed before is of an older request.
LEMMA NewNumberStep ==
    ASSUME EndpointInvariant, NEW x \in EventSet, NEW q \in Requests,
           x.kind = "port" \/ (x.kind = "setup" /\ x.sequence = number + 1 /\ x.request = q),
           number' = number + 1, request' = q, stage' # "done",
           events' = Append(events, x), armed' = armed \/ armed' = <<>>,
           UNCHANGED <<configuration, alternate, dtr, line_coding, input_size, sequence, control,
                       next, occupied, needed, data, whole>>
    PROVE  EndpointInvariant'
<1>1. /\ events \in Seq(EventSet) /\ armed \in Seq(DescriptorSet)
      /\ sequence \in Nat /\ number \in Nat /\ sequence <= number
  BY DEF EndpointInvariant, PipeTypes, Numbered
<1>2. /\ \A k \in DOMAIN events' : \/ k \in DOMAIN events /\ events'[k] = events[k]
                                   \/ events'[k] = x
      /\ events' \in Seq(EventSet)
  BY <1>1, Pushed
<1>3. /\ armed' \in Seq(DescriptorSet)
      /\ \A k \in DOMAIN armed' : k \in DOMAIN armed /\ armed'[k] = armed[k]
  <2>1. <<>> \in Seq(DescriptorSet) /\ DOMAIN <<>> = {}
    OBVIOUS
  <2> QED BY <1>1, <2>1
<1>4. PipeTypes'
  <2>1. number' \in Nat
    BY <1>1
  <2> QED BY <1>2, <1>3, <2>1 DEF EndpointInvariant, PipeTypes, PipeTypeOK
<1>5. Numbered(armed, events, sequence, number, request)'
  <2>1. Numbered(armed, events', sequence, number + 1, q)
    BY <1>1, PushNewNumbered DEF EndpointInvariant
  <2> QED BY <1>3, <2>1 DEF Numbered
<1>6. PortIsLast(events)'
  BY <1>1, PushPort DEF EndpointInvariant
<1>7. SlotsAreDistinct(armed, events, occupied)'
  <2>1. SlotsAreDistinct(armed, events', occupied)
    BY <1>1, PushDistinct DEF EndpointInvariant
  <2> QED BY <1>3, <2>1 DEF SlotsAreDistinct
<1>8. sequence' # number' /\ \A k \in DOMAIN armed' : armed'[k].sequence # number'
  <2>1. \A k \in DOMAIN armed' : armed'[k].sequence \in Nat /\ armed'[k].sequence <= sequence
    BY <1>1, <1>3, DescriptorType DEF EndpointInvariant, Numbered
  <2> QED BY <1>1, <2>1
<1>9. WaitsForLast' /\ DataComesFirst'
  BY <1>3, <1>8 DEF EndpointInvariant, WaitsForLast, DataComesFirst
<1>10. DataAreThere'
  BY <1>2 DEF EndpointInvariant, DataAreThere
<1>11. StatusIsLast' /\ SettingsWereSent'
  BY <1>8 DEF EndpointInvariant, StatusIsLast, SettingsWereSent
<1> QED BY <1>4, <1>5, <1>6, <1>7, <1>9, <1>10, <1>11 DEF EndpointInvariant

LEMMA HostSetupStep ==
    ASSUME EndpointInvariant, NEW r \in Requests, HostSetup(r)
    PROVE  EndpointInvariant'
<1> DEFINE x == [kind |-> "setup", request |-> r, sequence |-> number + 1]
<1>1. number \in Nat /\ number + 1 \in Nat
  BY DEF EndpointInvariant, PipeTypes
<1>2. x \in EventSet /\ x.kind = "setup" /\ x.sequence = number + 1 /\ x.request = r
  BY <1>1 DEF EventSet
<1>3. /\ number' = number + 1 /\ request' = r /\ stage' = "setup" /\ events' = Append(events, x)
      /\ UNCHANGED <<configuration, alternate, dtr, line_coding, input_size, sequence, control,
                     next, occupied, needed, armed, data, whole>>
  BY DEF HostSetup, deviceVars, ringVars, notifyVars
<1> HIDE DEF x
<1> QED BY <1>2, <1>3, NewNumberStep

LEMMA HostResetStep ==
    ASSUME EndpointInvariant, HostReset
    PROVE  EndpointInvariant'
<1> DEFINE x == [kind |-> "port"]
<1>1. x \in EventSet /\ x.kind = "port" /\ Unknown \in Requests
  BY DEF EventSet, Requests
<1>2. /\ number' = number + 1 /\ request' = Unknown /\ stage' = "idle"
      /\ events' = Append(events, x) /\ armed' = <<>>
      /\ UNCHANGED <<configuration, alternate, dtr, line_coding, input_size, sequence, control,
                     next, occupied, needed, data, whole>>
  BY DEF HostReset, deviceVars, ringVars, notifyVars
<1> HIDE DEF x
<1> QED BY <1>1, <1>2, NewNumberStep

LEMMA HostNotifiedStep ==
    ASSUME EndpointInvariant, NEW f \in Functions, HostNotified(f)
    PROVE  EndpointInvariant'
<1> DEFINE x == [kind |-> "notified", function |-> f]
<1>1. x \in EventSet /\ x.kind = "notified"
  BY DEF EventSet
<1>2. /\ events' = Append(events, x)
      /\ UNCHANGED <<configuration, alternate, dtr, line_coding, input_size, sequence, control,
                     next, occupied, needed, armed, data, request, stage, number, whole>>
  BY DEF HostNotified, deviceVars, ringVars, notifyVars
<1> HIDE DEF x
<1>3. events \in Seq(EventSet)
  BY DEF EndpointInvariant, PipeTypes
<1>4. /\ \A k \in DOMAIN events' : \/ k \in DOMAIN events /\ events'[k] = events[k]
                                   \/ events'[k] = x
      /\ events' \in Seq(EventSet)
  BY <1>1, <1>2, <1>3, Pushed
<1>5. PipeTypes'
  BY <1>2, <1>4 DEF EndpointInvariant, PipeTypes, PipeTypeOK
<1>6. Numbered(armed, events, sequence, number, request)'
  BY <1>1, <1>2, <1>3, PushNumbered DEF EndpointInvariant
<1>7. PortIsLast(events)' /\ SlotsAreDistinct(armed, events, occupied)'
  BY <1>1, <1>2, <1>3, PushPort, PushDistinct DEF EndpointInvariant
<1>8. WaitsForLast' /\ DataComesFirst'
  BY <1>2 DEF EndpointInvariant, WaitsForLast, DataComesFirst
<1>9. DataAreThere'
  BY <1>1, <1>2, <1>4 DEF EndpointInvariant, DataAreThere
<1>10. StatusIsLast' /\ SettingsWereSent'
  BY <1>2 DEF EndpointInvariant, StatusIsLast, SettingsWereSent, Applied
<1> QED BY <1>5, <1>6, <1>7, <1>8, <1>9, <1>10 DEF EndpointInvariant

\* The controller completes a descriptor: what this does to the queues.
LEMMA CompleteQueues ==
    ASSUME EndpointInvariant, armed # <<>>, NEW code \in {"success", "short", "sequence"},
           Complete(code), armed' = Tail(armed),
           \A k \in DOMAIN events : events[k].kind # "port",
           UNCHANGED <<configuration, alternate, dtr, line_coding, input_size, sequence, control,
                       next, occupied, needed, request, number>>
    PROVE  /\ PipeTypes' /\ Numbered(armed, events, sequence, number, request)'
           /\ PortIsLast(events)' /\ SlotsAreDistinct(armed, events, occupied)'
           /\ WaitsForLast'
           /\ \A k \in DOMAIN events' :
                \/ k \in DOMAIN events /\ events'[k] = events[k]
                \/ events'[k].slot = Head(armed).slot /\ events'[k].code = code
           /\ \A k \in DOMAIN armed' : k + 1 \in DOMAIN armed /\ armed'[k] = armed[k + 1]
           /\ 1 \in DOMAIN armed /\ Head(armed) = armed[1] /\ Head(armed) \in DescriptorSet
<1> DEFINE x == [kind |-> "transfer", slot |-> Head(armed).slot, code |-> code,
                sequence |-> Head(armed).sequence]
<1>1. events \in Seq(EventSet) /\ armed \in Seq(DescriptorSet)
  BY DEF EndpointInvariant, PipeTypes
<1>2. /\ armed' \in Seq(DescriptorSet) /\ 1 \in DOMAIN armed /\ Head(armed) = armed[1]
      /\ Head(armed) \in DescriptorSet
      /\ \A k \in DOMAIN armed' : k + 1 \in DOMAIN armed /\ armed'[k] = armed[k + 1]
  BY <1>1, Popped
<1>3. /\ x \in EventSet /\ x.kind = "transfer" /\ x.slot = Head(armed).slot /\ x.code = code
      /\ events' = Append(events, x)
  BY <1>2, DescriptorType DEF EventSet, Complete
<1> HIDE DEF x
<1>4. /\ \A k \in DOMAIN events' : \/ k \in DOMAIN events /\ events'[k] = events[k]
                                   \/ events'[k] = x
      /\ events' \in Seq(EventSet)
  BY <1>1, <1>3, Pushed
<1>5. PipeTypes'
  BY <1>2, <1>4 DEF EndpointInvariant, PipeTypes, PipeTypeOK
<1>6. Numbered(armed, events, sequence, number, request)'
  <2>1. Numbered(armed', events, sequence, number, request)
    BY <1>1, FewerNumbered DEF EndpointInvariant
  <2> QED BY <1>1, <1>3, <2>1, PushNumbered
<1>7. PortIsLast(events)'
  BY <1>1, <1>3, PushPort DEF EndpointInvariant
<1>8. SlotsAreDistinct(armed, events, occupied)'
  BY <1>1, <1>3, CompleteDistinct DEF EndpointInvariant
<1>9. WaitsForLast'
  BY <1>2 DEF EndpointInvariant, WaitsForLast
<1>10. \A k \in DOMAIN events' :
         \/ k \in DOMAIN events /\ events'[k] = events[k]
         \/ events'[k].slot = Head(armed).slot /\ events'[k].code = code
  BY <1>3, <1>4
<1> QED BY <1>2, <1>5, <1>6, <1>7, <1>8, <1>9, <1>10

LEMMA SequenceErrorStep ==
    ASSUME EndpointInvariant, SequenceError
    PROVE  EndpointInvariant'
<1>1. /\ armed # <<>> /\ armed' = Tail(armed) /\ Complete("sequence")
      /\ \A k \in DOMAIN events : events[k].kind # "port"
      /\ UNCHANGED <<configuration, alternate, dtr, line_coding, input_size, sequence, control,
                     next, occupied, needed, request, number, data, stage, whole>>
  BY DEF SequenceError, deviceVars, ringVars, notifyVars, setupVars
<1>2. /\ PipeTypes' /\ Numbered(armed, events, sequence, number, request)'
      /\ PortIsLast(events)' /\ SlotsAreDistinct(armed, events, occupied)'
      /\ WaitsForLast'
      /\ \A k \in DOMAIN events' :
           (k \in DOMAIN events /\ events'[k] = events[k]) \/ events'[k].code = "sequence"
      /\ \A k \in DOMAIN armed' : k + 1 \in DOMAIN armed /\ armed'[k] = armed[k + 1]
  BY <1>1, CompleteQueues
<1>3. DataComesFirst'
  BY <1>1, <1>2 DEF EndpointInvariant, DataComesFirst
<1>4. DataAreThere'
  BY <1>1, <1>2 DEF EndpointInvariant, DataAreThere
<1>5. StatusIsLast' /\ SettingsWereSent'
  BY <1>1, <1>2 DEF EndpointInvariant, StatusIsLast, SettingsWereSent, Applied
<1> QED BY <1>2, <1>3, <1>4, <1>5 DEF EndpointInvariant

\* The host runs a stage of its request, the one that the driver waits for.
LEMMA HostStageStep ==
    ASSUME EndpointInvariant, NEW short \in BOOLEAN, HostStage(short)
    PROVE  EndpointInvariant'
<1> DEFINE trb == Head(armed)
           code == IF short THEN "short" ELSE "success"
           moves == HasData(request) /\ trb.stage = "data"
<1>1. /\ armed # <<>> /\ trb.sequence = number /\ armed' = Tail(armed) /\ Complete(code)
      /\ stage' = IF trb.stage = "status" THEN "done" ELSE stage
      /\ stage = "setup"
      /\ UNCHANGED <<configuration, alternate, dtr, line_coding, input_size, sequence, control,
                     next, occupied, needed, request, number>>
  BY DEF HostStage, deviceVars, ringVars, notifyVars
<1>2. /\ moves /\ ~short => data' = request.value /\ whole' = whole \cup {request}
      /\ ~moves => UNCHANGED <<data, whole>>
      /\ whole \subseteq whole'
      /\ short => moves
  BY DEF HostStage
<1>3. /\ armed \in Seq(DescriptorSet) /\ events \in Seq(EventSet)
      /\ sequence \in Nat /\ number \in Nat /\ sequence <= number
      /\ 1 \in DOMAIN armed /\ trb = armed[1] /\ trb \in DescriptorSet
  BY <1>1, Popped DEF EndpointInvariant, PipeTypes, Numbered
<1>4. sequence = number
  <2>1. trb.sequence <= sequence
    BY <1>3 DEF EndpointInvariant, Numbered
  <2> QED BY <1>1, <1>3, <2>1
<1>5. \A k \in DOMAIN events : events[k].kind # "port"
  <2>1. ~(sequence < number)
    BY <1>3, <1>4
  <2> QED BY <2>1 DEF EndpointInvariant, Numbered
<1>6. trb.slot = control.slot
  BY <1>1, <1>3, <1>4 DEF EndpointInvariant, WaitsForLast
<1>7. \A k \in DOMAIN events : events[k].kind = "transfer" => events[k].slot # control.slot
  BY <1>3, <1>6 DEF EndpointInvariant, SlotsAreDistinct
<1> HIDE DEF code, trb, moves
<1>8. /\ PipeTypes' /\ Numbered(armed, events, sequence, number, request)'
      /\ PortIsLast(events)' /\ SlotsAreDistinct(armed, events, occupied)'
      /\ WaitsForLast'
      /\ \A k \in DOMAIN events' :
           (k \in DOMAIN events /\ events'[k] = events[k]) \/ events'[k].code = code
      /\ \A k \in DOMAIN armed' : k + 1 \in DOMAIN armed /\ armed'[k] = armed[k + 1]
  <2>1. code \in {"success", "short", "sequence"}
    BY DEF code
  <2> QED BY <1>1, <1>5, <2>1, CompleteQueues
\* The driver waits for data only in the data stage of this request.
<1>9. HasData(control.phase) => control.phase = request /\ trb.stage = "data" /\ moves
  BY <1>1, <1>3, <1>4 DEF EndpointInvariant, DataComesFirst, moves
<1>10. DataComesFirst'
  BY <1>1, <1>8, <1>9 DEF EndpointInvariant, DataComesFirst
<1>11. DataAreThere'
  <2> SUFFICES ASSUME NEW k \in DOMAIN events',
                      events'[k].kind = "transfer", events'[k].slot = control.slot,
                      events'[k].code = "success", HasData(control.phase)
               PROVE  data' = control.phase.value /\ control.phase \in whole'
    BY <1>1 DEF DataAreThere
  <2>1. code = "success"
    BY <1>7, <1>8
  <2>2. ~short
    BY <2>1 DEF code
  <2> QED BY <1>2, <1>9, <2>2
<1>12. StatusIsLast'
  <2>1. Applied' <=> Applied
    BY <1>1 DEF Applied
  <2>2. trb.stage = "status" => Applied
    BY <1>1, <1>3 DEF EndpointInvariant, StatusIsLast
  <2> QED BY <1>1, <1>4, <1>8, <2>1, <2>2 DEF EndpointInvariant, StatusIsLast
<1>13. SettingsWereSent'
  BY <1>1, <1>2 DEF EndpointInvariant, SettingsWereSent
<1> QED BY <1>8, <1>10, <1>11, <1>12, <1>13 DEF EndpointInvariant

-----------------------------------------------------------------------------
(***************************************************************************)
(* The driver.                                                             *)
(***************************************************************************)
LEMMA IdleType ==
    /\ Idle \in [slot : 0 .. Slots, phase : Requests] /\ Idle.slot = Slots
    /\ Idle.phase = Unknown /\ ~HasData(Idle.phase) /\ Idle.phase.kind \notin Reads
<1>1. Slots \in 0 .. Slots
  BY ControlPipeAssumption
<1>2. Unknown \in Requests
  BY DEF Requests
<1>3. Idle.slot = Slots /\ Idle.phase = Unknown /\ Unknown.kind = "unknown"
  BY DEF Idle, Unknown, Request
<1>4. Idle \in [slot : 0 .. Slots, phase : Requests]
  BY <1>1, <1>2 DEF Idle
<1> QED BY <1>3, <1>4 DEF HasData, Reads

\* What a request does at once.
LEMMA ApplyEffect ==
    ASSUME NEW r \in Requests, PipeTypeOK, Apply(r)
    PROVE  /\ {configuration', alternate', dtr'} \subseteq Switch
           /\ line_coding' = line_coding /\ input_size' \in {input_size, DEFAULT}
           /\ needed' \subseteq Functions
           /\ r.kind = "configuration" => configuration' = r.value
           /\ r.kind = "alternate" => alternate' = r.value
           /\ r.kind = "dtr" => dtr' = r.value
<1>1. r.kind \in {"configuration", "alternate", "dtr"} => r.value \in Switch
  BY RequestType
<1>2. /\ configuration' = (IF r.kind = "configuration" THEN r.value ELSE configuration)
      /\ alternate' = (IF r.kind = "configuration" THEN "off"
                       ELSE IF r.kind = "alternate" THEN r.value ELSE alternate)
      /\ dtr' = (IF r.kind = "configuration" THEN "off"
                 ELSE IF r.kind = "dtr" THEN r.value ELSE dtr)
      /\ input_size' = (IF r.kind = "configuration" THEN DEFAULT ELSE input_size)
      /\ line_coding' = line_coding
  BY DEF Apply
<1>3. needed' \in {Functions, {}, needed, needed \cup {"ncm"}, needed \cup {"acm"}}
  BY DEF Apply
<1>4. needed' \subseteq Functions
  BY <1>3 DEF PipeTypeOK, Functions
<1>5. {configuration', alternate', dtr'} \subseteq Switch
  BY <1>1, <1>2 DEF PipeTypeOK, Switch
<1> QED BY <1>2, <1>4, <1>5

LEMMA SetupStep ==
    ASSUME EndpointInvariant, Setup
    PROVE  EndpointInvariant'
<1> DEFINE event == Head(events)
           r == event.request
           q == event.sequence
           name == IF HasData(r) \/ r.kind \in {"read", "full read"} THEN "data" ELSE "status"
           x == [slot |-> next, stage |-> name, sequence |-> q]
<1>1. /\ events \in Seq(EventSet) /\ armed \in Seq(DescriptorSet) /\ sequence \in Nat
      /\ number \in Nat /\ PipeTypeOK /\ next \in 0 .. Slots - 1
      /\ occupied \subseteq 0 .. Slots - 1 /\ request \in Requests
  BY DEF EndpointInvariant, PipeTypes, PipeTypeOK
<1>2. /\ events # <<>> /\ event.kind = "setup" /\ events' = Tail(events) /\ sequence' = q
      /\ UNCHANGED <<request, stage, number, whole>>
  BY DEF Setup, Event
<1>3. /\ event \in EventSet /\ r \in Requests /\ q \in Nat /\ events' \in Seq(EventSet)
  BY <1>1, <1>2, Popped, EventType
<1>4. /\ Numbered(armed, events', q, number, request)
      /\ \A k \in DOMAIN armed : armed[k].sequence < q /\ armed[k].sequence < number
      /\ sequence < number /\ (q = number => r = request)
  BY <1>1, <1>2, SetupNumbered DEF EndpointInvariant
<1>5. PortIsLast(events)' /\ SlotsAreDistinct(armed, events', occupied)
  BY <1>1, <1>2, PopPort, PopDistinct DEF EndpointInvariant
<1>6. \A k \in DOMAIN armed : armed[k].sequence # q /\ armed[k].sequence # number
  <2>1. \A k \in DOMAIN armed : armed[k].sequence \in Nat
    BY <1>1, DescriptorType
  <2> HIDE DEF q
  <2> QED BY <1>1, <1>3, <1>4, <2>1
<1>7. stage # "done"
  BY <1>1, <1>4 DEF EndpointInvariant, StatusIsLast
<1>8. CASE Known(r) /\ Queue(name, r, q, occupied)
  <2>1. /\ Apply(r) /\ next \notin occupied
        /\ armed' = Append(armed, x) /\ control' = [slot |-> next, phase |-> r]
        /\ next' = (next + 1) % Slots /\ occupied' = occupied \cup {next}
    BY <1>2, <1>8 DEF Setup, Queue
  <2>2. x \in DescriptorSet /\ x.slot = next /\ x.stage = name /\ x.sequence = q
    BY <1>1, <1>3 DEF DescriptorSet
  <2>3. name \in {"data", "status"} /\ (name = "status" <=> ~HasData(r) /\ r.kind \notin Reads)
    BY DEF Reads
  <2>4. control'.slot = next /\ control'.phase = r
    BY <2>1
  <2> HIDE DEF x, name
  <2>5. /\ armed' \in Seq(DescriptorSet)
        /\ \A k \in DOMAIN armed' : \/ k \in DOMAIN armed /\ armed'[k] = armed[k]
                                    \/ armed'[k] = x
    BY <1>1, <2>1, <2>2, Pushed
  <2>6. /\ {configuration', alternate', dtr'} \subseteq Switch
        /\ line_coding' = line_coding /\ input_size' \in {input_size, DEFAULT}
        /\ needed' \subseteq Functions
        /\ r.kind = "configuration" => configuration' = r.value
        /\ r.kind = "alternate" => alternate' = r.value
        /\ r.kind = "dtr" => dtr' = r.value
    BY <1>1, <1>3, <2>1, ApplyEffect
  <2>7. PipeTypes'
    <3>1. next' \in 0 .. Slots - 1 /\ occupied' \subseteq 0 .. Slots - 1
      BY <1>1, <2>1, ControlPipeAssumption
    <3>2. control' \in [slot : 0 .. Slots, phase : Requests]
      <4>1. next \in 0 .. Slots
        BY <1>1, ControlPipeAssumption
      <4> QED BY <1>3, <2>1, <4>1
    <3>3. line_coding' \in Codings /\ input_size' \in Codings
      BY <1>1, <2>6, ControlPipeAssumption DEF PipeTypeOK
    <3>4. PipeTypeOK'
      BY <2>6, <3>1, <3>3 DEF PipeTypeOK
    <3> QED BY <1>1, <1>2, <1>3, <2>5, <3>2, <3>4 DEF PipeTypes
  <2>8. Numbered(armed, events, sequence, number, request)'
    BY <1>1, <1>2, <1>3, <1>4, <2>1, <2>2, QueueNumbered
  <2>9. SlotsAreDistinct(armed, events, occupied)'
    BY <1>1, <1>5, <2>1, <2>2, QueueDistinct
  <2>10. WaitsForLast'
    BY <1>2, <1>6, <2>2, <2>4, <2>5 DEF WaitsForLast
  <2>11. DataComesFirst'
    BY <1>2, <1>4, <1>6, <1>7, <2>2, <2>3, <2>4, <2>5 DEF DataComesFirst
  <2>12. DataAreThere'
    <3>1. \A k \in DOMAIN events' : events'[k].kind = "transfer" => events'[k].slot # next
      BY <1>5, <2>1 DEF SlotsAreDistinct
    <3> QED BY <2>4, <3>1 DEF DataAreThere
  <2>13. StatusIsLast'
    <3>1. ASSUME NEW k \in DOMAIN armed', armed'[k].sequence = number, armed'[k].stage = "status"
          PROVE  Applied'
      <4>1. q = number /\ name = "status"
        BY <1>6, <2>2, <2>5, <3>1
      <4> QED BY <1>2, <1>4, <2>3, <2>6, <4>1 DEF Applied, HasData
    <3> QED BY <1>2, <1>7, <3>1 DEF StatusIsLast
  <2>14. SettingsWereSent'
    BY <1>2, <2>6 DEF EndpointInvariant, SettingsWereSent
  <2> QED BY <1>5, <2>7, <2>8, <2>9, <2>10, <2>11, <2>12, <2>13, <2>14 DEF EndpointInvariant
<1>9. CASE ~Known(r)
  <2>1. /\ control' = Idle
        /\ UNCHANGED <<configuration, alternate, dtr, line_coding, input_size, needed, armed, next,
                       occupied>>
    BY <1>2, <1>9 DEF Setup, Stall, deviceVars, notifyVars
  <2>2. PipeTypes'
    BY <1>1, <1>2, <1>3, <2>1, IdleType DEF PipeTypes, PipeTypeOK
  <2>3. Numbered(armed, events, sequence, number, request)' /\ SlotsAreDistinct(armed, events, occupied)'
    BY <1>2, <1>4, <1>5, <2>1
  <2>4. WaitsForLast' /\ DataComesFirst' /\ DataAreThere'
    BY <1>2, <1>6, <2>1, IdleType DEF WaitsForLast, DataComesFirst, DataAreThere
  <2>5. StatusIsLast' /\ SettingsWereSent'
    BY <1>2, <1>6, <1>7, <2>1 DEF EndpointInvariant, StatusIsLast, SettingsWereSent
  <2> QED BY <1>5, <2>2, <2>3, <2>4, <2>5 DEF EndpointInvariant
<1>10. CASE Known(r) /\ RingFull(q, occupied)
  <2>1. Apply(r) /\ control' = Idle /\ UNCHANGED <<armed, next, occupied>>
    BY <1>2, <1>10 DEF Setup, RingFull
  <2>2. /\ {configuration', alternate', dtr'} \subseteq Switch
        /\ line_coding' = line_coding /\ input_size' \in {input_size, DEFAULT}
        /\ needed' \subseteq Functions
    BY <1>1, <1>3, <2>1, ApplyEffect
  <2>3. line_coding' \in Codings /\ input_size' \in Codings
    BY <1>1, <2>2, ControlPipeAssumption DEF PipeTypeOK
  <2>4. PipeTypes'
    BY <1>1, <1>2, <1>3, <2>1, <2>2, <2>3, IdleType DEF PipeTypes, PipeTypeOK
  <2>5. Numbered(armed, events, sequence, number, request)' /\ SlotsAreDistinct(armed, events, occupied)'
    BY <1>2, <1>4, <1>5, <2>1
  <2>6. WaitsForLast' /\ DataComesFirst' /\ DataAreThere'
    BY <1>2, <1>6, <2>1, IdleType DEF WaitsForLast, DataComesFirst, DataAreThere
  <2>7. StatusIsLast' /\ SettingsWereSent'
    BY <1>2, <1>6, <1>7, <2>1, <2>2 DEF EndpointInvariant, StatusIsLast, SettingsWereSent
  <2> QED BY <1>5, <2>4, <2>5, <2>6, <2>7 DEF EndpointInvariant
<1>11. Known(r) => Queue(name, r, q, occupied) \/ RingFull(q, occupied)
  BY <1>2 DEF Setup, QueueOrFail
<1> QED BY <1>8, <1>9, <1>10, <1>11

\* A completion is handled: what this does to the queues.
LEMMA TransferQueues ==
    ASSUME EndpointInvariant, Event("transfer"), events' = Tail(events)
    PROVE  LET used == occupied \ {Head(events).slot}
           IN  /\ events' \in Seq(EventSet) /\ 1 \in DOMAIN events /\ Head(events) = events[1]
               /\ \A k \in DOMAIN events' : k + 1 \in DOMAIN events /\ events'[k] = events[k + 1]
               /\ Numbered(armed, events', sequence, number, request)
               /\ PortIsLast(events') /\ SlotsAreDistinct(armed, events', used)
               /\ used \subseteq 0 .. Slots - 1 /\ Head(events).slot \in occupied
               /\ \A k \in DOMAIN armed : armed[k].slot # Head(events).slot
               /\ Head(events).code \in {"success", "short", "sequence"}
<1>1. events \in Seq(EventSet) /\ events # <<>> /\ Head(events).kind = "transfer"
  BY DEF EndpointInvariant, PipeTypes, Event
<1>2. /\ events' \in Seq(EventSet) /\ 1 \in DOMAIN events /\ Head(events) = events[1]
      /\ Head(events) \in EventSet
      /\ \A k \in DOMAIN events' : k + 1 \in DOMAIN events /\ events'[k] = events[k + 1]
  BY <1>1, Popped
<1>3. Head(events).code \in {"success", "short", "sequence"}
  BY <1>1, <1>2, EventType
<1>4. Numbered(armed, events', sequence, number, request) /\ PortIsLast(events')
  BY <1>1, PopNumbered, PopPort DEF EndpointInvariant
<1>5. /\ SlotsAreDistinct(armed, events', occupied \ {Head(events).slot})
      /\ Head(events).slot \in occupied
      /\ \A k \in DOMAIN armed : armed[k].slot # Head(events).slot
  BY <1>1, PopDistinct DEF EndpointInvariant
<1>6. occupied \ {Head(events).slot} \subseteq 0 .. Slots - 1
  BY DEF EndpointInvariant, PipeTypes, PipeTypeOK
<1> QED BY <1>2, <1>3, <1>4, <1>5, <1>6

\* The request ends, or the completion is of an older one.
LEMMA ReleaseStep ==
    ASSUME EndpointInvariant, Event("transfer"), events' = Tail(events),
           occupied' = occupied \ {Head(events).slot},
           control' = control \/ (control' = Idle /\ control.slot = Head(events).slot),
           UNCHANGED <<configuration, alternate, dtr, line_coding, input_size, sequence, next,
                       armed, needed, data, request, stage, number, whole>>
    PROVE  EndpointInvariant'
<1>1. /\ events' \in Seq(EventSet)
      /\ \A k \in DOMAIN events' : k + 1 \in DOMAIN events /\ events'[k] = events[k + 1]
      /\ Numbered(armed, events', sequence, number, request)
      /\ PortIsLast(events') /\ SlotsAreDistinct(armed, events', occupied')
      /\ occupied' \subseteq 0 .. Slots - 1
      /\ \A k \in DOMAIN armed : armed[k].slot # Head(events).slot
  BY TransferQueues
<1>2. PipeTypes'
  BY <1>1, IdleType DEF EndpointInvariant, PipeTypes, PipeTypeOK
<1>3. WaitsForLast'
  BY <1>1 DEF EndpointInvariant, WaitsForLast
<1>4. DataComesFirst'
  BY IdleType DEF EndpointInvariant, DataComesFirst
<1>5. DataAreThere'
  BY <1>1, IdleType DEF EndpointInvariant, DataAreThere
<1>6. StatusIsLast' /\ SettingsWereSent'
  BY DEF EndpointInvariant, StatusIsLast, SettingsWereSent, Applied
<1> QED BY <1>1, <1>2, <1>3, <1>4, <1>5, <1>6 DEF EndpointInvariant

\* The next stage of the request is queued, or the poll fails.
LEMMA NextStageStep ==
    ASSUME EndpointInvariant, Event("transfer"), events' = Tail(events),
           control.slot = Head(events).slot,
           NEW name \in {"data", "status"}, NEW due \in Requests, ~HasData(due),
           QueueOrFail(name, due, sequence, occupied \ {Head(events).slot}),
           line_coding' \in Codings, input_size' \in Codings, SettingsWereSent',
           due.kind \in Reads /\ sequence = number => request.kind \in Reads,
           name = "status" /\ sequence = number => Applied',
           stage = "done" => Applied',
           UNCHANGED <<configuration, alternate, dtr, sequence, needed, data, request, stage,
                       number, whole>>
    PROVE  EndpointInvariant'
<1> DEFINE used == occupied \ {Head(events).slot}
           x == [slot |-> next, stage |-> name, sequence |-> sequence]
<1>1. /\ events' \in Seq(EventSet)
      /\ Numbered(armed, events', sequence, number, request)
      /\ PortIsLast(events') /\ SlotsAreDistinct(armed, events', used)
      /\ used \subseteq 0 .. Slots - 1
      /\ \A k \in DOMAIN armed : armed[k].slot # Head(events).slot
  BY TransferQueues
<1>2. /\ armed \in Seq(DescriptorSet) /\ sequence \in Nat /\ number \in Nat
      /\ next \in 0 .. Slots - 1
  BY DEF EndpointInvariant, PipeTypes, PipeTypeOK
<1>3. CASE Queue(name, due, sequence, used)
  <2>1. /\ next \notin used /\ armed' = Append(armed, x)
        /\ control' = [slot |-> next, phase |-> due]
        /\ next' = (next + 1) % Slots /\ occupied' = used \cup {next}
    BY <1>3 DEF Queue
  <2>2. x \in DescriptorSet /\ x.slot = next /\ x.stage = name /\ x.sequence = sequence
    BY <1>2 DEF DescriptorSet
  <2>3. control'.slot = next /\ control'.phase = due
    BY <2>1
  <2> HIDE DEF x, used
  <2>4. /\ armed' \in Seq(DescriptorSet)
        /\ \A k \in DOMAIN armed' : \/ k \in DOMAIN armed /\ armed'[k] = armed[k]
                                    \/ armed'[k] = x
    BY <1>2, <2>1, <2>2, Pushed
  <2>5. \A k \in DOMAIN armed : armed[k].sequence # sequence
    BY <1>1 DEF EndpointInvariant, WaitsForLast
  <2>6. PipeTypes'
    <3>1. next' \in 0 .. Slots - 1 /\ occupied' \subseteq 0 .. Slots - 1
      <4>1. (next + 1) % Slots \in 0 .. Slots - 1
        BY <1>2, ControlPipeAssumption
      <4>2. used \cup {next} \subseteq 0 .. Slots - 1
        BY <1>1, <1>2, Zenon
      <4> QED BY <2>1, <4>1, <4>2
    <3>2. control' \in [slot : 0 .. Slots, phase : Requests]
      <4>1. next \in 0 .. Slots
        BY <1>2, ControlPipeAssumption
      <4> QED BY <2>1, <4>1
    <3> QED BY <1>1, <1>2, <2>4, <3>1, <3>2 DEF EndpointInvariant, PipeTypes, PipeTypeOK
  <2>7. Numbered(armed, events, sequence, number, request)'
    BY <1>1, <1>2, <2>1, <2>2, QueueNumbered
  <2>8. SlotsAreDistinct(armed, events, occupied)'
    BY <1>1, <1>2, <2>1, <2>2, QueueDistinct
  <2>9. WaitsForLast'
    BY <2>2, <2>3, <2>4, <2>5 DEF WaitsForLast
  <2>10. DataComesFirst' /\ DataAreThere'
    BY <2>3 DEF DataComesFirst, DataAreThere
  <2>11. StatusIsLast'
    <3>1. ASSUME NEW k \in DOMAIN armed', armed'[k].sequence = number, armed'[k].stage = "status"
          PROVE  Applied'
      <4>1. CASE k \in DOMAIN armed /\ armed'[k] = armed[k]
        <5>1. armed[k].sequence <= sequence /\ sequence <= number
          BY <4>1 DEF EndpointInvariant, Numbered
        <5>2. sequence = number
          BY <1>2, <3>1, <4>1, <5>1
        <5> QED BY <2>5, <3>1, <4>1, <5>2
      <4>2. CASE armed'[k] = x
        BY <2>2, <3>1, <4>2
      <4> QED BY <2>4, <4>1, <4>2
    <3> QED BY <3>1 DEF EndpointInvariant, StatusIsLast
  <2> QED BY <1>1, <2>6, <2>7, <2>8, <2>9, <2>10, <2>11 DEF EndpointInvariant
<1>4. CASE RingFull(sequence, used)
  <2>1. control' = Idle /\ occupied' = used /\ UNCHANGED <<armed, next>>
    BY <1>4 DEF RingFull
  <2> HIDE DEF used
  <2>2. PipeTypes'
    BY <1>1, <1>2, <2>1, IdleType DEF EndpointInvariant, PipeTypes, PipeTypeOK
  <2>3. Numbered(armed, events, sequence, number, request)' /\ SlotsAreDistinct(armed, events, occupied)'
    BY <1>1, <2>1
  <2>4. \A k \in DOMAIN armed : armed[k].sequence # sequence
    BY <1>1 DEF EndpointInvariant, WaitsForLast
  <2>5. WaitsForLast' /\ DataComesFirst' /\ DataAreThere'
    BY <2>1, <2>4, IdleType DEF WaitsForLast, DataComesFirst, DataAreThere
  <2>6. StatusIsLast'
    <3>1. \A k \in DOMAIN armed : armed[k].sequence # number
      <4>1. \A k \in DOMAIN armed : armed[k].sequence \in Nat /\ armed[k].sequence <= sequence
        BY <1>2, DescriptorType DEF EndpointInvariant, Numbered
      <4>2. sequence <= number
        BY DEF EndpointInvariant, Numbered
      <4> QED BY <1>2, <2>4, <4>1, <4>2
    <3> QED BY <2>1, <3>1 DEF EndpointInvariant, StatusIsLast
  <2> QED BY <1>1, <2>2, <2>3, <2>5, <2>6 DEF EndpointInvariant
<1> QED BY <1>3, <1>4 DEF QueueOrFail

LEMMA TransferStep ==
    ASSUME EndpointInvariant, Transfer
    PROVE  EndpointInvariant'
<1> DEFINE event == Head(events)
           used == occupied \ {event.slot}
           due == control.phase
<1>1. /\ Event("transfer") /\ events' = Tail(events)
      /\ UNCHANGED <<configuration, alternate, dtr, sequence, needed, data, request, stage,
                     number, whole>>
  BY DEF Transfer, notifyVars, setupVars
<1>2. /\ event.slot \in occupied /\ 1 \in DOMAIN events /\ event = events[1]
      /\ event.kind = "transfer"
  BY <1>1, TransferQueues DEF Event
<1>3. /\ due \in Requests /\ PipeTypeOK /\ SettingsWereSent
  BY DEF EndpointInvariant, PipeTypes
<1>4. CASE control.slot = event.slot /\ event.code # "sequence"
  <2>1. Continue(due, event.code, used)
    BY <1>1, <1>2, <1>4 DEF Transfer, Expected, Freed
  <2>2. CASE /\ due.kind = "full read"
             /\ QueueOrFail("data", Request("read", NOTHING), sequence, used) /\ KeepSettings
    <3>1. line_coding' = line_coding /\ input_size' = input_size
      BY <2>2 DEF KeepSettings
    <3>2. /\ Request("read", NOTHING) \in Requests /\ ~HasData(Request("read", NOTHING))
          /\ line_coding' \in Codings /\ input_size' \in Codings
      BY <1>3, <3>1, RequestType DEF PipeTypeOK
    <3>3. sequence = number => request.kind \in Reads
      BY <2>2 DEF EndpointInvariant, DataComesFirst, Reads
    <3>4. SettingsWereSent' /\ (stage = "done" => Applied')
      BY <1>1, <3>1 DEF EndpointInvariant, SettingsWereSent, StatusIsLast, Applied
    <3> QED BY <1>1, <1>4, <2>2, <3>2, <3>3, <3>4, NextStageStep
  <2>3. CASE /\ due.kind = "read"
             /\ QueueOrFail("status", Unknown, sequence, used) /\ KeepSettings
    <3>1. line_coding' = line_coding /\ input_size' = input_size
      BY <2>3 DEF KeepSettings
    <3>2. /\ Unknown \in Requests /\ ~HasData(Unknown) /\ Unknown.kind \notin Reads
          /\ line_coding' \in Codings /\ input_size' \in Codings
      BY <1>3, <3>1, RequestType DEF PipeTypeOK, Reads
    <3>3. sequence = number => Applied'
      BY <1>1, <2>3 DEF EndpointInvariant, DataComesFirst, Reads, Applied
    <3>4. SettingsWereSent' /\ (stage = "done" => Applied')
      BY <1>1, <3>1 DEF EndpointInvariant, SettingsWereSent, StatusIsLast, Applied
    <3> QED BY <1>1, <1>4, <2>3, <3>2, <3>3, <3>4, NextStageStep
  <2>4. CASE /\ HasData(due) /\ Taken(event.code) /\ TakeData(due)
             /\ QueueOrFail("status", Unknown, sequence, used)
    <3>1. event.code = "success"
      BY <2>4 DEF Taken
    <3>2. data = due.value /\ due \in whole
      BY <1>2, <1>4, <2>4, <3>1 DEF EndpointInvariant, DataAreThere
    <3>3. due = Request(due.kind, due.value) /\ due.value \in Codings
      BY <1>3, <2>4, RequestType DEF HasData
    <3>4. /\ line_coding' = (IF due.kind = "line coding" THEN due.value ELSE line_coding)
          /\ input_size' = (IF due.kind = "input size" THEN due.value ELSE input_size)
      BY <2>4, <3>2 DEF TakeData
    <3>5. /\ Unknown \in Requests /\ ~HasData(Unknown) /\ Unknown.kind \notin Reads
      BY <1>3, RequestType DEF Reads
    <3> HIDE DEF due
    <3>6. line_coding' \in Codings /\ input_size' \in Codings
      BY <1>3, <3>3, <3>4 DEF PipeTypeOK
    <3>7. SettingsWereSent'
      BY <1>1, <1>3, <3>2, <3>3, <3>4 DEF SettingsWereSent
    <3>8. sequence = number => due = request /\ stage # "done"
      BY <2>4 DEF EndpointInvariant, DataComesFirst, due
    <3>9. sequence = number => Applied'
      BY <1>1, <2>4, <3>4, <3>8 DEF Applied, HasData
    <3>10. stage = "done" => Applied'
      BY <3>8 DEF EndpointInvariant, StatusIsLast
    <3> QED BY <1>1, <1>4, <2>4, <3>5, <3>6, <3>7, <3>9, <3>10, NextStageStep
  <2>5. CASE Stall(used) /\ KeepSettings
    BY <1>1, <1>4, <2>5, ReleaseStep DEF Stall, KeepSettings
  <2>6. CASE /\ control' = Idle /\ occupied' = used
             /\ UNCHANGED <<armed, next, stalled>> /\ KeepSettings
    BY <1>1, <1>4, <2>6, ReleaseStep DEF KeepSettings
  <2> QED BY <2>1, <2>2, <2>3, <2>4, <2>5, <2>6 DEF Continue
<1>5. CASE ~(control.slot = event.slot /\ event.code # "sequence")
  <2>1. /\ occupied' = used /\ KeepSettings /\ UNCHANGED <<next, armed>>
        /\ control' = IF control.slot = event.slot THEN Idle ELSE control
    BY <1>2, <1>5 DEF Transfer, Expected, Freed
  <2> QED BY <1>1, <2>1, ReleaseStep DEF KeepSettings
<1> QED BY <1>4, <1>5

LEMMA NotifiedStep ==
    ASSUME EndpointInvariant, Notified
    PROVE  EndpointInvariant'
<1>1. /\ events # <<>> /\ events' = Tail(events)
      /\ UNCHANGED <<configuration, alternate, dtr, line_coding, input_size, sequence, control,
                     next, occupied, needed, armed, data, request, stage, number, whole>>
  BY DEF Notified, Event, deviceVars, ringVars, setupVars
<1>2. events \in Seq(EventSet)
  BY DEF EndpointInvariant, PipeTypes
<1>3. /\ events' \in Seq(EventSet)
      /\ \A k \in DOMAIN events' : k + 1 \in DOMAIN events /\ events'[k] = events[k + 1]
  BY <1>1, <1>2, Popped
<1>4. PipeTypes'
  BY <1>1, <1>3 DEF EndpointInvariant, PipeTypes, PipeTypeOK
<1>5. /\ Numbered(armed, events, sequence, number, request)'
      /\ PortIsLast(events)' /\ SlotsAreDistinct(armed, events, occupied)'
  BY <1>1, <1>2, PopNumbered, PopPort, PopDistinct DEF EndpointInvariant
<1>6. WaitsForLast' /\ DataComesFirst'
  BY <1>1 DEF EndpointInvariant, WaitsForLast, DataComesFirst
<1>7. DataAreThere'
  BY <1>1, <1>3 DEF EndpointInvariant, DataAreThere
<1>8. StatusIsLast' /\ SettingsWereSent'
  BY <1>1 DEF EndpointInvariant, StatusIsLast, SettingsWereSent, Applied
<1> QED BY <1>4, <1>5, <1>6, <1>7, <1>8 DEF EndpointInvariant

LEMMA PortStep ==
    ASSUME EndpointInvariant, Port
    PROVE  EndpointInvariant'
<1>1. /\ events # <<>> /\ Head(events).kind = "port" /\ events' = Tail(events)
      /\ configuration' = "off" /\ alternate' = "off" /\ dtr' = "off"
      /\ line_coding' = DEFAULT /\ input_size' = DEFAULT
      /\ control' = Idle /\ next' = 0 /\ occupied' = {} /\ armed' = <<>> /\ needed' = {}
      /\ UNCHANGED <<sequence, request, stage, number>>
  BY DEF Port, Event
<1>2. events \in Seq(EventSet) /\ sequence \in Nat /\ number \in Nat
  BY DEF EndpointInvariant, PipeTypes
<1>3. /\ events' \in Seq(EventSet) /\ 1 \in DOMAIN events /\ Head(events) = events[1]
  BY <1>1, <1>2, Popped
<1>4. /\ PortIsLast(events') /\ \A k \in DOMAIN events' : events'[k].kind # "transfer"
      /\ Numbered(armed, events', sequence, number, request)
  BY <1>1, <1>2, PopPort, PopNumbered DEF EndpointInvariant
<1>5. <<>> \in Seq(DescriptorSet) /\ DOMAIN <<>> = {}
  OBVIOUS
<1>6. PipeTypes'
  <2>1. 0 \in 0 .. Slots - 1 /\ DEFAULT \in Codings
    BY ControlPipeAssumption
  <2>2. PipeTypeOK'
    BY <1>1, <2>1 DEF PipeTypeOK, Switch
  <2> QED BY <1>1, <1>2, <1>3, <1>5, <2>2, IdleType DEF EndpointInvariant, PipeTypes
<1>7. Numbered(armed, events, sequence, number, request)'
  BY <1>1, <1>4, <1>5 DEF Numbered
<1>8. SlotsAreDistinct(armed, events, occupied)'
  BY <1>1, <1>4, <1>5 DEF SlotsAreDistinct
<1>9. WaitsForLast' /\ DataComesFirst' /\ DataAreThere'
  BY <1>1, <1>5, IdleType DEF WaitsForLast, DataComesFirst, DataAreThere
<1>10. stage # "done"
  <2>1. sequence < number
    BY <1>1, <1>3 DEF EndpointInvariant, Numbered
  <2> QED BY <1>2, <2>1 DEF EndpointInvariant, StatusIsLast
<1>11. StatusIsLast' /\ SettingsWereSent'
  BY <1>1, <1>5, <1>10 DEF StatusIsLast, SettingsWereSent
<1> QED BY <1>4, <1>6, <1>7, <1>8, <1>9, <1>11 DEF EndpointInvariant

-----------------------------------------------------------------------------
LEMMA EndpointStarts == PipeInit => EndpointInvariant
<1> SUFFICES ASSUME PipeInit
             PROVE  EndpointInvariant
  OBVIOUS
<1>1. /\ <<>> \in Seq(DescriptorSet) /\ <<>> \in Seq(EventSet) /\ DOMAIN <<>> = {}
  OBVIOUS
<1>2. 0 \in 0 .. Slots - 1 /\ DEFAULT \in Codings /\ 0 \in Nat /\ 0 <= 0
  BY ControlPipeAssumption
<1>3. Unknown \in Requests
  BY DEF Requests
<1>4. PipeTypeOK
  BY <1>2 DEF PipeInit, PipeTypeOK, Switch
<1>5. PipeTypes
  BY <1>1, <1>2, <1>3, <1>4, IdleType DEF PipeInit, PipeTypes
<1>6. /\ Numbered(armed, events, sequence, number, request) /\ PortIsLast(events)
      /\ SlotsAreDistinct(armed, events, occupied)
  BY <1>1, <1>2 DEF PipeInit, Numbered, PortIsLast, SlotsAreDistinct
<1>7. WaitsForLast /\ DataComesFirst /\ DataAreThere
  BY <1>1, IdleType DEF PipeInit, WaitsForLast, DataComesFirst, DataAreThere
<1>8. StatusIsLast /\ SettingsWereSent
  BY <1>1 DEF PipeInit, StatusIsLast, SettingsWereSent
<1> QED BY <1>5, <1>6, <1>7, <1>8 DEF EndpointInvariant

LEMMA EndpointSteps == EndpointInvariant /\ [PipeNext]_pipeVars => EndpointInvariant'
<1> SUFFICES ASSUME EndpointInvariant, [PipeNext]_pipeVars
             PROVE  EndpointInvariant'
  OBVIOUS
<1>1. needed \subseteq Functions
  BY DEF EndpointInvariant, PipeTypes, PipeTypeOK
<1>2. CASE \E r \in Requests : HostSetup(r)
  BY <1>2, HostSetupStep
<1>3. CASE HostReset
  BY <1>3, HostResetStep
<1>4. CASE HostStage(TRUE) \/ HostStage(FALSE)
  BY <1>4, HostStageStep
<1>5. CASE SequenceError
  BY <1>5, SequenceErrorStep
<1>6. CASE HostSeesStall
  BY <1>1, <1>6, QuietStep DEF HostSeesStall, deviceVars, ringVars, notifyVars
<1>7. CASE \E f \in Functions : HostNotified(f)
  BY <1>7, HostNotifiedStep
<1>8. CASE Handle
  BY <1>8, SetupStep, TransferStep, NotifiedStep, PortStep DEF Handle
<1>9. CASE Arm
  <2>1. CASE ArmAcm
    BY <1>1, <2>1, QuietStep DEF ArmAcm, deviceVars, ringVars
  <2>2. CASE notify_ncm
    <3>1. needed' \subseteq Functions
      BY <1>1, <2>2 DEF notify_ncm
    <3>2. UNCHANGED <<configuration, alternate, dtr, line_coding, input_size, sequence, control,
                      next, occupied, armed, events, data, request, stage, number, whole>>
      BY <2>2 DEF notify_ncm, deviceVars, ringVars
    <3> QED BY <3>1, <3>2, QuietStep
  <2> QED BY <1>9, <2>1, <2>2 DEF Arm
<1>10. CASE UNCHANGED pipeVars
  BY <1>1, <1>10, QuietStep DEF pipeVars, deviceVars, ringVars, notifyVars, setupVars
<1> QED BY <1>2, <1>3, <1>4, <1>5, <1>6, <1>7, <1>8, <1>9, <1>10 DEF PipeNext, HostProgress

LEMMA EndpointSuffices == EndpointInvariant => PipeInvariant
<1> SUFFICES ASSUME EndpointInvariant
             PROVE  PipeInvariant
  OBVIOUS
<1>1. stage = "done" => Applied
  BY DEF EndpointInvariant, StatusIsLast
<1>2. CompletedMeansApplied
  BY <1>1 DEF Applied, CompletedMeansApplied
<1> QED BY <1>2 DEF EndpointInvariant, PipeTypes, PipeInvariant

(***************************************************************************)
(* No request given up half way shows in a later one (setup and transfer,  *)
(* tegra210.rs): a request whose status stage the host has seen has taken  *)
(* effect, and line coding and input size hold only what the host sent in  *)
(* full for that request, whatever descriptors, completions and data of    *)
(* older requests are still on their way.  For every size of the ring, and *)
(* any number of requests and port resets, also when the ring is full and  *)
(* a request finds no descriptor (RingFull in queue).                      *)
(***************************************************************************)
THEOREM RequestsTakeEffect == PipeSpec => []PipeInvariant
<1>1. PipeSpec => []EndpointInvariant
  BY EndpointStarts, EndpointSteps, PTL DEF PipeSpec
<1> QED BY <1>1, EndpointSuffices, PTL
=============================================================================
