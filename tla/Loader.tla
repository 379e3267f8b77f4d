------------------------------- MODULE Loader -------------------------------
(***************************************************************************)
(* The bundle loader (loader.rs), the part of the USB service that feeds   *)
(* it (service_loader in usb.rs) and the boot decision of CPU 0 (preboot   *)
(* and enter_guest in usb.rs, as called by main.rs).                       *)
(*                                                                         *)
(* A host may send any request in any order, well-formed or not.  Before   *)
(* the guest runs, CPU 0 alone polls the service and decides, in a loop;   *)
(* afterwards any CPU polls it, under the USB lock, so one request is one  *)
(* step.  A message that does not decode gets no answer and changes        *)
(* nothing.  `registers` stands for x0 to x7, 0 for eight zeros; the state *)
(* of the running CRC is the sequence of the bytes that were fed to it.    *)
(* `images` is the completed prefix of the array, so Len(images) is        *)
(* `completed`.  The branches for a missing bundle or image in a state     *)
(* that needs it are left out: LoaderInvariant shows them unreachable.     *)
(***************************************************************************)
EXTENDS Integers, Sequences

CONSTANTS
    U64,                            \* 2^64
    GUEST_RAM_BASE, GUEST_RAM_END,
    Protected,                      \* boot stack and framebuffer: [start, size]
    MAX_IMAGES,
    Byte,
    InitialMemory,                  \* with the packaged payload installed
    Crc(_),                         \* Crc32::finish after the bytes of a sequence
    OfferedBundles,                 \* descriptors that hosts send, valid or not
    OfferedImages,
    Chunks,                         \* bodies of Data requests
    Fallback, None

Memory == 0 .. U64 - 1
Word64 == 0 .. U64 - 1

BundleDescriptor ==
    [entry : Word64, image_count : Nat, flags : Nat, registers : Word64]
ImageDescriptor ==
    [address : Word64, file_size : Word64, runtime_size : Word64, crc32 : Nat, flags : Nat]

ASSUME LoaderAssumption ==
    /\ U64 \in Nat \ {0}
    /\ GUEST_RAM_BASE \in Word64 /\ GUEST_RAM_END \in Word64
    /\ Protected \subseteq [start : Word64, size : Word64]
    /\ MAX_IMAGES \in Nat
    /\ 0 \in Byte
    /\ InitialMemory \in [Memory -> Byte]
    /\ OfferedBundles \subseteq BundleDescriptor
    /\ OfferedImages \subseteq ImageDescriptor
    /\ Chunks \subseteq Seq(Byte)
    /\ None \notin BundleDescriptor \cup ImageDescriptor \cup {Fallback}
    /\ Fallback \notin BundleDescriptor

VARIABLES
    \* struct Loader
    state, bundle, images, current, received, crc32, claimed,
    memory,             \* guest RAM and everything else a physical address names
    \* struct Service and the statics of usb.rs
    output,             \* loader_output: the answer not yet sent
    boot,               \* the bundle that preboot has still to pick up
    available,          \* AVAILABLE: the USB device works
    require_upload,     \* REQUIRE_UPLOAD: packaged with --no-fallback
    \* CPU 0
    phase,              \* where rust_main is
    launched            \* what it hands over to

uploadVars == <<state, bundle, images, current, received, crc32>>
bootVars == <<available, require_upload, phase, launched>>
vars == <<uploadVars, claimed, memory, output, boot, bootVars>>

States == {"Idle", "Bundle", "Receiving", "Ready", "Disabled"}
Phases == {"preboot", "handoff", "guest", "parked"}

LoaderInit ==
    /\ state = "Idle"
    /\ bundle = None
    /\ images = <<>>
    /\ current = None
    /\ received = 0
    /\ crc32 = <<>>
    /\ claimed = FALSE
    /\ memory = InitialMemory
    /\ output = None
    /\ boot = None
    /\ available \in BOOLEAN
    /\ require_upload \in BOOLEAN
    /\ phase = "preboot"
    /\ launched = None
-----------------------------------------------------------------------------
(***************************************************************************)
(* Descriptors.                                                            *)
(***************************************************************************)
\* AddressRange::new succeeds.
IsRange(address, size) == size # 0 /\ address + size < U64

Overlap(left, left_size, right, right_size) ==
    left < right + right_size /\ right < left + left_size

guest_range(address, size) ==
    /\ IsRange(address, size)
    /\ address >= GUEST_RAM_BASE
    /\ address + size <= GUEST_RAM_END
    /\ \A p \in Protected : ~Overlap(address, size, p.start, p.size)

BundleValid(b) ==
    /\ b.image_count \in 1 .. MAX_IMAGES
    /\ b.entry % 4 = 0
    /\ guest_range(b.entry, 4)
    /\ b.flags \in {0, 1}
    /\ b.flags = 1 => b.registers = 0

ImageValid(i) ==
    /\ i.file_size # 0
    /\ i.runtime_size >= i.file_size
    /\ i.flags = 0
    /\ guest_range(i.address, i.runtime_size)

contains_entry(i, entry) ==
    /\ entry % 4 = 0
    /\ i.address + i.file_size < U64
    /\ entry >= i.address
    /\ entry + 4 <= i.address + i.file_size

\* Mutant: the zeroed tails may overlap.
overlapsFile(i, j) == Overlap(i.address, i.file_size, j.address, j.file_size)

overlaps(i, j) == Overlap(i.address, i.runtime_size, j.address, j.runtime_size)
-----------------------------------------------------------------------------
(***************************************************************************)
(* Loader::handle.  Every request is answered with a status; anything but  *)
(* Ok changes nothing.                                                     *)
(***************************************************************************)
\* A request is taken only after the previous answer has left.
Serving ==
    /\ available
    /\ phase \in {"preboot", "guest"}
    /\ output = None

\* Response::new: the status, and the new state or the bytes received.
Reply(opcode, code, argument) ==
    output' = [opcode |-> opcode, code |-> code, argument |-> argument]

Refuse(opcode, code) ==
    /\ Reply(opcode, code, [state |-> state])
    /\ UNCHANGED <<uploadVars, claimed, memory, boot>>

clear(to) ==
    /\ state' = to
    /\ bundle' = None
    /\ images' = <<>>
    /\ current' = None
    /\ received' = 0
    /\ crc32' = <<>>

\* Hello and Status only read; `empty`: neither arguments nor a body.
Inspect(opcode, empty) ==
    /\ Serving
    /\ Refuse(opcode, IF empty THEN "Ok" ELSE "BadLength")
    /\ UNCHANGED bootVars

UnknownOpcode ==
    /\ Serving
    /\ Refuse("Unknown", "UnknownOpcode")
    /\ UNCHANGED bootVars

BeginBundleCode(b, plain) ==
    IF state = "Disabled" THEN "GuestRunning"
    ELSE IF state # "Idle" THEN "BadState"
    ELSE IF ~plain THEN "BadLength"
    ELSE IF ~BundleValid(b) THEN "InvalidDescriptor"
    ELSE "Ok"

\* `plain`: both arguments of the header are zero.
BeginBundle(b, plain) ==
    /\ Serving
    /\ IF BeginBundleCode(b, plain) # "Ok"
       THEN Refuse("BeginBundle", BeginBundleCode(b, plain))
       ELSE /\ bundle' = b
            /\ state' = "Bundle"
            /\ claimed' = TRUE
            /\ Reply("BeginBundle", "Ok", [state |-> state'])
            /\ UNCHANGED <<images, current, received, crc32, memory, boot>>
    /\ UNCHANGED bootVars

BeginImageCode(i, plain) ==
    IF state # "Bundle" THEN "BadState"
    ELSE IF ~plain THEN "BadLength"
    ELSE IF Len(images) >= bundle.image_count THEN "ImageCount"
    ELSE IF ~ImageValid(i) THEN "InvalidDescriptor"
    ELSE IF \E n \in DOMAIN images : overlaps(i, images[n]) THEN "Overlap"
    ELSE "Ok"

BeginImage(i, plain) ==
    /\ Serving
    /\ IF BeginImageCode(i, plain) # "Ok"
       THEN Refuse("BeginImage", BeginImageCode(i, plain))
       ELSE /\ current' = i
            /\ received' = 0
            /\ crc32' = <<>>
            /\ state' = "Receiving"
            /\ Reply("BeginImage", "Ok", [state |-> state'])
            /\ UNCHANGED <<bundle, images, claimed, memory, boot>>
    /\ UNCHANGED bootVars

\* Storage::write of GuestMemory, which refuses what is not a guest range.
Write(address, bytes) ==
    memory' = [a \in Memory |->
                IF address <= a /\ a < address + Len(bytes)
                THEN bytes[a - address + 1] ELSE memory[a]]

\* Storage::zero, which does nothing for no bytes.
Zero(address, length) ==
    memory' = [a \in Memory |->
                IF address <= a /\ a < address + length THEN 0 ELSE memory[a]]

DataCode(offset, plain, body) ==
    IF state # "Receiving" THEN "BadState"
    ELSE IF body = <<>> THEN "BadLength"
    ELSE IF \/ offset # received
            \/ ~plain
            \/ received + Len(body) >= U64
            \/ received + Len(body) > current.file_size
            \/ current.address + received >= U64 THEN "BadOffset"
    ELSE IF ~guest_range(current.address + received, Len(body)) THEN "Storage"
    ELSE "Ok"

\* `plain`: the second argument of the header is zero.
Data(offset, plain, body) ==
    /\ Serving
    /\ IF DataCode(offset, plain, body) # "Ok"
       THEN Refuse("Data", DataCode(offset, plain, body))
       ELSE /\ Write(current.address + received, body)
            /\ crc32' = crc32 \o body
            /\ received' = received + Len(body)
            /\ Reply("Data", "Ok", [received |-> received'])
            /\ UNCHANGED <<state, bundle, images, current, claimed, boot>>
    /\ UNCHANGED bootVars

EndImageCode(empty) ==
    IF ~empty THEN "BadLength"
    ELSE IF state # "Receiving" THEN "BadState"
    ELSE IF received # current.file_size THEN "BadLength"
    ELSE IF Crc(crc32) # current.crc32 THEN "Checksum"
    ELSE IF /\ current.runtime_size # current.file_size
            /\ ~guest_range(current.address + current.file_size,
                            current.runtime_size - current.file_size) THEN "Storage"
    ELSE "Ok"

EndImage(empty) ==
    /\ Serving
    /\ IF EndImageCode(empty) # "Ok"
       THEN Refuse("EndImage", EndImageCode(empty))
       ELSE /\ Zero(current.address + current.file_size,
                    current.runtime_size - current.file_size)
            /\ images' = Append(images, current)
            /\ current' = None
            /\ received' = 0
            /\ crc32' = <<>>
            /\ state' = "Bundle"
            /\ Reply("EndImage", "Ok", [state |-> state'])
            /\ UNCHANGED <<bundle, claimed, boot>>
    /\ UNCHANGED bootVars

CommitCode(empty) ==
    IF ~empty THEN "BadLength"
    ELSE IF state # "Bundle" THEN "BadState"
    ELSE IF Len(images) # bundle.image_count THEN "ImageCount"
    ELSE IF ~\E n \in DOMAIN images : contains_entry(images[n], bundle.entry) THEN "Entry"
    ELSE "Ok"

CommitBundle(empty) ==
    /\ Serving
    /\ IF CommitCode(empty) # "Ok"
       THEN Refuse("CommitBundle", CommitCode(empty))
       ELSE /\ state' = "Ready"
            /\ Reply("CommitBundle", "Ok", [state |-> state'])
            /\ UNCHANGED <<bundle, images, current, received, crc32, claimed, memory, boot>>
    /\ UNCHANGED bootVars

AbortCode(empty) ==
    IF ~empty THEN "BadLength"
    ELSE IF state \notin {"Bundle", "Receiving", "Ready"} THEN "BadState"
    ELSE "Ok"

Abort(empty) ==
    /\ Serving
    /\ IF AbortCode(empty) # "Ok"
       THEN Refuse("Abort", AbortCode(empty))
       ELSE /\ clear("Idle")
            /\ Reply("Abort", "Ok", [state |-> state'])
            /\ UNCHANGED <<claimed, memory, boot>>
    /\ UNCHANGED bootVars

BootCode(empty) ==
    IF ~empty THEN "BadLength" ELSE IF state # "Ready" THEN "BadState" ELSE "Ok"

\* Action::Boot: service_loader keeps the descriptor for preboot.
Boot(empty) ==
    /\ Serving
    /\ IF BootCode(empty) # "Ok"
       THEN Refuse("Boot", BootCode(empty))
       ELSE /\ clear("Disabled")
            /\ boot' = bundle
            /\ Reply("Boot", "Ok", [state |-> state'])
            /\ UNCHANGED <<claimed, memory>>
    /\ UNCHANGED bootVars

\* transmit_output: the host has taken the whole answer.
Transmit ==
    /\ output # None
    /\ output' = None
    /\ UNCHANGED <<uploadVars, claimed, memory, boot, bootVars>>
-----------------------------------------------------------------------------
(***************************************************************************)
(* CPU 0: the preboot loop and the hand-over to the guest.  The loop looks *)
(* at `boot` and `claimed` in one section of the USB lock; the two-second  *)
(* window may end before any iteration.                                    *)
(***************************************************************************)
PrebootUnavailable ==
    /\ phase = "preboot"
    /\ ~available
    /\ IF require_upload
       THEN phase' = "parked" /\ UNCHANGED launched
       ELSE phase' = "handoff" /\ launched' = Fallback
    /\ UNCHANGED <<uploadVars, claimed, memory, output, boot, available, require_upload>>

PrebootBoot ==
    /\ phase = "preboot"
    /\ boot # None
    /\ launched' = boot
    /\ boot' = None
    /\ phase' = "handoff"
    /\ UNCHANGED <<uploadVars, claimed, memory, output, available, require_upload>>

\* Mutant: an aborted transfer is taken for none.
PrebootExpireIdle ==
    /\ phase = "preboot"
    /\ available
    /\ boot = None
    /\ ~require_upload
    /\ state = "Idle"
    /\ launched' = Fallback
    /\ phase' = "handoff"
    /\ UNCHANGED <<uploadVars, claimed, memory, output, boot, available, require_upload>>

PrebootExpire ==
    /\ phase = "preboot"
    /\ available
    /\ boot = None
    /\ ~require_upload
    /\ ~claimed
    /\ launched' = Fallback
    /\ phase' = "handoff"
    /\ UNCHANGED <<uploadVars, claimed, memory, output, boot, available, require_upload>>

enter_guest ==
    /\ phase = "handoff"
    /\ phase' = "guest"
    /\ IF available THEN clear("Disabled") ELSE UNCHANGED uploadVars
    /\ UNCHANGED <<claimed, memory, output, boot, available, require_upload, launched>>
-----------------------------------------------------------------------------
BundleRequest ==
    \/ \E empty \in BOOLEAN :
          \/ \E opcode \in {"Hello", "Status"} : Inspect(opcode, empty)
          \/ EndImage(empty)
          \/ CommitBundle(empty)
          \/ Abort(empty)
          \/ Boot(empty)
    \/ \E plain \in BOOLEAN :
          \/ \E b \in OfferedBundles : BeginBundle(b, plain)
          \/ \E i \in OfferedImages : BeginImage(i, plain)
          \/ \E offset \in Word64, body \in Chunks : Data(offset, plain, body)
    \/ UnknownOpcode

Preboot == PrebootUnavailable \/ PrebootBoot \/ PrebootExpire \/ enter_guest

LoaderNext == BundleRequest \/ Transmit \/ Preboot

LoaderSpec == LoaderInit /\ [][LoaderNext]_vars
-----------------------------------------------------------------------------
\* The bytes of memory m from address on.
Slice(m, address, length) == [k \in 1 .. length |-> m[address + k - 1]]

LoaderTypeOK ==
    /\ state \in States
    /\ bundle \in OfferedBundles \cup {None}
    /\ images \in Seq(OfferedImages)
    /\ current \in OfferedImages \cup {None}
    /\ received \in Nat
    /\ crc32 \in Seq(Byte)
    /\ claimed \in BOOLEAN
    /\ memory \in [Memory -> Byte]
    /\ boot \in OfferedBundles \cup {None}
    /\ available \in BOOLEAN
    /\ require_upload \in BOOLEAN
    /\ phase \in Phases
    /\ launched \in OfferedBundles \cup {Fallback, None}

\* Each state of the loader has the bundle and the image that it needs.
StateFollowsTransfer ==
    /\ state \in {"Bundle", "Receiving", "Ready"} <=> bundle # None
    /\ state = "Receiving" <=> current # None
    /\ bundle # None =>
          /\ claimed
          /\ BundleValid(bundle)
          /\ Len(images) <= bundle.image_count
    /\ state = "Receiving" => Len(images) < bundle.image_count
    /\ state = "Ready" =>
          /\ Len(images) = bundle.image_count
          /\ \E n \in DOMAIN images : contains_entry(images[n], bundle.entry)

\* The images are valid and disjoint, the one being received included.
ImagesAreApart ==
    /\ bundle = None => images = <<>>
    /\ \A n \in DOMAIN images : ImageValid(images[n])
    /\ \A m, n \in DOMAIN images : m # n => ~overlaps(images[m], images[n])
    /\ current # None =>
          /\ ImageValid(current)
          /\ \A n \in DOMAIN images : ~overlaps(current, images[n])

\* The part of the current image that has arrived is in memory.
ReceivedIsInMemory ==
    current # None =>
        /\ received <= current.file_size
        /\ crc32 = Slice(memory, current.address, received)

(***************************************************************************)
(* COMPLETED IMAGES STAY.  Whatever is uploaded after an image, its bytes  *)
(* in memory keep the digest they were accepted with, and its tail is zero *)
(* (EndImage's checks, the overlap check of BeginImage, the offsets of     *)
(* Data).                                                                  *)
(***************************************************************************)
CompletedAreInMemory ==
    \A n \in DOMAIN images :
        /\ Crc(Slice(memory, images[n].address, images[n].file_size)) = images[n].crc32
        /\ \A a \in Memory :
              /\ images[n].address + images[n].file_size <= a
              /\ a < images[n].address + images[n].runtime_size
              => memory[a] = 0

\* What the boot decision rests on.
BootFollowsUpload ==
    /\ boot # None => state = "Disabled" /\ phase = "preboot" /\ claimed
    /\ state = "Disabled" => phase # "preboot" \/ boot # None
    /\ phase = "preboot" => launched = None
    /\ phase \in {"handoff", "guest"} => launched # None
    /\ phase = "handoff" /\ launched # Fallback => state = "Disabled"
    /\ phase = "handoff" /\ launched = Fallback => ~claimed
    /\ phase = "guest" /\ available => state = "Disabled"
    /\ ~available => ~claimed
    /\ phase = "parked" => ~available
    /\ ~claimed => memory = InitialMemory

(***************************************************************************)
(* THE INDUCTIVE INVARIANT of uploads.                                     *)
(***************************************************************************)
LoaderInvariant ==
    /\ LoaderTypeOK
    /\ StateFollowsTransfer
    /\ ImagesAreApart
    /\ ReceivedIsInMemory
    /\ CompletedAreInMemory
    /\ BootFollowsUpload

(***************************************************************************)
(* STORAGE NEVER REFUSES.  A descriptor that validate() accepted leaves    *)
(* nothing for GuestMemory to refuse: no request is answered with Storage, *)
(* which would leave an image half written (loader.rs:506, usb.rs:99-117). *)
(***************************************************************************)
StorageNeverRefuses ==
    /\ \A offset \in Word64, body \in Chunks : DataCode(offset, TRUE, body) # "Storage"
    /\ EndImageCode(TRUE) # "Storage"

(***************************************************************************)
(* THE BOOT CONTRACT (module BootContract): "Once a transfer begins, the   *)
(* packaged fallback is no longer safe to use", "`abort` discards the      *)
(* transfer and permits a new one", "Transfers are rejected after guest    *)
(* execution begins" (README.md:308-312).  The guest of the contract       *)
(* starts when Boot is accepted or the window ends.                        *)
(***************************************************************************)
Loadable == {a \in Memory : guest_range(a, 1)}

Contract == INSTANCE BootContract WITH
    InitialRam <- InitialMemory, NoGuest <- None,
    Bundles <- OfferedBundles, Images <- OfferedImages, MaxImages <- MAX_IMAGES,
    ram <- memory, guest <- IF boot # None THEN boot ELSE launched

ImplementsBootContract ==
    Contract!ContractInit /\ [][Contract!ContractNext]_(Contract!contractVars)
=============================================================================
