---------------------------- MODULE BootContract ----------------------------
(***************************************************************************)
(* What the bundle loader promises about the guest that starts.  Until a   *)
(* guest starts, only loadable memory changes.  The packaged payload       *)
(* starts only in memory that no upload has touched.  A bundle starts only *)
(* when all of its images are in place at once: disjoint, in loadable      *)
(* memory, each with the digest it was announced with and zeros behind it, *)
(* and the entry point inside one of the files.  Afterwards the loader     *)
(* leaves memory alone.  The module Loader is shown to implement this.     *)
(***************************************************************************)
EXTENDS Integers, Sequences

CONSTANTS
    Loadable,       \* the addresses that an upload may write
    InitialRam,     \* memory with the packaged payload installed
    Bundles,        \* bundle descriptors
    Images,         \* image descriptors
    MaxImages,
    Crc(_),         \* the digest of a sequence of bytes
    Fallback,       \* the packaged payload
    NoGuest

VARIABLES ram, guest

contractVars == <<ram, guest>>

File(i) == i.address .. i.address + i.file_size - 1
Extent(i) == i.address .. i.address + i.runtime_size - 1

Installed(i, r) ==
    /\ Crc([k \in 1 .. i.file_size |-> r[i.address + k - 1]]) = i.crc32
    /\ \A a \in Extent(i) \ File(i) : r[a] = 0

\* Bundle b with the images s may start in memory r.
Bootable(b, s, r) ==
    /\ Len(s) = b.image_count
    /\ \A n \in DOMAIN s : Extent(s[n]) \subseteq Loadable /\ Installed(s[n], r)
    /\ \A m, n \in DOMAIN s : m # n => Extent(s[m]) \cap Extent(s[n]) = {}
    /\ \E n \in DOMAIN s : b.entry .. b.entry + 3 \subseteq File(s[n])

ContractInit ==
    /\ ram = InitialRam
    /\ guest = NoGuest

Load ==
    /\ guest = NoGuest
    /\ DOMAIN ram' = DOMAIN ram
    /\ \A a \in DOMAIN ram \ Loadable : ram'[a] = ram[a]
    /\ UNCHANGED guest

StartFallback ==
    /\ guest = NoGuest
    /\ ram = InitialRam
    /\ guest' = Fallback
    /\ UNCHANGED ram

StartBundle(b) ==
    /\ guest = NoGuest
    /\ \E n \in 1 .. MaxImages : \E s \in [1 .. n -> Images] : Bootable(b, s, ram)
    /\ guest' = b
    /\ UNCHANGED ram

ContractNext == Load \/ StartFallback \/ \E b \in Bundles : StartBundle(b)

ContractSpec == ContractInit /\ [][ContractNext]_contractVars
=============================================================================
