-------------------------------- MODULE Ncm ---------------------------------
(***************************************************************************)
(* The NCM blocks that carry Ethernet frames over USB (drivers/usb/ncm.rs):*)
(* the encoder that fills a block frame by frame, the encoder of a single  *)
(* frame, and the decoder, which walks the chain of tables of a block that *)
(* the host or the encoder made.                                           *)
(*                                                                         *)
(* A block is its length, the offset of its first table, and its tables by *)
(* offset: their size, their entries and the offset of the next one.  An   *)
(* entry or a table is a range of bytes.  What the bytes of a frame are,   *)
(* and which of its errors the decoder reports, is left out.               *)
(***************************************************************************)
EXTENDS Integers, Sequences

CONSTANTS
    NTB_SIZE, FRAME_SIZE, MAX_DATAGRAMS,    \* 16384, 1514, 16
    Limits,             \* NTB input sizes that the host may set
    HostBlocks          \* blocks that the host may send

HEADER == 12            \* the NTB header
ETHERNET == 14          \* an Ethernet header; its payload is aligned to 4
FRAME_OFFSET == 30

Spans == [offset : Nat, length : Nat]

\* A frame of any length fits into a block, and the fields of the host's
\* blocks are words.
ASSUME NcmAssumption ==
    /\ NTB_SIZE \in Nat /\ FRAME_SIZE \in Nat /\ MAX_DATAGRAMS \in Nat \ {0}
    /\ FRAME_OFFSET + FRAME_SIZE <= NTB_SIZE
    /\ Limits \subseteq Nat
    /\ \A b \in HostBlocks :
         /\ b.length \in Nat /\ b.first \in Nat
         /\ \A at \in DOMAIN b.tables :
              /\ at \in Nat /\ b.tables[at].size \in Nat /\ b.tables[at].next \in Nat
              /\ b.tables[at].entries \in Seq(Spans)

Span(offset, length) == [offset |-> offset, length |-> length]
END == Span(0, 0)       \* the entry that ends a table

overlaps(a, b) == a.offset < b.offset + b.length /\ b.offset < a.offset + a.length

Align(n) == ((n + 3) \div 4) * 4

VARIABLES
    datagrams, end,     \* Encoder
    limit,              \* length of the output buffer
    ntb, sender,        \* the block to decode and who made it
    next, tables, block,    \* decode: the next table, the ranges seen
    result              \* "filling", "decoding", "accepted" or "rejected"

encoderVars == <<datagrams, end, limit>>
decoderVars == <<next, tables, block>>
ncmVars == <<encoderVars, ntb, sender, decoderVars, result>>

NoBlock == [length |-> 0, first |-> 0, tables |-> <<>>]

NcmInit ==
    /\ datagrams = <<>> /\ end = HEADER /\ limit \in Limits
    /\ ntb = NoBlock /\ sender = "device"
    /\ next = 0 /\ tables = <<>> /\ block = <<>>
    /\ result = "filling"
-----------------------------------------------------------------------------
(***************************************************************************)
(* Encoder::push, Encoder::finish and encode.                              *)
(***************************************************************************)
Capacity == IF limit < NTB_SIZE THEN limit ELSE NTB_SIZE

\* The length of a block of count datagrams that end at e.
Table(e) == Align(e)
TableSize(count) == 8 + (count + 1) * 4
Total(e, count) == Table(e) + TableSize(count)

\* Mutant: the entry that ends the table is not counted.
FitsTight(e, count) == Total(e, count) - 4 <= Capacity

Fits(e, count) == Total(e, count) <= Capacity

FrameLengths == ETHERNET .. FRAME_SIZE

FrameOffset == Align(end + ETHERNET) - ETHERNET

Encoder_push(length) ==
    /\ result = "filling"
    /\ Len(datagrams) < MAX_DATAGRAMS
    /\ length \in FrameLengths
    /\ Fits(FrameOffset + length, Len(datagrams) + 1)
    /\ datagrams' = Append(datagrams, Span(FrameOffset, length))
    /\ end' = FrameOffset + length
    /\ UNCHANGED <<limit, ntb, sender, decoderVars, result>>

\* The decoder begins with the header of the block b.
Send(b, from) ==
    /\ ntb' = b /\ sender' = from
    /\ next' = b.first /\ tables' = <<>> /\ block' = <<>>
    /\ result' = IF b.length \notin HEADER .. NTB_SIZE \/ b.first = 0
                 THEN "rejected" ELSE "decoding"

\* A block with one table at offset at.
OneTable(length, at, entries) ==
    [length |-> length, first |-> at,
     tables |-> [o \in {at} |->
                   [size |-> 8 + Len(entries) * 4, entries |-> entries, next |-> 0]]]

finish ==
    /\ result = "filling" /\ datagrams # <<>>
    /\ Fits(end, Len(datagrams))
    /\ Send(OneTable(Total(end, Len(datagrams)), Table(end), Append(datagrams, END)), "device")
    /\ UNCHANGED encoderVars

encode(length) ==
    /\ result = "filling" /\ datagrams = <<>>
    /\ length \in FrameLengths /\ FRAME_OFFSET + length <= limit
    /\ datagrams' = <<Span(FRAME_OFFSET, length)>>
    /\ end' = FRAME_OFFSET + length
    /\ Send(OneTable(end', HEADER, Append(datagrams', END)), "device")
    /\ UNCHANGED limit

HostSendsBlock ==
    /\ result = "filling" /\ datagrams = <<>>
    /\ \E b \in HostBlocks : Send(b, "host")
    /\ UNCHANGED encoderVars
-----------------------------------------------------------------------------
(***************************************************************************)
(* decode                                                                  *)
(***************************************************************************)
\* The number of entries before the first one that ends the table.
Ends(entries) == {k \in DOMAIN entries : entries[k] = END}
Count(entries) == (CHOOSE k \in Ends(entries) : \A j \in Ends(entries) : k <= j) - 1

ValidTable(at) ==
    /\ Len(tables) < MAX_DATAGRAMS
    /\ at >= HEADER /\ at % 4 = 0 /\ at \in DOMAIN ntb.tables
    /\ LET size == ntb.tables[at].size
       IN  /\ size >= 12 /\ size % 4 = 0 /\ at + size <= ntb.length
           /\ \A k \in DOMAIN tables : ~overlaps(tables[k], Span(at, size))

ValidEntry(d) ==
    /\ d.offset >= HEADER /\ (d.offset + ETHERNET) % 4 = 0
    /\ d.length \in FrameLengths /\ d.offset + d.length <= ntb.length

Disjoint(old, new) ==
    \A j, k \in DOMAIN (old \o new) : j < k => ~overlaps((old \o new)[j], (old \o new)[k])

Seen(table) == Append(tables, Span(next, table.size))

\* One table of the chain.
DecodeTable ==
    /\ result = "decoding" /\ next # 0
    /\ IF /\ ValidTable(next)
          /\ Ends(ntb.tables[next].entries) # {}
       THEN LET table == ntb.tables[next]
                new == SubSeq(table.entries, 1, Count(table.entries))
            IN  IF /\ \A k \in DOMAIN new : ValidEntry(new[k])
                   /\ Len(block \o new) <= MAX_DATAGRAMS
                   /\ Disjoint(block, new)
                THEN /\ tables' = Seen(table)
                     /\ block' = block \o new
                     /\ next' = table.next
                     /\ UNCHANGED result
                ELSE result' = "rejected" /\ UNCHANGED decoderVars
       ELSE result' = "rejected" /\ UNCHANGED decoderVars
    /\ UNCHANGED <<encoderVars, ntb, sender>>

ClearOfTables == \A j \in DOMAIN block, k \in DOMAIN tables : ~overlaps(tables[k], block[j])

DecodeEnd ==
    /\ result = "decoding" /\ next = 0
    /\ result' = IF ClearOfTables THEN "accepted" ELSE "rejected"
    /\ UNCHANGED <<encoderVars, ntb, sender, decoderVars>>

Decode == DecodeTable \/ DecodeEnd

NcmNext ==
    \/ \E length \in FrameLengths : Encoder_push(length) \/ encode(length)
    \/ finish \/ HostSendsBlock \/ Decode

NcmSpec == NcmInit /\ [][NcmNext]_ncmVars /\ WF_ncmVars(Decode)
-----------------------------------------------------------------------------
(***************************************************************************)
(* THE ENCODER'S INVARIANT.  Frames are aligned, disjoint and in order     *)
(* between the header and the end, and a block that took a frame can be    *)
(* finished: push has counted what finish will add.                        *)
(***************************************************************************)
EncoderInvariant ==
    /\ end \in Nat /\ datagrams \in Seq(Spans)
    /\ \A k \in DOMAIN datagrams :
         /\ datagrams[k].offset >= HEADER /\ (datagrams[k].offset + ETHERNET) % 4 = 0
         /\ datagrams[k].length \in FrameLengths
         /\ datagrams[k].offset + datagrams[k].length <= end
         /\ \A j \in DOMAIN datagrams :
              j < k => datagrams[j].offset + datagrams[j].length <= datagrams[k].offset
    /\ Len(datagrams) <= MAX_DATAGRAMS
    /\ result = "filling" /\ datagrams # <<>> => Fits(end, Len(datagrams))

(***************************************************************************)
(* WHAT IS EXPOSED IS SAFE. The frames of an accepted block lie inside it, *)
(* past the header, apart from each other and from every table that the    *)
(* chain went through. The chain goes through no byte twice, however the   *)
(* tables are linked, so that decoding ends also when they form a circle.  *)
(***************************************************************************)
ExposedIsSafe ==
    /\ result = "accepted" =>
         \A k \in DOMAIN block :
           /\ block[k].offset >= HEADER /\ block[k].length \in FrameLengths
           /\ block[k].offset + block[k].length <= ntb.length
           /\ \A j \in DOMAIN block : j # k => ~overlaps(block[j], block[k])
           /\ \A j \in DOMAIN tables : ~overlaps(tables[j], block[k])
    /\ \A j, k \in DOMAIN tables : j # k => ~overlaps(tables[j], tables[k])

(***************************************************************************)
(* WHAT IS ENCODED IS DECODED. A block of the encoders is accepted and     *)
(* holds the frames that were put into it, in their order.                 *)
(***************************************************************************)
EncodedIsDecoded ==
    sender = "device" =>
      /\ result # "rejected"
      /\ result = "accepted" => block = datagrams

(***************************************************************************)
(* NCM BLOCKS ARE SOUND: those that the device builds and those that it    *)
(* accepts.                                                                *)
(***************************************************************************)
BlocksAreSound == EncoderInvariant /\ ExposedIsSafe /\ EncodedIsDecoded
=============================================================================
