---------------------------- MODULE TrafficProofs ---------------------------
(***************************************************************************)
(* Proofs about what the USB carries: the NCM blocks, for every size of a  *)
(* block, of a frame and of the host's buffers and for every block that    *)
(* the host may send, and the console's bytes, for every capacity of its   *)
(* queues.                                                                 *)
(***************************************************************************)
EXTENDS Ncm, Console, SequenceTheorems, WellFoundedInduction, TLAPS

(***************************************************************************)
(* The inductive invariant of module Ncm.                                  *)
(***************************************************************************)
\* A block that can be read: all of its fields are words.
Readable(b) ==
    /\ b.length \in Nat /\ b.first \in Nat
    /\ \A at \in DOMAIN b.tables :
         /\ at \in Nat /\ b.tables[at].size \in Nat /\ b.tables[at].next \in Nat
         /\ b.tables[at].entries \in Seq(Spans)

\* What the decoder has taken of the block until now.
DecodedSoFar ==
    /\ Readable(ntb)
    /\ next \in Nat /\ tables \in Seq(Spans) /\ block \in Seq(Spans)
    /\ \A k \in DOMAIN block : ValidEntry(block[k])
    /\ \A j, k \in DOMAIN block : j < k => ~overlaps(block[j], block[k])
    /\ \A j, k \in DOMAIN tables : j # k => ~overlaps(tables[j], tables[k])
    /\ result = "accepted" => ClearOfTables

\* The only table of a block that an encoder made.
OwnTable == Span(ntb.first, TableSize(Len(datagrams)))

\* A block of the encoders, before and after its table is read.
OwnBlock ==
    /\ ntb.tables = [o \in {ntb.first} |-> [size |-> TableSize(Len(datagrams)),
                                            entries |-> Append(datagrams, END), next |-> 0]]
    /\ ntb.first >= HEADER /\ ntb.first % 4 = 0
    /\ ntb.first + TableSize(Len(datagrams)) <= ntb.length
    /\ \A k \in DOMAIN datagrams :
         /\ datagrams[k].offset + datagrams[k].length <= ntb.length
         /\ ~overlaps(OwnTable, datagrams[k])
    /\ \/ result = "decoding" /\ next = ntb.first /\ tables = <<>> /\ block = <<>>
       \/ result \in {"decoding", "accepted"} /\ next = 0 /\ tables = <<OwnTable>> /\ block = datagrams

NcmInvariant ==
    /\ EncoderInvariant
    /\ limit \in Nat /\ end >= HEADER
    /\ DecodedSoFar
    /\ result \in {"filling", "decoding", "accepted", "rejected"}
    /\ result # "filling" =>
         \/ datagrams = <<>> /\ sender = "host"
         \/ sender = "device" /\ OwnBlock

-----------------------------------------------------------------------------
(***************************************************************************)
(* Operators of module Ncm.                                                *)
(***************************************************************************)
LEMMA AlignUp ==
    ASSUME NEW n \in Nat
    PROVE  Align(n) \in Nat /\ Align(n) >= n /\ Align(n) % 4 = 0
BY DEF Align

LEMMA SpanType ==
    ASSUME NEW o \in Nat, NEW l \in Nat
    PROVE  /\ Span(o, l) \in Spans /\ Span(o, l).offset = o /\ Span(o, l).length = l
           /\ END \in Spans /\ END.offset = 0 /\ END.length = 0
BY DEF Span, Spans, END

LEMMA EntryType ==
    ASSUME NEW d \in Seq(Spans), NEW k \in DOMAIN d
    PROVE  d[k] \in Spans /\ d[k].offset \in Nat /\ d[k].length \in Nat
<1>1. d[k] \in Spans
  OBVIOUS
<1> QED BY <1>1 DEF Spans

\* The entry that ends a table is found, and the ones before it are entries.
LEMMA CountType ==
    ASSUME NEW entries \in Seq(Spans), Ends(entries) # {}
    PROVE  /\ Count(entries) \in 0 .. Len(entries)
           /\ SubSeq(entries, 1, Count(entries)) \in Seq(Spans)
<1>1. Ends(entries) \subseteq 1 .. Len(entries)
  BY DEF Ends
<1>2. Ends(entries) \subseteq Nat
  BY <1>1
<1>3. PICK k \in Ends(entries) : \A m \in Ends(entries) : ~(<<m, k>> \in OpToRel(<, Nat))
  BY <1>2, NatLessThanWellFounded, WFMin
<1>4. ASSUME NEW m \in Ends(entries)
      PROVE  k <= m
  <2>1. ~(m < k)
    <3>1. <<m, k>> \in Nat \X Nat /\ <<m, k>>[1] = m /\ <<m, k>>[2] = k
      BY <1>2
    <3> QED BY <1>3, <3>1, Zenon DEF OpToRel
  <2> QED BY <1>2, <2>1
<1>5. Count(entries) \in Int /\ Count(entries) + 1 \in Ends(entries)
  <2> DEFINE first == CHOOSE e \in Ends(entries) : \A j \in Ends(entries) : e <= j
  <2>1. first \in Ends(entries)
    BY <1>4
  <2>2. Count(entries) = first - 1
    BY DEF Count
  <2> HIDE DEF first
  <2> QED BY <1>2, <2>1, <2>2
<1>6. Count(entries) \in 0 .. Len(entries)
  BY <1>1, <1>5
<1> HIDE DEF Count
<1> QED BY <1>6, SubSeqProperties

\* The table of a block that an encoder made is read back.
LEMMA CountOfOwn ==
    ASSUME NEW d \in Seq(Spans), \A k \in DOMAIN d : d[k] # END
    PROVE  /\ Ends(Append(d, END)) # {}
           /\ SubSeq(Append(d, END), 1, Count(Append(d, END))) = d
<1> DEFINE entries == Append(d, END)
<1>1. END \in Spans
  BY DEF END, Span, Spans
<1>2. /\ entries \in Seq(Spans) /\ Len(entries) = Len(d) + 1
      /\ entries[Len(d) + 1] = END
      /\ \A k \in 1 .. Len(d) : entries[k] = d[k]
  BY <1>1, AppendProperties
<1>3. Ends(entries) = {Len(d) + 1}
  BY <1>2 DEF Ends
<1>4. Count(entries) = Len(d)
  <2>1. (CHOOSE k \in {Len(d) + 1} : \A j \in {Len(d) + 1} : k <= j) = Len(d) + 1
    OBVIOUS
  <2> QED BY <1>3, <2>1 DEF Count
<1>5. SubSeq(entries, 1, Len(d)) = d
  <2> HIDE DEF entries
  <2>1. /\ SubSeq(entries, 1, Len(d)) \in Seq(Spans)
        /\ Len(SubSeq(entries, 1, Len(d))) = Len(d)
        /\ \A i \in 1 .. Len(d) : SubSeq(entries, 1, Len(d))[i] = d[i]
    BY <1>2, SubSeqProperties
  <2> QED BY <2>1, SeqEqual
<1> QED BY <1>3, <1>4, <1>5

-----------------------------------------------------------------------------
(***************************************************************************)
(* The encoders.                                                           *)
(***************************************************************************)
\* Frames between the header and e, aligned, disjoint and in order.
Placed(d, e) ==
    /\ e \in Nat /\ d \in Seq(Spans) /\ Len(d) <= MAX_DATAGRAMS
    /\ \A k \in DOMAIN d :
         /\ d[k].offset >= HEADER /\ (d[k].offset + ETHERNET) % 4 = 0
         /\ d[k].length \in FrameLengths
         /\ d[k].offset + d[k].length <= e
         /\ \A j \in DOMAIN d : j < k => d[j].offset + d[j].length <= d[k].offset

\* A frame is put behind the others.
LEMMA AppendPlaced ==
    ASSUME NEW d, NEW e, Placed(d, e), Len(d) < MAX_DATAGRAMS,
           NEW o \in Nat, NEW length \in FrameLengths,
           o >= e, o >= HEADER, (o + ETHERNET) % 4 = 0
    PROVE  Placed(Append(d, Span(o, length)), o + length)
<1> DEFINE f == Span(o, length)
           new == Append(d, f)
<1>1. d \in Seq(Spans) /\ e \in Nat /\ length \in Nat /\ MAX_DATAGRAMS \in Nat
  BY NcmAssumption DEF Placed, FrameLengths, ETHERNET
<1>2. f \in Spans /\ f.offset = o /\ f.length = length
  BY <1>1, SpanType
<1> HIDE DEF f
<1>3. /\ new \in Seq(Spans) /\ Len(new) = Len(d) + 1 /\ new[Len(d) + 1] = f
      /\ \A k \in 1 .. Len(d) : new[k] = d[k]
  BY <1>1, <1>2, AppendProperties
<1>4. DOMAIN d = 1 .. Len(d) /\ DOMAIN new = 1 .. Len(d) + 1 /\ Len(d) \in Nat
  BY <1>1, <1>3
<1> HIDE DEF new
<1>5. \A k \in DOMAIN d : d[k].offset \in Nat /\ d[k].length \in Nat
  BY <1>1, EntryType
<1>6. ASSUME NEW k \in DOMAIN new
      PROVE  /\ new[k].offset >= HEADER /\ (new[k].offset + ETHERNET) % 4 = 0
             /\ new[k].length \in FrameLengths
             /\ new[k].offset + new[k].length <= o + length
             /\ \A j \in DOMAIN new : j < k => new[j].offset + new[j].length <= new[k].offset
  <2>1. CASE k \in 1 .. Len(d)
    <3>1. new[k] = d[k] /\ \A j \in DOMAIN new : j < k => new[j] = d[j] /\ j \in DOMAIN d
      BY <1>3, <1>4, <2>1
    <3>2. /\ d[k].offset >= HEADER /\ (d[k].offset + ETHERNET) % 4 = 0
          /\ d[k].length \in FrameLengths
          /\ d[k].offset + d[k].length <= e
          /\ \A j \in DOMAIN d : j < k => d[j].offset + d[j].length <= d[k].offset
      BY <1>4, <2>1 DEF Placed
    <3>3. d[k].offset + d[k].length <= o + length
      BY <1>1, <1>4, <1>5, <2>1, <3>2
    <3> QED BY <3>1, <3>2, <3>3
  <2>2. CASE k = Len(d) + 1
    <3>1. new[k].offset = o /\ new[k].length = length
      BY <1>2, <1>3, <2>2
    <3>2. ASSUME NEW j \in DOMAIN new, j < k
          PROVE  new[j].offset + new[j].length <= new[k].offset
      <4>1. j \in DOMAIN d /\ new[j] = d[j]
        BY <1>3, <1>4, <2>2, <3>2
      <4>2. d[j].offset + d[j].length <= e
        BY <4>1 DEF Placed
      <4> QED BY <1>1, <1>5, <3>1, <4>1, <4>2
    <3>3. o + length <= o + length
      BY <1>1
    <3> QED BY <3>1, <3>2, <3>3
  <2> QED BY <1>4, <2>1, <2>2
<1>7. o + length \in Nat /\ Len(new) <= MAX_DATAGRAMS
  BY <1>1, <1>3, <1>4
<1> QED BY <1>3, <1>6, <1>7 DEF Placed, new, f

\* The order that Placed asks for keeps the frames apart, and none is END.
LEMMA PlacedApart ==
    ASSUME NEW d, NEW e, Placed(d, e)
    PROVE  /\ \A j, k \in DOMAIN d : j < k => ~overlaps(d[j], d[k])
           /\ \A k \in DOMAIN d : d[k] # END
           /\ \A k \in DOMAIN d : d[k].offset \in Nat /\ d[k].length \in Nat
<1>1. d \in Seq(Spans) /\ DOMAIN d = 1 .. Len(d)
  BY DEF Placed
<1>2. \A k \in DOMAIN d : d[k].offset \in Nat /\ d[k].length \in Nat
  BY <1>1, EntryType
<1>3. ASSUME NEW j \in DOMAIN d, NEW k \in DOMAIN d, j < k
      PROVE  ~overlaps(d[j], d[k])
  <2>1. d[j].offset + d[j].length <= d[k].offset
    BY <1>3 DEF Placed
  <2> QED BY <1>2, <2>1 DEF overlaps
<1>4. ASSUME NEW k \in DOMAIN d
      PROVE  d[k] # END
  <2>1. d[k].length >= 14
    BY <1>2, NcmAssumption DEF Placed, FrameLengths, ETHERNET
  <2>2. END.length = 0
    BY DEF END, Span
  <2> QED BY <1>2, <2>1, <2>2
<1> QED BY <1>2, <1>3, <1>4

\* An encoder hands a block of the frames d to the decoder.
LEMMA SendOwn ==
    ASSUME NEW d, NEW e, Placed(d, e), datagrams' = d,
           NEW length \in HEADER .. NTB_SIZE, NEW at \in Nat,
           at >= HEADER, at % 4 = 0, at + TableSize(Len(d)) <= length,
           \A k \in DOMAIN d : /\ d[k].offset + d[k].length <= length
                               /\ ~overlaps(Span(at, TableSize(Len(d))), d[k]),
           Send(OneTable(length, at, Append(d, END)), "device")
    PROVE  /\ DecodedSoFar' /\ OwnBlock'
           /\ result' = "decoding" /\ sender' = "device"
<1> DEFINE entries == Append(d, END)
           table == [size |-> TableSize(Len(d)), entries |-> entries, next |-> 0]
<1>1. /\ d \in Seq(Spans) /\ Len(d) \in Nat
      /\ length \in Nat /\ length \in HEADER .. NTB_SIZE
  BY NcmAssumption DEF Placed, HEADER
<1>2. END \in Spans
  BY DEF END, Span, Spans
<1>3. entries \in Seq(Spans) /\ Len(entries) = Len(d) + 1
  BY <1>1, <1>2, AppendProperties
<1>4. 8 + Len(entries) * 4 = TableSize(Len(d)) /\ TableSize(Len(d)) \in Nat
  BY <1>1, <1>3 DEF TableSize
<1> HIDE DEF entries
<1>5. /\ ntb' = [length |-> length, first |-> at, tables |-> [o \in {at} |-> table]]
      /\ sender' = "device" /\ next' = at /\ tables' = <<>> /\ block' = <<>>
      /\ result' = "decoding"
  <2>1. OneTable(length, at, entries)
           = [length |-> length, first |-> at, tables |-> [o \in {at} |-> table]]
    BY <1>4 DEF OneTable
  <2>2. at # 0
    BY DEF HEADER
  <2> HIDE DEF table
  <2> QED BY <1>1, <2>1, <2>2 DEF Send, entries
<1>6. /\ ntb'.length = length /\ ntb'.first = at /\ ntb'.tables = [o \in {at} |-> table]
      /\ DOMAIN ntb'.tables = {at} /\ ntb'.tables[at] = table
  <2> HIDE DEF table
  <2> QED BY <1>5
<1>7. Readable(ntb)'
  <2>1. table.size \in Nat /\ table.next \in Nat /\ table.entries \in Seq(Spans)
    BY <1>3, <1>4
  <2> HIDE DEF table
  <2> QED BY <1>1, <1>6, <2>1 DEF Readable
<1>8. DecodedSoFar'
  <2>1. <<>> \in Seq(Spans) /\ DOMAIN <<>> = {}
    OBVIOUS
  <2> HIDE DEF table
  <2> QED BY <1>5, <1>7, <2>1 DEF DecodedSoFar
<1>9. OwnBlock'
  <2>1. OwnTable' = Span(at, TableSize(Len(d)))
    BY <1>6 DEF OwnTable
  <2>2. ntb'.tables = [o \in {ntb'.first} |-> [size |-> TableSize(Len(datagrams')),
                                               entries |-> Append(datagrams', END), next |-> 0]]
    BY <1>6 DEF entries
  <2>3. /\ ntb'.first >= HEADER /\ ntb'.first % 4 = 0
        /\ ntb'.first + TableSize(Len(datagrams')) <= ntb'.length
        /\ \A k \in DOMAIN datagrams' :
             /\ datagrams'[k].offset + datagrams'[k].length <= ntb'.length
             /\ ~overlaps(OwnTable', datagrams'[k])
    <3> HIDE DEF table
    <3> QED BY <1>6, <2>1
  <2>4. result' = "decoding" /\ next' = ntb'.first /\ tables' = <<>> /\ block' = <<>>
    <3> HIDE DEF table
    <3> QED BY <1>5, <1>6
  <2> HIDE DEF table
  <2> QED BY <2>2, <2>3, <2>4 DEF OwnBlock
<1> QED BY <1>5, <1>8, <1>9

\* Encoder::push.
LEMMA PushStep ==
    ASSUME NcmInvariant, NEW length \in FrameLengths, Encoder_push(length)
    PROVE  NcmInvariant'
<1>1. /\ Placed(datagrams, end) /\ end \in Nat /\ end >= HEADER /\ length \in Nat
  BY NcmAssumption DEF NcmInvariant, EncoderInvariant, Placed, FrameLengths, ETHERNET
<1>2. /\ FrameOffset \in Nat /\ FrameOffset >= end /\ FrameOffset >= HEADER
      /\ (FrameOffset + ETHERNET) % 4 = 0
  <2>1. Align(end + 14) \in Nat /\ Align(end + 14) >= end + 14 /\ Align(end + 14) % 4 = 0
    BY <1>1, AlignUp
  <2> QED BY <1>1, <2>1 DEF FrameOffset, ETHERNET, HEADER
<1>3. Placed(datagrams', end')
  <2>1. Placed(Append(datagrams, Span(FrameOffset, length)), FrameOffset + length)
    BY <1>1, <1>2, AppendPlaced DEF Encoder_push
  <2> QED BY <2>1 DEF Encoder_push
<1>4. Len(datagrams') = Len(datagrams) + 1 /\ end' = FrameOffset + length
  BY <1>1 DEF Encoder_push, Placed
<1>5. EncoderInvariant'
  <2>1. Fits(end, Len(datagrams))'
    BY <1>4 DEF Encoder_push, Fits, Capacity
  <2> QED BY <1>3, <2>1 DEF Placed, EncoderInvariant
<1>6. limit' \in Nat /\ end' >= HEADER
  BY <1>1, <1>2, <1>4 DEF NcmInvariant, Encoder_push, HEADER
<1>7. DecodedSoFar' /\ result' = "filling"
  BY DEF NcmInvariant, DecodedSoFar, Encoder_push, decoderVars, Readable, ClearOfTables, ValidEntry
<1> QED BY <1>5, <1>6, <1>7 DEF NcmInvariant

\* Encoder::finish.
LEMMA FinishStep ==
    ASSUME NcmInvariant, finish
    PROVE  NcmInvariant'
<1> DEFINE at == Table(end)
           length == Total(end, Len(datagrams))
<1>1. /\ Placed(datagrams, end) /\ end \in Nat /\ end >= HEADER /\ Len(datagrams) \in Nat
      /\ limit \in Nat
  BY DEF NcmInvariant, EncoderInvariant, Placed
<1>2. /\ at \in Nat /\ at >= end /\ at % 4 = 0
  BY <1>1, AlignUp DEF Table
<1>3. /\ length = at + TableSize(Len(datagrams)) /\ TableSize(Len(datagrams)) >= 12
      /\ TableSize(Len(datagrams)) \in Nat
  BY <1>1 DEF Total, TableSize
<1>4. length <= NTB_SIZE
  BY <1>1, <1>2, <1>3, NcmAssumption DEF finish, Fits, Capacity
<1> HIDE DEF at, length
<1>5. length \in HEADER .. NTB_SIZE
  BY <1>1, <1>2, <1>3, <1>4, NcmAssumption DEF HEADER
<1>6. ASSUME NEW k \in DOMAIN datagrams
      PROVE  /\ datagrams[k].offset + datagrams[k].length <= length
             /\ ~overlaps(Span(at, TableSize(Len(datagrams))), datagrams[k])
  <2>1. /\ datagrams[k].offset \in Nat /\ datagrams[k].length \in Nat
        /\ datagrams[k].offset + datagrams[k].length <= end
    BY <1>1, PlacedApart DEF Placed
  <2>2. Span(at, TableSize(Len(datagrams))).offset = at
    BY DEF Span
  <2> DEFINE o == datagrams[k].offset
             l == datagrams[k].length
             size == TableSize(Len(datagrams))
  <2>3. o \in Nat /\ l \in Nat /\ o + l <= end
    BY <2>1
  <2>4. o + l <= length /\ ~(at < o + l)
    <3> HIDE DEF o, l, size
    <3>1. length = at + size /\ size \in Nat
      BY <1>3 DEF size
    <3> QED BY <1>1, <1>2, <2>3, <3>1
  <2> QED BY <2>2, <2>4 DEF overlaps
<1>7. Send(OneTable(length, at, Append(datagrams, END)), "device") /\ UNCHANGED encoderVars
  BY DEF finish, at, length
<1>8. /\ DecodedSoFar' /\ OwnBlock'
      /\ result' = "decoding" /\ sender' = "device"
  <2>1. datagrams' = datagrams /\ at >= HEADER /\ at + TableSize(Len(datagrams)) <= length
    BY <1>1, <1>2, <1>3, <1>7 DEF encoderVars, HEADER
  <2> QED BY <1>1, <1>2, <1>5, <1>6, <1>7, <2>1, SendOwn
<1>9. EncoderInvariant' /\ limit' \in Nat /\ end' >= HEADER
  BY <1>1, <1>7, <1>8 DEF EncoderInvariant, encoderVars, Placed
<1> QED BY <1>8, <1>9 DEF NcmInvariant

\* encode, for a single frame.
LEMMA EncodeStep ==
    ASSUME NcmInvariant, NEW length \in FrameLengths, encode(length)
    PROVE  NcmInvariant'
<1> DEFINE f == Span(FRAME_OFFSET, length)
<1>1. length \in 14 .. FRAME_SIZE /\ length \in Nat /\ FRAME_SIZE \in Nat
  BY NcmAssumption DEF FrameLengths, ETHERNET
<1>2. f \in Spans /\ f.offset = 30 /\ f.length = length
  BY <1>1, SpanType DEF FRAME_OFFSET
<1> HIDE DEF f
<1>3. datagrams' = <<f>> /\ end' = 30 + length /\ limit' = limit
  BY DEF encode, f, FRAME_OFFSET
<1>4. /\ <<f>> \in Seq(Spans) /\ Len(<<f>>) = 1 /\ DOMAIN <<f>> = {1} /\ <<f>>[1] = f
  BY <1>2
<1>5. Placed(<<f>>, 30 + length)
  <2>1. 1 <= MAX_DATAGRAMS /\ 30 + length \in Nat
    BY <1>1, NcmAssumption
  <2>2. f.offset >= HEADER /\ (f.offset + ETHERNET) % 4 = 0 /\ f.length \in FrameLengths
    BY <1>2 DEF HEADER, ETHERNET
  <2>3. f.offset + f.length <= 30 + length
    BY <1>1, <1>2
  <2> QED BY <1>4, <2>1, <2>2, <2>3 DEF Placed
<1>6. /\ 30 + length \in HEADER .. NTB_SIZE /\ HEADER \in Nat /\ HEADER % 4 = 0
      /\ HEADER + TableSize(Len(<<f>>)) <= 30 + length
  BY <1>1, <1>4, NcmAssumption DEF HEADER, TableSize, FRAME_OFFSET
<1>7. \A k \in DOMAIN <<f>> : /\ <<f>>[k].offset + <<f>>[k].length <= 30 + length
                              /\ ~overlaps(Span(HEADER, TableSize(Len(<<f>>))), <<f>>[k])
  <2>1. f.offset + f.length <= 30 + length
    BY <1>1, <1>2
  <2>2. ~overlaps(Span(HEADER, TableSize(1)), f)
    BY <1>2 DEF overlaps, Span, HEADER, TableSize
  <2> QED BY <1>4, <2>1, <2>2
<1>8. /\ DecodedSoFar' /\ OwnBlock'
      /\ result' = "decoding" /\ sender' = "device"
  <2>1. Send(OneTable(30 + length, HEADER, Append(<<f>>, END)), "device")
    BY <1>3 DEF encode
  <2>2. HEADER >= HEADER
    BY DEF HEADER
  <2> QED BY <1>3, <1>5, <1>6, <1>7, <2>1, <2>2, SendOwn
<1>9. EncoderInvariant' /\ limit' \in Nat /\ end' >= HEADER
  BY <1>1, <1>3, <1>5, <1>8 DEF EncoderInvariant, NcmInvariant, Placed, HEADER
<1> QED BY <1>8, <1>9 DEF NcmInvariant

-----------------------------------------------------------------------------
(***************************************************************************)
(* The decoder.                                                            *)
(***************************************************************************)
\* A block of the host reaches the decoder.
LEMMA HostBlockStep ==
    ASSUME NcmInvariant, HostSendsBlock
    PROVE  NcmInvariant'
<1>1. PICK b \in HostBlocks : Send(b, "host")
  BY DEF HostSendsBlock
<1>2. Readable(b)
  BY NcmAssumption DEF Readable
<1>3. /\ ntb' = b /\ sender' = "host" /\ next' = b.first /\ tables' = <<>> /\ block' = <<>>
      /\ result' \in {"rejected", "decoding"}
  BY <1>1 DEF Send
<1>4. DecodedSoFar'
  <2>1. <<>> \in Seq(Spans) /\ DOMAIN <<>> = {} /\ b.first \in Nat
    BY <1>2 DEF Readable
  <2> QED BY <1>2, <1>3, <2>1 DEF DecodedSoFar, Readable
<1>5. EncoderInvariant' /\ limit' \in Nat /\ end' >= HEADER /\ datagrams' = <<>>
  BY <1>3 DEF HostSendsBlock, NcmInvariant, EncoderInvariant, encoderVars
<1> QED BY <1>3, <1>4, <1>5 DEF NcmInvariant

\* The order of the arguments does not matter.
LEMMA OverlapsBothWays ==
    ASSUME NEW a, NEW b, ~overlaps(a, b)
    PROVE  ~overlaps(b, a)
BY DEF overlaps

\* Entries that the decoder has checked are added to the ones before.
LEMMA AcceptEntries ==
    ASSUME DecodedSoFar, NEW new \in Seq(Spans),
           \A k \in DOMAIN new : ValidEntry(new[k]), Disjoint(block, new)
    PROVE  /\ block \o new \in Seq(Spans)
           /\ \A k \in DOMAIN (block \o new) : ValidEntry((block \o new)[k])
           /\ \A j, k \in DOMAIN (block \o new) :
                j < k => ~overlaps((block \o new)[j], (block \o new)[k])
<1> DEFINE all == block \o new
<1>1. block \in Seq(Spans) /\ Len(block) \in Nat /\ Len(new) \in Nat
  BY DEF DecodedSoFar
<1>2. /\ all \in Seq(Spans) /\ Len(all) = Len(block) + Len(new)
      /\ \A i \in 1 .. Len(block) + Len(new) :
           all[i] = IF i <= Len(block) THEN block[i] ELSE new[i - Len(block)]
  BY <1>1, ConcatProperties
<1>3. \A j, k \in DOMAIN all : j < k => ~overlaps(all[j], all[k])
  BY DEF Disjoint
<1> HIDE DEF all
<1>4. DOMAIN all = 1 .. Len(block) + Len(new)
  BY <1>2
<1>5. ASSUME NEW k \in DOMAIN all
      PROVE  ValidEntry(all[k])
  <2>1. CASE k <= Len(block)
    <3>1. k \in DOMAIN block /\ all[k] = block[k]
      BY <1>1, <1>2, <1>4, <2>1
    <3> QED BY <3>1 DEF DecodedSoFar
  <2>2. CASE k > Len(block)
    <3>1. k - Len(block) \in DOMAIN new /\ all[k] = new[k - Len(block)]
      BY <1>1, <1>2, <1>4, <2>2
    <3> QED BY <3>1
  <2> QED BY <1>1, <1>4, <2>1, <2>2
<1> QED BY <1>2, <1>3, <1>5 DEF all

\* A table that the decoder has checked is added to the ones before.
LEMMA AcceptTable ==
    ASSUME DecodedSoFar, ValidTable(next)
    PROVE  LET seen == Seen(ntb.tables[next])
           IN  /\ seen \in Seq(Spans)
               /\ \A j, k \in DOMAIN seen : j # k => ~overlaps(seen[j], seen[k])
<1> DEFINE span == Span(next, ntb.tables[next].size)
           seen == Append(tables, span)
<1>1. tables \in Seq(Spans) /\ Len(tables) \in Nat /\ DOMAIN tables = 1 .. Len(tables)
  BY DEF DecodedSoFar
<1>2. span \in Spans
  BY SpanType DEF DecodedSoFar, Readable, ValidTable
<1>3. \A k \in DOMAIN tables : ~overlaps(tables[k], span)
  BY DEF ValidTable
<1> HIDE DEF span
<1>4. /\ seen \in Seq(Spans) /\ Len(seen) = Len(tables) + 1 /\ seen[Len(tables) + 1] = span
      /\ \A k \in 1 .. Len(tables) : seen[k] = tables[k]
  BY <1>1, <1>2, AppendProperties
<1> HIDE DEF seen
<1>5. DOMAIN seen = 1 .. Len(tables) + 1
  BY <1>1, <1>4
<1>6. ASSUME NEW j \in DOMAIN seen, NEW k \in DOMAIN seen, j # k
      PROVE  ~overlaps(seen[j], seen[k])
  <2>1. CASE j \in DOMAIN tables /\ k \in DOMAIN tables
    <3>1. seen[j] = tables[j] /\ seen[k] = tables[k]
      BY <1>1, <1>4, <2>1
    <3> QED BY <1>6, <2>1, <3>1 DEF DecodedSoFar
  <2>2. CASE j \in DOMAIN tables /\ k = Len(tables) + 1
    BY <1>1, <1>3, <1>4, <2>2
  <2>3. CASE k \in DOMAIN tables /\ j = Len(tables) + 1
    BY <1>1, <1>3, <1>4, <2>3, OverlapsBothWays
  <2> QED BY <1>1, <1>5, <1>6, <2>1, <2>2, <2>3
<1> QED BY <1>4, <1>6 DEF seen, span, Seen

\* A block of the encoders whose table is to be read: the decoder takes it.
LEMMA OwnTableIsTaken ==
    ASSUME NcmInvariant, OwnBlock, result = "decoding", next # 0
    PROVE  /\ next = ntb.first /\ tables = <<>> /\ block = <<>>
           /\ ntb.tables[next].size = TableSize(Len(datagrams))
           /\ ntb.tables[next].next = 0
           /\ ntb.tables[next].entries = Append(datagrams, END)
           /\ ValidTable(next)
           /\ Ends(Append(datagrams, END)) # {}
           /\ SubSeq(Append(datagrams, END), 1, Count(Append(datagrams, END))) = datagrams
           /\ \A k \in DOMAIN datagrams : ValidEntry(datagrams[k])
           /\ Len(block \o datagrams) <= MAX_DATAGRAMS
           /\ Disjoint(block, datagrams)
           /\ block \o datagrams = datagrams
<1> DEFINE entries == Append(datagrams, END)
           size == TableSize(Len(datagrams))
           table == [size |-> size, entries |-> entries, next |-> 0]
<1>1. next = ntb.first /\ tables = <<>> /\ block = <<>>
  BY DEF OwnBlock
<1>2. Placed(datagrams, end) /\ datagrams \in Seq(Spans) /\ Len(datagrams) \in Nat
  BY DEF NcmInvariant, EncoderInvariant, Placed
<1>3. ntb.tables = [o \in {ntb.first} |-> table]
  BY DEF OwnBlock
<1>4. table.size = size /\ table.entries = entries /\ table.next = 0
  OBVIOUS
<1>5. size \in Nat /\ size >= 12 /\ size % 4 = 0
  BY <1>2 DEF TableSize
<1>6. ntb.first >= HEADER /\ ntb.first % 4 = 0 /\ ntb.first + size <= ntb.length
  BY DEF OwnBlock
<1> HIDE DEF table, size
<1>7. next \in DOMAIN ntb.tables /\ ntb.tables[next] = table
  BY <1>1, <1>3
<1>8. ValidTable(next)
  <2>1. Len(tables) < MAX_DATAGRAMS /\ DOMAIN tables = {}
    BY <1>1, NcmAssumption
  <2> QED BY <1>1, <1>4, <1>5, <1>6, <1>7, <2>1 DEF ValidTable
<1>9. Ends(entries) # {} /\ SubSeq(entries, 1, Count(entries)) = datagrams
  BY <1>2, PlacedApart, CountOfOwn
<1>10. \A k \in DOMAIN datagrams : ValidEntry(datagrams[k])
  BY <1>2 DEF OwnBlock, Placed, ValidEntry
<1>11. block \o datagrams = datagrams
  BY <1>1, <1>2
<1>12. Len(block \o datagrams) <= MAX_DATAGRAMS /\ Disjoint(block, datagrams)
  <2>1. \A j, k \in DOMAIN datagrams : j < k => ~overlaps(datagrams[j], datagrams[k])
    BY <1>2, PlacedApart
  <2> QED BY <1>2, <1>11, <2>1 DEF Disjoint, Placed
<1>13. /\ ntb.tables[next].size = size /\ ntb.tables[next].next = 0
       /\ ntb.tables[next].entries = entries
  BY <1>4, <1>7
<1> HIDE DEF entries
<1> QED BY <1>1, <1>8, <1>9, <1>10, <1>11, <1>12, <1>13 DEF entries, size

\* One table of the chain.
LEMMA DecodeTableStep ==
    ASSUME NcmInvariant, DecodeTable
    PROVE  NcmInvariant'
<1> DEFINE table == ntb.tables[next]
           new == SubSeq(table.entries, 1, Count(table.entries))
           Takes == /\ ValidTable(next) /\ Ends(table.entries) # {}
                    /\ \A k \in DOMAIN new : ValidEntry(new[k])
                    /\ Len(block \o new) <= MAX_DATAGRAMS
                    /\ Disjoint(block, new)
<1>1. /\ result = "decoding" /\ next # 0
      /\ UNCHANGED <<datagrams, end, limit, ntb, sender>>
  BY DEF DecodeTable, encoderVars
<1>2. CASE Takes
  <2>1. tables' = Seen(table) /\ block' = block \o new /\ next' = table.next /\ result' = result
    BY <1>2 DEF DecodeTable
  <2>2. DecodedSoFar /\ Readable(ntb) /\ next \in DOMAIN ntb.tables
    BY <1>2 DEF NcmInvariant, DecodedSoFar, ValidTable
  <2>3. table.entries \in Seq(Spans) /\ table.next \in Nat
    BY <2>2 DEF Readable
  <2>4. new \in Seq(Spans)
    BY <1>2, <2>3, CountType
  <2>5. /\ tables' \in Seq(Spans)
        /\ \A j, k \in DOMAIN tables' : j # k => ~overlaps(tables'[j], tables'[k])
    BY <1>2, <2>1, <2>2, AcceptTable
  <2>6. /\ block' \in Seq(Spans)
        /\ \A k \in DOMAIN block' : ValidEntry(block'[k])
        /\ \A j, k \in DOMAIN block' : j < k => ~overlaps(block'[j], block'[k])
    <3> HIDE DEF new
    <3>1. \A k \in DOMAIN new : ValidEntry(new[k])
      BY <1>2
    <3>2. Disjoint(block, new)
      BY <1>2
    <3> QED BY <2>1, <2>2, <2>4, <3>1, <3>2, AcceptEntries
  <2>7. DecodedSoFar'
    <3> HIDE DEF table, new
    <3> QED BY <1>1, <2>1, <2>2, <2>3, <2>5, <2>6 DEF DecodedSoFar, Readable, ValidEntry
  <2>8. sender = "device" => OwnBlock'
    <3> SUFFICES ASSUME sender = "device"
                 PROVE  OwnBlock'
      OBVIOUS
    <3>1. OwnBlock
      BY <1>1 DEF NcmInvariant
    <3>2. /\ tables = <<>> /\ block = <<>> /\ next = ntb.first
          /\ table.size = TableSize(Len(datagrams)) /\ table.next = 0
          /\ new = datagrams /\ block \o datagrams = datagrams
      BY <1>1, <3>1, OwnTableIsTaken
    <3> HIDE DEF table, new
    <3>3. next' = 0 /\ block' = datagrams /\ result' = "decoding"
      BY <1>1, <2>1, <3>2
    <3>4. tables' = <<OwnTable>>
      BY <2>1, <3>2 DEF Seen, OwnTable
    <3>5. OwnTable' = OwnTable
      BY <1>1 DEF OwnTable
    <3> QED BY <1>1, <3>1, <3>3, <3>4, <3>5 DEF OwnBlock
  <2>9. EncoderInvariant'
    BY <1>1, <2>1 DEF NcmInvariant, EncoderInvariant
  <2> HIDE DEF table, new
  <2> QED BY <1>1, <2>1, <2>7, <2>8, <2>9 DEF NcmInvariant
<1>3. CASE ~Takes
  <2>1. result' = "rejected" /\ UNCHANGED <<next, tables, block>>
    BY <1>3 DEF DecodeTable, decoderVars
  <2>2. sender # "device"
    <3> SUFFICES ASSUME sender = "device"
                 PROVE  FALSE
      OBVIOUS
    <3>1. OwnBlock
      BY <1>1 DEF NcmInvariant
    <3> QED BY <1>1, <1>3, <3>1, OwnTableIsTaken
  <2>3. DecodedSoFar'
    BY <1>1, <2>1 DEF NcmInvariant, DecodedSoFar, Readable, ValidEntry
  <2>4. EncoderInvariant'
    BY <1>1, <2>1 DEF NcmInvariant, EncoderInvariant
  <2> QED BY <1>1, <2>1, <2>2, <2>3, <2>4 DEF NcmInvariant
<1> QED BY <1>2, <1>3

\* The end of the chain.
LEMMA DecodeEndStep ==
    ASSUME NcmInvariant, DecodeEnd
    PROVE  NcmInvariant'
<1>1. /\ result = "decoding" /\ next = 0
      /\ result' = (IF ClearOfTables THEN "accepted" ELSE "rejected")
      /\ UNCHANGED <<datagrams, end, limit, ntb, sender, next, tables, block>>
  BY DEF DecodeEnd, encoderVars, decoderVars
<1>2. DecodedSoFar'
  BY <1>1 DEF NcmInvariant, DecodedSoFar, Readable, ValidEntry, ClearOfTables
<1>3. EncoderInvariant'
  BY <1>1 DEF NcmInvariant, EncoderInvariant
<1>4. sender = "device" => OwnBlock'
  <2> SUFFICES ASSUME sender = "device"
               PROVE  OwnBlock'
    OBVIOUS
  <2>1. OwnBlock
    BY <1>1 DEF NcmInvariant
  <2>2. tables = <<OwnTable>> /\ block = datagrams
    BY <1>1, <2>1 DEF OwnBlock, HEADER
  <2>3. ClearOfTables
    <3>1. DOMAIN tables = {1} /\ tables[1] = OwnTable
      BY <2>2
    <3> QED BY <2>1, <2>2, <3>1 DEF ClearOfTables, OwnBlock
  <2>4. OwnTable' = OwnTable
    BY <1>1 DEF OwnTable
  <2> QED BY <1>1, <2>1, <2>2, <2>3, <2>4 DEF OwnBlock
<1> QED BY <1>1, <1>2, <1>3, <1>4 DEF NcmInvariant

-----------------------------------------------------------------------------
LEMMA NcmStarts == NcmInit => NcmInvariant
<1> SUFFICES ASSUME NcmInit
             PROVE  NcmInvariant
  OBVIOUS
<1>1. <<>> \in Seq(Spans) /\ DOMAIN <<>> = {} /\ Len(<<>>) = 0
  OBVIOUS
<1>2. Readable(ntb)
  <2>1. ntb.length = 0 /\ ntb.first = 0 /\ ntb.tables = <<>>
    BY DEF NcmInit, NoBlock
  <2> QED BY <1>1, <2>1 DEF Readable
<1>3. DecodedSoFar
  BY <1>1, <1>2 DEF NcmInit, DecodedSoFar
<1>4. EncoderInvariant
  BY <1>1, NcmAssumption DEF NcmInit, EncoderInvariant, HEADER
<1> QED BY <1>3, <1>4, NcmAssumption DEF NcmInit, NcmInvariant, HEADER

LEMMA NcmSteps == NcmInvariant /\ [NcmNext]_ncmVars => NcmInvariant'
<1> SUFFICES ASSUME NcmInvariant, [NcmNext]_ncmVars
             PROVE  NcmInvariant'
  OBVIOUS
<1>1. CASE \E length \in FrameLengths : Encoder_push(length) \/ encode(length)
  BY <1>1, PushStep, EncodeStep
<1>2. CASE finish
  BY <1>2, FinishStep
<1>3. CASE HostSendsBlock
  BY <1>3, HostBlockStep
<1>4. CASE Decode
  BY <1>4, DecodeTableStep, DecodeEndStep DEF Decode
<1>5. CASE UNCHANGED ncmVars
  <2>1. UNCHANGED <<datagrams, end, limit, ntb, sender, next, tables, block, result>>
    BY <1>5 DEF ncmVars, encoderVars, decoderVars
  <2>2. DecodedSoFar'
    BY <2>1 DEF NcmInvariant, DecodedSoFar, Readable, ValidEntry, ClearOfTables
  <2>3. EncoderInvariant'
    BY <2>1 DEF NcmInvariant, EncoderInvariant, Fits, Capacity
  <2>4. OwnTable' = OwnTable
    BY <2>1 DEF OwnTable
  <2>5. OwnBlock => OwnBlock'
    BY <2>1, <2>4 DEF OwnBlock
  <2> QED BY <2>1, <2>2, <2>3, <2>5 DEF NcmInvariant
<1> QED BY <1>1, <1>2, <1>3, <1>4, <1>5 DEF NcmNext

LEMMA NcmInvariantSuffices == NcmInvariant => BlocksAreSound
<1> SUFFICES ASSUME NcmInvariant
             PROVE  BlocksAreSound
  OBVIOUS
<1>1. block \in Seq(Spans) /\ DOMAIN block = 1 .. Len(block) /\ Len(block) \in Nat
  BY DEF NcmInvariant, DecodedSoFar
<1>2. ASSUME NEW j \in DOMAIN block, NEW k \in DOMAIN block, j # k
      PROVE  ~overlaps(block[j], block[k])
  <2>1. CASE j < k
    BY <2>1 DEF NcmInvariant, DecodedSoFar
  <2>2. CASE k < j
    <3>1. ~overlaps(block[k], block[j])
      BY <2>2 DEF NcmInvariant, DecodedSoFar
    <3> QED BY <3>1, OverlapsBothWays
  <2> QED BY <1>1, <1>2, <2>1, <2>2
<1>3. ExposedIsSafe
  BY <1>2 DEF NcmInvariant, DecodedSoFar, ExposedIsSafe, ValidEntry, ClearOfTables
<1>4. EncodedIsDecoded
  BY DEF NcmInvariant, OwnBlock, EncodedIsDecoded, HEADER
<1> QED BY <1>3, <1>4 DEF BlocksAreSound, NcmInvariant

(***************************************************************************)
(* NCM blocks are sound (ncm.rs): the frames of a block that is built lie  *)
(* in order and apart, and it can always be finished; the frames of a block *)
(* that is accepted lie inside it, apart from each other and from every    *)
(* table, whatever block the host sends; and the decoder gives back what   *)
(* the encoders put in.  For every size of a block, of a frame and of the  *)
(* host's buffers, and for every number of frames in a block.              *)
(***************************************************************************)
THEOREM BlocksAreAlwaysSound == NcmSpec => []BlocksAreSound
<1>1. NcmSpec => []NcmInvariant
  BY NcmStarts, NcmSteps, PTL DEF NcmSpec
<1> QED BY <1>1, NcmInvariantSuffices, PTL

-----------------------------------------------------------------------------
(***************************************************************************)
(* The inductive invariant of module Console.  It follows each queue on    *)
(* its own: a queue holds a run of bytes, and where one queue ends the     *)
(* next one begins.  The bytes that the endpoint has accepted and the UART *)
(* has not yet dropped are in both of tx and usb_tx.                       *)
(***************************************************************************)
Run(s, from) == \A n \in DOMAIN s : s[n] = from + n

ConsoleTypes ==
    /\ rx \in Seq(Nat) /\ tx \in Seq(Nat) /\ buffer \in Seq(Nat)
    /\ usb_rx \in Seq(Nat) /\ usb_tx \in Seq(Nat)
    /\ in \in Nat /\ out \in Nat /\ read \in Nat /\ accepted \in Nat
    /\ pc \in {"idle", "deliver", "send", "consume", "line"}
    /\ ier \subseteq {"RDA", "RLS"}

InputRuns ==
    /\ Run(usb_rx, in - Len(usb_rx))
    /\ Run(buffer, in - Len(usb_rx) - Len(buffer))
    /\ Run(rx, in - Len(usb_rx) - Len(buffer) - Len(rx))
    /\ Len(buffer) + Len(rx) <= RX_CAPACITY /\ Len(buffer) <= Chunk
    /\ pc # "deliver" => buffer = <<>>
    /\ overrun = FALSE

OutputRuns ==
    /\ Run(usb_tx, read)
    /\ Run(tx, out - Len(tx))
    /\ read + Len(usb_tx) + Len(tx) - accepted = out
    /\ accepted <= Len(tx) /\ accepted <= Chunk /\ Len(tx) <= TX_CAPACITY
    /\ pc # "consume" => accepted = 0

ConsoleInvariant == ConsoleTypes /\ InputRuns /\ OutputRuns

-----------------------------------------------------------------------------
(***************************************************************************)
(* Runs of bytes.                                                          *)
(***************************************************************************)
LEMMA RunPrefix ==
    ASSUME NEW s \in Seq(Nat), NEW from \in Int, Run(s, from), NEW n \in Nat
    PROVE  /\ Prefix(s, n) \in Seq(Nat) /\ Len(Prefix(s, n)) = Smaller(n, Len(s))
           /\ Run(Prefix(s, n), from)
<1> DEFINE m == Smaller(n, Len(s))
           p == Prefix(s, n)
<1>1. m \in 0 .. Len(s) /\ Len(s) \in Nat
  BY DEF Smaller
<1>2. p = SubSeq(s, 1, m)
  BY DEF Prefix
<1> HIDE DEF m, p
<1>3. p \in Seq(Nat) /\ Len(p) = m /\ \A i \in 1 .. m : p[i] = s[i]
  BY <1>1, <1>2, SubSeqProperties
<1>4. ASSUME NEW i \in DOMAIN p
      PROVE  p[i] = from + i
  <2>1. i \in DOMAIN s /\ p[i] = s[i]
    BY <1>1, <1>3
  <2> QED BY <2>1 DEF Run
<1>5. Run(p, from)
  BY <1>4 DEF Run
<1> QED BY <1>3, <1>5 DEF p, m

LEMMA RunSuffix ==
    ASSUME NEW s \in Seq(Nat), NEW from \in Int, Run(s, from), NEW n \in 0 .. Len(s)
    PROVE  /\ Suffix(s, n) \in Seq(Nat) /\ Len(Suffix(s, n)) = Len(s) - n
           /\ Run(Suffix(s, n), from + n)
<1> DEFINE r == Suffix(s, n)
<1>1. Len(s) \in Nat /\ n \in Nat /\ n + 1 \in 1 .. Len(s) + 1
  OBVIOUS
<1>2. r = SubSeq(s, n + 1, Len(s))
  BY DEF Suffix
<1> HIDE DEF r
<1>3. /\ r \in Seq(Nat) /\ Len(r) = Len(s) - n
      /\ \A i \in 1 .. Len(s) - n : r[i] = s[n + i]
  <2>1. CASE n < Len(s)
    BY <1>1, <1>2, <2>1, SubSeqProperties
  <2>2. CASE n = Len(s)
    <3>1. r = <<>>
      BY <1>1, <1>2, <2>2, SubSeqEmpty
    <3> QED BY <1>1, <2>2, <3>1
  <2> QED BY <1>1, <2>1, <2>2
<1>4. ASSUME NEW i \in DOMAIN r
      PROVE  r[i] = from + n + i
  <2>1. n + i \in DOMAIN s /\ r[i] = s[n + i] /\ i \in Nat
    <3>1. DOMAIN r = 1 .. Len(r) /\ Len(r) = Len(s) - n
      BY <1>3
    <3>2. i \in 1 .. Len(s) - n
      BY <3>1
    <3>3. n + i \in 1 .. Len(s) /\ i \in Nat
      BY <1>1, <3>2
    <3>4. r[i] = s[n + i]
      BY <1>3, <3>2, Zenon
    <3>5. DOMAIN s = 1 .. Len(s)
      OBVIOUS
    <3> QED BY <3>3, <3>4, <3>5
  <2>2. s[n + i] = from + (n + i)
    BY <2>1 DEF Run
  <2> QED BY <1>1, <2>1, <2>2
<1>5. Run(r, from + n)
  BY <1>4 DEF Run
<1> QED BY <1>3, <1>5 DEF r

LEMMA RunConcat ==
    ASSUME NEW s \in Seq(Nat), NEW t \in Seq(Nat), NEW from \in Int,
           Run(s, from), Run(t, from + Len(s))
    PROVE  s \o t \in Seq(Nat) /\ Len(s \o t) = Len(s) + Len(t) /\ Run(s \o t, from)
<1> DEFINE u == s \o t
<1>1. /\ u \in Seq(Nat) /\ Len(u) = Len(s) + Len(t) /\ Len(s) \in Nat /\ Len(t) \in Nat
      /\ \A i \in 1 .. Len(s) + Len(t) : u[i] = IF i <= Len(s) THEN s[i] ELSE t[i - Len(s)]
  BY ConcatProperties
<1> HIDE DEF u
<1>2. ASSUME NEW i \in DOMAIN u
      PROVE  u[i] = from + i
  <2>1. i \in 1 .. Len(s) + Len(t) /\ i \in Nat
    BY <1>1
  <2>2. CASE i <= Len(s)
    <3>1. i \in DOMAIN s /\ u[i] = s[i]
      BY <1>1, <2>1, <2>2
    <3> QED BY <3>1 DEF Run
  <2>3. CASE i > Len(s)
    <3>1. i - Len(s) \in DOMAIN t /\ u[i] = t[i - Len(s)]
      BY <1>1, <2>1, <2>3
    <3>2. t[i - Len(s)] = from + Len(s) + (i - Len(s))
      BY <3>1 DEF Run
    <3> QED BY <1>1, <2>1, <3>1, <3>2
  <2> QED BY <1>1, <2>1, <2>2, <2>3
<1>3. Run(u, from)
  BY <1>2 DEF Run
<1> QED BY <1>1, <1>3 DEF u

LEMMA EmptyRun ==
    ASSUME NEW from
    PROVE  <<>> \in Seq(Nat) /\ Len(<<>>) = 0 /\ Run(<<>>, from)
BY DEF Run

-----------------------------------------------------------------------------
(***************************************************************************)
(* The service.                                                            *)
(***************************************************************************)
LEMMA TakeInputStep ==
    ASSUME ConsoleInvariant, TakeInput
    PROVE  ConsoleInvariant'
<1> DEFINE capacity == Smaller(RX_CAPACITY - Len(rx), Chunk)
           from == in - Len(usb_rx)
<1>1. /\ usb_rx \in Seq(Nat) /\ Len(usb_rx) \in Nat /\ Len(rx) \in Nat /\ in \in Nat
      /\ buffer = <<>> /\ Len(buffer) = 0
  BY DEF ConsoleInvariant, ConsoleTypes, InputRuns, TakeInput
<1>2. /\ pc = "idle" /\ pc' = "deliver"
      /\ buffer' = Prefix(usb_rx, capacity) /\ usb_rx' = Suffix(usb_rx, Len(buffer'))
      /\ UNCHANGED <<rx, tx, overrun, ier, usb_tx, accepted, in, out, read>>
  BY DEF TakeInput, uartVars, boundVars
<1>3. Len(rx) <= RX_CAPACITY /\ RX_CAPACITY \in Nat /\ Chunk \in Nat
  BY <1>1, ConsoleAssumption DEF ConsoleInvariant, InputRuns
<1>4. capacity \in Nat /\ capacity <= RX_CAPACITY - Len(rx) /\ capacity <= Chunk
  BY <1>1, <1>3 DEF Smaller
<1> HIDE DEF capacity
<1>5. Run(usb_rx, from) /\ from \in Int
  BY <1>1 DEF ConsoleInvariant, InputRuns
<1>6. /\ buffer' \in Seq(Nat) /\ Len(buffer') = Smaller(capacity, Len(usb_rx))
      /\ Run(buffer', from)
  BY <1>1, <1>2, <1>4, <1>5, RunPrefix
<1>7. Len(buffer') \in 0 .. Len(usb_rx) /\ Len(buffer') <= capacity
  BY <1>1, <1>4, <1>6 DEF Smaller
<1>8. /\ usb_rx' \in Seq(Nat) /\ Len(usb_rx') = Len(usb_rx) - Len(buffer')
      /\ Run(usb_rx', from + Len(buffer'))
  BY <1>1, <1>2, <1>5, <1>7, RunSuffix
<1>9. ConsoleTypes'
  BY <1>2, <1>6, <1>8 DEF ConsoleInvariant, ConsoleTypes
<1>10. InputRuns'
  <2> DEFINE b == Len(buffer')
             u == Len(usb_rx')
             base == in - Len(usb_rx) - Len(buffer) - Len(rx)
  <2>1. b \in Nat /\ u \in Nat /\ u = Len(usb_rx) - b
    BY <1>1, <1>7, <1>8
  <2>2. Run(rx, base)
    BY DEF ConsoleInvariant, InputRuns
  <2> HIDE DEF b, u
  <2>3. in - u = from + b /\ in - u - b = from /\ in - u - b - Len(rx) = base
    BY <1>1, <2>1
  <2>4. Run(usb_rx', in - u) /\ Run(buffer', in - u - b) /\ Run(rx, in - u - b - Len(rx))
    BY <1>6, <1>8, <2>2, <2>3 DEF b
  <2>5. b + Len(rx) <= RX_CAPACITY /\ b <= Chunk
    BY <1>1, <1>3, <1>4, <1>7, <2>1 DEF b
  <2> QED BY <1>2, <2>4, <2>5 DEF ConsoleInvariant, InputRuns, b, u
<1>11. OutputRuns'
  BY <1>2 DEF ConsoleInvariant, OutputRuns
<1> QED BY <1>9, <1>10, <1>11 DEF ConsoleInvariant

\* The capacity is still there: nothing of the buffer is left out.
LEMMA DeliverInputStep ==
    ASSUME ConsoleInvariant, DeliverInput
    PROVE  ConsoleInvariant'
<1> DEFINE count == Smaller(Len(buffer), RX_CAPACITY - Len(rx))
           from == in - Len(usb_rx) - Len(buffer) - Len(rx)
<1>1. /\ rx \in Seq(Nat) /\ buffer \in Seq(Nat) /\ usb_rx \in Seq(Nat) /\ in \in Nat
      /\ Len(rx) \in Nat /\ Len(buffer) \in Nat /\ Len(usb_rx) \in Nat
      /\ RX_CAPACITY \in Nat /\ Len(buffer) + Len(rx) <= RX_CAPACITY
  BY ConsoleAssumption DEF ConsoleInvariant, ConsoleTypes, InputRuns
<1>2. count = Len(buffer)
  <2> DEFINE b == Len(buffer)
             r == Len(rx)
  <2>1. b \in Nat /\ r \in Nat /\ RX_CAPACITY \in Nat /\ b + r <= RX_CAPACITY
    BY <1>1
  <2> HIDE DEF b, r
  <2>2. Smaller(b, RX_CAPACITY - r) = b
    BY <2>1 DEF Smaller
  <2> QED BY <2>2 DEF b, r
<1>3. Prefix(buffer, count) = buffer
  <2>1. Prefix(buffer, count) = SubSeq(buffer, 1, Len(buffer))
    BY <1>1, <1>2 DEF Prefix, Smaller
  <2>2. SubSeq(buffer, 1, Len(buffer)) = buffer
    BY <1>1
  <2> QED BY <2>1, <2>2
<1>4. /\ pc = "deliver" /\ pc' = "send" /\ rx' = rx \o buffer /\ buffer' = <<>>
      /\ overrun' = (overrun \/ FALSE)
      /\ UNCHANGED <<tx, ier, usb_rx, usb_tx, accepted, in, out, read>>
  BY <1>2, <1>3 DEF DeliverInput, usbVars, boundVars
<1>5. Run(rx, from) /\ Run(buffer, from + Len(rx)) /\ from \in Int
  <2>1. from + Len(rx) = in - Len(usb_rx) - Len(buffer)
    BY <1>1
  <2> QED BY <1>1, <2>1 DEF ConsoleInvariant, InputRuns
<1>6. rx' \in Seq(Nat) /\ Len(rx') = Len(rx) + Len(buffer) /\ Run(rx', from)
  BY <1>1, <1>4, <1>5, RunConcat
<1>7. <<>> \in Seq(Nat) /\ Len(<<>>) = 0 /\ \A n : Run(<<>>, n)
  BY EmptyRun
<1>8. ConsoleTypes'
  BY <1>4, <1>6, <1>7 DEF ConsoleInvariant, ConsoleTypes
<1>9. InputRuns'
  <2>1. in - Len(usb_rx) - 0 - Len(rx') = from
    BY <1>1, <1>6
  <2>2. Len(buffer') = 0 /\ Len(usb_rx') = Len(usb_rx) /\ in' = in
    BY <1>4, <1>7
  <2>3. Run(rx', in' - Len(usb_rx') - Len(buffer') - Len(rx'))
    BY <1>6, <2>1, <2>2
  <2>4. Len(buffer') + Len(rx') <= RX_CAPACITY /\ Len(buffer') <= Chunk
    BY <1>1, <1>6, <2>2, ConsoleAssumption
  <2>5. overrun' = FALSE
    BY <1>4 DEF ConsoleInvariant, InputRuns
  <2>6. Run(usb_rx', in' - Len(usb_rx'))
    BY <1>4 DEF ConsoleInvariant, InputRuns
  <2>7. Run(buffer', in' - Len(usb_rx') - Len(buffer')) /\ buffer' = <<>>
    BY <1>4, <1>7
  <2> QED BY <2>3, <2>4, <2>5, <2>6, <2>7 DEF InputRuns
<1>10. OutputRuns'
  BY <1>4 DEF ConsoleInvariant, OutputRuns
<1> QED BY <1>8, <1>9, <1>10 DEF ConsoleInvariant

LEMMA SendOutputStep ==
    ASSUME ConsoleInvariant, SendOutput
    PROVE  ConsoleInvariant'
<1>1. /\ pc = "send" /\ pc' = "consume"
      /\ UNCHANGED <<rx, tx, overrun, ier, usb_rx, buffer, in, out, read>>
  BY DEF SendOutput, uartVars, boundVars
<1>2. /\ tx \in Seq(Nat) /\ Len(tx) \in Nat /\ Chunk \in Nat /\ out \in Nat /\ read \in Nat
      /\ accepted = 0 /\ Run(tx, out - Len(tx)) /\ out - Len(tx) \in Int
  BY <1>1, ConsoleAssumption DEF ConsoleInvariant, ConsoleTypes, OutputRuns
<1>3. InputRuns'
  BY <1>1 DEF ConsoleInvariant, InputRuns
<1>4. CASE dtr /\ usb_tx = <<>>
  <2>1. usb_tx' = Prefix(tx, Chunk) /\ accepted' = Len(usb_tx')
    BY <1>4 DEF SendOutput
  <2>2. /\ usb_tx' \in Seq(Nat) /\ Len(usb_tx') = Smaller(Chunk, Len(tx))
        /\ Run(usb_tx', out - Len(tx))
    BY <1>2, <2>1, RunPrefix
  <2>3. Len(usb_tx') \in Nat /\ Len(usb_tx') <= Len(tx) /\ Len(usb_tx') <= Chunk
    BY <1>2, <2>2 DEF Smaller
  <2>4. out - Len(tx) = read
    <3>1. Len(usb_tx) = 0
      BY <1>4
    <3>2. read + Len(usb_tx) + Len(tx) - accepted = out
      BY DEF ConsoleInvariant, OutputRuns
    <3> QED BY <1>2, <3>1, <3>2
  <2>5. ConsoleTypes'
    BY <1>1, <2>1, <2>2, <2>3 DEF ConsoleInvariant, ConsoleTypes
  <2>6. read + Len(usb_tx') + Len(tx) - accepted' = out
    BY <1>2, <2>1, <2>3, <2>4
  <2>7. OutputRuns'
    BY <1>1, <2>1, <2>2, <2>3, <2>4, <2>6 DEF ConsoleInvariant, OutputRuns
  <2> QED BY <1>3, <2>5, <2>7 DEF ConsoleInvariant
<1>5. CASE ~(dtr /\ usb_tx = <<>>)
  <2>1. usb_tx' = usb_tx /\ accepted' = accepted
    BY <1>2, <1>5 DEF SendOutput
  <2>2. ConsoleTypes'
    BY <1>1, <2>1 DEF ConsoleInvariant, ConsoleTypes
  <2>3. OutputRuns'
    BY <1>1, <2>1 DEF ConsoleInvariant, OutputRuns
  <2> QED BY <1>3, <2>2, <2>3 DEF ConsoleInvariant
<1> QED BY <1>4, <1>5

\* What is consumed is what was sent: nothing else takes bytes from tx.
LEMMA ConsumeOutputStep ==
    ASSUME ConsoleInvariant, ConsumeOutput
    PROVE  ConsoleInvariant'
<1>1. /\ pc = "consume" /\ pc' = "line" /\ accepted' = 0
      /\ UNCHANGED <<rx, overrun, ier, usb_rx, usb_tx, buffer, in, out, read>>
  BY DEF ConsumeOutput, usbVars, boundVars
<1>2. /\ tx \in Seq(Nat) /\ Len(tx) \in Nat /\ out \in Nat /\ read \in Nat
      /\ Len(usb_tx) \in Nat /\ Run(tx, out - Len(tx)) /\ out - Len(tx) \in Int
      /\ accepted \in 0 .. Len(tx) /\ accepted \in Nat
      /\ read + Len(usb_tx) + Len(tx) - accepted = out
      /\ Len(tx) <= TX_CAPACITY /\ TX_CAPACITY \in Nat
  BY ConsoleAssumption DEF ConsoleInvariant, ConsoleTypes, OutputRuns
<1>3. tx' = Suffix(tx, accepted)
  BY <1>2 DEF ConsumeOutput, Smaller
<1>4. tx' \in Seq(Nat) /\ Len(tx') = Len(tx) - accepted /\ Run(tx', out - Len(tx) + accepted)
  BY <1>2, <1>3, RunSuffix
<1>5. ConsoleTypes'
  BY <1>1, <1>4 DEF ConsoleInvariant, ConsoleTypes
<1>6. InputRuns'
  BY <1>1 DEF ConsoleInvariant, InputRuns
<1>7. OutputRuns'
  <2>1. /\ out - Len(tx) + accepted = out - Len(tx') /\ Len(tx') \in Nat
        /\ read + Len(usb_tx) + Len(tx') - 0 = out /\ Len(tx') <= TX_CAPACITY
    BY <1>2, <1>4
  <2>2. Run(tx', out - Len(tx'))
    BY <1>4, <2>1
  <2>3. 0 <= Len(tx') /\ 0 <= Chunk
    BY <2>1, ConsoleAssumption
  <2> QED BY <1>1, <2>1, <2>2, <2>3 DEF ConsoleInvariant, OutputRuns
<1> QED BY <1>5, <1>6, <1>7 DEF ConsoleInvariant

\* Steps that move no byte.
LEMMA NoByteMoves ==
    ASSUME ConsoleInvariant, ier' \subseteq {"RDA", "RLS"},
           overrun' = overrun \/ overrun' = FALSE, pc' = pc \/ (pc = "line" /\ pc' = "idle"),
           UNCHANGED <<rx, tx, buffer, usb_rx, usb_tx, in, out, read, accepted>>
    PROVE  ConsoleInvariant'
<1>1. ConsoleTypes'
  BY DEF ConsoleInvariant, ConsoleTypes
<1>2. InputRuns'
  BY DEF ConsoleInvariant, InputRuns
<1>3. OutputRuns'
  BY DEF ConsoleInvariant, OutputRuns
<1> QED BY <1>1, <1>2, <1>3 DEF ConsoleInvariant

-----------------------------------------------------------------------------
(***************************************************************************)
(* The guest and the host.                                                 *)
(***************************************************************************)
\* The guest takes bytes from the front of the receive queue.
LEMMA RxShrinks ==
    ASSUME ConsoleInvariant, NEW n \in 0 .. Len(rx), rx' = Suffix(rx, n), overrun' = FALSE,
           UNCHANGED <<tx, ier, pc, buffer, usb_rx, usb_tx, in, out, read, accepted>>
    PROVE  ConsoleInvariant'
<1> DEFINE b == Len(buffer)
           u == Len(usb_rx)
           r == Len(rx)
           q == Len(rx')
<1>1. /\ rx \in Seq(Nat) /\ b \in Nat /\ u \in Nat /\ r \in Nat /\ in \in Nat
      /\ RX_CAPACITY \in Nat /\ b + r <= RX_CAPACITY /\ n \in Nat /\ n \in 0 .. r
  BY ConsoleAssumption DEF ConsoleInvariant, ConsoleTypes, InputRuns
<1>2. Run(rx, in - u - b - r)
  BY DEF ConsoleInvariant, InputRuns
<1>3. rx' \in Seq(Nat) /\ q = r - n /\ Run(rx', in - u - b - r + n)
  <2>1. in - u - b - r \in Int
    BY <1>1
  <2> QED BY <1>1, <1>2, <2>1, RunSuffix
<1> HIDE DEF b, u, r, q
<1>4. in - u - b - r + n = in - u - b - q /\ b + q <= RX_CAPACITY
  BY <1>1, <1>3
<1>5. Run(rx', in - u - b - q)
  BY <1>3, <1>4
<1>6. ConsoleTypes'
  BY <1>3 DEF ConsoleInvariant, ConsoleTypes
<1>7. InputRuns'
  BY <1>4, <1>5 DEF ConsoleInvariant, InputRuns, b, u, q
<1>8. OutputRuns'
  BY DEF ConsoleInvariant, OutputRuns
<1> QED BY <1>6, <1>7, <1>8 DEF ConsoleInvariant

LEMMA ReadRbrStep ==
    ASSUME ConsoleInvariant, ReadRbr
    PROVE  ConsoleInvariant'
<1>1. UNCHANGED <<tx, ier, pc, buffer, usb_rx, usb_tx, in, out, read, accepted>>
  BY DEF ReadRbr, Trap, usbVars, stepVars, boundVars
<1>2. overrun' = overrun /\ overrun = FALSE /\ rx \in Seq(Nat) /\ ier \subseteq {"RDA", "RLS"}
  BY DEF ReadRbr, ConsoleInvariant, ConsoleTypes, InputRuns
<1>3. CASE dlab \/ rx = <<>>
  <2>1. rx' = rx
    BY <1>3 DEF ReadRbr
  <2> QED BY <1>1, <1>2, <2>1, NoByteMoves
<1>4. CASE ~dlab /\ rx # <<>>
  <2>1. rx' = Tail(rx)
    BY <1>4 DEF ReadRbr
  <2>2. Tail(rx) = SubSeq(rx, 2, Len(rx))
    BY <1>2, <1>4, TailIsSubSeq
  <2>3. 1 \in 0 .. Len(rx) /\ 1 + 1 = 2
    BY <1>2, <1>4
  <2>4. rx' = Suffix(rx, 1)
    BY <2>1, <2>2, <2>3 DEF Suffix
  <2> QED BY <1>1, <1>2, <2>3, <2>4, RxShrinks
<1> QED BY <1>3, <1>4

LEMMA ClearFifoStep ==
    ASSUME ConsoleInvariant, ClearFifo
    PROVE  ConsoleInvariant'
<1>1. /\ rx' = <<>> /\ overrun' = FALSE
      /\ UNCHANGED <<tx, ier, pc, buffer, usb_rx, usb_tx, in, out, read, accepted>>
  BY DEF ClearFifo, Trap, usbVars, stepVars, boundVars
<1>2. rx \in Seq(Nat) /\ Len(rx) \in Nat
  BY DEF ConsoleInvariant, ConsoleTypes
<1>3. Suffix(rx, Len(rx)) = <<>>
  BY <1>2, SubSeqEmpty DEF Suffix
<1>4. Len(rx) \in 0 .. Len(rx)
  BY <1>2
<1>5. rx' = Suffix(rx, Len(rx))
  BY <1>1, <1>3
<1> QED BY <1>1, <1>4, <1>5, RxShrinks

LEMMA WriteThrStep ==
    ASSUME ConsoleInvariant, WriteThr
    PROVE  ConsoleInvariant'
<1>1. UNCHANGED <<rx, overrun, ier, pc, buffer, usb_rx, usb_tx, in, read, accepted>>
  BY DEF WriteThr, Trap, usbVars, stepVars
<1>2. CASE dlab \/ Len(tx) = TX_CAPACITY
  <2>1. UNCHANGED <<tx, out>> /\ ier' \subseteq {"RDA", "RLS"}
    BY <1>1, <1>2 DEF WriteThr, ConsoleInvariant, ConsoleTypes
  <2> QED BY <1>1, <2>1, NoByteMoves
<1>3. CASE ~(dlab \/ Len(tx) = TX_CAPACITY)
  <2> DEFINE t == Len(tx)
             a == Len(usb_tx)
  <2>1. out' = out + 1 /\ tx' = Append(tx, out + 1) /\ t # TX_CAPACITY
    BY <1>3 DEF WriteThr
  <2>2. /\ tx \in Seq(Nat) /\ t \in Nat /\ a \in Nat /\ out \in Nat /\ read \in Nat
        /\ accepted \in Nat /\ t <= TX_CAPACITY /\ TX_CAPACITY \in Nat
        /\ accepted <= t /\ read + a + t - accepted = out /\ Run(tx, out - t)
    BY ConsoleAssumption DEF ConsoleInvariant, ConsoleTypes, OutputRuns
  <2>3. /\ tx' \in Seq(Nat) /\ Len(tx') = t + 1 /\ tx'[t + 1] = out + 1
        /\ \A n \in 1 .. t : tx'[n] = tx[n]
    BY <2>1, <2>2, AppendProperties
  <2>4. DOMAIN tx = 1 .. t /\ DOMAIN tx' = 1 .. t + 1
    BY <2>2, <2>3
  <2> HIDE DEF t, a
  <2>5. ASSUME NEW n \in DOMAIN tx'
        PROVE  tx'[n] = out - t + n
    <3>1. CASE n \in 1 .. t
      BY <2>2, <2>3, <2>4, <3>1 DEF Run
    <3>2. CASE n = t + 1
      BY <2>2, <2>3, <3>2
    <3> QED BY <2>2, <2>4, <3>1, <3>2
  <2>6. Run(tx', out - t)
    BY <2>5 DEF Run
  <2>7. /\ out' - Len(tx') = out - t /\ read + a + Len(tx') - accepted = out'
        /\ accepted <= Len(tx') /\ Len(tx') <= TX_CAPACITY /\ out' \in Nat
    <3> DEFINE z == Len(tx')
    <3>1. z = t + 1
      BY <2>3
    <3> HIDE DEF z
    <3>2. out' - z = out - t /\ read + a + z - accepted = out'
      BY <2>1, <2>2, <3>1
    <3>3. accepted <= z /\ z <= TX_CAPACITY /\ out' \in Nat
      BY <2>1, <2>2, <3>1
    <3> QED BY <3>2, <3>3 DEF z
  <2>8. ConsoleTypes'
    BY <1>1, <2>3, <2>7 DEF ConsoleInvariant, ConsoleTypes
  <2>9. InputRuns'
    BY <1>1 DEF ConsoleInvariant, InputRuns
  <2>10. OutputRuns'
    <3>1. Run(tx', out' - Len(tx'))
      BY <2>6, <2>7
    <3> QED BY <1>1, <2>7, <3>1 DEF ConsoleInvariant, OutputRuns, a
  <2> QED BY <2>8, <2>9, <2>10 DEF ConsoleInvariant
<1> QED BY <1>2, <1>3

LEMMA HostTypesStep ==
    ASSUME ConsoleInvariant, NEW count \in 1 .. Chunk, HostTypes(count)
    PROVE  ConsoleInvariant'
<1> DEFINE r == Len(rx)
<1>1. /\ pc = "idle" /\ usb_rx = <<>> /\ usb_rx' = [n \in 1 .. count |-> in + n]
      /\ in' = in + count
      /\ UNCHANGED <<rx, tx, overrun, ier, pc, buffer, usb_tx, out, read, accepted>>
  BY DEF HostTypes, uartVars, stepVars
<1>2. in \in Nat /\ count \in Nat /\ r \in Nat
  BY ConsoleAssumption DEF ConsoleInvariant, ConsoleTypes
<1>3. /\ usb_rx' \in Seq(Nat) /\ Len(usb_rx') = count /\ DOMAIN usb_rx' = 1 .. count
      /\ \A n \in 1 .. count : usb_rx'[n] = in + n
  <2>1. \A n \in 1 .. count : in + n \in Nat
    BY <1>2
  <2> QED BY <1>1, <1>2, <2>1
<1>4. Run(usb_rx', in)
  BY <1>3 DEF Run
<1>5. Len(usb_rx) = 0 /\ buffer = <<>> /\ Len(buffer) = 0 /\ Run(rx, in - 0 - 0 - r)
  BY <1>1 DEF ConsoleInvariant, InputRuns
<1> HIDE DEF r
<1>6. in' - count = in /\ in' - count - 0 - r = in - 0 - 0 - r /\ in' \in Nat
  BY <1>1, <1>2
<1>7. ConsoleTypes'
  BY <1>1, <1>3, <1>6 DEF ConsoleInvariant, ConsoleTypes
<1>8. InputRuns'
  <2>1. Run(usb_rx', in' - Len(usb_rx'))
    BY <1>3, <1>4, <1>6
  <2>2. Run(rx', in' - Len(usb_rx') - Len(buffer') - Len(rx'))
    BY <1>1, <1>3, <1>5, <1>6 DEF r
  <2>3. Run(buffer', in' - Len(usb_rx') - Len(buffer'))
    BY <1>1, <1>5, EmptyRun
  <2> QED BY <1>1, <2>1, <2>2, <2>3 DEF ConsoleInvariant, InputRuns
<1>9. OutputRuns'
  BY <1>1 DEF ConsoleInvariant, OutputRuns
<1> QED BY <1>7, <1>8, <1>9 DEF ConsoleInvariant

LEMMA HostReadsStep ==
    ASSUME ConsoleInvariant, HostReads
    PROVE  ConsoleInvariant'
<1> DEFINE a == Len(usb_tx)
<1>1. /\ pc = "idle" /\ usb_tx # <<>> /\ read' = usb_tx[a] /\ usb_tx' = <<>>
      /\ UNCHANGED <<rx, tx, overrun, ier, pc, buffer, usb_rx, in, out, accepted>>
  BY DEF HostReads, uartVars, stepVars
<1>2. /\ usb_tx \in Seq(Nat) /\ a \in Nat /\ a \in DOMAIN usb_tx /\ read \in Nat
      /\ Run(usb_tx, read) /\ Len(tx) \in Nat /\ accepted \in Nat /\ out \in Nat
      /\ read + a + Len(tx) - accepted = out
  BY <1>1 DEF ConsoleInvariant, ConsoleTypes, OutputRuns
<1> HIDE DEF a
<1>3. read' = read + a /\ read' \in Nat
  BY <1>1, <1>2 DEF Run
<1>4. usb_tx' \in Seq(Nat) /\ Len(usb_tx') = 0 /\ Run(usb_tx', read')
  BY <1>1, EmptyRun
<1>5. read' + Len(usb_tx') + Len(tx) - accepted = out
  BY <1>2, <1>3, <1>4
<1>6. ConsoleTypes'
  BY <1>1, <1>3, <1>4 DEF ConsoleInvariant, ConsoleTypes
<1>7. InputRuns'
  BY <1>1 DEF ConsoleInvariant, InputRuns
<1>8. OutputRuns'
  BY <1>1, <1>4, <1>5 DEF ConsoleInvariant, OutputRuns
<1> QED BY <1>6, <1>7, <1>8 DEF ConsoleInvariant

-----------------------------------------------------------------------------
LEMMA ConsoleStarts == ConsoleInit => ConsoleInvariant
<1> SUFFICES ASSUME ConsoleInit
             PROVE  ConsoleInvariant
  OBVIOUS
<1>1. <<>> \in Seq(Nat) /\ Len(<<>>) = 0 /\ \A n : Run(<<>>, n)
  BY EmptyRun
<1>2. 0 <= RX_CAPACITY /\ 0 <= TX_CAPACITY /\ 0 <= Chunk
  BY ConsoleAssumption
<1>3. ConsoleTypes
  BY <1>1 DEF ConsoleInit, ConsoleTypes
<1>4. InputRuns
  BY <1>1, <1>2 DEF ConsoleInit, InputRuns
<1>5. OutputRuns
  BY <1>1, <1>2 DEF ConsoleInit, OutputRuns
<1> QED BY <1>3, <1>4, <1>5 DEF ConsoleInvariant

LEMMA ConsoleSteps == ConsoleInvariant /\ [ConsoleNext]_consoleVars => ConsoleInvariant'
<1> SUFFICES ASSUME ConsoleInvariant, [ConsoleNext]_consoleVars
             PROVE  ConsoleInvariant'
  OBVIOUS
<1>1. ier \subseteq {"RDA", "RLS"}
  BY DEF ConsoleInvariant, ConsoleTypes
<1>0. ASSUME UNCHANGED <<ier, overrun, rx, tx, buffer, usb_rx, usb_tx, in, out, read, accepted>>,
             pc' = pc \/ (pc = "line" /\ pc' = "idle")
      PROVE  ConsoleInvariant'
  <2>1. ier' \subseteq {"RDA", "RLS"} /\ overrun' = overrun
    BY <1>1, <1>0
  <2>2. UNCHANGED <<rx, tx, buffer, usb_rx, usb_tx, in, out, read, accepted>>
    BY <1>0
  <2> QED BY <1>0, <2>1, <2>2, NoByteMoves
<1> USE DEF uartVars, usbVars, stepVars, lineVars, boundVars
<1>2. CASE Service
  <2>1. CASE ReadLine
    BY <1>0, <2>1 DEF ReadLine
  <2> QED BY <1>2, <2>1, TakeInputStep, DeliverInputStep, SendOutputStep, ConsumeOutputStep
          DEF Service
<1>3. CASE pend_console_interrupt
  BY <1>0, <1>3 DEF pend_console_interrupt
<1>4. CASE Access
  <2>1. CASE ReadLsr
    BY <1>1, <2>1, NoByteMoves DEF ReadLsr, Trap
  <2>2. CASE WriteLcr
    BY <1>0, <2>2 DEF WriteLcr, Trap
  <2>3. ASSUME NEW value \in SUBSET {"RDA", "RLS"}, WriteIer(value)
        PROVE  ConsoleInvariant'
    <3>1. ier' \subseteq {"RDA", "RLS"}
      BY <1>1, <2>3 DEF WriteIer
    <3>2. /\ UNCHANGED <<rx, tx, buffer, usb_rx, usb_tx, in, out, read, accepted>>
          /\ overrun' = overrun /\ pc' = pc
      BY <2>3 DEF WriteIer, Trap
    <3> QED BY <3>1, <3>2, NoByteMoves
  <2> QED BY <1>4, <2>1, <2>2, <2>3, ReadRbrStep, WriteThrStep, ClearFifoStep DEF Access
<1>5. CASE HandleInterrupt
  BY <1>0, <1>5 DEF HandleInterrupt
<1>6. CASE Host
  <2>1. CASE SetControlLineState
    BY <1>0, <2>1 DEF SetControlLineState
  <2> QED BY <1>6, <2>1, HostTypesStep, HostReadsStep DEF Host
<1>7. CASE UNCHANGED consoleVars
  BY <1>0, <1>7 DEF consoleVars
<1> QED BY <1>2, <1>3, <1>4, <1>5, <1>6, <1>7 DEF ConsoleNext

LEMMA RunIsConsecutive ==
    ASSUME NEW s \in Seq(Nat), NEW from \in Int, NEW to \in Int,
           Run(s, from), Len(s) = to - from
    PROVE  Consecutive(s, from, to)
BY DEF Run, Consecutive

LEMMA ConsoleInvariantSuffices == ConsoleInvariant => BytesAreKept
<1> SUFFICES ASSUME ConsoleInvariant
             PROVE  BytesAreKept
  OBVIOUS
<1> DEFINE b == Len(buffer)
           u == Len(usb_rx)
           r == Len(rx)
           t == Len(tx)
           a == Len(usb_tx)
<1>1. /\ b \in Nat /\ u \in Nat /\ r \in Nat /\ t \in Nat /\ a \in Nat
      /\ in \in Nat /\ out \in Nat /\ read \in Nat /\ accepted \in Nat
      /\ RX_CAPACITY \in Nat /\ TX_CAPACITY \in Nat /\ Chunk \in Nat
      /\ rx \in Seq(Nat) /\ buffer \in Seq(Nat) /\ usb_rx \in Seq(Nat)
      /\ tx \in Seq(Nat) /\ usb_tx \in Seq(Nat)
  BY ConsoleAssumption DEF ConsoleInvariant, ConsoleTypes
<1>2. /\ b + r <= RX_CAPACITY /\ b <= Chunk
      /\ Run(rx, in - u - b - r) /\ Run(buffer, in - u - b) /\ Run(usb_rx, in - u)
  BY DEF ConsoleInvariant, InputRuns
<1>3. /\ accepted <= t /\ accepted <= Chunk /\ t <= TX_CAPACITY
      /\ Run(usb_tx, read) /\ Run(tx, out - t) /\ read + a + t - accepted = out
  BY DEF ConsoleInvariant, OutputRuns
<1>4. ConsoleTypeOK
  <2>1. r <= RX_CAPACITY /\ accepted \in 0 .. Chunk
    <3> HIDE DEF b, r
    <3> QED BY <1>1, <1>2, <1>3
  <2> QED BY <1>2, <1>3, <2>1 DEF ConsoleTypeOK, ConsoleInvariant, ConsoleTypes
<1>5. InputIsKept
  <2> DEFINE base == in - u - b - r
             front == rx \o buffer
             pending == front \o usb_rx
  <2>1. base \in Int /\ in - u - b = base + r /\ in - u = base + (r + b)
    <3> HIDE DEF b, r, u
    <3> QED BY <1>1
  <2>2. front \in Seq(Nat) /\ Len(front) = r + b /\ Run(front, base)
    BY <1>1, <1>2, <2>1, RunConcat
  <2> HIDE DEF front
  <2>3. pending \in Seq(Nat) /\ Len(pending) = r + b + u /\ Run(pending, base)
    <3> HIDE DEF b, r, u, base
    <3>1. Run(usb_rx, base + Len(front))
      BY <1>2, <2>1, <2>2
    <3>2. /\ front \o usb_rx \in Seq(Nat) /\ Run(front \o usb_rx, base)
          /\ Len(front \o usb_rx) = Len(front) + Len(usb_rx)
      BY <1>1, <2>1, <2>2, <3>1, RunConcat
    <3> QED BY <2>2, <3>2 DEF u
  <2> HIDE DEF pending
  <2>4. in - Len(pending) = base /\ Len(pending) = in - base
    <3> HIDE DEF b, r, u
    <3> QED BY <1>1, <2>3 DEF base
  <2>5. Consecutive(pending, base, in)
    <3> HIDE DEF b, r, u, base
    <3> QED BY <1>1, <2>1, <2>3, <2>4, RunIsConsecutive
  <2>6. b <= RX_CAPACITY - r
    <3> HIDE DEF b, r
    <3> QED BY <1>1, <1>2
  <2>7. ~overrun
    BY DEF ConsoleInvariant, InputRuns
  <2>8. Consecutive(pending, in - Len(pending), in)
    BY <2>4, <2>5
  <2> QED BY <2>6, <2>7, <2>8 DEF InputIsKept, pending, front
<1>6. OutputIsKept
  <2> DEFINE rest == Suffix(tx, accepted)
             sent == usb_tx \o rest
  <2>1. accepted \in 0 .. t /\ out - t \in Int
    <3> HIDE DEF t
    <3> QED BY <1>1, <1>3
  <2>2. rest \in Seq(Nat) /\ Len(rest) = t - accepted /\ Run(rest, out - t + accepted)
    BY <1>1, <1>3, <2>1, RunSuffix
  <2> HIDE DEF rest
  <2>3. out - t + accepted = read + a
    <3> HIDE DEF t, a
    <3> QED BY <1>1, <1>3
  <2>4. sent \in Seq(Nat) /\ Len(sent) = a + (t - accepted) /\ Run(sent, read)
    <3> HIDE DEF t, a
    <3>1. Run(rest, read + Len(usb_tx)) /\ read \in Int
      <4>1. Run(rest, read + a)
        BY <2>2, <2>3
      <4> QED BY <1>1, <4>1 DEF a
    <3>2. /\ usb_tx \o rest \in Seq(Nat) /\ Run(usb_tx \o rest, read)
          /\ Len(usb_tx \o rest) = Len(usb_tx) + Len(rest)
      BY <1>1, <1>3, <2>2, <3>1, RunConcat
    <3> QED BY <2>2, <3>2 DEF a
  <2> HIDE DEF sent
  <2>5. Len(sent) = out - read
    <3> HIDE DEF t, a
    <3> QED BY <1>1, <1>3, <2>4
  <2>6. Consecutive(sent, read, out)
    BY <1>1, <2>4, <2>5, RunIsConsecutive
  <2> QED BY <2>6 DEF OutputIsKept, sent, rest
<1> QED BY <1>4, <1>5, <1>6 DEF BytesAreKept

(***************************************************************************)
(* The console loses no byte (service_guest_console, usb.rs:258-284): the  *)
(* bytes of the host reach the guest's queue, and those of the guest the   *)
(* host, once and in order, wherever guest accesses come between the       *)
(* service's sections of the UART lock; what the service read of the       *)
(* queues in one section still holds in the next.  For every capacity of   *)
(* the queues and of the endpoints' buffers, and any number of bytes.      *)
(***************************************************************************)
THEOREM BytesAreAlwaysKept == ConsoleSpec => []BytesAreKept
<1>1. ConsoleSpec => []ConsoleInvariant
  BY ConsoleStarts, ConsoleSteps, PTL DEF ConsoleSpec
<1> QED BY <1>1, ConsoleInvariantSuffices, PTL
=============================================================================
