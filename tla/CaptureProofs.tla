--------------------------- MODULE CaptureProofs ---------------------------
(***************************************************************************)
(* Proofs about what the capture readers do: PcapNg, for any interfaces,    *)
(* byte orders and length of file, and Fragments, for any datagrams,        *)
(* overlaps, timeout and order of the fragments.                            *)
(***************************************************************************)
EXTENDS PcapNg, Fragments, NumberLemmas, SequenceTheorems, FiniteSetTheorems, TLAPS

-----------------------------------------------------------------------------
(* PCAPNG: the interface and the clock of every packet.                    *)
\* Whatever a packet is to the reader.
PacketSet == [number : Nat, timed : BOOLEAN, interface : Interfaces \cup {Default}]

\* The reader knows the section it is in; this is what makes the next packet
\* right, and PacketsOfTheirInterface does not say it.
PcapTypes ==
    /\ endian \in Orders /\ status \in {"reading", "ended", "failed"}
    /\ section \in [order : Orders, described : Seq(Interfaces)]
    /\ interfaces \in Seq(Interfaces)
    /\ number \in Nat
    /\ packets \in Seq(PacketSet) /\ written \in Seq(Interfaces)

InSection == status = "reading" => endian = section.order /\ interfaces = section.described

Numbered == number = Len(packets) /\ \A i \in DOMAIN packets : packets[i].number = i

Matched ==
    status # "failed" => /\ Len(packets) = Len(written)
                         /\ \A i \in 1..Len(packets) : packets[i].interface = written[i]

PcapInv == PcapTypes /\ InSection /\ Numbered /\ Matched

\* The reader starts at the head of a section.
LEMMA PcapInitInv == Init => PcapInv
  BY DEF Init, PcapInv, PcapTypes, InSection, Numbered, Matched

\* A packet of a described interface, read in its section.
LEMMA PacketStep ==
  ASSUME PcapInv, Block, NEW i \in DOMAIN section.described, NEW timed \in BOOLEAN,
         written' = Append(written, section.described[i]), PacketRead(i, timed),
         UNCHANGED section
  PROVE  PcapInv'
<1>1. /\ endian = section.order /\ interfaces = section.described /\ status = "reading"
      /\ i \in 1..Len(interfaces) /\ interfaces[i] \in Interfaces
  BY DEF PcapInv, InSection, PcapTypes, Block
<1>2. /\ Packet(i, timed) = [number |-> number + 1, timed |-> timed, interface |-> interfaces[i]]
      /\ Packet(i, timed) \in PacketSet
  BY <1>1 DEF Packet, PacketSet, PcapInv, PcapTypes
<1>3. /\ packets' = Append(packets, Packet(i, timed)) /\ number' = number + 1
      /\ status' = "reading" /\ UNCHANGED <<endian, interfaces, section>>
      /\ written' = Append(written, interfaces[i])
  BY <1>1 DEF PacketRead, Readable
<1>4. PcapTypes'
  BY <1>1, <1>2, <1>3 DEF PcapInv, PcapTypes
<1>5. InSection'
  BY <1>1, <1>3 DEF InSection
<1>6. Numbered'
  <2>1. Len(packets') = Len(packets) + 1 /\ DOMAIN packets' = 1..(Len(packets) + 1)
    BY <1>2, <1>3 DEF PcapInv, PcapTypes
  <2>2. \A k \in 1..Len(packets) : packets'[k] = packets[k]
    BY <1>2, <1>3 DEF PcapInv, PcapTypes
  <2>3. packets'[Len(packets) + 1].number = number + 1
    BY <1>2, <1>3 DEF PcapInv, PcapTypes
  <2> QED  BY <1>3, <2>1, <2>2, <2>3 DEF PcapInv, PcapTypes, Numbered
<1>7. Matched'
  <2>1. Len(packets) = Len(written) /\ \A k \in 1..Len(packets) : packets[k].interface = written[k]
    BY <1>1 DEF PcapInv, Matched
  <2>2. Len(packets') = Len(packets) + 1 /\ Len(written') = Len(written) + 1
    BY <1>1, <1>2, <1>3 DEF PcapInv, PcapTypes
  <2>3. \A k \in 1..Len(packets) : packets'[k] = packets[k] /\ written'[k] = written[k]
    BY <1>1, <1>2, <1>3, <2>1 DEF PcapInv, PcapTypes
  <2>4. packets'[Len(packets) + 1].interface = written'[Len(packets) + 1]
    BY <1>1, <1>2, <1>3, <2>1 DEF PcapInv, PcapTypes
  <2>5. Len(packets) \in Nat
    BY DEF PcapInv, PcapTypes
  <2>6. \A k \in 1..(Len(packets) + 1) : k \in 1..Len(packets) \/ k = Len(packets) + 1
    BY <2>5
  <2>7. \A k \in 1..(Len(packets) + 1) : packets'[k].interface = written'[k]
    BY <2>1, <2>3, <2>4, <2>6
  <2> QED  BY <2>1, <2>2, <2>7 DEF Matched
<1> QED  BY <1>4, <1>5, <1>6, <1>7 DEF PcapInv

\* Every block, and the end of the file, keep the invariant.
LEMMA PcapStepInv == PcapInv /\ [Next]_vars => PcapInv'
<1> SUFFICES ASSUME PcapInv, [Next]_vars  PROVE PcapInv'
  OBVIOUS
<1>1. CASE SectionHeader
  BY <1>1 DEF SectionHeader, SectionRead, Block, PcapInv, PcapTypes, InSection, Numbered, Matched
<1>2. CASE BadMagic
  BY <1>2 DEF BadMagic, Block, PcapInv, PcapTypes, InSection, Numbered, Matched
<1>3. CASE InterfaceDescription
  <2>1. PICK i \in Interfaces : /\ section' = [order |-> section.order, described |-> Append(section.described, i)]
                                /\ InterfaceRead(i)
    BY <1>3 DEF InterfaceDescription
  <2>2. endian = section.order /\ interfaces = section.described /\ status = "reading"
    BY <1>3 DEF InterfaceDescription, Block, PcapInv, InSection
  <2>3. interfaces' = Append(interfaces, i) /\ UNCHANGED <<status, endian, number, packets, written>>
    BY <1>3, <2>1, <2>2 DEF InterfaceDescription, InterfaceRead, Readable
  <2> QED  BY <2>1, <2>2, <2>3 DEF PcapInv, PcapTypes, InSection, Numbered, Matched
<1>4. CASE EnhancedPacket
  BY <1>4, PacketStep DEF EnhancedPacket
<1>5. CASE SimplePacket
  <2>1. 1 \in DOMAIN section.described
    BY <1>5 DEF SimplePacket, PcapInv, PcapTypes
  <2>2. PacketRead(1, FALSE)
    BY <1>5 DEF SimplePacket, SimpleRead
  <2> QED  BY <1>5, <2>1, <2>2, PacketStep DEF SimplePacket
<1>6. CASE Skipped
  BY <1>6 DEF Skipped, Block, Readable, PcapInv, PcapTypes, InSection, Numbered, Matched
<1>7. CASE LengthsDiffer
  BY <1>7 DEF LengthsDiffer, Block, PcapInv, PcapTypes, InSection, Numbered, Matched
<1>8. CASE EndOfFile
  BY <1>8 DEF EndOfFile, writer, PcapInv, PcapTypes, InSection, Numbered, Matched
<1>9. CASE UNCHANGED vars
  BY <1>9 DEF vars, writer, reader, PcapInv, PcapTypes, InSection, Numbered, Matched
<1> QED  BY <1>1, <1>2, <1>3, <1>4, <1>5, <1>6, <1>7, <1>8, <1>9 DEF Next

\* The inductive invariant of the PCAPNG reader holds for every file: it is in the
\* section, and has the interfaces, that the next packet was written in.
THEOREM PcapInvariance == Spec => []PcapInv
  BY PcapInitInv, PcapStepInv, PTL DEF Spec

\* The types, and the numbers of the packet list: consecutive over the sections.
THEOREM PcapTypeCorrect == Spec => []TypeOK
<1>1. PcapInv => TypeOK
  BY DEF PcapInv, PcapTypes, Numbered, TypeOK
<1> QED  BY <1>1, PcapInvariance, PTL

\* Whatever the sections of a file, their byte orders and interfaces, a packet
\* that is read was written, and is decoded as of its own interface.
THEOREM InterfacesAreTheirOwn == Spec => []PacketsOfTheirInterface
<1>1. PcapInv => PacketsOfTheirInterface
  BY DEF PcapInv, PcapTypes, Matched, PacketsOfTheirInterface
<1> QED  BY <1>1, PcapInvariance, PTL

-----------------------------------------------------------------------------
(* Reassembly of fragments.                                                *)
-----------------------------------------------------------------------------
(* Sequences without a type for their elements.                            *)

\* What Append adds to a function on 1..n.
LEMMA AppendTo ==
    ASSUME NEW n \in Nat, NEW f, f = [k \in 1..n |-> f[k]], NEW e
    PROVE  /\ Len(f) = n
           /\ Len(Append(f, e)) = n + 1
           /\ Append(f, e) = [k \in 1..(n + 1) |-> Append(f, e)[k]]
           /\ Append(f, e)[n + 1] = e
           /\ \A k \in 1..n : Append(f, e)[k] = f[k]
  <1> DEFINE S == {f[k] : k \in 1..n} \cup {e}
             g == Append(f, e)
  <1>1. f \in Seq(S) /\ Len(f) = n
    <2>1. f \in [1..n -> S]
      OBVIOUS
    <2>2. f \in Seq(S)
      BY <2>1
    <2>3. DOMAIN f = 1..n
      BY <2>1
    <2> HIDE DEF S
    <2> QED
      BY <2>2, <2>3, LenProperties
  <1>2. e \in S
    OBVIOUS
  <1> HIDE DEF S
  <1>3. g \in Seq(S) /\ Len(g) = n + 1 /\ g[n + 1] = e /\ \A k \in 1..n : g[k] = f[k]
    BY <1>1, <1>2, AppendProperties
  <1>4. g = [k \in 1..(n + 1) |-> g[k]]
    BY <1>3
  <1> QED
    BY <1>1, <1>3, <1>4

\* The elements of a list of indices after Append.
LEMMA RangeOfAppend ==
    ASSUME NEW s \in Seq(Nat), NEW e \in Nat
    PROVE  Append(s, e) \in Seq(Nat) /\ Range(Append(s, e)) = Range(s) \cup {e}
  <1>1. /\ Append(s, e) \in Seq(Nat) /\ Len(Append(s, e)) = Len(s) + 1 /\ Len(s) \in Nat
        /\ Append(s, e)[Len(s) + 1] = e /\ \A k \in 1..Len(s) : Append(s, e)[k] = s[k]
    BY AppendProperties
  <1>2. DOMAIN s = 1..Len(s) /\ DOMAIN Append(s, e) = 1..(Len(s) + 1)
    BY <1>1
  <1>3. 1..(Len(s) + 1) = 1..Len(s) \cup {Len(s) + 1}
    BY <1>1
  <1> QED
    BY <1>1, <1>2, <1>3 DEF Range

-----------------------------------------------------------------------------
(* _try_assemble: fragments of one datagram give all of its cells, each in  *)
(* its place, whatever their order and their overlaps, or nothing.          *)

CellSet == (Datagrams \X Nat) \cup {None}

\* A slice of a datagram put into a buffer of its length fills the places it covers, no other.
LEMMA SpliceOwn ==
  ASSUME NEW f \in Fragment, NEW buf \in Seq(CellSet), Len(buf) = Length[f.dg]
  PROVE  /\ Splice(buf, f, Length[f.dg]) \in Seq(CellSet)
         /\ Len(Splice(buf, f, Length[f.dg])) = Length[f.dg]
         /\ \A c \in 1..Length[f.dg] :
               Splice(buf, f, Length[f.dg])[c] = IF f.off < c /\ c <= f.off + f.len THEN <<f.dg, c - 1>>
                                                 ELSE buf[c]
  <1>1. PICK d \in Datagrams, o \in Nat, l \in Nat, n \in Nat :
            d = f.dg /\ o = f.off /\ l = f.len /\ n = Length[f.dg] /\ l > 0 /\ o + l <= n
    <2>1. /\ f.dg \in Datagrams /\ f.off \in Nat /\ f.len \in Nat /\ f.len > 0 /\ f.off + f.len <= Length[f.dg]
          /\ Length[f.dg] \in Nat
      BY FragmentAssumption
    <2> QED BY <2>1
  <1>2. PICK e \in Nat : e = o + l /\ e <= n
    BY <1>1
  <1>3. \A c \in Int : c \in 1..n => buf[c] \in CellSet
    BY <1>1
  <1>4. \A c \in 1..l : Chunk(f)[c] = <<d, o + c - 1>> /\ Chunk(f)[c] \in CellSet
    BY <1>1 DEF Chunk, CellSet
  <1>5. PICK head : head = SubSeq(buf, 1, o)
    OBVIOUS
  <1>6. head \in Seq(CellSet) /\ Len(head) = o /\ \A c \in 1..o : head[c] = buf[c]
    <2>1. 1 \in Int /\ o \in Int /\ \A c \in 1..o : buf[c] \in CellSet
      BY <1>1, <1>3
    <2>2. /\ SubSeq(buf, 1, o) \in Seq(CellSet) /\ Len(SubSeq(buf, 1, o)) = IF 1 <= o THEN o - 1 + 1 ELSE 0
          /\ \A c \in 1..(o - 1 + 1) : SubSeq(buf, 1, o)[c] = buf[1 + c - 1]
      BY <2>1, SubSeqProperties
    <2>3. (IF 1 <= o THEN o - 1 + 1 ELSE 0) = o /\ o - 1 + 1 = o /\ \A c \in 1..o : 1 + c - 1 = c
      BY <1>1
    <2> QED BY <1>5, <2>2, <2>3
  <1>7. PICK body : body = SubSeq(Chunk(f), 1, l)
    OBVIOUS
  <1>8. body \in Seq(CellSet) /\ Len(body) = l /\ \A c \in 1..l : body[c] = <<d, o + c - 1>>
    BY <1>1, <1>4, <1>7, SubSeqProperties, SMTT(30)
  <1>9. PICK tail : tail = SubSeq(buf, e + 1, n)
    OBVIOUS
  <1>10. tail \in Seq(CellSet) /\ Len(tail) = n - e /\ \A c \in 1..(n - e) : tail[c] = buf[e + c]
    <2>1. \A c \in (e + 1)..n : buf[c] \in CellSet
      BY <1>2, <1>3
    <2>2. /\ tail \in Seq(CellSet) /\ Len(tail) = IF e + 1 <= n THEN n - (e + 1) + 1 ELSE 0
          /\ \A c \in 1..(n - (e + 1) + 1) : tail[c] = buf[(e + 1) + c - 1]
      BY <1>9, <2>1, SubSeqProperties
    <2>3. \A c \in 1..(n - e) : c \in 1..(n - (e + 1) + 1) /\ (e + 1) + c - 1 = e + c
      OBVIOUS
    <2> QED BY <1>2, <2>2, <2>3
  <1>11. Splice(buf, f, n) = (head \o body) \o tail
    <2>1. Least(n, f.off + f.len) = e /\ Least(f.off, Len(buf)) = o /\ ~(e < o) /\ e >= f.off /\ e - f.off = l
      BY <1>1, <1>2 DEF Least
    <2> QED BY <1>1, <1>5, <1>7, <1>9, <2>1 DEF Splice
  <1>12. PICK front : front = head \o body
    OBVIOUS
  <1>13. /\ front \in Seq(CellSet) /\ Len(front) = e
         /\ \A c \in 1..e : front[c] = IF c <= o THEN buf[c] ELSE <<d, c - 1>>
    <2>1. /\ front \in Seq(CellSet) /\ Len(front) = e
          /\ \A c \in 1..e : front[c] = IF c <= o THEN head[c] ELSE body[c - o]
      <3>1. Len(head) + Len(body) = e
        BY <1>2, <1>6, <1>8
      <3>2. /\ head \o body \in Seq(CellSet) /\ Len(head \o body) = Len(head) + Len(body)
            /\ \A c \in 1..(Len(head) + Len(body)) :
                  (head \o body)[c] = IF c <= Len(head) THEN head[c] ELSE body[c - Len(head)]
        BY <1>6, <1>8, ConcatProperties
      <3>3. Len(head) = o
        BY <1>6
      <3> QED BY <1>12, <3>1, <3>2, <3>3
    <2>2. ASSUME NEW c \in 1..e, ~(c <= o)
          PROVE  body[c - o] = <<d, c - 1>>
      <3>1. c - o \in 1..l /\ o + (c - o) - 1 = c - 1
        BY <1>2, <2>2
      <3> QED BY <1>8, <3>1
    <2>3. \A c \in 1..e : c <= o => c \in 1..o
      OBVIOUS
    <2> QED BY <1>6, <2>1, <2>2, <2>3
  <1>14. PICK whole : whole = front \o tail
    OBVIOUS
  <1>15. /\ whole \in Seq(CellSet) /\ Len(whole) = n
         /\ \A c \in 1..n : whole[c] = IF c <= e THEN front[c] ELSE tail[c - e]
    <2>1. Len(front) + Len(tail) = n
      BY <1>2, <1>10, <1>13
    <2> QED BY <1>10, <1>13, <1>14, <2>1, ConcatProperties
  <1>16. ASSUME NEW c \in 1..n
         PROVE  whole[c] = IF o < c /\ c <= e THEN <<d, c - 1>> ELSE buf[c]
    <2>1. CASE c <= e
      BY <1>13, <1>15, <2>1
    <2>2. CASE ~(c <= e)
      <3>1. c - e \in 1..(n - e) /\ e + (c - e) = c
        BY <1>2, <2>2
      <3> QED BY <1>10, <1>15, <2>2, <3>1
    <2> QED BY <2>1, <2>2
  <1> QED BY <1>1, <1>2, <1>11, <1>12, <1>14, <1>15, <1>16, ZenonT(30)

\* The buffers of the loop, the k-th after k fragments.
Buffers(frags, n, total) ==
    CHOOSE upTo : upTo = [k \in 0..n |-> IF k = 0 THEN Blank(total)
                                        ELSE Splice(upTo[k - 1], frags[k], total)]

\* The recursion of the loop defines them: there is one function that unfolds so.
LEMMA SplicedUnfolds ==
  ASSUME NEW frags, NEW n \in Nat, NEW total
  PROVE  /\ Buffers(frags, n, total)[0] = Blank(total)
         /\ \A k \in 1..n : Buffers(frags, n, total)[k] = Splice(Buffers(frags, n, total)[k - 1], frags[k], total)
         /\ Spliced(frags, n, total) = Buffers(frags, n, total)[n]
  <1> DEFINE Unfolds(f, m) == f = [k \in 0..m |-> IF k = 0 THEN Blank(total)
                                                 ELSE Splice(f[k - 1], frags[k], total)]
             T == {m \in Nat : \E f : Unfolds(f, m)}
  <1>1. 0 \in T
    <2>1. Unfolds([k \in 0..0 |-> Blank(total)], 0)
      OBVIOUS
    <2> QED BY <2>1
  <1>2. ASSUME NEW m \in Nat, m \in T
        PROVE  m + 1 \in T
    <2>1. PICK f : Unfolds(f, m)
      BY <1>2
    <2> DEFINE g == [k \in 0..(m + 1) |-> IF k <= m THEN f[k] ELSE Splice(f[k - 1], frags[k], total)]
    <2>2. ASSUME NEW k \in 0..(m + 1)
          PROVE  g[k] = IF k = 0 THEN Blank(total) ELSE Splice(g[k - 1], frags[k], total)
      <3>1. CASE k = 0
        <4>1. k \in 0..m /\ g[k] = f[k]
          BY <3>1
        <4> QED BY <2>1, <3>1, <4>1
      <3>2. CASE k # 0 /\ k <= m
        <4>1. k \in 0..m /\ k - 1 \in 0..(m + 1) /\ k - 1 <= m
          BY <3>2
        <4>2. g[k] = f[k] /\ g[k - 1] = f[k - 1]
          BY <4>1
        <4> QED BY <2>1, <3>2, <4>1, <4>2
      <3>3. CASE k = m + 1
        <4>1. k - 1 \in 0..(m + 1) /\ k - 1 <= m /\ ~(k <= m) /\ k # 0
          BY <3>3
        <4>2. g[k - 1] = f[k - 1]
          BY <4>1
        <4>3. g[k] = Splice(f[k - 1], frags[k], total)
          BY <4>1
        <4> QED BY <4>1, <4>2, <4>3
      <3> QED BY <3>1, <3>2, <3>3
    <2> HIDE DEF g
    <2>3. g = [k \in 0..(m + 1) |-> g[k]]
      BY DEF g
    <2>4. Unfolds(g, m + 1)
      BY <2>2, <2>3
    <2> QED BY <2>4
  <1>3. n \in T
    <2> HIDE DEF T
    <2>1. Nat \subseteq T
      BY <1>1, <1>2, NatSetInduction
    <2> QED BY <2>1
  <1>4. PICK g : g = Buffers(frags, n, total)
    OBVIOUS
  <1>5. Unfolds(g, n)
    BY <1>3, <1>4 DEF Buffers
  <1>6. Spliced(frags, n, total) = g[n]
    BY <1>4 DEF Spliced, Buffers
  <1>7. g[0] = Blank(total)
    <2>1. 0 \in 0..n
      OBVIOUS
    <2> QED BY <1>5, <2>1
  <1>8. \A k \in 1..n : g[k] = Splice(g[k - 1], frags[k], total)
    BY <1>5
  <1> QED BY <1>4, <1>6, <1>7, <1>8

Covers(f, c) == f.off < c /\ c <= f.off + f.len

\* Fragments of datagram d, and the buffer they give.
Own(frags, d) == frags \in Seq(Fragment) /\ \A k \in DOMAIN frags : frags[k].dg = d
Laid(buf, frags, d) ==
    /\ buf \in Seq(CellSet) /\ Len(buf) = Length[d]
    /\ \A c \in 1..Length[d] :
          (\E k \in DOMAIN frags : Covers(frags[k], c)) => buf[c] = <<d, c - 1>>

\* The buffer of try_assemble: a place that some fragment covers has the cell of the
\* datagram, any other is blank.
LEMMA SplicedCells ==
  ASSUME NEW frags, NEW d \in Datagrams, Own(frags, d)
  PROVE  Laid(Spliced(frags, Len(frags), Length[d]), frags, d)
  <1>0. PICK n, total : n = Len(frags) /\ total = Length[d]
    OBVIOUS
  <1>a. frags \in Seq(Fragment) /\ (\A k \in DOMAIN frags : frags[k].dg = d) /\ n \in Nat
    BY <1>0 DEF Own
  <1>1. DOMAIN frags = 1..n /\ total \in Nat
    BY FragmentAssumption, <1>0, <1>a
  <1>2. PICK upTo : /\ upTo[0] = Blank(total)
                    /\ \A k \in 1..n : upTo[k] = Splice(upTo[k - 1], frags[k], total)
                    /\ Spliced(frags, n, total) = upTo[n]
    <2>1. Buffers(frags, n, total)[0] = Blank(total)
      BY ONLY <1>a, SplicedUnfolds
    <2>2. \A k \in 1..n : Buffers(frags, n, total)[k]
                          = Splice(Buffers(frags, n, total)[k - 1], frags[k], total)
      BY ONLY <1>a, SplicedUnfolds
    <2>3. Spliced(frags, n, total) = Buffers(frags, n, total)[n]
      BY ONLY <1>a, SplicedUnfolds
    <2> QED BY <2>1, <2>2, <2>3
  <1> DEFINE Good(m) == /\ upTo[m] \in Seq(CellSet) /\ Len(upTo[m]) = total
                        /\ \A c \in 1..total : (\E k \in 1..m : Covers(frags[k], c)) => upTo[m][c] = <<d, c - 1>>
             T == {m \in Nat : m <= n => Good(m)}
  <1>3. 0 \in T
    <2>1. upTo[0] = [c \in 1..total |-> None]
      BY <1>1, <1>2 DEF Blank
    <2>2. upTo[0] \in Seq(CellSet) /\ Len(upTo[0]) = total
      BY <1>1, <2>1 DEF CellSet
    <2> QED BY <2>2
  <1>4. ASSUME NEW m \in Nat, m \in T
        PROVE  m + 1 \in T
    <2> SUFFICES ASSUME m + 1 <= n
                 PROVE  Good(m + 1)
      OBVIOUS
    <2>0. n \in Nat
      BY <1>a
    <2>1. Good(m)
      BY <1>1, <1>4, <2>0
    <2>2. frags[m + 1] \in Fragment /\ frags[m + 1].dg = d
      BY <1>a, <1>1, <2>0
    <2>3. upTo[m + 1] = Splice(upTo[m], frags[m + 1], total)
      <3>1. m + 1 \in 1..n /\ (m + 1) - 1 = m
        BY <2>0
      <3> QED BY <1>2, <3>1
    <2>4. /\ upTo[m + 1] \in Seq(CellSet) /\ Len(upTo[m + 1]) = total
          /\ \A c \in 1..total : upTo[m + 1][c] = IF Covers(frags[m + 1], c) THEN <<d, c - 1>> ELSE upTo[m][c]
      <3>1. Length[frags[m + 1].dg] = total
        BY <1>0, <2>2
      <3>2. PICK f \in Fragment, buf \in Seq(CellSet) : f = frags[m + 1] /\ buf = upTo[m]
        BY <2>1, <2>2
      <3>3. Len(buf) = Length[f.dg] /\ f.dg = d
        BY <2>1, <2>2, <3>1, <3>2
      <3>4. /\ Splice(buf, f, Length[f.dg]) \in Seq(CellSet)
            /\ Len(Splice(buf, f, Length[f.dg])) = Length[f.dg]
            /\ \A c \in 1..Length[f.dg] :
                  Splice(buf, f, Length[f.dg])[c] = IF Covers(f, c) THEN <<f.dg, c - 1>> ELSE buf[c]
        BY <3>3, SpliceOwn DEF Covers
      <3>5. upTo[m + 1] = Splice(buf, f, Length[f.dg]) /\ Length[f.dg] = total
        BY <2>3, <3>1, <3>2
      <3> QED BY <3>2, <3>3, <3>4, <3>5
    <2>5. \A c \in 1..total : (\E k \in 1..(m + 1) : Covers(frags[k], c)) => upTo[m + 1][c] = <<d, c - 1>>
      <3> SUFFICES ASSUME NEW c \in 1..total, NEW k \in 1..(m + 1), Covers(frags[k], c)
                   PROVE  upTo[m + 1][c] = <<d, c - 1>>
        OBVIOUS
      <3>1. k = m + 1 \/ k \in 1..m
        OBVIOUS
      <3> QED BY <2>1, <2>4, <3>1
    <2> QED BY <2>4, <2>5
  <1>5. Good(n)
    <2> HIDE DEF Good
    <2>1. Nat \subseteq T
      <3> HIDE DEF T
      <3> QED BY <1>3, <1>4, NatSetInduction
    <2> QED BY <1>1, <1>a, <2>1
  <1> QED BY <1>0, <1>1, <1>2, <1>5 DEF Laid

\* try_assemble returns the datagram once its fragments cover it, and always something.
LEMMA TryAssembleIs ==
  ASSUME NEW frags \in Seq(Fragment), NEW d \in Datagrams, \A n \in DOMAIN frags : frags[n].dg = d
  PROVE  /\ (\A c \in 1..Length[d] : \E n \in DOMAIN frags : Covers(frags[n], c)) /\ frags # <<>>
                => TryAssemble(frags) = Cells(d, Length[d])
         /\ TryAssemble(frags) # None
                => \A c \in 1..Length[d] : \E n \in DOMAIN frags : Covers(frags[n], c)
  <1> DEFINE N == Len(frags)
             L == Length[d]
             last == {n \in DOMAIN frags : ~frags[n].more}
             total == frags[Min(last)].off + frags[Min(last)].len
             covered == {k \in 0..(total - 1) :
                           \E n \in DOMAIN frags :
                              /\ frags[n].off <= k
                              /\ k < Least(total, frags[n].off + frags[n].len)}
             Whole == \A c \in 1..L : \E n \in DOMAIN frags : Covers(frags[n], c)
  <1>1. N \in Nat /\ DOMAIN frags = 1..N /\ L \in Nat
    BY FragmentAssumption
  <1>2. \A n \in DOMAIN frags :
            /\ frags[n].off \in Nat /\ frags[n].len \in Nat \ {0} /\ frags[n].off + frags[n].len <= L
            /\ frags[n].more <=> frags[n].off + frags[n].len < L
    BY FragmentAssumption
  <1>3. last # {} => total = L
    <2> SUFFICES ASSUME last # {}
                 PROVE  total = L
      OBVIOUS
    <2>1. last \subseteq Nat
      BY <1>1
    <2>2. Min(last) \in last
      BY <2>1, MinIs
    <2>3. PICK j \in DOMAIN frags : j = Min(last) /\ ~frags[j].more
      BY <2>2
    <2>4. frags[j].off + frags[j].len = L
      <3>1. /\ frags[j].off \in Nat /\ frags[j].len \in Nat /\ frags[j].off + frags[j].len <= L
            /\ ~(frags[j].off + frags[j].len < L)
        BY <1>2, <2>3
      <3> QED BY <1>1, <3>1
    <2> HIDE DEF last
    <2> QED BY <2>3, <2>4
  <1>4. last # {} => (covered = 0..(L - 1) <=> Whole)
    <2> SUFFICES ASSUME last # {}
                 PROVE  covered = 0..(L - 1) <=> Whole
      OBVIOUS
    <2>1. total = L
      BY <1>3
    <2>2. \A k \in 0..(L - 1) : k \in covered <=> \E n \in DOMAIN frags : Covers(frags[n], k + 1)
      <3> SUFFICES ASSUME NEW k \in 0..(L - 1)
                   PROVE  \A n \in DOMAIN frags :
                             (/\ frags[n].off <= k /\ k < Least(L, frags[n].off + frags[n].len))
                             <=> Covers(frags[n], k + 1)
        BY <2>1
      <3> QED BY <1>1, <1>2 DEF Least, Covers
    <2>3. covered \subseteq 0..(L - 1)
      BY <2>1
    <2> HIDE DEF covered, total, last
    <2>4. \A c \in 1..L : c - 1 \in 0..(L - 1) /\ (c - 1) + 1 = c
      BY <1>1
    <2>5. \A k \in 0..(L - 1) : k + 1 \in 1..L
      BY <1>1
    <2> QED BY <2>2, <2>3, <2>4, <2>5
  <1>5. Whole /\ frags # <<>> => last # {}
    <2> SUFFICES ASSUME Whole, frags # <<>>
                 PROVE  last # {}
      OBVIOUS
    <2>1. L \in 1..L
      <3>1. 1 \in DOMAIN frags
        BY <1>1
      <3> QED BY <1>1, <1>2, <3>1
    <2>2. PICK n \in DOMAIN frags : Covers(frags[n], L)
      BY <2>1
    <2>3. n \in last
      BY <1>1, <1>2, <2>2 DEF Covers
    <2> QED BY <2>3
  <1>6. TryAssemble(frags) = IF last = {} THEN None
                             ELSE IF covered # 0..(total - 1) THEN None
                             ELSE Spliced(frags, N, total)
    BY DEF TryAssemble
  <1>7. Whole => Spliced(frags, N, L) = Cells(d, L)
    <2> SUFFICES ASSUME Whole
                 PROVE  Spliced(frags, N, L) = Cells(d, L)
      OBVIOUS
    <2> DEFINE all == Spliced(frags, N, L)
    <2>1. /\ all \in Seq(CellSet) /\ Len(all) = L /\ \A c \in 1..L : all[c] = <<d, c - 1>>
      <3>1. Own(frags, d)
        BY DEF Own
      <3>2. Laid(Spliced(frags, Len(frags), Length[d]), frags, d)
        BY <3>1, SplicedCells
      <3> QED BY <1>1, <3>2 DEF Laid
    <2> HIDE DEF all
    <2>2. all = [c \in 1..L |-> all[c]]
      BY <2>1
    <2> QED BY <2>1, <2>2 DEF Cells, all
  <1> HIDE DEF last, covered, total
  <1> QED BY <1>3, <1>4, <1>5, <1>6, <1>7

\* The L4 parsers take the cells of a datagram as they are.
LEMMA DecodeCells ==
  ASSUME NEW d \in Datagrams, NEW len \in 1..Length[d]
  PROVE  DecodeL4(Cells(d, len)) = Cells(d, len) /\ Cells(d, len)[1][1] = d
  <1>1. Length[d] \in Nat /\ len \in Nat /\ len <= Length[d] /\ 1 \in 1..len
    BY FragmentAssumption
  <1>2. PICK cells : cells = Cells(d, len)
    OBVIOUS
  <1>3. cells \in Seq(CellSet) /\ Len(cells) = len /\ cells = [c \in 1..len |-> cells[c]] /\ cells[1][1] = d
    BY <1>1, <1>2 DEF Cells, CellSet
  <1>4. Least(Len(cells), Length[cells[1][1]]) = len
    BY <1>1, <1>3 DEF Least
  <1>5. SubSeq(cells, 1, len) = cells
    <2>1. PICK part : part = SubSeq(cells, 1, len)
      OBVIOUS
    <2>2. \A c \in 1..len : cells[c] \in CellSet
      BY <1>3
    <2>3. part \in Seq(CellSet) /\ Len(part) = len /\ \A c \in 1..len : part[c] = cells[c]
      BY <1>1, <2>1, <2>2, SubSeqProperties
    <2>4. part = [c \in 1..len |-> part[c]]
      BY <1>1, <2>3
    <2> QED BY <1>3, <2>1, <2>3, <2>4
  <1> QED BY <1>2, <1>3, <1>4, <1>5 DEF DecodeL4

-----------------------------------------------------------------------------
(* The inductive invariant.                                                 *)
Indices == 1..Len(captured)

Shapes ==
    /\ Len(captured) \in Nat
    /\ captured = [n \in Indices |-> captured[n]]
    /\ \A n \in Indices : captured[n].frag \in Fragment /\ captured[n].ts \in Nat
    /\ payload = [n \in Indices |-> payload[n]]
    /\ info \in [Indices -> BOOLEAN]
    /\ pending \in [Keys -> Seq(Nat)]
    /\ now \in Nat

\* The packets that wait under an identification: fragments of one datagram,
\* the last one to use it, as yet without payload.
Waits ==
    ~finished => \A k \in Keys : \A n \in Range(pending[k]) :
        /\ n \in Indices /\ info[n] /\ payload[n] = None
        /\ Key[captured[n].frag.dg] = k
        /\ \A e \in Datagrams : e > captured[n].frag.dg /\ Key[e] = k => PacketsOf(e) = {}
        /\ \A m \in Range(pending[k]) : captured[m].frag.dg = captured[n].frag.dg

\* What a packet carries comes from its own datagram; before the last pass it
\* is all of it, from fragments that do not wait any more.
Decodes ==
    \A n \in Indices : payload[n] # None =>
        /\ \E len \in 1..Length[captured[n].frag.dg] : payload[n] = Cells(captured[n].frag.dg, len)
        /\ ~finished =>
             /\ payload[n] = Cells(captured[n].frag.dg, Length[captured[n].frag.dg])
             /\ \A c \in 1..Length[captured[n].frag.dg] :
                   \E m \in PacketsOf(captured[n].frag.dg) : Covers(captured[m].frag, c) /\ ~info[m]

\* What is decoded of a datagram is on its own packets.
DecodedOnOwn == \A d \in Datagrams : Decoded(d) = {n \in PacketsOf(d) : payload[n] # None}

Full(d) == \E n \in Decoded(d) : payload[n] = Cells(d, Length[d])

\* A datagram that is in time and not decoded yet is not complete, and all that
\* was captured of it waits, unless its identification was used again.
Completes ==
    \A d \in Datagrams : Prompt(d) /\ ~Full(d) =>
        /\ ~Complete(d)
        /\ KeyNotReused(d) => PacketsOf(d) \subseteq Range(pending[Key[d]])

Apart(d) == \A m, n \in PacketsOf(d) : m # n => Disjoint(captured[m].frag, captured[n].frag)
Once == \A d \in Datagrams : Apart(d) => \A m, n \in Decoded(d) : m = n

FragmentInv == Shapes /\ Waits /\ Decodes /\ Completes /\ Once /\ FallbackUsed

\* The cells of a datagram, numbered from 1.
LEMMA CompleteIs ==
  ASSUME Shapes, NEW d \in Datagrams
  PROVE  Complete(d) <=> \A c \in 1..Length[d] : \E n \in PacketsOf(d) : Covers(captured[n].frag, c)
  <1>1. Length[d] \in Nat
    BY FragmentAssumption
  <1>2. ASSUME NEW k \in 0..(Length[d] - 1), NEW n \in PacketsOf(d)
        PROVE  captured[n].frag.off <= k /\ k < captured[n].frag.off + captured[n].frag.len
               <=> Covers(captured[n].frag, k + 1)
    <2>1. captured[n].frag \in Fragment
      BY DEF Shapes, PacketsOf, Indices
    <2>2. captured[n].frag.off \in Nat /\ captured[n].frag.len \in Nat
      BY <2>1, FragmentAssumption
    <2> QED BY <1>1, <2>2 DEF Covers
  <1>3. ASSUME Complete(d), NEW c \in 1..Length[d]
        PROVE  \E n \in PacketsOf(d) : Covers(captured[n].frag, c)
    <2>1. c - 1 \in 0..(Length[d] - 1) /\ (c - 1) + 1 = c
      BY <1>1
    <2>2. PICK n \in PacketsOf(d) : captured[n].frag.off <= c - 1 /\ c - 1 < captured[n].frag.off + captured[n].frag.len
      BY <1>3, <2>1 DEF Complete
    <2> QED BY <1>2, <2>1, <2>2
  <1>4. ASSUME \A c \in 1..Length[d] : \E n \in PacketsOf(d) : Covers(captured[n].frag, c),
               NEW k \in 0..(Length[d] - 1)
        PROVE  \E n \in PacketsOf(d) : captured[n].frag.off <= k /\ k < captured[n].frag.off + captured[n].frag.len
    <2>1. k + 1 \in 1..Length[d]
      BY <1>1
    <2> QED BY <1>2, <1>4, <2>1
  <1> QED BY <1>3, <1>4 DEF Complete

CompleteByCells ==
    \A d \in Datagrams :
       Complete(d) <=> \A i \in 1..Length[d] : \E n \in PacketsOf(d) : Covers(captured[n].frag, i)

\* A datagram is complete when each of its places is covered by a packet.
LEMMA CompleteNow == Shapes => CompleteByCells
  BY CompleteIs DEF CompleteByCells

\* The same of the state after a step.
LEMMA CompleteAfter ==
  ASSUME Shapes', NEW d \in Datagrams
  PROVE  Complete(d)' <=> \A i \in 1..Length[d] : \E n \in PacketsOf(d)' : Covers(captured'[n].frag, i)
  <1>1. (Shapes => CompleteByCells)'
    BY CompleteNow, PTL
  <1> QED BY <1>1 DEF CompleteByCells

\* An empty capture satisfies the invariant.
LEMMA FragmentInitInv == FragmentInit => FragmentInv
  <1> SUFFICES ASSUME FragmentInit PROVE FragmentInv
    OBVIOUS
  <1>1. Len(captured) = 0 /\ Indices = {} /\ Len(payload) = 0
    BY DEF FragmentInit, Indices
  <1>2. pending \in [Keys -> Seq(Nat)] /\ \A k \in Keys : Range(pending[k]) = {}
    BY DEF FragmentInit, Range
  <1>3. \A d : PacketsOf(d) = {} /\ Decoded(d) = {}
    BY <1>1 DEF PacketsOf, Decoded
  <1>4. Shapes
    BY <1>1, <1>2 DEF FragmentInit, Shapes
  <1>5. Completes
    <2>1. ASSUME NEW d \in Datagrams PROVE ~Complete(d)
      <3>1. 0 \in 0..(Length[d] - 1)
        BY FragmentAssumption
      <3> QED BY <1>3, <3>1 DEF Complete
    <2> QED BY <1>3, <2>1 DEF Completes
  <1> QED BY <1>1, <1>2, <1>3, <1>4, <1>5 DEF FragmentInit, FragmentInv, Waits, Decodes, Once, FallbackUsed

\* What capturing fragment f does: new is its index, W the packets that wait for
\* its datagram from now on or, when they make it whole, waited up to now.
Entering(f, new, W, whole) ==
    /\ ~finished /\ ~finished' /\ now' = now /\ MayArrive(f)
    /\ new = Len(captured) + 1 /\ new \in Nat /\ Indices' = Indices \cup {new} /\ new \notin Indices
    /\ captured'[new] = [frag |-> f, ts |-> now]
    /\ \A n \in Indices : captured'[n] = captured[n]
    /\ new \in W /\ W \subseteq Range(pending[Key[f.dg]]) \cup {new}
    /\ \A n \in W : captured'[n].frag.dg = f.dg
    /\ \/ Range(pending[Key[f.dg]]) \subseteq W
       \/ \E n \in Range(pending[Key[f.dg]]) : now - captured[n].ts > Timeout
    /\ whole \in BOOLEAN
    /\ whole <=> \A c \in 1..Length[f.dg] : \E n \in W : Covers(captured'[n].frag, c)
    /\ payload'[new] = IF whole THEN Cells(f.dg, Length[f.dg]) ELSE None
    /\ \A n \in Indices : payload'[n] = payload[n]
    /\ info'[new] <=> ~whole
    /\ \A n \in Indices : info'[n] <=> info[n] /\ ~(whole /\ n \in W)
    /\ \A k \in Keys : Range(pending'[k]) = IF k # Key[f.dg] THEN Range(pending[k])
                                           ELSE IF whole THEN {} ELSE W

\* What the arrival of a fragment does, in the terms of the proof.
LEMMA Enters ==
  ASSUME FragmentInv, NEW f \in Fragment, Capture(f)
  PROVE  Shapes' /\ \E new, W, whole : Entering(f, new, W, whole)
  <1> DEFINE key == Key[f.dg]
             N == Len(captured)
             all == Append(captured, [frag |-> f, ts |-> now])
             idxs == Append(Waiting(key, now), Len(all))
             frags == [n \in 1..Len(idxs) |-> all[idxs[n]].frag]
             data == TryAssemble(frags)
             d == f.dg
             W == Range(idxs)
             whole == \A c \in 1..Length[d] : \E n \in W : Covers(all[n].frag, c)
  <1>1. /\ N \in Nat /\ Len(payload) = N /\ Len(info) = N /\ DOMAIN payload = 1..N /\ DOMAIN info = 1..N
        /\ payload = [n \in 1..N |-> payload[n]] /\ info = [n \in 1..N |-> info[n]] /\ Indices = 1..N
    <2>1. info = [n \in Indices |-> info[n]]
      BY DEF FragmentInv, Shapes
    <2> QED BY <2>1, AppendTo DEF FragmentInv, Shapes, Indices
  <1>2. /\ Len(all) = N + 1 /\ all = [n \in 1..(N + 1) |-> all[n]]
        /\ all[N + 1] = [frag |-> f, ts |-> now] /\ \A n \in Indices : all[n] = captured[n]
    BY <1>1, AppendTo DEF FragmentInv, Shapes, Indices
  <1>3. /\ ~finished /\ finished' = finished /\ now' = now /\ captured' = all /\ MayArrive(f)
        /\ IF data = None THEN StillWaiting(key, idxs) ELSE Reassembled(key, idxs, data)
    BY DEF Capture
  <1>4. /\ key \in Keys /\ pending[key] \in Seq(Nat) /\ d \in Datagrams /\ Length[d] \in Nat \ {0}
        /\ Timeout \in Int /\ now \in Nat /\ pending \in [Keys -> Seq(Nat)]
    BY FragmentAssumption DEF Keys, FragmentInv, Shapes
  <1> HIDE DEF data
  <1>5. \A n \in Range(pending[key]) :
           /\ n \in Indices /\ info[n] /\ payload[n] = None /\ Key[captured[n].frag.dg] = key
           /\ \A m \in Range(pending[key]) : captured[m].frag.dg = captured[n].frag.dg
    BY <1>3, <1>4 DEF FragmentInv, Waits
  <1>6. pending[key] # <<>> => Head(pending[key]) \in Range(pending[key])
    <2>1. pending[key] # <<>> => 1 \in DOMAIN pending[key]
      BY <1>4
    <2> QED BY <1>4, <2>1 DEF Range
  <1>7. /\ Waiting(key, now) \in Seq(Nat) /\ Range(Waiting(key, now)) \subseteq Range(pending[key])
        /\ \/ Range(pending[key]) \subseteq Range(Waiting(key, now))
           \/ \E n \in Range(pending[key]) : now - captured[n].ts > Timeout
    <2>1. CASE Waiting(key, now) = pending[key]
      BY <1>4, <2>1
    <2>2. CASE Waiting(key, now) # pending[key]
      <3>1. Waiting(key, now) = <<>> /\ pending[key] # <<>> /\ now - captured[Head(pending[key])].ts > Timeout
        BY <2>2 DEF Waiting
      <3>2. Range(<<>>) = {} /\ <<>> \in Seq(Nat)
        BY DEF Range
      <3> QED BY <1>6, <3>1, <3>2
    <2> QED BY <2>1, <2>2
  <1>8. \A n \in Range(Waiting(key, now)) : captured[n].frag.dg = d
    <2> SUFFICES ASSUME NEW n \in Range(Waiting(key, now)), captured[n].frag.dg # d
                 PROVE  FALSE
      OBVIOUS
    <2>1. n \in Range(pending[key]) /\ pending[key] # <<>>
      <3>1. n \in Range(pending[key])
        BY <1>7
      <3> QED BY <3>1 DEF Range
    <2>2. PICK h : h = Head(pending[key]) /\ h \in Range(pending[key])
      BY <1>6, <2>1
    <2>3. h \in Indices /\ captured[h].frag.dg # d /\ Key[captured[h].frag.dg] = key
      BY <1>5, <2>1, <2>2
    <2>4. now - captured[h].ts > Timeout
      BY <1>1, <1>3, <2>3 DEF MayArrive
    <2>5. Waiting(key, now) = <<>>
      BY <2>1, <2>2, <2>4 DEF Waiting
    <2> QED BY <2>5 DEF Range
  <1>9. idxs \in Seq(Nat) /\ W = Range(Waiting(key, now)) \cup {N + 1}
    BY <1>1, <1>2, <1>7, RangeOfAppend
  <1>10. \A n \in W : n \in 1..(N + 1) /\ all[n].frag \in Fragment /\ all[n].frag.dg = d
    <2> SUFFICES ASSUME NEW n \in W
                 PROVE  n \in 1..(N + 1) /\ all[n].frag \in Fragment /\ all[n].frag.dg = d
      OBVIOUS
    <2>1. CASE n = N + 1
      BY <1>1, <1>2, <2>1
    <2>2. CASE n # N + 1
      <3>1. n \in Range(pending[key]) /\ n \in Range(Waiting(key, now))
        BY <1>7, <1>9, <2>2
      <3>2. n \in Indices
        BY <1>5, <3>1
      <3>3. all[n] = captured[n] /\ captured[n].frag \in Fragment
        BY <1>2, <3>2 DEF FragmentInv, Shapes
      <3>4. n \in 1..(N + 1)
        BY <1>1, <3>2
      <3>5. captured[n].frag.dg = d
        BY <1>8, <3>1
      <3> QED BY <3>3, <3>4, <3>5
    <2> QED BY <2>1, <2>2
  <1> HIDE DEF idxs
  <1>11. /\ Own(frags, d) /\ frags # <<>>
         /\ \A c : (\E k \in DOMAIN frags : Covers(frags[k], c)) <=> \E n \in W : Covers(all[n].frag, c)
    <2>1. Len(idxs) \in Nat /\ DOMAIN idxs = 1..Len(idxs) /\ DOMAIN frags = 1..Len(idxs)
      BY <1>9
    <2>2. \A k \in 1..Len(idxs) : idxs[k] \in W
      BY <2>1 DEF Range
    <2>3. \A k \in 1..Len(idxs) : frags[k] = all[idxs[k]].frag
      OBVIOUS
    <2>4. \A k \in 1..Len(idxs) : frags[k] \in Fragment /\ frags[k].dg = d
      BY <1>10, <2>2, <2>3
    <2>5. frags \in Seq(Fragment)
      <3>1. \A k \in 1..Len(idxs) : all[idxs[k]].frag \in Fragment
        BY <1>10, <2>2
      <3>2. frags \in [1..Len(idxs) -> Fragment]
        BY <3>1
      <3> HIDE DEF frags
      <3> QED BY <2>1, <3>2
    <2>6. frags # <<>>
      <3>1. N + 1 \in W
        BY <1>9
      <3>2. 1..Len(idxs) # {}
        BY <2>1, <3>1 DEF Range
      <3> QED BY <2>1, <3>2
    <2>7. \A n \in W : \E k \in 1..Len(idxs) : idxs[k] = n
      BY <2>1 DEF Range
    <2> HIDE DEF frags, W
    <2>8. Own(frags, d)
      BY <2>1, <2>4, <2>5 DEF Own
    <2>9. ASSUME NEW c PROVE (\E k \in DOMAIN frags : Covers(frags[k], c)) <=> \E n \in W : Covers(all[n].frag, c)
      <3>1. ASSUME NEW k \in DOMAIN frags, Covers(frags[k], c)
            PROVE  \E n \in W : Covers(all[n].frag, c)
        BY <2>1, <2>2, <2>3, <3>1
      <3>2. ASSUME NEW n \in W, Covers(all[n].frag, c)
            PROVE  \E k \in DOMAIN frags : Covers(frags[k], c)
        <4>1. PICK k \in 1..Len(idxs) : idxs[k] = n
          BY <2>7
        <4>2. frags[k] = all[n].frag
          BY <2>3, <4>1
        <4> QED BY <2>1, <3>2, <4>2
      <3> QED BY <3>1, <3>2
    <2> QED BY <2>6, <2>8, <2>9
  <1>12. (whole => data = Cells(d, Length[d]) /\ data # None) /\ (~whole => data = None)
    <2>1. Cells(d, Length[d]) # None
      <3>1. Length[d] \in 1..Length[d]
        BY <1>4
      <3> QED BY <1>4, <3>1, FragmentAssumption
    <2>2. whole <=> \A c \in 1..Length[d] : \E k \in DOMAIN frags : Covers(frags[k], c)
      BY <1>11
    <2>3. frags \in Seq(Fragment) /\ \A n \in DOMAIN frags : frags[n].dg = d
      BY <1>11 DEF Own
    <2> HIDE DEF whole, frags
    <2>4. /\ (\A c \in 1..Length[d] : \E n \in DOMAIN frags : Covers(frags[n], c)) /\ frags # <<>>
                => TryAssemble(frags) = Cells(d, Length[d])
          /\ TryAssemble(frags) # None
                => \A c \in 1..Length[d] : \E n \in DOMAIN frags : Covers(frags[n], c)
      BY <1>4, <2>3, TryAssembleIs
    <2> QED BY <1>11, <2>1, <2>2, <2>4 DEF data
  <1> HIDE DEF frags, W, whole
  <1>13. /\ Indices' = Indices \cup {N + 1} /\ N + 1 \notin Indices /\ Len(captured') = N + 1
         /\ captured' = [n \in Indices' |-> captured'[n]]
         /\ \A n \in Indices' : captured'[n].frag \in Fragment /\ captured'[n].ts \in Nat
         /\ Indices' = 1..(N + 1)
    <2>1. Indices' = 1..(N + 1) /\ Len(captured') = N + 1 /\ 1..(N + 1) = 1..N \cup {N + 1} /\ N + 1 \notin 1..N
      BY <1>1, <1>2, <1>3 DEF Indices
    <2>2. \A n \in 1..(N + 1) : all[n].frag \in Fragment /\ all[n].ts \in Nat
      <3> SUFFICES ASSUME NEW n \in 1..(N + 1)
                   PROVE  all[n].frag \in Fragment /\ all[n].ts \in Nat
        OBVIOUS
      <3>1. CASE n = N + 1
        BY <1>2, <1>4, <3>1
      <3>2. CASE n # N + 1
        <4>1. n \in Indices
          BY <1>1, <3>2
        <4>2. all[n] = captured[n]
          BY <1>2, <4>1
        <4> HIDE DEF all
        <4> QED BY <4>1, <4>2 DEF FragmentInv, Shapes
      <3> QED BY <3>1, <3>2
    <2> QED BY <1>1, <1>2, <1>3, <2>1, <2>2
  <1> HIDE DEF N, key, d, all
  <1>14. /\ payload' = [n \in Indices' |-> payload'[n]] /\ info' \in [Indices' -> BOOLEAN]
         /\ pending' \in [Keys -> Seq(Nat)]
         /\ payload'[N + 1] = IF whole THEN Cells(d, Length[d]) ELSE None
         /\ \A n \in Indices : payload'[n] = payload[n]
         /\ info'[N + 1] = ~whole
         /\ \A n \in Indices : info'[n] <=> info[n] /\ ~(whole /\ n \in W)
         /\ \A k \in Keys : Range(pending'[k]) = IF k # key THEN Range(pending[k])
                                                ELSE IF whole THEN {} ELSE W
    <2>1. CASE ~whole
      <3>1. payload' = Append(payload, None) /\ info' = Append(info, TRUE)
            /\ pending' = [pending EXCEPT ![key] = idxs]
        BY <1>3, <1>12, <2>1 DEF StillWaiting
      <3>2. \A e : /\ Append(payload, e) = [n \in 1..(N + 1) |-> Append(payload, e)[n]]
                   /\ Append(payload, e)[N + 1] = e
                   /\ \A n \in 1..N : Append(payload, e)[n] = payload[n]
        BY <1>1, AppendTo
      <3>3. \A e : /\ Append(info, e) = [n \in 1..(N + 1) |-> Append(info, e)[n]]
                   /\ Append(info, e)[N + 1] = e
                   /\ \A n \in 1..N : Append(info, e)[n] = info[n]
        BY <1>1, AppendTo
      <3>4. /\ payload' = [n \in 1..(N + 1) |-> payload'[n]] /\ payload'[N + 1] = None
            /\ \A n \in 1..N : payload'[n] = payload[n]
        BY <3>1, <3>2, Zenon
      <3>5. /\ info' = [n \in 1..(N + 1) |-> info'[n]] /\ info'[N + 1] = TRUE
            /\ \A n \in 1..N : info'[n] = info[n]
        BY <3>1, <3>3, Zenon
      <3>6. \A n \in 1..(N + 1) : info'[n] \in BOOLEAN
        <4>1. \A n \in 1..N : info'[n] \in BOOLEAN
          <5>1. \A n \in 1..N : info[n] \in BOOLEAN
            BY <1>1 DEF FragmentInv, Shapes
          <5> QED BY <3>5, <5>1, Zenon
        <4>2. info'[N + 1] \in BOOLEAN
          BY <3>5, Zenon
        <4>3. \A n \in 1..(N + 1) : n = N + 1 \/ n \in 1..N
          BY <1>1
        <4> QED BY <4>1, <4>2, <4>3, Zenon
      <3>7. info' \in [Indices' -> BOOLEAN]
        <4>1. \A n \in 1..(N + 1) : info'[n] \in BOOLEAN
          BY <3>6
        <4>2. info' \in [1..(N + 1) -> BOOLEAN]
          BY <3>5, <4>1, Zenon
        <4> QED BY <1>13, <4>2
      <3>8. /\ pending' \in [Keys -> Seq(Nat)]
            /\ \A k \in Keys : Range(pending'[k]) = IF k # key THEN Range(pending[k]) ELSE W
        <4>1. pending' \in [Keys -> Seq(Nat)] /\ \A k \in Keys : pending'[k] = IF k = key THEN idxs ELSE pending[k]
          BY <1>4, <1>9, <3>1
        <4> QED BY <4>1 DEF W
      <3> QED BY <1>1, <1>13, <2>1, <3>4, <3>5, <3>7, <3>8
    <2>2. CASE whole
      <3> DEFINE older == [n \in DOMAIN payload |-> IF n \in Range(idxs) THEN None ELSE payload[n]]
                 cleared == [n \in DOMAIN info |-> info[n] /\ n \notin Range(idxs)]
      <3>1. payload' = Append(older, DecodeL4(data)) /\ info' = Append(cleared, FALSE)
            /\ pending' = [pending EXCEPT ![key] = <<>>]
        BY <1>3, <1>12, <2>2 DEF Reassembled
      <3>2. DecodeL4(data) = Cells(d, Length[d])
        <4>1. d \in Datagrams /\ Length[d] \in 1..Length[d]
          BY <1>4
        <4> QED BY <1>12, <2>2, <4>1, DecodeCells
      <3>3. older = [n \in 1..N |-> older[n]] /\ \A n \in 1..N : older[n] = payload[n]
        <4>1. \A n \in 1..N : n \in Range(idxs) => payload[n] = None
          <5>1. \A n \in 1..N : n \in W => n \in Range(pending[key])
            BY <1>1, <1>7, <1>9
          <5> QED BY <1>5, <5>1 DEF W
        <4> QED BY <1>1, <4>1
      <3>4. /\ cleared = [n \in 1..N |-> cleared[n]]
            /\ \A n \in 1..N : cleared[n] \in BOOLEAN /\ (cleared[n] <=> info[n] /\ n \notin W)
        BY <1>1, Zenon DEF W
      <3> HIDE DEF older, cleared
      <3>5. \A e : /\ Append(older, e) = [n \in 1..(N + 1) |-> Append(older, e)[n]]
                   /\ Append(older, e)[N + 1] = e
                   /\ \A n \in 1..N : Append(older, e)[n] = older[n]
        BY <1>1, <3>3, AppendTo
      <3>6. \A e : /\ Append(cleared, e) = [n \in 1..(N + 1) |-> Append(cleared, e)[n]]
                   /\ Append(cleared, e)[N + 1] = e
                   /\ \A n \in 1..N : Append(cleared, e)[n] = cleared[n]
        BY <1>1, <3>4, AppendTo
      <3>7. /\ payload' = [n \in 1..(N + 1) |-> payload'[n]] /\ payload'[N + 1] = Cells(d, Length[d])
            /\ \A n \in 1..N : payload'[n] = payload[n]
        <4>1. /\ payload' = [n \in 1..(N + 1) |-> payload'[n]] /\ payload'[N + 1] = DecodeL4(data)
              /\ \A n \in 1..N : payload'[n] = older[n]
          BY <3>1, <3>5, Zenon
        <4> QED BY <3>2, <3>3, <4>1
      <3>8. /\ info' = [n \in 1..(N + 1) |-> info'[n]] /\ info'[N + 1] = FALSE
            /\ \A n \in 1..N : info'[n] = cleared[n]
        BY <3>1, <3>6, Zenon
      <3>9. \A n \in 1..N : info'[n] \in BOOLEAN /\ (info'[n] <=> info[n] /\ n \notin W)
        BY <3>4, <3>8, Zenon
      <3>10. info' \in [Indices' -> BOOLEAN]
        <4>1. \A n \in 1..(N + 1) : n = N + 1 \/ n \in 1..N
          BY <1>1
        <4>2. \A n \in 1..(N + 1) : info'[n] \in BOOLEAN
          BY <3>8, <3>9, <4>1, Zenon
        <4>3. info' \in [1..(N + 1) -> BOOLEAN]
          BY <3>8, <4>2, Zenon
        <4> QED BY <1>13, <4>3
      <3>11. /\ pending' \in [Keys -> Seq(Nat)]
             /\ \A k \in Keys : Range(pending'[k]) = IF k # key THEN Range(pending[k]) ELSE {}
        <4>1. pending' \in [Keys -> Seq(Nat)] /\ \A k \in Keys : pending'[k] = IF k = key THEN <<>> ELSE pending[k]
          BY <1>4, <3>1
        <4>2. Range(<<>>) = {}
          BY DEF Range
        <4> QED BY <4>1, <4>2
      <3> QED BY <1>1, <1>13, <2>2, <3>7, <3>8, <3>9, <3>10, <3>11
    <2> QED BY <2>1, <2>2
  <1>15. Shapes'
    BY <1>1, <1>3, <1>4, <1>13, <1>14 DEF Shapes
  <1>16. Entering(f, N + 1, W, whole)
    <2>1. /\ ~finished /\ ~finished' /\ now' = now /\ MayArrive(f)
          /\ N + 1 = Len(captured) + 1 /\ N + 1 \in Nat /\ Indices' = Indices \cup {N + 1} /\ N + 1 \notin Indices
          /\ captured'[N + 1] = [frag |-> f, ts |-> now]
          /\ \A n \in Indices : captured'[n] = captured[n]
      <3>1. N + 1 \in Nat
        BY <1>1
      <3> QED BY <1>2, <1>3, <1>13, <3>1 DEF N
    <2>2. /\ N + 1 \in W /\ W \subseteq Range(pending[Key[f.dg]]) \cup {N + 1}
          /\ \A n \in W : captured'[n].frag.dg = f.dg
          /\ \/ Range(pending[Key[f.dg]]) \subseteq W
             \/ \E n \in Range(pending[Key[f.dg]]) : now - captured[n].ts > Timeout
      BY <1>3, <1>7, <1>9, <1>10 DEF key, d
    <2>3. whole \in BOOLEAN
          /\ (whole <=> \A c \in 1..Length[f.dg] : \E n \in W : Covers(captured'[n].frag, c))
      BY <1>3 DEF whole, d
    <2> QED BY <1>14, <2>1, <2>2, <2>3 DEF Entering, key, d
  <1> QED BY <1>15, <1>16

\* What is decoded of a datagram is among its own packets.
LEMMA OwnPackets == Shapes /\ Decodes => DecodedOnOwn
  <1> SUFFICES ASSUME Shapes, Decodes, NEW d \in Datagrams
               PROVE  Decoded(d) = {n \in PacketsOf(d) : payload[n] # None}
    BY DEF DecodedOnOwn
  <1>1. Len(payload) = Len(captured)
    BY AppendTo DEF Shapes, Indices
  <1>2. ASSUME NEW n \in Indices, payload[n] # None
        PROVE  payload[n][1][1] = captured[n].frag.dg
    <2>1. captured[n].frag.dg \in Datagrams
      BY FragmentAssumption DEF Shapes
    <2>2. PICK len \in 1..Length[captured[n].frag.dg] : payload[n] = Cells(captured[n].frag.dg, len)
      BY <1>2 DEF Decodes
    <2> QED BY <2>1, <2>2, DecodeCells
  <1> QED BY <1>1, <1>2 DEF Decoded, PacketsOf, Indices

\* The packets of each datagram after fragment f.
LEMMA PacketsAfter ==
  ASSUME Shapes, NEW f \in Fragment, NEW new, NEW W, NEW whole, Entering(f, new, W, whole)
  PROVE  /\ \A e : PacketsOf(e)' = IF e = f.dg THEN PacketsOf(e) \cup {new} ELSE PacketsOf(e)
         /\ \A e : \A n \in PacketsOf(e) : n \in Indices /\ captured'[n] = captured[n] /\ captured[n].frag.dg = e
         /\ \A e \in Datagrams : KeyNotReused(e)' <=>
                KeyNotReused(e) /\ ~(f.dg > e /\ Key[f.dg] = Key[e])
         /\ \A e : e # f.dg /\ Key[e] = Key[f.dg] /\ PacketsOf(e) # {} =>
                e < f.dg /\ \A n \in PacketsOf(e) : now - captured[n].ts > Timeout
  <1>1. /\ Indices' = Indices \cup {new} /\ captured'[new].frag = f /\ new \notin Indices
        /\ \A n \in Indices : captured'[n] = captured[n]
    BY DEF Entering
  <1>2. \A e : PacketsOf(e)' = IF e = f.dg THEN PacketsOf(e) \cup {new} ELSE PacketsOf(e)
    <2>1. \A e : PacketsOf(e)' = {n \in Indices' : captured'[n].frag.dg = e}
      BY DEF PacketsOf, Indices
    <2>2. \A e : PacketsOf(e) = {n \in Indices : captured[n].frag.dg = e}
      BY DEF PacketsOf, Indices
    <2> QED BY <1>1, <2>1, <2>2
  <1>3. \A e : \A n \in PacketsOf(e) : n \in Indices /\ captured'[n] = captured[n] /\ captured[n].frag.dg = e
    BY <1>1 DEF PacketsOf, Indices
  <1>4. f.dg \in Datagrams
    BY FragmentAssumption
  <1>5. \A e \in Datagrams : KeyNotReused(e)' <=>
                KeyNotReused(e) /\ ~(f.dg > e /\ Key[f.dg] = Key[e])
    BY <1>2, <1>4 DEF KeyNotReused
  <1>6. \A e : e # f.dg /\ Key[e] = Key[f.dg] /\ PacketsOf(e) # {} =>
                e < f.dg /\ \A n \in PacketsOf(e) : now - captured[n].ts > Timeout
    <2>1. MayArrive(f)
      BY DEF Entering
    <2>2. ASSUME NEW e, e # f.dg, Key[e] = Key[f.dg], NEW n \in PacketsOf(e)
          PROVE  e < f.dg /\ now - captured[n].ts > Timeout
      BY <2>1, <2>2, Zenon DEF MayArrive, PacketsOf
    <2> QED BY <2>2
  <1> QED BY <1>2, <1>3, <1>5, <1>6

\* The buffers keep only packets of one datagram.
LEMMA WaitsKept ==
  ASSUME Shapes, Waits, NEW f \in Fragment, NEW new, NEW W, NEW whole, Entering(f, new, W, whole)
  PROVE  Waits'
  <1> DEFINE key == Key[f.dg]
  <1>1. \A k \in Keys : \A n \in Range(pending[k]) :
            /\ n \in Indices /\ info[n] /\ payload[n] = None /\ Key[captured[n].frag.dg] = k
            /\ \A e \in Datagrams : e > captured[n].frag.dg /\ Key[e] = k => PacketsOf(e) = {}
            /\ \A m \in Range(pending[k]) : captured[m].frag.dg = captured[n].frag.dg
    BY DEF Waits, Entering
  <1>2. /\ Indices' = Indices \cup {new} /\ new \notin Indices
        /\ captured'[new].frag = f /\ \A n \in Indices : captured'[n] = captured[n]
        /\ W \subseteq Range(pending[key]) \cup {new} /\ \A n \in W : captured'[n].frag.dg = f.dg
        /\ ~whole => payload'[new] = None /\ info'[new]
        /\ \A n \in Indices : payload'[n] = payload[n] /\ (info'[n] <=> info[n] /\ ~(whole /\ n \in W))
        /\ \A k \in Keys : Range(pending'[k]) = IF k # key THEN Range(pending[k]) ELSE IF whole THEN {} ELSE W
    BY DEF Entering
  <1>3. f.dg \in Datagrams /\ key \in Keys /\ Datagrams \subseteq Nat
    BY FragmentAssumption DEF Keys
  <1>4. \A n \in Indices : captured[n].frag.dg \in Datagrams
    BY FragmentAssumption DEF Shapes
  <1>5. /\ \A e : e # f.dg => PacketsOf(e)' = PacketsOf(e)
        /\ \A e : e # f.dg /\ Key[e] = key /\ PacketsOf(e) # {} => e < f.dg
    BY PacketsAfter
  <1>6. \A e \in Datagrams : e > f.dg /\ Key[e] = key => PacketsOf(e)' = {}
    <2> SUFFICES ASSUME NEW e \in Datagrams, e > f.dg, Key[e] = key
                 PROVE  PacketsOf(e)' = {}
      OBVIOUS
    <2>1. e \in Nat /\ f.dg \in Nat
      BY <1>3
    <2>2. e # f.dg /\ ~(e < f.dg)
      BY <2>1
    <2> QED BY <1>5, <2>2
  <1> SUFFICES ASSUME NEW k \in Keys, NEW n \in Range(pending'[k])
               PROVE  /\ n \in Indices' /\ info'[n] /\ payload'[n] = None /\ Key[captured'[n].frag.dg] = k
                      /\ \A e \in Datagrams : e > captured'[n].frag.dg /\ Key[e] = k => PacketsOf(e)' = {}
                      /\ \A m \in Range(pending'[k]) : captured'[m].frag.dg = captured'[n].frag.dg
    BY DEF Waits
  <1>7. CASE k # key
    <2>1. n \in Range(pending[k]) /\ Range(pending'[k]) = Range(pending[k])
      BY <1>2, <1>7
    <2>2. /\ n \in Indices /\ info[n] /\ payload[n] = None
          /\ Key[captured[n].frag.dg] = k
          /\ \A e \in Datagrams : e > captured[n].frag.dg /\ Key[e] = k => PacketsOf(e) = {}
          /\ \A m \in Range(pending[k]) : m \in Indices /\ captured[m].frag.dg = captured[n].frag.dg
      BY <1>1, <2>1
    <2>3. n \notin W
      <3>1. captured[n].frag.dg # f.dg
        BY <1>7, <2>2
      <3> QED BY <1>2, <2>2, <3>1
    <2>4. \A e \in Datagrams : e > captured[n].frag.dg /\ Key[e] = k => PacketsOf(e)' = {}
      BY <1>5, <1>7, <2>2
    <2>5. \A m \in Indices : captured'[m] = captured[m]
      BY DEF Entering
    <2>6. captured'[n] = captured[n] /\ \A m \in Range(pending[k]) : captured'[m] = captured[m]
      BY <2>2, <2>5, Zenon
    <2>7. n \in Indices' /\ info'[n] /\ payload'[n] = None
      BY <1>2, <2>2, <2>3
    <2>8. Key[captured'[n].frag.dg] = k
          /\ \A m \in Range(pending[k]) : captured'[m].frag.dg = captured'[n].frag.dg
      BY <2>2, <2>6, Zenon
    <2>9. \A e \in Datagrams : e > captured'[n].frag.dg /\ Key[e] = k => PacketsOf(e)' = {}
      BY <2>4, <2>6, Zenon
    <2> QED BY <2>1, <2>7, <2>8, <2>9, Zenon
  <1>8. CASE k = key
    <2>1. ~whole /\ n \in W /\ Range(pending'[k]) = W
      BY <1>2, <1>8
    <2>2. captured'[n].frag.dg = f.dg /\ \A m \in W : captured'[m].frag.dg = f.dg
      BY <1>2, <2>1
    <2>3. n \in Indices' /\ info'[n] /\ payload'[n] = None
      <3>1. CASE n = new
        BY <1>2, <2>1, <3>1
      <3>2. CASE n # new
        <4>1. n \in Range(pending[key])
          BY <1>2, <2>1, <3>2
        <4>2. n \in Indices /\ info[n] /\ payload[n] = None
          BY <1>1, <1>3, <4>1
        <4> QED BY <1>2, <2>1, <4>2
      <3> QED BY <3>1, <3>2
    <2>4. Key[captured'[n].frag.dg] = k
      BY <1>8, <2>2
    <2> QED BY <1>6, <1>8, <2>1, <2>2, <2>3, <2>4
  <1> QED BY <1>7, <1>8

\* Decoded payloads stay those of their datagram.
LEMMA DecodesKept ==
  ASSUME Shapes, Waits, Decodes, NEW f \in Fragment, NEW new, NEW W, NEW whole, Entering(f, new, W, whole)
  PROVE  Decodes'
  <1>1. /\ Indices' = Indices \cup {new} /\ new \notin Indices /\ ~finished
        /\ captured'[new].frag = f /\ \A n \in Indices : captured'[n] = captured[n]
        /\ \A n \in W : captured'[n].frag.dg = f.dg
        /\ payload'[new] = IF whole THEN Cells(f.dg, Length[f.dg]) ELSE None
        /\ whole <=> \A c \in 1..Length[f.dg] : \E n \in W : Covers(captured'[n].frag, c)
        /\ (info'[new] <=> ~whole) /\ new \in W
        /\ \A n \in Indices : payload'[n] = payload[n] /\ (info'[n] <=> info[n] /\ ~(whole /\ n \in W))
    BY DEF Entering
  <1>2. f.dg \in Datagrams /\ Length[f.dg] \in 1..Length[f.dg]
    <2>1. f.dg \in Datagrams /\ Length[f.dg] \in Nat \ {0}
      BY FragmentAssumption
    <2> QED BY <2>1
  <1>3. \A e : PacketsOf(e) \subseteq PacketsOf(e)' /\ \A n \in PacketsOf(e) : n \in Indices /\ captured'[n] = captured[n]
    BY PacketsAfter
  <1>4. W \subseteq PacketsOf(f.dg)' /\ (whole => \A n \in W : ~info'[n])
    <2>1. W \subseteq Indices'
      <3>1. W \subseteq Range(pending[Key[f.dg]]) \cup {new} /\ Key[f.dg] \in Keys
        BY <1>2 DEF Entering, Keys
      <3>2. \A n \in Range(pending[Key[f.dg]]) : n \in Indices
        BY <1>1, <3>1 DEF Waits
      <3> QED BY <1>1, <3>1, <3>2
    <2>2. W \subseteq PacketsOf(f.dg)'
      BY <1>1, <2>1 DEF PacketsOf, Indices
    <2>3. whole => \A n \in W : ~info'[n]
      BY <1>1, <2>1
    <2> QED BY <2>2, <2>3
  <1> SUFFICES ASSUME NEW n \in Indices', payload'[n] # None, NEW d, d = captured'[n].frag.dg
               PROVE  /\ \E len \in 1..Length[d] : payload'[n] = Cells(d, len)
                      /\ payload'[n] = Cells(d, Length[d])
                      /\ \A c \in 1..Length[d] : \E m \in PacketsOf(d)' : Covers(captured'[m].frag, c) /\ ~info'[m]
    BY DEF Decodes
  <1>5. CASE n = new
    <2>1. whole /\ d = f.dg /\ payload'[n] = Cells(d, Length[d])
      BY <1>1, <1>5
    <2> QED BY <1>1, <1>2, <1>4, <2>1
  <1>6. CASE n # new
    <2>1. n \in Indices /\ payload[n] # None /\ d = captured[n].frag.dg /\ payload'[n] = payload[n]
      BY <1>1, <1>6
    <2>2. /\ \E len \in 1..Length[d] : payload[n] = Cells(d, len)
          /\ payload[n] = Cells(d, Length[d])
          /\ \A c \in 1..Length[d] : \E m \in PacketsOf(d) : Covers(captured[m].frag, c) /\ ~info[m]
      BY <1>1, <2>1 DEF Decodes
    <2>3. \A m \in PacketsOf(d) : m \in PacketsOf(d)' /\ captured'[m] = captured[m] /\ (~info[m] => ~info'[m])
      BY <1>1, <1>3
    <2> QED BY <2>1, <2>2, <2>3
  <1> QED BY <1>5, <1>6

\* What is decoded after fragment f.
LEMMA DecodedAfter ==
  ASSUME Shapes, Shapes', Decodes, Decodes',
         NEW f \in Fragment, NEW new, NEW W, NEW whole, Entering(f, new, W, whole)
  PROVE  \A d \in Datagrams :
            Decoded(d)' = IF whole /\ d = f.dg THEN Decoded(d) \cup {new} ELSE Decoded(d)
  <1>1. /\ \A d \in Datagrams : Decoded(d) = {n \in PacketsOf(d) : payload[n] # None}
        /\ \A d \in Datagrams : Decoded(d)' = {n \in PacketsOf(d)' : payload'[n] # None}
    <2>1. DecodedOnOwn
      BY OwnPackets
    <2>2. DecodedOnOwn'
      <3>1. (Shapes /\ Decodes => DecodedOnOwn)'
        BY OwnPackets, PTL
      <3> QED BY <3>1
    <2> QED BY <2>1, <2>2 DEF DecodedOnOwn
  <1>2. /\ payload'[new] = IF whole THEN Cells(f.dg, Length[f.dg]) ELSE None
        /\ \A n \in Indices : payload'[n] = payload[n]
    BY DEF Entering
  <1>3. Cells(f.dg, Length[f.dg]) # None
    <2>1. f.dg \in Datagrams /\ Length[f.dg] \in Nat \ {0}
      BY FragmentAssumption
    <2>2. Length[f.dg] \in 1..Length[f.dg]
      BY <2>1
    <2> QED BY <2>1, <2>2, FragmentAssumption
  <1>4. /\ \A e : PacketsOf(e)' = IF e = f.dg THEN PacketsOf(e) \cup {new} ELSE PacketsOf(e)
        /\ \A e : \A n \in PacketsOf(e) : n \in Indices
    BY PacketsAfter
  <1> SUFFICES ASSUME NEW d \in Datagrams
               PROVE  Decoded(d)' = IF whole /\ d = f.dg THEN Decoded(d) \cup {new} ELSE Decoded(d)
    OBVIOUS
  <1>5. PacketsOf(d)' = IF d = f.dg THEN PacketsOf(d) \cup {new} ELSE PacketsOf(d)
    BY <1>4
  <1>6. \A n \in PacketsOf(d) : payload'[n] = payload[n]
    BY <1>2, <1>4
  <1>7. Decoded(d) = {n \in PacketsOf(d) : payload[n] # None} /\ Decoded(d)' = {n \in PacketsOf(d)' : payload'[n] # None}
    BY <1>1
  <1>8. d = f.dg => (payload'[new] # None <=> whole)
    BY <1>2, <1>3
  <1>9. CASE d = f.dg
    BY <1>5, <1>6, <1>7, <1>8, <1>9
  <1>10. CASE d # f.dg
    BY <1>5, <1>6, <1>7, <1>10
  <1> QED BY <1>9, <1>10

\* No second packet of a datagram is decoded.
LEMMA OnceKept ==
  ASSUME Shapes, Shapes', Waits, Decodes, Decodes', Once,
         NEW f \in Fragment, NEW new, NEW W, NEW whole, Entering(f, new, W, whole)
  PROVE  Once'
  <1>1. \A d \in Datagrams :
            Decoded(d)' = IF whole /\ d = f.dg THEN Decoded(d) \cup {new} ELSE Decoded(d)
    BY DecodedAfter
  <1>2. /\ \A e : PacketsOf(e)' = IF e = f.dg THEN PacketsOf(e) \cup {new} ELSE PacketsOf(e)
        /\ \A e : \A n \in PacketsOf(e) : n \in Indices /\ captured'[n] = captured[n] /\ captured[n].frag.dg = e
    BY PacketsAfter
  <1>3. \A d : Apart(d)' => Apart(d)
    BY <1>2 DEF Apart
  <1> SUFFICES ASSUME NEW d \in Datagrams, Apart(d)', NEW m \in Decoded(d)', NEW n \in Decoded(d)'
               PROVE  m = n
    BY DEF Once
  <1>4. \A i, j \in Decoded(d) : i = j
    BY <1>3 DEF Once
  <1>5. CASE ~(whole /\ d = f.dg)
    BY <1>1, <1>4, <1>5
  <1>6. CASE whole /\ d = f.dg
    <2>1. Decoded(d)' = Decoded(d) \cup {new}
      BY <1>1, <1>6
    <2>2. Decoded(d) = {}
      <3> SUFFICES ASSUME NEW i \in Decoded(d)
                   PROVE  FALSE
        OBVIOUS
      <3>1. i \in PacketsOf(d) /\ payload[i] # None
        <4>1. DecodedOnOwn
          BY OwnPackets
        <4> QED BY <4>1 DEF DecodedOnOwn
      <3>2. 1 \in 1..Length[d]
        <4>1. Length[d] \in Nat \ {0}
          BY FragmentAssumption
        <4> QED BY <4>1
      <3>3. PICK p \in PacketsOf(d) : Covers(captured[p].frag, 1) /\ ~info[p]
        <4>1. i \in Indices /\ captured[i].frag.dg = d /\ ~finished
          BY <1>2, <3>1 DEF Entering
        <4> QED BY <3>1, <3>2, <4>1 DEF Decodes
      <3>4. PICK q \in W : Covers(captured'[q].frag, 1)
        <4>1. \A c \in 1..Length[d] : \E j \in W : Covers(captured'[j].frag, c)
          BY <1>6 DEF Entering
        <4> QED BY <3>2, <4>1
      <3>5. q \in PacketsOf(d)' /\ p \in PacketsOf(d)' /\ p # q
        <4>1. W \subseteq Range(pending[Key[d]]) \cup {new} /\ new \notin Indices /\ Key[d] \in Keys
          BY <1>6 DEF Entering, Keys
        <4>2. \A j \in Range(pending[Key[d]]) : j \in Indices /\ info[j]
          BY <4>1 DEF Waits, Entering
        <4>3. p \in Indices /\ captured'[p] = captured[p]
          BY <1>2
        <4>4. p # q
          BY <3>3, <4>1, <4>2, <4>3
        <4>5. q \in Indices' /\ captured'[q].frag.dg = d
          <5>1. Indices' = Indices \cup {new} /\ \A j \in W : captured'[j].frag.dg = f.dg
            BY DEF Entering
          <5> QED BY <1>6, <4>1, <4>2, <5>1
        <4>6. q \in PacketsOf(d)'
          BY <4>5 DEF PacketsOf, Indices
        <4> QED BY <1>2, <4>4, <4>6
      <3>6. captured'[p].frag \in Fragment /\ captured'[q].frag \in Fragment
        BY <3>5 DEF PacketsOf, Shapes, Indices
      <3>7. Disjoint(captured'[p].frag, captured'[q].frag)
        BY <3>5 DEF Apart
      <3>8. Covers(captured'[p].frag, 1) /\ Covers(captured'[q].frag, 1)
        BY <1>2, <3>3, <3>4
      <3>9. \A g \in Fragment : g.off \in Nat /\ g.len \in Nat
        BY FragmentAssumption
      <3> QED BY <3>6, <3>7, <3>8, <3>9 DEF Disjoint, Covers
    <2> QED BY <2>1, <2>2
  <1> QED BY <1>5, <1>6

\* A complete datagram is decoded.
LEMMA CompletesKept ==
  ASSUME Shapes, Shapes', Waits, Decodes, Decodes', Completes,
         NEW f \in Fragment, NEW new, NEW W, NEW whole, Entering(f, new, W, whole)
  PROVE  Completes'
  <1>1. \A d \in Datagrams :
            Decoded(d)' = IF whole /\ d = f.dg THEN Decoded(d) \cup {new} ELSE Decoded(d)
    BY DecodedAfter
  <1>2. /\ \A e : PacketsOf(e)' = IF e = f.dg THEN PacketsOf(e) \cup {new} ELSE PacketsOf(e)
        /\ \A e : \A n \in PacketsOf(e) : n \in Indices /\ captured'[n] = captured[n] /\ captured[n].frag.dg = e
        /\ \A e \in Datagrams : KeyNotReused(e)' <=>
                KeyNotReused(e) /\ ~(f.dg > e /\ Key[f.dg] = Key[e])
        /\ \A e : e # f.dg /\ Key[e] = Key[f.dg] /\ PacketsOf(e) # {} =>
                e < f.dg /\ \A n \in PacketsOf(e) : now - captured[n].ts > Timeout
    BY PacketsAfter
  <1>3. /\ captured'[new] = [frag |-> f, ts |-> now] /\ new \notin Indices
        /\ new \in W /\ W \subseteq Range(pending[Key[f.dg]]) \cup {new}
        /\ \/ Range(pending[Key[f.dg]]) \subseteq W
           \/ \E n \in Range(pending[Key[f.dg]]) : now - captured[n].ts > Timeout
        /\ whole <=> \A c \in 1..Length[f.dg] : \E n \in W : Covers(captured'[n].frag, c)
        /\ payload'[new] = IF whole THEN Cells(f.dg, Length[f.dg]) ELSE None
        /\ \A n \in Indices : payload'[n] = payload[n]
        /\ \A k \in Keys : Range(pending'[k]) = IF k # Key[f.dg] THEN Range(pending[k])
                                                ELSE IF whole THEN {} ELSE W
    BY DEF Entering
  <1>4. f.dg \in Datagrams /\ Datagrams \subseteq Nat /\ \A e \in Datagrams : Key[e] \in Keys
    BY FragmentAssumption DEF Keys
  <1>5. \A e : Prompt(e)' => Prompt(e)
    BY <1>2 DEF Prompt
  <1>6. \A e \in Datagrams : Full(e) => Full(e)'
    <2> SUFFICES ASSUME NEW e \in Datagrams, NEW n \in Decoded(e), payload[n] = Cells(e, Length[e])
                 PROVE  n \in Decoded(e)' /\ payload'[n] = Cells(e, Length[e])
      BY DEF Full
    <2>1. n \in Indices
      <3>1. DecodedOnOwn
        BY OwnPackets
      <3> QED BY <1>2, <3>1 DEF DecodedOnOwn
    <2> QED BY <1>1, <1>3, <2>1
  <1> SUFFICES ASSUME NEW d \in Datagrams, Prompt(d)', ~Full(d)'
               PROVE  ~Complete(d)' /\ (KeyNotReused(d)' => PacketsOf(d)' \subseteq Range(pending'[Key[d]]))
    BY DEF Completes
  <1>7. ~Complete(d) /\ (KeyNotReused(d) => PacketsOf(d) \subseteq Range(pending[Key[d]]))
    BY <1>5, <1>6 DEF Completes
  <1>8. CASE d # f.dg
    <2>1. PacketsOf(d)' = PacketsOf(d)
      BY <1>2, <1>8
    <2>2. ~Complete(d)'
      BY <1>2, <1>7, <2>1 DEF Complete
    <2>3. ASSUME KeyNotReused(d)'
          PROVE  PacketsOf(d)' \subseteq Range(pending'[Key[d]])
      <3>1. KeyNotReused(d) /\ ~(f.dg > d /\ Key[f.dg] = Key[d])
        BY <1>2, <2>3
      <3>2. CASE PacketsOf(d) = {}
        BY <2>1, <3>2
      <3>3. CASE Key[d] # Key[f.dg]
        BY <1>3, <1>4, <1>7, <2>1, <3>1, <3>3
      <3>4. CASE PacketsOf(d) # {} /\ Key[d] = Key[f.dg]
        <4>1. d < f.dg
          BY <1>2, <1>8, <3>4
        <4>2. d \in Nat /\ f.dg \in Nat
          BY <1>4
        <4> QED BY <3>1, <3>4, <4>1, <4>2
      <3> QED BY <3>2, <3>3, <3>4
    <2> QED BY <2>2, <2>3
  <1>9. CASE d = f.dg
    <2>1. KeyNotReused(d)
      <3> SUFFICES ASSUME NEW e \in Datagrams, e > d, Key[e] = Key[d], PacketsOf(e) # {}
                   PROVE  FALSE
        BY DEF KeyNotReused
      <3>1. d \in Nat /\ e \in Nat
        BY <1>4
      <3>2. e # d
        BY <3>1
      <3>3. e < d
        BY <1>2, <1>9, <3>2
      <3> QED BY <3>1, <3>3
    <2>2. PacketsOf(d)' = PacketsOf(d) \cup {new}
      BY <1>2, <1>9
    <2>3. PacketsOf(d)' \subseteq W
      <3>1. CASE PacketsOf(d) = {}
        BY <1>3, <2>2, <3>1
      <3>2. CASE PacketsOf(d) # {} /\ Range(pending[Key[d]]) \subseteq W
        BY <1>3, <1>7, <2>1, <2>2, <3>2
      <3>3. ASSUME PacketsOf(d) # {}, NEW n \in Range(pending[Key[d]]), now - captured[n].ts > Timeout
            PROVE  FALSE
        <4>1. PICK m \in PacketsOf(d) : m \in Range(pending[Key[d]]) /\ captured[m].frag.dg = d
          BY <1>2, <1>7, <2>1, <3>3
        <4>2. n \in Indices /\ captured[n].frag.dg = captured[m].frag.dg
          BY <1>4, <4>1 DEF Waits, Entering
        <4>3. n \in PacketsOf(d)
          BY <4>1, <4>2 DEF PacketsOf, Indices
        <4>4. captured'[new].ts - captured'[n].ts <= Timeout
          BY <2>2, <4>3 DEF Prompt
        <4>5. now - captured[n].ts <= Timeout
          BY <1>2, <1>3, <4>3, <4>4
        <4>6. now \in Int /\ captured[n].ts \in Int /\ Timeout \in Int
          BY <4>2, FragmentAssumption DEF Shapes
        <4> QED BY <3>3, <4>5, <4>6
      <3> QED BY <1>3, <1>9, <3>1, <3>2, <3>3
    <2>4. ~whole
      <3> SUFFICES ASSUME whole
                   PROVE  Full(d)'
        OBVIOUS
      <3>1. new \in Decoded(d)' /\ payload'[new] = Cells(d, Length[d])
        BY <1>1, <1>3, <1>9
      <3> QED BY <3>1 DEF Full
    <2>5. ~Complete(d)'
      <3>1. PICK c \in 1..Length[d] : \A n \in W : ~Covers(captured'[n].frag, c)
        BY <1>3, <1>9, <2>4
      <3>2. Complete(d)' <=> \A i \in 1..Length[d] : \E n \in PacketsOf(d)' : Covers(captured'[n].frag, i)
        BY CompleteAfter
      <3> QED BY <2>3, <3>1, <3>2
    <2>6. PacketsOf(d)' \subseteq Range(pending'[Key[d]])
      BY <1>3, <1>4, <1>9, <2>3, <2>4
    <2> QED BY <2>5, <2>6
  <1> QED BY <1>8, <1>9

\* An arrival keeps the invariant.
LEMMA CaptureKeeps ==
  ASSUME FragmentInv, NEW f \in Fragment, Capture(f)
  PROVE  /\ FragmentInv'
         /\ \A n \in 1..Len(payload) : payload[n] # None => payload'[n] = payload[n]
  <1>1. Shapes /\ Waits /\ Decodes /\ Completes /\ Once
    BY DEF FragmentInv
  <1>2. Shapes'
    BY Enters
  <1>3. PICK new, W, whole : Entering(f, new, W, whole)
    BY Enters
  <1>4. Waits' /\ Decodes'
    BY <1>1, <1>3, WaitsKept, DecodesKept
  <1>5. Completes' /\ Once'
    BY <1>1, <1>2, <1>3, <1>4, CompletesKept, OnceKept
  <1>6. FallbackUsed'
    BY <1>3 DEF Entering, FallbackUsed
  <1>7. \A n \in 1..Len(payload) : payload'[n] = payload[n]
    <2>1. Len(payload) = Len(captured)
      BY <1>1, AppendTo DEF Shapes, Indices
    <2> QED BY <1>3, <2>1 DEF Entering, Indices
  <1> QED BY <1>2, <1>4, <1>5, <1>6, <1>7 DEF FragmentInv

\* The last pass: it decodes the first fragments that still wait.
LEMMA FinishEffect ==
  ASSUME FragmentInv, Finish
  PROVE  /\ Shapes' /\ ~finished /\ finished'
         /\ captured' = captured /\ pending' = pending /\ Indices' = Indices
         /\ \A d : PacketsOf(d)' = PacketsOf(d) /\ (Complete(d)' <=> Complete(d)) /\ (Prompt(d)' <=> Prompt(d))
                  /\ (KeyNotReused(d)' <=> KeyNotReused(d)) /\ (Apart(d)' <=> Apart(d))
         /\ \A n \in Indices :
               payload'[n] = IF payload[n] = None /\ captured[n].frag.off = 0
                                   /\ \E k \in Keys : n \in Range(pending[k])
                             THEN Cells(captured[n].frag.dg, captured[n].frag.len) ELSE payload[n]
  <1> DEFINE left == UNION {Range(pending[k]) : k \in Keys}
  <1>1. ~finished /\ finished' = TRUE /\ captured' = captured /\ pending' = pending /\ now' = now
    BY DEF Finish
  <1>2. /\ payload' = [n \in DOMAIN payload |->
                         IF n \in left /\ info[n] /\ captured[n].frag.off = 0
                         THEN DecodeL4(Chunk(captured[n].frag)) ELSE payload[n]]
        /\ info' = [n \in DOMAIN info |-> info[n] /\ n \notin left]
    BY DEF Finish
  <1>3. DOMAIN payload = Indices /\ DOMAIN info = Indices
    BY DEF FragmentInv, Shapes
  <1>4. \A n \in left : payload[n] = None /\ info[n]
    BY <1>1 DEF FragmentInv, Waits
  <1>5. \A n : n \in left <=> \E k \in Keys : n \in Range(pending[k])
    OBVIOUS
  <1> HIDE DEF left
  <1>6. Indices' = Indices
    BY <1>1 DEF Indices
  <1>7. Shapes'
    <2>1. payload' = [n \in Indices |-> payload'[n]]
      BY <1>2, <1>3
    <2>2. info' \in [Indices -> BOOLEAN]
      BY <1>2, <1>3, Zenon
    <2> QED BY <1>1, <1>6, <2>1, <2>2 DEF FragmentInv, Shapes
  <1>8. ASSUME NEW n \in Indices, captured[n].frag.off = 0
        PROVE  DecodeL4(Chunk(captured[n].frag)) = Cells(captured[n].frag.dg, captured[n].frag.len)
    <2>1. PICK g \in Fragment : g = captured[n].frag
      BY DEF FragmentInv, Shapes
    <2>2. g.dg \in Datagrams /\ g.len \in Nat \ {0} /\ g.off = 0 /\ g.off + g.len <= Length[g.dg]
      BY <1>8, <2>1, FragmentAssumption
    <2>3. Length[g.dg] \in Nat
      BY <2>2, FragmentAssumption
    <2>4. g.len \in 1..Length[g.dg]
      BY <2>2, <2>3
    <2>5. Chunk(g) = Cells(g.dg, g.len)
      BY <2>2 DEF Chunk, Cells
    <2> QED BY <2>1, <2>2, <2>4, <2>5, DecodeCells
  <1>9. \A n \in Indices :
           payload'[n] = IF payload[n] = None /\ captured[n].frag.off = 0 /\ n \in left
                         THEN Cells(captured[n].frag.dg, captured[n].frag.len) ELSE payload[n]
    <2> SUFFICES ASSUME NEW n \in Indices
                 PROVE  payload'[n] = IF payload[n] = None /\ captured[n].frag.off = 0 /\ n \in left
                                      THEN Cells(captured[n].frag.dg, captured[n].frag.len) ELSE payload[n]
      OBVIOUS
    <2>1. payload'[n] = IF n \in left /\ info[n] /\ captured[n].frag.off = 0
                        THEN DecodeL4(Chunk(captured[n].frag)) ELSE payload[n]
      BY <1>2, <1>3
    <2>2. n \in left => payload[n] = None /\ info[n]
      BY <1>4
    <2>3. captured[n].frag.off = 0 => DecodeL4(Chunk(captured[n].frag)) = Cells(captured[n].frag.dg, captured[n].frag.len)
      BY <1>8
    <2> QED BY <2>1, <2>2, <2>3, Zenon
  <1>10. \A d : PacketsOf(d)' = PacketsOf(d)
    BY <1>1 DEF PacketsOf
  <1>11. \A d : /\ (Complete(d)' <=> Complete(d)) /\ (Prompt(d)' <=> Prompt(d))
                 /\ (KeyNotReused(d)' <=> KeyNotReused(d)) /\ (Apart(d)' <=> Apart(d))
    BY <1>1, <1>10 DEF Complete, Prompt, KeyNotReused, Apart
  <1> QED BY <1>1, <1>5, <1>6, <1>7, <1>9, <1>10, <1>11

\* The end of the capture keeps the invariant.
LEMMA FinishKeeps ==
  ASSUME FragmentInv, Finish
  PROVE  /\ FragmentInv'
         /\ \A n \in 1..Len(payload) : payload[n] # None => payload'[n] = payload[n]
  <1> DEFINE Left(n) == captured[n].frag.off = 0 /\ \E k \in Keys : n \in Range(pending[k])
  <1>1. /\ Shapes /\ Shapes' /\ Waits /\ Decodes /\ Completes /\ Once /\ ~finished /\ finished'
        /\ captured' = captured /\ pending' = pending /\ Indices' = Indices
    BY FinishEffect DEF FragmentInv
  <1>2. \A d : PacketsOf(d)' = PacketsOf(d) /\ (Complete(d)' <=> Complete(d)) /\ (Prompt(d)' <=> Prompt(d))
                  /\ (KeyNotReused(d)' <=> KeyNotReused(d)) /\ (Apart(d)' <=> Apart(d))
    BY FinishEffect
  <1>3. \A n \in Indices :
           payload'[n] = IF payload[n] = None /\ Left(n)
                         THEN Cells(captured[n].frag.dg, captured[n].frag.len) ELSE payload[n]
    BY FinishEffect
  <1> HIDE DEF Left
  <1>4. ASSUME NEW n \in Indices
        PROVE  /\ captured[n].frag.dg \in Datagrams
               /\ captured[n].frag.len \in 1..Length[captured[n].frag.dg]
               /\ Cells(captured[n].frag.dg, captured[n].frag.len) # None
    <2>1. PICK g \in Fragment : g = captured[n].frag
      BY <1>1 DEF Shapes
    <2>2. g.dg \in Datagrams /\ g.len \in Nat \ {0} /\ g.off \in Nat /\ g.off + g.len <= Length[g.dg]
      BY <2>1, FragmentAssumption
    <2>3. Length[g.dg] \in Nat
      BY <2>2, FragmentAssumption
    <2>4. g.len \in 1..Length[g.dg]
      BY <2>2, <2>3
    <2> QED BY <2>1, <2>2, <2>4, FragmentAssumption
  <1>5. Decodes'
    <2> SUFFICES ASSUME NEW n \in Indices, payload'[n] # None
                 PROVE  \E len \in 1..Length[captured[n].frag.dg] : payload'[n] = Cells(captured[n].frag.dg, len)
      BY <1>1 DEF Decodes
    <2>1. CASE payload'[n] = payload[n]
      BY <1>1, <2>1 DEF Decodes
    <2>2. CASE payload'[n] = Cells(captured[n].frag.dg, captured[n].frag.len)
      BY <1>4, <2>2
    <2> QED BY <1>3, <2>1, <2>2
  <1>6. /\ \A d \in Datagrams : Decoded(d) = {n \in PacketsOf(d) : payload[n] # None}
        /\ \A d \in Datagrams : Decoded(d)' = {n \in PacketsOf(d) : payload[n] # None \/ Left(n)}
        /\ \A d : \A n \in PacketsOf(d) : n \in Indices /\ captured[n].frag.dg = d
    <2>1. DecodedOnOwn
      BY <1>1, OwnPackets
    <2>2. DecodedOnOwn'
      <3>1. (Shapes /\ Decodes => DecodedOnOwn)'
        BY OwnPackets, PTL
      <3> QED BY <1>1, <1>5, <3>1
    <2>3. \A d : \A n \in PacketsOf(d) : n \in Indices /\ captured[n].frag.dg = d
      BY DEF PacketsOf, Indices
    <2>4. \A n \in Indices : payload'[n] # None <=> payload[n] # None \/ Left(n)
      BY <1>3, <1>4
    <2>5. \A d \in Datagrams : Decoded(d)' = {n \in PacketsOf(d) : payload'[n] # None}
      BY <1>2, <2>2 DEF DecodedOnOwn
    <2>6. \A d \in Datagrams : Decoded(d)' = {n \in PacketsOf(d) : payload[n] # None \/ Left(n)}
      BY <2>3, <2>4, <2>5
    <2> QED BY <2>1, <2>3, <2>6 DEF DecodedOnOwn
  <1>7. Completes'
    <2>1. \A d \in Datagrams : Full(d) => Full(d)'
      BY <1>3, <1>6 DEF Full
    <2> QED BY <1>1, <1>2, <2>1 DEF Completes
  \* The first cell of a datagram is in one packet at most when nothing was captured twice.
  <1>8. ASSUME NEW d \in Datagrams, Apart(d), NEW m \in PacketsOf(d), NEW n \in PacketsOf(d),
               Covers(captured[m].frag, 1), Covers(captured[n].frag, 1)
        PROVE  m = n
    <2>1. captured[m].frag \in Fragment /\ captured[n].frag \in Fragment
      BY <1>1, <1>6 DEF Shapes
    <2>2. \A g \in Fragment : g.off \in Nat /\ g.len \in Nat
      BY FragmentAssumption
    <2>3. ~Disjoint(captured[m].frag, captured[n].frag)
      BY <1>8, <2>1, <2>2 DEF Disjoint, Covers
    <2> QED BY <1>8, <2>3 DEF Apart
  <1>9. ASSUME NEW n \in Indices, Left(n)
        PROVE  Covers(captured[n].frag, 1) /\ info[n]
    <2>1. captured[n].frag \in Fragment /\ captured[n].frag.off = 0
      BY <1>1, <1>9 DEF Left, Shapes
    <2>2. captured[n].frag.len \in Nat \ {0}
      BY <2>1, FragmentAssumption
    <2> QED BY <1>1, <1>9, <2>1, <2>2 DEF Covers, Left, Waits
  <1>10. Once'
    <2> SUFFICES ASSUME NEW d \in Datagrams, Apart(d), NEW m \in Decoded(d)', NEW n \in Decoded(d)'
                 PROVE  m = n
      BY <1>2 DEF Once
    <2>1. \A i, j \in Decoded(d) : i = j
      BY <1>1 DEF Once
    <2>2. ASSUME NEW i \in Decoded(d), NEW j \in PacketsOf(d), Left(j)
          PROVE  FALSE
      <3>1. i \in Indices /\ payload[i] # None /\ captured[i].frag.dg = d /\ 1 \in 1..Length[d]
        <4>1. Length[d] \in Nat \ {0}
          BY FragmentAssumption
        <4> QED BY <1>6, <4>1
      <3>2. PICK p \in PacketsOf(d) : Covers(captured[p].frag, 1) /\ ~info[p]
        BY <1>1, <3>1 DEF Decodes
      <3>3. Covers(captured[j].frag, 1) /\ info[j]
        BY <1>6, <1>9, <2>2
      <3> QED BY <1>8, <3>2, <3>3
    <2>3. CASE m \in Decoded(d) /\ n \in Decoded(d)
      BY <2>1, <2>3
    <2>4. CASE m \notin Decoded(d)
      <3>1. m \in PacketsOf(d) /\ Left(m) /\ n \in PacketsOf(d)
        BY <1>6, <2>4
      <3>2. Left(n)
        BY <1>6, <2>2, <3>1
      <3> QED BY <1>6, <1>8, <1>9, <3>1, <3>2
    <2>5. CASE n \notin Decoded(d)
      <3>1. n \in PacketsOf(d) /\ Left(n) /\ m \in PacketsOf(d)
        BY <1>6, <2>5
      <3>2. Left(m)
        BY <1>6, <2>2, <3>1
      <3> QED BY <1>6, <1>8, <1>9, <3>1, <3>2
    <2> QED BY <2>3, <2>4, <2>5
  <1>11. FallbackUsed'
    <2> SUFFICES ASSUME NEW d \in Datagrams, ~Complete(d), Prompt(d), KeyNotReused(d),
                        NEW m \in PacketsOf(d), captured[m].frag.off = 0
                 PROVE  m \in Decoded(d)'
      BY <1>1, <1>2 DEF FallbackUsed, Stump
    <2>1. Decoded(d) = {}
      <3> SUFFICES ASSUME NEW i \in Decoded(d)
                   PROVE  FALSE
        OBVIOUS
      <3>1. i \in Indices /\ payload[i] # None /\ captured[i].frag.dg = d
        BY <1>6
      <3>2. \A c \in 1..Length[d] : \E n \in PacketsOf(d) : Covers(captured[n].frag, c)
        BY <1>1, <3>1 DEF Decodes
      <3> QED BY <1>1, <3>2, CompleteIs
    <2>2. ~Full(d)
      BY <2>1 DEF Full
    <2>3. m \in Range(pending[Key[d]]) /\ Key[d] \in Keys
      BY <1>1, <2>2 DEF Completes, Keys
    <2>4. Left(m)
      BY <2>3 DEF Left
    <2> QED BY <1>6, <2>4
  <1>12. Waits'
    BY <1>1 DEF Waits
  <1>13. \A n \in 1..Len(payload) : payload[n] # None => payload'[n] = payload[n]
    <2>1. Len(payload) = Len(captured)
      BY <1>1, AppendTo DEF Shapes, Indices
    <2> QED BY <1>3, <2>1 DEF Indices
  <1> QED BY <1>1, <1>5, <1>7, <1>10, <1>11, <1>12, <1>13 DEF FragmentInv

\* The inductive invariant of reassemble_fragments holds in every reachable state:
\* what waits is of one datagram, what was decoded is its own, and nothing is lost.
THEOREM FragmentInvariance == FragmentSpec => []FragmentInv
  <1>1. FragmentInit => FragmentInv
    BY FragmentInitInv
  <1>2. FragmentInv /\ [FragmentNext]_fragmentVars => FragmentInv'
    <2> SUFFICES ASSUME FragmentInv, [FragmentNext]_fragmentVars PROVE FragmentInv'
      OBVIOUS
    <2>1. ASSUME UNCHANGED <<captured, pending, info, payload, finished>>, now' \in Nat
          PROVE  FragmentInv'
      <3>1. \A d : /\ PacketsOf(d)' = PacketsOf(d) /\ Decoded(d)' = Decoded(d)
                   /\ (Complete(d)' <=> Complete(d)) /\ (Prompt(d)' <=> Prompt(d))
                   /\ (KeyNotReused(d)' <=> KeyNotReused(d)) /\ (Apart(d)' <=> Apart(d)) /\ (Full(d)' <=> Full(d))
        BY <2>1 DEF PacketsOf, Decoded, Complete, Prompt, KeyNotReused, Apart, Full
      <3>2. Shapes'
        BY <2>1 DEF FragmentInv, Shapes, Indices
      <3>3. Waits' /\ Decodes'
        BY <2>1, <3>1 DEF FragmentInv, Waits, Decodes, Indices
      <3>4. Completes' /\ Once'
        BY <2>1, <3>1 DEF FragmentInv, Completes, Once
      <3>5. FallbackUsed'
        BY <2>1, <3>1 DEF FragmentInv, FallbackUsed, Stump
      <3> QED BY <3>2, <3>3, <3>4, <3>5 DEF FragmentInv
    <2>2. CASE UNCHANGED fragmentVars
      BY <2>1, <2>2 DEF FragmentInv, Shapes, fragmentVars
    <2>3. CASE Tick
      BY <2>1, <2>3 DEF FragmentInv, Shapes, Tick
    <2>4. CASE Finish
      BY <2>4, FinishKeeps
    <2>5. ASSUME NEW f \in Fragment, Capture(f) PROVE FragmentInv'
      BY <2>5, CaptureKeeps
    <2> QED BY <2>2, <2>3, <2>4, <2>5 DEF FragmentNext
  <1> QED BY <1>1, <1>2, PTL DEF FragmentSpec

\* Whatever was lost, repeated, reordered or sent again under the same
\* identification, what the L4 parsers get is the beginning of one datagram that
\* a host sent (_try_assemble and reassemble_fragments, capture.py).
THEOREM PayloadsArePure == FragmentSpec => []PayloadsPure
  <1>1. FragmentInv => PayloadsPure
    <2> SUFFICES ASSUME FragmentInv, NEW n \in 1..Len(payload), payload[n] # None
                 PROVE  \E d \in Datagrams : \E len \in 1..Length[d] : payload[n] = Cells(d, len)
      BY DEF PayloadsPure
    <2>1. n \in Indices
      BY AppendTo DEF FragmentInv, Shapes, Indices
    <2>2. captured[n].frag.dg \in Datagrams
      BY <2>1, FragmentAssumption DEF FragmentInv, Shapes
    <2> QED BY <2>1, <2>2 DEF FragmentInv, Decodes
  <1> QED BY <1>1, FragmentInvariance, PTL

\* A datagram all of which was captured in time is decoded in full: no order of
\* its fragments, no overlap and no other user of its identification prevents
\* reassemble_fragments from putting it together.
THEOREM CompleteIsAlwaysDecoded == FragmentSpec => []CompleteIsDecoded
  <1>1. FragmentInv => CompleteIsDecoded
    BY DEF FragmentInv, Completes, CompleteIsDecoded, Full
  <1> QED BY <1>1, FragmentInvariance, PTL

\* The last loop of reassemble_fragments decodes the first fragment of every
\* datagram that stayed incomplete and whose identification was not used again:
\* loss, repetitions, overlaps and other datagrams never take it from the loop.
THEOREM FallbackIsUsed == FragmentSpec => []FallbackUsed
  <1>1. FragmentInv => FallbackUsed
    BY DEF FragmentInv
  <1> QED BY <1>1, FragmentInvariance, PTL

\* A datagram of which nothing was captured twice is handed to the L4 parsers at
\* most once by reassemble_fragments, reassembly and last pass together.
THEOREM IsParsedOnce == FragmentSpec => []ParsedOnce
  <1>1. FragmentInv => ParsedOnce
    <2> SUFFICES ASSUME FragmentInv, NEW d \in Datagrams, Apart(d)
                 PROVE  Cardinality(Decoded(d)) <= 1
      BY DEF ParsedOnce, Apart
    <2>1. \A m, n \in Decoded(d) : m = n
      BY DEF FragmentInv, Once
    <2>2. CASE Decoded(d) = {}
      BY <2>2, FS_EmptySet
    <2>3. ASSUME NEW n \in Decoded(d)
          PROVE  Cardinality(Decoded(d)) <= 1
      <3>1. Decoded(d) = {n}
        BY <2>1
      <3>2. \A x : Cardinality({x}) = 1
        BY FS_Singleton
      <3>3. Cardinality(Decoded(d)) = 1
        BY <3>1, <3>2
      <3> QED BY <3>3
    <2> QED BY <2>2, <2>3
  <1> QED BY <1>1, FragmentInvariance, PTL

\* A packet that carries a decoded datagram carries it for good: fragments that
\* come later, use the identification again or repeat others, and the pass over
\* what is left, never take it back (reassemble_fragments, capture.py).
THEOREM DecodedStaysAlways == FragmentSpec => DecodedStays
  <1>1. ASSUME FragmentInv, FragmentNext
        PROVE  \A n \in 1..Len(payload) : payload[n] # None => payload'[n] = payload[n]
    <2>1. CASE Tick
      BY <2>1 DEF Tick
    <2>2. CASE Finish
      BY <1>1, <2>2, FinishKeeps
    <2>3. ASSUME NEW f \in Fragment, Capture(f)
          PROVE  \A n \in 1..Len(payload) : payload[n] # None => payload'[n] = payload[n]
      BY <1>1, <2>3, CaptureKeeps
    <2> QED BY <1>1, <2>1, <2>2, <2>3 DEF FragmentNext
  <1> QED BY <1>1, FragmentInvariance, PTL DEF FragmentSpec, DecodedStays
=============================================================================
