------------------------------- MODULE PcapNg -------------------------------
(***************************************************************************)
(* _read_pcapng, capture.py: packets out of the blocks of a pcapng file,   *)
(* which may hold several sections (files that were concatenated or        *)
(* merged), each with a byte order and interfaces of its own.              *)
(*                                                                         *)
(* A step is one block, as the writer puts it in the file and the reader   *)
(* takes it from there; the writer is external.                            *)
(***************************************************************************)
EXTENDS Integers, SequencesExt

CONSTANTS Orders,      \* byte orders: "<" and ">"
          Interfaces,  \* [link, resolution] that a section may describe
          Default,     \* what the reader assumes of an unknown interface
          MaxBlocks    \* bound: blocks in the file

ASSUME PcapNgAssumption == "<" \in Orders /\ MaxBlocks \in Nat

VARIABLES section,             \* of the writer: [order, described]
          written,             \* packets of the file so far: interface of each
          blocks,              \* blocks so far
          endian, interfaces,  \* of the reader
          number,              \* packets numbered so far
          packets,             \* [number, interface, timed]
          status               \* "reading", "ended" (quietly) or "failed" (ValueError)

writer == <<section, written, blocks>>
reader == <<endian, interfaces, number, packets, status>>
vars == <<writer, reader>>

\* A file that starts with a section header; it is the first thing read.
Init ==
    /\ \E order \in Orders : section = [order |-> order, described |-> <<>>] /\ endian = order
    /\ written = <<>> /\ blocks = 1
    /\ interfaces = <<>> /\ number = 0 /\ packets = <<>> /\ status = "reading"

\* The lengths of a block and its type make sense in the byte order of its section.
Readable == endian = section.order

Block ==
    /\ status = "reading" /\ blocks < MaxBlocks
    /\ blocks' = blocks + 1

\* Wrong on purpose: the interfaces of the last section are still there.
SectionReadKept(order) ==
    /\ endian' = order
    /\ UNCHANGED <<interfaces, number, packets, status>>

\* The byte-order magic decides how the rest of the section is read.
SectionRead(order) ==
    /\ endian' = order /\ interfaces' = <<>>
    /\ UNCHANGED <<number, packets, status>>

SectionHeader ==
    /\ Block
    /\ \E order \in Orders :
          /\ section' = [order |-> order, described |-> <<>>]
          /\ SectionRead(order)
    /\ UNCHANGED written

\* A magic that is neither byte order fails the whole file.
BadMagic ==
    /\ Block
    /\ status' = "failed"
    /\ UNCHANGED <<section, written, endian, interfaces, number, packets>>

InterfaceRead(interface) ==
    /\ interfaces' = IF Readable THEN Append(interfaces, interface) ELSE interfaces
    /\ status' = IF Readable THEN status ELSE "failed"
    /\ UNCHANGED <<endian, number, packets>>

InterfaceDescription ==
    /\ Block
    /\ \E i \in Interfaces :
          /\ section' = [order |-> section.order, described |-> Append(section.described, i)]
          /\ InterfaceRead(i)
    /\ UNCHANGED written

\* Of interface i, counted from 1 here and from 0 in the file.
Packet(i, timed) ==
    [number |-> number + 1, timed |-> timed,
     interface |-> IF i \in DOMAIN interfaces THEN interfaces[i] ELSE Default]

PacketRead(i, timed) ==
    /\ number' = IF Readable THEN number + 1 ELSE number
    /\ packets' = IF Readable THEN Append(packets, Packet(i, timed)) ELSE packets
    /\ status' = IF Readable THEN status ELSE "failed"
    /\ UNCHANGED <<endian, interfaces>>

\* A packet of an interface that the section has described before.
EnhancedPacket ==
    /\ Block
    /\ \E i \in DOMAIN section.described :
          /\ written' = Append(written, section.described[i])
          /\ PacketRead(i, TRUE)
    /\ UNCHANGED section

\* A packet of the first interface, without a time.
SimpleRead == PacketRead(1, FALSE)

SimplePacket ==
    /\ Block
    /\ section.described # <<>>
    /\ written' = Append(written, section.described[1])
    /\ SimpleRead
    /\ UNCHANGED section

\* Statistics, name resolution, comments, or a packet whose captured length
\* exceeds its block: skipped, and the packet gets no number.
Skipped ==
    /\ Block
    /\ status' = IF Readable THEN status ELSE "failed"
    /\ UNCHANGED <<section, written, endian, interfaces, number, packets>>

\* The lengths at the two ends of a block differ: the packets read are lost too.
LengthsDiffer ==
    /\ Block
    /\ status' = "failed"
    /\ UNCHANGED <<section, written, endian, interfaces, number, packets>>

\* The file ends here, or inside a block that was being written.
EndOfFile ==
    /\ status = "reading"
    /\ status' = "ended"
    /\ UNCHANGED <<writer, endian, interfaces, number, packets>>

Next == \/ SectionHeader \/ BadMagic \/ InterfaceDescription \/ EnhancedPacket
        \/ SimplePacket \/ Skipped \/ LengthsDiffer \/ EndOfFile

Spec == Init /\ [][Next]_vars

-----------------------------------------------------------------------------
(* Properties.                                                             *)

TypeOK ==
    /\ endian \in Orders /\ section.order \in Orders
    /\ status \in {"reading", "ended", "failed"}
    /\ interfaces \in Seq(Interfaces) /\ section.described \in Seq(Interfaces)
    /\ number = Len(packets) /\ \A i \in DOMAIN packets : packets[i].number = i

\* Every packet of the file is read, also after a section of the other byte order,
\* up to where the file was cut off, and is decoded with the link type and the
\* clock of its own interface in its own section.
PacketsOfTheirInterface ==
    status # "failed" => [i \in DOMAIN packets |-> packets[i].interface] = written
=============================================================================
