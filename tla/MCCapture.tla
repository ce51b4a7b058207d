----------------------------- MODULE MCCapture -----------------------------
(* From a file to datagrams: the blocks of a pcapng file (PcapNg) and the   *)
(* fragments among its packets (Fragments).  reassemble_fragments takes the *)
(* finished list of _read_pcapng and nothing of its state, so a behaviour   *)
(* follows one of the two.                                                  *)
EXTENDS PcapNg, Fragments

VARIABLE subject

\* Interfaces that differ from the default in their resolution or their link type.
Interface(link, resolution) == [link |-> link, resolution |-> resolution]
MCDefault == Interface("ethernet", "us")
MCInterfaces == {MCDefault, Interface("ethernet", "ns"), Interface("sll", "us")}

\* Datagrams 1 and 2 use the same identification, 1 is cut in two overlapping
\* ways (as after a second router), 3 is of another flow.
MCDatagrams == 1..3
MCKey == <<"a", "a", "b">>
MCLength == <<3, 2, 2>>
Piece(d, off, len) == [dg |-> d, off |-> off, len |-> len, more |-> off + len < MCLength[d]]
MCFragment == {Piece(1, 0, 1), Piece(1, 1, 1), Piece(1, 0, 2), Piece(1, 2, 1),
               Piece(2, 0, 1), Piece(2, 1, 1), Piece(3, 0, 1), Piece(3, 1, 1)}

mcVars == <<vars, fragmentVars, subject>>

MCInit ==
    /\ Init /\ FragmentInit
    /\ subject \in {"blocks", "fragments"}
    /\ subject = "fragments" => endian = "<"

MCNext ==
    \/ subject = "blocks" /\ Next /\ UNCHANGED <<fragmentVars, subject>>
    \/ subject = "fragments" /\ FragmentNext /\ UNCHANGED <<vars, subject>>

MCSpec == MCInit /\ [][MCNext]_mcVars
=============================================================================
