------------------------------- MODULE MCText -------------------------------
(* From segments to descriptions: SIP messages out of a TCP stream          *)
(* (TcpStream) and the SDP in their bodies (Sdp).  parse_sdp is called with *)
(* a body that is whole, so a behaviour follows one of the two.             *)
EXTENDS TcpStream, Sdp

VARIABLE subject

\* Three messages of nine cells in all; their segments are cut inside the
\* header, between messages, and across several of them.  A second connection
\* has one short message; its numbers follow those of the first at once, are behind
\* them, or overlap them.
Second == <<<<"start", "blank">>>>
Plain == <<<<<<"start", "head", "blank">>, <<"start", "blank", "char", "char">>,
             <<"start", "blank">>>>, Second>>
\* The body of the second message has a character of two bytes.
Accented == <<<<<<"start", "head", "blank">>, <<"start", "blank", "lead", "cont">>,
                <<"start", "blank">>>>, Second>>
MCFirsts == <<{28}, {5, 22, 31}>>
Seg(off, len) == [conn |-> 1, off |-> off, len |-> len]
MCSegments == {[conn |-> 2, off |-> 0, len |-> 1], [conn |-> 2, off |-> 1, len |-> 1],
               Seg(0, 1), Seg(1, 3), Seg(0, 3), Seg(3, 2), Seg(5, 2), Seg(4, 3), Seg(2, 5),
               Seg(6, 3), Seg(7, 2), Seg(8, 1), Seg(0, 9), Seg(2, 2)}

mcVars == <<streamVars, sdpVars, subject>>

MCInit ==
    /\ Init /\ SdpInit
    /\ subject \in {"stream", "description"}
    /\ subject = "description" => onSipPort /\ \A c \in Connections : first[c] = Min(Firsts[c])

MCNext ==
    \/ subject = "stream" /\ Next /\ UNCHANGED <<sdpVars, subject>>
    \/ subject = "description" /\ SdpNext /\ UNCHANGED <<streamVars, subject>>

MCSpec == MCInit /\ [][MCNext]_mcVars
=============================================================================
