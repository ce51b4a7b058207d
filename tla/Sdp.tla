-------------------------------- MODULE Sdp ---------------------------------
(***************************************************************************)
(* parse_sdp, sdp.py, line by line, and what _is_hold of sip.py makes of   *)
(* it.  Each step is a line of a description that follows the grammar of   *)
(* RFC 4566: a session part, then media sections whose attributes come in  *)
(* any order.  Whoever writes it is external and knows what it means.      *)
(***************************************************************************)
EXTENDS Absence, Integers, SequencesExt

CONSTANTS Addresses,   \* connection addresses; Hold is the one of a held stream
          Hold,        \* 0.0.0.0
          Directions,  \* sendrecv, sendonly, recvonly, inactive
          Static,      \* payload types with a codec of their own: PCMU, PCMA, ...
          Dynamic,     \* those that need an rtpmap
          Codecs,      \* encoding names
          Formats,     \* format parameters
          MaxMedia     \* bound: media sections

ASSUME SdpAssumption ==
    /\ Hold \in Addresses /\ "sendrecv" \in Directions
    /\ MaxMedia \in Nat
    /\ Static \cap Dynamic = {}
    /\ None \notin UNION {Addresses, Directions, Static, Dynamic, Codecs, Formats}

PayloadTypes == Static \cup Dynamic

VARIABLES meant,    \* what the writer means: [session, media], each as written
          session,  \* session_ip of the parser
          media,    \* its media: [pts, connection, direction, codecs, fmtp]
          pending,  \* pending_fmtp
          done

sdpVars == <<meant, session, media, pending, done>>

Nothing == [p \in PayloadTypes |-> None]

SdpInit ==
    /\ meant = [connection |-> None, direction |-> None, media |-> <<>>]
    /\ session = None /\ media = <<>> /\ pending = Nothing /\ done = FALSE

Current == Len(media)
InSession == ~done /\ media = <<>>
InMedia == ~done /\ media # <<>>

-----------------------------------------------------------------------------
(* The session part.                                                       *)

SessionConnection ==
    /\ InSession /\ meant.connection = None
    /\ \E a \in Addresses : session' = a /\ meant' = [meant EXCEPT !.connection = a]
    /\ UNCHANGED <<media, pending, done>>

\* An attribute before the first media section is not looked at.
SessionAttribute ==
    /\ InSession /\ meant.direction = None
    /\ \E d \in Directions : meant' = [meant EXCEPT !.direction = d]
    /\ UNCHANGED <<session, media, pending, done>>

-----------------------------------------------------------------------------
(* A media section.                                                        *)

\* m=: the codecs of the static payload types are known at once.
MediaLine ==
    /\ ~done /\ Current < MaxMedia
    /\ \E pt \in PayloadTypes :
          /\ media' = Append(media,
                [pt |-> pt, connection |-> None, direction |-> "sendrecv", fmtp |-> None,
                 codec |-> IF pt \in Static THEN pt ELSE None])
          /\ meant' = [meant EXCEPT !.media = Append(@,
                [pt |-> pt, connection |-> None, direction |-> None, rtpmap |-> None, fmtp |-> None])]
    /\ UNCHANGED <<session, pending, done>>

ConnectionRead(a) == session' = session /\ media' = [media EXCEPT ![Current].connection = a]

Connection ==
    /\ InMedia /\ meant.media[Current].connection = None
    /\ \E a \in Addresses :
          /\ meant' = [meant EXCEPT !.media[Current].connection = a]
          /\ ConnectionRead(a)
    /\ UNCHANGED <<pending, done>>

Direction ==
    /\ InMedia /\ meant.media[Current].direction = None
    /\ \E d \in Directions :
          /\ meant' = [meant EXCEPT !.media[Current].direction = d]
          /\ media' = [media EXCEPT ![Current].direction = d]
    /\ UNCHANGED <<session, pending, done>>

\* Wrong on purpose: parameters that came first are not kept.
RtpmapReadAlone(pt, codec) ==
    media' = [media EXCEPT ![Current].codec = codec, ![Current].fmtp = None]

\* rtpmap: the codec takes the parameters that are pending for the payload type.
RtpmapRead(pt, codec) ==
    media' = [media EXCEPT ![Current].codec = codec, ![Current].fmtp = pending[pt]]

Rtpmap ==
    /\ InMedia /\ meant.media[Current].rtpmap = None
    /\ \E codec \in Codecs :
          /\ meant' = [meant EXCEPT !.media[Current].rtpmap = codec]
          /\ RtpmapRead(media[Current].pt, codec)
    /\ UNCHANGED <<session, pending, done>>

\* fmtp: kept for an rtpmap that follows, given to a codec that is known.
Fmtp ==
    /\ InMedia /\ meant.media[Current].fmtp = None
    /\ \E format \in Formats :
          /\ meant' = [meant EXCEPT !.media[Current].fmtp = format]
          /\ pending' = [pending EXCEPT ![media[Current].pt] = format]
          /\ media' = IF media[Current].codec # None
                      THEN [media EXCEPT ![Current].fmtp = format] ELSE media
    /\ UNCHANGED <<session, done>>

\* The connection of a medium without one is that of the session.
Inherit(m, i) == IF m.connection # None THEN m.connection ELSE session

End ==
    /\ InMedia
    /\ done' = TRUE
    /\ media' = [i \in DOMAIN media |-> [media[i] EXCEPT !.connection = Inherit(media[i], i)]]
    /\ UNCHANGED <<meant, session, pending>>

SdpNext ==
    \/ SessionConnection \/ SessionAttribute \/ MediaLine \/ Connection
    \/ Direction \/ Rtpmap \/ Fmtp \/ End

SdpSpec == SdpInit /\ [][SdpNext]_sdpVars

\* _is_hold
IsHold(m) == m.direction \in {"sendonly", "inactive"} \/ m.connection = Hold

-----------------------------------------------------------------------------
(* What the description means, RFC 4566 section 5.                         *)

Or(a, b) == IF a # None THEN a ELSE b
MeantConnection(i) == Or(meant.media[i].connection, meant.connection)
MeantDirection(i) == Or(meant.media[i].direction, Or(meant.direction, "sendrecv"))
MeantCodec(i) ==
    Or(meant.media[i].rtpmap, IF meant.media[i].pt \in Static THEN meant.media[i].pt ELSE None)

(* Properties.                                                             *)

Held(i) == MeantDirection(i) \in {"sendonly", "inactive"} \/ MeantConnection(i) = Hold

\* Where a medium is sent is what its section says, or else the session; it is
\* on hold when that is the address of a held stream, or the direction of its
\* section says so.  (What the session says of the direction is not read.)  A
\* codec has the name and the parameters that its own section gives it, before
\* or after its rtpmap and although another section uses the same payload type.
DescriptionFaithful ==
    done => \A i \in DOMAIN media :
        /\ media[i].connection = MeantConnection(i)
        /\ meant.direction = None \/ meant.media[i].direction # None =>
              (IsHold(media[i]) <=> Held(i))
        /\ media[i].codec = MeantCodec(i)
        /\ MeantCodec(i) # None /\ meant.media[i].fmtp # None =>
              media[i].fmtp = meant.media[i].fmtp

\* Parameters belong to the section that has them: a codec whose section has
\* none is reported with none (README.md: SDP with rtpmap and fmtp;
\* TECHNICAL_NOTES.md: codecs announced in SDP).
FormatOfOwnMedia ==
    done => \A i \in DOMAIN media : meant.media[i].fmtp = None => media[i].fmtp = None
=============================================================================
