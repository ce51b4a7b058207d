----------------------------- MODULE TextProofs -----------------------------
(***************************************************************************)
(* Proofs about the two readers of text.                                   *)
(*                                                                         *)
(* Sdp: for any addresses, directions, payload types, codecs, parameters   *)
(* and number of media, what is read is what was meant.                    *)
(*                                                                         *)
(* TcpStream: for any messages, segments, initial sequence numbers, losses *)
(* and order of capture, what was captured whole is reported and nothing   *)
(* else is.  The argument goes backwards from the code: text and messages, *)
(* chunks, the sorted segments, extended numbers, and the world of numbers *)
(* in which the bytes of all connections have one place each.              *)
(***************************************************************************)
EXTENDS Sdp, TcpStream, NumberLemmas, SequenceTheorems, FiniteSetTheorems, TLAPS

-----------------------------------------------------------------------------
(* Descriptions: Sdp.                                                      *)
-----------------------------------------------------------------------------
Given(set) == set \cup {None}

MeantMediumSet == [pt : PayloadTypes, connection : Given(Addresses), direction : Given(Directions),
                   rtpmap : Given(Codecs), fmtp : Given(Formats)]
MediumSet == [pt : PayloadTypes, connection : Given(Addresses), direction : Directions,
              codec : Given(Codecs \cup Static), fmtp : Given(Formats)]

SdpTypeOK ==
    /\ meant \in [connection : Given(Addresses), direction : Given(Directions), media : Seq(MeantMediumSet)]
    /\ session \in Given(Addresses)
    /\ media \in Seq(MediumSet) /\ Len(media) = Len(meant.media)
    /\ pending \in [PayloadTypes -> Given(Formats)]
    /\ done \in BOOLEAN

\* A medium as it was read against the same as it was written: the connection is
\* inherited only at the end, and parameters are known once there is a codec.
Read(i) ==
    /\ media[i].pt = meant.media[i].pt
    /\ media[i].connection = IF done THEN MeantConnection(i) ELSE meant.media[i].connection
    /\ media[i].direction = Or(meant.media[i].direction, "sendrecv")
    /\ media[i].codec = MeantCodec(i)
    /\ media[i].codec # None /\ meant.media[i].fmtp # None => media[i].fmtp = meant.media[i].fmtp

\* The parameters of the section being read wait for its rtpmap.
Kept == media # <<>> /\ meant.media[Current].fmtp # None =>
            pending[media[Current].pt] = meant.media[Current].fmtp

SdpInv ==
    /\ SdpTypeOK
    /\ session = meant.connection
    /\ \A i \in DOMAIN media : Read(i)
    /\ Kept

\* Nothing was read yet.
LEMMA SdpInitInv == ASSUME SdpInit PROVE SdpInv
  <1> USE DEF SdpInit, SdpInv
  <1>1. SdpTypeOK
    <2>1. meant.media \in Seq(MeantMediumSet) /\ media \in Seq(MediumSet)
      OBVIOUS
    <2>2. pending \in [PayloadTypes -> Given(Formats)]
      BY DEF Given, Nothing
    <2> QED BY <2>1, <2>2 DEF SdpTypeOK, Given
  <1> QED BY <1>1 DEF Kept

\* Outside a medium nothing is read of one.
LEMMA SessionInv == ASSUME SdpInv, SessionConnection \/ SessionAttribute PROVE SdpInv'
  <1> USE DEF SdpInv, SessionConnection, SessionAttribute, InSession
  <1>1. SdpTypeOK'
    BY DEF SdpTypeOK, Given
  <1>2. session' = meant'.connection
    BY DEF SdpTypeOK
  <1>3. DOMAIN media' = {}
    OBVIOUS
  <1>4. Kept'
    BY DEF Kept
  <1> QED BY <1>1, <1>2, <1>3, <1>4

\* An m= line opens a medium.
LEMMA MediaLineInv == ASSUME SdpInv, MediaLine PROVE SdpInv'
  <1>1. PICK pt \in PayloadTypes :
            /\ media' = Append(media,
                  [pt |-> pt, connection |-> None, direction |-> "sendrecv", fmtp |-> None,
                   codec |-> IF pt \in Static THEN pt ELSE None])
            /\ meant' = [meant EXCEPT !.media = Append(@,
                  [pt |-> pt, connection |-> None, direction |-> None, rtpmap |-> None, fmtp |-> None])]
    BY DEF MediaLine
  <1> DEFINE r == [pt |-> pt, connection |-> None, direction |-> "sendrecv", fmtp |-> None,
                   codec |-> IF pt \in Static THEN pt ELSE None]
             w == [pt |-> pt, connection |-> None, direction |-> None, rtpmap |-> None, fmtp |-> None]
  <1>2. /\ done' = done /\ session' = session /\ pending' = pending /\ ~done
        /\ meant'.connection = meant.connection /\ meant'.direction = meant.direction
        /\ meant'.media = Append(meant.media, w)
    BY <1>1 DEF MediaLine, SdpInv, SdpTypeOK
  <1>3. r \in MediumSet /\ w \in MeantMediumSet
    BY SdpAssumption DEF MediumSet, MeantMediumSet, Given
  <1>4. SdpTypeOK'
    <2>1. media' \in Seq(MediumSet) /\ meant.media \in Seq(MeantMediumSet)
      BY <1>1, <1>3 DEF SdpInv, SdpTypeOK
    <2>2. meant'.media \in Seq(MeantMediumSet) /\ Len(media') = Len(meant'.media)
      BY <1>1, <1>2, <1>3, <2>1 DEF SdpInv, SdpTypeOK
    <2>3. meant' = [connection |-> meant.connection, direction |-> meant.direction, media |-> meant'.media]
      BY <1>1, <1>2 DEF SdpInv, SdpTypeOK
    <2> QED BY <1>2, <2>1, <2>2, <2>3 DEF SdpInv, SdpTypeOK
  <1>5. PICK n \in Nat :
          /\ n = Len(media') /\ DOMAIN media' = 1..n /\ DOMAIN media = 1..(n - 1)
          /\ \A i \in DOMAIN media : media'[i] = media[i] /\ meant'.media[i] = meant.media[i]
          /\ media'[n] = r /\ meant'.media[n] = w
    BY <1>1, <1>2 DEF SdpInv, SdpTypeOK
  <1>6. Read(n)'
    <2>1. /\ r.pt = pt /\ r.connection = None /\ r.direction = "sendrecv"
          /\ r.codec = IF pt \in Static THEN pt ELSE None
          /\ w.pt = pt /\ w.connection = None /\ w.direction = None /\ w.rtpmap = None /\ w.fmtp = None
      OBVIOUS
    <2> HIDE DEF r, w
    <2>2. ~done'
      BY <1>2
    <2> QED BY <1>5, <2>1, <2>2 DEF Read, Or, MeantCodec
  <1>7. ASSUME NEW i \in DOMAIN media'
        PROVE  Read(i)'
    <2>1. CASE i \in DOMAIN media
      BY <1>2, <1>5, <2>1, ZenonT(30) DEF SdpInv, Read, MeantCodec
    <2> QED BY <1>5, <1>6, <2>1
  <1>8. Kept'
    BY <1>5 DEF Kept, Current
  <1> QED BY <1>2, <1>4, <1>7, <1>8 DEF SdpInv

-----------------------------------------------------------------------------
(* The lines of a section change one medium.                                *)

\* What r, the current medium as read, has to be if w is what is written of it.
Fits(r, w) ==
    /\ r.pt = w.pt /\ r.connection = w.connection
    /\ r.direction = Or(w.direction, "sendrecv")
    /\ r.codec = Or(w.rtpmap, IF w.pt \in Static THEN w.pt ELSE None)
    /\ r.codec # None /\ w.fmtp # None => r.fmtp = w.fmtp

\* The last medium is the one that attributes belong to.
LEMMA CurrentSection ==
  ASSUME SdpInv, InMedia
  PROVE  /\ Current \in DOMAIN media /\ Current \in Nat
         /\ DOMAIN media = 1..Current /\ DOMAIN meant.media = 1..Current
         /\ media[Current] \in MediumSet /\ meant.media[Current] \in MeantMediumSet
         /\ Fits(media[Current], meant.media[Current])
  <1>1. Current \in Nat /\ Current # 0
    BY DEF InMedia, Current, SdpInv, SdpTypeOK
  <1>2. /\ DOMAIN media = 1..Current /\ DOMAIN meant.media = 1..Current /\ Current \in DOMAIN media
        /\ media[Current] \in MediumSet /\ meant.media[Current] \in MeantMediumSet
    BY <1>1 DEF Current, SdpInv, SdpTypeOK
  <1>3. Fits(media[Current], meant.media[Current])
    BY <1>2 DEF InMedia, SdpInv, Read, Fits, MeantCodec
  <1> QED BY <1>1, <1>2, <1>3

\* A line that changes the last medium as it was meant keeps the invariant.
LEMMA SectionInv ==
  ASSUME SdpInv, InMedia, NEW r \in MediumSet, NEW w \in MeantMediumSet, Fits(r, w),
         media' = [media EXCEPT ![Current] = r],
         meant' = [meant EXCEPT !.media = [meant.media EXCEPT ![Current] = w]],
         session' = session, done' = done,
         pending' \in [PayloadTypes -> Given(Formats)],
         w.fmtp # None => pending'[r.pt] = w.fmtp
  PROVE  SdpInv'
  <1>1. PICK n \in Nat : /\ n = Current /\ n \in DOMAIN media
                         /\ DOMAIN media = 1..n /\ DOMAIN meant.media = 1..n
    BY CurrentSection
  <1>2. /\ DOMAIN media' = 1..n /\ media'[n] = r
        /\ \A i \in 1..n : i # n => media'[i] = media[i]
    BY <1>1
  <1>3. /\ meant'.connection = meant.connection /\ meant'.direction = meant.direction
        /\ meant'.media = [meant.media EXCEPT ![n] = w]
    BY <1>1 DEF SdpInv, SdpTypeOK
  <1>4. /\ DOMAIN meant'.media = 1..n /\ meant'.media[n] = w
        /\ \A i \in 1..n : i # n => meant'.media[i] = meant.media[i]
    BY <1>1, <1>3
  <1>5. media' \in Seq(MediumSet) /\ meant'.media \in Seq(MeantMediumSet)
    BY <1>1, <1>3 DEF SdpInv, SdpTypeOK
  <1>6. Len(media') = n /\ Len(meant'.media) = n
    BY <1>2, <1>4, <1>5
  <1>7. SdpTypeOK'
    <2>1. meant' = [connection |-> meant.connection, direction |-> meant.direction, media |-> meant'.media]
      BY <1>3 DEF SdpInv, SdpTypeOK
    <2> QED BY <1>5, <1>6, <2>1 DEF SdpInv, SdpTypeOK
  <1>8. ASSUME NEW i \in DOMAIN media'
        PROVE  Read(i)'
    <2>1. CASE i = n
      BY <1>2, <1>4, <2>1 DEF Read, Fits, InMedia, MeantCodec
    <2>2. CASE i # n
      <3>1. Read(i)
        BY <1>1, <1>2 DEF SdpInv
      <3> QED BY <1>2, <1>3, <1>4, <2>2, <3>1 DEF Read, MeantCodec, InMedia
    <2> QED BY <2>1, <2>2
  <1>9. Kept'
    BY <1>2, <1>4, <1>6 DEF Kept, Current
  <1> QED BY <1>3, <1>7, <1>8, <1>9 DEF SdpInv

\* A c= line.
LEMMA ConnectionInv == ASSUME SdpInv, Connection PROVE SdpInv'
  <1>1. PICK a \in Addresses : /\ meant' = [meant EXCEPT !.media[Current].connection = a]
                               /\ session' = session
                               /\ media' = [media EXCEPT ![Current].connection = a]
    BY DEF Connection, ConnectionRead
  <1> DEFINE r == [media[Current] EXCEPT !.connection = a]
             w == [meant.media[Current] EXCEPT !.connection = a]
  <1>2. InMedia /\ pending' = pending /\ done' = done
    BY DEF Connection
  <1>3. r \in MediumSet /\ w \in MeantMediumSet /\ Fits(r, w)
    BY <1>2, CurrentSection DEF MediumSet, MeantMediumSet, Given, Fits
  <1>4. /\ media' = [media EXCEPT ![Current] = r]
        /\ meant' = [meant EXCEPT !.media = [meant.media EXCEPT ![Current] = w]]
    BY <1>1, <1>2, CurrentSection DEF SdpInv, SdpTypeOK
  <1>5. w.fmtp # None => pending[r.pt] = w.fmtp
    BY <1>2, CurrentSection DEF SdpInv, Kept, InMedia, MediumSet, MeantMediumSet
  <1> QED BY <1>1, <1>2, <1>3, <1>4, <1>5, SectionInv DEF SdpInv, SdpTypeOK

\* A direction attribute.
LEMMA DirectionInv == ASSUME SdpInv, Direction PROVE SdpInv'
  <1>1. PICK d \in Directions : /\ meant' = [meant EXCEPT !.media[Current].direction = d]
                                /\ media' = [media EXCEPT ![Current].direction = d]
    BY DEF Direction
  <1> DEFINE r == [media[Current] EXCEPT !.direction = d]
             w == [meant.media[Current] EXCEPT !.direction = d]
  <1>2. InMedia /\ session' = session /\ pending' = pending /\ done' = done
    BY DEF Direction
  <1>3. r \in MediumSet /\ w \in MeantMediumSet /\ Fits(r, w)
    BY <1>2, CurrentSection, SdpAssumption DEF MediumSet, MeantMediumSet, Given, Fits, Or
  <1>4. /\ media' = [media EXCEPT ![Current] = r]
        /\ meant' = [meant EXCEPT !.media = [meant.media EXCEPT ![Current] = w]]
    BY <1>1, <1>2, CurrentSection DEF SdpInv, SdpTypeOK
  <1>5. w.fmtp # None => pending[r.pt] = w.fmtp
    BY <1>2, CurrentSection DEF SdpInv, Kept, InMedia, MediumSet, MeantMediumSet
  <1> QED BY <1>2, <1>3, <1>4, <1>5, SectionInv DEF SdpInv, SdpTypeOK

\* An rtpmap, for the current medium or none.
LEMMA RtpmapInv == ASSUME SdpInv, Rtpmap PROVE SdpInv'
  <1>1. PICK codec \in Codecs :
            /\ meant' = [meant EXCEPT !.media[Current].rtpmap = codec]
            /\ media' = [media EXCEPT ![Current].codec = codec,
                                      ![Current].fmtp = pending[media[Current].pt]]
    BY DEF Rtpmap, RtpmapRead
  <1> DEFINE r == [media[Current] EXCEPT !.codec = codec, !.fmtp = pending[media[Current].pt]]
             w == [meant.media[Current] EXCEPT !.rtpmap = codec]
  <1>2. InMedia /\ session' = session /\ pending' = pending /\ done' = done
    BY DEF Rtpmap
  <1>3. w.fmtp # None => pending[r.pt] = w.fmtp
    BY <1>2, CurrentSection DEF SdpInv, Kept, InMedia, MediumSet, MeantMediumSet
  <1>4. pending[media[Current].pt] \in Given(Formats)
    BY <1>2, CurrentSection DEF SdpInv, SdpTypeOK, MediumSet
  <1>5. r \in MediumSet /\ w \in MeantMediumSet
    BY <1>2, <1>4, CurrentSection DEF MediumSet, MeantMediumSet, Given
  <1>6. Fits(r, w)
    BY <1>2, <1>3, CurrentSection, SdpAssumption DEF Fits, Or, MediumSet, MeantMediumSet
  <1>7. /\ media' = [media EXCEPT ![Current] = r]
        /\ meant' = [meant EXCEPT !.media = [meant.media EXCEPT ![Current] = w]]
    BY <1>1, <1>2, CurrentSection DEF SdpInv, SdpTypeOK, MediumSet
  <1> QED BY <1>2, <1>3, <1>5, <1>6, <1>7, SectionInv DEF SdpInv, SdpTypeOK

\* An fmtp, before or after its rtpmap.
LEMMA FmtpInv == ASSUME SdpInv, Fmtp PROVE SdpInv'
  <1>1. PICK format \in Formats :
            /\ meant' = [meant EXCEPT !.media[Current].fmtp = format]
            /\ pending' = [pending EXCEPT ![media[Current].pt] = format]
            /\ media' = IF media[Current].codec # None
                        THEN [media EXCEPT ![Current].fmtp = format] ELSE media
    BY DEF Fmtp
  <1> DEFINE r == IF media[Current].codec # None THEN [media[Current] EXCEPT !.fmtp = format]
                  ELSE media[Current]
             w == [meant.media[Current] EXCEPT !.fmtp = format]
  <1>2. InMedia /\ session' = session /\ done' = done
    BY DEF Fmtp
  <1>3. r \in MediumSet /\ w \in MeantMediumSet /\ Fits(r, w) /\ r.pt = media[Current].pt
    BY <1>2, CurrentSection, SdpAssumption DEF MediumSet, MeantMediumSet, Given, Fits
  <1>4. /\ media' = [media EXCEPT ![Current] = r]
        /\ meant' = [meant EXCEPT !.media = [meant.media EXCEPT ![Current] = w]]
    <2>1. media \in Seq(MediumSet) /\ meant.media \in Seq(MeantMediumSet)
      BY DEF SdpInv, SdpTypeOK
    <2>2. media' = [media EXCEPT ![Current] = r]
      <3>1. CASE media[Current].codec # None
        BY <1>1, <3>1
      <3>2. CASE media[Current].codec = None
        <4>1. media' = media /\ r = media[Current]
          BY <1>1, <3>2
        <4>2. media = [i \in DOMAIN media |-> media[i]]
          BY <2>1
        <4> HIDE DEF r
        <4> QED BY <4>1, <4>2
      <3> QED BY <3>1, <3>2
    <2>3. meant' = [meant EXCEPT !.media = [meant.media EXCEPT ![Current] = w]]
      BY <1>1, <1>2, CurrentSection DEF SdpInv, SdpTypeOK
    <2> QED BY <2>2, <2>3
  <1>5. pending' \in [PayloadTypes -> Given(Formats)]
    BY <1>1 DEF SdpInv, SdpTypeOK, Given
  <1>6. w.fmtp # None => pending'[r.pt] = w.fmtp
    BY <1>1, <1>2, <1>3, CurrentSection DEF SdpInv, SdpTypeOK, MediumSet, MeantMediumSet
  <1> QED BY <1>2, <1>3, <1>4, <1>5, <1>6, SectionInv

\* The end of the body: media without a connection inherit that of the session.
LEMMA EndInv == ASSUME SdpInv, End PROVE SdpInv'
  <1>1. /\ ~done /\ done' /\ UNCHANGED <<meant, session, pending>>
        /\ media' = [i \in DOMAIN media |-> [media[i] EXCEPT !.connection = Inherit(media[i], i)]]
    BY DEF End, InMedia
  <1>2. /\ media \in Seq(MediumSet) /\ session \in Given(Addresses)
        /\ \A i \in DOMAIN media : media[i] \in MediumSet
    BY DEF SdpInv, SdpTypeOK
  <1>3. \A i \in DOMAIN media : media'[i] \in MediumSet
    BY <1>1, <1>2 DEF MediumSet, Inherit
  <1>4. media' \in Seq(MediumSet) /\ Len(media') = Len(media) /\ DOMAIN media' = DOMAIN media
    BY <1>1, <1>2, <1>3
  <1>5. SdpTypeOK'
    BY <1>1, <1>4 DEF SdpInv, SdpTypeOK, End
  <1>6. ASSUME NEW i \in DOMAIN media
        PROVE  Read(i)'
    <2>1. /\ media'[i].connection = Inherit(media[i], i)
          /\ media'[i].pt = media[i].pt /\ media'[i].direction = media[i].direction
          /\ media'[i].codec = media[i].codec /\ media'[i].fmtp = media[i].fmtp
      BY <1>1, <1>2 DEF MediumSet
    <2>2. Read(i) /\ session = meant.connection
      BY DEF SdpInv
    <2>3. media'[i].connection = MeantConnection(i)
      BY <1>1, <2>1, <2>2 DEF Read, Inherit, MeantConnection, Or
    <2> QED BY <1>1, <2>1, <2>2, <2>3 DEF Read, MeantConnection, MeantCodec
  <1>7. Kept'
    <2>1. media' # <<>> => Current \in DOMAIN media /\ media'[Current].pt = media[Current].pt
      BY <1>1, <1>2, <1>4 DEF Current, MediumSet
    <2>2. Current' = Current /\ (media' # <<>> => media # <<>>)
      BY <1>2, <1>4 DEF Current
    <2> QED BY <1>1, <2>1, <2>2 DEF Kept, SdpInv
  <1> QED BY <1>1, <1>4, <1>5, <1>6, <1>7 DEF SdpInv

\* Every line keeps the invariant.
LEMMA SdpNextInv == ASSUME SdpInv, [SdpNext]_sdpVars PROVE SdpInv'
  <1>1. CASE UNCHANGED sdpVars
    BY <1>1 DEF sdpVars, SdpInv, SdpTypeOK, Read, Kept, MeantConnection, MeantCodec, Current
  <1> QED BY <1>1, SessionInv, MediaLineInv, ConnectionInv, DirectionInv, RtpmapInv, FmtpInv, EndInv
          DEF SdpNext

\* The inductive invariant holds after every line: what was read so far is what was meant so far,
\* with the parameters whose codec is not known yet kept aside.
THEOREM SdpInvariance == SdpSpec => []SdpInv
  <1>1. SdpInit => SdpInv
    BY SdpInitInv
  <1>2. SdpInv /\ [SdpNext]_sdpVars => SdpInv'
    BY SdpNextInv
  <1> QED BY <1>1, <1>2, PTL DEF SdpSpec

\* Each medium has the connection, the direction, the codec and the parameters that
\* its description gives it, whatever the lines and their order (parse_sdp, sdp.py).
THEOREM DescriptionIsFaithful == SdpSpec => []DescriptionFaithful
  <1>1. ASSUME SdpInv, done, NEW i \in DOMAIN media
        PROVE  /\ media[i].connection = MeantConnection(i)
               /\ meant.direction = None \/ meant.media[i].direction # None =>
                     (IsHold(media[i]) <=> Held(i))
               /\ media[i].codec = MeantCodec(i)
               /\ MeantCodec(i) # None /\ meant.media[i].fmtp # None =>
                     media[i].fmtp = meant.media[i].fmtp
    <2>1. Read(i)
      BY <1>1 DEF SdpInv
    <2>2. meant.direction = None \/ meant.media[i].direction # None =>
              media[i].direction = MeantDirection(i)
      BY <2>1 DEF Read, MeantDirection, Or
    <2> QED BY <1>1, <2>1, <2>2 DEF Read, IsHold, Held
  <1>2. SdpInv => DescriptionFaithful
    BY <1>1 DEF DescriptionFaithful
  <1> QED BY <1>2, SdpInvariance, PTL

-----------------------------------------------------------------------------
(* Messages and streams.                                                   *)
-----------------------------------------------------------------------------
CellSet == [conn : Connections, msg : Nat, kind : Kinds]

\* Every character is one byte: what decoding to text takes for granted.
OneByte ==
    \A c \in Connections : \A m \in 1..Len(Messages[c]) : \A j \in 1..Len(Messages[c][m]) :
        Messages[c][m][j] \notin {"lead", "cont"}

\* The connections are numbered in the order they were made.
LEMMA ConnectionsAre == Len(Messages) \in Nat /\ Connections = 1..Len(Messages)
  BY TcpAssumption DEF Connections

\* The messages of a connection are sequences of kinds.
LEMMA MessagesAre ==
  ASSUME NEW c \in Connections
  PROVE  /\ Len(Messages[c]) \in Nat
         /\ \A m \in 1..Len(Messages[c]) :
               /\ Messages[c][m] \in Seq(Kinds)
               /\ Len(Messages[c][m]) \in Nat /\ Len(Messages[c][m]) >= 2
  <1>1. Messages[c] \in Seq(Seq(Kinds))
    BY TcpAssumption, ConnectionsAre, ElementOfSeq
  <1>2. ASSUME NEW m \in 1..Len(Messages[c])
        PROVE  Messages[c][m] \in Seq(Kinds) /\ Len(Messages[c][m]) \in Nat /\ Len(Messages[c][m]) >= 2
    <2>1. Messages[c][m] \in Seq(Kinds)
      BY <1>1, ElementOfSeq
    <2>2. \E b \in 2..Len(Messages[c][m]) : TRUE
      BY TcpAssumption DEF WellFormed
    <2>3. Len(Messages[c][m]) \in Nat
      BY <2>1
    <2> QED BY <2>1, <2>2, <2>3
  <1> QED BY <1>1, <1>2

\* So are the cells of one of them.
LEMMA CellsAre ==
  ASSUME NEW c \in Connections, NEW m \in 1..Len(Messages[c])
  PROVE  /\ Cells(c, m) \in Seq(CellSet)
         /\ Len(Cells(c, m)) = Len(Messages[c][m])
         /\ \A j \in 1..Len(Messages[c][m]) :
               Cells(c, m)[j] = [conn |-> c, msg |-> m, kind |-> Messages[c][m][j]]
  <1>1. Messages[c][m] \in Seq(Kinds) /\ Len(Messages[c][m]) \in Nat /\ m \in Nat
    BY MessagesAre
  <1>2. \A j \in 1..Len(Messages[c][m]) : [conn |-> c, msg |-> m, kind |-> Messages[c][m][j]] \in CellSet
    BY <1>1, ElementOfSeq DEF CellSet
  <1> QED BY <1>1, <1>2 DEF Cells

\* Sequences one after the other: each prefix of them appends one.
LEMMA FlattenUnfolds ==
  ASSUME NEW seqs, NEW n \in Nat, n > 0, Len(seqs) = n
  PROVE  \E f : /\ f = [i \in 1..n |-> IF i = 1 THEN seqs[i] ELSE f[i - 1] \o seqs[i]]
                /\ FlattenSeq(seqs) = f[n]
  <1> DEFINE Unfolds(f, m) == f = [i \in 1..m |-> IF i = 1 THEN seqs[i] ELSE f[i - 1] \o seqs[i]]
             T == {m \in Nat : \E f : Unfolds(f, m)}
  <1>1. 0 \in T
    <2>1. Unfolds([i \in 1..0 |-> <<>>], 0)
      OBVIOUS
    <2> QED BY <2>1
  <1>2. ASSUME NEW m \in Nat, m \in T
        PROVE  m + 1 \in T
    <2>1. PICK f : Unfolds(f, m)
      BY <1>2
    <2> DEFINE g == [i \in 1..(m + 1) |-> IF i <= m THEN f[i]
                                          ELSE IF i = 1 THEN seqs[i] ELSE f[i - 1] \o seqs[i]]
    <2>2. ASSUME NEW i \in 1..(m + 1)
          PROVE  g[i] = IF i = 1 THEN seqs[i] ELSE g[i - 1] \o seqs[i]
      <3>1. CASE i = 1 /\ i <= m
        <4>1. i \in 1..m /\ g[i] = f[i]
          BY <3>1
        <4> QED BY <2>1, <3>1, <4>1
      <3>2. CASE i # 1 /\ i <= m
        <4>1. i \in 1..m /\ i - 1 \in 1..(m + 1) /\ i - 1 <= m
          BY <3>2
        <4>2. g[i] = f[i] /\ g[i - 1] = f[i - 1]
          BY <4>1
        <4> QED BY <2>1, <3>2, <4>1, <4>2
      <3>3. CASE i = m + 1
        <4>1. ~(i <= m)
          BY <3>3
        <4>2. i # 1 => i - 1 \in 1..(m + 1) /\ i - 1 <= m
          BY <3>3
        <4>3. i # 1 => g[i - 1] = f[i - 1]
          BY <4>2
        <4>4. g[i] = IF i = 1 THEN seqs[i] ELSE f[i - 1] \o seqs[i]
          BY <4>1
        <4> QED BY <4>3, <4>4
      <3> QED BY <3>1, <3>2, <3>3
    <2> HIDE DEF g
    <2>3. g = [i \in 1..(m + 1) |-> g[i]]
      BY DEF g
    <2>4. Unfolds(g, m + 1)
      BY <2>2, <2>3
    <2> HIDE DEF Unfolds
    <2> QED BY <2>4
  <1>3. n \in T
    <2> HIDE DEF T
    <2>1. Nat \subseteq T
      BY <1>1, <1>2, NatSetInduction
    <2> QED BY <2>1
  <1> DEFINE chosen == CHOOSE f : Unfolds(f, n)
  <1>4. Unfolds(chosen, n)
    BY <1>3
  <1>5. FlattenSeq(seqs) = chosen[n]
    BY DEF FlattenSeq
  <1> QED BY <1>4, <1>5

\* Where the messages of a connection begin in its stream.
IsPlaces(c, at) ==
    /\ at \in [1..Len(Messages[c]) -> Nat]
    /\ \A m, k \in 1..Len(Messages[c]) : m < k => at[m] < at[k]
    /\ \A m \in 1..Len(Messages[c]) : \A j \in 1..Len(Messages[c][m]) :
          at[m] + j \in 1..Len(Stream[c]) /\ Stream[c][at[m] + j] = Cells(c, m)[j]
    /\ \A i \in 1..Len(Stream[c]) : \E m \in 1..Len(Messages[c]) :
          \E j \in 1..Len(Messages[c][m]) : i = at[m] + j

\* The first n messages make up these cells, and begin at these places.
Placed(c, n, cells, at) ==
    /\ cells \in Seq(CellSet)
    /\ \A m \in 1..n : at[m] \in Nat /\ at[m] < Len(cells)
    /\ \A m, k \in 1..n : m < k => at[m] < at[k]
    /\ \A m \in 1..n : \A j \in 1..Len(Messages[c][m]) :
          at[m] + j \in 1..Len(cells) /\ cells[at[m] + j] = Cells(c, m)[j]
    /\ \A i \in 1..Len(cells) : \E m \in 1..n : \E j \in 1..Len(Messages[c][m]) : i = at[m] + j

\* One more message.
LEMMA PlacedNext ==
  ASSUME NEW c \in Connections, NEW n \in Nat, n + 1 \in 1..Len(Messages[c]),
         NEW cells, NEW at, Placed(c, n, cells, at), at[n + 1] = Len(cells)
  PROVE  Placed(c, n + 1, cells \o Cells(c, n + 1), at)
  <1> DEFINE new == cells \o Cells(c, n + 1)
             len == Len(Messages[c][n + 1])
  <1>0. PICK size \in Nat : size = Len(cells) /\ at[n + 1] = size
    BY DEF Placed
  <1>1. PICK more \in Nat : more = len /\ more >= 2
    BY MessagesAre
  <1>2. /\ cells \in Seq(CellSet) /\ new \in Seq(CellSet)
        /\ Len(new) = size + more
        /\ \A i \in 1..size : new[i] = cells[i]
        /\ \A j \in 1..more : new[size + j] = Cells(c, n + 1)[j]
    <2>1. cells \in Seq(CellSet) /\ Cells(c, n + 1) \in Seq(CellSet) /\ Len(Cells(c, n + 1)) = more
      BY <1>1, CellsAre DEF Placed
    <2>2. /\ new \in Seq(CellSet) /\ Len(new) = size + more
          /\ \A i \in 1..(size + more) : new[i] = IF i <= size THEN cells[i] ELSE Cells(c, n + 1)[i - size]
      <3>1. /\ new \in Seq(CellSet) /\ Len(new) = Len(cells) + Len(Cells(c, n + 1))
            /\ \A i \in 1..(Len(cells) + Len(Cells(c, n + 1))) :
                  new[i] = IF i <= Len(cells) THEN cells[i] ELSE Cells(c, n + 1)[i - Len(cells)]
        BY <2>1, ConcatProperties
      <3> HIDE DEF new
      <3> QED BY <1>0, <2>1, <3>1
    <2>3. ASSUME NEW j \in 1..more
          PROVE  new[size + j] = Cells(c, n + 1)[j]
      <3>1. size + j \in 1..(size + more) /\ ~(size + j <= size) /\ (size + j) - size = j
        BY <1>0, <1>1
      <3> QED BY <2>2, <3>1
    <2> QED BY <1>0, <1>1, <2>1, <2>2, <2>3
  <1> HIDE DEF new
  <1>3. \A m \in 1..(n + 1) : m \in 1..n \/ m = n + 1
    OBVIOUS
  <1>4. \A m \in 1..n : at[m] \in Nat /\ at[m] < size
    BY <1>0 DEF Placed
  <1>5. \A m \in 1..(n + 1) : at[m] \in Nat /\ at[m] < Len(new)
    BY <1>0, <1>1, <1>2, <1>3, <1>4, SMTT(30)
  <1>6. ASSUME NEW m \in 1..(n + 1), NEW k \in 1..(n + 1), m < k
        PROVE  at[m] < at[k]
    <2>1. m \in 1..n
      BY <1>6
    <2>2. CASE k = n + 1
      BY <1>0, <1>4, <2>1, <2>2
    <2>3. CASE k \in 1..n
      BY <1>6, <2>1, <2>3 DEF Placed
    <2> QED BY <1>3, <2>2, <2>3
  <1>7. ASSUME NEW m \in 1..(n + 1), NEW j \in 1..Len(Messages[c][m])
        PROVE  at[m] + j \in 1..Len(new) /\ new[at[m] + j] = Cells(c, m)[j]
    <2>1. CASE m \in 1..n
      <3>1. PICK i \in 1..size : i = at[m] + j /\ cells[i] = Cells(c, m)[j]
        BY <1>0, <2>1 DEF Placed
      <3>2. i \in 1..Len(new) /\ new[i] = cells[i]
        BY <1>0, <1>1, <1>2, <3>1, SMTT(30)
      <3> QED BY <3>1, <3>2
    <2>2. CASE m = n + 1
      <3>1. j \in 1..more /\ at[m] = size
        BY <1>0, <1>1, <2>2
      <3>2. size + j \in 1..Len(new) /\ new[size + j] = Cells(c, n + 1)[j]
        BY <1>0, <1>1, <1>2, <3>1, SMTT(30)
      <3> QED BY <2>2, <3>1, <3>2
    <2> QED BY <1>3, <2>1, <2>2
  <1>8. ASSUME NEW i \in 1..Len(new)
        PROVE  \E m \in 1..(n + 1) : \E j \in 1..Len(Messages[c][m]) : i = at[m] + j
    <2>1. CASE i \in 1..size
      <3>1. PICK m \in 1..n : \E j \in 1..Len(Messages[c][m]) : i = at[m] + j
        BY <1>0, <2>1 DEF Placed
      <3>2. m \in 1..(n + 1)
        OBVIOUS
      <3> QED BY <3>1, <3>2
    <2>2. CASE i \notin 1..size
      <3>1. i - size \in 1..more /\ i = size + (i - size)
        BY <1>0, <1>1, <1>2, <2>2
      <3>2. n + 1 \in 1..(n + 1) /\ i - size \in 1..Len(Messages[c][n + 1]) /\ i = at[n + 1] + (i - size)
        BY <1>0, <1>1, <3>1
      <3> QED BY <3>2
    <2> QED BY <2>1, <2>2
  <1> QED BY <1>2, <1>5, <1>6, <1>7, <1>8 DEF Placed, new

\* The stream of a connection is its messages, one after the other.
LEMMA StreamIs ==
  ASSUME NEW c \in Connections
  PROVE  Stream[c] \in Seq(CellSet) /\ \E at : IsPlaces(c, at)
  <1> DEFINE n == Len(Messages[c])
             seqs == [m \in 1..n |-> Cells(c, m)]
  <1>0. n \in Nat /\ Stream[c] = FlattenSeq(seqs) /\ Len(seqs) = n
    BY MessagesAre DEF Stream
  <1>1. CASE n = 0
    <2>1. seqs = <<>>
      BY <1>0, <1>1
    <2>2. Stream[c] = <<>>
      BY <1>0, <1>1, <2>1 DEF FlattenSeq
    <2>3. IsPlaces(c, [m \in 1..n |-> 0])
      BY <1>1, <2>2 DEF IsPlaces
    <2> QED BY <2>2, <2>3
  <1>2. CASE n > 0
    <2> HIDE DEF n
    <2>1. PICK f : /\ f = [i \in 1..n |-> IF i = 1 THEN seqs[i] ELSE f[i - 1] \o seqs[i]]
                   /\ FlattenSeq(seqs) = f[n]
      BY <1>0, <1>2, FlattenUnfolds
    <2> DEFINE at == [m \in 1..n |-> IF m = 1 THEN 0 ELSE Len(f[m - 1])]
               T == {i \in Nat : i + 1 <= n => Placed(c, i + 1, f[i + 1], at)}
    <2>2. f[1] = Cells(c, 1) /\ \A i \in 2..n : f[i] = f[i - 1] \o Cells(c, i)
      <3>1. 1 \in 1..n /\ \A i \in 2..n : i \in 1..n /\ i # 1
        BY <1>0, <1>2
      <3> QED BY <2>1, <3>1
    <2>3. 0 \in T
      <3>1. Placed(c, 0, <<>>, at)
        BY DEF Placed
      <3>2. at[0 + 1] = Len(<<>>)
        BY <1>0, <1>2
      <3>3. 0 + 1 \in 1..Len(Messages[c])
        BY <1>0, <1>2 DEF n
      <3> HIDE DEF at
      <3>4. Placed(c, 0 + 1, <<>> \o Cells(c, 0 + 1), at)
        BY <3>1, <3>2, <3>3, PlacedNext
      <3>5. <<>> \o Cells(c, 1) = Cells(c, 1)
        BY <3>3, CellsAre, ConcatEmptySeq
      <3> QED BY <2>2, <3>4, <3>5
    <2>4. ASSUME NEW i \in Nat, i \in T
          PROVE  i + 1 \in T
      <3> SUFFICES ASSUME (i + 1) + 1 <= n
                   PROVE  Placed(c, (i + 1) + 1, f[(i + 1) + 1], at)
        OBVIOUS
      <3>1. Placed(c, i + 1, f[i + 1], at)
        BY <2>4, <1>0
      <3>2. (i + 1) + 1 \in 2..n /\ ((i + 1) + 1) - 1 = i + 1
        BY <1>0
      <3>3. at[(i + 1) + 1] = Len(f[i + 1])
        BY <1>0, <3>2
      <3>4. f[(i + 1) + 1] = f[i + 1] \o Cells(c, (i + 1) + 1)
        BY <2>2, <3>2
      <3>5. (i + 1) + 1 \in 1..Len(Messages[c])
        BY <1>0, <3>2 DEF n
      <3> HIDE DEF at
      <3> QED BY <3>1, <3>3, <3>4, <3>5, PlacedNext
    <2>5. Placed(c, n, f[n], at)
      <3> HIDE DEF T, at
      <3>1. Nat \subseteq T
        BY <2>3, <2>4, NatSetInduction
      <3>2. n - 1 \in T /\ (n - 1) + 1 = n
        BY <1>0, <1>2, <3>1
      <3> QED BY <1>0, <3>2 DEF T
    <2>6. f[n] = Stream[c]
      BY <1>0, <2>1
    <2>7. at \in [1..n -> Nat]
      <3>1. \A m \in 1..n : at[m] \in Nat
        BY <2>5 DEF Placed
      <3> QED BY <3>1
    <2> HIDE DEF at
    <2>8. IsPlaces(c, at)
      BY <2>5, <2>6, <2>7 DEF Placed, IsPlaces, n
    <2> QED BY <2>5, <2>6, <2>8 DEF Placed
  <1> QED BY <1>0, <1>1, <1>2

-----------------------------------------------------------------------------
(* The text of a chunk.                                                    *)
-----------------------------------------------------------------------------
\* The recursion of the loop defines it: there is one function that unfolds so.
LEMMA DecodeUnfolds ==
  ASSUME NEW data, NEW n \in Nat, Len(data) = n
  PROVE  \E upTo : /\ upTo = [k \in 0..n |->
                        IF k = 0 THEN <<>>
                        ELSE IF k > 1 /\ data[k].kind = "cont" /\ data[k - 1].kind = "lead" THEN upTo[k - 1]
                        ELSE Append(upTo[k - 1], data[k])]
                   /\ Decode(data) = upTo[n]
  <1> DEFINE Joins(k) == k > 1 /\ data[k].kind = "cont" /\ data[k - 1].kind = "lead"
             Unfolds(f, m) == f = [k \in 0..m |-> IF k = 0 THEN <<>>
                                                 ELSE IF Joins(k) THEN f[k - 1]
                                                 ELSE Append(f[k - 1], data[k])]
             T == {m \in Nat : \E f : Unfolds(f, m)}
  <1>1. 0 \in T
    <2>1. Unfolds([k \in 0..0 |-> <<>>], 0)
      OBVIOUS
    <2> QED BY <2>1
  <1>2. ASSUME NEW m \in Nat, m \in T
        PROVE  m + 1 \in T
    <2>1. PICK f : Unfolds(f, m)
      BY <1>2
    <2> DEFINE g == [k \in 0..(m + 1) |-> IF k <= m THEN f[k]
                                          ELSE IF Joins(k) THEN f[k - 1]
                                          ELSE Append(f[k - 1], data[k])]
    <2> HIDE DEF Joins
    <2>2. ASSUME NEW k \in 0..(m + 1)
          PROVE  g[k] = IF k = 0 THEN <<>> ELSE IF Joins(k) THEN g[k - 1] ELSE Append(g[k - 1], data[k])
      <3>1. CASE k = 0
        <4>1. k \in 0..m /\ g[k] = f[k]
          BY <3>1
        <4> QED BY <2>1, <3>1, <4>1
      <3>2. CASE k # 0 /\ k <= m
        <4>1. k \in 0..m /\ k - 1 \in 0..(m + 1) /\ k - 1 <= m
          BY <3>2
        <4>2. g[k] = f[k] /\ g[k - 1] = f[k - 1]
          BY <4>1
        <4> QED BY <2>1, <3>2, <4>1, <4>2
      <3>3. CASE k = m + 1
        <4>1. k - 1 \in 0..(m + 1) /\ k - 1 <= m /\ ~(k <= m) /\ k # 0
          BY <3>3
        <4>2. g[k - 1] = f[k - 1]
          BY <4>1
        <4>3. g[k] = IF Joins(k) THEN f[k - 1] ELSE Append(f[k - 1], data[k])
          BY <4>1
        <4> QED BY <4>1, <4>2, <4>3
      <3> QED BY <3>1, <3>2, <3>3
    <2> HIDE DEF g
    <2>3. g = [k \in 0..(m + 1) |-> g[k]]
      BY DEF g
    <2>4. Unfolds(g, m + 1)
      BY <2>2, <2>3
    <2> HIDE DEF Unfolds
    <2> QED BY <2>4
  <1>3. n \in T
    <2> HIDE DEF T
    <2>1. Nat \subseteq T
      BY <1>1, <1>2, NatSetInduction
    <2> QED BY <2>1
  <1> DEFINE chosen == CHOOSE f : Unfolds(f, n)
  <1>4. Unfolds(chosen, n)
    BY <1>3
  <1>5. Decode(data) = chosen[n]
    BY DEF Decode
  <1> QED BY <1>4, <1>5

\* Text of one byte to the character is as it was.
LEMMA DecodeIs ==
  ASSUME NEW data \in Seq(CellSet), \A i \in 1..Len(data) : data[i].kind # "cont"
  PROVE  Decode(data) = data
  <1>0. PICK n \in Nat : n = Len(data)
    OBVIOUS
  <1>1. PICK f : /\ f = [k \in 0..n |->
                        IF k = 0 THEN <<>>
                        ELSE IF k > 1 /\ data[k].kind = "cont" /\ data[k - 1].kind = "lead" THEN f[k - 1]
                        ELSE Append(f[k - 1], data[k])]
                 /\ Decode(data) = f[n]
    BY <1>0, DecodeUnfolds
  <1>2. f[0] = <<>> /\ \A k \in 1..n : f[k] = Append(f[k - 1], data[k])
    <2>1. f[0] = <<>>
      <3>1. 0 \in 0..n
        OBVIOUS
      <3> QED BY <1>1, <3>1
    <2>2. ASSUME NEW k \in 1..n
          PROVE  f[k] = Append(f[k - 1], data[k])
      <3>1. k \in 0..n /\ k # 0 /\ data[k].kind # "cont"
        BY <1>0
      <3> QED BY <1>1, <3>1
    <2> QED BY <2>1, <2>2
  <1> DEFINE Same(k) == /\ f[k] \in Seq(CellSet) /\ Len(f[k]) = k
                        /\ \A i \in 1..k : f[k][i] = data[i]
             T == {k \in Nat : k <= n => Same(k)}
  <1>3. 0 \in T
    <2>1. Same(0)
      BY <1>2, EmptySeq
    <2> QED BY <2>1
  <1>4. ASSUME NEW k \in Nat, k \in T
        PROVE  k + 1 \in T
    <2> SUFFICES ASSUME k + 1 <= n PROVE Same(k + 1)
      OBVIOUS
    <2>1. Same(k) /\ k + 1 \in 1..n /\ (k + 1) - 1 = k
      BY <1>4
    <2>2. f[k + 1] = Append(f[k], data[k + 1]) /\ data[k + 1] \in CellSet
      BY <1>0, <1>2, <2>1, ElementOfSeq
    <2>3. /\ f[k + 1] \in Seq(CellSet) /\ Len(f[k + 1]) = k + 1
          /\ f[k + 1][k + 1] = data[k + 1] /\ \A i \in 1..k : f[k + 1][i] = f[k][i]
      BY <2>1, <2>2, AppendProperties
    <2>4. \A i \in 1..(k + 1) : i \in 1..k \/ i = k + 1
      OBVIOUS
    <2> QED BY <2>1, <2>3, <2>4
  <1>5. Same(n)
    <2> HIDE DEF T, Same
    <2>1. Nat \subseteq T
      BY <1>3, <1>4, NatSetInduction
    <2> QED BY <2>1 DEF T
  <1> QED BY <1>0, <1>1, <1>5, SeqEqual

\* Find gives the first place of its kind.
LEMMA FindIs ==
  ASSUME NEW text \in Seq(CellSet), NEW kind, NEW from \in Nat \ {0}
  PROVE  \/ Find(text, kind, from) = None /\ \A i \in from..Len(text) : text[i].kind # kind
         \/ /\ Find(text, kind, from) \in from..Len(text) /\ Find(text, kind, from) # None
            /\ text[Find(text, kind, from)].kind = kind
            /\ \A i \in from..(Find(text, kind, from) - 1) : text[i].kind # kind
  <1> DEFINE places == {i \in from..Len(text) : text[i].kind = kind}
  <1>0. Len(text) \in Nat /\ None \notin Int
    BY TcpAssumption
  <1>1. CASE places = {}
    BY <1>1 DEF Find
  <1>2. CASE places # {}
    <2>1. places \subseteq Nat
      BY <1>0
    <2>2. PICK f : f = Min(places)
      OBVIOUS
    <2>3. f \in places /\ \A i \in places : f <= i
      BY <1>2, <2>1, <2>2, MinIs
    <2>4. Find(text, kind, from) = f
      BY <1>2, <2>2 DEF Find
    <2>5. f \in from..Len(text) /\ f # None /\ text[f].kind = kind
      BY <1>0, <2>3
    <2>6. ASSUME NEW i \in from..(f - 1), text[i].kind = kind
          PROVE  FALSE
      <3>1. i \in places /\ i < f
        BY <1>0, <2>5, <2>6
      <3> QED BY <1>0, <2>3, <2>5, <3>1
    <2> QED BY <2>4, <2>5, <2>6
  <1> QED BY <1>1, <1>2

\* A message has its blank line, and after it as many places as it says.
LEMMA MessageShape ==
  ASSUME NEW c \in Connections, NEW m \in 1..Len(Messages[c])
  PROVE  LET msg == Messages[c][m] IN
         \E b \in 2..Len(msg) :
            /\ msg[1] = "start" /\ msg[b] = "blank"
            /\ \A j \in 2..Len(msg) : msg[j] # "start"
            /\ \A j \in 1..(b - 1) : msg[j] # "blank"
            /\ ContentLength(msg) = Len(msg) - b
  <1> DEFINE msg == Messages[c][m]
  <1>0. PICK n \in Nat : n = Len(msg)
    BY MessagesAre
  <1>1. PICK b \in 2..n : /\ msg[1] = "start" /\ \A j \in 2..(b - 1) : msg[j] = "head"
                          /\ msg[b] = "blank" /\ \A j \in (b + 1)..n : msg[j] \in Body
    BY <1>0, TcpAssumption DEF WellFormed
  <1> HIDE DEF msg
  <1>2. \A j \in 1..n : j = 1 \/ j \in 2..(b - 1) \/ j = b \/ j \in (b + 1)..n
    BY <1>0
  <1>3. \A j \in 2..n : msg[j] # "start"
    BY <1>1, <1>2 DEF Body
  <1>4. \A j \in 1..(b - 1) : msg[j] # "blank"
    <2>1. \A j \in 1..(b - 1) : j = 1 \/ j \in 2..(b - 1)
      BY <1>0
    <2> QED BY <1>1, <2>1
  <1>5. {j \in 1..n : msg[j] \in Body} = (b + 1)..n
    <2>1. \A j \in (b + 1)..n : j \in 1..n
      BY <1>0
    <2>2. \A j \in 1..n : msg[j] \in Body => j \in (b + 1)..n
      BY <1>1, <1>2 DEF Body
    <2> QED BY <1>1, <2>1, <2>2
  <1>6. ContentLength(msg) = n - b
    <2>1. b + 1 \in Int /\ n \in Int
      OBVIOUS
    <2>2. Cardinality((b + 1)..n) = IF b + 1 > n THEN 0 ELSE n - (b + 1) + 1
      BY <2>1, FS_Interval
    <2>3. ContentLength(msg) = Cardinality((b + 1)..n)
      BY <1>0, <1>5 DEF ContentLength
    <2> QED BY <1>0, <2>2, <2>3
  <1> QED BY <1>0, <1>1, <1>3, <1>4, <1>6 DEF msg

\* From a start line, the message that follows as far as the text goes.
Follows(text, i, c, m) ==
    \A j \in 1..Len(Messages[c][m]) : i + j - 1 <= Len(text) => text[i + j - 1] = Cells(c, m)[j]

\* _extract_one_message finds the end of it, if the text goes so far.
LEMMA ExtractIs ==
  ASSUME NEW text \in Seq(CellSet), NEW i \in 1..Len(text),
         NEW c \in Connections, NEW m \in 1..Len(Messages[c]),
         text[i].conn = c, text[i].msg = m, Follows(text, i, c, m)
  PROVE  LET last == i + Len(Messages[c][m]) - 1 IN
         ExtractOneMessage(text, i) = IF last <= Len(text) THEN last ELSE None
  <1> DEFINE msg == Messages[c][m]
  <1>0a. PICK n \in Nat : n = Len(text) /\ i \in 1..n
    OBVIOUS
  <1>0b. PICK len \in Nat : len = Len(msg)
    BY MessagesAre
  <1>0. n = Len(text) /\ len = Len(msg) /\ i \in 1..n
    BY <1>0a, <1>0b
  <1>1. PICK b \in 2..len : /\ msg[b] = "blank" /\ \A j \in 1..(b - 1) : msg[j] # "blank"
                            /\ ContentLength(msg) = len - b
    BY <1>0, MessageShape
  <1>2. \A j \in 1..len : i + j - 1 <= n => text[i + j - 1].kind = msg[j]
    <2> TAKE j \in 1..len
    <2>1. Cells(c, m)[j] = [conn |-> c, msg |-> m, kind |-> msg[j]]
      BY <1>0, CellsAre
    <2> HIDE DEF msg
    <2>2. i + j - 1 <= n => text[i + j - 1] = Cells(c, m)[j]
      BY <1>0 DEF Follows, msg
    <2> QED BY <2>1, <2>2
  <1>3. PICK blank : blank = Find(text, "blank", i)
    OBVIOUS
  <1>4. \/ blank = None /\ \A k \in i..n : text[k].kind # "blank"
        \/ /\ blank \in i..n /\ blank # None /\ text[blank].kind = "blank"
           /\ \A k \in i..(blank - 1) : text[k].kind # "blank"
    <2>1. i \in Nat \ {0}
      BY <1>0
    <2> QED BY <1>0, <1>3, <2>1, FindIs
  <1>5. ExtractOneMessage(text, i) = IF blank = None THEN None
                                     ELSE IF blank + (len - b) > n THEN None ELSE blank + (len - b)
    BY <1>0, <1>1, <1>3 DEF ExtractOneMessage
  <1> HIDE DEF msg
  <1>6. ASSUME NEW k \in i..(i + b - 2), k <= n
        PROVE  text[k].kind # "blank"
    <2>1. k - i + 1 \in 1..len /\ k - i + 1 \in 1..(b - 1) /\ i + (k - i + 1) - 1 = k
      BY <1>0, <1>6
    <2> QED BY <1>1, <1>2, <1>6, <2>1
  <1>7. i + b - 1 <= n => text[i + b - 1].kind = "blank"
    <2>1. b \in 1..len
      BY <1>0
    <2> QED BY <1>1, <1>2, <2>1
  <1>8. CASE i + b - 1 <= n
    <2>1. i + b - 1 \in i..n
      BY <1>0, <1>8
    <2>2. blank \in i..n /\ blank # None /\ text[blank].kind = "blank"
      BY <1>4, <1>7, <1>8, <2>1
    <2>3. ~(blank < i + b - 1)
      <3>1. blank < i + b - 1 => blank \in i..(i + b - 2) /\ blank <= n
        BY <1>0, <2>2
      <3> QED BY <1>6, <2>2, <3>1
    <2>4. ~(blank > i + b - 1)
      <3>1. blank > i + b - 1 => i + b - 1 \in i..(blank - 1)
        BY <1>0, <2>2
      <3> QED BY <1>4, <1>7, <1>8, <2>2, <3>1
    <2>5. blank = i + b - 1
      BY <1>0, <2>2, <2>3, <2>4
    <2>6. blank + (len - b) = i + len - 1
      BY <1>0, <2>5
    <2>7. ExtractOneMessage(text, i) = IF i + len - 1 > n THEN None ELSE i + len - 1
      BY <1>5, <2>2, <2>6
    <2>8. i + len - 1 > n <=> ~(i + len - 1 <= n)
      BY <1>0
    <2> QED BY <1>0, <2>7, <2>8 DEF msg
  <1>9. CASE ~(i + b - 1 <= n)
    <2>1. \A k \in i..n : k \in i..(i + b - 2) /\ k <= n
      BY <1>0, <1>9
    <2>2. blank = None
      BY <1>4, <1>6, <2>1
    <2> QED BY <1>0, <1>5, <1>9, <2>2 DEF msg
  <1> QED BY <1>8, <1>9

-----------------------------------------------------------------------------
(* Chunks and the messages in them.  W[x] is the cell that the number x     *)
(* stands for, exts the extended numbers of the packets.                    *)
-----------------------------------------------------------------------------
SpanSet == [first : Nat, last : Nat, packet : Nat]
ChunkSet == [data : Seq(CellSet), spans : Seq(SpanSet)]
ReportSet == [raw : Seq(CellSet), anchor : Nat]

\* A packet that was captured carried this number.
Carried(exts, p, x) == p \in 1..Len(captured) /\ x \in exts[p]..(exts[p] + captured[p].len - 1)

\* The first number of a chunk and all of them.
Base(exts, d) == exts[d.spans[1].packet]
Run(exts, d) == Base(exts, d)..(Base(exts, d) + Len(d.data) - 1)

\* The cells of a chunk are those of consecutive numbers, its spans cover it, and
\* the packet of a span carried each number of it.
IsChunk(W, exts, d) ==
    /\ d \in ChunkSet /\ d.data # <<>> /\ d.spans # <<>> /\ Base(exts, d) \in Int
    /\ \A i \in 1..Len(d.data) : d.data[i] = W[Base(exts, d) + i - 1]
    /\ \A i \in 1..Len(d.data) : \E h \in 1..Len(d.spans) : i \in d.spans[h].first..d.spans[h].last
    /\ \A h \in 1..Len(d.spans) : \A i \in d.spans[h].first..d.spans[h].last :
          Carried(exts, d.spans[h].packet, Base(exts, d) + i - 1)

\* The message that begins at a start line, and that it does.
MessageAt(W, x) == Messages[W[x].conn][W[x].msg]
Begins(W, x) ==
    /\ W[x].conn \in Connections /\ W[x].msg \in 1..Len(Messages[W[x].conn])
    /\ \A j \in 1..Len(MessageAt(W, x)) : W[x + j - 1] = Cells(W[x].conn, W[x].msg)[j]

\* Of a set of numbers, those where a message begins all of which is in the set.
Whole(W, N) ==
    {x \in N : W[x].kind = "start" /\ \A j \in 1..Len(MessageAt(W, x)) : x + j - 1 \in N}

\* Reports of exactly the messages that begin at the numbers in S, in their order.
IsReport(W, exts, r, x) == r.raw = Cells(W[x].conn, W[x].msg) /\ Carried(exts, r.anchor, x)
Reported(W, exts, R, S) ==
    /\ R \in Seq(ReportSet)
    /\ \E num \in [1..Len(R) -> S] :
          /\ \A i, j \in 1..Len(R) : i < j => num[i] < num[j]
          /\ \A x \in S : \E i \in 1..Len(R) : num[i] = x
          /\ \A i \in 1..Len(R) : IsReport(W, exts, R[i], num[i])

\* Reports of one part and then of another that is after it.
LEMMA ReportedBoth ==
  ASSUME NEW W, NEW exts, NEW R, NEW Q, NEW S, NEW T, S \subseteq Int, T \subseteq Int,
         Reported(W, exts, R, S), Reported(W, exts, Q, T),
         \A x \in S, y \in T : x < y
  PROVE  Reported(W, exts, R \o Q, S \cup T)
  <1>1. PICK r \in Nat, q \in Nat : r = Len(R) /\ q = Len(Q)
    BY DEF Reported
  <1>2. PICK f \in [1..r -> S] :
          /\ \A i, j \in 1..r : i < j => f[i] < f[j]
          /\ \A x \in S : \E i \in 1..r : f[i] = x
          /\ \A i \in 1..r : IsReport(W, exts, R[i], f[i])
    BY <1>1 DEF Reported
  <1>3. PICK g \in [1..q -> T] :
          /\ \A i, j \in 1..q : i < j => g[i] < g[j]
          /\ \A x \in T : \E i \in 1..q : g[i] = x
          /\ \A i \in 1..q : IsReport(W, exts, Q[i], g[i])
    BY <1>1 DEF Reported
  <1>4. /\ R \o Q \in Seq(ReportSet) /\ Len(R \o Q) = r + q
        /\ \A i \in 1..(r + q) : (R \o Q)[i] = IF i <= r THEN R[i] ELSE Q[i - r]
    <2>1. R \in Seq(ReportSet) /\ Q \in Seq(ReportSet)
      BY DEF Reported
    <2> QED BY <1>1, <2>1, ConcatProperties
  <1> DEFINE num == [i \in 1..(r + q) |-> IF i <= r THEN f[i] ELSE g[i - r]]
  <1>5. ASSUME NEW i \in 1..(r + q)
        PROVE  \/ i \in 1..r /\ i <= r /\ num[i] = f[i] /\ f[i] \in S /\ (R \o Q)[i] = R[i]
               \/ i - r \in 1..q /\ ~(i <= r) /\ num[i] = g[i - r] /\ g[i - r] \in T /\ (R \o Q)[i] = Q[i - r]
    <2>1. CASE i <= r
      BY <1>2, <1>4, <2>1
    <2>2. CASE ~(i <= r)
      <3>1. i - r \in 1..q
        BY <1>1, <2>2
      <3> QED BY <1>3, <1>4, <2>2, <3>1
    <2> QED BY <2>1, <2>2
  <1>6. num \in [1..(r + q) -> S \cup T]
    <2>1. \A i \in 1..(r + q) : num[i] \in S \cup T
      BY <1>5
    <2> QED BY <2>1
  <1> HIDE DEF num
  <1>7. ASSUME NEW i \in 1..(r + q), NEW j \in 1..(r + q), i < j
        PROVE  num[i] < num[j]
    <2>1. CASE j <= r
      <3>1. i \in 1..r /\ j \in 1..r /\ num[i] = f[i] /\ num[j] = f[j]
        BY <1>5, <1>7, <2>1
      <3> QED BY <1>2, <1>7, <3>1
    <2>2. CASE ~(j <= r) /\ i <= r
      <3>1. num[i] \in S /\ num[j] \in T
        BY <1>5, <2>2
      <3> QED BY <3>1
    <2>3. CASE ~(j <= r) /\ ~(i <= r)
      <3>1. i - r \in 1..q /\ j - r \in 1..q /\ num[i] = g[i - r] /\ num[j] = g[j - r]
        BY <1>5, <2>3
      <3>2. i - r < j - r
        BY <1>7
      <3> QED BY <1>3, <3>1, <3>2
    <2> QED BY <2>1, <2>2, <2>3
  <1>8. ASSUME NEW x \in S \cup T
        PROVE  \E i \in 1..(r + q) : num[i] = x
    <2>1. CASE x \in S
      <3>1. PICK i \in 1..r : f[i] = x
        BY <1>2, <2>1
      <3>2. i \in 1..(r + q) /\ i <= r
        BY <3>1
      <3>3. num[i] = f[i]
        BY <3>2 DEF num
      <3> QED BY <3>1, <3>2, <3>3
    <2>2. CASE x \in T
      <3>1. PICK i \in 1..q : g[i] = x
        BY <1>3, <2>2
      <3>2. i + r \in 1..(r + q) /\ ~(i + r <= r) /\ (i + r) - r = i
        BY <3>1
      <3>3. num[i + r] = g[i]
        BY <3>2 DEF num
      <3> QED BY <3>1, <3>2, <3>3
    <2> QED BY <2>1, <2>2
  <1>9. ASSUME NEW i \in 1..(r + q)
        PROVE  IsReport(W, exts, (R \o Q)[i], num[i])
    <2>1. CASE i <= r
      BY <1>2, <1>5, <2>1
    <2>2. CASE ~(i <= r)
      BY <1>3, <1>5, <2>2
    <2> QED BY <2>1, <2>2
  <1>10. PICK all : all = R \o Q
    OBVIOUS
  <1>11. \E n \in [1..Len(all) -> S \cup T] :
            /\ \A i, j \in 1..Len(all) : i < j => n[i] < n[j]
            /\ \A x \in S \cup T : \E i \in 1..Len(all) : n[i] = x
            /\ \A i \in 1..Len(all) : IsReport(W, exts, all[i], n[i])
    BY <1>4, <1>6, <1>7, <1>8, <1>9, <1>10
  <1> QED BY <1>4, <1>10, <1>11 DEF Reported

\* No reports of no messages, and one of one.
LEMMA ReportedNone ==
  ASSUME NEW W, NEW exts
  PROVE  Reported(W, exts, <<>>, {})
  <1>1. [i \in 1..0 |-> 0] \in [1..0 -> {}]
    OBVIOUS
  <1>2. <<>> \in Seq(ReportSet) /\ Len(<<>>) = 0
    BY EmptySeq
  <1> QED BY <1>1, <1>2 DEF Reported

\* One report of one message.
LEMMA ReportedOne ==
  ASSUME NEW W, NEW exts, NEW r \in ReportSet, NEW x \in Int, IsReport(W, exts, r, x)
  PROVE  Reported(W, exts, <<r>>, {x})
  <1> DEFINE num == [i \in 1..1 |-> x]
  <1>1. num \in [1..1 -> {x}] /\ num[1] = x
    OBVIOUS
  <1>2. <<r>> \in Seq(ReportSet) /\ Len(<<r>>) = 1 /\ <<r>>[1] = r
    OBVIOUS
  <1>3. \A i \in 1..1 : i = 1
    OBVIOUS
  <1> HIDE DEF num
  <1> QED BY <1>1, <1>2, <1>3 DEF Reported

\* The anchor of a place in a chunk is a packet that carried it.
LEMMA AnchorIs ==
  ASSUME NEW W, NEW exts, NEW d, IsChunk(W, exts, d), NEW i \in 1..Len(d.data)
  PROVE  Carried(exts, Anchor(d.spans, i), Base(exts, d) + i - 1) /\ Anchor(d.spans, i) \in Nat
  <1> DEFINE holding == {h \in 1..Len(d.spans) : i \in d.spans[h].first..d.spans[h].last}
  <1>1. holding # {}
    BY DEF IsChunk
  <1>2. holding \subseteq Nat
    BY DEF IsChunk, ChunkSet
  <1>3. PICK h : h = Min(holding)
    OBVIOUS
  <1>4. h \in holding
    BY <1>1, <1>2, <1>3, MinIs
  <1>5. Anchor(d.spans, i) = d.spans[h].packet
    BY <1>1, <1>3 DEF Anchor
  <1>6. d.spans[h] \in SpanSet
    <2>1. d.spans \in Seq(SpanSet) /\ h \in 1..Len(d.spans)
      BY <1>4 DEF IsChunk, ChunkSet
    <2> QED BY <2>1, ElementOfSeq
  <1>7. Carried(exts, d.spans[h].packet, Base(exts, d) + i - 1)
    BY <1>4 DEF IsChunk
  <1> QED BY <1>5, <1>6, <1>7 DEF SpanSet

\* The messages of a chunk that begin before the cursor.
Passed(W, exts, d, cursor) == {x \in Whole(W, Run(exts, d)) : x < Base(exts, d) + cursor - 1}

\* One iteration of the loop over a chunk in which every start line begins a
\* message: it reports the next message, or there is none that is all there.
LEMMA ReportIs ==
  ASSUME NEW W, NEW exts, NEW d, IsChunk(W, exts, d),
         \A x \in Run(exts, d) : W[x].kind = "start" => Begins(W, x),
         NEW cursor \in 1..(Len(d.data) + 1), NEW out,
         Reported(W, exts, out, Passed(W, exts, d, cursor)),
         NEW t, t = Report(d.data, d.spans, [cursor |-> cursor, out |-> out])
  PROVE  \/ t = [cursor |-> cursor, out |-> out] /\ Passed(W, exts, d, cursor) = Whole(W, Run(exts, d))
         \/ \E next \in (cursor + 1)..(Len(d.data) + 1) : \E more :
               /\ t = [cursor |-> next, out |-> more]
               /\ Reported(W, exts, more, Passed(W, exts, d, next))
  <1> DEFINE text == d.data
             run == Run(exts, d)
             s == [cursor |-> cursor, out |-> out]
  <1>0. text \in Seq(CellSet) /\ d.spans \in Seq(SpanSet)
    BY DEF IsChunk, ChunkSet
  <1>1. PICK n \in Nat : n = Len(text)
    BY <1>0
  <1>2. PICK b \in Int : b = Base(exts, d)
    BY DEF IsChunk
  <1>3. run = b..(b + n - 1) /\ \A i \in 1..n : text[i] = W[b + i - 1]
    BY <1>1, <1>2 DEF IsChunk, Run
  <1>4. PICK start : start = Find(text, "start", cursor)
    OBVIOUS
  <1>5. \/ start = None /\ \A i \in cursor..n : text[i].kind # "start"
        \/ /\ start \in cursor..n /\ start # None /\ text[start].kind = "start"
           /\ \A i \in cursor..(start - 1) : text[i].kind # "start"
    <2>1. cursor \in Nat \ {0}
      BY <1>1
    <2> QED BY <1>0, <1>1, <1>4, <2>1, FindIs
  <1>6. s.cursor = cursor /\ s.out = out
    OBVIOUS
  <1>7. ASSUME NEW x \in Whole(W, run)
        PROVE  /\ x \in run /\ W[x].kind = "start"
               /\ \E k \in 1..n : x = b + k - 1 /\ text[k].kind = "start"
    <2>1. x \in run /\ W[x].kind = "start"
      BY DEF Whole
    <2>2. x - b + 1 \in 1..n /\ x = b + (x - b + 1) - 1
      BY <1>1, <1>2, <1>3, <2>1
    <2>3. text[x - b + 1] = W[x]
      BY <1>3, <2>2
    <2> QED BY <2>1, <2>2, <2>3
  <1>8. CASE start = None
    <2>1. t = s
      BY <1>4, <1>6, <1>8 DEF Report
    <2>2. ASSUME NEW x \in Whole(W, run)
          PROVE  x < b + cursor - 1
      <3>1. PICK k \in 1..n : x = b + k - 1 /\ text[k].kind = "start"
        BY <1>7
      <3>2. ~(k \in cursor..n)
        BY <1>5, <1>8, <3>1
      <3> QED BY <1>1, <1>2, <3>1, <3>2
    <2>3. Passed(W, exts, d, cursor) = Whole(W, run)
      BY <1>2, <2>2 DEF Passed
    <2> QED BY <2>1, <2>3
  <1>9. CASE start # None
    <2>1. /\ start \in cursor..n /\ start \in 1..n /\ text[start].kind = "start"
          /\ \A i \in cursor..(start - 1) : text[i].kind # "start"
      BY <1>1, <1>5, <1>9
    <2>2. PICK x0 \in Int : x0 = b + start - 1 /\ x0 \in run /\ W[x0] = text[start] /\ W[x0].kind = "start"
      <3>1. b + start - 1 \in run /\ W[b + start - 1] = text[start]
        BY <1>1, <1>2, <1>3, <2>1, SMTT(30)
      <3> QED BY <1>2, <2>1, <3>1
    <2>3. PICK c, m : c = W[x0].conn /\ m = W[x0].msg
      OBVIOUS
    <2>4. /\ c \in Connections /\ m \in 1..Len(Messages[c]) /\ MessageAt(W, x0) = Messages[c][m]
          /\ \A j \in 1..Len(Messages[c][m]) : W[x0 + j - 1] = Cells(c, m)[j]
      BY <2>2, <2>3 DEF Begins, MessageAt
    <2>5. PICK len \in Nat : len = Len(Messages[c][m]) /\ len >= 2
      BY <2>4, MessagesAre
    <2>a. /\ start \in Nat /\ cursor \in Nat /\ 1 <= cursor /\ cursor <= start /\ start <= n
          /\ x0 = b + start - 1 /\ b \in Int /\ x0 \in Int /\ n \in Nat /\ len \in Nat /\ len >= 2
      BY <1>1, <1>2, <2>1, <2>2, <2>5
    <2>6. \A j \in 2..len : W[x0 + j - 1].kind # "start"
      <3> TAKE j \in 2..len
      <3>1. j \in 1..len /\ Messages[c][m][j] # "start"
        <4>1. \A i \in 2..Len(Messages[c][m]) : Messages[c][m][i] # "start"
          BY <2>4, MessageShape
        <4> QED BY <2>5, <4>1
      <3>2. Cells(c, m)[j] = [conn |-> c, msg |-> m, kind |-> Messages[c][m][j]]
        BY <2>4, <2>5, <3>1, CellsAre
      <3>3. W[x0 + j - 1] = Cells(c, m)[j]
        BY <2>4, <2>5, <3>1
      <3> QED BY <3>1, <3>2, <3>3
    <2>7. Follows(text, start, c, m)
      <3> SUFFICES ASSUME NEW j \in 1..len, start + j - 1 <= n
                   PROVE  text[start + j - 1] = Cells(c, m)[j]
        BY <1>1, <2>5 DEF Follows
      <3>1. start + j - 1 \in 1..n /\ b + (start + j - 1) - 1 = x0 + j - 1
        BY <1>1, <1>2, <2>1, <2>2
      <3> QED BY <1>3, <2>4, <2>5, <3>1
    <2>8. PICK end : end = ExtractOneMessage(text, start)
      OBVIOUS
    <2>9. end = IF start + len - 1 <= n THEN start + len - 1 ELSE None
      BY <1>0, <1>1, <2>1, <2>2, <2>3, <2>4, <2>5, <2>7, <2>8, ExtractIs
    \* Of the messages from the cursor on, only the first can begin before its end.
    <2>10. ASSUME NEW x \in Whole(W, run), ~(x < b + cursor - 1), x < x0 + len
           PROVE  x = x0
      <3>1. PICK k \in 1..n : x = b + k - 1 /\ text[k].kind = "start"
        BY <1>7
      <3>2. k >= cursor
        BY <1>1, <1>2, <2>10, <3>1
      <3>3. ~(k < start)
        <4>1. k < start => k \in cursor..(start - 1)
          BY <1>1, <2>1, <3>1, <3>2
        <4> QED BY <2>1, <3>1, <4>1
      <3>4. ~(k > start)
        <4>1. k > start => k - start + 1 \in 2..len /\ x0 + (k - start + 1) - 1 = x
          <5>1. PICK z \in Int : z = x /\ z = b + k - 1 /\ z < x0 + len
            BY <2>a, <2>10, <3>1
          <5>2. k > start => k - start + 1 \in 2..len /\ x0 + (k - start + 1) - 1 = z
            BY <2>a, <5>1
          <5> QED BY <5>1, <5>2
        <4>2. W[x].kind = "start"
          BY <1>7
        <4> QED BY <2>6, <4>1, <4>2
      <3>5. k = start
        BY <2>1, <3>1, <3>3, <3>4
      <3> QED BY <2>2, <3>1, <3>5
    <2>11. CASE start + len - 1 <= n
      <3>1. end = start + len - 1 /\ end # None /\ end \in 1..n /\ end \in start..n /\ end \in Int
        <4>1. None \notin Int
          BY TcpAssumption
        <4>2. end = start + len - 1
          BY <2>9, <2>11
        <4> QED BY <1>1, <2>1, <2>5, <2>11, <4>1, <4>2, SMTT(30)
      <3> DEFINE r == [raw |-> SubSeq(text, start, end), anchor |-> Anchor(d.spans, start)]
      <3>2. t = [cursor |-> end + 1, out |-> Append(out, r)]
        BY <1>4, <1>6, <1>9, <2>8, <3>1 DEF Report
      <3>3. SubSeq(text, start, end) = Cells(c, m) /\ Cells(c, m) \in Seq(CellSet)
        <4>1. \A i \in start..end : text[i] \in CellSet
          <5>1. \A i \in start..end : i \in 1..n
            BY <1>1, <2>1, <3>1
          <5> QED BY <1>0, <1>1, <5>1, ElementOfSeq
        <4>2. PICK sub : sub = SubSeq(text, start, end)
          OBVIOUS
        <4>3. /\ sub \in Seq(CellSet)
              /\ Len(sub) = IF start <= end THEN end - start + 1 ELSE 0
              /\ \A i \in 1..(end - start + 1) : sub[i] = text[start + i - 1]
          <5>1. start \in Int /\ end \in Int
            BY <2>1, <3>1
          <5> QED BY <4>1, <4>2, <5>1, SubSeqProperties
        <4>4. Cells(c, m) \in Seq(CellSet) /\ Len(Cells(c, m)) = len
          BY <2>4, <2>5, CellsAre
        <4>5. Len(sub) = len /\ end - start + 1 = len
          BY <2>1, <2>5, <3>1, <4>3
        <4>6. \A j \in 1..len : sub[j] = Cells(c, m)[j]
          <5> TAKE j \in 1..len
          <5>1. j \in 1..(end - start + 1) /\ start + j - 1 <= n
            BY <1>1, <2>1, <2>11, <4>5
          <5>2. text[start + j - 1] = Cells(c, m)[j]
            BY <1>1, <2>5, <2>7, <5>1 DEF Follows
          <5> QED BY <4>3, <5>1, <5>2
        <4> QED BY <4>2, <4>3, <4>4, <4>5, <4>6, SeqEqual
      <3>4. r \in ReportSet /\ IsReport(W, exts, r, x0)
        <4>1. Carried(exts, Anchor(d.spans, start), x0) /\ Anchor(d.spans, start) \in Nat
          BY <1>1, <1>2, <2>1, <2>2, AnchorIs
        <4>2. r.raw = Cells(c, m) /\ r.anchor = Anchor(d.spans, start)
          BY <3>3
        <4> QED BY <2>3, <3>3, <4>1, <4>2 DEF ReportSet, IsReport
      <3> HIDE DEF r
      <3> DEFINE S == {x \in Whole(W, run) : x < b + cursor - 1}
                 next == end + 1
      <3>5. Reported(W, exts, <<r>>, {x0})
        BY <3>4, ReportedOne
      <3>6. S \subseteq Int /\ {x0} \subseteq Int /\ \A x \in S, y \in {x0} : x < y
        <4>1. \A x \in S : x \in Int /\ x < b + cursor - 1
          BY <1>2, <1>3, <1>7
        <4> QED BY <1>1, <1>2, <2>1, <2>2, <4>1
      <3>7. Append(out, r) = out \o <<r>>
        BY <3>4, AppendIsConcat DEF Reported
      <3>8. Reported(W, exts, out, S)
        BY <1>2 DEF Passed
      <3>9. Reported(W, exts, Append(out, r), S \cup {x0})
        <4> HIDE DEF S
        <4>1. PICK one : one = <<r>>
          OBVIOUS
        <4>2. PICK T : T = {x0}
          OBVIOUS
        <4>3. Reported(W, exts, one, T) /\ T \subseteq Int /\ \A x \in S, y \in T : x < y
          BY <3>5, <3>6, <4>1, <4>2
        <4>4. Reported(W, exts, out \o one, S \cup T)
          BY <3>6, <3>8, <4>3, ReportedBoth
        <4> QED BY <3>7, <4>1, <4>2, <4>4
      <3>10. x0 \in Whole(W, run)
        <4>1. \A j \in 1..len : x0 + j - 1 \in run
          <5>1. \A j \in 1..len : x0 + j - 1 \in b..(b + n - 1)
            BY <2>a, <2>11, SMTT(30)
          <5> QED BY <1>3, <5>1
        <4> QED BY <2>2, <2>4, <2>5, <4>1 DEF Whole
      <3>11. S \cup {x0} = {x \in Whole(W, run) : x < b + next - 1}
        <4>1. b + next - 1 = x0 + len /\ b + cursor - 1 <= x0
          BY <1>1, <1>2, <2>1, <2>2, <3>1
        <4>2. ASSUME NEW x \in Whole(W, run), x < b + next - 1
              PROVE  x \in S \cup {x0}
          BY <2>10, <4>1, <4>2
        <4>3. ASSUME NEW x \in S \cup {x0}
              PROVE  x \in Whole(W, run) /\ x < b + next - 1
          <5>1. CASE x \in S
            <6>1. x \in Int /\ x \in Whole(W, run) /\ x < b + cursor - 1
              BY <3>6, <5>1
            <6> QED BY <2>a, <4>1, <6>1
          <5>2. CASE x = x0
            BY <2>2, <2>5, <3>10, <4>1, <5>2
          <5> QED BY <5>1, <5>2
        <4> QED BY <4>2, <4>3
      <3>12. next \in (cursor + 1)..(n + 1)
        BY <1>1, <2>1, <2>5, <3>1, SMTT(30)
      <3> HIDE DEF S
      <3>13. S \cup {x0} = Passed(W, exts, d, next)
        BY <1>2, <3>11 DEF Passed
      <3> QED BY <1>1, <3>2, <3>9, <3>12, <3>13
    <2>12. CASE ~(start + len - 1 <= n)
      <3>1. t = s
        BY <1>4, <1>6, <1>9, <2>8, <2>9, <2>12 DEF Report
      <3>2. ASSUME NEW x \in Whole(W, run)
            PROVE  x < b + cursor - 1
        <4> SUFFICES ASSUME ~(x < b + cursor - 1)
                     PROVE  FALSE
          OBVIOUS
        <4>1. x \in b..(b + n - 1)
          BY <1>3, <1>7
        <4>2. x < x0 + len
            BY <2>a, <2>12, <4>1
        <4>3. x = x0
          BY <2>10, <4>2
        <4>4. len \in 1..Len(MessageAt(W, x0))
          BY <2>4, <2>5
        <4>5. x0 + len - 1 \in run
          BY <4>3, <4>4 DEF Whole
        <4>6. x0 + len - 1 \in b..(b + n - 1)
          BY <1>3, <4>5
        <4> QED BY <2>a, <2>12, <4>6
      <3>3. Passed(W, exts, d, cursor) = Whole(W, run)
        BY <1>2, <3>2 DEF Passed
      <3> QED BY <3>1, <3>3
    <2> QED BY <2>11, <2>12
  <1> QED BY <1>8, <1>9

\* The recursion of the loop defines it: there is one function that unfolds so.
LEMMA ParseUnfolds ==
  ASSUME NEW d, NEW text, text = Decode(d.data), NEW n \in Nat, Len(text) = n
  PROVE  \E upTo : /\ upTo = [k \in 0..n |-> IF k = 0 THEN [cursor |-> 1, out |-> <<>>]
                                            ELSE Report(text, d.spans, upTo[k - 1])]
                   /\ Parse(d) = upTo[n].out
  <1> DEFINE Unfolds(f, m) == f = [k \in 0..m |-> IF k = 0 THEN [cursor |-> 1, out |-> <<>>]
                                                 ELSE Report(text, d.spans, f[k - 1])]
             T == {m \in Nat : \E f : Unfolds(f, m)}
  <1>1. 0 \in T
    <2>1. Unfolds([k \in 0..0 |-> [cursor |-> 1, out |-> <<>>]], 0)
      OBVIOUS
    <2> QED BY <2>1
  <1>2. ASSUME NEW m \in Nat, m \in T
        PROVE  m + 1 \in T
    <2>1. PICK f : Unfolds(f, m)
      BY <1>2
    <2> DEFINE g == [k \in 0..(m + 1) |-> IF k <= m THEN f[k] ELSE Report(text, d.spans, f[k - 1])]
    <2>2. ASSUME NEW k \in 0..(m + 1)
          PROVE  g[k] = IF k = 0 THEN [cursor |-> 1, out |-> <<>>] ELSE Report(text, d.spans, g[k - 1])
      <3>1. CASE k = 0
        <4>1. k \in 0..m /\ g[k] = f[k]
          BY <3>1
        <4> QED BY <2>1, <3>1, <4>1
      <3>2. CASE k # 0 /\ k <= m
        <4>1. k \in 0..m /\ k - 1 \in 0..(m + 1) /\ k - 1 <= m
          BY <3>2
        <4>2. g[k] = f[k] /\ g[k - 1] = f[k - 1]
          BY <4>1
        <4> QED BY <2>1, <3>2, <4>1, <4>2
      <3>3. CASE k = m + 1
        <4>1. k - 1 \in 0..(m + 1) /\ k - 1 <= m /\ ~(k <= m) /\ k # 0
          BY <3>3
        <4>2. g[k - 1] = f[k - 1]
          BY <4>1
        <4>3. g[k] = Report(text, d.spans, f[k - 1])
          BY <4>1
        <4> QED BY <4>1, <4>2, <4>3
      <3> QED BY <3>1, <3>2, <3>3
    <2> HIDE DEF g
    <2>3. g = [k \in 0..(m + 1) |-> g[k]]
      BY DEF g
    <2>4. Unfolds(g, m + 1)
      BY <2>2, <2>3
    <2> HIDE DEF Unfolds
    <2> QED BY <2>4
  <1>3. n \in T
    <2> HIDE DEF T
    <2>1. Nat \subseteq T
      BY <1>1, <1>2, NatSetInduction
    <2> QED BY <2>1
  <1> DEFINE chosen == CHOOSE f : Unfolds(f, n)
  <1>4. Unfolds(chosen, n)
    BY <1>3
  <1>5. Parse(d) = chosen[n].out
    BY DEF Parse
  <1> QED BY <1>4, <1>5

\* Of a chunk exactly the messages that it has all of are reported, in order.
LEMMA ParseIs ==
  ASSUME NEW W, NEW exts, NEW d, IsChunk(W, exts, d),
         \A x \in Run(exts, d) : /\ W[x].kind = "start" => Begins(W, x)
                                 /\ W[x].kind # "cont"
  PROVE  Reported(W, exts, Parse(d), Whole(W, Run(exts, d)))
  <1> DEFINE text == d.data
             whole == Whole(W, Run(exts, d))
  <1>0. text \in Seq(CellSet)
    BY DEF IsChunk, ChunkSet
  <1>1. PICK n \in Nat : n = Len(text)
    BY <1>0
  <1>2. PICK b \in Int : b = Base(exts, d)
    BY DEF IsChunk
  <1>3. Run(exts, d) = b..(b + n - 1) /\ \A i \in 1..n : text[i] = W[b + i - 1]
    BY <1>1, <1>2 DEF IsChunk, Run
  <1>4. Decode(text) = text
    <2>1. ASSUME NEW i \in 1..n
          PROVE  text[i].kind # "cont"
      <3>1. b + i - 1 \in Run(exts, d)
        BY <1>3
      <3> QED BY <1>3, <3>1
    <2> QED BY <1>0, <1>1, <2>1, DecodeIs
  <1>5. PICK f : /\ f = [k \in 0..n |-> IF k = 0 THEN [cursor |-> 1, out |-> <<>>]
                                       ELSE Report(text, d.spans, f[k - 1])]
                 /\ Parse(d) = f[n].out
    BY <1>1, <1>4, ParseUnfolds
  <1>6. f[0] = [cursor |-> 1, out |-> <<>>] /\ \A k \in 1..n : f[k] = Report(text, d.spans, f[k - 1])
    <2>1. 0 \in 0..n /\ \A k \in 1..n : k \in 0..n /\ k # 0
      OBVIOUS
    <2> QED BY <1>5, <2>1
  <1>7. whole \subseteq b..(b + n - 1)
    BY <1>3 DEF Whole
  <1> DEFINE State(k, s) == \E cursor \in 1..(n + 1) : \E out :
                               /\ s = [cursor |-> cursor, out |-> out]
                               /\ Reported(W, exts, out, Passed(W, exts, d, cursor))
                               /\ cursor > k \/ Passed(W, exts, d, cursor) = whole
             T == {k \in Nat : k <= n => State(k, f[k])}
  <1>8. 0 \in T
    <2>1. Passed(W, exts, d, 1) = {}
      <3> HIDE DEF whole
      <3> QED BY <1>2, <1>7 DEF Passed, whole
    <2>2. Reported(W, exts, <<>>, Passed(W, exts, d, 1))
      BY <2>1, ReportedNone
    <2>3. 1 \in 1..(n + 1) /\ 1 > 0
      OBVIOUS
    <2>4. State(0, f[0])
      BY <1>6, <2>2, <2>3
    <2> QED BY <2>4
  <1>9. ASSUME NEW k \in Nat, k \in T
        PROVE  k + 1 \in T
    <2> HIDE DEF State
    <2> SUFFICES ASSUME k + 1 <= n PROVE State(k + 1, f[k + 1])
      OBVIOUS
    <2>1. State(k, f[k]) /\ f[k + 1] = Report(text, d.spans, f[k])
      <3>1. k + 1 \in 1..n /\ (k + 1) - 1 = k
        OBVIOUS
      <3> QED BY <1>6, <1>9, <3>1
    <2>2. PICK cursor \in 1..(n + 1) : \E out :
             /\ f[k] = [cursor |-> cursor, out |-> out]
             /\ Reported(W, exts, out, Passed(W, exts, d, cursor))
             /\ cursor > k \/ Passed(W, exts, d, cursor) = whole
      BY <2>1 DEF State
    <2>3. \/ f[k + 1] = f[k] /\ Passed(W, exts, d, cursor) = whole
          \/ \E next \in (cursor + 1)..(n + 1) : \E more :
                /\ f[k + 1] = [cursor |-> next, out |-> more]
                /\ Reported(W, exts, more, Passed(W, exts, d, next))
      BY <1>1, <2>1, <2>2, ReportIs
    <2>4. CASE f[k + 1] = f[k] /\ Passed(W, exts, d, cursor) = whole
      <3> HIDE DEF whole
      <3> QED BY <2>2, <2>4 DEF State
    <2>5. CASE \E next \in (cursor + 1)..(n + 1) : \E more :
                  /\ f[k + 1] = [cursor |-> next, out |-> more]
                  /\ Reported(W, exts, more, Passed(W, exts, d, next))
      <3>1. PICK next \in (cursor + 1)..(n + 1) : \E more :
                  /\ f[k + 1] = [cursor |-> next, out |-> more]
                  /\ Reported(W, exts, more, Passed(W, exts, d, next))
        BY <2>5
      <3>2. next \in 1..(n + 1) /\ next > cursor /\ next \in Int /\ cursor \in Int
        BY <2>2, <3>1
      <3>3. next > k + 1 \/ Passed(W, exts, d, next) = whole
        <4>1. CASE cursor > k
          BY <3>2, <4>1
        <4>2. CASE Passed(W, exts, d, cursor) = whole
          <5>1. \A x \in whole : x \in Int /\ x < b + cursor - 1
            BY <1>2, <1>7, <4>2 DEF Passed
          <5>2. Passed(W, exts, d, next) = {x \in whole : x < b + next - 1}
            BY <1>2 DEF Passed
          <5> HIDE DEF whole
          <5> QED BY <3>2, <5>1, <5>2
        <4> QED BY <2>2, <4>1, <4>2
      <3> HIDE DEF whole
      <3> QED BY <3>1, <3>2, <3>3 DEF State
    <2> QED BY <2>3, <2>4, <2>5
  <1>10. State(n, f[n])
    <2> HIDE DEF T, State
    <2>1. Nat \subseteq T
      BY <1>8, <1>9, NatSetInduction
    <2> QED BY <2>1 DEF T
  <1>11. PICK cursor, out :
             /\ cursor \in 1..(n + 1)
             /\ f[n] = [cursor |-> cursor, out |-> out]
             /\ Reported(W, exts, out, Passed(W, exts, d, cursor))
             /\ cursor > n \/ Passed(W, exts, d, cursor) = whole
    BY <1>10
  <1>12. Passed(W, exts, d, cursor) = whole
    <2> SUFFICES ASSUME cursor = n + 1
                 PROVE  Passed(W, exts, d, cursor) = whole
      BY <1>11
    <2>1. \A x \in whole : x \in Int /\ x < b + n
      BY <1>7
    <2>2. Passed(W, exts, d, cursor) = {x \in whole : x < b + cursor - 1}
      BY <1>2 DEF Passed
    <2> HIDE DEF whole
    <2> QED BY <2>1, <2>2
  <1>13. Parse(d) = out
    BY <1>5, <1>11
  <1> QED BY <1>11, <1>12, <1>13

-----------------------------------------------------------------------------
(* Segments into chunks.                                                   *)
-----------------------------------------------------------------------------
\* The payload of each packet is the cells of its numbers.
Payloads(W, exts) ==
    \A p \in 1..Len(captured) :
        /\ exts[p] \in Int /\ captured[p].len \in Nat \ {0}
        /\ Payload(p) \in Seq(CellSet) /\ Len(Payload(p)) = captured[p].len
        /\ \A j \in 1..captured[p].len : Payload(p)[j] = W[exts[p] + j - 1]

\* The chunk that a packet begins, and one that it continues.
Fresh(p) == [data |-> SubSeq(Payload(p), 1, captured[p].len),
             spans |-> <<[first |-> 1, last |-> captured[p].len, packet |-> p]>>]
Grown(d, p, overlap) ==
    [data |-> d.data \o SubSeq(Payload(p), overlap + 1, captured[p].len),
     spans |-> Append(d.spans, [first |-> Len(d.data) + 1,
                                last |-> Len(d.data) + (captured[p].len - overlap), packet |-> p])]

\* The number after a chunk.
Beyond(exts, d) == Base(exts, d) + Len(d.data)

\* What is cut off a payload.
LEMMA PieceIs ==
  ASSUME NEW W, NEW exts, Payloads(W, exts), NEW p \in 1..Len(captured),
         NEW overlap \in Nat, overlap < captured[p].len
  PROVE  LET piece == SubSeq(Payload(p), overlap + 1, captured[p].len) IN
         /\ piece \in Seq(CellSet) /\ Len(piece) = captured[p].len - overlap
         /\ \A j \in 1..(captured[p].len - overlap) : piece[j] = W[exts[p] + overlap + j - 1]
  <1>1. PICK len \in Nat \ {0} : len = captured[p].len
    BY DEF Payloads
  <1>2. PICK payload \in Seq(CellSet) : payload = Payload(p) /\ Len(payload) = len
    BY <1>1 DEF Payloads
  <1>3. PICK e \in Int : e = exts[p] /\ \A j \in 1..len : payload[j] = W[e + j - 1]
    BY <1>1, <1>2 DEF Payloads
  <1>4. PICK piece : piece = SubSeq(payload, overlap + 1, len)
    OBVIOUS
  <1>5. \A i \in (overlap + 1)..len : payload[i] \in CellSet
    <2>1. \A i \in (overlap + 1)..len : i \in 1..Len(payload)
      BY <1>1, <1>2
    <2> QED BY <2>1, ElementOfSeq
  <1>6. /\ piece \in Seq(CellSet)
        /\ Len(piece) = IF overlap + 1 <= len THEN len - (overlap + 1) + 1 ELSE 0
        /\ \A i \in 1..(len - (overlap + 1) + 1) : piece[i] = payload[overlap + 1 + i - 1]
    <2>1. overlap + 1 \in Int /\ len \in Int
      OBVIOUS
    <2> QED BY <1>4, <1>5, <2>1, SubSeqProperties
  <1>7. Len(piece) = len - overlap
    BY <1>1, <1>6
  <1>8. ASSUME NEW j \in 1..(len - overlap)
        PROVE  piece[j] = W[e + overlap + j - 1]
    <2>1. /\ j \in 1..(len - (overlap + 1) + 1) /\ overlap + 1 + j - 1 = overlap + j
          /\ overlap + j \in 1..len /\ e + (overlap + j) - 1 = e + overlap + j - 1
      BY <1>1
    <2>2. piece[j] = payload[overlap + j]
      BY <1>6, <2>1
    <2>3. payload[overlap + j] = W[e + (overlap + j) - 1]
      BY <1>3, <2>1
    <2> QED BY <2>1, <2>2, <2>3
  <1> QED BY <1>1, <1>2, <1>3, <1>4, <1>6, <1>7, <1>8

\* A packet alone makes a chunk.
LEMMA FreshIs ==
  ASSUME NEW W, NEW exts, Payloads(W, exts), NEW p \in 1..Len(captured)
  PROVE  /\ IsChunk(W, exts, Fresh(p)) /\ Base(exts, Fresh(p)) = exts[p]
         /\ Len(Fresh(p).data) = captured[p].len
  <1>1. PICK len \in Nat \ {0}, e \in Int : len = captured[p].len /\ e = exts[p]
    BY DEF Payloads
  <1>2. PICK piece : piece = SubSeq(Payload(p), 1, len)
    OBVIOUS
  <1>3. /\ piece \in Seq(CellSet) /\ Len(piece) = len
        /\ \A j \in 1..len : piece[j] = W[e + j - 1]
    <2>1. 0 \in Nat /\ 0 < captured[p].len /\ 0 + 1 = 1 /\ len - 0 = len /\ \A j \in 1..len : e + 0 + j - 1 = e + j - 1
      BY <1>1
    <2>2. LET q == SubSeq(Payload(p), 0 + 1, captured[p].len) IN
          /\ q \in Seq(CellSet) /\ Len(q) = captured[p].len - 0
          /\ \A j \in 1..(captured[p].len - 0) : q[j] = W[exts[p] + 0 + j - 1]
      BY <2>1, PieceIs
    <2> QED BY <1>1, <1>2, <2>1, <2>2
  <1> DEFINE span == [first |-> 1, last |-> len, packet |-> p]
  <1>4. PICK d : d = Fresh(p)
    OBVIOUS
  <1>5. d.data = piece /\ d.spans = <<span>> /\ d = [data |-> piece, spans |-> <<span>>]
    BY <1>1, <1>2, <1>4 DEF Fresh
  <1>6. span.first = 1 /\ span.last = len /\ span.packet = p /\ span \in SpanSet
    BY DEF SpanSet
  <1> HIDE DEF span
  <1>7. d.spans \in Seq(SpanSet) /\ Len(d.spans) = 1 /\ d.spans[1] = span /\ d.spans # <<>>
    BY <1>5, <1>6
  <1>8. d \in ChunkSet
    BY <1>3, <1>5, <1>7 DEF ChunkSet
  <1>9. Base(exts, d) = e
    BY <1>1, <1>6, <1>7 DEF Base
  <1>10. \A h \in 1..Len(d.spans) : d.spans[h] = span
    BY <1>7
  <1>11. \A i \in 1..len : Carried(exts, p, e + i - 1)
    BY <1>1 DEF Carried
  <1>12. d.data # <<>>
    BY <1>3, <1>5
  <1>13. \A i \in 1..Len(d.data) : d.data[i] = W[e + i - 1]
    BY <1>3, <1>5
  <1>14. \A i \in 1..Len(d.data) : \E h \in 1..Len(d.spans) : i \in d.spans[h].first..d.spans[h].last
    BY <1>3, <1>5, <1>6, <1>7
  <1>15. \A h \in 1..Len(d.spans) : \A i \in d.spans[h].first..d.spans[h].last :
            Carried(exts, d.spans[h].packet, e + i - 1)
    BY <1>6, <1>10, <1>11
  <1>16. IsChunk(W, exts, d)
    BY <1>7, <1>8, <1>9, <1>12, <1>13, <1>14, <1>15 DEF IsChunk
  <1> QED BY <1>1, <1>3, <1>4, <1>5, <1>9, <1>16

\* One that begins in a chunk, or right after it, and ends after it makes it longer.
LEMMA GrownIs ==
  ASSUME NEW W, NEW exts, Payloads(W, exts), NEW p \in 1..Len(captured),
         NEW d, IsChunk(W, exts, d), NEW overlap \in Nat, overlap < captured[p].len,
         exts[p] + overlap = Beyond(exts, d)
  PROVE  /\ IsChunk(W, exts, Grown(d, p, overlap)) /\ Base(exts, Grown(d, p, overlap)) = Base(exts, d)
         /\ Len(Grown(d, p, overlap).data) = Len(d.data) + (captured[p].len - overlap)
  <1>1. PICK len \in Nat \ {0} : len = captured[p].len /\ overlap < len
    BY DEF Payloads
  <1>2. PICK e \in Int : e = exts[p]
    BY DEF Payloads
  <1>3. PICK n \in Nat \ {0} : n = Len(d.data) /\ d.data \in Seq(CellSet)
    <2>1. d.data \in Seq(CellSet) /\ d.data # <<>>
      BY DEF IsChunk, ChunkSet
    <2> QED BY <2>1, EmptySeq
  <1>4. PICK b \in Int : b = Base(exts, d)
    BY DEF IsChunk
  <1>5. PICK h \in Nat \ {0} : h = Len(d.spans) /\ d.spans \in Seq(SpanSet)
    <2>1. d.spans \in Seq(SpanSet) /\ d.spans # <<>>
      BY DEF IsChunk, ChunkSet
    <2> QED BY <2>1, EmptySeq
  <1>6. PICK more \in Nat \ {0} : more = len - overlap
    BY <1>1
  <1>7. e + overlap = b + n
    BY <1>2, <1>3, <1>4 DEF Beyond
  <1>a. e <= b + n /\ b + n + more = e + len
    <2>1. PICK o \in Int, l \in Int, m \in Int, k \in Int :
             o = overlap /\ l = len /\ m = more /\ k = n /\ o >= 0 /\ m = l - o /\ e + o = b + k
      BY <1>1, <1>6, <1>7
    <2>2. e <= b + k /\ b + k + m = e + l
      BY <2>1
    <2> QED BY <2>1, <2>2
  <1>8. PICK piece : piece = SubSeq(Payload(p), overlap + 1, len)
    OBVIOUS
  <1>9. /\ piece \in Seq(CellSet) /\ Len(piece) = more
        /\ \A j \in 1..more : piece[j] = W[e + overlap + j - 1]
    <2>1. LET q == SubSeq(Payload(p), overlap + 1, captured[p].len) IN
          /\ q \in Seq(CellSet) /\ Len(q) = captured[p].len - overlap
          /\ \A j \in 1..(captured[p].len - overlap) : q[j] = W[exts[p] + overlap + j - 1]
      BY PieceIs
    <2> QED BY <1>1, <1>2, <1>6, <1>8, <2>1
  <1> DEFINE span == [first |-> n + 1, last |-> n + more, packet |-> p]
  <1>10. PICK g : g = Grown(d, p, overlap)
    OBVIOUS
  <1>11. g = [data |-> d.data \o piece, spans |-> Append(d.spans, span)]
    BY <1>1, <1>3, <1>6, <1>8, <1>10 DEF Grown
  <1>12. g.data = d.data \o piece /\ g.spans = Append(d.spans, span)
    BY <1>11
  <1>13. span.first = n + 1 /\ span.last = n + more /\ span.packet = p /\ span \in SpanSet
    BY DEF SpanSet
  <1> HIDE DEF span
  <1>14. /\ g.data \in Seq(CellSet) /\ Len(g.data) = n + more
         /\ \A i \in 1..(n + more) : g.data[i] = IF i <= n THEN d.data[i] ELSE piece[i - n]
    <2>1. PICK old : old = d.data
      OBVIOUS
    <2>2. old \in Seq(CellSet) /\ Len(old) = n
      BY <1>3, <2>1
    <2>3. /\ old \o piece \in Seq(CellSet) /\ Len(old \o piece) = Len(old) + Len(piece)
          /\ \A i \in 1..(Len(old) + Len(piece)) :
                (old \o piece)[i] = IF i <= Len(old) THEN old[i] ELSE piece[i - Len(old)]
      BY <1>9, <2>2, ConcatProperties
    <2> QED BY <1>9, <1>12, <2>1, <2>2, <2>3
  <1>15. /\ g.spans \in Seq(SpanSet) /\ Len(g.spans) = h + 1 /\ g.spans # <<>>
         /\ g.spans[h + 1] = span /\ \A i \in 1..h : g.spans[i] = d.spans[i]
    <2>1. PICK old : old = d.spans
      OBVIOUS
    <2>2. old \in Seq(SpanSet) /\ Len(old) = h
      BY <1>5, <2>1
    <2>3. /\ Append(old, span) \in Seq(SpanSet) /\ Append(old, span) # <<>>
          /\ Len(Append(old, span)) = Len(old) + 1
          /\ \A i \in 1..Len(old) : Append(old, span)[i] = old[i]
          /\ Append(old, span)[Len(old) + 1] = span
      BY <1>13, <2>2, AppendProperties
    <2> QED BY <1>12, <2>1, <2>2, <2>3
  <1>16. g \in ChunkSet
    BY <1>11, <1>12, <1>14, <1>15 DEF ChunkSet
  <1>17. Base(exts, g) = b
    <2>1. 1 \in 1..h
      OBVIOUS
    <2> QED BY <1>4, <1>15, <2>1 DEF Base
  <1>18. g.data # <<>>
    BY <1>14
  <1>19. ASSUME NEW i \in 1..Len(g.data)
         PROVE  g.data[i] = W[b + i - 1]
    <2>1. CASE i <= n
      <3>1. i \in 1..n /\ g.data[i] = d.data[i]
        BY <1>14, <2>1
      <3> QED BY <1>3, <1>4, <3>1 DEF IsChunk
    <2>2. CASE ~(i <= n)
      <3>1. i - n \in 1..more /\ g.data[i] = piece[i - n]
        BY <1>14, <2>2, SMTT(30)
      <3>2. e + overlap + (i - n) - 1 = b + i - 1
        BY <1>7, <1>14
      <3> QED BY <1>9, <3>1, <3>2
    <2> QED BY <2>1, <2>2
  <1>20. ASSUME NEW i \in 1..Len(g.data)
         PROVE  \E k \in 1..Len(g.spans) : i \in g.spans[k].first..g.spans[k].last
    <2>1. CASE i <= n
      <3>1. PICK k \in 1..h : i \in d.spans[k].first..d.spans[k].last
        BY <1>3, <1>5, <1>14, <2>1 DEF IsChunk
      <3>2. k \in 1..Len(g.spans) /\ g.spans[k] = d.spans[k]
        BY <1>15, <3>1
      <3> QED BY <3>1, <3>2
    <2>2. CASE ~(i <= n)
      <3>1. i \in (n + 1)..(n + more)
        BY <1>14, <2>2
      <3>2. h + 1 \in 1..Len(g.spans)
        BY <1>15
      <3> QED BY <1>13, <1>15, <3>1, <3>2
    <2> QED BY <2>1, <2>2
  <1>21. ASSUME NEW k \in 1..Len(g.spans), NEW i \in g.spans[k].first..g.spans[k].last
         PROVE  Carried(exts, g.spans[k].packet, b + i - 1)
    <2>1. CASE k \in 1..h
      <3>1. g.spans[k] = d.spans[k]
        BY <1>15, <2>1
      <3> QED BY <1>4, <1>5, <2>1, <3>1 DEF IsChunk
    <2>2. CASE k \notin 1..h
      <3>1. k = h + 1 /\ g.spans[k] = span
        BY <1>15, <2>2
      <3>2. i \in (n + 1)..(n + more)
        BY <1>13, <3>1
      <3>3. b + i - 1 \in e..(e + len - 1)
        <4>1. PICK z \in Int : z = i /\ z >= n + 1 /\ z <= n + more
          BY <3>2
        <4>2. b + z - 1 >= e /\ b + z - 1 <= e + len - 1
          BY <1>a, <4>1
        <4> QED BY <4>1, <4>2
      <3> QED BY <1>1, <1>2, <1>13, <3>1, <3>3 DEF Carried
    <2> QED BY <2>1, <2>2
  <1>22. IsChunk(W, exts, g)
    BY <1>15, <1>16, <1>17, <1>18, <1>19, <1>20, <1>21 DEF IsChunk
  <1> QED BY <1>1, <1>3, <1>4, <1>6, <1>10, <1>14, <1>17, <1>22

\* The fields of the loop's state.
IsState(s) == s = [next |-> s.next, buf |-> s.buf, spans |-> s.spans, chunks |-> s.chunks]

\* The first segment, and one after a gap, begin a chunk.
LEMMA AddFresh ==
  ASSUME NEW W, NEW exts, Payloads(W, exts), NEW p \in 1..Len(captured),
         NEW s, IsState(s),
         \/ s.next = None /\ s.buf = <<>> /\ s.spans = <<>>
         \/ s.next \in Int /\ exts[p] > s.next /\ s.buf # <<>>
  PROVE  AddSegment(s, exts[p], p) =
            [next |-> exts[p] + captured[p].len, buf |-> Fresh(p).data, spans |-> Fresh(p).spans,
             chunks |-> IF s.next = None THEN s.chunks
                        ELSE Append(s.chunks, [data |-> s.buf, spans |-> s.spans])]
  <1>1. PICK len \in Nat, e \in Int : len = captured[p].len /\ e = exts[p] /\ len > 0
    BY DEF Payloads
  <1>0. None \notin Int
    BY TcpAssumption
  <1>a. PICK next, buf, spans, chunks :
           next = s.next /\ buf = s.buf /\ spans = s.spans /\ chunks = s.chunks
    OBVIOUS
  <1>b. s = [next |-> next, buf |-> buf, spans |-> spans, chunks |-> chunks]
    BY <1>a DEF IsState
  <1>2. PICK piece : piece = SubSeq(Payload(p), 1, len)
    OBVIOUS
  <1>3. piece \in Seq(CellSet) /\ Len(piece) = len /\ <<>> \o piece = piece
    <2>1. 0 \in Nat /\ 0 < captured[p].len /\ 0 + 1 = 1 /\ len - 0 = len
      BY <1>1
    <2>2. LET q == SubSeq(Payload(p), 0 + 1, captured[p].len) IN
          q \in Seq(CellSet) /\ Len(q) = captured[p].len - 0
      BY <2>1, PieceIs
    <2> QED BY <1>1, <1>2, <2>1, <2>2, ConcatEmptySeq
  <1> DEFINE fresh == [first |-> 1, last |-> len, packet |-> p]
  <1>4. Fresh(p).data = piece /\ Fresh(p).spans = <<fresh>>
    BY <1>1, <1>2 DEF Fresh
  <1> DEFINE gap == s.next # None /\ e > s.next
             t == IF gap THEN [next |-> e, buf |-> <<>>, spans |-> <<>>,
                               chunks |-> IF s.buf = <<>> THEN s.chunks
                                          ELSE Append(s.chunks, [data |-> s.buf, spans |-> s.spans])]
                  ELSE [s EXCEPT !.next = IF @ = None THEN e ELSE @]
             closed == IF next = None THEN chunks ELSE Append(chunks, [data |-> buf, spans |-> spans])
  <1>5. t = [next |-> e, buf |-> <<>>, spans |-> <<>>, chunks |-> closed]
    <2>1. s.next = next /\ s.buf = buf /\ s.spans = spans /\ s.chunks = chunks
      BY <1>a
    <2>2. CASE next = None /\ buf = <<>> /\ spans = <<>>
      <3>1. ~gap
        BY <2>1, <2>2
      <3>2. [s EXCEPT !.next = IF @ = None THEN e ELSE @] =
               [next |-> e, buf |-> buf, spans |-> spans, chunks |-> chunks]
        BY <1>b, <2>2
      <3> QED BY <2>2, <3>1, <3>2
    <2>3. CASE next \in Int /\ exts[p] > next /\ buf # <<>>
      <3>1. gap /\ next # None
        BY <1>0, <1>1, <2>1, <2>3
      <3> HIDE DEF gap
      <3> QED BY <2>1, <2>3, <3>1
    <2> QED BY <1>a, <2>2, <2>3
  <1> DEFINE overlap == t.next - e
             cut == SubSeq(Payload(p), overlap + 1, len)
  <1>6. AddSegment(s, exts[p], p) =
          IF overlap >= len THEN t
          ELSE [next |-> t.next + Len(cut), buf |-> t.buf \o cut,
                spans |-> Append(t.spans, [first |-> Len(t.buf) + 1,
                                           last |-> Len(t.buf) + Len(cut), packet |-> p]),
                chunks |-> t.chunks]
    <2> HIDE DEF t
    <2> QED BY <1>1 DEF AddSegment, t
  <1> HIDE DEF t, closed
  <1>7. t.next = e /\ t.buf = <<>> /\ t.spans = <<>> /\ t.chunks = closed
    BY <1>5
  <1>8. overlap = 0
    BY <1>1, <1>7
  <1>9. cut = piece
    BY <1>2, <1>8
  <1> HIDE DEF overlap, cut
  <1>10. AddSegment(s, exts[p], p) =
          [next |-> t.next + Len(cut), buf |-> t.buf \o cut,
           spans |-> Append(t.spans, [first |-> Len(t.buf) + 1,
                                      last |-> Len(t.buf) + Len(cut), packet |-> p]),
           chunks |-> t.chunks]
    BY <1>1, <1>6, <1>8
  <1>11. [first |-> Len(t.buf) + 1, last |-> Len(t.buf) + Len(cut), packet |-> p] = fresh
    BY <1>1, <1>3, <1>7, <1>9
  <1> HIDE DEF fresh
  <1>12. t.next + Len(cut) = e + len /\ t.buf \o cut = piece
    BY <1>1, <1>3, <1>7, <1>9
  <1>13. Append(t.spans, fresh) = <<fresh>>
    BY <1>7
  <1>14. AddSegment(s, exts[p], p) = [next |-> e + len, buf |-> piece, spans |-> <<fresh>>, chunks |-> closed]
    BY <1>7, <1>10, <1>11, <1>12, <1>13
  <1> QED BY <1>1, <1>4, <1>14, <1>a DEF closed

\* One without a gap adds what is new of it.
LEMMA AddMore ==
  ASSUME NEW W, NEW exts, Payloads(W, exts), NEW p \in 1..Len(captured),
         NEW d, NEW s, IsState(s), s.next \in Int, s.buf = d.data, s.spans = d.spans,
         exts[p] <= s.next
  PROVE  AddSegment(s, exts[p], p) =
            IF s.next - exts[p] >= captured[p].len THEN s
            ELSE [next |-> exts[p] + captured[p].len, buf |-> Grown(d, p, s.next - exts[p]).data,
                  spans |-> Grown(d, p, s.next - exts[p]).spans, chunks |-> s.chunks]
  <1>1. PICK len \in Nat, e \in Int : len = captured[p].len /\ e = exts[p] /\ len > 0
    <2>1. captured[p].len \in Nat /\ captured[p].len > 0 /\ exts[p] \in Int
      BY DEF Payloads
    <2> QED BY <2>1
  <1>0. None \notin Int
    BY TcpAssumption
  <1> DEFINE gap == s.next # None /\ e > s.next
             t == IF gap THEN [next |-> e, buf |-> <<>>, spans |-> <<>>,
                               chunks |-> IF s.buf = <<>> THEN s.chunks
                                          ELSE Append(s.chunks, [data |-> s.buf, spans |-> s.spans])]
                  ELSE [s EXCEPT !.next = IF @ = None THEN e ELSE @]
  <1>2. PICK next, chunks : next \in Int /\ s.next = next /\ s.chunks = chunks
    OBVIOUS
  <1>3. ~gap /\ next # None
    BY <1>0, <1>1, <1>2
  <1>4. [s EXCEPT !.next = IF @ = None THEN e ELSE @] = s
    BY <1>2, <1>3 DEF IsState
  <1>5. t = s
    BY <1>3, <1>4
  <1> DEFINE overlap == t.next - e
             cut == SubSeq(Payload(p), overlap + 1, len)
  <1>6. AddSegment(s, exts[p], p) =
          IF overlap >= len THEN t
          ELSE [next |-> t.next + Len(cut), buf |-> t.buf \o cut,
                spans |-> Append(t.spans, [first |-> Len(t.buf) + 1,
                                           last |-> Len(t.buf) + Len(cut), packet |-> p]),
                chunks |-> t.chunks]
    <2> HIDE DEF t
    <2> QED BY <1>1 DEF AddSegment, t
  <1> HIDE DEF t
  <1>7. overlap = next - e
    BY <1>2, <1>5
  <1> HIDE DEF overlap
  <1>8. CASE overlap >= len
    BY <1>1, <1>2, <1>5, <1>6, <1>7, <1>8
  <1>9. CASE ~(overlap >= len)
    <2>1. overlap \in Nat /\ overlap < captured[p].len
      BY <1>1, <1>2, <1>7, <1>9
    <2>2. Len(cut) = len - overlap
      BY <1>1, <2>1, PieceIs
    <2>3. AddSegment(s, exts[p], p) =
          [next |-> s.next + Len(cut), buf |-> s.buf \o cut,
           spans |-> Append(s.spans, [first |-> Len(s.buf) + 1,
                                      last |-> Len(s.buf) + Len(cut), packet |-> p]),
           chunks |-> s.chunks]
      BY <1>5, <1>6, <1>9
    <2> DEFINE span == [first |-> Len(d.data) + 1, last |-> Len(d.data) + (len - overlap), packet |-> p]
    <2>4. [first |-> Len(s.buf) + 1, last |-> Len(s.buf) + Len(cut), packet |-> p] = span
      BY <1>2, <2>2
    <2>5. Grown(d, p, overlap).data = d.data \o cut /\ Grown(d, p, overlap).spans = Append(d.spans, span)
      BY <1>1 DEF Grown
    <2>6. next + Len(cut) = e + len
      <3>1. PICK o \in Int : o = overlap
        BY <2>1
      <3>2. Len(cut) = len - o /\ o = next - e
        BY <1>7, <2>2, <3>1
      <3>3. next + (len - o) = e + len
        <4>1. PICK z \in Int : z = next
          BY <1>2
        <4>2. o = z - e
          BY <3>2, <4>1
        <4>3. z + (len - o) = e + len
          BY <4>2
        <4> QED BY <4>1, <4>3
      <3> QED BY <3>2, <3>3
    <2> HIDE DEF span, cut
    <2>7. AddSegment(s, exts[p], p) =
            [next |-> next + Len(cut), buf |-> d.data \o cut, spans |-> Append(d.spans, span), chunks |-> chunks]
      BY <1>2, <2>3, <2>4
    <2> QED BY <1>1, <1>2, <1>7, <1>9, <2>5, <2>6, <2>7
  <1> QED BY <1>8, <1>9

\* Chunks in order, with a gap before each, that hold exactly these numbers.
Chained(W, exts, all, N) ==
    /\ all \in Seq(ChunkSet)
    /\ \A i \in 1..Len(all) : IsChunk(W, exts, all[i])
    /\ \A i, j \in 1..Len(all) : i < j => Beyond(exts, all[i]) < Base(exts, all[j])
    /\ N \subseteq Int
    /\ \A x \in N : \E i \in 1..Len(all) : x \in Run(exts, all[i])
    /\ \A i \in 1..Len(all) : Run(exts, all[i]) \subseteq N

\* The state of the loop: chunks that are complete, and one that is not.
Built(W, exts, s, d, N) ==
    \E chunks, M :
        /\ s = [next |-> Beyond(exts, d), buf |-> d.data, spans |-> d.spans, chunks |-> chunks]
        /\ Chained(W, exts, chunks, M) /\ IsChunk(W, exts, d)
        /\ \A i \in 1..Len(chunks) : Beyond(exts, chunks[i]) < Base(exts, d)
        /\ N = M \cup Run(exts, d)

\* No chunks, and one more.
LEMMA ChainedNone ==
  ASSUME NEW W, NEW exts
  PROVE  Chained(W, exts, <<>>, {})
  <1>1. <<>> \in Seq(ChunkSet) /\ Len(<<>>) = 0
    BY EmptySeq
  <1> QED BY <1>1 DEF Chained

\* A chunk beyond all others continues the chain, with its numbers.
LEMMA ChainedNext ==
  ASSUME NEW W, NEW exts, NEW all, NEW N, Chained(W, exts, all, N),
         NEW d, IsChunk(W, exts, d),
         \A i \in 1..Len(all) : Beyond(exts, all[i]) < Base(exts, d)
  PROVE  Chained(W, exts, Append(all, d), N \cup Run(exts, d))
  <1>1. PICK n \in Nat : n = Len(all)
    BY DEF Chained
  <1>2. PICK more : more = Append(all, d)
    OBVIOUS
  <1>3. /\ more \in Seq(ChunkSet) /\ Len(more) = n + 1
        /\ \A i \in 1..n : more[i] = all[i]
        /\ more[n + 1] = d
    <2>1. all \in Seq(ChunkSet) /\ d \in ChunkSet
      BY DEF Chained, IsChunk
    <2> QED BY <1>1, <1>2, <2>1, AppendProperties
  <1>4. \A i \in 1..(n + 1) : (i \in 1..n /\ more[i] = all[i]) \/ (i = n + 1 /\ more[i] = d)
    BY <1>3
  <1>5. Run(exts, d) \subseteq Int
    BY DEF Run
  <1>6. \A i \in 1..(n + 1) : IsChunk(W, exts, more[i])
    BY <1>1, <1>4 DEF Chained
  <1>7. ASSUME NEW i \in 1..(n + 1), NEW j \in 1..(n + 1), i < j
        PROVE  Beyond(exts, more[i]) < Base(exts, more[j])
    <2>1. i \in 1..n /\ more[i] = all[i]
      BY <1>4, <1>7
    <2>2. CASE j \in 1..n /\ more[j] = all[j]
      BY <1>1, <1>7, <2>1, <2>2 DEF Chained
    <2>3. CASE more[j] = d
      BY <1>1, <2>1, <2>3
    <2> QED BY <1>4, <2>2, <2>3
  <1>8. ASSUME NEW x \in N \cup Run(exts, d)
        PROVE  \E i \in 1..(n + 1) : x \in Run(exts, more[i])
    <2>1. CASE x \in N
      <3>1. PICK i \in 1..n : x \in Run(exts, all[i])
        BY <1>1, <2>1 DEF Chained
      <3>2. i \in 1..(n + 1) /\ more[i] = all[i]
        BY <1>3, <3>1
      <3> QED BY <3>1, <3>2
    <2>2. CASE x \in Run(exts, d)
      <3>1. n + 1 \in 1..(n + 1)
        OBVIOUS
      <3> QED BY <1>3, <2>2, <3>1
    <2> QED BY <2>1, <2>2
  <1>9. ASSUME NEW i \in 1..(n + 1)
        PROVE  Run(exts, more[i]) \subseteq N \cup Run(exts, d)
    <2>1. CASE i \in 1..n /\ more[i] = all[i]
      <3>1. Run(exts, all[i]) \subseteq N
        BY <1>1, <2>1 DEF Chained
      <3> QED BY <2>1, <3>1
    <2>2. CASE more[i] = d
      BY <2>2
    <2> QED BY <1>4, <2>1, <2>2
  <1>10. N \subseteq Int
    BY DEF Chained
  <1>11. Chained(W, exts, more, N \cup Run(exts, d))
    BY <1>3, <1>5, <1>6, <1>7, <1>8, <1>9, <1>10 DEF Chained
  <1> QED BY <1>2, <1>11

\* A chunk is what it is made of.
LEMMA ChunkIs ==
  ASSUME NEW W, NEW exts, NEW d, IsChunk(W, exts, d)
  PROVE  /\ d = [data |-> d.data, spans |-> d.spans]
         /\ d.data # <<>> /\ Len(d.data) \in Nat \ {0}
         /\ Base(exts, d) \in Int
         /\ Beyond(exts, d) = Base(exts, d) + Len(d.data)
         /\ Run(exts, d) = Base(exts, d)..(Beyond(exts, d) - 1)
  <1>1. d \in ChunkSet /\ d.data # <<>> /\ Base(exts, d) \in Int
    BY DEF IsChunk
  <1>2. d.data \in Seq(CellSet)
    BY <1>1 DEF ChunkSet
  <1>3. Len(d.data) \in Nat \ {0}
    BY <1>1, <1>2, EmptySeq
  <1>4. d = [data |-> d.data, spans |-> d.spans]
    BY <1>1 DEF ChunkSet
  <1> QED BY <1>1, <1>3, <1>4 DEF Beyond, Run

\* The first packet.
LEMMA FirstIs ==
  ASSUME NEW W, NEW exts, Payloads(W, exts), NEW p \in 1..Len(captured), NEW s,
         s = [next |-> None, buf |-> <<>>, spans |-> <<>>, chunks |-> <<>>]
  PROVE  \E g : /\ Built(W, exts, AddSegment(s, exts[p], p), g,
                         exts[p]..(exts[p] + captured[p].len - 1))
                /\ Base(exts, g) = exts[p]
  <1>1. PICK len \in Nat \ {0}, e \in Int : len = captured[p].len /\ e = exts[p]
    BY DEF Payloads
  <1>2. PICK g : g = Fresh(p)
    OBVIOUS
  <1>3. IsChunk(W, exts, g) /\ Base(exts, g) = e /\ Len(g.data) = len
    BY <1>1, <1>2, FreshIs
  <1>4. AddSegment(s, exts[p], p) = [next |-> e + len, buf |-> g.data, spans |-> g.spans, chunks |-> <<>>]
    <2>1. PICK none : none = <<>>
      OBVIOUS
    <2>2. s = [next |-> None, buf |-> none, spans |-> none, chunks |-> none]
      BY <2>1
    <2>a. IsState(s) /\ s.next = None /\ s.buf = none /\ s.spans = none /\ s.chunks = none
      BY <2>2 DEF IsState
    <2>3. AddSegment(s, exts[p], p) =
            [next |-> exts[p] + captured[p].len, buf |-> Fresh(p).data, spans |-> Fresh(p).spans,
             chunks |-> IF s.next = None THEN s.chunks ELSE Append(s.chunks, [data |-> s.buf, spans |-> s.spans])]
      BY <2>1, <2>a, AddFresh
    <2> QED BY <1>1, <1>2, <2>1, <2>3, <2>a
  <1>5. Beyond(exts, g) = e + len /\ Run(exts, g) = e..(e + len - 1)
    BY <1>3, ChunkIs
  <1>6. Chained(W, exts, <<>>, {})
    BY ChainedNone
  <1>7. \A i \in 1..Len(<<>>) : Beyond(exts, <<>>[i]) < Base(exts, g)
    OBVIOUS
  <1>8. Built(W, exts, AddSegment(s, exts[p], p), g, {} \cup Run(exts, g))
    BY <1>3, <1>4, <1>5, <1>6, <1>7 DEF Built
  <1>9. {} \cup Run(exts, g) = e..(e + len - 1)
    BY <1>5
  <1> QED BY <1>1, <1>3, <1>8, <1>9

\* Each other, whose number is none before the chunk.
LEMMA AddIs ==
  ASSUME NEW W, NEW exts, Payloads(W, exts), NEW p \in 1..Len(captured),
         NEW s, NEW d, NEW N, Built(W, exts, s, d, N), Base(exts, d) <= exts[p]
  PROVE  \E g : /\ Built(W, exts, AddSegment(s, exts[p], p), g,
                         N \cup exts[p]..(exts[p] + captured[p].len - 1))
                /\ Base(exts, g) <= exts[p]
  <1>1. PICK len \in Nat \ {0}, e \in Int : len = captured[p].len /\ e = exts[p]
    BY DEF Payloads
  <1>2. PICK chunks, M :
        /\ s = [next |-> Beyond(exts, d), buf |-> d.data, spans |-> d.spans, chunks |-> chunks]
        /\ Chained(W, exts, chunks, M) /\ IsChunk(W, exts, d)
        /\ \A i \in 1..Len(chunks) : Beyond(exts, chunks[i]) < Base(exts, d)
        /\ N = M \cup Run(exts, d)
    BY DEF Built
  <1>3. PICK b \in Int, n \in Nat \ {0}, next \in Int :
           b = Base(exts, d) /\ n = Len(d.data) /\ next = Beyond(exts, d) /\ next = b + n
    BY <1>2, ChunkIs
  <1>4. Run(exts, d) = b..(next - 1) /\ d.data # <<>> /\ d = [data |-> d.data, spans |-> d.spans]
    BY <1>2, <1>3, ChunkIs
  <1>5. s = [next |-> next, buf |-> d.data, spans |-> d.spans, chunks |-> chunks]
    BY <1>2, <1>3
  <1>6. b <= e
    BY <1>1, <1>3
  <1>a. IsState(s) /\ s.next = next /\ s.buf = d.data /\ s.spans = d.spans /\ s.chunks = chunks
    BY <1>5 DEF IsState
  <1>7. CASE e > next
    <2>1. PICK g : g = Fresh(p)
      OBVIOUS
    <2>2. IsChunk(W, exts, g) /\ Base(exts, g) = e /\ Len(g.data) = len
      BY <1>1, <2>1, FreshIs
    <2>3. Beyond(exts, g) = e + len /\ Run(exts, g) = e..(e + len - 1)
      BY <2>2, ChunkIs
    <2>4. AddSegment(s, exts[p], p) =
             [next |-> e + len, buf |-> g.data, spans |-> g.spans, chunks |-> Append(chunks, d)]
      <3>1. PICK buf, spans : buf = d.data /\ spans = d.spans
        OBVIOUS
      <3>2. s = [next |-> next, buf |-> buf, spans |-> spans, chunks |-> chunks]
        BY <1>5, <3>1
      <3>3. next \in Int /\ exts[p] > next /\ buf # <<>>
        BY <1>1, <1>4, <1>7, <3>1
      <3>a. IsState(s) /\ s.next = next /\ s.buf = buf /\ s.spans = spans /\ s.chunks = chunks
        BY <3>2 DEF IsState
      <3>4. AddSegment(s, exts[p], p) =
              [next |-> exts[p] + captured[p].len, buf |-> Fresh(p).data, spans |-> Fresh(p).spans,
               chunks |-> IF s.next = None THEN s.chunks ELSE Append(s.chunks, [data |-> s.buf, spans |-> s.spans])]
        BY <3>3, <3>a, AddFresh
      <3>5. next # None
        BY TcpAssumption
      <3>6. [data |-> buf, spans |-> spans] = d
        BY <1>4, <3>1
      <3> HIDE DEF TcpAssumption
      <3> QED BY <1>1, <2>1, <3>4, <3>5, <3>6, <3>a
    <2>5. Chained(W, exts, Append(chunks, d), M \cup Run(exts, d))
      BY <1>2, ChainedNext
    <2>6. PICK more : more = Append(chunks, d)
      OBVIOUS
    <2>7. \A i \in 1..Len(more) : Beyond(exts, more[i]) < Base(exts, g)
      <3>1. PICK k \in Nat : k = Len(chunks)
        BY <1>2 DEF Chained
      <3>2. Len(more) = k + 1 /\ more[k + 1] = d /\ \A i \in 1..k : more[i] = chunks[i]
        <4>1. chunks \in Seq(ChunkSet) /\ d \in ChunkSet
          BY <1>2 DEF Chained, IsChunk
        <4> QED BY <2>6, <3>1, <4>1, AppendProperties
      <3>3. ASSUME NEW i \in 1..k
            PROVE  Beyond(exts, more[i]) < e
        <4>1. IsChunk(W, exts, chunks[i]) /\ Beyond(exts, chunks[i]) < b
          BY <1>2, <1>3, <3>1 DEF Chained
        <4>2. PICK z \in Int : z = Beyond(exts, chunks[i])
          BY <4>1, ChunkIs
        <4> QED BY <1>6, <3>2, <4>1, <4>2
      <3>4. Beyond(exts, d) < e
        BY <1>3, <1>7
      <3>5. \A i \in 1..(k + 1) : i \in 1..k \/ i = k + 1
        OBVIOUS
      <3> QED BY <2>2, <3>2, <3>3, <3>4, <3>5
    <2>8. Built(W, exts, AddSegment(s, exts[p], p), g, N \cup Run(exts, g))
      BY <1>2, <2>2, <2>3, <2>4, <2>5, <2>6, <2>7 DEF Built
    <2> QED BY <1>1, <2>2, <2>3, <2>8
  <1>8. CASE ~(e > next) /\ next - e >= len
    <2>1. AddSegment(s, exts[p], p) = s
      <3>1. exts[p] <= s.next /\ s.next \in Int /\ s.next - exts[p] >= captured[p].len
        BY <1>1, <1>a, <1>8
      <3>2. AddSegment(s, exts[p], p) =
              IF s.next - exts[p] >= captured[p].len THEN s
              ELSE [next |-> exts[p] + captured[p].len, buf |-> Grown(d, p, s.next - exts[p]).data,
                    spans |-> Grown(d, p, s.next - exts[p]).spans, chunks |-> s.chunks]
        BY <1>a, <3>1, AddMore
      <3> QED BY <3>1, <3>2
    <2>2. e..(e + len - 1) \subseteq Run(exts, d)
      BY <1>4, <1>6, <1>8
    <2>3. N \cup e..(e + len - 1) = N
      BY <1>2, <2>2
    <2> QED BY <1>1, <2>1, <2>3
  <1>9. CASE ~(e > next) /\ ~(next - e >= len)
    <2>1. PICK overlap \in Nat : overlap = next - e /\ overlap < len /\ e + overlap = next
      BY <1>9
    <2>2. PICK g : g = Grown(d, p, overlap)
      OBVIOUS
    <2>3. IsChunk(W, exts, g) /\ Base(exts, g) = b /\ Len(g.data) = n + (len - overlap)
      <3>1. overlap < captured[p].len /\ exts[p] + overlap = Beyond(exts, d) /\ IsChunk(W, exts, d)
        BY <1>1, <1>2, <1>3, <2>1
      <3>2. /\ IsChunk(W, exts, Grown(d, p, overlap)) /\ Base(exts, Grown(d, p, overlap)) = Base(exts, d)
            /\ Len(Grown(d, p, overlap).data) = Len(d.data) + (captured[p].len - overlap)
        BY <3>1, GrownIs
      <3> QED BY <1>1, <1>3, <2>2, <3>2
    <2>4. PICK z \in Int : z = e + len /\ b + (n + (len - overlap)) = z /\ z > next
      <3>1. PICK o \in Int, l \in Int : o = overlap /\ l = len
        OBVIOUS
      <3>2. o = next - e /\ o < l /\ next = b + n
        BY <1>3, <2>1, <3>1
      <3>3. b + (n + (l - o)) = e + l /\ e + l > next
        BY <3>2
      <3> QED BY <3>1, <3>3
    <2>5. Beyond(exts, g) = z /\ Run(exts, g) = b..(z - 1)
      BY <2>3, <2>4, ChunkIs
    <2>6. AddSegment(s, exts[p], p) = [next |-> z, buf |-> g.data, spans |-> g.spans, chunks |-> chunks]
      <3>1. AddSegment(s, exts[p], p) =
              IF s.next - exts[p] >= captured[p].len THEN s
              ELSE [next |-> exts[p] + captured[p].len, buf |-> Grown(d, p, s.next - exts[p]).data,
                    spans |-> Grown(d, p, s.next - exts[p]).spans, chunks |-> s.chunks]
        BY <1>1, <1>a, <1>9, AddMore, SMTT(30)
      <3> QED BY <1>1, <1>a, <1>9, <2>1, <2>2, <2>4, <3>1
    <2>7. N \cup e..(e + len - 1) = M \cup Run(exts, g)
      <3>1. Run(exts, g) = Run(exts, d) \cup e..(e + len - 1)
        <4>1. b..(z - 1) = b..(next - 1) \cup e..(z - 1)
          BY <1>6, <1>9, <2>4
        <4>2. e + len - 1 = z - 1
          BY <2>4
        <4> QED BY <1>4, <2>5, <4>1, <4>2
      <3> QED BY <1>2, <3>1
    <2>8. \A i \in 1..Len(chunks) : Beyond(exts, chunks[i]) < Base(exts, g)
      BY <1>2, <1>3, <2>3
    <2>9. Built(W, exts, AddSegment(s, exts[p], p), g, M \cup Run(exts, g))
      BY <1>2, <2>3, <2>5, <2>6, <2>8 DEF Built
    <2> QED BY <1>1, <1>6, <2>3, <2>7, <2>9
  <1> QED BY <1>7, <1>8, <1>9

-----------------------------------------------------------------------------
(* Packets in the order of their numbers.                                  *)
-----------------------------------------------------------------------------
\* The packets before one, of which there are as many as its place says.
Earlier(exts, p) == {q \in 1..Len(exts) : Before(exts, q, p)}

\* They are less than all, and those of an earlier packet are fewer.
LEMMA EarlierIs ==
  ASSUME NEW exts \in Seq(Int), NEW p \in 1..Len(exts)
  PROVE  /\ IsFiniteSet(Earlier(exts, p))
         /\ Cardinality(Earlier(exts, p)) \in 0..(Len(exts) - 1)
         /\ \A q \in 1..Len(exts) : Before(exts, q, p) =>
               Cardinality(Earlier(exts, q)) < Cardinality(Earlier(exts, p))
  <1>1. PICK n \in Nat : n = Len(exts)
    OBVIOUS
  <1>2. \A q \in 1..n : exts[q] \in Int
    BY <1>1, ElementOfSeq
  <1>3. IsFiniteSet(1..n) /\ Cardinality(1..n) = n
    BY FS_Interval
  <1>4. ASSUME NEW q \in 1..n
        PROVE  IsFiniteSet(Earlier(exts, q)) /\ Cardinality(Earlier(exts, q)) \in 0..(n - 1)
    <2>1. Earlier(exts, q) \subseteq 1..n /\ q \notin Earlier(exts, q)
      BY <1>1, <1>2 DEF Earlier, Before
    <2>2. IsFiniteSet(Earlier(exts, q))
      BY <1>3, <2>1, FS_Subset
    <2>3. Cardinality(Earlier(exts, q) \cup {q}) = Cardinality(Earlier(exts, q)) + 1
      BY <2>1, <2>2, FS_AddElement
    <2>4. Earlier(exts, q) \cup {q} \in SUBSET (1..n)
      BY <2>1
    <2>5. Cardinality(Earlier(exts, q) \cup {q}) <= n
      BY <1>3, <2>4, FS_Subset
    <2>6. Cardinality(Earlier(exts, q)) \in Nat
      BY <2>2, FS_CardinalityType
    <2> QED BY <2>2, <2>3, <2>5, <2>6
  <1>5. ASSUME NEW q \in 1..n, Before(exts, q, p)
        PROVE  Cardinality(Earlier(exts, q)) < Cardinality(Earlier(exts, p))
    <2>1. ASSUME NEW r \in 1..n, Before(exts, r, q)
          PROVE  Before(exts, r, p)
      BY <1>1, <1>2, <1>5, <2>1 DEF Before
    <2>2. q \notin Earlier(exts, q)
      BY <1>1, <1>2 DEF Earlier, Before
    <2>3. Earlier(exts, q) \cup {q} \in SUBSET Earlier(exts, p)
      BY <1>1, <1>5, <2>1 DEF Earlier
    <2>4. IsFiniteSet(Earlier(exts, q)) /\ IsFiniteSet(Earlier(exts, p))
      BY <1>1, <1>4
    <2>5. Cardinality(Earlier(exts, q) \cup {q}) = Cardinality(Earlier(exts, q)) + 1
      BY <2>2, <2>4, FS_AddElement
    <2>6. Cardinality(Earlier(exts, q) \cup {q}) <= Cardinality(Earlier(exts, p))
      BY <2>3, <2>4, FS_Subset
    <2>7. Cardinality(Earlier(exts, q)) \in Nat /\ Cardinality(Earlier(exts, p)) \in Nat
      BY <2>4, FS_CardinalityType
    <2> QED BY <2>5, <2>6, <2>7
  <1> QED BY <1>1, <1>4, <1>5

\* Sorting lists every packet, and none after one of a greater number.
LEMMA SortedIs ==
  ASSUME NEW exts \in Seq(Int)
  PROVE  \E order :
            /\ order = SortedPackets(exts)
            /\ \A i \in 1..Len(exts) : order[i] \in 1..Len(exts)
            /\ \A p \in 1..Len(exts) : \E i \in 1..Len(exts) : order[i] = p
            /\ \A i, j \in 1..Len(exts) : i < j => exts[order[i]] <= exts[order[j]]
  <1>0. PICK order : order = SortedPackets(exts)
    OBVIOUS
  <1>1. PICK n \in Nat : n = Len(exts)
    OBVIOUS
  <1>2. \A p \in 1..n : exts[p] \in Int
    BY <1>1, ElementOfSeq
  <1> DEFINE rank == [p \in 1..n |-> Cardinality(Earlier(exts, p))]
  <1>3. \A p \in 1..n : rank[p] \in 0..(n - 1)
    BY <1>1, EarlierIs
  <1>4. ASSUME NEW p \in 1..n, NEW q \in 1..n, Before(exts, q, p)
        PROVE  rank[q] < rank[p]
    BY <1>1, <1>4, EarlierIs
  <1>5. order = [i \in 1..n |-> CHOOSE p \in 1..n : rank[p] = i - 1]
    <2>1. \A p \in 1..n : rank[p] = Cardinality({q \in 1..n : Before(exts, q, p)})
      BY <1>1 DEF Earlier
    <2> HIDE DEF rank
    <2>2. order = [i \in 1..n |-> CHOOSE p \in 1..n : Cardinality({q \in 1..n : Before(exts, q, p)}) = i - 1]
      BY <1>0, <1>1 DEF SortedPackets
    <2> QED BY <2>1, <2>2, SMTT(30)
  <1>6. rank \in [1..n -> 0..(n - 1)]
    BY <1>3
  <1> HIDE DEF rank
  <1>7. \A p, q \in 1..n : p # q => rank[p] # rank[q]
    <2>1. ASSUME NEW p \in 1..n, NEW q \in 1..n, p # q
          PROVE  Before(exts, p, q) \/ Before(exts, q, p)
      BY <1>2, <2>1 DEF Before
    <2> QED BY <1>3, <1>4, <2>1
  <1>8. rank \in Injection(1..n, 0..(n - 1))
    BY <1>6, <1>7 DEF Injection, IsInjective
  <1>9. \A r \in 0..(n - 1) : \E p \in 1..n : rank[p] = r
    <2>1. IsFiniteSet(0..(n - 1)) /\ Cardinality(0..(n - 1)) = n /\ Cardinality(1..n) = n
      <3>1. /\ IsFiniteSet(0..(n - 1))
            /\ Cardinality(0..(n - 1)) = IF 0 > n - 1 THEN 0 ELSE (n - 1) - 0 + 1
        BY FS_Interval
      <3>2. Cardinality(1..n) = IF 1 > n THEN 0 ELSE n - 1 + 1
        BY FS_Interval
      <3> QED BY <3>1, <3>2
    <2>2. rank \in Surjection(1..n, 0..(n - 1))
      BY <1>8, <2>1, FS_Injection
    <2> QED BY <2>2 DEF Surjection
  <1>10. ASSUME NEW i \in 1..n
         PROVE  order[i] \in 1..n /\ rank[order[i]] = i - 1
    <2>1. \E p \in 1..n : rank[p] = i - 1
      <3>1. i - 1 \in 0..(n - 1)
        OBVIOUS
      <3> QED BY <1>9, <3>1
    <2>2. order[i] = CHOOSE p \in 1..n : rank[p] = i - 1
      BY <1>5
    <2> QED BY <2>1, <2>2
  <1>12. ASSUME NEW p \in 1..n
         PROVE  \E i \in 1..n : order[i] = p
    <2>1. PICK r \in 0..(n - 1) : r = rank[p]
      BY <1>3
    <2>2. r + 1 \in 1..n /\ (r + 1) - 1 = r
      OBVIOUS
    <2>3. order[r + 1] \in 1..n /\ rank[order[r + 1]] = r
      BY <1>10, <2>2
    <2>4. order[r + 1] = p
      BY <1>7, <2>1, <2>3
    <2> QED BY <2>2, <2>4
  <1>13. ASSUME NEW i \in 1..n, NEW j \in 1..n, i < j
         PROVE  exts[order[i]] <= exts[order[j]]
    <2>1. PICK p \in 1..n, q \in 1..n : p = order[i] /\ q = order[j] /\ rank[p] = i - 1 /\ rank[q] = j - 1
      BY <1>10
    <2>2. ~Before(exts, q, p)
      BY <1>4, <1>13, <2>1
    <2> QED BY <1>2, <2>1, <2>2, SMTT(30) DEF Before
  <1> QED BY <1>0, <1>1, <1>10, <1>12, <1>13

\* The loop over the sorted packets and its end.
Looped(exts, order, n, f) ==
    /\ f[0] = [next |-> None, buf |-> <<>>, spans |-> <<>>, chunks |-> <<>>]
    /\ \A k \in 1..n : f[k] = AddSegment(f[k - 1], exts[order[k]], order[k])
Ended(s) ==
    IF s.buf = <<>> THEN s.chunks ELSE Append(s.chunks, [data |-> s.buf, spans |-> s.spans])

\* There is one function that unfolds so.
LEMMA ChunksUnfold ==
  ASSUME NEW exts, NEW order, NEW n \in Nat,
         exts = Extended, order = SortedPackets(exts), Len(exts) = n
  PROVE  \E upTo : Looped(exts, order, n, upTo) /\ Chunks = Ended(upTo[n])
  <1> DEFINE none == [next |-> None, buf |-> <<>>, spans |-> <<>>, chunks |-> <<>>]
             Unfolds(f, m) == f = [k \in 0..m |-> IF k = 0 THEN none
                                                 ELSE AddSegment(f[k - 1], exts[order[k]], order[k])]
             T == {m \in Nat : \E f : Unfolds(f, m)}
  <1>1. 0 \in T
    <2> HIDE DEF none
    <2>1. Unfolds([k \in 0..0 |-> none], 0)
      OBVIOUS
    <2> QED BY <2>1
  <1>2. ASSUME NEW m \in Nat, m \in T
        PROVE  m + 1 \in T
    <2> HIDE DEF none
    <2>1. PICK f : Unfolds(f, m)
      BY <1>2
    <2> DEFINE g == [k \in 0..(m + 1) |-> IF k <= m THEN f[k] ELSE AddSegment(f[k - 1], exts[order[k]], order[k])]
    <2>2. ASSUME NEW k \in 0..(m + 1)
          PROVE  g[k] = IF k = 0 THEN none ELSE AddSegment(g[k - 1], exts[order[k]], order[k])
      <3>1. CASE k = 0
        <4>1. k \in 0..m /\ g[k] = f[k]
          BY <3>1
        <4> QED BY <2>1, <3>1, <4>1
      <3>2. CASE k # 0 /\ k <= m
        <4>1. k \in 0..m /\ k - 1 \in 0..(m + 1) /\ k - 1 <= m
          BY <3>2
        <4>2. g[k] = f[k] /\ g[k - 1] = f[k - 1]
          BY <4>1
        <4> QED BY <2>1, <3>2, <4>1, <4>2
      <3>3. CASE k = m + 1
        <4>1. k - 1 \in 0..(m + 1) /\ k - 1 <= m /\ ~(k <= m) /\ k # 0
          BY <3>3
        <4>2. g[k - 1] = f[k - 1]
          BY <4>1
        <4>3. g[k] = AddSegment(f[k - 1], exts[order[k]], order[k])
          BY <4>1
        <4> QED BY <4>1, <4>2, <4>3
      <3> QED BY <3>1, <3>2, <3>3
    <2> HIDE DEF g
    <2>3. g = [k \in 0..(m + 1) |-> g[k]]
      BY DEF g
    <2>4. Unfolds(g, m + 1)
      BY <2>2, <2>3
    <2> HIDE DEF Unfolds
    <2> QED BY <2>4
  <1>3. n \in T
    <2> HIDE DEF T
    <2>1. Nat \subseteq T
      BY <1>1, <1>2, NatSetInduction
    <2> QED BY <2>1
  <1> DEFINE chosen == CHOOSE f : Unfolds(f, n)
  <1>4. Unfolds(chosen, n)
    BY <1>3
  <1>5. Chunks = Ended(chosen[n])
    BY DEF Chunks, Ended
  <1> HIDE DEF chosen, none
  <1>6. chosen[0] = none /\ \A k \in 1..n : chosen[k] = AddSegment(chosen[k - 1], exts[order[k]], order[k])
    <2>1. 0 \in 0..n /\ \A k \in 1..n : k \in 0..n /\ k # 0
      OBVIOUS
    <2> QED BY <1>4, <2>1
  <1>7. Looped(exts, order, n, chosen)
    BY <1>6 DEF none, Looped
  <1> QED BY <1>5, <1>7

\* The chunks hold exactly the numbers that some packet carried.
LEMMA ChunksAre ==
  ASSUME NEW W, NEW exts \in Seq(Int), exts = Extended, Len(exts) = Len(captured), Payloads(W, exts)
  PROVE  \E N : /\ Chained(W, exts, Chunks, N)
                /\ \A x \in Int : x \in N <=> \E p \in 1..Len(captured) : Carried(exts, p, x)
  <1>1. PICK n \in Nat : n = Len(exts) /\ n = Len(captured)
    OBVIOUS
  <1>2. PICK order :
           /\ order = SortedPackets(exts)
           /\ \A i \in 1..n : order[i] \in 1..n
           /\ \A p \in 1..n : \E i \in 1..n : order[i] = p
           /\ \A i, j \in 1..n : i < j => exts[order[i]] <= exts[order[j]]
    BY <1>1, SortedIs
  <1> DEFINE none == [next |-> None, buf |-> <<>>, spans |-> <<>>, chunks |-> <<>>]
  <1>3. PICK f : Looped(exts, order, n, f) /\ Chunks = Ended(f[n])
    BY <1>1, <1>2, ChunksUnfold
  <1>4. f[0] = none /\ \A k \in 1..n : f[k] = AddSegment(f[k - 1], exts[order[k]], order[k])
    BY <1>3 DEF Looped
  <1>6. CASE n = 0
    <2>1. Chunks = <<>>
      BY <1>3, <1>4, <1>6 DEF Ended
    <2>2. Chained(W, exts, Chunks, {})
      BY <2>1, ChainedNone
    <2> QED BY <1>1, <1>6, <2>2 DEF Carried
  <1>7. CASE n > 0
    <2> DEFINE State(k, s) ==
                 \E d, N : /\ Built(W, exts, s, d, N) /\ Base(exts, d) <= exts[order[k]]
                           /\ N \subseteq Int
                           /\ \A x \in Int : x \in N <=> \E i \in 1..k : Carried(exts, order[i], x)
               T == {k \in Nat : k + 1 <= n => State(k + 1, f[k + 1])}
    <2>1. 0 \in T
      <3>1. 1 \in 1..n /\ order[1] \in 1..n /\ f[1] = AddSegment(none, exts[order[1]], order[1])
        <4>1. 1 \in 1..n /\ 1 - 1 = 0
          BY <1>7
        <4> QED BY <1>2, <1>4, <4>1
      <3>2. PICK p \in 1..n : p = order[1]
        BY <3>1
      <3>3. PICK g : /\ Built(W, exts, AddSegment(none, exts[p], p), g, exts[p]..(exts[p] + captured[p].len - 1))
                     /\ Base(exts, g) = exts[p]
        BY <1>1, FirstIs
      <3>4. exts[p] \in Int /\ captured[p].len \in Int
        BY <1>1 DEF Payloads
      <3> DEFINE N == exts[p]..(exts[p] + captured[p].len - 1)
      <3>5. N \subseteq Int /\ \A x \in Int : x \in N <=> \E i \in 1..1 : Carried(exts, order[i], x)
        BY <1>1, <3>2, <3>4 DEF Carried
      <3>6. Base(exts, g) <= exts[order[1]]
        BY <3>2, <3>3, <3>4
      <3> HIDE DEF N
      <3>7. Built(W, exts, f[1], g, N)
        BY <3>1, <3>2, <3>3 DEF N
      <3>8. State(1, f[1])
        BY <3>5, <3>6, <3>7
      <3> HIDE DEF State
      <3>9. 0 + 1 = 1
        OBVIOUS
      <3> QED BY <3>8, <3>9
    <2>2. ASSUME NEW k \in Nat, k \in T
          PROVE  k + 1 \in T
      <3> HIDE DEF State
      <3> SUFFICES ASSUME (k + 1) + 1 <= n
                   PROVE  State((k + 1) + 1, f[(k + 1) + 1])
        OBVIOUS
      <3>1. PICK m \in Nat \ {0} : m = k + 1 /\ m < n /\ m \in 1..n /\ m + 1 \in 1..n /\ (m + 1) - 1 = m
        BY <1>1
      <3>2. State(m, f[m])
        BY <2>2, <3>1
      <3>3. PICK d, N : /\ Built(W, exts, f[m], d, N) /\ Base(exts, d) <= exts[order[m]]
                        /\ N \subseteq Int
                        /\ \A x \in Int : x \in N <=> \E i \in 1..m : Carried(exts, order[i], x)
        BY <3>2 DEF State
      <3>4. PICK p \in 1..n : p = order[m + 1]
        BY <1>2, <3>1
      <3>5. f[m + 1] = AddSegment(f[m], exts[p], p)
        BY <1>4, <3>1, <3>4
      <3>6. PICK e \in Int, len \in Int : e = exts[p] /\ len = captured[p].len
        BY <1>1 DEF Payloads
      <3>7. Base(exts, d) <= exts[p]
        <4>1. exts[order[m]] <= e
          <5>1. exts[order[m]] <= exts[order[m + 1]]
            <6>1. m < m + 1 /\ m \in 1..n /\ m + 1 \in 1..n
              BY <3>1
            <6> QED BY <1>2, <6>1
          <5> QED BY <3>4, <3>6, <5>1
        <4>2. exts[order[m]] \in Int
          BY <1>1, <1>2, <3>1 DEF Payloads
        <4>3. Base(exts, d) \in Int
          BY <3>3 DEF Built, IsChunk
        <4> QED BY <3>3, <3>6, <4>1, <4>2, <4>3
      <3>8. PICK g : /\ Built(W, exts, AddSegment(f[m], exts[p], p), g,
                              N \cup exts[p]..(exts[p] + captured[p].len - 1))
                     /\ Base(exts, g) <= exts[p]
        BY <1>1, <3>3, <3>7, AddIs
      <3> DEFINE M == N \cup e..(e + len - 1)
      <3>9. Built(W, exts, f[m + 1], g, M) /\ Base(exts, g) <= exts[order[m + 1]]
        BY <3>4, <3>5, <3>6, <3>8
      <3>10. M \subseteq Int
        <4>1. e..(e + len - 1) \subseteq Int
          BY <3>6
        <4> QED BY <3>3, <4>1
      <3>11. ASSUME NEW x \in Int
             PROVE  x \in M <=> \E i \in 1..(m + 1) : Carried(exts, order[i], x)
        <4>1. x \in e..(e + len - 1) <=> Carried(exts, order[m + 1], x)
          BY <1>1, <3>4, <3>6 DEF Carried
        <4>2. \A i \in 1..(m + 1) : i \in 1..m \/ i = m + 1
          BY <3>1
        <4>3. m + 1 \in 1..(m + 1) /\ \A i \in 1..m : i \in 1..(m + 1)
          BY <3>1
        <4>4. x \in N <=> \E i \in 1..m : Carried(exts, order[i], x)
          BY <3>3
        <4> QED BY <4>1, <4>2, <4>3, <4>4
      <3> HIDE DEF M
      <3>12. State(m + 1, f[m + 1])
        BY <3>9, <3>10, <3>11 DEF State
      <3> QED BY <3>1, <3>12
    <2>3. State(n, f[n])
      <3> HIDE DEF T, State
      <3>1. Nat \subseteq T
        BY <2>1, <2>2, NatSetInduction
      <3>2. n - 1 \in T /\ (n - 1) + 1 = n
        BY <1>7, <3>1
      <3> QED BY <3>2 DEF T
    <2>4. PICK d, N : /\ Built(W, exts, f[n], d, N)
                      /\ N \subseteq Int
                      /\ \A x \in Int : x \in N <=> \E i \in 1..n : Carried(exts, order[i], x)
      BY <2>3
    <2>5. PICK chunks, M :
            /\ f[n] = [next |-> Beyond(exts, d), buf |-> d.data, spans |-> d.spans, chunks |-> chunks]
            /\ Chained(W, exts, chunks, M) /\ IsChunk(W, exts, d)
            /\ \A i \in 1..Len(chunks) : Beyond(exts, chunks[i]) < Base(exts, d)
            /\ N = M \cup Run(exts, d)
      BY <2>4 DEF Built
    <2>6. d.data # <<>> /\ [data |-> d.data, spans |-> d.spans] = d
      BY <2>5, ChunkIs
    <2>7. f[n].buf = d.data /\ f[n].spans = d.spans /\ f[n].chunks = chunks
      BY <2>5
    <2>8. Chunks = Append(chunks, d)
      BY <1>3, <2>6, <2>7 DEF Ended
    <2>9. Chained(W, exts, Chunks, N)
      BY <2>5, <2>8, ChainedNext
    <2>10. ASSUME NEW x \in Int
           PROVE  x \in N <=> \E p \in 1..n : Carried(exts, p, x)
      <3>1. x \in N <=> \E i \in 1..n : Carried(exts, order[i], x)
        BY <2>4
      <3> QED BY <1>2, <3>1
    <2> QED BY <1>1, <2>9, <2>10
  <1> QED BY <1>1, <1>6, <1>7

-----------------------------------------------------------------------------
(* Remainders.                                                             *)
-----------------------------------------------------------------------------
\* A multiple more or less leaves the same.
LEMMA ModShift ==
  ASSUME NEW x \in Int, NEW z \in Int, NEW m \in Nat, m > 0
  PROVE  (x + m * z) % m = x % m
  <1>1. PICK q \in Int, r \in 0..(m - 1) : q = x \div m /\ r = x % m /\ x = m * q + r
    BY DivMod
  <1>2. PICK h \in Int, k \in Int : h = x + m * z /\ k = q + z
    OBVIOUS
  <1>3. m * k = m * q + m * z
    BY <1>2
  <1>4. PICK a \in Int, b \in Int, c \in Int : a = m * q /\ b = m * z /\ c = m * k
    OBVIOUS
  <1>5. h - c = r
    BY <1>1, <1>2, <1>3, <1>4
  <1>6. h % m = h - m * k
    BY <1>4, <1>5, ModUnique
  <1> QED BY <1>1, <1>2, <1>4, <1>5, <1>6

\* A remainder is its own.
LEMMA ModSmall ==
  ASSUME NEW r \in Int, NEW m \in Nat, r \in 0..(m - 1)
  PROVE  r % m = r
  <1>1. m > 0 /\ m * 0 = 0 /\ r - m * 0 = r
    OBVIOUS
  <1> QED BY <1>1, ModUnique

\* Two that leave the same differ by a multiple.
LEMMA ModSame ==
  ASSUME NEW x \in Int, NEW y \in Int, NEW m \in Nat, m > 0, x % m = y % m
  PROVE  \E z \in Int : x = y + m * z
  <1>1. PICK q \in Int, r \in 0..(m - 1) : r = x % m /\ x = m * q + r
    BY DivMod
  <1>2. PICK s \in Int : y = m * s + r
    BY <1>1, DivMod
  <1>3. q - s \in Int /\ m * (q - s) = m * q - m * s
    OBVIOUS
  <1>4. PICK a \in Int, b \in Int, c \in Int : a = m * q /\ b = m * s /\ c = m * (q - s)
    OBVIOUS
  <1>5. x = y + c
    BY <1>1, <1>2, <1>3, <1>4
  <1> QED BY <1>3, <1>4, <1>5

\* The greater of two.
LEMMA MaxOfTwo ==
  ASSUME NEW a \in Int, NEW b \in Int
  PROVE  Max({a, b}) = IF a >= b THEN a ELSE b
  <1>1. PICK x \in Int : x = IF a >= b THEN a ELSE b
    OBVIOUS
  <1>2. x \in {a, b} /\ \A y \in {a, b} : x >= y
    BY <1>1
  <1>3. Max({a, b}) \in {a, b} /\ \A y \in {a, b} : Max({a, b}) >= y
    BY <1>2 DEF Max
  <1> QED BY <1>1, <1>2, <1>3

-----------------------------------------------------------------------------
(* Sequence numbers.                                                       *)
-----------------------------------------------------------------------------
\* Of two numbers less than half of the sequence space apart, the second is
\* found from what the packet says of it and the first.
Near(x, y) == 2 * (x - y) < Modulus /\ 2 * (y - x) < Modulus

\* The nearest of the three candidates is the number itself.
LEMMA UnwrapIs ==
  ASSUME NEW t \in Int, NEW ref \in Int, Near(t, ref), NEW seq, seq = t % Modulus
  PROVE  Unwrap32(seq, ref) = t
  <1>1. PICK M \in Nat : M = Modulus
    BY TcpAssumption
  <1>2. M > 0 /\ 2 * (t - ref) < M /\ 2 * (ref - t) < M
    BY <1>1 DEF Near
  <1>3. PICK q \in Int, r \in 0..(M - 1) : q = ref \div M /\ ref = M * q + r
    BY <1>2, DivMod
  <1>4. PICK k \in Int, s \in 0..(M - 1) : s = t % M /\ t = M * k + s
    BY <1>2, DivMod
  <1>5. PICK b \in Int : b = q * M /\ b = M * q
    OBVIOUS
  <1>6. PICK d \in Int : d = k - q
    OBVIOUS
  <1>7. M * d = M * k - M * q
    BY <1>6
  <1>8. PICK u \in Int, v \in Int : u = M * d /\ v = M * k /\ u = v - b
    BY <1>5, <1>7
  <1>9. t = b + s + u /\ ref = b + r
    BY <1>3, <1>4, <1>5, <1>8
  <1>10. u < 2 * M /\ -(2 * M) < u
    BY <1>2, <1>9
  <1>11. d = -1 \/ d = 0 \/ d = 1
    BY <1>8, <1>10, SmallMultiple
  <1>12. u = -M \/ u = 0 \/ u = M
    <2>1. M * (-1) = -M /\ M * 0 = 0 /\ M * 1 = M
      OBVIOUS
    <2> QED BY <1>8, <1>11, <2>1
  <1> DEFINE candidates == <<b + s, b - M + s, b + M + s>>
             Dist(i) == Abs(candidates[i] - ref)
             Best(i) == \A j \in 1..3 : Dist(i) <= Dist(j) /\ (Dist(i) = Dist(j) => i <= j)
  <1>13. candidates[1] = b + s /\ candidates[2] = b - M + s /\ candidates[3] = b + M + s
    OBVIOUS
  <1>14. Unwrap32(seq, ref) = candidates[CHOOSE i \in 1..3 : Best(i)]
    <2>1. (ref \div Modulus) * Modulus = b /\ seq = s
      BY <1>1, <1>3, <1>4, <1>5
    <2> QED BY <1>1, <2>1 DEF Unwrap32
  <1> HIDE DEF candidates
  <1>15. \E i \in 1..3 : candidates[i] = t
    <2>1. b + s = t \/ b - M + s = t \/ b + M + s = t
      BY <1>9, <1>12
    <2> QED BY <1>13, <2>1
  <1>16. \A i \in 1..3 : candidates[i] \in Int
    <2>1. \A i \in 1..3 : i = 1 \/ i = 2 \/ i = 3
      OBVIOUS
    <2> QED BY <1>13, <2>1
  <1>17. ASSUME NEW i \in 1..3, candidates[i] = t, NEW j \in 1..3, j # i
         PROVE  Dist(i) < Dist(j)
    <2>1. candidates[j] - candidates[i] >= M \/ candidates[i] - candidates[j] >= M
      <3>1. \A n \in 1..3 : n = 1 \/ n = 2 \/ n = 3
        OBVIOUS
      <3> QED BY <1>2, <1>13, <1>17, <3>1
    <2>2. PICK c \in Int : c = candidates[j]
      BY <1>16
    <2>3. Abs(t - ref) < Abs(c - ref)
      BY <1>2, <1>17, <2>1, <2>2 DEF Abs
    <2> QED BY <1>17, <2>2, <2>3
  <1>18. \A i \in 1..3 : Dist(i) \in Int
    BY <1>16 DEF Abs
  <1> HIDE DEF Dist
  <1>19. ASSUME NEW i \in 1..3, candidates[i] = t
         PROVE  Best(i) /\ \A j \in 1..3 : Best(j) => j = i
    <2>1. \A j \in 1..3 : j # i => Dist(i) < Dist(j)
      BY <1>17, <1>19
    <2>2. Best(i)
      BY <1>18, <2>1
    <2>3. ASSUME NEW j \in 1..3, Best(j)
          PROVE  j = i
      <3>1. Dist(j) <= Dist(i)
        BY <2>3
      <3> QED BY <1>18, <2>1, <3>1
    <2> QED BY <2>2, <2>3
  <1> HIDE DEF Best
  <1>20. PICK i \in 1..3 : candidates[i] = t
    BY <1>15
  <1>21. (CHOOSE n \in 1..3 : Best(n)) = i
    BY <1>19, <1>20
  <1> QED BY <1>14, <1>20, <1>21

\* What every capture is: segments of one connection after the other, and what was
\* kept is what the filter lets through.
StreamInv ==
    /\ captured \in Seq(Segments)
    /\ \A p, q \in 1..Len(captured) : p < q => captured[p].conn <= captured[q].conn
    /\ first \in [Connections -> 0..(Modulus - 1)]
    /\ sensed \subseteq Segments
    /\ \A p \in 1..Len(captured) : captured[p] \in sensed
    /\ \A s \in sensed : PassesFilter(s) => \E p \in 1..Len(captured) : captured[p] = s

\* A stream is less than half of the sequence space.
LEMMA StreamSize ==
  ASSUME NEW c \in Connections
  PROVE  c \in Nat /\ Len(Stream[c]) \in Nat /\ 2 * Len(Stream[c]) < Modulus /\ Modulus \in Nat
  BY TcpAssumption, StreamIs, ConnectionsAre

\* A captured packet is a piece of the stream of its connection.
LEMMA PacketIs ==
  ASSUME StreamInv, NEW p \in 1..Len(captured)
  PROVE  /\ captured[p].conn \in Connections
         /\ captured[p].off \in Nat /\ captured[p].len \in Nat \ {0}
         /\ captured[p].off + captured[p].len <= Len(Stream[captured[p].conn])
         /\ first[captured[p].conn] \in 0..(Modulus - 1)
         /\ TcpSeq(p) = (first[captured[p].conn] + captured[p].off) % Modulus
  <1>1. captured[p] \in Segments
    BY ElementOfSeq DEF StreamInv
  <1>2. captured[p] \in [conn : Connections, off : Nat, len : Nat \ {0}]
    BY <1>1, TcpAssumption
  <1>3. captured[p].off + captured[p].len <= Len(Stream[captured[p].conn])
    BY <1>1, TcpAssumption
  <1>4. first[captured[p].conn] \in 0..(Modulus - 1)
    BY <1>2 DEF StreamInv
  <1> QED BY <1>2, <1>3, <1>4 DEF TcpSeq

\* What it is for the numbers of two connections to be apart.
LEMMA ApartIs ==
  ASSUME NumbersApart, NEW c \in Connections, NEW d \in Connections, c < d
  PROVE  \/ \A x \in Numbers(c), y \in Numbers(d) : 0 < (y - x) % Modulus /\ 2 * ((y - x) % Modulus) < Modulus
         \/ \A x \in Numbers(c), y \in Numbers(d) : 2 * ((y - x) % Modulus) > Modulus
  <1> DEFINE ahead == {(n[2] - n[1]) % Modulus : n \in Numbers(c) \X Numbers(d)}
  <1>1. \/ \A n \in ahead : 0 < n /\ 2 * n < Modulus
        \/ \A n \in ahead : 2 * n > Modulus
    BY DEF NumbersApart
  <1>2. ASSUME NEW x \in Numbers(c), NEW y \in Numbers(d)
        PROVE  (y - x) % Modulus \in ahead
    <2>1. <<x, y>> \in Numbers(c) \X Numbers(d) /\ <<x, y>>[1] = x /\ <<x, y>>[2] = y
      OBVIOUS
    <2> QED BY <2>1
  <1> HIDE DEF ahead
  <1> QED BY <1>1, <1>2

\* The numbers of a connection, the distance between those of two, and where
\* a number begins that was extended.
LEMMA AheadIs ==
  ASSUME StreamInv, NEW c \in Connections, NEW d \in Connections,
         NEW o \in 0..(Len(Stream[c]) - 1), NEW i \in 0..(Len(Stream[d]) - 1),
         NEW x \in Int, NEW y \in Int,
         x % Modulus = (first[c] + o) % Modulus, y % Modulus = (first[d] + i) % Modulus
  PROVE  \E m \in Numbers(c), n \in Numbers(d) : (n - m) % Modulus = (y - x) % Modulus
  <1>1. PICK M \in Nat : M = Modulus /\ M > 0
    BY StreamSize
  <1>2. PICK a \in Int, b \in Int : a = first[c] + o /\ b = first[d] + i
    BY DEF StreamInv
  <1>3. PICK m \in Int, n \in Int : m = a % M /\ n = b % M /\ m \in 0..(M - 1) /\ n \in 0..(M - 1)
    BY <1>1, DivMod
  <1>4. m \in Numbers(c) /\ n \in Numbers(d)
    BY <1>1, <1>2, <1>3 DEF Numbers
  <1>5. m % M = m /\ n % M = n
    BY <1>1, <1>3, ModSmall
  <1>6. n % M = y % M /\ m % M = x % M
    BY <1>1, <1>2, <1>3, <1>5
  <1>7. (n - m) % M = (y - x) % M
    <2>1. PICK z \in Int : n = y + M * z
      BY <1>1, <1>6, ModSame, ZenonT(30)
    <2>2. PICK w \in Int : m = x + M * w
      BY <1>1, <1>6, ModSame, ZenonT(30)
    <2>3. M * (z - w) = M * z - M * w /\ z - w \in Int
      OBVIOUS
    <2>4. PICK f \in Int, g \in Int, h \in Int, k \in Int :
             f = M * z /\ g = M * w /\ h = M * (z - w) /\ k = y - x
      BY <2>3
    <2>5. n - m = k + h
      BY <2>1, <2>2, <2>3, <2>4
    <2>6. (k + M * (z - w)) % M = k % M
      BY <1>1, <2>3, ModShift, ZenonT(30)
    <2> QED BY <2>4, <2>5, <2>6
  <1> QED BY <1>1, <1>4, <1>7

\* The first number of a new connection, from any number of one before it.
LEMMA NextHome ==
  ASSUME StreamInv, NumbersApart, NEW c \in Connections, NEW d \in Connections, c < d,
         NEW o \in 0..(Len(Stream[c]) - 1), NEW ref \in Int,
         ref % Modulus = (first[c] + o) % Modulus, Len(Stream[d]) > 0
  PROVE  \E b \in Int : /\ b % Modulus = first[d] % Modulus
                        /\ \A i \in 0..(Len(Stream[d]) - 1) : Near(b + i, ref)
  <1>1. PICK M \in Nat, L \in Nat : M = Modulus /\ L = Len(Stream[d]) /\ M > 0 /\ L > 0 /\ 2 * L < M
    BY StreamSize
  <1>2. PICK f \in Int : f = first[d]
    BY DEF StreamInv
  <1>3. PICK h \in Int : h = f - ref
    OBVIOUS
  <1>4. PICK q \in Int, r \in 0..(M - 1) : r = h % M /\ h = M * q + r
    <2>1. h \div M \in Int /\ h % M \in 0..(M - 1) /\ h = M * (h \div M) + (h % M)
      BY <1>1, DivMod, ZenonT(30)
    <2> QED BY <2>1
  <1>5. PICK g \in Int : g = M * q /\ h = g + r /\ f = ref + (g + r)
    BY <1>3, <1>4
  <1>6. ASSUME NEW i \in 0..(L - 1)
        PROVE  \E m \in Numbers(c), n \in Numbers(d) : (n - m) % M = (r + i) % M
    <2>1. PICK y \in Int : y = f + i
      OBVIOUS
    <2>2. \E m \in Numbers(c), n \in Numbers(d) : (n - m) % Modulus = (y - ref) % Modulus
      <3>1. y % Modulus = (first[d] + i) % Modulus /\ i \in 0..(Len(Stream[d]) - 1)
        BY <1>1, <1>2, <2>1
      <3> QED BY <3>1, AheadIs
    <2>3. PICK s \in Int : s = r + i
      OBVIOUS
    <2>4. y - ref = s + M * q
      <3>1. y - ref = s + g
        BY <1>5, <2>1, <2>3
      <3> QED BY <1>5, <3>1
    <2>5. (s + M * q) % M = s % M
      BY <1>1, ModShift
    <2> QED BY <1>1, <2>2, <2>3, <2>4, <2>5
  <1>7. (r + 0) % M = r
    <2>1. r + 0 = r /\ r \in Int
      OBVIOUS
    <2> QED BY <1>1, <2>1, ModSmall
  <1>8. 0 \in 0..(L - 1)
    BY <1>1
  <1>9. CASE \A x \in Numbers(c), y \in Numbers(d) : 0 < (y - x) % M /\ 2 * ((y - x) % M) < M
    <2>1. 2 * r < M
      BY <1>6, <1>7, <1>8, <1>9
    <2>2. PICK b \in Int : b = ref + r
      OBVIOUS
    <2>3. ASSUME NEW i \in 0..(L - 1)
          PROVE  Near(b + i, ref)
      <3>1. r + i \in 0..(M - 1) /\ r + i \in Int
        BY <1>1, <2>1
      <3>2. (r + i) % M = r + i
        BY <3>1, ModSmall
      <3>3. 2 * (r + i) < M
        BY <1>6, <1>9, <3>2
      <3> QED BY <1>1, <2>2, <3>1, <3>3 DEF Near
    <2>4. b % M = f % M
      <3>1. f = b + M * q
        BY <1>5, <2>2
      <3>2. (b + M * q) % M = b % M
        BY <1>1, ModShift
      <3> QED BY <3>1, <3>2
    <2> QED BY <1>1, <1>2, <2>3, <2>4
  <1>10. CASE \A x \in Numbers(c), y \in Numbers(d) : 2 * ((y - x) % M) > M
    <2>1. 2 * r > M
      BY <1>6, <1>7, <1>8, <1>10
    <2>2. PICK b \in Int : b = ref + r - M
      OBVIOUS
    <2>3. ASSUME NEW i \in 0..(L - 1)
          PROVE  Near(b + i, ref)
      <3>1. PICK s \in Int : s = r + i
        OBVIOUS
      <3>2. s < M
        <4> SUFFICES ASSUME s >= M PROVE FALSE
          OBVIOUS
        <4>1. s - M \in 0..(M - 1) /\ 2 * (s - M) < M /\ s - M * 1 = s - M /\ 1 \in Int
          BY <1>1, <3>1
        <4>2. s % M = s - M
          BY <1>1, <4>1, ModUnique
        <4>3. 2 * (s % M) > M
          BY <1>6, <1>10, <3>1
        <4> QED BY <4>1, <4>2, <4>3
      <3>3. s \in 0..(M - 1)
        BY <3>1, <3>2
      <3>4. s % M = s
        BY <3>3, ModSmall
      <3>5. 2 * s > M
        BY <1>6, <1>10, <3>1, <3>4
      <3>6. b + i = ref + s - M
        BY <2>2, <3>1
      <3>7. 2 * (b + i - ref) < M /\ 2 * (ref - (b + i)) < M
        BY <3>2, <3>5, <3>6
      <3> QED BY <1>1, <3>7 DEF Near
    <2>4. b % M = f % M
      <3>1. q + 1 \in Int /\ M * (q + 1) = M * q + M
        OBVIOUS
      <3>2. f = b + M * (q + 1)
        BY <1>5, <2>2, <3>1
      <3>3. (b + M * (q + 1)) % M = b % M
        BY <1>1, <3>1, ModShift
      <3> QED BY <3>2, <3>3
    <2> QED BY <1>1, <1>2, <2>3, <2>4
  <1> QED BY <1>1, <1>9, <1>10, ApartIs

\* Where the extended numbers of each connection begin.
Home(B) ==
    /\ B \in [Connections -> Int]
    /\ \A c \in Connections : \A o \in Int : (B[c] + o) % Modulus = (first[c] + o) % Modulus

\* After k packets, the last of which is of connection e: their numbers, and a
\* reference that is near every number of e.
Known(B, e, s, k) ==
    /\ e \in Connections
    /\ s.exts \in Seq(Int) /\ Len(s.exts) = k
    /\ \A p \in 1..k : captured[p].conn <= e /\ s.exts[p] = B[captured[p].conn] + captured[p].off
    /\ \E c \in Connections : \E o \in 0..(Len(Stream[c]) - 1) : c <= e /\ s.ref = B[c] + o
    /\ \A o \in 0..(Len(Stream[e]) - 1) : Near(B[e] + o, s.ref)

\* Two numbers with the same remainder keep it however far one goes on.
LEMMA SameBeyond ==
  ASSUME NEW b \in Int, NEW f \in Int, NEW m \in Nat, m > 0, b % m = f % m
  PROVE  \A o \in Int : (b + o) % m = (f + o) % m
  <1>1. PICK z \in Int : b = f + m * z
    BY ModSame
  <1> TAKE o \in Int
  <1>2. PICK h \in Int, g \in Int : h = f + o /\ g = m * z
    OBVIOUS
  <1>3. b + o = h + m * z
    BY <1>1, <1>2
  <1>4. (h + m * z) % m = h % m
    BY ModShift
  <1> QED BY <1>2, <1>3, <1>4

\* Where a connection begins may be anywhere that leaves the same.
LEMMA HomeWith ==
  ASSUME StreamInv, NEW B, Home(B), NEW d \in Connections, NEW b \in Int, b % Modulus = first[d] % Modulus
  PROVE  Home([B EXCEPT ![d] = b])
  <1>1. Modulus \in Nat /\ Modulus > 0 /\ first[d] \in Int
    BY StreamSize DEF StreamInv
  <1>2. \A o \in Int : (b + o) % Modulus = (first[d] + o) % Modulus
    BY <1>1, SameBeyond
  <1>3. PICK A : A = [B EXCEPT ![d] = b]
    OBVIOUS
  <1>4. A \in [Connections -> Int] /\ A[d] = b /\ \A c \in Connections : c # d => A[c] = B[c]
    BY <1>3 DEF Home
  <1>5. ASSUME NEW c \in Connections, NEW o \in Int
        PROVE  (A[c] + o) % Modulus = (first[c] + o) % Modulus
    <2>1. CASE c = d
      BY <1>2, <1>4, <2>1
    <2>2. CASE c # d
      BY <1>4, <2>2 DEF Home
    <2> QED BY <2>1, <2>2
  <1> QED BY <1>3, <1>4, <1>5 DEF Home

\* Some home.
LEMMA HomeIs ==
  ASSUME StreamInv
  PROVE  Home([c \in Connections |-> first[c]])
  BY DEF StreamInv, Home

\* A packet is of some connection, from some place of its stream on.
LEMMA PacketOf ==
  ASSUME StreamInv, NEW p \in 1..Len(captured)
  PROVE  \E e \in Connections : \E o \in Nat :
            /\ e = captured[p].conn /\ o = captured[p].off
            /\ o < Len(Stream[e]) /\ first[e] \in 0..(Modulus - 1)
            /\ TcpSeq(p) = (first[e] + o) % Modulus
  <1>1. PICK e \in Connections, o \in Nat, len \in Nat \ {0} :
           /\ e = captured[p].conn /\ o = captured[p].off /\ len = captured[p].len
           /\ o + len <= Len(Stream[e])
           /\ first[e] \in 0..(Modulus - 1)
           /\ TcpSeq(p) = (first[e] + o) % Modulus
    BY PacketIs
  <1>2. Len(Stream[e]) \in Nat
    BY StreamSize
  <1>3. o < Len(Stream[e])
    BY <1>1, <1>2
  <1> QED BY <1>1, <1>3

\* The first packet.
LEMMA KnownFirst ==
  ASSUME StreamInv, 1 \in 1..Len(captured), NEW s, s = [ref |-> TcpSeq(1), exts |-> <<>>]
  PROVE  \E B : Home(B) /\ Known(B, captured[1].conn, s, 0)
  <1>1. PICK e \in Connections, o \in Nat :
           /\ e = captured[1].conn /\ o = captured[1].off
           /\ o < Len(Stream[e]) /\ first[e] \in 0..(Modulus - 1)
           /\ TcpSeq(1) = (first[e] + o) % Modulus
    BY PacketOf
  <1>a. PICK L \in Nat, M \in Nat : L = Len(Stream[e]) /\ M = Modulus /\ o < L /\ 2 * L < M /\ M > 0
    BY <1>1, StreamSize
  <1>b. PICK f \in Int, h \in Int : f = first[e] /\ h = f + o /\ TcpSeq(1) = h % M
    BY <1>1, <1>a
  <1>2. PICK q \in Int, r \in 0..(M - 1) : q = h \div M /\ r = h % M /\ h = M * q + r
    BY <1>a, DivMod
  <1>c. TcpSeq(1) = r
    BY <1>b, <1>2
  <1>3. PICK b \in Int : b = r - o
    OBVIOUS
  <1>4. b % M = f % M
    <2>1. f = b + M * q
      <3>1. PICK g \in Int : g = M * q
        OBVIOUS
      <3>2. h = g + r
        BY <1>2, <3>1
      <3>3. f = b + g
        BY <1>3, <1>b, <3>2
      <3> QED BY <3>1, <3>3
    <2>2. (b + M * q) % M = b % M
      BY <1>a, ModShift
    <2> QED BY <2>1, <2>2
  <1> DEFINE A == [c \in Connections |-> first[c]]
             B == [A EXCEPT ![e] = b]
  <1>5. Home(B)
    <2>1. b % Modulus = first[e] % Modulus
      BY <1>4, <1>a, <1>b
    <2>2. Home(A)
      BY HomeIs
    <2> HIDE DEF A
    <2> QED BY <2>1, <2>2, HomeWith
  <1>6. B[e] = b
    OBVIOUS
  <1> HIDE DEF B
  <1>7. s.ref = B[e] + o /\ s.exts = <<>> /\ s.exts \in Seq(Int) /\ Len(s.exts) = 0
    BY <1>3, <1>6, <1>c
  <1>8. o \in 0..(Len(Stream[e]) - 1) /\ e <= e
    BY <1>1, StreamSize
  <1>9. ASSUME NEW i \in 0..(Len(Stream[e]) - 1)
        PROVE  Near(B[e] + i, s.ref)
    <2>1. i \in Int /\ i >= 0 /\ i < L
      BY <1>a
    <2>2. 2 * ((b + i) - (b + o)) < M /\ 2 * ((b + o) - (b + i)) < M
      BY <1>a, <2>1
    <2> QED BY <1>6, <1>7, <1>a, <2>2 DEF Near
  <1>10. Known(B, e, s, 0)
    BY <1>7, <1>8, <1>9 DEF Known
  <1> QED BY <1>1, <1>5, <1>10

\* A packet of the same connection.
LEMMA KnownAdd ==
  ASSUME StreamInv, NEW B, Home(B), NEW s, NEW k \in Nat, k + 1 \in 1..Len(captured),
         Known(B, captured[k + 1].conn, s, k)
  PROVE  Known(B, captured[k + 1].conn, Unwrap(s, k + 1), k + 1)
  <1>1. PICK e \in Connections, o \in Nat, L \in Nat, M \in Nat :
           /\ e = captured[k + 1].conn /\ o = captured[k + 1].off
           /\ L = Len(Stream[e]) /\ M = Modulus /\ o < L /\ 2 * L < M /\ o \in 0..(L - 1)
           /\ TcpSeq(k + 1) = (first[e] + o) % M
    <2>1. PICK p \in 1..Len(captured) : p = k + 1
      OBVIOUS
    <2>2. PICK e \in Connections, o \in Nat :
             /\ e = captured[p].conn /\ o = captured[p].off /\ o < Len(Stream[e])
             /\ TcpSeq(p) = (first[e] + o) % Modulus
      BY PacketOf
    <2>3. PICK L \in Nat, M \in Nat : L = Len(Stream[e]) /\ M = Modulus /\ 2 * L < M
      BY StreamSize
    <2>4. o \in 0..(L - 1)
      BY <2>2, <2>3
    <2> QED BY <2>1, <2>2, <2>3, <2>4
  <1>2. PICK b \in Int : b = B[e]
    BY DEF Home
  <1>3. PICK c \in Connections : \E i \in 0..(Len(Stream[c]) - 1) : c <= e /\ s.ref = B[c] + i
    BY <1>1 DEF Known
  <1>4. PICK ref \in Int : ref = s.ref
    BY <1>3 DEF Home
  <1>5. PICK x \in Int : x = b + o
    OBVIOUS
  <1>6. \A i \in 0..(L - 1) : Near(b + i, ref)
    BY <1>1, <1>2, <1>4 DEF Known
  <1>7. Near(x, ref)
    BY <1>1, <1>5, <1>6
  <1>8. TcpSeq(k + 1) = x % Modulus
    <2>1. (B[e] + o) % Modulus = (first[e] + o) % Modulus
      BY DEF Home
    <2> QED BY <1>1, <1>2, <1>5, <2>1
  <1>9. Unwrap32(TcpSeq(k + 1), s.ref) = x
    BY <1>4, <1>7, <1>8, UnwrapIs
  <1>10. PICK new \in Int : new = (IF ref >= x THEN ref ELSE x)
    OBVIOUS
  <1>11. Max({s.ref, x}) = new
    BY <1>4, <1>10, MaxOfTwo
  <1>12. PICK t : t = Unwrap(s, k + 1)
    OBVIOUS
  <1>13. t = [ref |-> new, exts |-> Append(s.exts, x)]
    BY <1>9, <1>11, <1>12 DEF Unwrap
  <1>14. t.ref = new /\ t.exts = Append(s.exts, x)
    BY <1>13
  <1>15. /\ t.exts \in Seq(Int) /\ Len(t.exts) = k + 1
         /\ t.exts[k + 1] = x /\ \A p \in 1..k : t.exts[p] = s.exts[p]
    <2>1. PICK old : old = s.exts
      OBVIOUS
    <2>2. old \in Seq(Int) /\ Len(old) = k
      BY <2>1 DEF Known
    <2> QED BY <1>14, <2>1, <2>2, AppendProperties
  <1>16. ASSUME NEW p \in 1..(k + 1)
         PROVE  captured[p].conn <= e /\ t.exts[p] = B[captured[p].conn] + captured[p].off
    <2>1. CASE p \in 1..k
      <3>1. captured[p].conn <= e /\ s.exts[p] = B[captured[p].conn] + captured[p].off
        BY <1>1, <2>1 DEF Known
      <3> QED BY <1>15, <2>1, <3>1
    <2>2. CASE p = k + 1
      <3>1. e \in Nat
        BY StreamSize
      <3> QED BY <1>1, <1>2, <1>5, <1>15, <2>2, <3>1
    <2> QED BY <2>1, <2>2
  <1>17. \E d \in Connections : \E i \in 0..(Len(Stream[d]) - 1) : d <= e /\ t.ref = B[d] + i
    <2>1. CASE new = ref
      BY <1>3, <1>4, <1>14, <2>1
    <2>2. CASE new = x
      <3>1. o \in 0..(Len(Stream[e]) - 1) /\ e <= e
        BY <1>1, StreamSize
      <3> QED BY <1>2, <1>5, <1>14, <2>2, <3>1
    <2> QED BY <1>10, <2>1, <2>2
  <1>18. \A i \in 0..(Len(Stream[e]) - 1) : Near(B[e] + i, t.ref)
    <2>1. CASE new = ref
      BY <1>1, <1>2, <1>6, <1>14, <2>1
    <2>2. CASE new = x
      <3>1. ASSUME NEW i \in 0..(L - 1)
            PROVE  Near(b + i, x)
        <4>1. i \in Int /\ i >= 0 /\ i < L /\ o >= 0 /\ o < L /\ 2 * L < M
          BY <1>1
        <4>2. 2 * ((b + i) - (b + o)) < M /\ 2 * ((b + o) - (b + i)) < M
          BY <4>1
        <4> QED BY <1>1, <1>5, <4>2 DEF Near
      <3> QED BY <1>1, <1>2, <1>14, <2>2, <3>1
    <2> QED BY <1>10, <2>1, <2>2
  <1>19. Known(B, e, t, k + 1)
    BY <1>15, <1>16, <1>17, <1>18 DEF Known
  <1> QED BY <1>1, <1>12, <1>19

\* One of a later connection comes to a home of its own.
LEMMA KnownMove ==
  ASSUME StreamInv, NumbersApart, NEW B, Home(B), NEW e, NEW s, NEW k \in Nat, k <= Len(captured),
         Known(B, e, s, k),
         NEW d \in Connections, e < d, Len(Stream[d]) > 0
  PROVE  \E A : Home(A) /\ Known(A, d, s, k)
  <1>0. PICK c \in Connections : \E o \in 0..(Len(Stream[c]) - 1) : c <= e /\ s.ref = B[c] + o
    BY DEF Known
  <1>1. PICK o \in 0..(Len(Stream[c]) - 1) : c <= e /\ s.ref = B[c] + o
    BY <1>0
  <1>2. e \in Nat /\ d \in Nat /\ c \in Nat /\ e \in Connections
    BY StreamSize DEF Known
  <1>3. PICK ref \in Int : ref = s.ref /\ ref % Modulus = (first[c] + o) % Modulus
    BY <1>1 DEF Home
  <1>4. c < d
    BY <1>1, <1>2
  <1>5. PICK b \in Int : /\ b % Modulus = first[d] % Modulus
                         /\ \A i \in 0..(Len(Stream[d]) - 1) : Near(b + i, ref)
    BY <1>3, <1>4, NextHome
  <1>6. PICK A : A = [B EXCEPT ![d] = b]
    OBVIOUS
  <1>7. Home(A)
    BY <1>5, <1>6, HomeWith
  <1>8. A[d] = b /\ \A n \in Connections : n # d => A[n] = B[n]
    BY <1>6 DEF Home
  <1>9. ASSUME NEW p \in 1..k
        PROVE  captured[p].conn <= d /\ s.exts[p] = A[captured[p].conn] + captured[p].off
    <2>1. captured[p].conn <= e /\ s.exts[p] = B[captured[p].conn] + captured[p].off
      BY DEF Known
    <2>2. captured[p].conn \in Connections
      <3>1. p \in 1..Len(captured)
        BY DEF StreamInv
      <3> QED BY <3>1, PacketIs
    <2>3. captured[p].conn \in Nat
      BY <2>2, StreamSize
    <2>4. captured[p].conn # d
      BY <1>2, <2>1, <2>3
    <2> QED BY <1>2, <1>8, <2>1, <2>2, <2>3, <2>4
  <1>10. c # d /\ c <= d /\ A[c] = B[c]
    BY <1>2, <1>4, <1>8
  <1>11. \A i \in 0..(Len(Stream[d]) - 1) : Near(A[d] + i, s.ref)
    BY <1>3, <1>5, <1>8
  <1>12. s.exts \in Seq(Int) /\ Len(s.exts) = k
    BY DEF Known
  <1>13. s.ref = A[c] + o
    BY <1>1, <1>10
  <1>14. Known(A, d, s, k)
    BY <1>9, <1>10, <1>11, <1>12, <1>13 DEF Known
  <1> QED BY <1>7, <1>14

\* The loop over the packets: there is one function that unfolds so.
LEMMA ExtendedUnfolds ==
  ASSUME NEW n \in Nat, n = Len(captured)
  PROVE  \E upTo : /\ upTo[0].exts = <<>>
                   /\ n > 0 => upTo[0] = [ref |-> TcpSeq(1), exts |-> <<>>]
                   /\ \A k \in 1..n : upTo[k] = Unwrap(upTo[k - 1], k)
                   /\ Extended = upTo[n].exts
  <1> DEFINE none == [ref |-> IF captured = <<>> THEN 0 ELSE TcpSeq(1), exts |-> <<>>]
             Unfolds(f, m) == f = [k \in 0..m |-> IF k = 0 THEN none ELSE Unwrap(f[k - 1], k)]
             T == {m \in Nat : \E f : Unfolds(f, m)}
  <1>1. 0 \in T
    <2> HIDE DEF none
    <2>1. Unfolds([k \in 0..0 |-> none], 0)
      OBVIOUS
    <2> QED BY <2>1
  <1>2. ASSUME NEW m \in Nat, m \in T
        PROVE  m + 1 \in T
    <2> HIDE DEF none
    <2>1. PICK f : Unfolds(f, m)
      BY <1>2
    <2> DEFINE g == [k \in 0..(m + 1) |-> IF k <= m THEN f[k] ELSE Unwrap(f[k - 1], k)]
    <2>2. ASSUME NEW k \in 0..(m + 1)
          PROVE  g[k] = IF k = 0 THEN none ELSE Unwrap(g[k - 1], k)
      <3>1. CASE k = 0
        <4>1. k \in 0..m /\ g[k] = f[k]
          BY <3>1
        <4> QED BY <2>1, <3>1, <4>1
      <3>2. CASE k # 0 /\ k <= m
        <4>1. k \in 0..m /\ k - 1 \in 0..(m + 1) /\ k - 1 <= m
          BY <3>2
        <4>2. g[k] = f[k] /\ g[k - 1] = f[k - 1]
          BY <4>1
        <4> QED BY <2>1, <3>2, <4>1, <4>2
      <3>3. CASE k = m + 1
        <4>1. k - 1 \in 0..(m + 1) /\ k - 1 <= m /\ ~(k <= m) /\ k # 0
          BY <3>3
        <4>2. g[k - 1] = f[k - 1]
          BY <4>1
        <4>3. g[k] = Unwrap(f[k - 1], k)
          BY <4>1
        <4> QED BY <4>1, <4>2, <4>3
      <3> QED BY <3>1, <3>2, <3>3
    <2> HIDE DEF g
    <2>3. g = [k \in 0..(m + 1) |-> g[k]]
      BY DEF g
    <2>4. Unfolds(g, m + 1)
      BY <2>2, <2>3
    <2> HIDE DEF Unfolds
    <2> QED BY <2>4
  <1>3. n \in T
    <2> HIDE DEF T
    <2>1. Nat \subseteq T
      BY <1>1, <1>2, NatSetInduction
    <2> QED BY <2>1
  <1> DEFINE chosen == CHOOSE f : Unfolds(f, n)
  <1>4. Unfolds(chosen, n)
    BY <1>3
  <1>5. Extended = chosen[n].exts
    BY DEF Extended
  <1> HIDE DEF chosen
  <1>6. none.exts = <<>> /\ (n > 0 => none = [ref |-> TcpSeq(1), exts |-> <<>>])
    <2>1. n > 0 => captured # <<>>
      OBVIOUS
    <2> QED BY <2>1
  <1> HIDE DEF none
  <1>7. chosen[0] = none /\ \A k \in 1..n : chosen[k] = Unwrap(chosen[k - 1], k)
    <2>1. 0 \in 0..n /\ \A k \in 1..n : k \in 0..n /\ k # 0
      OBVIOUS
    <2> QED BY <1>4, <2>1
  <1> QED BY <1>5, <1>6, <1>7

\* The extended number of a packet is where its connection begins and its offset.
LEMMA ExtendedIs ==
  ASSUME StreamInv, NumbersApart
  PROVE  /\ Extended \in Seq(Int) /\ Len(Extended) = Len(captured)
         /\ \E B : /\ Home(B)
                   /\ \A p \in 1..Len(captured) : Extended[p] = B[captured[p].conn] + captured[p].off
  <1>1. PICK n \in Nat : n = Len(captured)
    BY DEF StreamInv
  <1>2. PICK f : /\ f[0].exts = <<>>
                 /\ n > 0 => f[0] = [ref |-> TcpSeq(1), exts |-> <<>>]
                 /\ \A k \in 1..n : f[k] = Unwrap(f[k - 1], k)
                 /\ Extended = f[n].exts
    BY <1>1, ExtendedUnfolds
  <1>a. CASE n = 0
    <2>1. Extended = <<>> /\ Home([c \in Connections |-> first[c]])
      BY <1>2, <1>a, HomeIs
    <2> QED BY <1>1, <1>a, <2>1
  <1>b. CASE n > 0
    <2> DEFINE State(k, s) == \E B, e : /\ Home(B) /\ Known(B, e, s, k)
                                        /\ k + 1 <= n => e <= captured[k + 1].conn
               T == {k \in Nat : k <= n => State(k, f[k])}
    <2>1. 0 \in T
      <3>1. 1 \in 1..Len(captured) /\ 0 + 1 = 1
        BY <1>1, <1>b
      <3>2. PICK B : Home(B) /\ Known(B, captured[1].conn, f[0], 0)
        BY <1>2, <1>b, <3>1, KnownFirst
      <3>3. captured[1].conn <= captured[1].conn
        BY <3>1, PacketIs, StreamSize
      <3>4. State(0, f[0])
        BY <3>1, <3>2, <3>3
      <3> QED BY <3>4
    <2>2. ASSUME NEW k \in Nat, k \in T
          PROVE  k + 1 \in T
      <3> HIDE DEF State
      <3> SUFFICES ASSUME k + 1 <= n PROVE State(k + 1, f[k + 1])
        OBVIOUS
      <3>1. k + 1 \in 1..n /\ (k + 1) - 1 = k /\ k <= n /\ k + 1 \in 1..Len(captured)
        BY <1>1
      <3>2. State(k, f[k]) /\ f[k + 1] = Unwrap(f[k], k + 1)
        BY <1>2, <2>2, <3>1
      <3>3. PICK d \in Connections : d = captured[k + 1].conn
        BY <3>1, PacketIs
      <3>4. d \in Nat /\ Len(Stream[d]) > 0
        <4>1. PICK p \in 1..Len(captured) : p = k + 1
          BY <3>1
        <4>2. captured[p].off \in Nat /\ captured[p].len \in Nat \ {0} /\ captured[p].off + captured[p].len <= Len(Stream[d])
          BY <3>3, <4>1, PacketIs
        <4>3. d \in Nat /\ Len(Stream[d]) \in Nat
          BY StreamSize
        <4> QED BY <4>2, <4>3
      <3>5. PICK B, e : Home(B) /\ Known(B, e, f[k], k) /\ e <= d
        BY <3>1, <3>2, <3>3 DEF State
      <3>6. e \in Connections /\ e \in Nat
        BY <3>5, StreamSize DEF Known
      <3>7. \E A : Home(A) /\ Known(A, d, f[k], k)
        <4>1. CASE e = d
          BY <3>5, <4>1
        <4>2. CASE e # d
          <5>1. e < d /\ k <= Len(captured)
            BY <1>1, <3>1, <3>4, <3>5, <3>6, <4>2
          <5> QED BY <3>4, <3>5, <5>1, KnownMove
        <4> QED BY <4>1, <4>2
      <3>8. PICK A : Home(A) /\ Known(A, d, f[k], k)
        BY <3>7
      <3>9. Known(A, d, f[k + 1], k + 1)
        BY <3>1, <3>2, <3>3, <3>8, KnownAdd
      <3>10. (k + 1) + 1 <= n => d <= captured[(k + 1) + 1].conn
        <4>1. (k + 1) + 1 <= n => (k + 1) + 1 \in 1..Len(captured) /\ k + 1 < (k + 1) + 1
          BY <1>1
        <4> QED BY <3>1, <3>3, <4>1 DEF StreamInv
      <3> QED BY <3>8, <3>9, <3>10 DEF State
    <2>3. State(n, f[n])
      <3> HIDE DEF T, State
      <3>1. Nat \subseteq T
        BY <2>1, <2>2, NatSetInduction
      <3> QED BY <3>1 DEF T
    <2>4. PICK B, e : Home(B) /\ Known(B, e, f[n], n)
      BY <2>3
    <2>5. /\ Extended \in Seq(Int) /\ Len(Extended) = n
          /\ \A p \in 1..n : Extended[p] = B[captured[p].conn] + captured[p].off
      BY <1>2, <2>4 DEF Known
    <2> QED BY <1>1, <2>4, <2>5
  <1> QED BY <1>1, <1>a, <1>b

-----------------------------------------------------------------------------
(* The world of one capture: what each number stands for.                  *)
-----------------------------------------------------------------------------
World(B) ==
    [x \in Int |-> CHOOSE cell : \E c \in Connections : \E o \in 0..(Len(Stream[c]) - 1) :
                      x = B[c] + o /\ cell = Stream[c][o + 1]]

\* The numbers of the packets, and all that they carried.
Numbered(B, exts) ==
    Home(B) /\ \A p \in 1..Len(captured) : exts[p] = B[captured[p].conn] + captured[p].off
AllCarried(exts, N) ==
    N \subseteq Int /\ \A x \in Int : x \in N <=> \E p \in 1..Len(captured) : Carried(exts, p, x)

\* No number belongs to two connections.
LEMMA HomesApart ==
  ASSUME StreamInv, NumbersApart, NEW B, Home(B), NEW c \in Connections, NEW d \in Connections,
         NEW o \in 0..(Len(Stream[c]) - 1), NEW i \in 0..(Len(Stream[d]) - 1), B[c] + o = B[d] + i
  PROVE  c = d /\ o = i
  <1>1. ASSUME NEW a \in Connections, NEW b \in Connections, a < b,
               NEW k \in 0..(Len(Stream[a]) - 1), NEW l \in 0..(Len(Stream[b]) - 1), B[a] + k = B[b] + l
        PROVE  FALSE
    <2>0. B[a] \in Int /\ B[b] \in Int
      BY DEF Home
    <2>1. PICK x \in Int, y \in Int : x = B[a] + k /\ y = B[b] + l
      BY <2>0, SMTT(30)
    <2>2. x % Modulus = (first[a] + k) % Modulus /\ y % Modulus = (first[b] + l) % Modulus
      BY <2>1 DEF Home
    <2>3. PICK m \in Numbers(a), n \in Numbers(b) : (n - m) % Modulus = (y - x) % Modulus
      <3>1. /\ StreamInv /\ a \in Connections /\ b \in Connections
            /\ k \in 0..(Len(Stream[a]) - 1) /\ l \in 0..(Len(Stream[b]) - 1)
        BY <1>1
      <3> QED BY <2>2, <3>1, AheadIs, SMTT(30)
    <2>4. y - x = 0
      BY <1>1, <2>1
    <2>5. PICK M \in Nat : M = Modulus /\ M > 0 /\ 0 \in 0..(M - 1)
      BY StreamSize
    <2>6. 0 % M = 0
      BY <2>5, ModSmall
    <2>7. (n - m) % Modulus = 0
      BY <2>3, <2>4, <2>5, <2>6
    <2>8. \/ 0 < (n - m) % Modulus
          \/ 2 * ((n - m) % Modulus) > Modulus
      BY <1>1, ApartIs
    <2> QED BY <2>5, <2>7, <2>8
  <1>2. c \in Nat /\ d \in Nat /\ B[c] \in Int
    BY StreamSize DEF Home
  <1>3. ~(c < d)
    BY <1>1
  <1>4. ~(d < c)
    BY <1>1
  <1>5. c = d
    BY <1>2, <1>3, <1>4
  <1> QED BY <1>2, <1>5

\* So a number stands for one byte: the byte of its connection at its offset.
LEMMA WorldIs ==
  ASSUME StreamInv, NumbersApart, NEW B, Home(B), NEW c \in Connections, NEW o \in 0..(Len(Stream[c]) - 1)
  PROVE  World(B)[B[c] + o] = Stream[c][o + 1]
  <1>1. PICK x \in Int : x = B[c] + o
    BY DEF Home
  <1> DEFINE Is(cell) == \E d \in Connections : \E i \in 0..(Len(Stream[d]) - 1) :
                            x = B[d] + i /\ cell = Stream[d][i + 1]
  <1>2. World(B)[x] = CHOOSE cell : Is(cell)
    BY DEF World
  <1>3. Is(Stream[c][o + 1])
    BY <1>1
  <1>4. ASSUME NEW cell, Is(cell)
        PROVE  cell = Stream[c][o + 1]
    <2>1. PICK d \in Connections : \E i \in 0..(Len(Stream[d]) - 1) : x = B[d] + i /\ cell = Stream[d][i + 1]
      BY <1>4
    <2>2. PICK i \in 0..(Len(Stream[d]) - 1) : x = B[d] + i /\ cell = Stream[d][i + 1]
      BY <2>1
    <2>3. c = d /\ o = i
      BY <1>1, <2>2, HomesApart
    <2> QED BY <2>2, <2>3
  <1> HIDE DEF Is
  <1>5. (CHOOSE cell : Is(cell)) = Stream[c][o + 1]
    BY <1>3, <1>4
  <1> QED BY <1>1, <1>2, <1>5

\* What a packet carried are bytes of its connection.
LEMMA CarriedIs ==
  ASSUME StreamInv, NEW B, NEW exts, Numbered(B, exts),
         NEW p, NEW x, Carried(exts, p, x)
  PROVE  \E c \in Connections : \E o \in 0..(Len(Stream[c]) - 1) :
            /\ c = captured[p].conn /\ x = B[c] + o
            /\ o \in captured[p].off..(captured[p].off + captured[p].len - 1)
  <1>1. p \in 1..Len(captured) /\ x \in exts[p]..(exts[p] + captured[p].len - 1)
    BY DEF Carried
  <1>2. PICK c \in Connections, off \in Nat, len \in Nat \ {0} :
           /\ c = captured[p].conn /\ off = captured[p].off /\ len = captured[p].len
           /\ off + len <= Len(Stream[c])
    BY <1>1, PacketIs
  <1>3. PICK b \in Int : b = B[c] /\ exts[p] = b + off
    BY <1>1, <1>2 DEF Numbered, Home
  <1>4. x \in (b + off)..(b + off + len - 1)
    BY <1>1, <1>2, <1>3
  <1>5. PICK o \in Int : o = x - b
    BY <1>4
  <1>6. x = b + o /\ o >= off /\ o <= off + len - 1
    BY <1>4, <1>5
  <1>7. PICK L \in Nat : L = Len(Stream[c])
    BY StreamSize
  <1>8. o \in 0..(L - 1) /\ o \in off..(off + len - 1)
    <2>1. off + len <= L
      BY <1>2, <1>7
    <2>2. o >= 0 /\ o <= L - 1
      BY <1>6, <2>1
    <2> QED BY <1>6, <2>2
  <1> QED BY <1>2, <1>3, <1>6, <1>7, <1>8

\* And the other way round.
LEMMA CarriedOf ==
  ASSUME StreamInv, NEW B, NEW exts, Numbered(B, exts),
         NEW p \in 1..Len(captured), NEW c, c = captured[p].conn,
         NEW o \in captured[p].off..(captured[p].off + captured[p].len - 1)
  PROVE  Carried(exts, p, B[c] + o)
  <1>1. PICK off \in Nat, len \in Nat \ {0} :
           c \in Connections /\ off = captured[p].off /\ len = captured[p].len
    BY PacketIs
  <1>2. PICK b \in Int : b = B[c] /\ exts[p] = b + off
    BY <1>1 DEF Numbered, Home
  <1>3. b + o \in (b + off)..(b + off + len - 1)
    <2>1. o \in off..(off + len - 1)
      BY <1>1
    <2>2. o \in Int /\ off <= o /\ o <= off + len - 1
      BY <2>1
    <2> QED BY <2>2
  <1> QED BY <1>1, <1>2, <1>3 DEF Carried

\* The payloads are what the numbers stand for.
LEMMA PayloadsAre ==
  ASSUME StreamInv, NumbersApart, NEW B, NEW exts, Numbered(B, exts)
  PROVE  Payloads(World(B), exts)
  <1>1. ASSUME NEW p \in 1..Len(captured)
        PROVE  /\ exts[p] \in Int /\ captured[p].len \in Nat \ {0}
               /\ Payload(p) \in Seq(CellSet) /\ Len(Payload(p)) = captured[p].len
               /\ \A j \in 1..captured[p].len : Payload(p)[j] = World(B)[exts[p] + j - 1]
    <2>1. PICK c \in Connections, off \in Nat, len \in Nat \ {0} :
             /\ c = captured[p].conn /\ off = captured[p].off /\ len = captured[p].len
             /\ off + len <= Len(Stream[c])
      BY PacketIs
    <2>2. PICK L \in Nat, stream \in Seq(CellSet) : stream = Stream[c] /\ L = Len(stream) /\ off + len <= L
      BY <2>1, StreamIs
    <2>3. PICK b \in Int : b = B[c] /\ exts[p] = b + off
      BY <2>1 DEF Numbered, Home
    <2>4. PICK payload : payload = Payload(p)
      OBVIOUS
    <2>5. payload = SubSeq(stream, off + 1, off + len)
      BY <2>1, <2>2, <2>4 DEF Payload
    <2>a. PICK u \in Int, v \in Int : u = off + 1 /\ v = off + len /\ v - u + 1 = len /\ u <= v
      OBVIOUS
    <2>6. \A i \in u..v : stream[i] \in CellSet
      <3>1. \A i \in u..v : i \in 1..Len(stream)
        BY <2>2, <2>a
      <3> QED BY <3>1, ElementOfSeq
    <2>7. /\ payload \in Seq(CellSet)
          /\ Len(payload) = IF u <= v THEN v - u + 1 ELSE 0
          /\ \A j \in 1..(v - u + 1) : payload[j] = stream[u + j - 1]
      <3>1. payload = SubSeq(stream, u, v)
        BY <2>5, <2>a
      <3> QED BY <2>6, <3>1, SubSeqProperties
    <2>8. Len(payload) = len /\ \A j \in 1..len : payload[j] = stream[u + j - 1]
      BY <2>7, <2>a
    <2>9. ASSUME NEW j \in 1..len
          PROVE  payload[j] = World(B)[b + off + j - 1]
      <3>1. PICK o \in 0..(L - 1) : o = off + j - 1
        BY <2>2
      <3>2. World(B)[B[c] + o] = Stream[c][o + 1]
        BY <2>2, WorldIs DEF Numbered
      <3>3. payload[j] = stream[o + 1]
        <4>1. u + j - 1 = o + 1
          BY <2>a, <3>1
        <4> QED BY <2>8, <4>1
      <3>4. b + o = b + off + j - 1
        BY <3>1
      <3> QED BY <2>2, <2>3, <3>2, <3>3, <3>4
    <2>10. exts[p] \in Int /\ captured[p].len = len
      BY <2>1, <2>3
    <2>12. Len(Payload(p)) = len /\ Payload(p) \in Seq(CellSet)
      BY <2>4, <2>7, <2>8
    <2>11. \A j \in 1..len : Payload(p)[j] = World(B)[exts[p] + j - 1]
      BY <2>3, <2>4, <2>9
    <2> QED BY <2>10, <2>11, <2>12
  <1> QED BY <1>1 DEF Payloads

\* A start line begins a message, and no character is in two bytes.
LEMMA WorldBegins ==
  ASSUME StreamInv, NumbersApart, OneByte, NEW B, Home(B),
         NEW c \in Connections, NEW o \in 0..(Len(Stream[c]) - 1), NEW at, IsPlaces(c, at)
  PROVE  LET x == B[c] + o W == World(B) IN
         /\ W[x].conn = c /\ W[x].kind # "cont"
         /\ W[x].kind = "start" => /\ Begins(W, x) /\ W[x].msg \in 1..Len(Messages[c])
                                   /\ o = at[W[x].msg]
  <1>1. PICK x \in Int : x = B[c] + o
    BY DEF Home
  <1>2. PICK W : W = World(B)
    OBVIOUS
  <1>3. PICK L \in Nat : L = Len(Stream[c])
    BY StreamSize
  <1>4. o + 1 \in 1..L
    BY <1>3
  <1>5. PICK m \in 1..Len(Messages[c]) : \E j \in 1..Len(Messages[c][m]) : o + 1 = at[m] + j
    BY <1>3, <1>4 DEF IsPlaces
  <1>6. PICK j \in 1..Len(Messages[c][m]) : o + 1 = at[m] + j
    BY <1>5
  <1>7. PICK len \in Nat, a \in Nat : len = Len(Messages[c][m]) /\ a = at[m]
    BY MessagesAre DEF IsPlaces
  <1>8. W[x] = Cells(c, m)[j]
    <2>1. W[x] = Stream[c][o + 1]
      BY <1>1, <1>2, WorldIs
    <2> QED BY <1>6, <2>1 DEF IsPlaces
  <1>9. W[x] = [conn |-> c, msg |-> m, kind |-> Messages[c][m][j]]
    BY <1>8, CellsAre
  <1>10. W[x].conn = c /\ W[x].msg = m /\ W[x].kind = Messages[c][m][j]
    BY <1>9
  <1>11. Messages[c][m][j] # "cont"
    BY DEF OneByte
  <1>12. ASSUME Messages[c][m][j] = "start"
         PROVE  Begins(W, x) /\ o = at[m]
    <2>1. j = 1
      <3>1. \A i \in 2..Len(Messages[c][m]) : Messages[c][m][i] # "start"
        BY MessageShape
      <3> QED BY <1>7, <1>12, <3>1
    <2>2. o = a
      BY <1>6, <1>7, <2>1
    <2>3. MessageAt(W, x) = Messages[c][m]
      BY <1>10 DEF MessageAt
    <2>4. ASSUME NEW i \in 1..len
          PROVE  W[x + i - 1] = Cells(c, m)[i]
      <3>1. a + i \in 1..Len(Stream[c]) /\ Stream[c][a + i] = Cells(c, m)[i]
        BY <1>7 DEF IsPlaces
      <3>2. PICK k \in 0..(Len(Stream[c]) - 1) : k = a + i - 1 /\ k + 1 = a + i
        BY <1>3, <3>1
      <3>3. W[B[c] + k] = Stream[c][k + 1]
        BY <1>2, WorldIs
      <3>4. B[c] + k = x + i - 1
        <4>1. PICK b \in Int : b = B[c]
          BY DEF Home
        <4> QED BY <1>1, <2>2, <3>2, <4>1
      <3> QED BY <3>1, <3>2, <3>3, <3>4
    <2>5. Begins(W, x)
      BY <1>7, <1>10, <2>3, <2>4 DEF Begins
    <2> QED BY <1>7, <2>2, <2>5
  <1> QED BY <1>1, <1>2, <1>10, <1>11, <1>12

\* A message that was carried whole is in one chunk: there is a gap after each.
LEMMA WholeIn ==
  ASSUME NEW W, NEW exts, NEW all, NEW N, Chained(W, exts, all, N),
         \A x \in N : W[x].kind = "start" => Begins(W, x),
         NEW i \in 1..Len(all)
  PROVE  \A x \in Int : x \in Whole(W, Run(exts, all[i])) <=> x \in Whole(W, N) /\ x \in Run(exts, all[i])
  <1>1. PICK n \in Nat : n = Len(all)
    BY DEF Chained
  <1>2. PICK d : d = all[i]
    OBVIOUS
  <1>3. PICK b \in Int, e \in Int : b = Base(exts, d) /\ e = Beyond(exts, d) /\ b <= e /\ Run(exts, d) = b..(e - 1)
    <2>1. IsChunk(W, exts, d)
      BY <1>2 DEF Chained
    <2> QED BY <2>1, ChunkIs
  <1>4. Run(exts, d) \subseteq N
    BY <1>2 DEF Chained
  <1>5. e \notin N
    <2> SUFFICES ASSUME e \in N PROVE FALSE
      OBVIOUS
    <2>1. PICK j \in 1..n : e \in Run(exts, all[j])
      BY <1>1 DEF Chained
    <2>2. PICK c : c = all[j] /\ IsChunk(W, exts, c)
      BY <1>1 DEF Chained
    <2>3. PICK f \in Int, g \in Int : f = Base(exts, c) /\ g = Beyond(exts, c) /\ e \in f..(g - 1)
      BY <2>1, <2>2, ChunkIs
    <2>4. CASE j = i
      BY <1>2, <1>3, <2>2, <2>3, <2>4
    <2>5. CASE j < i
      <3>1. g < b
        BY <1>1, <1>2, <1>3, <2>2, <2>3, <2>5 DEF Chained
      <3> QED BY <1>3, <2>3, <3>1
    <2>6. CASE j > i
      <3>1. e < f
        BY <1>1, <1>2, <1>3, <2>2, <2>3, <2>6 DEF Chained
      <3> QED BY <2>3, <3>1
    <2> QED BY <1>1, <2>4, <2>5, <2>6
  <1>6. ASSUME NEW x \in Int, x \in Whole(W, N), x \in Run(exts, d)
        PROVE  x \in Whole(W, Run(exts, d))
    <2>1. PICK len \in Nat : len = Len(MessageAt(W, x))
      <3>1. x \in N /\ W[x].kind = "start"
        BY <1>6 DEF Whole
      <3>2. W[x].conn \in Connections /\ W[x].msg \in 1..Len(Messages[W[x].conn])
        BY <3>1 DEF Begins
      <3> QED BY <3>2, MessagesAre DEF MessageAt
    <2>2. \A j \in 1..len : x + j - 1 \in N
      BY <1>6, <2>1 DEF Whole
    <2>3. x \in b..(e - 1)
      BY <1>3, <1>6
    <2>4. ~(e <= x + len - 1)
      <3>1. e <= x + len - 1 => e - x + 1 \in 1..len /\ x + (e - x + 1) - 1 = e
        BY <2>3
      <3> QED BY <1>5, <2>2, <3>1
    <2>5. \A j \in 1..len : x + j - 1 \in b..(e - 1)
      BY <2>3, <2>4
    <2> QED BY <1>3, <1>6, <2>1, <2>5 DEF Whole
  <1>7. ASSUME NEW x \in Int, x \in Whole(W, Run(exts, d))
        PROVE  x \in Whole(W, N) /\ x \in Run(exts, d)
    BY <1>4, <1>7 DEF Whole
  <1> QED BY <1>2, <1>6, <1>7

\* The reports of all chunks together.
LEMMA ResultsAre ==
  ASSUME NEW W, NEW exts, NEW N, Chained(W, exts, Chunks, N),
         \A x \in N : (W[x].kind = "start" => Begins(W, x)) /\ W[x].kind # "cont"
  PROVE  Reported(W, exts, Results, Whole(W, N))
  <1>0. PICK chunks : chunks = Chunks
    OBVIOUS
  <1>1. PICK n \in Nat : n = Len(chunks) /\ chunks = Chunks
    BY <1>0 DEF Chained
  <1>2. Chained(W, exts, chunks, N)
    BY <1>1
  <1> DEFINE parts == [i \in 1..n |-> Parse(chunks[i])]
  <1>3. Results = FlattenSeq(parts) /\ Len(parts) = n
    BY <1>1 DEF Results
  <1>4. ASSUME NEW i \in 1..n
        PROVE  /\ IsChunk(W, exts, chunks[i])
               /\ Reported(W, exts, Parse(chunks[i]), Whole(W, Run(exts, chunks[i])))
    <2>1. IsChunk(W, exts, chunks[i]) /\ Run(exts, chunks[i]) \subseteq N
      BY <1>1, <1>2 DEF Chained
    <2> QED BY <2>1, ParseIs
  <1>5. \A i \in 1..n : \A x \in Int :
           x \in Whole(W, Run(exts, chunks[i])) <=> x \in Whole(W, N) /\ x \in Run(exts, chunks[i])
    BY <1>1, <1>2, WholeIn
  <1>6. /\ Whole(W, N) \subseteq Int
        /\ \A x \in Whole(W, N) : \E i \in 1..n : x \in Run(exts, chunks[i])
    BY <1>1, <1>2 DEF Chained, Whole
  <1>7. CASE n = 0
    <2>1. parts = <<>>
      BY <1>3, <1>7
    <2>2. Results = <<>>
      BY <1>3, <1>7, <2>1 DEF FlattenSeq
    <2>3. Whole(W, N) = {}
      BY <1>6, <1>7
    <2> QED BY <2>2, <2>3, ReportedNone
  <1>8. CASE n > 0
    <2>1. PICK f : /\ f = [i \in 1..n |-> IF i = 1 THEN parts[i] ELSE f[i - 1] \o parts[i]]
                   /\ FlattenSeq(parts) = f[n]
      BY <1>3, <1>8, FlattenUnfolds
    <2>2. f[1] = Parse(chunks[1]) /\ \A i \in 2..n : f[i] = f[i - 1] \o Parse(chunks[i])
      <3>1. 1 \in 1..n /\ \A i \in 2..n : i \in 1..n /\ i # 1
        BY <1>8
      <3> QED BY <2>1, <3>1
    <2> DEFINE UpTo(k) == {x \in Whole(W, N) : \E i \in 1..k : x \in Run(exts, chunks[i])}
               T == {k \in Nat : k + 1 <= n => Reported(W, exts, f[k + 1], UpTo(k + 1))}
    <2> HIDE DEF parts
    <2>3. 0 \in T
      <3>1. 1 \in 1..n /\ 0 + 1 = 1
        BY <1>8
      <3>2. UpTo(1) = Whole(W, Run(exts, chunks[1]))
        <4>1. \A i \in 1..1 : i = 1
          OBVIOUS
        <4>2. Whole(W, Run(exts, chunks[1])) \subseteq Int
          BY DEF Whole, Run
        <4> QED BY <1>5, <1>6, <3>1, <4>1, <4>2
      <3> HIDE DEF UpTo
      <3>3. Reported(W, exts, f[1], UpTo(1))
        BY <1>4, <2>2, <3>1, <3>2
      <3> QED BY <3>1, <3>3
    <2>4. ASSUME NEW k \in Nat, k \in T
          PROVE  k + 1 \in T
      <3> SUFFICES ASSUME (k + 1) + 1 <= n
                   PROVE  Reported(W, exts, f[(k + 1) + 1], UpTo((k + 1) + 1))
        OBVIOUS
      <3>1. PICK m \in Nat \ {0} : m = k + 1 /\ m \in 1..n /\ m + 1 \in 2..n /\ m + 1 \in 1..n /\ (m + 1) - 1 = m
        BY <1>8
      <3>2. Reported(W, exts, f[m], UpTo(m))
        BY <2>4, <3>1
      <3> DEFINE whole == Whole(W, Run(exts, chunks[m + 1]))
      <3>3. Reported(W, exts, Parse(chunks[m + 1]), whole)
        BY <1>4, <3>1
      <3>4. whole \subseteq Int
        BY DEF Whole, Run
      <3>5. UpTo(m + 1) = UpTo(m) \cup whole
        <4>1. \A i \in 1..(m + 1) : i \in 1..m \/ i = m + 1
          BY <3>1
        <4>2. m + 1 \in 1..(m + 1) /\ \A i \in 1..m : i \in 1..(m + 1)
          BY <3>1
        <4>3. \A x \in Int : x \in whole <=> x \in Whole(W, N) /\ x \in Run(exts, chunks[m + 1])
          BY <1>5, <3>1
        <4> HIDE DEF whole
        <4> QED BY <1>6, <3>4, <4>1, <4>2, <4>3
      <3>6. ASSUME NEW x \in UpTo(m), NEW y \in whole
            PROVE  x < y
        <4>1. PICK i \in 1..m : x \in Run(exts, chunks[i])
          OBVIOUS
        <4>2. y \in Run(exts, chunks[m + 1])
          BY DEF Whole
        <4>3. i \in 1..n /\ m + 1 \in 1..n /\ i < m + 1
          BY <3>1
        <4>4. PICK c, d : c = chunks[i] /\ d = chunks[m + 1] /\ IsChunk(W, exts, c) /\ IsChunk(W, exts, d)
          BY <1>4, <4>3
        <4>5. Beyond(exts, c) < Base(exts, d)
          BY <1>1, <1>2, <4>3, <4>4 DEF Chained
        <4>6. PICK a \in Int, b \in Int : a = Beyond(exts, c) /\ x \in Int /\ x < a /\ b = Base(exts, d) /\ y \in Int /\ b <= y
          <5>1. PICK s \in Int, a \in Int : s = Base(exts, c) /\ a = Beyond(exts, c) /\ Run(exts, c) = s..(a - 1)
            BY <4>4, ChunkIs
          <5>2. PICK b \in Int, t \in Int : b = Base(exts, d) /\ t = Beyond(exts, d) /\ Run(exts, d) = b..(t - 1)
            BY <4>4, ChunkIs
          <5>3. x \in s..(a - 1) /\ y \in b..(t - 1)
            BY <4>1, <4>2, <4>4, <5>1, <5>2
          <5>4. x \in Int /\ x < a /\ y \in Int /\ b <= y
            BY <5>3
          <5> QED BY <5>1, <5>2, <5>4
        <4> QED BY <4>5, <4>6
      <3>7. UpTo(m) \subseteq Int
        BY <1>6
      <3>8. f[m + 1] = f[m] \o Parse(chunks[m + 1])
        BY <2>2, <3>1
      <3> HIDE DEF UpTo, whole
      <3>9. Reported(W, exts, f[m] \o Parse(chunks[m + 1]), UpTo(m) \cup whole)
        BY <3>2, <3>3, <3>4, <3>6, <3>7, ReportedBoth
      <3> QED BY <3>1, <3>5, <3>8, <3>9
    <2>5. Reported(W, exts, f[n], UpTo(n))
      <3> HIDE DEF T, UpTo
      <3>1. Nat \subseteq T
        BY <2>3, <2>4, NatSetInduction
      <3>2. n - 1 \in T /\ (n - 1) + 1 = n
        BY <1>8, <3>1
      <3> QED BY <3>2 DEF T
    <2>6. UpTo(n) = Whole(W, N)
      BY <1>6
    <2> HIDE DEF UpTo
    <2> QED BY <1>3, <2>1, <2>5, <2>6
  <1> QED BY <1>7, <1>8

\* What is reported of a capture: each message that is in the numbers that
\* packets carried, in the order of these.
LEMMA CaptureIs ==
  ASSUME StreamInv, NumbersApart, OneByte
  PROVE  \E B, exts, N :
            /\ Numbered(B, exts) /\ AllCarried(exts, N)
            /\ Reported(World(B), exts, Results, Whole(World(B), N))
  <1>1. PICK exts : exts = Extended
    OBVIOUS
  <1>2. exts \in Seq(Int) /\ Len(exts) = Len(captured)
    BY <1>1, ExtendedIs
  <1>3. PICK B : Numbered(B, exts)
    BY <1>1, ExtendedIs DEF Numbered
  <1>4. PICK W : W = World(B)
    OBVIOUS
  <1>5. Payloads(W, exts)
    BY <1>3, <1>4, PayloadsAre
  <1>6. PICK N : /\ Chained(W, exts, Chunks, N)
                 /\ \A x \in Int : x \in N <=> \E p \in 1..Len(captured) : Carried(exts, p, x)
    BY <1>1, <1>2, <1>5, ChunksAre
  <1>7. N \subseteq Int /\ AllCarried(exts, N)
    BY <1>6 DEF Chained, AllCarried
  <1>8. ASSUME NEW x \in N
        PROVE  (W[x].kind = "start" => Begins(W, x)) /\ W[x].kind # "cont"
    <2>1. PICK p \in 1..Len(captured) : Carried(exts, p, x)
      BY <1>6, <1>7
    <2>2. PICK c \in Connections : \E o \in 0..(Len(Stream[c]) - 1) : x = B[c] + o
      BY <1>3, <2>1, CarriedIs
    <2>3. PICK o \in 0..(Len(Stream[c]) - 1) : x = B[c] + o
      BY <2>2
    <2>4. PICK at : IsPlaces(c, at)
      BY StreamIs
    <2> QED BY <1>3, <1>4, <2>3, <2>4, WorldBegins DEF Numbered
  <1>9. Reported(W, exts, Results, Whole(W, N))
    BY <1>6, <1>8, ResultsAre
  <1> QED BY <1>3, <1>4, <1>6, <1>7, <1>9

\* The offsets of a message are those of its cells, from its place on.
LEMMA OffsetsAre ==
  ASSUME NEW c \in Connections, NEW m \in 1..Len(Messages[c]), NEW at, IsPlaces(c, at)
  PROVE  /\ Offsets(c, m) = at[m]..(at[m] + Len(Messages[c][m]) - 1)
         /\ at[m] \in Offsets(c, m) /\ Min(Offsets(c, m)) = at[m]
         /\ Offsets(c, m) \subseteq 0..(Len(Stream[c]) - 1)
  <1>1. PICK len \in Nat, a \in Nat : len = Len(Messages[c][m]) /\ a = at[m] /\ len >= 2
    BY MessagesAre DEF IsPlaces
  <1>2. PICK L \in Nat : L = Len(Stream[c])
    BY StreamSize
  <1>3. ASSUME NEW k \in 1..Len(Messages[c]), NEW j \in 1..Len(Messages[c][k])
        PROVE  Stream[c][at[k] + j].msg = k
    <2>1. Stream[c][at[k] + j] = Cells(c, k)[j]
      BY DEF IsPlaces
    <2>2. Cells(c, k)[j] = [conn |-> c, msg |-> k, kind |-> Messages[c][k][j]]
      BY CellsAre
    <2> QED BY <2>1, <2>2
  <1>4. ASSUME NEW o \in Offsets(c, m)
        PROVE  o \in a..(a + len - 1)
    <2>1. o \in 0..(L - 1) /\ Stream[c][o + 1].msg = m
      BY <1>2 DEF Offsets
    <2>2. o + 1 \in 1..L
      BY <2>1
    <2>3. PICK k \in 1..Len(Messages[c]) : \E j \in 1..Len(Messages[c][k]) : o + 1 = at[k] + j
      BY <1>2, <2>2 DEF IsPlaces
    <2>4. PICK j \in 1..Len(Messages[c][k]) : o + 1 = at[k] + j
      BY <2>3
    <2>5. k = m
      BY <1>3, <2>1, <2>4
    <2>6. j \in 1..len /\ o + 1 = a + j
      BY <1>1, <2>4, <2>5
    <2> QED BY <2>1, <2>6
  <1>5. ASSUME NEW o \in a..(a + len - 1)
        PROVE  o \in Offsets(c, m)
    <2>0. o \in Int /\ o >= a /\ o <= a + len - 1
      BY <1>1
    <2>1. PICK j \in 1..len : j = o - a + 1 /\ o + 1 = a + j
      BY <2>0
    <2>2. a + j \in 1..L
      BY <1>1, <1>2 DEF IsPlaces
    <2>3. Stream[c][a + j].msg = m
      BY <1>1, <1>3
    <2>4. o \in 0..(L - 1)
      BY <2>1, <2>2
    <2> QED BY <1>2, <2>1, <2>3, <2>4 DEF Offsets
  <1>6. Offsets(c, m) = a..(a + len - 1)
    BY <1>4, <1>5
  <1>7. a \in Offsets(c, m)
    BY <1>1, <1>5
  <1>8. Min(Offsets(c, m)) = a
    <2>1. PICK least : least = Min(Offsets(c, m))
      OBVIOUS
    <2>2. Offsets(c, m) \subseteq Nat
      BY <1>6
    <2>3. least \in Offsets(c, m) /\ \A y \in Offsets(c, m) : least <= y
      BY <1>7, <2>1, <2>2, MinIs
    <2> QED BY <1>4, <1>7, <2>1, <2>3
  <1>9. Offsets(c, m) \subseteq 0..(Len(Stream[c]) - 1)
    BY DEF Offsets
  <1> QED BY <1>1, <1>6, <1>7, <1>8, <1>9

\* Without characters of two bytes, what is reported of a message are its cells.
LEMMA RawIs ==
  ASSUME OneByte, NEW c \in Connections, NEW m \in 1..Len(Messages[c])
  PROVE  Raw(c, m) = Cells(c, m) /\ Cells(c, m)[1] = [conn |-> c, msg |-> m, kind |-> "start"]
  <1>1. PICK cells : cells = Cells(c, m)
    OBVIOUS
  <1>2. PICK len \in Nat : len = Len(Messages[c][m]) /\ len >= 2
    BY MessagesAre
  <1>3. /\ cells \in Seq(CellSet) /\ Len(cells) = len
        /\ \A j \in 1..len : cells[j] = [conn |-> c, msg |-> m, kind |-> Messages[c][m][j]]
    BY <1>1, <1>2, CellsAre
  <1>4. \A j \in 1..len : cells[j].kind # "cont"
    <2> TAKE j \in 1..len
    <2>1. Messages[c][m][j] # "cont"
      BY <1>2 DEF OneByte
    <2> QED BY <1>3, <2>1
  <1>5. Decode(cells) = cells
    BY <1>3, <1>4, DecodeIs
  <1>6. Messages[c][m][1] = "start" /\ 1 \in 1..len
    <2>1. Messages[c][m][1] = "start"
      BY MessageShape
    <2> QED BY <1>2, <2>1
  <1> QED BY <1>1, <1>3, <1>5, <1>6 DEF Raw

\* Of a number where a whole message begins: which one it is, that all of it was
\* captured, and the place.
LEMMA WholeIs ==
  ASSUME StreamInv, NumbersApart, OneByte, NEW B, NEW exts, NEW N,
         Numbered(B, exts), AllCarried(exts, N),
         NEW x \in Whole(World(B), N)
  PROVE  \E c \in Connections : \E m \in 1..Len(Messages[c]) : \E at :
            /\ c = World(B)[x].conn /\ m = World(B)[x].msg
            /\ IsPlaces(c, at) /\ x = B[c] + at[m]
            /\ Offsets(c, m) \subseteq Seen(c)
  <1>1. PICK W : W = World(B)
    OBVIOUS
  <1>2. x \in N /\ W[x].kind = "start" /\ \A j \in 1..Len(MessageAt(W, x)) : x + j - 1 \in N
    BY <1>1 DEF Whole
  <1>3. PICK p \in 1..Len(captured) : Carried(exts, p, x)
    BY <1>2 DEF AllCarried
  <1>4. PICK c \in Connections : \E o \in 0..(Len(Stream[c]) - 1) : x = B[c] + o
    BY <1>3, CarriedIs
  <1>5. PICK o \in 0..(Len(Stream[c]) - 1) : x = B[c] + o
    BY <1>4
  <1>6. PICK at : IsPlaces(c, at)
    BY StreamIs
  <1>7. PICK m \in 1..Len(Messages[c]) : c = W[x].conn /\ m = W[x].msg /\ o = at[m]
    BY <1>1, <1>2, <1>5, <1>6, WorldBegins, SMTT(30) DEF Numbered
  <1>8. PICK len \in Nat, a \in Nat : len = Len(Messages[c][m]) /\ a = at[m] /\ len = Len(MessageAt(W, x))
    BY <1>6, <1>7, MessagesAre DEF IsPlaces, MessageAt
  <1>9. PICK b \in Int : b = B[c] /\ x = b + a
    BY <1>5, <1>7, <1>8 DEF Numbered, Home
  <1>10. ASSUME NEW i \in Offsets(c, m)
         PROVE  i \in Seen(c)
    <2>1. i \in a..(a + len - 1) /\ i \in 0..(Len(Stream[c]) - 1)
      <3>1. /\ Offsets(c, m) = at[m]..(at[m] + Len(Messages[c][m]) - 1)
            /\ Offsets(c, m) \subseteq 0..(Len(Stream[c]) - 1)
        BY <1>6, OffsetsAre
      <3> QED BY <1>8, <3>1
    <2>2. PICK y \in Int : y = b + i
      BY <2>1
    <2>3. y \in N
      <3>1. i - a + 1 \in 1..len /\ x + (i - a + 1) - 1 = y
        BY <1>9, <2>1, <2>2
      <3> QED BY <1>2, <1>8, <3>1
    <2>4. PICK q \in 1..Len(captured) : Carried(exts, q, y)
      BY <2>3 DEF AllCarried
    <2>5. PICK d \in Connections : \E k \in 0..(Len(Stream[d]) - 1) :
             /\ d = captured[q].conn /\ y = B[d] + k
             /\ k \in captured[q].off..(captured[q].off + captured[q].len - 1)
      BY <2>4, CarriedIs
    <2>6. PICK k \in 0..(Len(Stream[d]) - 1) :
             /\ d = captured[q].conn /\ y = B[d] + k
             /\ k \in captured[q].off..(captured[q].off + captured[q].len - 1)
      BY <2>5
    <2>7. B[c] + i = B[d] + k
      BY <1>9, <2>2, <2>6
    <2>8. c = d /\ i = k
      BY <2>1, <2>7, HomesApart DEF Numbered
    <2>9. captured[q].conn = c /\ i \in captured[q].off..(captured[q].off + captured[q].len - 1)
      BY <2>6, <2>8
    <2> QED BY <2>9 DEF Seen
  <1>11. x = B[c] + at[m]
    BY <1>5, <1>7
  <1> QED BY <1>1, <1>6, <1>7, <1>10, <1>11

\* The other way round: of a message that was captured whole.
LEMMA SeenIs ==
  ASSUME StreamInv, NumbersApart, OneByte, NEW B, NEW exts, NEW N,
         Numbered(B, exts), AllCarried(exts, N),
         NEW c \in Connections, NEW m \in 1..Len(Messages[c]), NEW at, IsPlaces(c, at),
         Offsets(c, m) \subseteq Seen(c)
  PROVE  /\ B[c] + at[m] \in Whole(World(B), N)
         /\ World(B)[B[c] + at[m]].conn = c /\ World(B)[B[c] + at[m]].msg = m
  <1>1. PICK W : W = World(B)
    OBVIOUS
  <1>2. PICK len \in Nat, a \in Nat : len = Len(Messages[c][m]) /\ a = at[m] /\ len >= 2
    BY MessagesAre DEF IsPlaces
  <1>3. PICK b \in Int : b = B[c]
    BY DEF Numbered, Home
  <1>4. Offsets(c, m) = a..(a + len - 1) /\ a \in Offsets(c, m) /\ Offsets(c, m) \subseteq 0..(Len(Stream[c]) - 1)
    BY <1>2, OffsetsAre
  <1>5. ASSUME NEW i \in Offsets(c, m)
        PROVE  b + i \in N
    <2>1. i \in Seen(c) /\ b + i \in Int
      BY <1>4
    <2>2. PICK q \in 1..Len(captured) :
             captured[q].conn = c /\ i \in captured[q].off..(captured[q].off + captured[q].len - 1)
      BY <2>1 DEF Seen
    <2>3. Carried(exts, q, B[c] + i)
      BY <2>2, CarriedOf
    <2> QED BY <1>3, <2>1, <2>3 DEF AllCarried
  <1>6. W[b + a] = [conn |-> c, msg |-> m, kind |-> "start"]
    <2>1. a \in 0..(Len(Stream[c]) - 1)
      BY <1>4
    <2>2. W[b + a] = Stream[c][a + 1]
      BY <1>1, <1>3, <2>1, WorldIs DEF Numbered
    <2>3. Stream[c][a + 1] = Cells(c, m)[1]
      <3>1. 1 \in 1..Len(Messages[c][m])
        BY <1>2
      <3> QED BY <1>2, <3>1 DEF IsPlaces
    <2> QED BY <2>2, <2>3, RawIs
  <1>7. W[b + a].conn = c /\ W[b + a].msg = m /\ W[b + a].kind = "start"
    BY <1>6
  <1>8. ASSUME NEW j \in 1..len
        PROVE  (b + a) + j - 1 \in N
    <2>1. PICK i \in Int : i = a + j - 1 /\ i \in a..(a + len - 1) /\ b + i = (b + a) + j - 1
      OBVIOUS
    <2> QED BY <1>4, <1>5, <2>1
  <1>9. b + a \in N
    BY <1>4, <1>5
  <1>10. b + a \in Whole(W, N)
    <2>1. MessageAt(W, b + a) = Messages[c][m]
      BY <1>7 DEF MessageAt
    <2> QED BY <1>2, <1>7, <1>8, <1>9, <2>1 DEF Whole
  <1> QED BY <1>1, <1>2, <1>3, <1>7, <1>10

\* A segment that begins with a message looks like SIP, so what can be told to be SIP
\* was kept.
LEMMA RecognizableIs ==
  ASSUME StreamInv, OneByte, NEW c \in Connections
  PROVE  Recognizable(c) \subseteq Seen(c)
  <1> SUFFICES ASSUME NEW s \in sensed, s.conn = c, onSipPort \/ BeginsMessage(s),
                      NEW o \in s.off..(s.off + s.len - 1)
               PROVE  o \in Seen(c)
    BY DEF Recognizable
  <1>1. PassesFilter(s)
    <2>1. ASSUME NEW m \in 1..Len(Messages[c]), s.off = Min(Offsets(c, m))
          PROVE  LooksLikeSip(s)
      <3>1. PICK at : IsPlaces(c, at)
        BY StreamIs
      <3>2. s.off = at[m]
        BY <2>1, <3>1, OffsetsAre
      <3>3. 1 \in 1..Len(Messages[c][m])
        BY MessagesAre
      <3>4. Stream[c][at[m] + 1] = Cells(c, m)[1]
        BY <3>1, <3>3 DEF IsPlaces
      <3>5. Cells(c, m)[1].kind = "start"
        <4>1. Cells(c, m)[1] = [conn |-> c, msg |-> m, kind |-> "start"]
          BY RawIs
        <4> QED BY <4>1
      <3> QED BY <3>2, <3>4, <3>5 DEF LooksLikeSip
    <2> QED BY <2>1 DEF PassesFilter, BeginsMessage
  <1>2. PICK p \in 1..Len(captured) : captured[p] = s
    BY <1>1 DEF StreamInv
  <1> QED BY <1>2 DEF Seen

\* What was kept whole is a whole message of the world, so it is reported, once,
\* and its anchor carried its first byte.
LEMMA Recovered ==
  ASSUME StreamInv, OneByte
  PROVE  MessagesRecovered
  <1> SUFFICES ASSUME NumbersApart,
                      NEW results, results = Results,
                      NEW c \in Connections, NEW m \in 1..Len(Messages[c]),
                      Offsets(c, m) \subseteq Recognizable(c)
               PROVE  LET reports == {i \in 1..Len(results) : results[i].raw = Raw(c, m)} IN
                      /\ Cardinality(reports) = 1
                      /\ \A i \in reports :
                            LET p == captured[results[i].anchor]
                            IN p.conn = c /\ Min(Offsets(c, m)) \in p.off .. p.off + p.len - 1
    BY DEF MessagesRecovered, Complete
  <1>0. Offsets(c, m) \subseteq Seen(c)
    BY RecognizableIs
  <1>1. PICK B, exts, N :
            /\ Numbered(B, exts) /\ AllCarried(exts, N)
            /\ Reported(World(B), exts, results, Whole(World(B), N))
    BY CaptureIs
  <1>2. PICK W, S : W = World(B) /\ S = Whole(W, N)
    OBVIOUS
  <1>3. PICK n \in Nat : n = Len(results)
    BY <1>1 DEF Reported
  <1>4. PICK num \in [1..n -> S] :
          /\ \A i, j \in 1..n : i < j => num[i] < num[j]
          /\ \A x \in S : \E i \in 1..n : num[i] = x
          /\ \A i \in 1..n : IsReport(W, exts, results[i], num[i])
    BY <1>1, <1>2, <1>3 DEF Reported
  <1>5. PICK at : IsPlaces(c, at)
    BY StreamIs
  <1>6. PICK x \in Int : x = B[c] + at[m]
    <2>1. B[c] \in Int
      BY <1>1 DEF Numbered, Home
    <2>2. at[m] \in Int
      BY <1>5 DEF IsPlaces
    <2> QED BY <2>1, <2>2
  <1>7. x \in S /\ W[x].conn = c /\ W[x].msg = m
    <2>1. /\ B[c] + at[m] \in Whole(World(B), N)
          /\ World(B)[B[c] + at[m]].conn = c /\ World(B)[B[c] + at[m]].msg = m
      BY <1>0, <1>1, <1>5, SeenIs
    <2> QED BY <1>2, <1>6, <2>1
  <1>8. PICK i \in 1..n : num[i] = x
    BY <1>4, <1>7
  <1>9. IsReport(W, exts, results[i], x)
    BY <1>4, <1>8
  <1>10. results[i].raw = Raw(c, m)
    BY <1>7, <1>9, RawIs DEF IsReport
  \* A report of the same cells is of the same number.
  <1>11. ASSUME NEW k \in 1..n, results[k].raw = Raw(c, m)
         PROVE  k = i
    <2>1. PICK y \in S : y = num[k] /\ IsReport(W, exts, results[k], y)
      <3>1. num[k] \in S
        BY <1>4
      <3>2. IsReport(W, exts, results[k], num[k])
        BY <1>4
      <3> QED BY <3>1, <3>2
    <2>2. PICK d \in Connections : \E l \in 1..Len(Messages[d]) : \E there :
             /\ d = W[y].conn /\ l = W[y].msg /\ IsPlaces(d, there) /\ y = B[d] + there[l]
             /\ Offsets(d, l) \subseteq Seen(d)
      <3>1. y \in Whole(World(B), N)
        BY <1>2, <2>1
      <3>2. \E d \in Connections : \E l \in 1..Len(Messages[d]) : \E there :
               /\ d = World(B)[y].conn /\ l = World(B)[y].msg
               /\ IsPlaces(d, there) /\ y = B[d] + there[l] /\ Offsets(d, l) \subseteq Seen(d)
        BY <1>1, <3>1, WholeIs, ZenonT(30)
      <3> QED BY <1>2, <3>2, ZenonT(30)
    <2>3. PICK l \in 1..Len(Messages[d]) : \E there :
             d = W[y].conn /\ l = W[y].msg /\ IsPlaces(d, there) /\ y = B[d] + there[l]
      BY <2>2
    <2>4. results[k].raw = Cells(d, l) /\ results[k].raw = Cells(c, m)
      BY <1>11, <2>1, <2>3, RawIs DEF IsReport
    <2>5. Cells(d, l)[1] = [conn |-> d, msg |-> l, kind |-> "start"]
      BY RawIs
    <2>6. Cells(c, m)[1] = [conn |-> c, msg |-> m, kind |-> "start"]
      BY RawIs
    <2>7. d = c /\ l = m
      BY <2>4, <2>5, <2>6
    <2>8. PICK there : IsPlaces(c, there) /\ y = B[c] + there[m]
      BY <2>3, <2>7
    <2>9. there[m] = at[m]
      <3>1. Min(Offsets(c, m)) = there[m]
        BY <2>8, OffsetsAre
      <3>2. Min(Offsets(c, m)) = at[m]
        BY <1>5, OffsetsAre
      <3> QED BY <3>1, <3>2
    <2>10. y = x
      BY <1>6, <2>8, <2>9
    <2>11. ~(k < i) /\ ~(i < k)
      <3>1. num[k] = x /\ num[i] = x /\ ~(x < x)
        BY <1>8, <2>1, <2>10
      <3> QED BY <1>4, <3>1
    <2> QED BY <2>11
  <1> DEFINE reports == {k \in 1..n : results[k].raw = Raw(c, m)}
  <1>12. reports = {i}
    BY <1>10, <1>11
  <1>13. Cardinality(reports) = 1
    BY <1>12, FS_Singleton
  <1>14. PICK p : p = results[i].anchor /\ Carried(exts, p, x)
    BY <1>9 DEF IsReport
  <1>15. PICK d \in Connections : \E k \in 0..(Len(Stream[d]) - 1) :
            /\ d = captured[p].conn /\ x = B[d] + k
            /\ k \in captured[p].off..(captured[p].off + captured[p].len - 1)
    <2>1. Numbered(B, exts)
      BY <1>1
    <2> QED BY <1>14, <2>1, CarriedIs
  <1>16. PICK k \in 0..(Len(Stream[d]) - 1) :
            /\ d = captured[p].conn /\ x = B[d] + k
            /\ k \in captured[p].off..(captured[p].off + captured[p].len - 1)
    BY <1>15
  <1>17. at[m] \in 0..(Len(Stream[c]) - 1) /\ Min(Offsets(c, m)) = at[m]
    BY <1>5, OffsetsAre
  <1>18. c = d /\ at[m] = k
    <2>1. B[c] + at[m] = B[d] + k
      BY <1>6, <1>16
    <2> QED BY <1>1, <1>17, <2>1, HomesApart DEF Numbered
  <1>19. captured[p].conn = c /\ Min(Offsets(c, m)) \in captured[p].off..(captured[p].off + captured[p].len - 1)
    BY <1>16, <1>17, <1>18
  <1> QED BY <1>3, <1>12, <1>13, <1>14, <1>19

\* A report is of a whole message of the world, all of whose bytes were seen; of
\* two in one connection the earlier has the smaller number.
LEMMA NotInvented ==
  ASSUME StreamInv, OneByte
  PROVE  NothingInvented
  <1> SUFFICES ASSUME NumbersApart, NEW results, results = Results
               PROVE  /\ \A i \in 1..Len(results) : \E c \in Connections : \E m \in 1..Len(Messages[c]) :
                            Offsets(c, m) \subseteq Seen(c) /\ results[i].raw = Raw(c, m)
                      /\ \A i, j \in 1..Len(results) :
                            LET a == results[i].raw[1] b == results[j].raw[1]
                            IN i < j /\ a.conn = b.conn => a.msg < b.msg
    BY DEF NothingInvented, Sound
  <1>1. PICK B, exts, N :
            /\ Numbered(B, exts) /\ AllCarried(exts, N)
            /\ Reported(World(B), exts, results, Whole(World(B), N))
    BY CaptureIs
  <1>2. PICK W, S : W = World(B) /\ S = Whole(W, N)
    OBVIOUS
  <1>3. PICK n \in Nat : n = Len(results)
    BY <1>1 DEF Reported
  <1>4. PICK num \in [1..n -> S] :
          /\ \A i, j \in 1..n : i < j => num[i] < num[j]
          /\ \A x \in S : \E i \in 1..n : num[i] = x
          /\ \A i \in 1..n : IsReport(W, exts, results[i], num[i])
    BY <1>1, <1>2, <1>3 DEF Reported
  <1>5. ASSUME NEW i \in 1..n
        PROVE  \E c \in Connections : \E m \in 1..Len(Messages[c]) : \E at :
                  /\ Offsets(c, m) \subseteq Seen(c) /\ results[i].raw = Cells(c, m)
                  /\ IsPlaces(c, at) /\ num[i] = B[c] + at[m]
    <2>1. PICK x \in S : x = num[i] /\ IsReport(W, exts, results[i], x)
      BY <1>4
    <2>2. \E c \in Connections : \E m \in 1..Len(Messages[c]) : \E at :
             /\ c = W[x].conn /\ m = W[x].msg /\ IsPlaces(c, at) /\ x = B[c] + at[m]
             /\ Offsets(c, m) \subseteq Seen(c)
      BY <1>1, <1>2, WholeIs, ZenonT(30)
    <2> QED BY <2>1, <2>2 DEF IsReport
  <1>6. ASSUME NEW i \in 1..n, NEW j \in 1..n, i < j,
               results[i].raw[1].conn = results[j].raw[1].conn
        PROVE  results[i].raw[1].msg < results[j].raw[1].msg
    <2>1. PICK c \in Connections : \E m \in 1..Len(Messages[c]) : \E at :
             results[i].raw = Cells(c, m) /\ IsPlaces(c, at) /\ num[i] = B[c] + at[m]
      BY <1>5
    <2>2. PICK m \in 1..Len(Messages[c]) : \E at :
             results[i].raw = Cells(c, m) /\ IsPlaces(c, at) /\ num[i] = B[c] + at[m]
      BY <2>1
    <2>3. PICK at : results[i].raw = Cells(c, m) /\ IsPlaces(c, at) /\ num[i] = B[c] + at[m]
      BY <2>2
    <2>4. PICK d \in Connections : \E l \in 1..Len(Messages[d]) : \E there :
             results[j].raw = Cells(d, l) /\ IsPlaces(d, there) /\ num[j] = B[d] + there[l]
      BY <1>5
    <2>5. PICK l \in 1..Len(Messages[d]) : \E there :
             results[j].raw = Cells(d, l) /\ IsPlaces(d, there) /\ num[j] = B[d] + there[l]
      BY <2>4
    <2>6. PICK there : results[j].raw = Cells(d, l) /\ IsPlaces(d, there) /\ num[j] = B[d] + there[l]
      BY <2>5
    <2>7. Cells(c, m)[1] = [conn |-> c, msg |-> m, kind |-> "start"]
      BY RawIs
    <2>8. Cells(d, l)[1] = [conn |-> d, msg |-> l, kind |-> "start"]
      BY RawIs
    <2>9. c = d /\ results[i].raw[1].msg = m /\ results[j].raw[1].msg = l
      BY <1>6, <2>3, <2>6, <2>7, <2>8
    <2>10. there[l] = at[l]
      <3>1. l \in 1..Len(Messages[c])
        BY <2>9
      <3>2. Min(Offsets(c, l)) = there[l]
        BY <2>6, <2>9, <3>1, OffsetsAre
      <3>3. Min(Offsets(c, l)) = at[l]
        BY <2>3, <3>1, OffsetsAre
      <3> QED BY <3>2, <3>3
    <2>11. at[m] < at[l]
      <3>0. B[c] \in Int /\ at[m] \in Int /\ at[l] \in Int
        <4>1. B[c] \in Int
          BY <1>1 DEF Numbered, Home
        <4>2. at[m] \in Nat /\ at[l] \in Nat
          <5>1. l \in 1..Len(Messages[c])
            BY <2>9
          <5> QED BY <2>3, <5>1 DEF IsPlaces
        <4> QED BY <4>1, <4>2
      <3>1. PICK b \in Int, s \in Int, t \in Int : b = B[c] /\ s = at[m] /\ t = at[l]
        BY <3>0
      <3>2. b + s < b + t
        BY <1>4, <1>6, <2>3, <2>6, <2>9, <2>10, <3>1
      <3> QED BY <3>1, <3>2
    <2>12. m \in Nat /\ l \in Nat /\ l \in 1..Len(Messages[c])
      BY <2>9, MessagesAre
    <2>13. ~(l < m) /\ l # m
      <3>1. l < m => at[l] < at[m]
        BY <2>3, <2>12 DEF IsPlaces
      <3>2. at[m] \in Nat /\ at[l] \in Nat
        BY <2>3, <2>12 DEF IsPlaces
      <3> QED BY <2>11, <3>1, <3>2
    <2> QED BY <2>9, <2>12, <2>13
  <1>7. \A i \in 1..n : \E c \in Connections : \E m \in 1..Len(Messages[c]) :
           Offsets(c, m) \subseteq Seen(c) /\ results[i].raw = Raw(c, m)
    <2> TAKE i \in 1..n
    <2>1. PICK c \in Connections : \E m \in 1..Len(Messages[c]) :
             Offsets(c, m) \subseteq Seen(c) /\ results[i].raw = Cells(c, m)
      BY <1>5
    <2>2. PICK m \in 1..Len(Messages[c]) : Offsets(c, m) \subseteq Seen(c) /\ results[i].raw = Cells(c, m)
      BY <2>1
    <2>3. results[i].raw = Raw(c, m)
      BY <2>2, RawIs
    <2> QED BY <2>2, <2>3
  <1> QED BY <1>3, <1>6, <1>7

\* The captures are what they are taken to be above.
LEMMA StreamInvIs == Spec => []StreamInv
  <1>1. Init => StreamInv
    <2>1. <<>> \in Seq(Segments) /\ Len(<<>>) = 0
      BY EmptySeq
    <2> QED BY <2>1 DEF Init, StreamInv
  <1>2. StreamInv /\ [Next]_streamVars => StreamInv'
    <2> SUFFICES ASSUME StreamInv, [Next]_streamVars
                 PROVE  StreamInv'
      OBVIOUS
    <2>1. ASSUME NEW s \in Segments, \A t \in sensed : t.conn <= s.conn,
                 sensed' = sensed \cup {s}, onSipPort' = onSipPort, first' = first,
                 captured' = IF PassesFilter(s) THEN Append(captured, s) ELSE captured
          PROVE  StreamInv'
      <3>0. \A t : PassesFilter(t)' <=> PassesFilter(t)
        BY <2>1 DEF PassesFilter, LooksLikeSip
      <3>1. CASE ~PassesFilter(s)
        <4>1. captured' = captured
          BY <2>1, <3>1
        <4>2. ASSUME NEW t \in sensed', PassesFilter(t)'
              PROVE  \E p \in 1..Len(captured') : captured'[p] = t
          <5>1. t \in sensed /\ PassesFilter(t)
            BY <2>1, <3>0, <3>1, <4>2
          <5> QED BY <4>1, <5>1 DEF StreamInv
        <4>3. sensed' \subseteq Segments /\ \A p \in 1..Len(captured') : captured'[p] \in sensed'
          BY <2>1, <4>1 DEF StreamInv
        <4> QED BY <2>1, <4>1, <4>2, <4>3 DEF StreamInv
      <3>2. CASE PassesFilter(s)
        <4>1. PICK n \in Nat, old \in Seq(Segments) : n = Len(captured) /\ old = captured
          BY DEF StreamInv
        <4>2. /\ captured' \in Seq(Segments) /\ Len(captured') = n + 1
              /\ captured'[n + 1] = s /\ \A p \in 1..n : captured'[p] = captured[p]
          BY <2>1, <3>2, <4>1, AppendProperties
        <4>3. ASSUME NEW p \in 1..(n + 1), NEW q \in 1..(n + 1), p < q
              PROVE  captured'[p].conn <= captured'[q].conn
          <5>1. p \in 1..n
            BY <4>3
          <5>2. CASE q \in 1..n
            BY <4>1, <4>2, <4>3, <5>1, <5>2 DEF StreamInv
          <5>3. CASE q = n + 1
            <6>1. captured[p] \in sensed
              BY <4>1, <5>1 DEF StreamInv
            <6> QED BY <2>1, <4>2, <5>1, <5>3, <6>1
          <5> QED BY <5>2, <5>3
        <4>4. \A p \in 1..(n + 1) : captured'[p] \in sensed'
          <5> SUFFICES ASSUME NEW p \in 1..(n + 1) PROVE captured'[p] \in sensed'
            OBVIOUS
          <5>1. CASE p \in 1..n
            BY <2>1, <4>1, <4>2, <5>1 DEF StreamInv
          <5>2. CASE p = n + 1
            BY <2>1, <4>2, <5>2
          <5> QED BY <5>1, <5>2
        <4>5. ASSUME NEW t \in sensed', PassesFilter(t)'
              PROVE  \E p \in 1..(n + 1) : captured'[p] = t
          <5>1. CASE t = s
            BY <4>2, <5>1
          <5>2. CASE t \in sensed
            <6>1. PICK p \in 1..n : captured[p] = t
              BY <3>0, <4>1, <4>5, <5>2 DEF StreamInv
            <6> QED BY <4>2, <6>1
          <5> QED BY <2>1, <5>1, <5>2
        <4>6. sensed' \subseteq Segments
          BY <2>1 DEF StreamInv
        <4> QED BY <2>1, <4>2, <4>3, <4>4, <4>5, <4>6 DEF StreamInv
      <3> QED BY <3>1, <3>2
    <2>2. CASE Capture
      BY <2>1, <2>2 DEF Capture
    <2>3. CASE UNCHANGED streamVars
      BY <2>3 DEF streamVars, StreamInv, PassesFilter, LooksLikeSip
    <2> QED BY <2>2, <2>3 DEF Next
  <1> QED BY <1>1, <1>2, PTL DEF Spec

\* A message all of whose bytes were captured is reported whole and once, with the
\* time of a packet that carried its first byte, for every cut of the streams into
\* segments, every loss, repetition and order of the packets and every initial
\* sequence number: on the SIP ports always, on others as far as its segments begin
\* with a message, since the filter of extract_sip_messages drops the rest.  Each
\* character is one byte: _reassemble_tcp_sip counts the characters of the decoded
\* body against a length in bytes.
THEOREM MessagesAreRecovered == OneByte => (Spec => []MessagesRecovered)
  <1> SUFFICES ASSUME OneByte PROVE Spec => []MessagesRecovered
    OBVIOUS
  <1>1. StreamInv => MessagesRecovered
    BY Recovered
  <1> QED BY <1>1, StreamInvIs, PTL

\* Under the same condition _reassemble_tcp_sip reports nothing that was not sent
\* and captured whole, and the messages of a connection in the order it sent them.
THEOREM NothingIsInvented == OneByte => (Spec => []NothingInvented)
  <1> SUFFICES ASSUME OneByte PROVE Spec => []NothingInvented
    OBVIOUS
  <1>1. StreamInv => NothingInvented
    BY NotInvented
  <1> QED BY <1>1, StreamInvIs, PTL
=============================================================================
