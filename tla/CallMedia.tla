----------------------------- MODULE CallMedia -----------------------------
(***************************************************************************)
(* What is said of an answered call whose media does not fit its           *)
(* signalling: the rules of _call_rules, diagnostics.py, on termination    *)
(* and media, and section 3 of analyze_nat, nat.py.                        *)
(*                                                                         *)
(* A phone calls a server; both are external.  The sensor is next to the   *)
(* server, so RTP that it sees of the phone has arrived, and RTP that it   *)
(* sees for the phone arrives if it is addressed right; an ACK may still   *)
(* be lost behind it.  Addresses stand for address and port, and all RTP   *)
(* is of the one call.                                                     *)
(***************************************************************************)
EXTENDS Absence, Integers, FiniteSets, Sequences

CONSTANTS Substantial,       \* packets that make a direction: 10 in the code
          Dominant,          \* packets of a stream that ought to have an answer: 20
          TimerH,            \* seconds until a callee without ACK gives up: 32
          DropFrom, DropTo,  \* durations taken for that: 30 and 34
          AfterBye,          \* th.rtp_after_bye_s
          MaxSeconds, MaxPackets, MaxSources  \* bounds: clock, RTP packets, SSRCs of both sides but one

ASSUME CallMediaAssumption ==
    /\ Substantial \in Nat \ {0} /\ Dominant \in Nat /\ Substantial <= Dominant
    /\ {DropFrom, TimerH, DropTo} \subseteq Nat /\ DropFrom <= TimerH /\ TimerH <= DropTo
    /\ AfterBye \in Nat \ {0} /\ MaxSources \in Nat \ {0}
    /\ None \notin Nat

VARIABLES setting,          \* where the phone is: on the "lan" of the server, on the
                            \* "open" network, or behind a "nat"
          latching,         \* the server answers RTP to where it comes from
          blocked,          \* a firewall keeps the phone's RTP from the server
          time, connected,  \* the clock; when the call was answered
          ack,              \* the ACK of the phone: "lost", or "captured" and then lost,
                            \* or "received"
          hangups,          \* BYEs in the order they were sent: [side, at, dropped]
          told,             \* told[p]: when the BYE of the other reached p
          source,           \* source[p]: current SSRC of p
          talked,           \* RTP packets sent so far
          streams,          \* [src, dst, ssrc] -> [packets, last], as analyze_rtp reports
          heard             \* heard[p][ssrc]: packets of that source that reached p

mediaVars == <<setting, latching, blocked, time, connected, ack, hangups, told, source,
              talked, streams, heard>>
network == <<setting, latching, blocked>>

Parties == {"caller", "callee"}
Other(p) == IF p = "caller" THEN "callee" ELSE "caller"

\* What the phone writes into Via, Contact and SDP, and what its packets carry.
Written == IF setting = "open" THEN "public" ELSE "private"
Observed == IF setting = "nat" THEN "router" ELSE Written
ServerAddress == IF setting = "lan" THEN "private server" ELSE "public server"

MediaInit ==
    /\ setting \in {"lan", "open", "nat"} /\ blocked \in BOOLEAN
    /\ latching \in BOOLEAN /\ (latching => setting = "nat") \* or it changes nothing
    /\ time = 0 /\ connected = None /\ ack = None
    /\ hangups = <<>> /\ told = [p \in Parties |-> None]
    /\ source = [p \in Parties |-> 1] /\ talked = 0
    /\ streams = << >> /\ heard = [p \in Parties |-> [s \in 1..MaxSources |-> 0]]

-----------------------------------------------------------------------------
(* The phone, the server and the network.                                  *)

HungUp == {hangups[i].side : i \in DOMAIN hangups}
InCall(p) == connected # None /\ p \notin HungUp /\ told[p] = None

\* The 200, and whatever comes of the ACKs to it.
PickUp ==
    /\ connected = None
    /\ connected' = time
    /\ ack' \in {"lost", "captured", "received"}
    /\ UNCHANGED <<network, time, hangups, told, source, talked, streams, heard>>

\* The server sends to the address of the SDP, or to where it has heard the phone.
Destination(p) ==
    IF p = "caller" THEN ServerAddress
    ELSE IF latching /\ (\E s \in 1..MaxSources : heard["callee"][s] > 0) THEN Observed ELSE Written

Count(key) ==
    IF key \in DOMAIN streams THEN [packets |-> streams[key].packets + 1, last |-> time]
    ELSE [packets |-> 1, last |-> time]

Talk(p) ==
    LET key == [src |-> IF p = "caller" THEN Observed ELSE ServerAddress,
                dst |-> Destination(p), ssrc |-> source[p]]
        lost == p = "caller" /\ blocked
        reached == ~lost /\ key.dst \in {ServerAddress, Observed}
    IN /\ InCall(p) /\ talked < MaxPackets
       /\ talked' = talked + 1
       /\ streams' = IF lost THEN streams
                     ELSE [k \in DOMAIN streams \cup {key} |->
                              IF k = key THEN Count(key) ELSE streams[k]]
       /\ heard' = IF reached THEN [heard EXCEPT ![Other(p)][source[p]] = @ + 1] ELSE heard
       /\ UNCHANGED <<network, time, connected, ack, hangups, told, source>>

\* After a re-INVITE or a transfer.
NewSource(p) ==
    /\ InCall(p) /\ source["caller"] + source["callee"] <= MaxSources
    /\ source' = [source EXCEPT ![p] = @ + 1]
    /\ UNCHANGED <<network, time, connected, ack, hangups, told, talked, streams, heard>>

Leave(p, dropped) ==
    /\ InCall(p)
    /\ hangups' = Append(hangups, [side |-> p, at |-> time, dropped |-> dropped])
    /\ UNCHANGED <<network, time, connected, ack, told, source, talked, streams, heard>>

\* Timer H of the server, which had no ACK.
Overdue == InCall("callee") /\ ack # "received" /\ time >= connected + TimerH
GiveUp == Overdue /\ Leave("callee", TRUE)

\* A BYE may take its time, or never arrive.
Tell(p) ==
    /\ Other(p) \in HungUp /\ InCall(p)
    /\ told' = [told EXCEPT ![p] = time]
    /\ UNCHANGED <<network, time, connected, ack, hangups, source, talked, streams, heard>>

Tick ==
    /\ time < MaxSeconds /\ ~Overdue
    /\ time' = time + 1
    /\ UNCHANGED <<network, connected, ack, hangups, told, source, talked, streams, heard>>

MediaNext ==
    \/ PickUp \/ GiveUp \/ Tick
    \/ \E p \in Parties : Talk(p) \/ NewSource(p) \/ Leave(p, FALSE) \/ Tell(p)

MediaSpec == MediaInit /\ [][MediaNext]_mediaVars

-----------------------------------------------------------------------------
(* What was captured, as the rules read it.                                *)

IsPrivate(address) == address \in {"private", "private server"}

Signalled(request, via, contact, src) == [request |-> request, via |-> via, contact |-> contact, src |-> src]

\* A response repeats the Via of its request.
Messages ==
    {Signalled(TRUE, Written, Written, Observed)}
    \cup (IF connected = None THEN {} ELSE {Signalled(FALSE, Written, ServerAddress, ServerAddress)})
    \cup (IF "callee" \in HungUp THEN {Signalled(TRUE, ServerAddress, ServerAddress, ServerAddress)} ELSE {})

\* _behind_nat
Hidden(m) == \E written \in {m.via, m.contact} : written # m.src /\ IsPrivate(written)

Endpoints == IF connected = None THEN {Written} ELSE {Written, ServerAddress}

Packets(minimum) == {k \in DOMAIN streams : streams[k].packets >= minimum}

\* Wrong on purpose: it is enough that both sides send.
BothWaysBySource(keys) == \E k, l \in keys : k.src # l.src

\* Some pair of addresses has both directions.
BothWays(keys) == \E k, l \in keys : k.src = l.dst /\ k.dst = l.src

-----------------------------------------------------------------------------
(* _call_rules.                                                            *)

MissingAck == ack = "lost"

\* Wrong on purpose: only a missing ACK counts.
SipDrop32sMissingAck ==
    /\ connected # None /\ hangups # <<>> /\ MissingAck
    /\ hangups[1].at - connected \in DropFrom..DropTo

SipDrop32s ==
    /\ connected # None /\ hangups # <<>>
    /\ hangups[1].at - connected \in DropFrom..DropTo
    /\ MissingAck \/ hangups[1].side = "callee"

OneWayAudio ==
    /\ connected # None
    /\ Packets(Dominant) # {} /\ ~BothWays(Packets(Substantial))

\* Wrong on purpose: measured from the answer.
RtpAfterByeConnected ==
    hangups # <<>> /\ \E k \in DOMAIN streams : streams[k].last - connected >= AfterBye

RtpAfterBye ==
    hangups # <<>> /\ \E k \in DOMAIN streams : streams[k].last - hangups[1].at >= AfterBye

-----------------------------------------------------------------------------
(* analyze_nat.                                                            *)

NatFinding(type, severity) == [type |-> type, severity |-> severity]

NatOneWay == connected # None /\ Packets(Substantial) # {} /\ ~BothWays(Packets(Substantial))
NatNoMedia == connected # None /\ DOMAIN streams = {}

PublicSignalling == \E address \in {Observed, ServerAddress} : ~IsPrivate(address)

NatPrivateSdp ==
    {NatFinding("NAT_PRIVATE_SDP", IF NatOneWay \/ NatNoMedia THEN "critical" ELSE "warning") :
        x \in {a \in Endpoints : IsPrivate(a) /\ PublicSignalling}}

NatMediaSourceMismatch ==
    {NatFinding("NAT_MEDIA_SOURCE_MISMATCH", IF NatOneWay THEN "warning" ELSE "info") :
        k \in {s \in DOMAIN streams : s.src \notin Endpoints /\ s.dst \in Endpoints}}

NatOneWayAudio ==
    {NatFinding("NAT_ONE_WAY_AUDIO", "critical") : m \in {n \in Messages : NatOneWay /\ Hidden(n)}}

NatFindings == NatPrivateSdp \cup NatMediaSourceMismatch \cup NatOneWayAudio

-----------------------------------------------------------------------------
(* Properties.                                                             *)

\* A party that got a voice, from one source.
Hears(p) == \E s \in 1..MaxSources : heard[p][s] >= Substantial

\* Once a stream is long enough to judge, one-way audio is reported exactly when
\* one of the two does not hear the other: the phone, whose packets a firewall
\* stops; or the phone behind NAT that the server sends to in vain, until it
\* latches.  It is put down to NAT exactly when there is one, unless both are on
\* one LAN (ONE_WAY_AUDIO, NAT_ONE_WAY_AUDIO).
OneWayFaithful ==
    LET deaf == \E p \in Parties : ~Hears(p)
    IN /\ Packets(Dominant) # {} => (OneWayAudio <=> deaf)
       /\ setting # "lan" /\ Packets(Substantial) # {} =>
             (NatOneWayAudio # {} <=> deaf /\ setting = "nat")

\* A party that the first BYE did not reach in time.
NotReleased(p) ==
    hangups # <<>> /\ hangups[1].side # p /\ (told[p] = None \/ told[p] - hangups[1].at >= AfterBye)

\* RTP after the BYE is reported of calls with a party that the BYE did not reach
\* in time, and of no others, though both may hang up at once; it is reported as
\* soon as such a party talks too late (RTP_AFTER_BYE: "BYE não chegou ao outro lado").
ReleaseFaithful ==
    /\ [](RtpAfterBye => \E p \in Parties : NotReleased(p))
    /\ [][streams' # streams /\ (\E b \in {hangups[i] : i \in DOMAIN hangups} : time - b.at >= AfterBye)
            => RtpAfterBye']_mediaVars

\* A call that the callee gave up because no ACK reached it is reported as dropped
\* at 32 seconds, wherever the ACK was lost; a call that the caller ended, and
\* whose ACK arrived, is not (SIP_DROP_32S).
DropFaithful ==
    hangups # <<>> =>
        /\ hangups[1].dropped => SipDrop32s
        /\ hangups[1].side = "caller" /\ ack = "received" => ~SipDrop32s

\* A call between private networks is no NAT problem (README.md: "não considera
\* comunicação entre redes privadas um erro de NAT").
PrivateNetworksNoNat == setting = "lan" => NatFindings = {}
=============================================================================
