---------------------------- MODULE RtpCallMatch ---------------------------
(***************************************************************************)
(* To which call an RTP flow belongs: _endpoint_match, _choose_call and    *)
(* the acceptance test of analyze_rtp, rtp.py, over the media_endpoints    *)
(* that build_calls of sip.py collects.                                    *)
(*                                                                         *)
(* Calls are set up, refresh their SDP (session timers, retransmissions)   *)
(* and end while time passes, on ports of their own or on those of others; *)
(* flows of RTP start between the media endpoints of a call, until its     *)
(* parties have noticed that it is over.  The report is made of what was   *)
(* captured so far.                                                        *)
(***************************************************************************)
EXTENDS Absence, Integers, SequencesExt

CONSTANTS Calls,
          Signalling,    \* Signalling[c]: addresses its messages come from and go to
          Media,         \* Media[c]: <<caller's, callee's>> [ip, port]
          PayloadTypes,  \* PayloadTypes[c]: offered in its SDP

          Margin, Linger,   \* the window of a call is this much longer than the call: 2 s, 5 s
          MaxRefreshes,  \* bound: SDP bodies repeated in one call
          MaxFlows,      \* bound: flows in the capture
          LastTime       \* bound: the clock

ASSUME MatchAssumption ==
    /\ \A c \in Calls : Media[c] = <<Media[c][1], Media[c][2]>>
    /\ \A c \in Calls, i \in 1..2 : Media[c][i] = [ip |-> Media[c][i].ip, port |-> Media[c][i].port]
    /\ Margin \in Nat /\ Linger \in Nat /\ MaxRefreshes \in Nat /\ MaxFlows \in Nat /\ LastTime \in Nat
    /\ IsFiniteSet(Calls)

VARIABLES endpoints,  \* endpoints[c]: media_endpoints of the call, in order
          phase,      \* phase[c]: before it, up or over
          started,    \* started[c]: when its INVITE was captured (started_at)
          ended,      \* ended[c]: when its BYE was captured (terminated_at)
          flows,      \* [src, dst, pt, at, call (whose they are)], by their first packet
          time

matchVars == <<endpoints, phase, started, ended, flows, time>>

MatchInit ==
    /\ endpoints = [c \in Calls |-> <<>>]
    /\ phase = [c \in Calls |-> "before"]
    /\ started = [c \in Calls |-> 0] /\ ended = [c \in Calls |-> 0]
    /\ flows = {} /\ time = 0

Bodies(c) == <<[ip |-> Media[c][1].ip, port |-> Media[c][1].port, pts |-> PayloadTypes[c]],
               [ip |-> Media[c][2].ip, port |-> Media[c][2].port, pts |-> PayloadTypes[c]]>>

\* Nothing keeps a call from endpoints that another has, or had until just now.
SetUp(c) ==
    /\ phase[c] = "before"
    /\ phase' = [phase EXCEPT ![c] = "up"]
    /\ started' = [started EXCEPT ![c] = time]
    /\ endpoints' = [endpoints EXCEPT ![c] = Bodies(c)]
    /\ UNCHANGED <<ended, flows, time>>

\* A re-INVITE and its answer, or a 2xx sent again: each SDP is one endpoint more.
Refresh(c) ==
    /\ phase[c] = "up" /\ Len(endpoints[c]) < 2 * (MaxRefreshes + 1)
    /\ endpoints' = [endpoints EXCEPT ![c] = @ \o Bodies(c)]
    /\ UNCHANGED <<phase, started, ended, flows, time>>

End(c) ==
    /\ phase[c] = "up"
    /\ phase' = [phase EXCEPT ![c] = "over"]
    /\ ended' = [ended EXCEPT ![c] = time]
    /\ UNCHANGED <<endpoints, started, flows, time>>

Start(src, dst, pt, call) ==
    /\ Cardinality(flows) < MaxFlows
    /\ flows' = flows \cup {[src |-> src, dst |-> dst, pt |-> pt, at |-> time, call |-> call]}
    /\ UNCHANGED <<endpoints, phase, started, ended, time>>

\* Media of a call, in either direction; a party that has not heard of the BYE may
\* still begin to send.
StartMedia(c) ==
    /\ phase[c] = "up" \/ (phase[c] = "over" /\ time <= ended[c] + Linger)
    /\ \E pt \in PayloadTypes[c] : \/ Start(Media[c][1], Media[c][2], pt, c)
                                   \/ Start(Media[c][2], Media[c][1], pt, c)

Pass ==
    /\ time < LastTime
    /\ time' = time + 1
    /\ UNCHANGED <<endpoints, phase, started, ended, flows>>

MatchNext ==
    \/ Pass
    \/ \E c \in Calls : SetUp(c) \/ Refresh(c) \/ End(c) \/ StartMedia(c)

MatchSpec == MatchInit /\ [][MatchNext]_matchVars

-----------------------------------------------------------------------------
(* analyze_rtp on what was captured.                                       *)

Exact(ep, flow) == [ip |-> ep.ip, port |-> ep.port] \in {flow.src, flow.dst}
SamePort(ep, flow) == ep.port \in {flow.src.port, flow.dst.port}

\* Wrong on purpose: the port alone is as good as the address.
AddEndpointPort(score, ep, flow) ==
    (IF SamePort(ep, flow) THEN Max({score, 6}) ELSE score) + (IF flow.pt \in ep.pts THEN 1 ELSE 0)

\* The contribution of one endpoint: at least 6 or 3, and 1 for the codec.
AddEndpoint(score, ep, flow) ==
    (IF Exact(ep, flow) THEN Max({score, 6})
     ELSE IF SamePort(ep, flow) THEN Max({score, 3}) ELSE score)
    + (IF flow.pt \in ep.pts THEN 1 ELSE 0)

\* The sum over the endpoints of a call.
EndpointScore(bodies, flow) ==
    LET upTo[i \in 0..Len(bodies)] ==
            IF i = 0 THEN 0 ELSE AddEndpoint(upTo[i - 1], bodies[i], flow)
    IN  upTo[Len(bodies)]

\* call.terminated_at or call.ended_at: without a BYE an answered call lasts until
\* the capture ends.
EndedAt(c) == IF phase[c] = "over" THEN ended[c] ELSE time

InWindow(c, flow) == started[c] - Margin <= flow.at /\ flow.at <= EndedAt(c) + Linger

\* _endpoint_match
EndpointMatch(c, flow) ==
    EndpointScore(endpoints[c], flow)
    + (IF flow.src.ip \in Signalling[c] THEN 1 ELSE 0)
    + (IF flow.dst.ip \in Signalling[c] THEN 1 ELSE 0)
    + (IF InWindow(c, flow) THEN 2 ELSE 0)

Known == {c \in Calls : phase[c] # "before"}

\* _choose_call: the best score, if it is at least 4 and nobody else has it.
ChooseCall(flow) ==
    LET best == {c \in Known : /\ EndpointMatch(c, flow) >= 4
                               /\ \A d \in Known : EndpointMatch(d, flow) <= EndpointMatch(c, flow)}
    IN IF Cardinality(best) = 1 THEN CHOOSE c \in best : TRUE ELSE None

-----------------------------------------------------------------------------
(* Properties.                                                             *)

\* The media of each call are sent by hosts that also signal for it: where no call
\* has an advantage over another by its signalling.
MediaOfHosts == \A c \in Calls, i \in 1..2 : Media[c][i].ip \in Signalling[c]

Shared(c, d) == ToSet(Media[c]) \cap ToSet(Media[d]) # {}
SameNumber(c, d) == \E i, j \in 1..2 : Media[c][i].port = Media[d][j].port

\* How many times more than d the call c repeated its SDP.
Extra(c, d) == (Len(endpoints[c]) - Len(endpoints[d])) \div 2

\* Each body repeated adds to the score of its call.  What another call may have
\* repeated more: nothing on the same endpoints, one pair of bodies with a port
\* number in common, two otherwise.
FewRefreshes(c, d) ==
    Extra(c, d) <= IF Shared(c, d) THEN 0 ELSE IF SameNumber(c, d) THEN 1 ELSE 2

\* A call on the same endpoints cannot be told from this one: it is up, was 5 s ago
\* or will be in 2 s, and its SDP was repeated as often.
Rival(c, f) == Shared(c, f.call) /\ InWindow(c, f) /\ Extra(c, f.call) = 0

\* No flow of a call is reported as another's: neither of a call between the same
\* hosts, nor of one that has its endpoints at the same time, had them just before
\* or has them soon after (README.md: RTP is validated by header and SDP).  And
\* it is reported as its own unless such a call is a rival: _choose_call gives
\* a tie to nobody.
MediaAttributed ==
    \A f \in flows :
        (\A c \in Calls \ {f.call} : FewRefreshes(c, f.call)) =>
            /\ ChooseCall(f) \in {f.call, None}
            /\ (\A c \in Calls \ {f.call} : ~Rival(c, f)) => ChooseCall(f) = f.call
=============================================================================
