------------------------------ MODULE MCMedia ------------------------------
(* What analyze_rtp and parse_rtcp_reports measure: sequence numbers        *)
(* (RtpSequence), jitter (RtpJitter), round trips (RtcpRtt) and the call    *)
(* of a flow (RtpCallMatch).  The four read the same packets and none reads *)
(* what another computes, so a behaviour follows one of them.               *)
EXTENDS RtpSequence, RtpJitter, RtcpRtt, RtpCallMatch

VARIABLE subject

MCLosses == {-1, 1}

\* Three calls of one trunk: a and b on ports of their own, c on one of a and on
\* one with the number of one of b.
At(ip, port) == [ip |-> ip, port |-> port]
MCCalls == {"a", "b", "c"}
MCSignalling == [c \in MCCalls |-> {"pbx", "trunk"}]
MCPayloadTypes == [c \in MCCalls |-> {8}]
MCPorts == [a |-> <<At("pbx", 10), At("trunk", 20)>>, b |-> <<At("pbx", 12), At("trunk", 22)>>,
            c |-> <<At("pbx", 10), At("trunk", 12)>>]

mcVars == <<vars, jitterVars, rttVars, matchVars, subject>>

MCInit ==
    /\ Init /\ JitterInit /\ RttInit /\ MatchInit
    /\ subject \in {"sequence", "jitter", "rtcp", "match"}
    /\ subject # "jitter" => first = Min(FirstTimestamps)

MCNext ==
    \/ subject = "sequence" /\ Next /\ UNCHANGED <<jitterVars, rttVars, matchVars, subject>>
    \/ subject = "jitter" /\ JitterNext /\ UNCHANGED <<vars, rttVars, matchVars, subject>>
    \/ subject = "rtcp" /\ RttNext /\ UNCHANGED <<vars, jitterVars, matchVars, subject>>
    \/ subject = "match" /\ MatchNext /\ UNCHANGED <<vars, jitterVars, rttVars, subject>>

MCSpec == MCInit /\ [][MCNext]_mcVars
=============================================================================
