------------------------------ MODULE MCAlerts ------------------------------
(* What raises alerts over a whole capture: registrations that fail         *)
(* (Registrations), floods (Floods) and attacks on SIP (SipSecurity).  None *)
(* reads what another computes, so a behaviour follows one of the three.    *)
EXTENDS SipSecurity, Registrations, Floods

VARIABLE subject

\* Requests of two sources.
MCRefresh == [src |-> "p1", method |-> "REGISTER", to |-> "a1", credentials |-> TRUE, lifetime |-> 60,
              host |-> "h1", scanner |-> FALSE]
MCMessages ==
    {MCRefresh, [MCRefresh EXCEPT !.credentials = FALSE], [MCRefresh EXCEPT !.lifetime = 0],
     [MCRefresh EXCEPT !.to = "a2"], [MCRefresh EXCEPT !.src = "p2"],
     [MCRefresh EXCEPT !.method = "INVITE", !.to = "abroad1"],
     [MCRefresh EXCEPT !.method = "INVITE", !.to = "abroad2", !.credentials = FALSE],
     [MCRefresh EXCEPT !.method = "OPTIONS"],
     [MCRefresh EXCEPT !.method = "OPTIONS", !.host = "h2"],
     [MCRefresh EXCEPT !.method = "OPTIONS", !.src = "p2", !.scanner = TRUE]}

MCStatuses ==
    [method \in {"REGISTER", "INVITE", "OPTIONS"} |->
         CASE method = "REGISTER" -> {200, 401, 403}
           [] method = "INVITE" -> {200, 404, 407}
           [] method = "OPTIONS" -> {200}]

MCInternational == {"abroad1", "abroad2"}

\* Seconds are quiet, a call with a little else, a SYN flood, a SIP flood of one
\* or of three sources, or a volume of other packets; thresholds are 2 to 4
\* packets in a second.
Packets(kind, src, n) == [kind |-> kind, src |-> src, n |-> n]
MCSeconds ==
    {{}, {Packets("media", "phone", 9), Packets("other", "web", 1)},
     {Packets("syn", "s1", 2)}, {Packets("sip", "s1", 2)},
     {Packets("sip", s, 1) : s \in {"s1", "s2", "s3"}}, {Packets("other", "s4", 5)}}
MCMinimum == [kind \in Kinds |-> IF kind = "volumetric" THEN 4 ELSE 2]

mcVars == <<txs, registrationVars, received, subject>>

MCInit ==
    /\ Init /\ RegistrationInit /\ FloodInit
    /\ subject \in {"registrations", "floods", "attacks"}

MCNext ==
    \/ subject = "registrations" /\ RegistrationNext /\ UNCHANGED <<txs, received, subject>>
    \/ subject = "floods" /\ FloodNext /\ UNCHANGED <<txs, registrationVars, subject>>
    \/ subject = "attacks" /\ Next /\ UNCHANGED <<registrationVars, received, subject>>

MCSpec == MCInit /\ [][MCNext]_mcVars
=============================================================================
