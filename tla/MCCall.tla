------------------------------- MODULE MCCall -------------------------------
(* What is said of calls: the figures over all (CallKpis), the signalling   *)
(* of one (CallReport, with interchangeable callees), its media (CallMedia) *)
(* and the phones behind NAT (NatDevices).  The rules on media read only    *)
(* the answer and the BYE of the signalling, which CallMedia has itself,    *)
(* the figures only what CallKpis has of a call, so a behaviour follows one *)
(* of the four.                                                             *)
EXTENDS CallKpis, CallReport, CallMedia, NatDevices, TLC

VARIABLE subject

\* A final status of every class of outcome and of every list in kpi.py.
MCStatuses == {200, 302, 401, 403, 404, 408, 480, 486, 487, 488, 500, 600}

\* Three phones behind one router and two behind another, one of them with STUN.
Phone(router, transport, rport, stun) ==
    [router |-> router, transport |-> transport, rport |-> rport, stun |-> stun]
MCPhones == {Phone("r1", "UDP", FALSE, FALSE), Phone("r1", "UDP", TRUE, FALSE),
             Phone("r1", "TCP", FALSE, FALSE),
             Phone("r2", "UDP", FALSE, TRUE), Phone("r2", "UDP", FALSE, FALSE)}

Symmetry == Permutations(Callees)

mcVars == <<calls, signallingVars, mediaVars, natVars, subject>>

\* Where the phone is matters to its media only.
MCInit ==
    /\ Init /\ SignallingInit /\ MediaInit /\ NatInit
    /\ subject \in {"signalling", "media", "figures", "nat"}
    /\ subject # "media" => setting = "open" /\ ~blocked

MCNext ==
    \/ /\ subject = "signalling" /\ SignallingNext
       /\ UNCHANGED <<calls, mediaVars, natVars, subject>>
    \/ /\ subject = "media" /\ MediaNext
       /\ UNCHANGED <<calls, signallingVars, natVars, subject>>
    \/ /\ subject = "figures" /\ Next
       /\ UNCHANGED <<signallingVars, mediaVars, natVars, subject>>
    \/ /\ subject = "nat" /\ NatNext
       /\ UNCHANGED <<calls, signallingVars, mediaVars, subject>>

MCSpec == MCInit /\ [][MCNext]_mcVars
=============================================================================
