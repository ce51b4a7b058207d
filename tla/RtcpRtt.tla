------------------------------- MODULE RtcpRtt ------------------------------
(***************************************************************************)
(* The round trip of parse_rtcp_reports, rtcp.py, and which report of an   *)
(* SSRC analyze_rtp keeps, rtp.py.                                         *)
(*                                                                         *)
(* A media sender emits sender reports, its peer answers with receiver     *)
(* reports that quote the last one and how long ago it came; both are lost *)
(* and delayed.  A capture whose clock is the sender's sees the receiver   *)
(* reports anywhere on their way, a duplicate of one as well.  Times are   *)
(* the middle 32 bits of NTP time: they wrap, every 18 hours in the code   *)
(* and every Modulus ticks here.                                           *)
(***************************************************************************)
EXTENDS Absence, Integers, FiniteSets, SequencesExt

CONSTANTS NtpModulus,  \* 2^32 ticks of 1/65536 s in the code
          Horizon,     \* a longer round trip is not believed: 60 s
          Begin,       \* time at which the capture starts
          MaxTime,     \* bound: length of the capture
          MaxReports,  \* bound: sender reports, receiver reports, and those captured
          LossBits,    \* range of the signed loss counter: 2^24 in the code
          Losses       \* cumulative losses that the peer may have, negative for duplicates

ASSUME RtcpAssumption ==
    /\ NtpModulus \in Nat \ {0} /\ Horizon \in 0..(NtpModulus - 1)
    /\ Begin \in Nat /\ MaxTime \in Nat /\ MaxReports \in Nat
    /\ None \notin Int
    /\ LossBits \in Nat \ {0} /\ Losses \subseteq Int
    /\ \A n \in Losses : 2 * n >= -LossBits /\ 2 * n < LossBits

VARIABLES now,
          senders,    \* times of the sender reports sent
          quoted,     \* the one the peer heard last: [sent, heard]
          receivers,  \* receiver reports sent: [sr, at, lost]
          reports     \* captured, in order: [lsr, dlsr, lost, at] and [rr] they are of

rttVars == <<now, senders, quoted, receivers, reports>>

RttInit ==
    /\ now = Begin /\ senders = {} /\ quoted = None /\ receivers = {} /\ reports = <<>>

Tick ==
    /\ now < Begin + MaxTime
    /\ now' = now + 1
    /\ UNCHANGED <<senders, quoted, receivers, reports>>

SenderReport ==
    /\ Cardinality(senders) < MaxReports
    /\ senders' = senders \cup {now}
    /\ UNCHANGED <<now, quoted, receivers, reports>>

\* The peer hears one; those it does not hear are lost or late.
Hear ==
    /\ \E s \in senders : quoted' = [sent |-> s, heard |-> now]
    /\ UNCHANGED <<now, senders, receivers, reports>>

ReceiverReport ==
    /\ Cardinality(receivers) < MaxReports
    /\ \E n \in Losses : receivers' = receivers \cup {[sr |-> quoted, at |-> now, lost |-> n]}
    /\ UNCHANGED <<now, senders, quoted, reports>>

Middle32(time) == time % NtpModulus

\* What is in the packet; 0 for both when no sender report was heard.
Block(rr) ==
    [lsr |-> IF rr.sr = None THEN 0 ELSE Middle32(rr.sr.sent),
     dlsr |-> IF rr.sr = None THEN 0 ELSE (rr.at - rr.sr.heard) % NtpModulus,
     lost |-> rr.lost % LossBits]

Capture ==
    /\ Len(reports) < MaxReports
    /\ \E rr \in receivers : reports' = Append(reports, [block |-> Block(rr), at |-> now, rr |-> rr])
    /\ UNCHANGED <<now, senders, quoted, receivers>>

RttNext == Tick \/ SenderReport \/ Hear \/ ReceiverReport \/ Capture

RttSpec == RttInit /\ [][RttNext]_rttVars

-----------------------------------------------------------------------------
(* parse_rtcp_reports and analyze_rtp.                                     *)

\* Wrong on purpose: the difference is not taken in 32 bits.
DifferenceWide(report) == Middle32(report.at) - report.block.lsr - report.block.dlsr

Difference(report) == (Middle32(report.at) - report.block.lsr - report.block.dlsr) % NtpModulus

Rtt(report) ==
    IF report.block.lsr # 0 /\ report.block.dlsr # 0 /\ Difference(report) \in 0..Horizon
    THEN Difference(report) ELSE None

SignedLoss(report) == IF 2 * report.block.lost >= LossBits THEN report.block.lost - LossBits ELSE report.block.lost

\* last_report: the last captured.
LastLost == IF reports = <<>> THEN None ELSE SignedLoss(reports[Len(reports)])

-----------------------------------------------------------------------------
(* Properties.                                                             *)

\* The way of the sender report to the peer, and of the receiver report from
\* there to the capture.
Path(report) == (report.rr.sr.heard - report.rr.sr.sent) + (report.at - report.rr.at)

\* A round trip that is reported is the way of the two packets, however long the
\* peer waited, whichever sender reports were lost and when the clock wrapped; in
\* front of the sender it is the RTT, elsewhere never more (README.md: RTT when
\* LSR and DLSR allow it).  It is left out only where it may be: no sender report
\* was heard, the peer answered in the same tick, the clock stood at zero, or it
\* took too long.  The loss reported is the peer's, with its sign: duplicates make
\* it negative, and the last report captured counts.
ReportsFaithful ==
    /\ reports # <<>> => LastLost = reports[Len(reports)].rr.lost
    /\ \A i \in DOMAIN reports :
        IF Rtt(reports[i]) # None
        THEN reports[i].rr.sr # None /\ (Path(reports[i]) < NtpModulus => Rtt(reports[i]) = Path(reports[i]))
        ELSE \/ reports[i].rr.sr = None
             \/ (reports[i].rr.at - reports[i].rr.sr.heard) % NtpModulus = 0
             \/ reports[i].rr.sr.sent % NtpModulus = 0
             \/ Path(reports[i]) > Horizon
=============================================================================
