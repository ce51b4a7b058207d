----------------------------- MODULE RtpJitter -----------------------------
(***************************************************************************)
(* The interarrival jitter of one RTP stream: the second loop of           *)
(* analyze_rtp in rtp.py, over the packets in capture order.               *)
(*                                                                         *)
(* Packet i is sampled at FirstTimestamp + i * Step and carries that value *)
(* modulo TsModulus (2^32); it arrives after one of the network's Delays,  *)
(* or never.  Times are counted in RTP clock units, as arrival_units is.   *)
(* The jitter after n differences is the fraction jitter / 16^n, so the    *)
(* division by 16.0 of the code is exact here.                             *)
(***************************************************************************)
EXTENDS Absence, Integers, FiniteSets

CONSTANTS TsModulus,        \* size of the RTP timestamp space
          FirstTimestamps,  \* where the sender may start counting
          Step,             \* samples per packet
          Delays,           \* network delays, in samples
          LastPacket,       \* bound: the last packet the sender sends
          MaxMeasured       \* bound: packets in the capture

ASSUME JitterAssumption ==
    /\ TsModulus \in Nat \ {0} /\ Step \in Nat \ {0}
    /\ FirstTimestamps \subseteq 0..(TsModulus - 1)
    /\ Delays \subseteq Nat /\ LastPacket \in Nat /\ MaxMeasured \in Nat
    /\ None \notin Int

VARIABLES first,        \* the sender's first timestamp
          clock,        \* arrival of the last packet captured
          measured,     \* packets captured
          prevTransit,  \* prev_transit of the code
          jitter,       \* numerator of the code's jitter, over 16^Differences
          rfcTransit, rfcJitter  \* the same in RFC 3550 appendix A.8

jitterVars == <<first, clock, measured, prevTransit, jitter, rfcTransit, rfcJitter>>

Size(x) == IF x < 0 THEN -x ELSE x
Differences == IF measured = 0 THEN 0 ELSE measured - 1

\* 32-bit subtraction read as a signed number, as in the RFC's C code.
Signed(x) == LET r == x % TsModulus
             IN  IF 2 * r >= TsModulus THEN r - TsModulus ELSE r

\* Wrong on purpose: the weight of the new difference is left out.
Summed(j, d, n) == 16 * j + 16 * d * 16^n

\* J + (d - J) / 16 over the common denominator 16^(n+1).
Smoothed(j, d, n) == 15 * j + d * 16^n

JitterInit ==
    /\ first \in FirstTimestamps
    /\ clock = 0 /\ measured = 0 /\ prevTransit = None /\ jitter = 0
    /\ rfcTransit = None /\ rfcJitter = 0

\* One iteration of the code's loop.
Measure(arrival, rtpTimestamp) ==
    LET transit == arrival - rtpTimestamp
    IN  /\ jitter' = IF prevTransit = None THEN jitter
                     ELSE Smoothed(jitter, Size(transit - prevTransit), Differences)
        /\ prevTransit' = transit

RfcMeasure(arrival, rtpTimestamp) ==
    LET transit == (arrival - rtpTimestamp) % TsModulus
    IN  /\ rfcJitter' = IF rfcTransit = None THEN rfcJitter
                        ELSE 15 * rfcJitter
                             + Size(Signed(transit - rfcTransit)) * 16^Differences
        /\ rfcTransit' = transit

ArriveAt(i, delay) ==
    LET arrival == i * Step + delay
        stamp == (first + i * Step) % TsModulus
    IN  /\ measured < MaxMeasured
        /\ arrival >= clock
        /\ Measure(arrival, stamp)
        /\ RfcMeasure(arrival, stamp)
        /\ clock' = arrival /\ measured' = measured + 1
        /\ UNCHANGED first

JitterNext == \E i \in 0..LastPacket, delay \in Delays : ArriveAt(i, delay)

JitterSpec == JitterInit /\ [][JitterNext]_jitterVars

-----------------------------------------------------------------------------
(* Properties.                                                             *)

\* No stream reaches the end of the timestamp space, and no two delays are
\* further apart than half of it: where raw timestamps are good enough.
NoWrap ==
    /\ \A f \in FirstTimestamps, i \in 0..LastPacket : f + i * Step < TsModulus
    /\ \A d, e \in Delays : 2 * (d - e) <= TsModulus

\* The jitter is the one of RFC 3550, whatever was lost, reordered or repeated
\* (README.md "Jitter RFC 3550").
JitterPerRfc == jitter = rfcJitter
=============================================================================
