---------------------------- MODULE RtpSequence ----------------------------
(***************************************************************************)
(* The sequence-number accounting of one RTP stream: the loop of           *)
(* analyze_rtp in rtp.py that unwraps the sequence numbers of the stream's *)
(* packets, in the order the sensor captured them, and the loss, duplicate *)
(* and reorder counters it yields.                                         *)
(*                                                                         *)
(* The sender numbers its packets 0, 1, 2, ... and puts the number modulo  *)
(* Modulus (2^16 in the code) on the wire.  The network loses, duplicates  *)
(* and reorders packets, a packet never trailing or leading the greatest   *)
(* one captured so far by more than Window.  The true numbers are known to *)
(* the environment only (arrived, newest, origin, late): no operator of    *)
(* the code reads them.                                                    *)
(***************************************************************************)
EXTENDS Absence, Integers, FiniteSets, SequencesExt

CONSTANTS Modulus,     \* size of the sequence number space: 65536 in the code
          Window,      \* the greatest displacement the network causes
          MaxIndex,    \* bound: the last packet the sender sends
          MaxArrivals  \* bound: packets in the capture

ASSUME SequenceAssumption ==
    /\ Modulus \in Nat /\ Window \in Nat
    /\ 2 * Window < Modulus
    /\ MaxIndex \in Nat /\ MaxArrivals \in Nat
    /\ None \notin Int

VARIABLES highest,   \* highest extended number so far, None before the first
          seen,      \* the set of extended numbers
          duplicates,
          ooo,       \* first arrivals below highest
          arrivals,  \* len(ext_seqs)
          arrived, newest, origin, late  \* the truth, for the properties

codeVars  == <<highest, seen, duplicates, ooo, arrivals>>
truthVars == <<arrived, newest, origin, late>>
vars == <<codeVars, truthVars>>

-----------------------------------------------------------------------------
(* The operators of rtp.py.                                                *)

Distance(x, y) == IF x >= y THEN x - y ELSE y - x

\* The candidate nearest to h, the first in the code's order on a tie.
Unwrap16(s, h) ==
    IF h = None THEN s
    ELSE LET base == h - (h % Modulus)
             same == base + s
             prev == base - Modulus + s
             next == base + Modulus + s
         IN  IF /\ Distance(same, h) <= Distance(prev, h)
                /\ Distance(same, h) <= Distance(next, h)
             THEN same
             ELSE IF Distance(prev, h) <= Distance(next, h) THEN prev ELSE next

\* Wrong on purpose: the range without its last number.
ExpectedExclusive(S) == IF S = {} THEN 0 ELSE Max(S) - Min(S)

\* seen is never empty when a stream is reported.
Expected(S) == IF S = {} THEN 0 ELSE Max(S) - Min(S) + 1
Lost(S) == LET missing == Expected(S) - Cardinality(S)
           IN  IF missing > 0 THEN missing ELSE 0

\* Wrong on purpose: a run that ended is not reset.
ClosedNotReset(acc) ==
    IF acc.run > 0 THEN [acc EXCEPT !.lost = @ + acc.run, !.number = @ + 1] ELSE acc

\* A burst ends: the code keeps their lengths and takes the mean, so their sum and
\* their number say as much.
Closed(acc) ==
    IF acc.run > 0 THEN [run |-> 0, lost |-> acc.lost + acc.run, number |-> acc.number + 1] ELSE acc

\* _burst_ratio's loop over the range.
Bursts(S) ==
    LET upTo[n \in 0..Expected(S)] ==
            IF n = 0 THEN [run |-> 0, lost |-> 0, number |-> 0]
            ELSE IF Min(S) + n - 1 \in S THEN Closed(upTo[n - 1])
            ELSE [upTo[n - 1] EXCEPT !.run = @ + 1]
    IN  Closed(upTo[Expected(S)])

-----------------------------------------------------------------------------
Init ==
    /\ highest = None /\ seen = {} /\ duplicates = 0 /\ ooo = 0 /\ arrivals = 0
    /\ arrived = {} /\ newest = None /\ origin = 0 /\ late = 0

\* Wrong on purpose: the highest number follows the last packet, late or not.
AccountLastWins(s) ==
    LET ext == Unwrap16(s, highest)
    IN  /\ duplicates' = IF ext \in seen THEN duplicates + 1 ELSE duplicates
        /\ ooo' = IF ext \notin seen /\ highest # None /\ ext < highest
                  THEN ooo + 1 ELSE ooo
        /\ seen' = seen \cup {ext}
        /\ highest' = ext
        /\ arrivals' = arrivals + 1

\* Wrong on purpose: duplicates are told from the previous packet only.
AccountAdjacentDuplicates(s) ==
    LET ext == Unwrap16(s, highest)
    IN  /\ duplicates' = IF ext = highest THEN duplicates + 1 ELSE duplicates
        /\ ooo' = IF ext # highest /\ highest # None /\ ext < highest
                  THEN ooo + 1 ELSE ooo
        /\ seen' = seen \cup {ext}
        /\ highest' = IF highest = None \/ ext > highest THEN ext ELSE highest
        /\ arrivals' = arrivals + 1

\* One iteration of the loop, for a packet whose wire number is s.
Account(s) ==
    LET ext == Unwrap16(s, highest)
    IN  /\ duplicates' = IF ext \in seen THEN duplicates + 1 ELSE duplicates
        /\ ooo' = IF ext \notin seen /\ highest # None /\ ext < highest
                  THEN ooo + 1 ELSE ooo
        /\ seen' = seen \cup {ext}
        /\ highest' = IF highest = None \/ ext > highest THEN ext ELSE highest
        /\ arrivals' = arrivals + 1

\* What really happened: packet t reached the sensor.
Witness(t) ==
    /\ arrived' = arrived \cup {t}
    /\ newest' = IF newest = None \/ t > newest THEN t ELSE newest
    /\ origin' = IF newest = None THEN t - (t % Modulus) ELSE origin
    /\ late' = IF t \notin arrived /\ newest # None /\ t < newest
               THEN late + 1 ELSE late

Arrive(t) ==
    /\ arrivals < MaxArrivals
    /\ newest # None => Distance(t, newest) <= Window
    /\ Account(t % Modulus)
    /\ Witness(t)

\* The capture may end at any point, where the counters are read.
Next == \E t \in 0..MaxIndex : Arrive(t)

Spec == Init /\ [][Next]_vars

-----------------------------------------------------------------------------
(* Properties.                                                             *)

\* The counters are counters and the extended numbers stay near the range the
\* sender used: unwrapping (_unwrap16) never lands in a cycle nobody sent.
TypeOK ==
    /\ seen \subseteq (-Window)..MaxIndex
    /\ highest \in seen \cup {None}
    /\ duplicates \in 0..MaxArrivals /\ ooo \in 0..MaxArrivals
    /\ arrivals \in 0..MaxArrivals
    /\ arrived \subseteq 0..MaxIndex
    /\ newest \in arrived \cup {None}
    /\ origin \in 0..MaxIndex /\ late \in 0..MaxArrivals

\* The unwrapped numbers are the sender's own, shifted by the cycles that
\* preceded the first packet: a rollover, forwards or backwards and repeated
\* any number of times, never puts a packet into the wrong cycle of 2^16.
UnwrapFaithful ==
    /\ seen = {t - origin : t \in arrived}
    /\ newest = None <=> highest = None
    /\ newest # None => highest = newest - origin

\* lost_packets is exactly the number of packets between the first and the
\* last one captured that the sensor never saw, whatever was duplicated,
\* reordered or rolled over on the way (README.md "Perda RTP").
Missing == {t \in 0..MaxIndex : /\ t \notin arrived
                                /\ \E a, b \in arrived : a < t /\ t < b}
LossExact == Lost(seen) = Cardinality(Missing)

\* Every packet of the stream is counted once: as a unique packet or as a
\* duplicate; and only unique packets that trail another are reordered ones.
EveryPacketCounted ==
    /\ arrivals = Cardinality(seen) + duplicates
    /\ seen # {} => ooo < Cardinality(seen)

\* The loss bursts that weigh on the MOS are the maximal runs of missing
\* packets: they add up to the loss, and there is one for each missing packet
\* whose predecessor did arrive.
BurstsPartitionLoss ==
    /\ Bursts(seen).lost = Lost(seen)
    /\ Bursts(seen).number = Cardinality({t \in Missing : t - 1 \notin Missing})

\* A packet that arrives late takes back exactly the loss it had caused,
\* and a duplicate changes no loss at all.
LateArrivalHeals ==
    [][/\ (ooo' > ooo /\ Min(seen') = Min(seen)) => Lost(seen') = Lost(seen) - 1
       /\ (duplicates' > duplicates) => Lost(seen') = Lost(seen)]_vars

\* The 16-bit accounting implements the ledger kept with the true numbers.
Ledger == INSTANCE LossLedger WITH
    got <- {e + origin : e \in seen},
    latest <- IF highest = None THEN None ELSE highest + origin,
    late <- ooo,
    Packets <- 0..MaxIndex
LedgerSpec == Ledger!Spec
=============================================================================
