---------------------------- MODULE MediaProofs ----------------------------
(***************************************************************************)
(* Proofs about the figures of a media stream: RtpSequence, for every size  *)
(* of the sequence number space and every displacement of less than half of *)
(* it; RtcpRtt, for every modulus of the NTP clock, every horizon and every *)
(* number of reports; RtpJitter, for every timestamp space that no stream   *)
(* reaches the end of; and about its call: RtpCallMatch, for every number   *)
(* of calls, ports and refreshes.                                           *)
(***************************************************************************)
EXTENDS RtpSequence, RtpJitter, RtcpRtt, RtpCallMatch, NumberLemmas, SequenceTheorems, FiniteSetTheorems, TLAPS

-----------------------------------------------------------------------------
(* Sequence numbers: what was lost.                                        *)
-----------------------------------------------------------------------------

\* The modulus is a positive number.
LEMMA ModulusPositive == Modulus \in Nat /\ Window \in Nat /\ Modulus > 0 /\ 2 * Window < Modulus
  BY SequenceAssumption

-----------------------------------------------------------------------------
(* _unwrap16 finds the number the sender cut: the candidate of the right   *)
(* cycle is nearer to the highest number than either of its neighbours.    *)
LEMMA UnwrapCorrect ==
    ASSUME NEW t \in Nat, NEW n \in Nat, NEW k \in Nat,
           Distance(t, n) <= Window
    PROVE  Unwrap16(t % Modulus, n - Modulus * k) = t - Modulus * k
  <1> DEFINE M == Modulus
             h == n - M * k
             qt == t \div M
             rt == t % M
             qh == h \div M
             rh == h % M
             base == h - rh
             d == qt - k - qh
  <1>0. M \in Nat /\ M > 0 /\ Window \in Nat /\ 2 * Window < M
    BY ModulusPositive
  <1>a. M * k \in Int
    BY <1>0, SMT
  <1>b. h \in Int /\ h # None
    BY <1>a, SequenceAssumption
  <1>1. qt \in Int /\ rt \in 0..(M - 1) /\ t = M * qt + rt
    BY <1>0, DivMod
  <1>2. qh \in Int /\ rh \in 0..(M - 1) /\ h = M * qh + rh
    BY <1>0, <1>b, DivMod
  <1>3. d \in Int /\ M * d = M * qt - M * k - M * qh
    BY <1>0, <1>1, <1>2, SMT
  <1>4. t - M * k = base + M * d + rt
    <2>1. M * qt \in Int /\ M * qh \in Int /\ M * d \in Int
      BY <1>0, <1>1, <1>2, <1>3, SMT
    <2> HIDE DEF d, qt, qh, rt, rh
    <2> QED
      BY <2>1, <1>a, <1>1, <1>2, <1>3
  <1>5. /\ (t - M * k) - h <= Window
        /\ h - (t - M * k) <= Window
    BY <1>0, <1>a DEF Distance
  <1>6. M * d \in Int
    BY <1>0, <1>3, SMT
  <1> HIDE DEF M, h, qt, rt, qh, d
  <1>7. M * d < 2 * M /\ -(2 * M) < M * d
    BY <1>0, <1>1, <1>2, <1>4, <1>5, <1>6, <1>b
  <1>8. d = -1 \/ d = 0 \/ d = 1
    BY <1>0, <1>3, <1>7, SmallMultiple
  <1>9. M * d = -M \/ M * d = 0 \/ M * d = M
    BY <1>0, <1>8, SMT
  <1>10. Unwrap16(rt, h) = base + M * d + rt
    BY <1>0, <1>1, <1>2, <1>4, <1>5, <1>9, <1>a, <1>b DEF Unwrap16, Distance, M
  <1> QED
    BY <1>4, <1>10 DEF M, h, rt

-----------------------------------------------------------------------------
(* The inductive invariant: what is known of the truth, the unwrapped      *)
(* numbers as a shift of it, and the counters.                             *)
TruthInv ==
    /\ arrived \in SUBSET (0..MaxIndex)
    /\ newest = None => arrived = {}
    /\ newest # None => newest \in arrived /\ \A t \in arrived : t <= newest
    /\ newest # None => \E t \in arrived : \A x \in arrived : t <= x
    /\ \E k \in Nat : origin = Modulus * k
    /\ origin \in 0..MaxIndex
    /\ newest # None => newest >= origin
    /\ \A t \in arrived : origin - Window <= t

CounterInv ==
    /\ IsFiniteSet(seen) /\ IsFiniteSet(arrived)
    /\ Cardinality(seen) = Cardinality(arrived)
    /\ duplicates \in Nat /\ ooo \in Nat /\ arrivals \in Nat
    /\ arrivals <= MaxArrivals
    /\ arrivals = Cardinality(seen) + duplicates
    /\ seen # {} => ooo < Cardinality(seen)
    /\ seen = {} => ooo = 0
    /\ late = ooo

IInv == TruthInv /\ UnwrapFaithful /\ CounterInv

\* The first packet of a stream.
LEMMA InitInv == Init => IInv
  <1> SUFFICES ASSUME Init PROVE IInv
    OBVIOUS
  <1>1. TruthInv
    <2>1. origin = Modulus * 0 /\ 0 \in Nat
      BY ModulusPositive DEF Init
    <2> QED
      BY <2>1, SequenceAssumption DEF Init, TruthInv
  <1>2. UnwrapFaithful
    BY DEF Init, UnwrapFaithful
  <1>3. CounterInv
    BY FS_EmptySet, SequenceAssumption DEF Init, CounterInv
  <1> QED
    BY <1>1, <1>2, <1>3 DEF IInv

\* The sender's numbers are natural.
LEMMA TruthNat ==
    ASSUME TruthInv
    PROVE  /\ \A t \in arrived : t \in Nat /\ t <= MaxIndex
           /\ newest # None => newest \in Nat
  <1>1. \A t \in arrived : t \in 0..MaxIndex
    BY DEF TruthInv
  <1>2. \A t \in 0..MaxIndex : t \in Nat /\ t <= MaxIndex
    BY SequenceAssumption
  <1>3. newest # None => newest \in arrived
    BY DEF TruthInv
  <1> QED
    BY <1>1, <1>2, <1>3

\* The number the code computes for an arriving packet is the packet's own,
\* shifted by the origin that the first packet fixes.
LEMMA ArriveUnwraps ==
    ASSUME IInv, NEW t \in 0..MaxIndex, Arrive(t)
    PROVE  /\ Unwrap16(t % Modulus, highest) = t - origin'
           /\ \E k \in Nat : origin' = Modulus * k
           /\ origin' \in 0..MaxIndex
           /\ newest # None => origin' = origin
           /\ newest = None => origin' <= t
           /\ origin' - Window <= t
  <1>0. t \in Nat /\ None \notin Int /\ Modulus \in Nat /\ Modulus > 0 /\ Window \in Nat /\ MaxIndex \in Nat
    BY SequenceAssumption, ModulusPositive
  <1>1. CASE newest = None
    <2>1. highest = None /\ origin' = t - (t % Modulus)
      BY <1>1 DEF IInv, UnwrapFaithful, Arrive, Witness
    <2>2. /\ t \div Modulus \in Int /\ t % Modulus \in 0..(Modulus - 1)
          /\ t = Modulus * (t \div Modulus) + (t % Modulus)
      BY <1>0, DivMod
    <2>3. t \div Modulus >= 0
      BY <1>0, SMT
    <2>4. Modulus * (t \div Modulus) >= 0 /\ Modulus * (t \div Modulus) \in Int
      BY <1>0, <2>2, <2>3, SMT
    <2>5. origin' = Modulus * (t \div Modulus) /\ t \div Modulus \in Nat
      BY <1>0, <2>1, <2>2, <2>3, <2>4
    <2>6. origin' \in 0..MaxIndex /\ origin' <= t
      BY <1>0, <2>2, <2>4, <2>5
    <2>7. Unwrap16(t % Modulus, highest) = t - origin'
      BY <1>0, <2>1, <2>2 DEF Unwrap16
    <2> QED
      BY <1>0, <1>1, <2>5, <2>6, <2>7
  <1>2. CASE newest # None
    <2>1. newest \in Nat /\ newest >= origin /\ origin \in 0..MaxIndex
      BY <1>2, TruthNat DEF IInv, TruthInv
    <2>2. PICK k \in Nat : origin = Modulus * k
      BY DEF IInv, TruthInv
    <2>3. origin' = origin /\ highest = newest - origin /\ Distance(t, newest) <= Window
      BY <1>2 DEF IInv, UnwrapFaithful, Arrive, Witness
    <2>4. Unwrap16(t % Modulus, highest) = t - origin
      BY <1>0, <2>1, <2>2, <2>3, UnwrapCorrect
    <2>5. origin - Window <= t
      BY <1>0, <2>1, <2>3 DEF Distance
    <2> QED
      BY <1>2, <2>1, <2>2, <2>3, <2>4, <2>5
  <1> QED
    BY <1>1, <1>2

\* A packet, in whatever order, keeps the invariant.
LEMMA ArriveInv ==
    ASSUME IInv, NEW t \in 0..MaxIndex, Arrive(t)
    PROVE  IInv'
  <1> DEFINE ext == Unwrap16(t % Modulus, highest)
  <1>0. t \in Nat /\ None \notin Int /\ Modulus \in Nat /\ Window \in Nat /\ MaxIndex \in Nat /\ MaxArrivals \in Nat
    BY SequenceAssumption
  <1>1. /\ ext = t - origin'
        /\ \E k \in Nat : origin' = Modulus * k
        /\ origin' \in 0..MaxIndex
        /\ newest # None => origin' = origin
        /\ newest = None => origin' <= t
        /\ origin' - Window <= t
    BY ArriveUnwraps
  <1>2. /\ seen' = seen \cup {ext}
        /\ duplicates' = IF ext \in seen THEN duplicates + 1 ELSE duplicates
        /\ ooo' = IF ext \notin seen /\ highest # None /\ ext < highest THEN ooo + 1 ELSE ooo
        /\ highest' = IF highest = None \/ ext > highest THEN ext ELSE highest
        /\ arrivals' = arrivals + 1 /\ arrivals < MaxArrivals
        /\ arrived' = arrived \cup {t}
        /\ newest' = IF newest = None \/ t > newest THEN t ELSE newest
        /\ late' = IF t \notin arrived /\ newest # None /\ t < newest THEN late + 1 ELSE late
    BY DEF Arrive, Account, Witness
  <1> HIDE DEF ext
  <1>3. ext \in Int
    BY <1>0, <1>1
  <1>4. newest = None \/ newest \in Nat
    BY TruthNat DEF IInv
  <1>5. \A x \in arrived : x \in Nat
    BY <1>0 DEF IInv, TruthInv
  <1>6. origin \in Nat
    BY <1>0 DEF IInv, TruthInv
  <1>7. newest' # None /\ newest' \in Nat
    BY <1>0, <1>2, <1>4
  <1>8. TruthInv'
    <2>1. arrived' \in SUBSET (0..MaxIndex)
      BY <1>2 DEF IInv, TruthInv
    <2>2. newest' \in arrived' /\ \A x \in arrived' : x <= newest'
      BY <1>0, <1>2, <1>4, <1>5 DEF IInv, TruthInv
    <2>5. \E m \in arrived' : \A x \in arrived' : m <= x
      <3>1. CASE newest = None
        BY <1>0, <1>2, <3>1 DEF IInv, TruthInv
      <3>2. CASE newest # None
        <4>1. PICK m \in arrived : \A x \in arrived : m <= x
          BY <3>2 DEF IInv, TruthInv
        <4>2. CASE m <= t
          BY <1>0, <1>2, <1>5, <4>1, <4>2
        <4>3. CASE t < m
          BY <1>0, <1>2, <1>5, <4>1, <4>3
        <4> QED
          BY <1>0, <1>5, <4>1, <4>2, <4>3
      <3> QED
        BY <3>1, <3>2
    <2>3. newest' >= origin'
      BY <1>0, <1>1, <1>2, <1>4, <1>6 DEF IInv, TruthInv
    <2>4. \A x \in arrived' : origin' - Window <= x
      BY <1>0, <1>1, <1>2 DEF IInv, TruthInv
    <2> QED
      BY <1>1, <1>7, <2>1, <2>2, <2>3, <2>4, <2>5 DEF TruthInv
  <1>9. ext \in seen <=> t \in arrived
    BY <1>0, <1>1, <1>3, <1>5, <1>6 DEF IInv, UnwrapFaithful, TruthInv
  <1>10. UnwrapFaithful'
    <2>1. seen' = {x - origin' : x \in arrived'}
      BY <1>0, <1>1, <1>2, <1>3, <1>5, <1>6 DEF IInv, UnwrapFaithful, TruthInv
    <2>2. highest' # None /\ highest' = newest' - origin'
      <3>1. CASE newest = None
        BY <1>0, <1>1, <1>2, <1>3, <3>1 DEF IInv, UnwrapFaithful
      <3>2. CASE newest # None
        BY <1>0, <1>1, <1>2, <1>3, <1>4, <1>6, <3>2 DEF IInv, UnwrapFaithful
      <3> QED
        BY <3>1, <3>2
    <2> QED
      BY <1>7, <2>1, <2>2 DEF UnwrapFaithful
  <1>11. late = ooo /\ late' = ooo'
    <2>1. highest # None <=> newest # None
      BY DEF IInv, UnwrapFaithful
    <2>2. newest # None => (ext < highest <=> t < newest)
      BY <1>0, <1>1, <1>4, <1>6 DEF IInv, UnwrapFaithful
    <2> QED
      BY <1>2, <1>9, <2>1, <2>2 DEF IInv, CounterInv
  <1>12. CounterInv'
    <2>1. IsFiniteSet(seen) /\ Cardinality(seen) \in Nat
      BY FS_CardinalityType DEF IInv, CounterInv
    <2>2. /\ IsFiniteSet(seen')
          /\ Cardinality(seen') = IF ext \in seen THEN Cardinality(seen) ELSE Cardinality(seen) + 1
      BY <1>2, <2>1, FS_AddElement
    <2>8. /\ IsFiniteSet(arrived')
          /\ Cardinality(seen') = Cardinality(arrived')
      <3>1. IsFiniteSet(arrived) /\ Cardinality(seen) = Cardinality(arrived)
        BY DEF IInv, CounterInv
      <3>2. /\ IsFiniteSet(arrived')
            /\ Cardinality(arrived') = IF t \in arrived THEN Cardinality(arrived) ELSE Cardinality(arrived) + 1
        BY <1>2, <3>1, FS_AddElement
      <3> QED
        BY <1>9, <2>2, <3>1, <3>2
    <2>3. seen = {} => highest = None
      <3>1. newest # None => arrived # {}
        BY DEF IInv, TruthInv
      <3>2. seen = {} => arrived = {}
        BY DEF IInv, UnwrapFaithful
      <3> QED
        BY <3>1, <3>2 DEF IInv, UnwrapFaithful
    <2>4. /\ duplicates \in Nat /\ ooo \in Nat /\ arrivals \in Nat
          /\ arrivals = Cardinality(seen) + duplicates
          /\ seen # {} => ooo < Cardinality(seen)
          /\ seen = {} => ooo = 0
      BY DEF IInv, CounterInv
    <2>5. duplicates' \in Nat /\ ooo' \in Nat /\ arrivals' \in Nat /\ arrivals' <= MaxArrivals
      BY <1>0, <1>2, <2>4
    <2>6. arrivals' = Cardinality(seen') + duplicates'
      BY <1>2, <2>1, <2>2, <2>4
    <2>7. seen' # {} /\ ooo' < Cardinality(seen')
      <3>1. seen' # {}
        BY <1>2
      <3>2. CASE seen = {}
        BY <1>2, <2>1, <2>2, <2>3, <2>4, <3>2
      <3>3. CASE seen # {}
        BY <1>2, <2>1, <2>2, <2>4, <3>3
      <3> QED
        BY <3>1, <3>2, <3>3
    <2> QED
      BY <1>11, <2>2, <2>5, <2>6, <2>7, <2>8 DEF CounterInv
  <1> QED
    BY <1>8, <1>10, <1>12 DEF IInv

\* A step that changes nothing keeps the invariant.
LEMMA StutterInv == IInv /\ UNCHANGED vars => IInv'
  BY DEF IInv, TruthInv, UnwrapFaithful, CounterInv, vars, codeVars, truthVars

\* The inductive invariant holds in every reachable state of RtpStats and the sender: what the
\* counters hold is a function of the sender's own numbers.
THEOREM Invariance == Spec => []IInv
  <1>1. Init => IInv
    BY InitInv
  <1>2. IInv /\ [Next]_vars => IInv'
    BY ArriveInv, StutterInv DEF Next
  <1> QED
    BY <1>1, <1>2, PTL DEF Spec

-----------------------------------------------------------------------------
(* The properties the runs check.                                          *)

\* Types and ranges: the counters are bounded by the capture, the unwrapped
\* numbers by the range the sender used (analyze_rtp, rtp.py).
THEOREM TypeCorrect == Spec => []TypeOK
  <1>1. IInv => TypeOK
    <2> SUFFICES ASSUME IInv PROVE TypeOK
      OBVIOUS
    <2>0. MaxArrivals \in Nat /\ MaxIndex \in Nat /\ Window \in Nat
      BY SequenceAssumption
    <2>1. seen \subseteq (-Window)..MaxIndex
      <3> SUFFICES ASSUME NEW e \in seen PROVE e \in (-Window)..MaxIndex
        OBVIOUS
      <3>1. PICK t \in arrived : e = t - origin
        BY DEF IInv, UnwrapFaithful
      <3>2. t \in Nat /\ t <= MaxIndex /\ origin \in 0..MaxIndex /\ origin - Window <= t
        BY TruthNat DEF IInv, TruthInv
      <3> QED
        BY <2>0, <3>1, <3>2
    <2>2. highest \in seen \cup {None}
      BY DEF IInv, UnwrapFaithful, TruthInv
    <2>3. Cardinality(seen) \in Nat
      BY FS_CardinalityType DEF IInv, CounterInv
    <2>4. /\ duplicates \in 0..MaxArrivals /\ ooo \in 0..MaxArrivals
          /\ arrivals \in 0..MaxArrivals /\ late \in 0..MaxArrivals
      BY <2>0, <2>3 DEF IInv, CounterInv
    <2> QED
      BY <2>1, <2>2, <2>4 DEF TypeOK, IInv, TruthInv
  <1> QED
    BY <1>1, Invariance, PTL

\* No rollover, however the packets around it are reordered, sends a packet
\* to the wrong cycle (_unwrap16, rtp.py).
THEOREM UnwrapIsFaithful == Spec => []UnwrapFaithful
  <1>1. IInv => UnwrapFaithful
    BY DEF IInv
  <1> QED
    BY <1>1, Invariance, PTL

\* Unique packets and duplicates add up to the packets of the stream, and the
\* reordered ones are fewer than the unique ones (analyze_rtp, rtp.py).
THEOREM PacketsCounted == Spec => []EveryPacketCounted
  <1>1. IInv => EveryPacketCounted
    BY DEF IInv, CounterInv, EveryPacketCounted
  <1> QED
    BY <1>1, Invariance, PTL

\* A maximum and a minimum that are known are what Max and Min choose.
LEMMA MaxMin ==
    ASSUME NEW S \in SUBSET Int, NEW hi \in S, NEW lo \in S,
           \A x \in S : lo <= x /\ x <= hi
    PROVE  Max(S) = hi /\ Min(S) = lo
  <1>1. \A x, y \in S : x <= y /\ y <= x => x = y
    OBVIOUS
  <1>2. Max(S) \in S /\ \A y \in S : Max(S) >= y
    BY DEF Max
  <1>3. Min(S) \in S /\ \A y \in S : Min(S) <= y
    BY DEF Min
  <1> QED
    BY <1>1, <1>2, <1>3

\* Once a packet arrived: which numbers the loss is counted between.
LEMMA Span ==
    ASSUME IInv, newest # None
    PROVE  \E lo \in arrived :
              /\ lo \in Nat /\ newest \in Nat /\ newest \in arrived /\ origin \in Int
              /\ \A x \in arrived : x \in Nat /\ lo <= x /\ x <= newest
              /\ seen = {t - origin : t \in arrived}
              /\ Expected(seen) = newest - lo + 1
              /\ Missing = (lo..newest) \ arrived
  <1>0. MaxIndex \in Nat
    BY SequenceAssumption
  <1>1. PICK lo \in arrived : \A x \in arrived : lo <= x
    BY DEF IInv, TruthInv
  <1>2. /\ lo \in Nat /\ newest \in Nat /\ newest \in arrived /\ origin \in Int
        /\ \A x \in arrived : x \in Nat /\ x <= MaxIndex /\ lo <= x /\ x <= newest
    BY <1>1, TruthNat DEF IInv, TruthInv
  <1>3. seen = {t - origin : t \in arrived}
    BY DEF IInv, UnwrapFaithful
  <1>4. Max(seen) = newest - origin /\ Min(seen) = lo - origin
    <2>1. seen \in SUBSET Int /\ newest - origin \in seen /\ lo - origin \in seen
      BY <1>1, <1>2, <1>3
    <2>2. \A e \in seen : lo - origin <= e /\ e <= newest - origin
      BY <1>2, <1>3
    <2> QED
      BY <2>1, <2>2, MaxMin
  <1>5. Expected(seen) = newest - lo + 1
    <2>1. seen # {}
      BY <1>1, <1>3
    <2> QED
      BY <1>2, <1>4, <2>1 DEF Expected
  <1>6. Missing = (lo..newest) \ arrived
    BY <1>0, <1>1, <1>2 DEF Missing
  <1> QED
    BY <1>1, <1>2, <1>3, <1>5, <1>6

\* The reported loss is the number of packets between the first and the last
\* captured that never reached the sensor (expected - unique, analyze_rtp).
THEOREM LossIsExact == Spec => []LossExact
  <1>1. IInv => LossExact
    <2> SUFFICES ASSUME IInv PROVE LossExact
      OBVIOUS
    <2>1. CASE newest = None
      <3>1. seen = {} /\ arrived = {}
        BY <2>1 DEF IInv, TruthInv, UnwrapFaithful
      <3>2. Missing = {}
        BY <3>1 DEF Missing
      <3> QED
        BY <3>1, <3>2, FS_EmptySet DEF LossExact, Lost, Expected
    <2>2. CASE newest # None
      <3>1. PICK lo \in arrived : /\ lo \in Nat /\ newest \in Nat
                                  /\ \A x \in arrived : x \in Nat /\ lo <= x /\ x <= newest
                                  /\ Expected(seen) = newest - lo + 1
                                  /\ Missing = (lo..newest) \ arrived
        BY <2>2, Span
      <3>2. IsFiniteSet(lo..newest) /\ Cardinality(lo..newest) = newest - lo + 1
        BY <3>1, FS_Interval
      <3>3. ((lo..newest) \cap arrived) = arrived
        <4>1. \A x \in arrived : x \in lo..newest
          BY <3>1
        <4> QED
          BY <4>1
      <3>4. Cardinality(Missing) = (newest - lo + 1) - Cardinality(arrived) /\ IsFiniteSet(Missing)
        <4>1. /\ IsFiniteSet((lo..newest) \ arrived)
              /\ Cardinality((lo..newest) \ arrived)
                    = Cardinality(lo..newest) - Cardinality((lo..newest) \cap arrived)
          BY <3>2, FS_Difference
        <4> QED
          BY <3>1, <3>2, <3>3, <4>1
      <3>5. Cardinality(arrived) = Cardinality(seen)
        BY DEF IInv, CounterInv
      <3>6. Cardinality(Missing) \in Nat /\ Cardinality(arrived) \in Nat
        BY <3>4, FS_CardinalityType DEF IInv, CounterInv
      <3> QED
        BY <3>1, <3>4, <3>5, <3>6 DEF LossExact, Lost
    <2> QED
      BY <2>1, <2>2
  <1> QED
    BY <1>1, Invariance, PTL

-----------------------------------------------------------------------------
(* Bursts of loss.                                                         *)

\* The numbers of a set that follow one outside it.
Starts(G) == {t \in G : t - 1 \notin G}
NoBurst == [run |-> 0, lost |-> 0, number |-> 0]
AfterNumber(acc, present) == IF present THEN Closed(acc) ELSE [acc EXCEPT !.run = @ + 1]

\* The loop over the range defines it: there is one function that unfolds so.
LEMMA BurstsUnfold ==
    ASSUME NEW S, Expected(S) \in Nat
    PROVE  \E upTo : /\ upTo[0] = NoBurst
                     /\ \A n \in 1..Expected(S) : upTo[n] = AfterNumber(upTo[n - 1], Min(S) + n - 1 \in S)
                     /\ Bursts(S) = Closed(upTo[Expected(S)])
  <1> DEFINE Turn(acc, n) == IF Min(S) + n - 1 \in S THEN Closed(acc) ELSE [acc EXCEPT !.run = @ + 1]
             Unfolds(f, m) == f = [n \in 0..m |-> IF n = 0 THEN NoBurst ELSE Turn(f[n - 1], n)]
             T == {m \in Nat : \E f : Unfolds(f, m)}
  <1>0. PICK last \in Nat : last = Expected(S)
    OBVIOUS
  <1> DEFINE chosen == CHOOSE f : Unfolds(f, last)
  <1>1. Bursts(S) = Closed(chosen[last])
    BY <1>0 DEF Bursts, NoBurst
  <1>2. \A acc, n : Turn(acc, n) = AfterNumber(acc, Min(S) + n - 1 \in S)
    BY DEF AfterNumber
  <1> HIDE DEF Turn
  <1>3. 0 \in T
    <2>1. Unfolds([n \in 0..0 |-> NoBurst], 0)
      OBVIOUS
    <2> QED BY <2>1
  <1>4. ASSUME NEW m \in Nat, m \in T PROVE m + 1 \in T
    <2>1. PICK f : Unfolds(f, m)
      BY <1>4
    <2> DEFINE g == [n \in 0..(m + 1) |-> IF n <= m THEN f[n] ELSE Turn(f[n - 1], n)]
    <2>2. ASSUME NEW n \in 0..(m + 1)
          PROVE  g[n] = IF n = 0 THEN NoBurst ELSE Turn(g[n - 1], n)
      <3>1. CASE n = 0
        <4>1. n \in 0..m /\ g[n] = f[n]
          BY <3>1
        <4> QED BY <2>1, <3>1, <4>1
      <3>2. CASE n # 0 /\ n <= m
        <4>1. n \in 0..m /\ n - 1 \in 0..(m + 1) /\ n - 1 <= m
          BY <3>2
        <4>2. g[n] = f[n] /\ g[n - 1] = f[n - 1]
          BY <4>1
        <4> QED BY <2>1, <3>2, <4>1, <4>2
      <3>3. CASE n = m + 1
        <4>1. n - 1 \in 0..(m + 1) /\ n - 1 <= m /\ ~(n <= m) /\ n # 0
          BY <3>3
        <4>2. g[n - 1] = f[n - 1]
          BY <4>1
        <4>3. g[n] = Turn(f[n - 1], n)
          BY <4>1
        <4> QED BY <4>1, <4>2, <4>3
      <3> QED BY <3>1, <3>2, <3>3
    <2> HIDE DEF g
    <2>3. g = [n \in 0..(m + 1) |-> g[n]]
      BY DEF g
    <2>4. Unfolds(g, m + 1)
      BY <2>2, <2>3
    <2> QED BY <2>4
  <1>5. last \in T
    <2> HIDE DEF T
    <2>1. Nat \subseteq T
      BY <1>3, <1>4, NatSetInduction
    <2> QED BY <2>1
  <1>6. Unfolds(chosen, last)
    BY <1>5
  <1>7. PICK f : f = chosen
    OBVIOUS
  <1> HIDE DEF chosen
  <1>8. f[0] = NoBurst
    <2>1. 0 \in 0..last
      OBVIOUS
    <2> QED BY <1>6, <1>7, <2>1
  <1>9. \A n \in 1..last : f[n] = Turn(f[n - 1], n)
    BY <1>6, <1>7
  <1> QED BY <1>0, <1>1, <1>2, <1>7, <1>8, <1>9

\* What the loop knows of the gaps so far: the bursts that ended and, if it is in one,
\* the length of the burst.
Knows(acc, open, gaps) ==
    /\ acc \in [run : Nat, lost : Nat, number : Nat]
    /\ acc.run > 0 <=> open
    /\ acc.lost + acc.run = Cardinality(gaps)
    /\ acc.number + (IF acc.run > 0 THEN 1 ELSE 0) = Cardinality(Starts(gaps))

\* A number that is there ends a burst.
LEMMA ClosedKnows ==
    ASSUME NEW acc, NEW open, NEW gaps, Knows(acc, open, gaps)
    PROVE  Knows(Closed(acc), FALSE, gaps)
  <1>0. PICK all, starts : all = Cardinality(gaps) /\ starts = Cardinality(Starts(gaps))
    OBVIOUS
  <1>1. PICK run \in Nat, lost \in Nat, number \in Nat :
            /\ acc = [run |-> run, lost |-> lost, number |-> number]
            /\ lost + run = all
            /\ number + (IF run > 0 THEN 1 ELSE 0) = starts
    BY <1>0 DEF Knows
  <1>2. Closed(acc) = [run |-> 0, lost |-> all, number |-> starts] /\ all \in Nat /\ starts \in Nat
    <2>1. CASE run > 0
      BY <1>1, <2>1 DEF Closed
    <2>2. CASE run = 0
      <3>1. ~(run > 0) /\ all = lost /\ starts = number
        BY <1>1, <2>2
      <3> QED BY <1>1, <2>2, <3>1 DEF Closed
    <2> QED BY <2>1, <2>2
  <1>3. ~(0 > 0) /\ all + 0 = all /\ starts + (IF 0 > 0 THEN 1 ELSE 0) = starts
    BY <1>2
  <1> QED BY <1>0, <1>2, <1>3 DEF Knows

\* One that is not prolongs it or starts another.
LEMMA GapKnows ==
    ASSUME NEW acc, NEW gaps, NEW s \in Int, Knows(acc, s - 1 \in gaps, gaps),
           gaps \subseteq Int, \A g \in gaps : g < s,
           IsFiniteSet(gaps), IsFiniteSet(Starts(gaps))
    PROVE  Knows([acc EXCEPT !.run = @ + 1], TRUE, gaps \cup {s})
  <1>1. PICK run \in Nat, lost \in Nat, number \in Nat :
            /\ acc = [run |-> run, lost |-> lost, number |-> number]
            /\ run > 0 <=> s - 1 \in gaps
            /\ lost + run = Cardinality(gaps)
            /\ number + (IF run > 0 THEN 1 ELSE 0) = Cardinality(Starts(gaps))
    BY DEF Knows
  <1>2. s \notin gaps /\ s \notin Starts(gaps)
    BY DEF Starts
  <1>3. Cardinality(gaps \cup {s}) = Cardinality(gaps) + 1
    BY <1>2, FS_AddElement
  <1>4. [acc EXCEPT !.run = @ + 1] = [run |-> run + 1, lost |-> lost, number |-> number]
    BY <1>1
  <1>5. \A g \in gaps : g - 1 \in gaps \cup {s} <=> g - 1 \in gaps
    OBVIOUS
  <1>6. s - 1 \in gaps \cup {s} <=> run > 0
    BY <1>1
  <1>7. number + 1 = Cardinality(Starts(gaps \cup {s}))
    <2>1. CASE run > 0
      <3>1. Starts(gaps \cup {s}) = Starts(gaps)
        BY <1>5, <1>6, <2>1 DEF Starts
      <3> QED BY <1>1, <2>1, <3>1
    <2>2. CASE ~(run > 0)
      <3>1. Starts(gaps \cup {s}) = Starts(gaps) \cup {s}
        BY <1>5, <1>6, <2>2 DEF Starts
      <3>2. Cardinality(Starts(gaps) \cup {s}) = Cardinality(Starts(gaps)) + 1
        BY <1>2, FS_AddElement
      <3>3. number + 0 = Cardinality(Starts(gaps))
        BY <1>1, <2>2
      <3> QED BY <3>1, <3>2, <3>3
    <2> QED BY <2>1, <2>2
  <1>8. run + 1 \in Nat /\ run + 1 > 0 /\ lost + (run + 1) = Cardinality(gaps \cup {s})
    BY <1>1, <1>3
  <1> QED BY <1>4, <1>7, <1>8 DEF Knows

\* The bursts of a set of numbers are the maximal runs of those it leaves out.
LEMMA BurstsAre ==
    ASSUME NEW S \in SUBSET Int, NEW lo \in S, NEW hi \in S, \A x \in S : lo <= x /\ x <= hi
    PROVE  /\ Bursts(S).lost = Cardinality((lo..hi) \ S)
           /\ Bursts(S).number = Cardinality(Starts((lo..hi) \ S))
  <1> DEFINE Gaps(n) == (lo..(lo + n - 1)) \ S
             Open(n) == n > 0 /\ lo + n - 1 \notin S
  <1>1. lo \in Int /\ hi \in Int /\ lo <= hi
    OBVIOUS
  <1>2. Min(S) = lo /\ Expected(S) = hi - lo + 1
    BY <1>1, MaxMin DEF Expected
  <1>3. PICK last \in Nat : last = Expected(S) /\ last = hi - lo + 1 /\ last > 0
    BY <1>1, <1>2
  <1>4. PICK upTo : /\ upTo[0] = NoBurst
                    /\ \A n \in 1..last : upTo[n] = AfterNumber(upTo[n - 1], lo + n - 1 \in S)
                    /\ Bursts(S) = Closed(upTo[last])
    BY <1>2, <1>3, BurstsUnfold
  <1> DEFINE T == {n \in Nat : n <= last => Knows(upTo[n], Open(n), Gaps(n))}
  <1>5. 0 \in T
    <2>1. Gaps(0) = {} /\ Starts({}) = {} /\ ~Open(0)
      BY <1>1 DEF Starts
    <2>2. Cardinality({}) = 0
      BY FS_EmptySet
    <2>3. Knows(NoBurst, FALSE, {})
      <3>1. 0 + 0 = Cardinality({}) /\ 0 + (IF 0 > 0 THEN 1 ELSE 0) = Cardinality(Starts({}))
        BY <2>1, <2>2
      <3> QED BY <3>1 DEF Knows, NoBurst
    <2> QED BY <1>4, <2>1, <2>3
  <1>6. ASSUME NEW n \in Nat, n \in T PROVE n + 1 \in T
    <2> SUFFICES ASSUME n + 1 <= last PROVE Knows(upTo[n + 1], Open(n + 1), Gaps(n + 1))
      OBVIOUS
    <2>1. Knows(upTo[n], Open(n), Gaps(n))
      BY <1>6
    <2>2. PICK s \in Int : s = lo + n /\ s = lo + (n + 1) - 1 /\ s - 1 = lo + n - 1
      BY <1>1
    <2>3. n + 1 \in 1..last /\ (n + 1) - 1 = n
      OBVIOUS
    <2>4. upTo[n + 1] = AfterNumber(upTo[n], s \in S)
      BY <1>4, <2>2, <2>3
    <2>5. Gaps(n) \subseteq Int /\ (\A g \in Gaps(n) : g < s) /\ Gaps(n + 1) = IF s \in S THEN Gaps(n) ELSE Gaps(n) \cup {s}
      BY <1>1, <2>2
    <2>6. s - 1 \in Gaps(n) <=> Open(n)
      BY <1>1, <2>2
    <2>7. Open(n + 1) <=> s \notin S
      BY <2>2
    <2>8. IsFiniteSet(Gaps(n)) /\ IsFiniteSet(Starts(Gaps(n)))
      <3>1. IsFiniteSet(lo..(lo + n - 1))
        BY <1>1, FS_Interval
      <3>2. Gaps(n) \subseteq lo..(lo + n - 1) /\ Starts(Gaps(n)) \subseteq Gaps(n)
        BY DEF Starts
      <3> HIDE DEF Gaps
      <3> QED BY <3>1, <3>2, FS_Subset
    <2> HIDE DEF Gaps, Open
    <2>9. CASE s \in S
      <3>1. Knows(Closed(upTo[n]), FALSE, Gaps(n))
        BY <2>1, ClosedKnows
      <3>2. upTo[n + 1] = Closed(upTo[n]) /\ Gaps(n + 1) = Gaps(n) /\ Open(n + 1) = FALSE
        BY <2>4, <2>5, <2>7, <2>9 DEF AfterNumber, Open
      <3> QED BY ONLY <3>1, <3>2, Zenon
    <2>10. CASE s \notin S
      <3>1. Knows([upTo[n] EXCEPT !.run = @ + 1], TRUE, Gaps(n) \cup {s})
        <4>1. Knows(upTo[n], s - 1 \in Gaps(n), Gaps(n))
          BY <2>1, <2>6 DEF Knows
        <4> QED BY <2>5, <2>8, <4>1, GapKnows
      <3> QED BY <2>4, <2>5, <2>7, <2>10, <3>1 DEF AfterNumber
    <2> QED BY <2>9, <2>10
  <1>7. Knows(upTo[last], Open(last), Gaps(last))
    <2>1. last \in T
      <3> HIDE DEF T
      <3>1. Nat \subseteq T
        BY <1>5, <1>6, NatSetInduction
      <3> QED BY <3>1
    <2> QED BY <2>1
  <1>8. Gaps(last) = (lo..hi) \ S
    BY <1>1, <1>3
  <1>9. Knows(Bursts(S), FALSE, (lo..hi) \ S)
    BY <1>4, <1>7, <1>8, ClosedKnows
  <1>10. /\ Bursts(S).run \in Nat /\ Bursts(S).lost \in Nat /\ Bursts(S).number \in Nat
         /\ ~(Bursts(S).run > 0)
         /\ Bursts(S).lost + Bursts(S).run = Cardinality((lo..hi) \ S)
         /\ Bursts(S).number + (IF Bursts(S).run > 0 THEN 1 ELSE 0) = Cardinality(Starts((lo..hi) \ S))
    BY <1>9 DEF Knows
  <1> QED BY <1>10

\* As many numbers as they are shifted.
LEMMA ShiftedCount ==
    ASSUME NEW G \in SUBSET Int, IsFiniteSet(G), NEW o \in Int
    PROVE  Cardinality({t - o : t \in G}) = Cardinality(G)
  <1> DEFINE T == {t - o : t \in G}
             f == [t \in G |-> t - o]
  <1>1. f \in [G -> T]
    OBVIOUS
  <1>2. \A x, y \in G : f[x] = f[y] => x = y
    BY DEF f
  <1>3. \A e \in T : \E t \in G : f[t] = e
    OBVIOUS
  <1> HIDE DEF f, T
  <1>4. f \in Bijection(G, T)
    BY <1>1, <1>2, <1>3 DEF Bijection, Injection, Surjection, IsInjective
  <1>5. ExistsBijection(G, T)
    BY <1>4 DEF ExistsBijection
  <1> QED BY <1>5, FS_Bijection DEF T

\* The loss bursts of the report are the maximal runs of packets that never reached
\* the sensor: they add up to the loss, and there is one where each begins
\* (_burst_ratio).
THEOREM BurstsPartitionTheLoss == Spec => []BurstsPartitionLoss
  <1>1. ASSUME IInv PROVE BurstsPartitionLoss
    <2>1. CASE newest = None
      <3>1. seen = {} /\ arrived = {}
        BY <1>1, <2>1 DEF IInv, TruthInv, UnwrapFaithful
      <3>2. Missing = {} /\ Expected(seen) = 0
        BY <3>1 DEF Missing, Expected
      <3>3. Bursts(seen) = Closed(NoBurst)
        BY <3>2, BurstsUnfold
      <3>4. Bursts(seen) = [run |-> 0, lost |-> 0, number |-> 0]
        BY <3>3 DEF Closed, NoBurst
      <3>5. {t \in Missing : t - 1 \notin Missing} = {} /\ Cardinality({}) = 0
        BY <3>2, FS_EmptySet
      <3>6. Lost(seen) = 0
        BY <3>1, <3>2, <3>5 DEF Lost
      <3> QED BY <3>4, <3>5, <3>6 DEF BurstsPartitionLoss
    <2>2. CASE newest # None
      <3>1. PICK lo \in arrived : /\ lo \in Nat /\ newest \in Nat /\ newest \in arrived /\ origin \in Int
                                  /\ \A x \in arrived : x \in Nat /\ lo <= x /\ x <= newest
                                  /\ seen = {t - origin : t \in arrived}
                                  /\ Expected(seen) = newest - lo + 1
                                  /\ Missing = (lo..newest) \ arrived
        BY <1>1, <2>2, Span
      <3>2. PICK a \in seen, b \in seen : a = lo - origin /\ b = newest - origin
        BY <3>1
      <3>3. seen \in SUBSET Int /\ \A x \in seen : a <= x /\ x <= b
        BY <3>1, <3>2
      <3>4. PICK gaps : gaps = (a..b) \ seen
        OBVIOUS
      <3>5. Bursts(seen).lost = Cardinality(gaps) /\ Bursts(seen).number = Cardinality(Starts(gaps))
        BY <3>3, <3>4, BurstsAre
      <3>6. Lost(seen) = Cardinality(gaps)
        <4>1. a \in Int /\ b \in Int /\ a <= b
          BY <3>1, <3>2
        <4>2. IsFiniteSet(a..b) /\ Cardinality(a..b) = b - a + 1
          BY <4>1, FS_Interval
        <4>3. (a..b) \cap seen = seen
          <5>1. \A x \in seen : x \in a..b
            BY <3>3
          <5> QED BY <5>1
        <4>4. Cardinality(gaps) = Cardinality(a..b) - Cardinality(seen) /\ IsFiniteSet(gaps)
          <5>1. /\ IsFiniteSet((a..b) \ seen)
                /\ Cardinality((a..b) \ seen) = Cardinality(a..b) - Cardinality((a..b) \cap seen)
            BY <4>2, FS_Difference
          <5> QED BY <3>4, <4>3, <5>1
        <4>5. Cardinality(gaps) \in Nat /\ Cardinality(seen) \in Nat
          BY <1>1, <4>4, FS_CardinalityType DEF IInv, CounterInv
        <4>6. Expected(seen) = b - a + 1
          BY <3>1, <3>2
        <4> QED BY <4>1, <4>2, <4>4, <4>5, <4>6 DEF Lost
      <3>7. Missing \in SUBSET Int /\ IsFiniteSet(Starts(Missing)) /\ Starts(Missing) \in SUBSET Int
        <4>1. IsFiniteSet(lo..newest)
          BY <3>1, FS_Interval
        <4>2. Starts(Missing) \subseteq lo..newest
          BY <3>1 DEF Starts
        <4>3. Missing \subseteq Int /\ Starts(Missing) \subseteq Int
          BY <3>1 DEF Starts
        <4> QED BY <4>1, <4>2, <4>3, FS_Subset
      <3>8. Starts(gaps) = {t - origin : t \in Starts(Missing)}
        <4>1. PICK o \in Int : o = origin
          BY <3>1
        <4>2. \A e \in Int : e \in gaps <=> e + o \in Missing
          <5> SUFFICES ASSUME NEW e \in Int PROVE e \in gaps <=> e + o \in Missing
            OBVIOUS
          <5>1. e \in seen <=> e + o \in arrived
            BY <3>1, <4>1
          <5>2. e \in a..b <=> e + o \in lo..newest
            BY <3>1, <3>2, <4>1
          <5> QED BY <3>1, <3>4, <5>1, <5>2
        <4>3. gaps \subseteq Int
          BY <3>1, <3>2, <3>4
        <4>4. ASSUME NEW e \in Int PROVE e \in Starts(gaps) <=> e + o \in Starts(Missing)
          <5>1. e - 1 \in Int /\ (e - 1) + o = (e + o) - 1
            OBVIOUS
          <5>2. (e \in gaps <=> e + o \in Missing) /\ (e - 1 \in gaps <=> (e + o) - 1 \in Missing)
            BY <4>2, <5>1
          <5> QED BY <5>2 DEF Starts
        <4>5. Starts(gaps) \subseteq Int
          BY <4>3 DEF Starts
        <4> QED BY <3>7, <4>1, <4>4, <4>5
      <3>9. Cardinality(Starts(gaps)) = Cardinality(Starts(Missing))
        BY <3>1, <3>7, <3>8, ShiftedCount
      <3> QED BY <3>5, <3>6, <3>9 DEF BurstsPartitionLoss, Starts
    <2> QED BY <2>1, <2>2
  <1> QED BY <1>1, Invariance, PTL

-----------------------------------------------------------------------------
(* Loss as the capture goes on.                                            *)

\* Once a packet arrived, the numbers lie between the least and the highest,
\* and are no more than fit there.
LEMMA Extent ==
    ASSUME IInv, newest # None
    PROVE  /\ seen # {} /\ seen \subseteq Int
           /\ highest \in Int /\ Max(seen) = highest /\ Min(seen) \in Int
           /\ Cardinality(seen) \in Nat
           /\ Cardinality(seen) <= highest - Min(seen) + 1
  <1>1. PICK lo \in arrived : \A x \in arrived : lo <= x
    BY DEF IInv, TruthInv
  <1>2. /\ lo \in Nat /\ newest \in Nat /\ newest \in arrived /\ origin \in Int
        /\ \A x \in arrived : x \in Nat /\ lo <= x /\ x <= newest
    BY <1>1, TruthNat DEF IInv, TruthInv
  <1>3. seen = {t - origin : t \in arrived} /\ highest = newest - origin
    BY DEF IInv, UnwrapFaithful
  <1>4. /\ seen \in SUBSET Int /\ highest \in seen /\ lo - origin \in seen
        /\ \A e \in seen : lo - origin <= e /\ e <= highest
    BY <1>2, <1>3
  <1>5. Max(seen) = highest /\ Min(seen) = lo - origin
    BY <1>4, MaxMin
  <1>6. /\ IsFiniteSet((lo - origin)..highest)
        /\ Cardinality((lo - origin)..highest) = highest - (lo - origin) + 1
    <2> DEFINE least == lo - origin
    <2>1. least \in Int /\ highest \in Int /\ least <= highest
      BY <1>4
    <2> HIDE DEF least
    <2>2. IsFiniteSet(least..highest) /\ Cardinality(least..highest) = highest - least + 1
      BY <2>1, FS_Interval
    <2> QED
      BY <2>2 DEF least
  <1>7. seen \subseteq (lo - origin)..highest
    BY <1>4
  <1>8. Cardinality(seen) <= Cardinality((lo - origin)..highest)
    BY <1>6, <1>7, FS_Subset
  <1>9. Cardinality(seen) \in Nat
    BY FS_CardinalityType DEF IInv, CounterInv
  <1> QED
    BY <1>4, <1>5, <1>6, <1>8, <1>9

\* A late packet, unless it precedes the first, takes back one lost packet, and
\* a duplicate none: the loss of a stream never grows by packets that come late
\* or twice (analyze_rtp, rtp.py).
THEOREM LateArrivalsHeal == Spec => LateArrivalHeals
  <1>1. ASSUME IInv, IInv', Next
        PROVE  /\ (ooo' > ooo /\ Min(seen') = Min(seen)) => Lost(seen') = Lost(seen) - 1
               /\ duplicates' > duplicates => Lost(seen') = Lost(seen)
    <2>1. PICK t \in 0..MaxIndex : Arrive(t)
      BY <1>1 DEF Next
    <2> DEFINE ext == Unwrap16(t % Modulus, highest)
    <2>2. /\ seen' = seen \cup {ext}
          /\ duplicates' = IF ext \in seen THEN duplicates + 1 ELSE duplicates
          /\ ooo' = IF ext \notin seen /\ highest # None /\ ext < highest THEN ooo + 1 ELSE ooo
          /\ highest' = IF highest = None \/ ext > highest THEN ext ELSE highest
          /\ newest' = IF newest = None \/ t > newest THEN t ELSE newest
      BY <2>1 DEF Arrive, Account, Witness
    <2> HIDE DEF ext
    <2>3. duplicates \in Nat /\ ooo \in Nat /\ IsFiniteSet(seen)
      BY <1>1 DEF IInv, CounterInv
    <2>4. duplicates' > duplicates => Lost(seen') = Lost(seen)
      <3> SUFFICES ASSUME duplicates' > duplicates PROVE Lost(seen') = Lost(seen)
        OBVIOUS
      <3>1. seen' = seen
        BY <2>2, <2>3
      <3> QED
        BY <3>1
    <2>5. ASSUME ooo' > ooo, Min(seen') = Min(seen)
          PROVE  Lost(seen') = Lost(seen) - 1
      <3>1. ext \notin seen /\ highest # None /\ ext < highest
        BY <2>2, <2>3, <2>5
      <3>2. newest # None
        BY <1>1, <3>1 DEF IInv, UnwrapFaithful
      <3>3. newest' # None
        BY <2>2, <3>2, SequenceAssumption
      <3>4. /\ seen # {} /\ highest \in Int /\ Max(seen) = highest /\ Min(seen) \in Int
            /\ Cardinality(seen) \in Nat
        BY <1>1, <3>2, Extent
      <3>5. seen' # {} /\ seen' \subseteq Int
            /\ Max(seen') = highest' /\ Cardinality(seen') <= highest' - Min(seen') + 1
        <4>1. (IInv /\ newest # None =>
                  /\ seen # {} /\ seen \subseteq Int /\ Max(seen) = highest
                  /\ Cardinality(seen) <= highest - Min(seen) + 1)'
          BY Extent, PTL
        <4> QED
          BY <1>1, <3>3, <4>1
      <3>6. highest' = highest
        <4>1. ext \in Int
          BY <2>2, <3>5
        <4> QED
          BY <2>2, <3>1, <3>4, <4>1
      <3>7. Cardinality(seen') = Cardinality(seen) + 1
        BY <2>2, <2>3, <3>1, FS_AddElement
      <3>8. Expected(seen) = highest - Min(seen) + 1 /\ Expected(seen') = highest - Min(seen) + 1
        BY <2>5, <3>4, <3>5, <3>6 DEF Expected
      <3>9. Expected(seen) - Cardinality(seen) > 0 /\ Expected(seen') - Cardinality(seen') >= 0
        BY <2>5, <3>4, <3>5, <3>6, <3>7, <3>8
      <3> QED
        BY <3>4, <3>7, <3>8, <3>9 DEF Lost
    <2> QED
      BY <2>4, <2>5
  <1> QED
    BY <1>1, Invariance, PTL DEF Spec, LateArrivalHeals

-----------------------------------------------------------------------------
(* Refinement.                                                             *)

\* Read through the origin, the code's numbers are the sender's.
LEMMA Mapping ==
    ASSUME IInv
    PROVE  /\ {e + origin : e \in seen} = arrived
           /\ (IF highest = None THEN None ELSE highest + origin) = newest
  <1>1. origin \in Int /\ \A t \in arrived : t \in Int
    BY TruthNat DEF IInv, TruthInv
  <1>2. seen = {t - origin : t \in arrived}
    BY DEF IInv, UnwrapFaithful
  <1>3. {e + origin : e \in seen} = arrived
    <2>1. \A t \in arrived : (t - origin) + origin = t
      BY <1>1
    <2> QED
      BY <1>2, <2>1
  <1>4. newest # None => newest \in Int /\ highest # None /\ highest = newest - origin
    BY TruthNat DEF IInv, UnwrapFaithful
  <1>5. newest = None => highest = None
    BY DEF IInv, UnwrapFaithful
  <1> QED
    BY <1>1, <1>3, <1>4, <1>5

\* The accounting done with 16-bit numbers is the ledger kept with the numbers
\* the sender used: every arrival is the new, the late or the duplicate packet
\* that it really is (the distinctions README.md lists under "Perda RTP").
THEOREM ImplementsLedger == Spec => LedgerSpec
  <1>1. Init => Ledger!Init
    BY DEF Init, Ledger!Init
  <1>2. ASSUME IInv, IInv', [Next]_vars
        PROVE  [Ledger!Next]_(Ledger!ledgerVars)
    <2>1. /\ {e + origin : e \in seen} = arrived
          /\ (IF highest = None THEN None ELSE highest + origin) = newest
      BY <1>2, Mapping
    <2>2. /\ {e + origin' : e \in seen'} = arrived'
          /\ (IF highest' = None THEN None ELSE highest' + origin') = newest'
      <3>1. IInv' => ({e + origin : e \in seen} = arrived)' /\ ((IF highest = None THEN None ELSE highest + origin) = newest)'
        BY Mapping, PTL
      <3> QED
        BY <1>2, <3>1
    <2>3. CASE UNCHANGED vars
      BY <2>3 DEF vars, codeVars, truthVars, Ledger!ledgerVars
    <2>4. ASSUME NEW t \in 0..MaxIndex, Arrive(t)
          PROVE  Ledger!Next
      <3>0. t \in Nat /\ None \notin Int
        BY SequenceAssumption
      <3>1. /\ arrived' = arrived \cup {t}
            /\ newest' = IF newest = None \/ t > newest THEN t ELSE newest
            /\ late' = IF t \notin arrived /\ newest # None /\ t < newest THEN late + 1 ELSE late
            /\ duplicates' = IF Unwrap16(t % Modulus, highest) \in seen THEN duplicates + 1 ELSE duplicates
        BY <2>4 DEF Arrive, Account, Witness
      <3>2. late = ooo /\ late' = ooo'
        BY <1>2 DEF IInv, CounterInv
      <3>3. Unwrap16(t % Modulus, highest) \in seen <=> t \in arrived
        <4>1. /\ Unwrap16(t % Modulus, highest) = t - origin'
              /\ newest # None => origin' = origin
              /\ origin' \in Int
          BY <1>2, <2>4, ArriveUnwraps
        <4>2. seen = {x - origin : x \in arrived}
          BY <1>2 DEF IInv, UnwrapFaithful
        <4>3. newest = None => arrived = {}
          BY <1>2 DEF IInv, TruthInv
        <4>4. \A x \in arrived : x \in Int
          BY <1>2, TruthNat DEF IInv
        <4> QED
          BY <3>0, <4>1, <4>2, <4>3, <4>4
      <3>4. newest # None => newest \in Nat /\ newest \in arrived /\ \A x \in arrived : x <= newest
        BY <1>2, TruthNat DEF IInv, TruthInv
      <3>5. CASE t \in arrived
        <4>1. arrived' = arrived /\ newest' = newest /\ ooo' = ooo /\ duplicates' = duplicates + 1
          <5>1. newest # None
            BY <1>2, <3>5 DEF IInv, TruthInv
          <5> QED
            BY <3>0, <3>1, <3>2, <3>3, <3>4, <3>5, <5>1
        <4>2. Ledger!Duplicate(t)
          BY <2>1, <2>2, <3>5, <4>1 DEF Ledger!Duplicate
        <4> QED
          BY <4>2 DEF Ledger!Next
      <3>6. CASE t \notin arrived /\ (newest = None \/ t > newest)
        <4>1. newest' = t /\ ooo' = ooo /\ duplicates' = duplicates
          BY <3>0, <3>1, <3>2, <3>3, <3>4, <3>6
        <4>2. Ledger!New(t)
          BY <2>1, <2>2, <3>1, <3>6, <4>1 DEF Ledger!New
        <4> QED
          BY <4>2 DEF Ledger!Next
      <3>7. CASE t \notin arrived /\ newest # None /\ t < newest
        <4>1. newest' = newest /\ ooo' = ooo + 1 /\ duplicates' = duplicates
          BY <3>0, <3>1, <3>2, <3>3, <3>4, <3>7
        <4>2. Ledger!Late(t)
          BY <2>1, <2>2, <3>1, <3>7, <4>1 DEF Ledger!Late
        <4> QED
          BY <4>2 DEF Ledger!Next
      <3>8. newest = None \/ t > newest \/ t < newest \/ t \in arrived
        BY <3>0, <3>4
      <3> QED
        BY <3>5, <3>6, <3>7, <3>8
    <2> QED
      BY <1>2, <2>3, <2>4 DEF Next
  <1> QED
    BY <1>1, <1>2, Invariance, PTL DEF Spec, LedgerSpec, Ledger!Spec

-----------------------------------------------------------------------------
(* RTCP: how long the way was.                                             *)
-----------------------------------------------------------------------------
(* Arithmetic of a clock that wraps.                                       *)

\* A reading of the clock is the time less whole turns of it.
LEMMA Reading ==
    ASSUME NEW a \in Int, NEW m \in Nat, m > 0
    PROVE  \E q \in Int : a % m \in Int /\ m * q \in Int /\ a = m * q + (a % m)
  <1>1. a \div m \in Int /\ a % m \in Int /\ a = m * (a \div m) + (a % m)
    BY DivMod
  <1>2. m * (a \div m) \in Int
    BY <1>1, SMT
  <1> WITNESS a \div m \in Int
  <1> QED
    BY <1>1, <1>2, Zenon

\* Three readings of the clock, each taken in its own turn, differ by what the
\* true times differ by.
LEMMA DifferenceOfReadings ==
    ASSUME NEW a \in Int, NEW b \in Int, NEW c \in Int,
           a - b - c \in 0..(NtpModulus - 1)
    PROVE  ((a % NtpModulus) - (b % NtpModulus) - (c % NtpModulus)) % NtpModulus = a - b - c
  <1> DEFINE m == NtpModulus
  <1>0. m \in Nat /\ m > 0 /\ a - b - c \in 0..(m - 1)
    BY RtcpAssumption
  <1> HIDE DEF m
  <1>1. PICK qa \in Int : a % m \in Int /\ m * qa \in Int /\ a = m * qa + (a % m)
    BY <1>0, Reading
  <1>2. PICK qb \in Int : b % m \in Int /\ m * qb \in Int /\ b = m * qb + (b % m)
    BY <1>0, Reading
  <1>3. PICK qc \in Int : c % m \in Int /\ m * qc \in Int /\ c = m * qc + (c % m)
    BY <1>0, Reading
  <1> DEFINE ra == a % m
             rb == b % m
             rc == c % m
             h == ra - rb - rc
             k == qb + qc - qa
  <1>4. k \in Int /\ m * k = m * qb + m * qc - m * qa
    BY <1>0, SMT
  <1>5. ra \in Int /\ rb \in Int /\ rc \in Int /\ a = m * qa + ra /\ b = m * qb + rb /\ c = m * qc + rc
    BY <1>1, <1>2, <1>3, Zenon
  <1>6. h = ra - rb - rc
    OBVIOUS
  <1> HIDE DEF ra, rb, rc, h, k
  <1>7. h \in Int /\ h - m * k = a - b - c
    BY <1>1, <1>2, <1>3, <1>4, <1>5, <1>6
  <1>8. h % m = h - m * k
    BY <1>0, <1>4, <1>7, ModUnique
  <1> QED
    BY <1>7, <1>8, Zenon DEF m, h, ra, rb, rc

-----------------------------------------------------------------------------
(* The inductive invariant: a report quotes what was heard before it was    *)
(* sent, and is captured after that.                                        *)
Quotes == {q \in [sent : Nat, heard : Nat] : q.sent <= q.heard}

Reports ==
    {r \in [sr : Quotes \cup {None}, at : Nat, lost : Losses] : r.sr # None => r.sr.heard <= r.at}

Captured == {[block |-> Block(r), at |-> t, rr |-> r] : r \in Reports, t \in Nat}

RttInv ==
    /\ now \in Nat
    /\ senders \subseteq Nat /\ \A s \in senders : s <= now
    /\ quoted \in Quotes \cup {None} /\ (quoted # None => quoted.heard <= now)
    /\ receivers \subseteq Reports /\ \A r \in receivers : r.at <= now
    /\ reports \in Seq(Captured)
    /\ \A i \in DOMAIN reports : reports[i].rr \in Reports /\ reports[i].at \in Nat /\ reports[i].rr.at <= reports[i].at
    /\ \A i \in DOMAIN reports : reports[i].block = Block(reports[i].rr)

\* Nothing was reported yet.
LEMMA RttInitInv == RttInit => RttInv
  <1> SUFFICES ASSUME RttInit PROVE RttInv
    OBVIOUS
  <1>1. now \in Nat /\ senders = {} /\ quoted = None /\ receivers = {} /\ reports = <<>>
    BY RtcpAssumption DEF RttInit
  <1>2. reports \in Seq(Captured) /\ DOMAIN reports = {}
    BY <1>1
  <1> QED
    BY <1>1, <1>2 DEF RttInv

\* Time passes.
LEMMA TickInv == ASSUME RttInv, Tick PROVE RttInv'
  <1>1. /\ now \in Nat /\ now' = now + 1 /\ senders' = senders /\ quoted' = quoted
        /\ receivers' = receivers /\ reports' = reports
    BY DEF RttInv, Tick
  <1>2. now' \in Nat
    BY <1>1
  <1>3. \A s \in senders' : s <= now'
    BY <1>1 DEF RttInv
  <1>4. quoted' # None => quoted'.heard <= now'
    <2> SUFFICES ASSUME quoted # None PROVE quoted.heard <= now + 1
      BY <1>1
    <2>1. quoted \in Quotes /\ quoted.heard <= now
      BY DEF RttInv
    <2>2. quoted.heard \in Nat
      BY <2>1 DEF Quotes
    <2> QED
      BY <1>1, <2>1, <2>2
  <1>5. \A r \in receivers' : r.at <= now'
    <2> SUFFICES ASSUME NEW r \in receivers PROVE r.at <= now + 1
      BY <1>1
    <2>1. r \in Reports /\ r.at <= now
      BY DEF RttInv
    <2>2. r.at \in Nat
      BY <2>1 DEF Reports
    <2> QED
      BY <1>1, <2>1, <2>2
  <1> QED
    BY <1>1, <1>2, <1>3, <1>4, <1>5 DEF RttInv

\* The sender reports.
LEMMA SenderReportInv == ASSUME RttInv, SenderReport PROVE RttInv'
  <1>1. /\ now \in Nat /\ now' = now /\ senders' = senders \cup {now} /\ quoted' = quoted
        /\ receivers' = receivers /\ reports' = reports
    BY DEF RttInv, SenderReport
  <1>2. senders \subseteq Nat /\ \A s \in senders : s <= now
    BY DEF RttInv
  <1>3. senders' \subseteq Nat /\ \A s \in senders' : s <= now'
    BY ONLY <1>1, <1>2
  <1> QED
    BY <1>1, <1>3 DEF RttInv

\* The receiver hears a report.
LEMMA HearInv == ASSUME RttInv, Hear PROVE RttInv'
  <1>1. PICK s \in senders : quoted' = [sent |-> s, heard |-> now]
    BY DEF Hear
  <1>2. now' = now /\ senders' = senders /\ receivers' = receivers /\ reports' = reports
    BY DEF Hear
  <1>3. s \in Nat /\ now \in Nat /\ s <= now
    BY DEF RttInv
  <1>4. quoted' \in Quotes /\ quoted'.heard = now
    BY <1>1, <1>3 DEF Quotes
  <1> QED
    BY <1>2, <1>3, <1>4 DEF RttInv

\* The receiver answers, with LSR and DLSR.
LEMMA ReceiverReportInv == ASSUME RttInv, ReceiverReport PROVE RttInv'
  <1>1. PICK n \in Losses : receivers' = receivers \cup {[sr |-> quoted, at |-> now, lost |-> n]}
    BY DEF ReceiverReport
  <1>2. now' = now /\ senders' = senders /\ quoted' = quoted /\ reports' = reports
    BY DEF ReceiverReport
  <1> DEFINE new == [sr |-> quoted, at |-> now, lost |-> n]
  <1>3. new \in Reports /\ new.at <= now
    BY DEF RttInv, Reports
  <1>4. receivers' \subseteq Reports /\ \A r \in receivers' : r.at <= now'
    <2> HIDE DEF new
    <2>1. receivers' = receivers \cup {new}
      BY <1>1 DEF new
    <2> QED
      BY <1>2, <1>3, <2>1 DEF RttInv
  <1> QED
    BY <1>2, <1>4 DEF RttInv

\* The capture sees one of the two.
LEMMA CaptureInv == ASSUME RttInv, Capture PROVE RttInv'
  <1>1. PICK rr \in receivers : reports' = Append(reports, [block |-> Block(rr), at |-> now, rr |-> rr])
    BY DEF Capture
  <1>2. now' = now /\ senders' = senders /\ quoted' = quoted /\ receivers' = receivers
    BY DEF Capture
  <1> DEFINE c == [block |-> Block(rr), at |-> now, rr |-> rr]
  <1>3. rr \in Reports /\ now \in Nat /\ rr.at <= now /\ reports \in Seq(Captured)
    BY DEF RttInv
  <1>4. c \in Captured /\ c.block = Block(c.rr) /\ c.at = now /\ c.rr = rr
    BY <1>3 DEF Captured
  <1> HIDE DEF c
  <1>5. reports' = Append(reports, c)
    BY <1>1 DEF c
  <1>6. /\ reports' \in Seq(Captured)
        /\ \A i \in DOMAIN reports' : (i \in DOMAIN reports /\ reports'[i] = reports[i]) \/ reports'[i] = c
    BY <1>3, <1>4, <1>5
  <1>7. \A i \in DOMAIN reports' : /\ reports'[i].rr \in Reports /\ reports'[i].at \in Nat
                                /\ reports'[i].rr.at <= reports'[i].at
    BY <1>3, <1>4, <1>6 DEF RttInv
  <1>8. \A i \in DOMAIN reports' : reports'[i].block = Block(reports'[i].rr)
    BY <1>4, <1>6 DEF RttInv
  <1> QED
    BY <1>2, <1>6, <1>7, <1>8 DEF RttInv

\* The inductive invariant of the RTCP reports holds in every reachable state: LSR
\* and DLSR are those of a report that the receiver heard.
THEOREM RttInvariance == RttSpec => []RttInv
  <1>1. RttInit => RttInv
    BY RttInitInv
  <1>2. RttInv /\ [RttNext]_rttVars => RttInv'
    <2> SUFFICES ASSUME RttInv, [RttNext]_rttVars PROVE RttInv'
      OBVIOUS
    <2>1. CASE UNCHANGED rttVars
      BY <2>1 DEF RttInv, rttVars
    <2> QED
      BY <2>1, TickInv, SenderReportInv, HearInv, ReceiverReportInv, CaptureInv DEF RttNext
  <1> QED
    BY <1>1, <1>2, PTL DEF RttSpec

-----------------------------------------------------------------------------
(* What is read from a block.                                              *)

\* The signed counter comes back from its two's complement.
LEMMA LossKeepsSign ==
    ASSUME NEW c, c.rr.lost \in Losses, c.block.lost = c.rr.lost % LossBits
    PROVE  SignedLoss(c) = c.rr.lost
  <1> DEFINE n == c.rr.lost
             l == c.block.lost
  <1>0. n \in Losses
    OBVIOUS
  <1>2. l = n % LossBits
    OBVIOUS
  <1>3. SignedLoss(c) = IF 2 * l >= LossBits THEN l - LossBits ELSE l
    BY DEF SignedLoss
  <1> HIDE DEF n, l
  <1>1. n \in Int /\ LossBits \in Nat /\ LossBits > 0 /\ 2 * n >= -LossBits /\ 2 * n < LossBits
    BY <1>0, RtcpAssumption
  <1>4. CASE n >= 0
    <2>1. LossBits * 0 = 0 /\ n - 0 \in 0..(LossBits - 1)
      BY <1>1, <1>4
    <2>2. l = n
      BY <1>1, <1>2, <2>1, ModUnique
    <2> QED
      BY <1>1, <1>3, <2>2 DEF n
  <1>5. CASE n < 0
    <2>1. LossBits * (-1) = -LossBits /\ n - (-LossBits) \in 0..(LossBits - 1)
      BY <1>1, <1>5
    <2>2. l = n + LossBits
      BY <1>1, <1>2, <2>1, ModUnique
    <2>3. SignedLoss(c) = n
      BY <1>1, <1>3, <2>2
    <2> QED
      BY <2>3 DEF n
  <1> QED
    BY <1>1, <1>4, <1>5

\* A block that quotes a sender report gives the way of the two packets, when
\* that is less than a turn of the clock.
LEMMA DifferenceIsPath ==
    ASSUME NEW c, c.rr \in Reports, c.at \in Nat, c.rr.at <= c.at,
           c.block = Block(c.rr), c.rr.sr # None
    PROVE  /\ Path(c) \in Nat
           /\ Path(c) < NtpModulus => Difference(c) = Path(c)
  <1> DEFINE sent == c.rr.sr.sent
             heard == c.rr.sr.heard
             back == c.rr.at
             at == c.at
  <1>1. sent \in Nat /\ heard \in Nat /\ back \in Nat /\ sent <= heard /\ heard <= back
    BY DEF Reports, Quotes
  <1>2. at \in Nat /\ back <= at /\ NtpModulus \in Nat /\ NtpModulus > 0
    BY RtcpAssumption
  <1>3. c.block.lsr = sent % NtpModulus /\ c.block.dlsr = (back - heard) % NtpModulus
    BY DEF Block, Middle32
  <1>4. Path(c) = (heard - sent) + (at - back)
    BY DEF Path
  <1>5. Difference(c) = ((at % NtpModulus) - c.block.lsr - c.block.dlsr) % NtpModulus
    BY Zenon DEF Difference, Middle32
  <1> HIDE DEF sent, heard, back, at
  <1>6. Path(c) \in Nat /\ Path(c) = at - sent - (back - heard)
    BY <1>1, <1>2, <1>4
  <1>7. ASSUME Path(c) < NtpModulus
        PROVE  Difference(c) = Path(c)
    <2>1. at \in Int /\ sent \in Int /\ back - heard \in Int /\ at - sent - (back - heard) \in 0..(NtpModulus - 1)
      BY <1>1, <1>2, <1>6, <1>7
    <2> DEFINE waited == back - heard
    <2>2. waited \in Int /\ at - sent - waited \in 0..(NtpModulus - 1)
      BY <2>1
    <2>3. c.block.dlsr = waited % NtpModulus
      BY <1>3, Zenon
    <2> HIDE DEF waited
    <2>4. ((at % NtpModulus) - (sent % NtpModulus) - (waited % NtpModulus)) % NtpModulus = at - sent - waited
      BY <2>1, <2>2, DifferenceOfReadings, Zenon
    <2>5. Difference(c) = at - sent - waited
      BY <1>3, <1>5, <2>3, <2>4, Zenon
    <2> QED
      BY <1>6, <2>5, Zenon DEF waited
  <1> QED
    BY <1>6, <1>7

-----------------------------------------------------------------------------
(* Every report of a loss is the peer's with its sign, and every round trip *)
(* is the way of the two packets, or is left out for one of its reasons.    *)
THEOREM ReportsAreFaithful == RttSpec => []ReportsFaithful
  <1>1. RttInv => ReportsFaithful
    <2> SUFFICES ASSUME RttInv PROVE ReportsFaithful
      OBVIOUS
    <2>1. reports # <<>> => LastLost = reports[Len(reports)].rr.lost
      <3> SUFFICES ASSUME reports # <<>> PROVE LastLost = reports[Len(reports)].rr.lost
        OBVIOUS
      <3> DEFINE c == reports[Len(reports)]
      <3>1. Len(reports) \in DOMAIN reports
        BY DEF RttInv
      <3>2. c.rr \in Reports /\ c.block = Block(c.rr)
        BY <3>1 DEF RttInv
      <3>3. LastLost = SignedLoss(c)
        BY DEF LastLost
      <3> HIDE DEF c
      <3>4. c.rr.lost \in Losses /\ c.block.lost = c.rr.lost % LossBits
        BY <3>2 DEF Reports, Block
      <3>5. SignedLoss(c) = c.rr.lost
        BY <3>4, LossKeepsSign
      <3> QED
        BY <3>3, <3>5 DEF c
    <2>2. ASSUME NEW i \in DOMAIN reports
          PROVE  IF Rtt(reports[i]) # None
                 THEN reports[i].rr.sr # None /\ (Path(reports[i]) < NtpModulus => Rtt(reports[i]) = Path(reports[i]))
                 ELSE \/ reports[i].rr.sr = None
                      \/ (reports[i].rr.at - reports[i].rr.sr.heard) % NtpModulus = 0
                      \/ reports[i].rr.sr.sent % NtpModulus = 0
                      \/ Path(reports[i]) > Horizon
      <3> DEFINE c == reports[i]
      <3>1. c.rr \in Reports /\ c.at \in Nat /\ c.rr.at <= c.at /\ c.block = Block(c.rr)
        BY DEF RttInv
      <3> HIDE DEF c
      <3>2. CASE c.rr.sr = None
        <4>1. c.block.lsr = 0
          BY <3>1, <3>2 DEF Block
        <4>2. Rtt(c) = None
          BY <4>1 DEF Rtt
        <4> QED
          BY <3>2, <4>2 DEF c
      <3>3. CASE c.rr.sr # None
        <4>1. Path(c) \in Nat /\ (Path(c) < NtpModulus => Difference(c) = Path(c))
          BY <3>1, <3>3, DifferenceIsPath
        <4>2. c.block.lsr = c.rr.sr.sent % NtpModulus /\ c.block.dlsr = (c.rr.at - c.rr.sr.heard) % NtpModulus
          BY <3>1, <3>3 DEF Block, Middle32
        <4>3. CASE Rtt(c) # None
          <5>1. Rtt(c) = Difference(c)
            BY <4>3 DEF Rtt
          <5> QED
            BY <3>3, <4>1, <4>3, <5>1 DEF c
        <4>4. CASE Rtt(c) = None
          <5>1. CASE c.block.lsr = 0 \/ c.block.dlsr = 0
            BY <4>2, <4>4, <5>1 DEF c
          <5>2. CASE c.block.lsr # 0 /\ c.block.dlsr # 0 /\ Path(c) <= Horizon
            <6>1. Horizon \in Nat /\ Horizon < NtpModulus /\ NtpModulus \in Nat /\ None \notin Int
              BY RtcpAssumption
            <6>2. Difference(c) = Path(c) /\ Difference(c) \in 0..Horizon
              BY <4>1, <5>2, <6>1
            <6>3. Rtt(c) = Path(c)
              BY <5>2, <6>2 DEF Rtt
            <6> QED
              BY <4>1, <4>4, <6>1, <6>3
          <5>3. CASE ~(Path(c) <= Horizon)
            <6>1. Path(c) > Horizon
              BY <4>1, <5>3, RtcpAssumption
            <6> QED
              BY <4>4, <6>1 DEF c
          <5> QED
            BY <5>1, <5>2, <5>3
        <4> QED
          BY <4>3, <4>4
      <3> QED
        BY <3>2, <3>3
    <2> QED
      BY <2>1, <2>2 DEF ReportsFaithful
  <1> QED
    BY <1>1, RttInvariance, PTL


-----------------------------------------------------------------------------
(* Jitter.                                                                 *)
-----------------------------------------------------------------------------
\* Two readings of the timestamp clock differ, read as a signed number, by what
\* the true times differ by, when that is at most half of the clock.
LEMMA SignedDifference ==
    ASSUME NEW a \in Int, NEW b \in Int, 2 * (a - b) <= TsModulus, 2 * (b - a) <= TsModulus
    PROVE  Size(Signed((a % TsModulus) - (b % TsModulus))) = Size(a - b)
  <1> DEFINE m == TsModulus
  <1>0. m \in Nat /\ m > 0 /\ 2 * (a - b) <= m /\ 2 * (b - a) <= m
    BY JitterAssumption
  <1> HIDE DEF m
  <1>1. PICK qa \in Int : a % m \in Int /\ m * qa \in Int /\ a = m * qa + (a % m)
    BY <1>0, Reading
  <1>2. PICK qb \in Int : b % m \in Int /\ m * qb \in Int /\ b = m * qb + (b % m)
    BY <1>0, Reading
  <1>3. PICK ra \in 0..(m - 1), rb \in 0..(m - 1) : ra = a % m /\ rb = b % m
    BY <1>0, DivMod
  <1>4. PICK k \in Int : k = qa - qb /\ m * k = m * qa - m * qb /\ m * k \in Int
    <2>1. qa - qb \in Int /\ m * (qa - qb) = m * qa - m * qb
      BY <1>0, SMT
    <2> QED BY <1>1, <1>2, <2>1
  <1>5. PICK x \in Int, d \in Int : x = ra - rb /\ d = a - b /\ x = d - m * k
    BY <1>0, <1>1, <1>2, <1>3, <1>4
  <1>6. x < m /\ -m < x /\ 2 * d <= m /\ -m <= 2 * d
    BY <1>0, <1>3, <1>5
  <1>7. m * k < 2 * m /\ -(2 * m) < m * k
    BY <1>0, <1>4, <1>5, <1>6
  <1>8. k = -1 \/ k = 0 \/ k = 1
    BY <1>0, <1>7, SmallMultiple
  <1>9. m * k = -m \/ m * k = 0 \/ m * k = m
    BY <1>0, <1>8, SMT
  <1>10. x % m = IF x < 0 THEN x + m ELSE x
    <2>1. CASE x < 0
      <3>1. m * (-1) = -m /\ x - m * (-1) \in 0..(m - 1)
        BY <1>0, <1>6, <2>1
      <3>2. x % m = x - m * (-1)
        BY <1>0, <3>1, ModUnique
      <3> QED BY <1>0, <2>1, <3>1, <3>2
    <2>2. CASE ~(x < 0)
      <3>1. m * 0 = 0 /\ x - m * 0 \in 0..(m - 1)
        BY <1>0, <1>6, <2>2
      <3>2. x % m = x - m * 0
        BY <1>0, <3>1, ModUnique
      <3> QED BY <1>0, <2>2, <3>1, <3>2
    <2> QED BY <2>1, <2>2
  <1>11. PICK r \in Int : r = x % m /\ r = IF x < 0 THEN x + m ELSE x
    BY <1>0, <1>10
  <1>12. Signed(x) = IF 2 * r >= m THEN r - m ELSE r
    BY <1>11 DEF Signed, m
  <1>13. (IF 2 * r >= m THEN r - m ELSE r) = d \/ (IF 2 * r >= m THEN r - m ELSE r) = -d
    BY <1>0, <1>5, <1>6, <1>9, <1>11
  <1>14. Size(Signed(x)) = Size(d)
    BY <1>12, <1>13 DEF Size
  <1> QED BY <1>3, <1>5, <1>14 DEF m

\* What both computations remember of the last packet: its delay less the start
\* of the sender's clock, one of them within the clock.
JitterInv ==
    /\ first \in FirstTimestamps /\ jitter = rfcJitter
    /\ prevTransit = None => rfcTransit = None
    /\ prevTransit # None => \E d \in Delays : prevTransit = d - first /\ rfcTransit = (d - first) % TsModulus

\* The jitter of the code is the one of RFC 3550, whatever was lost, reordered or
\* repeated, in a stream that does not reach the end of the timestamp space.
THEOREM JitterIsPerRfc == NoWrap => (JitterSpec => []JitterPerRfc)
  <1> SUFFICES ASSUME NoWrap PROVE JitterSpec => []JitterPerRfc
    OBVIOUS
  <1>1. JitterInit => JitterInv
    BY DEF JitterInit, JitterInv
  <1>2. ASSUME JitterInv, NEW i \in 0..LastPacket, NEW delay \in Delays, ArriveAt(i, delay) PROVE JitterInv'
    <2>1. PICK steps \in Int : steps = i * Step /\ 0 <= steps /\ first + steps < TsModulus
      <3>1. i \in Int /\ i >= 0 /\ Step \in Int /\ Step >= 0
        BY JitterAssumption
      <3>2. i * Step \in Int /\ 0 <= i * Step
        BY <3>1, SMT
      <3> QED BY <1>2, <3>2 DEF NoWrap, JitterInv
    <2>2. PICK f \in Nat : f = first /\ TsModulus \in Nat /\ TsModulus > 0
      BY <1>2, JitterAssumption DEF JitterInv
    <2>3. (f + steps) % TsModulus = f + steps
      <3>1. TsModulus * 0 = 0 /\ (f + steps) - TsModulus * 0 \in 0..(TsModulus - 1) /\ f + steps \in Int
        BY <2>1, <2>2
      <3>2. (f + steps) % TsModulus = (f + steps) - TsModulus * 0
        BY <2>2, <3>1, ModUnique
      <3> QED BY <2>1, <2>2, <3>1, <3>2
    <2>4. PICK transit \in Int : transit = delay - f /\ transit = (steps + delay) - ((f + steps) % TsModulus)
      BY <2>1, <2>2, <2>3, JitterAssumption
    <2>5. PICK n : n = Differences
      OBVIOUS
    <2>6. PICK weight : weight = 16^n
      OBVIOUS
    <2>7. /\ jitter' = IF prevTransit = None THEN jitter ELSE 15 * jitter + Size(transit - prevTransit) * weight
          /\ prevTransit' = transit
          /\ rfcJitter' = IF rfcTransit = None THEN rfcJitter
                          ELSE 15 * rfcJitter + Size(Signed((transit % TsModulus) - rfcTransit)) * weight
          /\ rfcTransit' = transit % TsModulus /\ first' = first
      <3>1. Measure(steps + delay, (f + steps) % TsModulus) /\ RfcMeasure(steps + delay, (f + steps) % TsModulus) /\ first' = first
        BY <1>2, <2>1, <2>2 DEF ArriveAt
      <3> QED BY <2>2, <2>4, <2>5, <2>6, <3>1 DEF Measure, RfcMeasure, Smoothed
    <2>8. transit # None /\ transit % TsModulus # None
      BY <2>2, <2>4, JitterAssumption
    <2>9. jitter' = rfcJitter'
      <3>1. CASE prevTransit = None
        BY <1>2, <2>7, <3>1 DEF JitterInv
      <3>2. CASE prevTransit # None
        <4>1. PICK e \in Delays : prevTransit = e - first /\ rfcTransit = (e - first) % TsModulus
          BY <1>2, <3>2 DEF JitterInv
        <4>2. PICK before \in Int : before = e - f /\ before = prevTransit /\ rfcTransit = before % TsModulus
          BY <2>2, <4>1, JitterAssumption
        <4>3. 2 * (transit - before) <= TsModulus /\ 2 * (before - transit) <= TsModulus
          BY <2>2, <2>4, <4>2, JitterAssumption DEF NoWrap
        <4>4. Size(Signed((transit % TsModulus) - (before % TsModulus))) = Size(transit - before)
          <5>1. 2 * (transit - before) <= TsModulus /\ 2 * (before - transit) <= TsModulus
            BY <2>2, <4>3
          <5>2. Size(Signed((transit % TsModulus) - (before % TsModulus))) = Size(transit - before)
            BY ONLY transit \in Int, before \in Int, <5>1, SignedDifference
          <5> QED BY ONLY <5>2, Zenon
        <4>5. rfcTransit # None
          BY <2>2, <4>2, JitterAssumption
        <4>6. jitter = rfcJitter
          BY <1>2 DEF JitterInv
        <4>7. PICK d : d = Size(transit - before)
          OBVIOUS
        <4>8. jitter' = 15 * jitter + d * weight
          BY ONLY <2>7, <3>2, <4>2, <4>7, Zenon
        <4>9. rfcJitter' = 15 * rfcJitter + d * weight
          <5>1. rfcJitter' = 15 * rfcJitter + Size(Signed((transit % TsModulus) - rfcTransit)) * weight
            BY ONLY <2>7, <4>5, Zenon
          <5>2. rfcTransit = before % TsModulus
            BY <4>2
          <5> QED BY ONLY <4>4, <4>7, <5>1, <5>2, Zenon
        <4> QED BY ONLY <4>6, <4>8, <4>9, Zenon
      <3> QED BY <3>1, <3>2
    <2> QED BY <1>2, <2>2, <2>4, <2>7, <2>8, <2>9 DEF JitterInv
  <1>3. JitterInv /\ [JitterNext]_jitterVars => JitterInv'
    BY <1>2 DEF JitterNext, JitterInv, jitterVars
  <1>4. JitterInv => JitterPerRfc
    BY DEF JitterInv, JitterPerRfc
  <1> QED BY <1>1, <1>3, <1>4, PTL DEF JitterSpec

-----------------------------------------------------------------------------
(* Attribution of flows to calls.                                          *)
-----------------------------------------------------------------------------
(* The score of a call.                                                    *)

\* The loop over the endpoints defines it: there is one function that unfolds so.
LEMMA ScoreUnfolds ==
    ASSUME NEW bodies, NEW flow, Len(bodies) \in Nat
    PROVE  \E upTo : /\ upTo[0] = 0
                     /\ \A i \in 1..Len(bodies) : upTo[i] = AddEndpoint(upTo[i - 1], bodies[i], flow)
                     /\ EndpointScore(bodies, flow) = upTo[Len(bodies)]
  <1> DEFINE Unfolds(f, m) == f = [i \in 0..m |-> IF i = 0 THEN 0 ELSE AddEndpoint(f[i - 1], bodies[i], flow)]
             T == {m \in Nat : \E f : Unfolds(f, m)}
  <1>1. 0 \in T
    <2>1. Unfolds([i \in 0..0 |-> 0], 0)
      OBVIOUS
    <2> QED BY <2>1
  <1>2. ASSUME NEW m \in Nat, m \in T PROVE m + 1 \in T
    <2>1. PICK f : Unfolds(f, m)
      BY <1>2
    <2> DEFINE g == [i \in 0..(m + 1) |-> IF i <= m THEN f[i] ELSE AddEndpoint(f[i - 1], bodies[i], flow)]
    <2>2. ASSUME NEW i \in 0..(m + 1)
          PROVE  g[i] = IF i = 0 THEN 0 ELSE AddEndpoint(g[i - 1], bodies[i], flow)
      <3>1. CASE i = 0
        <4>1. i \in 0..m /\ g[i] = f[i]
          BY <3>1
        <4> QED BY <2>1, <3>1, <4>1
      <3>2. CASE i # 0 /\ i <= m
        <4>1. i \in 0..m /\ i - 1 \in 0..(m + 1) /\ i - 1 <= m
          BY <3>2
        <4>2. g[i] = f[i] /\ g[i - 1] = f[i - 1]
          BY <4>1
        <4> QED BY <2>1, <3>2, <4>1, <4>2
      <3>3. CASE i = m + 1
        <4>1. i - 1 \in 0..(m + 1) /\ i - 1 <= m /\ ~(i <= m) /\ i # 0
          BY <3>3
        <4>2. g[i - 1] = f[i - 1]
          BY <4>1
        <4>3. g[i] = AddEndpoint(f[i - 1], bodies[i], flow)
          BY <4>1
        <4> QED BY <4>1, <4>2, <4>3
      <3> QED BY <3>1, <3>2, <3>3
    <2> HIDE DEF g
    <2>3. g = [i \in 0..(m + 1) |-> g[i]]
      BY DEF g
    <2>4. Unfolds(g, m + 1)
      BY <2>2, <2>3
    <2> QED BY <2>4
  <1>3. Len(bodies) \in T
    <2> HIDE DEF T
    <2>1. Nat \subseteq T
      BY <1>1, <1>2, NatSetInduction
    <2> QED BY <2>1
  <1> DEFINE chosen == CHOOSE f : Unfolds(f, Len(bodies))
  <1>4. Unfolds(chosen, Len(bodies))
    BY <1>3
  <1>5. EndpointScore(bodies, flow) = chosen[Len(bodies)]
    BY DEF EndpointScore
  <1>6. PICK f : f = chosen
    OBVIOUS
  <1> HIDE DEF chosen
  <1>7. f[0] = 0
    <2>1. 0 \in 0..Len(bodies)
      OBVIOUS
    <2> QED BY <1>4, <1>6, <2>1
  <1>8. \A i \in 1..Len(bodies) : f[i] = AddEndpoint(f[i - 1], bodies[i], flow)
    BY <1>4, <1>6
  <1> QED BY <1>5, <1>6, <1>7, <1>8

\* The greater of two numbers.
AtLeast(score, base) == IF score < base THEN base ELSE score

\* Max chooses it.
LEMMA MaxOfTwo ==
    ASSUME NEW score \in Nat, NEW base \in Nat PROVE Max({score, base}) = AtLeast(score, base)
  <1>1. {score, base} \subseteq 0..(score + base) /\ {score, base} \subseteq Nat
    OBVIOUS
  <1>2. PICK m : m = Max({score, base})
    OBVIOUS
  <1>3. m \in {score, base} /\ \A y \in {score, base} : y <= m
    BY <1>1, <1>2, MaxIs
  <1> QED BY <1>2, <1>3 DEF AtLeast

\* What one endpoint makes of a score: with the base 6, 3 or 0.
LEMMA AddedIs ==
    ASSUME NEW score \in Nat, NEW ep, NEW flow
    PROVE  /\ AddEndpoint(score, ep, flow) \in Nat
           /\ AddEndpoint(score, ep, flow) <= AtLeast(score, 6) + 1
           /\ ~Exact(ep, flow) => AddEndpoint(score, ep, flow) <= AtLeast(score, 3) + 1
           /\ ~Exact(ep, flow) /\ ~SamePort(ep, flow) => AddEndpoint(score, ep, flow) <= AtLeast(score, 0) + 1
           /\ Exact(ep, flow) /\ flow.pt \in ep.pts => AddEndpoint(score, ep, flow) = AtLeast(score, 6) + 1
  <1>1. Max({score, 6}) = AtLeast(score, 6) /\ Max({score, 3}) = AtLeast(score, 3)
    BY MaxOfTwo
  <1>2. PICK six \in Nat, three \in Nat : /\ six = AtLeast(score, 6) /\ three = AtLeast(score, 3)
                                          /\ score <= three /\ three <= six /\ AtLeast(score, 0) = score
    BY DEF AtLeast
  <1>3. PICK one \in {0, 1} : one = (IF flow.pt \in ep.pts THEN 1 ELSE 0)
    OBVIOUS
  <1>4. CASE Exact(ep, flow)
    <2>1. AddEndpoint(score, ep, flow) = six + one
      BY <1>1, <1>2, <1>3, <1>4 DEF AddEndpoint
    <2> QED BY <1>2, <1>3, <1>4, <2>1
  <1>5. CASE ~Exact(ep, flow) /\ SamePort(ep, flow)
    <2>1. AddEndpoint(score, ep, flow) = three + one
      BY <1>1, <1>2, <1>3, <1>5 DEF AddEndpoint
    <2> QED BY <1>2, <1>3, <1>5, <2>1
  <1>6. CASE ~Exact(ep, flow) /\ ~SamePort(ep, flow)
    <2>1. AddEndpoint(score, ep, flow) = score + one
      BY <1>3, <1>6 DEF AddEndpoint
    <2> QED BY <1>2, <1>3, <1>6, <2>1
  <1> QED BY <1>4, <1>5, <1>6

\* It stays within the base and one for each endpoint.
LEMMA ScoreBounded ==
    ASSUME NEW bodies, NEW flow, Len(bodies) \in Nat, NEW base \in Nat,
           \A i \in 1..Len(bodies) : \A s \in Nat : AddEndpoint(s, bodies[i], flow) <= AtLeast(s, base) + 1
    PROVE  EndpointScore(bodies, flow) \in Nat /\ EndpointScore(bodies, flow) <= base + Len(bodies)
  <1>1. PICK upTo : /\ upTo[0] = 0
                    /\ \A i \in 1..Len(bodies) : upTo[i] = AddEndpoint(upTo[i - 1], bodies[i], flow)
                    /\ EndpointScore(bodies, flow) = upTo[Len(bodies)]
    BY ScoreUnfolds
  <1> DEFINE T == {n \in Nat : n <= Len(bodies) => upTo[n] \in Nat /\ upTo[n] <= base + n}
  <1>2. 0 \in T
    BY <1>1
  <1>3. ASSUME NEW n \in Nat, n \in T PROVE n + 1 \in T
    <2> SUFFICES ASSUME n + 1 <= Len(bodies) PROVE upTo[n + 1] \in Nat /\ upTo[n + 1] <= base + (n + 1)
      OBVIOUS
    <2>1. PICK s \in Nat : s = upTo[n] /\ s <= base + n
      BY <1>3
    <2>2. n + 1 \in 1..Len(bodies) /\ (n + 1) - 1 = n
      OBVIOUS
    <2>3. upTo[n + 1] = AddEndpoint(s, bodies[n + 1], flow)
      BY <1>1, <2>1, <2>2
    <2>4. PICK t \in Nat : t = upTo[n + 1] /\ t <= AtLeast(s, base) + 1
      BY <2>1, <2>2, <2>3, AddedIs
    <2>5. AtLeast(s, base) <= base + n /\ AtLeast(s, base) \in Nat
      BY <2>1 DEF AtLeast
    <2> QED BY <2>4, <2>5
  <1>4. Len(bodies) \in T
    <2> HIDE DEF T
    <2>1. Nat \subseteq T
      BY <1>2, <1>3, NatSetInduction
    <2> QED BY <2>1
  <1> QED BY <1>1, <1>4

\* It reaches them when each endpoint matches.
LEMMA ScoreReached ==
    ASSUME NEW bodies, NEW flow, Len(bodies) \in Nat, Len(bodies) > 0,
           \A i \in 1..Len(bodies) : Exact(bodies[i], flow) /\ flow.pt \in bodies[i].pts
    PROVE  EndpointScore(bodies, flow) = 6 + Len(bodies)
  <1>1. PICK upTo : /\ upTo[0] = 0
                    /\ \A i \in 1..Len(bodies) : upTo[i] = AddEndpoint(upTo[i - 1], bodies[i], flow)
                    /\ EndpointScore(bodies, flow) = upTo[Len(bodies)]
    BY ScoreUnfolds
  <1> DEFINE T == {n \in Nat : n <= Len(bodies) => upTo[n] = IF n = 0 THEN 0 ELSE 6 + n}
  <1>2. 0 \in T
    BY <1>1
  <1>3. ASSUME NEW n \in Nat, n \in T PROVE n + 1 \in T
    <2> SUFFICES ASSUME n + 1 <= Len(bodies) PROVE upTo[n + 1] = 6 + (n + 1)
      OBVIOUS
    <2>1. PICK s \in Nat : s = upTo[n] /\ s = IF n = 0 THEN 0 ELSE 6 + n
      BY <1>3
    <2>2. n + 1 \in 1..Len(bodies) /\ (n + 1) - 1 = n
      OBVIOUS
    <2>3. upTo[n + 1] = AddEndpoint(s, bodies[n + 1], flow)
      BY <1>1, <2>1, <2>2
    <2>4. upTo[n + 1] = AtLeast(s, 6) + 1
      BY <2>2, <2>3, AddedIs
    <2> QED BY <2>1, <2>4 DEF AtLeast
  <1>4. Len(bodies) \in T
    <2> HIDE DEF T
    <2>1. Nat \subseteq T
      BY <1>2, <1>3, NatSetInduction
    <2> QED BY <2>1
  <1> QED BY <1>1, <1>4

-----------------------------------------------------------------------------
(* Calls and flows.                                                        *)
Offers(c) == {Bodies(c)[1], Bodies(c)[2]}

\* Each SDP of a call announced the two endpoints of the call.
EndpointsOk ==
    /\ phase \in [Calls -> {"before", "up", "over"}]
    /\ endpoints \in [Calls -> Seq(UNION {Offers(c) : c \in Calls})]
    /\ \A c \in Calls : \A i \in 1..Len(endpoints[c]) : endpoints[c][i] \in Offers(c)
    /\ \A c \in Calls : /\ \E k \in Nat : Len(endpoints[c]) = 2 * k
                        /\ phase[c] # "before" => Len(endpoints[c]) > 0

\* No call began later than now.
TimesOk ==
    /\ time \in Nat /\ started \in [Calls -> Nat] /\ ended \in [Calls -> Nat]
    /\ \A c \in Calls : started[c] <= time

\* A flow of a call goes between its endpoints, and began while the call was up or
\* soon after.
FlowOk(f) ==
    /\ f.call \in Calls /\ phase[f.call] # "before" /\ f.pt \in PayloadTypes[f.call]
    /\ {f.src, f.dst} = ToSet(Media[f.call])
    /\ f.at \in Nat /\ started[f.call] <= f.at /\ f.at <= time
    /\ phase[f.call] = "over" => f.at <= ended[f.call] + Linger

MatchInv == EndpointsOk /\ TimesOk /\ \A f \in flows : FlowOk(f)

\* The endpoints of a call are two.
LEMMA MediaAre ==
    ASSUME NEW c \in Calls
    PROVE  ToSet(Media[c]) = {Media[c][1], Media[c][2]} /\ Len(Bodies(c)) = 2
           /\ Bodies(c) \in Seq(Offers(c)) /\ \A i \in 1..2 : Bodies(c)[i] \in Offers(c)
  <1>1. PICK m : m = Media[c]
    OBVIOUS
  <1>2. m = <<m[1], m[2]>>
    BY <1>1, MatchAssumption
  <1>3. PICK x, y : x = m[1] /\ y = m[2] /\ m = <<x, y>>
    BY <1>2
  <1>4. ToSet(m) = {x, y}
    BY <1>3 DEF ToSet
  <1>5. PICK v, w : Bodies(c) = <<v, w>>
    BY DEF Bodies
  <1> QED BY <1>1, <1>3, <1>4, <1>5 DEF Offers

\* No call has begun.
LEMMA MatchInitInv == MatchInit => MatchInv
  <1> SUFFICES ASSUME MatchInit PROVE MatchInv
    OBVIOUS
  <1>1. \A c \in Calls : endpoints[c] = <<>> /\ phase[c] = "before" /\ Len(endpoints[c]) = 2 * 0 /\ started[c] = 0
    BY DEF MatchInit
  <1> QED BY <1>1 DEF MatchInit, MatchInv, EndpointsOk, TimesOk

\* One SDP more.
LEMMA MoreEndpoints ==
    ASSUME MatchInv, NEW c \in Calls, NEW old, old = <<>> \/ old = endpoints[c],
           endpoints' = [endpoints EXCEPT ![c] = old \o Bodies(c)],
           phase' \in [Calls -> {"before", "up", "over"}],
           \A d \in Calls \ {c} : phase'[d] = phase[d]
    PROVE  EndpointsOk'
  <1> DEFINE All == UNION {Offers(d) : d \in Calls}
  <1>1. PICK bodies : bodies = Bodies(c) /\ Len(bodies) = 2 /\ bodies \in Seq(Offers(c))
                      /\ \A i \in 1..2 : bodies[i] \in Offers(c)
    BY MediaAre
  <1>2. Offers(c) \subseteq All
    OBVIOUS
  <1>3. old \in Seq(All) /\ Len(old) \in Nat /\ \A i \in 1..Len(old) : old[i] \in Offers(c)
    <2>1. endpoints[c] \in Seq(All) /\ \A i \in 1..Len(endpoints[c]) : endpoints[c][i] \in Offers(c)
      BY DEF MatchInv, EndpointsOk
    <2>2. <<>> \in Seq(All) /\ Len(<<>>) = 0
      OBVIOUS
    <2> HIDE DEF All
    <2>3. CASE old = <<>>
      BY <2>2, <2>3
    <2>4. CASE old = endpoints[c]
      BY <2>1, <2>4, LenProperties
    <2> QED BY <2>3, <2>4
  <1>4. PICK k \in Nat : Len(old) = 2 * k
    <2>1. Len(<<>>) = 2 * 0
      OBVIOUS
    <2>2. \E n \in Nat : Len(endpoints[c]) = 2 * n
      BY DEF MatchInv, EndpointsOk
    <2> QED BY <2>1, <2>2
  <1>5. bodies \in Seq(All)
    BY <1>1, <1>2
  <1>6. PICK new : new = old \o bodies
    OBVIOUS
  <1>7. new \in Seq(All) /\ Len(new) = Len(old) + 2
        /\ \A i \in 1..Len(new) : new[i] = IF i <= Len(old) THEN old[i] ELSE bodies[i - Len(old)]
    <2> HIDE DEF All
    <2>1. new \in Seq(All) /\ Len(new) = Len(old) + Len(bodies)
          /\ \A i \in 1..(Len(old) + Len(bodies)) : new[i] = IF i <= Len(old) THEN old[i] ELSE bodies[i - Len(old)]
      BY ONLY <1>3, <1>5, <1>6, ConcatProperties
    <2> QED BY <1>1, <1>3, <2>1
  <1>8. \A i \in 1..Len(new) : new[i] \in Offers(c)
    <2> SUFFICES ASSUME NEW i \in 1..Len(new) PROVE new[i] \in Offers(c)
      OBVIOUS
    <2>1. CASE i <= Len(old)
      BY <1>3, <1>7, <2>1
    <2>2. CASE ~(i <= Len(old))
      <3>1. i - Len(old) \in 1..2
        BY <1>3, <1>7, <2>2
      <3> QED BY <1>1, <1>7, <2>2, <3>1
    <2> QED BY <2>1, <2>2
  <1>9. Len(new) = 2 * (k + 1) /\ Len(new) > 0 /\ k + 1 \in Nat
    BY <1>4, <1>7
  <1>10. endpoints'[c] = new /\ \A d \in Calls \ {c} : endpoints'[d] = endpoints[d]
    BY <1>1, <1>6 DEF MatchInv, EndpointsOk
  <1>11. endpoints' \in [Calls -> Seq(All)]
    BY <1>1, <1>6, <1>7 DEF MatchInv, EndpointsOk
  <1>12. \A d \in Calls : \A i \in 1..Len(endpoints'[d]) : endpoints'[d][i] \in Offers(d)
    <2> SUFFICES ASSUME NEW d \in Calls PROVE \A i \in 1..Len(endpoints'[d]) : endpoints'[d][i] \in Offers(d)
      OBVIOUS
    <2>1. CASE d = c
      BY <1>8, <1>10, <2>1
    <2>2. CASE d # c
      BY <1>10, <2>2 DEF MatchInv, EndpointsOk
    <2> QED BY <2>1, <2>2
  <1>13. \A d \in Calls : /\ \E n \in Nat : Len(endpoints'[d]) = 2 * n
                          /\ phase'[d] # "before" => Len(endpoints'[d]) > 0
    <2> SUFFICES ASSUME NEW d \in Calls
                 PROVE  /\ \E n \in Nat : Len(endpoints'[d]) = 2 * n
                        /\ phase'[d] # "before" => Len(endpoints'[d]) > 0
      OBVIOUS
    <2>1. CASE d = c
      BY <1>9, <1>10, <2>1
    <2>2. CASE d # c
      BY <1>10, <2>2 DEF MatchInv, EndpointsOk
    <2> QED BY <2>1, <2>2
  <1>14. (\A d \in Calls : Offers(d)' = Offers(d)) /\ All' = All
    BY DEF Offers, Bodies
  <1> QED BY <1>11, <1>12, <1>13, <1>14 DEF EndpointsOk

\* A call announces its endpoints.
LEMMA SetUpInv == ASSUME MatchInv, NEW c \in Calls, SetUp(c) PROVE MatchInv'
  <1>1. /\ phase' = [phase EXCEPT ![c] = "up"] /\ started' = [started EXCEPT ![c] = time] /\ phase[c] = "before"
        /\ flows' = flows /\ ended' = ended /\ time' = time
    BY DEF SetUp
  <1>2. phase' \in [Calls -> {"before", "up", "over"}] /\ phase'[c] = "up" /\ \A d \in Calls \ {c} : phase'[d] = phase[d]
    BY <1>1 DEF MatchInv, EndpointsOk
  <1>3. endpoints' = [endpoints EXCEPT ![c] = <<>> \o Bodies(c)]
    <2>1. <<>> \o Bodies(c) = Bodies(c)
      BY MediaAre
    <2> QED BY <2>1 DEF SetUp
  <1>4. EndpointsOk'
    BY <1>2, <1>3, MoreEndpoints
  <1>5. TimesOk'
    BY <1>1 DEF MatchInv, TimesOk
  <1>6. \A f \in flows' : FlowOk(f)'
    <2> SUFFICES ASSUME NEW f \in flows PROVE FlowOk(f)'
      BY <1>1
    <2>1. FlowOk(f) /\ f.call # c
      BY <1>1 DEF MatchInv, FlowOk
    <2>2. phase'[f.call] = phase[f.call] /\ started'[f.call] = started[f.call]
      BY <1>1, <1>2, <2>1 DEF MatchInv, TimesOk, FlowOk
    <2> QED BY <1>1, <2>1, <2>2 DEF FlowOk
  <1> QED BY <1>4, <1>5, <1>6 DEF MatchInv

\* A call announces them again.
LEMMA RefreshInv == ASSUME MatchInv, NEW c \in Calls, Refresh(c) PROVE MatchInv'
  <1>1. /\ phase' = phase /\ flows' = flows /\ started' = started /\ ended' = ended /\ time' = time
        /\ endpoints' = [endpoints EXCEPT ![c] = endpoints[c] \o Bodies(c)]
    BY DEF Refresh, MatchInv, EndpointsOk
  <1>2. phase' \in [Calls -> {"before", "up", "over"}]
    BY <1>1 DEF MatchInv, EndpointsOk
  <1>3. EndpointsOk'
    BY <1>1, <1>2, MoreEndpoints
  <1>4. TimesOk' /\ \A f \in flows' : FlowOk(f)'
    BY <1>1 DEF MatchInv, TimesOk, FlowOk
  <1> QED BY <1>3, <1>4 DEF MatchInv

\* A call ends; its flows began before, or begin now.
LEMMA EndInv == ASSUME MatchInv, NEW c \in Calls, End(c) PROVE MatchInv'
  <1>1. /\ phase' = [phase EXCEPT ![c] = "over"] /\ ended' = [ended EXCEPT ![c] = time] /\ phase[c] = "up"
        /\ flows' = flows /\ endpoints' = endpoints /\ started' = started /\ time' = time
    BY DEF End
  <1>2. phase' \in [Calls -> {"before", "up", "over"}] /\ phase'[c] = "over" /\ \A d \in Calls \ {c} : phase'[d] = phase[d]
    BY <1>1 DEF MatchInv, EndpointsOk
  <1>3. \A d \in Calls : phase[d] # "before" <=> phase'[d] # "before"
    BY <1>1, <1>2
  <1>4. EndpointsOk'
    BY <1>1, <1>2, <1>3, ZenonT(30) DEF MatchInv, EndpointsOk, Offers, Bodies
  <1>5. TimesOk'
    BY <1>1 DEF MatchInv, TimesOk
  <1>6. ASSUME NEW f \in flows PROVE FlowOk(f)'
    <2>1. FlowOk(f) /\ time \in Nat /\ Linger \in Nat
      BY MatchAssumption DEF MatchInv, TimesOk
    <2>2. CASE f.call = c
      <3>1. ended'[c] = time
        BY <1>1 DEF MatchInv, TimesOk
      <3>2. f.at <= ended'[c] + Linger
        BY <2>1, <3>1 DEF FlowOk
      <3> QED BY <1>1, <1>2, <2>1, <2>2, <3>2 DEF FlowOk
    <2>3. CASE f.call # c
      <3>1. phase'[f.call] = phase[f.call] /\ ended'[f.call] = ended[f.call]
        BY <1>1, <1>2, <2>1, <2>3 DEF MatchInv, TimesOk, FlowOk
      <3> QED BY <1>1, <2>1, <3>1 DEF FlowOk
    <2> QED BY <2>2, <2>3
  <1> QED BY <1>1, <1>4, <1>5, <1>6 DEF MatchInv

\* A flow starts.
LEMMA StartInv == ASSUME MatchInv, NEW c \in Calls, StartMedia(c) PROVE MatchInv'
  <1>1. PICK pt \in PayloadTypes[c] : Start(Media[c][1], Media[c][2], pt, c) \/ Start(Media[c][2], Media[c][1], pt, c)
    BY DEF StartMedia
  <1>2. PICK src, dst : Start(src, dst, pt, c) /\ {src, dst} = ToSet(Media[c])
    <2>1. ToSet(Media[c]) = {Media[c][1], Media[c][2]}
      BY MediaAre
    <2> QED BY <1>1, <2>1
  <1>3. PICK new : flows' = flows \cup {new} /\ new = [src |-> src, dst |-> dst, pt |-> pt, at |-> time, call |-> c]
    BY <1>2 DEF Start
  <1>4. endpoints' = endpoints /\ phase' = phase /\ started' = started /\ ended' = ended /\ time' = time
    BY <1>2 DEF Start
  <1>5. EndpointsOk' /\ TimesOk'
    BY <1>4, ZenonT(30) DEF MatchInv, EndpointsOk, TimesOk, Offers, Bodies
  <1>6. \A f \in flows : FlowOk(f)'
    BY <1>4 DEF MatchInv, FlowOk
  <1>7. FlowOk(new)'
    <2>1. new.call = c /\ new.pt = pt /\ new.src = src /\ new.dst = dst /\ new.at = time
      BY <1>3
    <2>2. phase[c] # "before" /\ (phase[c] = "over" => time <= ended[c] + Linger)
      BY DEF StartMedia
    <2>3. time \in Nat /\ started[c] <= time
      BY DEF MatchInv, TimesOk
    <2> QED BY <1>1, <1>2, <1>4, <2>1, <2>2, <2>3 DEF FlowOk
  <1> QED BY <1>3, <1>5, <1>6, <1>7 DEF MatchInv

\* Time passes.
LEMMA PassInv == ASSUME MatchInv, Pass PROVE MatchInv'
  <1>1. /\ endpoints' = endpoints /\ phase' = phase /\ started' = started /\ ended' = ended /\ flows' = flows
        /\ time' = time + 1
    BY DEF Pass
  <1>2. EndpointsOk'
    BY <1>1, ZenonT(30) DEF MatchInv, EndpointsOk, Offers, Bodies
  <1>3. TimesOk'
    BY <1>1 DEF MatchInv, TimesOk
  <1>4. ASSUME NEW f \in flows PROVE FlowOk(f)'
    <2>1. FlowOk(f) /\ time \in Nat
      BY DEF MatchInv, TimesOk
    <2>2. f.at <= time'
      BY <1>1, <2>1 DEF FlowOk
    <2> QED BY <1>1, <2>1, <2>2 DEF FlowOk
  <1> QED BY <1>1, <1>2, <1>3, <1>4 DEF MatchInv

\* Each step keeps the invariant.
LEMMA MatchNextInv == ASSUME MatchInv, [MatchNext]_matchVars PROVE MatchInv'
  <1>1. CASE UNCHANGED matchVars
    BY <1>1, ZenonT(30) DEF matchVars, MatchInv, EndpointsOk, TimesOk, FlowOk, Offers, Bodies
  <1> QED BY <1>1, PassInv, SetUpInv, RefreshInv, EndInv, StartInv DEF MatchNext

\* The invariant holds always.
THEOREM MatchInvariance == MatchSpec => []MatchInv
  <1>1. MatchInv /\ [MatchNext]_matchVars => MatchInv'
    BY MatchNextInv
  <1> QED BY <1>1, MatchInitInv, PTL DEF MatchSpec

\* The score of the call a flow belongs to.
LEMMA OwnScore ==
    ASSUME MatchInv, MediaOfHosts, NEW f \in flows
    PROVE  EndpointMatch(f.call, f) = 10 + Len(endpoints[f.call])
  <1>1. FlowOk(f)
    BY DEF MatchInv
  <1>2. PICK c \in Calls : c = f.call
    BY <1>1 DEF FlowOk
  <1>3. PICK bodies : bodies = endpoints[c] /\ Len(bodies) \in Nat /\ Len(bodies) > 0
                      /\ \A i \in 1..Len(bodies) : bodies[i] \in Offers(c)
    <2>1. phase[c] # "before"
      BY <1>1, <1>2 DEF FlowOk
    <2>2. \E k \in Nat : Len(endpoints[c]) = 2 * k
      BY DEF MatchInv, EndpointsOk
    <2> QED BY <2>1, <2>2 DEF MatchInv, EndpointsOk
  <1>4. {f.src, f.dst} = {Media[c][1], Media[c][2]}
    BY <1>1, <1>2, MediaAre DEF FlowOk
  <1>5. \A ep \in Offers(c) : Exact(ep, f) /\ f.pt \in ep.pts
    <2> SUFFICES ASSUME NEW ep \in Offers(c) PROVE Exact(ep, f) /\ f.pt \in ep.pts
      OBVIOUS
    <2>1. PICK i \in 1..2 : ep = [ip |-> Media[c][i].ip, port |-> Media[c][i].port, pts |-> PayloadTypes[c]]
      BY DEF Offers, Bodies
    <2>2. [ip |-> ep.ip, port |-> ep.port] = Media[c][i]
      BY <2>1, MatchAssumption
    <2>3. Media[c][i] \in {f.src, f.dst}
      BY <1>4
    <2>4. f.pt \in ep.pts
      BY <1>1, <1>2, <2>1 DEF FlowOk
    <2> QED BY <2>2, <2>3, <2>4 DEF Exact
  <1>6. EndpointScore(bodies, f) = 6 + Len(bodies)
    BY <1>3, <1>5, ScoreReached
  <1>7. f.src.ip \in Signalling[c] /\ f.dst.ip \in Signalling[c]
    BY <1>4 DEF MediaOfHosts
  <1>8. InWindow(c, f)
    <2>1. PICK at \in Nat, begin \in Nat, latest \in Nat, end \in Nat :
             at = f.at /\ begin = started[c] /\ latest = time /\ end = ended[c]
      BY <1>1, <1>2 DEF MatchInv, TimesOk, FlowOk
    <2>2. begin <= at /\ at <= latest /\ (phase[c] = "over" => at <= end + Linger)
      BY <1>1, <1>2, <2>1 DEF FlowOk
    <2>3. Margin \in Nat /\ Linger \in Nat
      BY MatchAssumption
    <2>4. begin - Margin <= at /\ at <= (IF phase[c] = "over" THEN end ELSE latest) + Linger
      BY <2>2, <2>3
    <2> QED BY <2>1, <2>4 DEF InWindow, EndedAt
  <1> QED BY <1>2, <1>3, <1>6, <1>7, <1>8 DEF EndpointMatch

\* The score of a call that did not repeat its SDP too often is no greater, and that
\* of a call which is no rival is less.
LEMMA OtherScore ==
    ASSUME MatchInv, NEW f \in flows, NEW d \in Calls, d # f.call, FewRefreshes(d, f.call)
    PROVE  /\ EndpointMatch(d, f) \in Nat /\ EndpointMatch(d, f) <= 10 + Len(endpoints[f.call])
           /\ ~Rival(d, f) => EndpointMatch(d, f) < 10 + Len(endpoints[f.call])
  <1>1. FlowOk(f)
    BY DEF MatchInv
  <1>2. PICK c \in Calls : c = f.call
    BY <1>1 DEF FlowOk
  <1>3. PICK bodies : bodies = endpoints[d] /\ \A i \in 1..Len(bodies) : bodies[i] \in Offers(d)
    BY DEF MatchInv, EndpointsOk
  <1>4. PICK own \in Nat, other \in Nat : Len(endpoints[c]) = 2 * own /\ Len(bodies) = 2 * other
    BY <1>3 DEF MatchInv, EndpointsOk
  <1>5. PICK shared \in BOOLEAN, port \in BOOLEAN :
            /\ shared = (ToSet(Media[d]) \cap ToSet(Media[c]) # {})
            /\ port = \E i, j \in 1..2 : Media[d][i].port = Media[c][j].port
    OBVIOUS
  <1>6. /\ other - own <= IF shared THEN 0 ELSE IF port THEN 1 ELSE 2
        /\ Extra(d, c) = other - own
    <2>1. (2 * other - 2 * own) \div 2 = other - own
      OBVIOUS
    <2>2. Extra(d, c) = other - own
      BY <1>3, <1>4, <2>1 DEF Extra
    <2>3. Extra(d, c) <= IF shared THEN 0 ELSE IF port THEN 1 ELSE 2
      BY <1>2, <1>5 DEF FewRefreshes, Shared, SameNumber
    <2> QED BY <2>2, <2>3
  <1>7. {f.src, f.dst} = {Media[c][1], Media[c][2]}
    BY <1>1, <1>2, MediaAre DEF FlowOk
  <1>8. \A ep \in Offers(d) : (Exact(ep, f) => shared) /\ (SamePort(ep, f) => port)
    <2> SUFFICES ASSUME NEW ep \in Offers(d) PROVE (Exact(ep, f) => shared) /\ (SamePort(ep, f) => port)
      OBVIOUS
    <2>1. PICK i \in 1..2 : ep = [ip |-> Media[d][i].ip, port |-> Media[d][i].port, pts |-> PayloadTypes[d]]
      BY DEF Offers, Bodies
    <2>2. [ip |-> ep.ip, port |-> ep.port] = Media[d][i] /\ ep.port = Media[d][i].port
      BY <2>1, MatchAssumption
    <2>3. Media[d][i] \in ToSet(Media[d]) /\ ToSet(Media[c]) = {f.src, f.dst}
      <3>1. ToSet(Media[c]) = {f.src, f.dst}
        BY <1>1, <1>2 DEF FlowOk
      <3>2. ToSet(Media[d]) = {Media[d][1], Media[d][2]}
        BY MediaAre
      <3> QED BY <3>1, <3>2
    <2>4. Exact(ep, f) => shared
      BY <1>5, <2>2, <2>3 DEF Exact
    <2>5. SamePort(ep, f) => \E j \in 1..2 : Media[d][i].port = Media[c][j].port
      <3>1. \A g \in {f.src, f.dst} : \E j \in 1..2 : g = Media[c][j]
        BY <1>7
      <3>2. SamePort(ep, f) => \E g \in {f.src, f.dst} : ep.port = g.port
        BY DEF SamePort
      <3> QED BY <2>2, <3>1, <3>2
    <2> QED BY <1>5, <2>4, <2>5
  <1>9. PICK base \in {0, 3, 6} : base = IF shared THEN 6 ELSE IF port THEN 3 ELSE 0
    OBVIOUS
  <1>10. \A i \in 1..Len(bodies) : \A s \in Nat : AddEndpoint(s, bodies[i], f) <= AtLeast(s, base) + 1
    <2> SUFFICES ASSUME NEW i \in 1..Len(bodies), NEW s \in Nat PROVE AddEndpoint(s, bodies[i], f) <= AtLeast(s, base) + 1
      OBVIOUS
    <2>1. PICK ep \in Offers(d) : ep = bodies[i]
      BY <1>3
    <2>2. CASE shared
      BY <1>9, <2>1, <2>2, AddedIs
    <2>3. CASE ~shared /\ port
      BY <1>8, <1>9, <2>1, <2>3, AddedIs
    <2>4. CASE ~shared /\ ~port
      BY <1>8, <1>9, <2>1, <2>4, AddedIs
    <2> QED BY <2>2, <2>3, <2>4
  <1>11. PICK score \in Nat : score = EndpointScore(bodies, f) /\ score <= base + 2 * other
    <2>1. Len(bodies) \in Nat /\ base \in Nat
      BY <1>4
    <2>2. EndpointScore(bodies, f) \in Nat /\ EndpointScore(bodies, f) <= base + Len(bodies)
      BY <1>10, <2>1, ScoreBounded
    <2> QED BY <1>4, <2>2
  <1>12. PICK during \in {0, 2} : during = (IF InWindow(d, f) THEN 2 ELSE 0)
    OBVIOUS
  <1>13. PICK s1 \in {0, 1}, s2 \in {0, 1} : s1 = (IF f.src.ip \in Signalling[d] THEN 1 ELSE 0)
                                            /\ s2 = (IF f.dst.ip \in Signalling[d] THEN 1 ELSE 0)
    OBVIOUS
  <1>14. EndpointMatch(d, f) = score + s1 + s2 + during
    BY <1>3, <1>11, <1>12, <1>13 DEF EndpointMatch
  <1>15. shared /\ during = 2 /\ other = own => Rival(d, f)
    <2> SUFFICES ASSUME shared, during = 2, other = own PROVE Rival(d, f)
      OBVIOUS
    <2>1. InWindow(d, f)
      BY <1>12
    <2>2. other - own = 0
      BY <1>4
    <2> QED BY <1>2, <1>5, <1>6, <2>1, <2>2 DEF Rival, Shared
  <1>16. PICK rival \in BOOLEAN : rival <=> (shared /\ during = 2 /\ other = own)
    OBVIOUS
  <1>17. /\ score + s1 + s2 + during <= 10 + 2 * own
         /\ ~rival => score + s1 + s2 + during < 10 + 2 * own
    <2>1. CASE shared
      <3>1. other <= own /\ score <= 6 + 2 * other
        BY <1>6, <1>9, <1>11, <2>1
      <3>2. ~rival => during = 0 \/ other < own
        BY <1>12, <1>16, <2>1, <3>1
      <3> QED BY <1>12, <1>13, <3>1, <3>2
    <2>2. CASE ~shared /\ port
      BY <1>6, <1>9, <1>11, <1>12, <1>13, <2>2
    <2>3. CASE ~shared /\ ~port
      BY <1>6, <1>9, <1>11, <1>12, <1>13, <2>3
    <2> QED BY <2>1, <2>2, <2>3
  <1> QED BY <1>2, <1>4, <1>14, <1>15, <1>16, <1>17

\* No flow of a call is given to another call, and it is given to its own unless a
\* call on the same endpoints cannot be told from it: for any number of calls, ports,
\* refreshes and flows and any windows, where media and signalling come from the same
\* hosts (_endpoint_match, _choose_call).
THEOREM MediaIsAttributed == MediaOfHosts => (MatchSpec => []MediaAttributed)
  <1> SUFFICES ASSUME MediaOfHosts PROVE MatchSpec => []MediaAttributed
    OBVIOUS
  <1>1. ASSUME MatchInv PROVE MediaAttributed
    <2> SUFFICES ASSUME NEW f \in flows, \A d \in Calls \ {f.call} : FewRefreshes(d, f.call)
                 PROVE  /\ ChooseCall(f) \in {f.call, None}
                        /\ (\A d \in Calls \ {f.call} : ~Rival(d, f)) => ChooseCall(f) = f.call
      BY DEF MediaAttributed
    <2>1. PICK c \in Calls : c = f.call /\ c \in Known /\ Len(endpoints[c]) \in Nat
      <3>1. FlowOk(f)
        BY <1>1 DEF MatchInv
      <3>2. \E k \in Nat : Len(endpoints[f.call]) = 2 * k
        BY <1>1, <3>1 DEF MatchInv, EndpointsOk, FlowOk
      <3> QED BY <3>1, <3>2 DEF FlowOk, Known
    <2>2. PICK best \in Nat : best = EndpointMatch(c, f) /\ best = 10 + Len(endpoints[c])
      BY <1>1, <2>1, OwnScore
    <2>3. ASSUME NEW d \in Known, d # c
          PROVE  /\ EndpointMatch(d, f) \in Nat /\ EndpointMatch(d, f) <= best
                 /\ ~Rival(d, f) => EndpointMatch(d, f) < best
      BY <1>1, <2>1, <2>2, <2>3, OtherScore DEF Known
    <2> DEFINE Best(k) == EndpointMatch(k, f) >= 4 /\ \A d \in Known : EndpointMatch(d, f) <= EndpointMatch(k, f)
               B == {k \in Known : Best(k)}
    <2>4. c \in B
      <3>1. \A d \in Known : EndpointMatch(d, f) <= EndpointMatch(c, f)
        <4> SUFFICES ASSUME NEW d \in Known PROVE EndpointMatch(d, f) <= EndpointMatch(c, f)
          OBVIOUS
        <4>1. CASE d = c
          <5>1. best <= best
            OBVIOUS
          <5> QED BY <2>2, <4>1, <5>1
        <4>2. CASE d # c
          BY <2>2, <2>3, <4>2
        <4> QED BY <4>1, <4>2
      <3>2. EndpointMatch(c, f) >= 4
        BY <2>1, <2>2
      <3> QED BY <2>1, <3>1, <3>2
    <2>5. ChooseCall(f) = IF Cardinality(B) = 1 THEN CHOOSE k \in B : TRUE ELSE None
      BY DEF ChooseCall
    <2>6. ChooseCall(f) \in {c, None}
      <3>1. IsFiniteSet(B)
        BY MatchAssumption, FS_Subset DEF Known
      <3> HIDE DEF B
      <3>2. CASE Cardinality(B) = 1
        <4>1. PICK k : B = {k}
          BY <3>1, <3>2, FS_Singleton
        <4>2. B = {c}
          BY <2>4, <4>1
        <4> QED BY <2>5, <3>2, <4>2
      <3> QED BY <2>5, <3>2
    <2>7. ASSUME \A d \in Calls \ {c} : ~Rival(d, f) PROVE ChooseCall(f) = c
      <3>1. ASSUME NEW k \in B, k # c PROVE FALSE
        <4>1. k \in Known /\ k \in Calls /\ EndpointMatch(c, f) <= EndpointMatch(k, f)
          BY <2>1, <3>1 DEF Known
        <4>2. EndpointMatch(k, f) \in Nat /\ EndpointMatch(k, f) < best
          BY <2>3, <2>7, <3>1, <4>1
        <4> QED BY <2>2, <4>1, <4>2
      <3> HIDE DEF B
      <3>2. B = {c}
        BY <2>4, <3>1
      <3>3. Cardinality(B) = 1
        BY <3>2, FS_Singleton
      <3> QED BY <2>5, <3>2, <3>3
    <2> QED BY <2>1, <2>6, <2>7
  <1> QED BY <1>1, MatchInvariance, PTL
=============================================================================
