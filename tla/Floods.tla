------------------------------- MODULE Floods -------------------------------
(***************************************************************************)
(* analyze_ddos, ddos.py: floods against one target.                       *)
(*                                                                         *)
(* The capture grows a second at a time.  A second is the set of what the  *)
(* target received in it: how many packets of a kind from a source.        *)
(***************************************************************************)
EXTENDS Integers, FiniteSets, SequencesExt, TLC

CONSTANTS Seconds,        \* what may be received in a second
          MaxSeconds,     \* bound: length of the capture
          Specific,       \* kinds with a threshold of their own: syn, icmp, reflection, sip
          Minimum,        \* Minimum[kind]: th.syn_flood_min_pps, ..., th.ddos_min_pps
          MinSeconds,     \* th.ddos_min_seconds
          BaselineFactor  \* th.ddos_baseline_factor

ASSUME FloodAssumption ==
    /\ MaxSeconds \in Nat /\ MinSeconds \in Nat \ {0} /\ BaselineFactor \in Nat
    /\ Specific \subseteq {"syn", "icmp", "reflection", "sip"}
    /\ \A s \in Seconds : \A p \in s : p.n \in Nat \ {0}

Kinds == Specific \cup {"volumetric"}

VARIABLE received  \* received[s]: what the target received in second s

FloodInit == received = <<>>

Second ==
    /\ Len(received) < MaxSeconds
    /\ \E s \in Seconds : received' = Append(received, s)

FloodNext == Second

FloodSpec == FloodInit /\ [][FloodNext]_received

-----------------------------------------------------------------------------
(* analyze_ddos.                                                           *)

\* Which packets count for a kind: media of a call is never part of a flood.
CountsFor(kind, p) == p.kind = kind \/ (kind = "volumetric" /\ p.kind # "media")

Counted(kind, packets) == MapThenSumSet(LAMBDA p : p.n, {p \in packets : CountsFor(kind, p)})
Rate(kind, s) == Counted(kind, received[s])

\* The seconds of the capture, from the first packet to the last one.
Span ==
    LET busy == {s \in DOMAIN received : received[s] # {}}
    IN IF busy = {} THEN {} ELSE Min(busy)..Max(busy)

\* min_len: a capture that is shorter than a flood may be all flood.
MinLen == Max({1, Min({MinSeconds, Cardinality(Span)})})

Hot(kind) == {s \in DOMAIN received : Rate(kind, s) >= Minimum[kind]}

\* Wrong on purpose: a flood goes on through a dip of two seconds.
JoinLonger(runs, s) ==
    IF runs # <<>> /\ s - runs[Len(runs)].last <= 3
    THEN [runs EXCEPT ![Len(runs)] = [first |-> runs[Len(runs)].first, last |-> s]]
    ELSE Append(runs, [first |-> s, last |-> s])

\* The body of the loop of _runs.
Join(runs, s) ==
    IF runs # <<>> /\ s - runs[Len(runs)].last <= 2
    THEN [runs EXCEPT ![Len(runs)] = [first |-> runs[Len(runs)].first, last |-> s]]
    ELSE Append(runs, [first |-> s, last |-> s])

\* The loop: the seconds that are hot, in order, up to second n.
Joined(hot, n) ==
    LET upTo[s \in 0..n] == IF s = 0 THEN <<>>
                            ELSE IF s \in hot THEN Join(upTo[s - 1], s)
                            ELSE upTo[s - 1]
    IN upTo[n]

\* Wrong on purpose: the length is off by one.
RunsLonger(kind) ==
    {r \in ToSet(Joined(Hot(kind), Len(received))) : r.last - r.first >= MinLen}

\* _runs
Runs(kind) ==
    {r \in ToSet(Joined(Hot(kind), Len(received))) : r.last - r.first + 1 >= MinLen}

\* Twice statistics.median.
Median2(s) ==
    LET sorted == SortSeq(s, LAMBDA a, b : a < b)
        n == Len(s)
    IN sorted[(n + 1) \div 2] + sorted[n \div 2 + 1]

\* A volume that the rest of the capture reaches too is no flood.
AboveBaseline(run) ==
    LET outside == SelectSeq([s \in DOMAIN received |-> s],
                             LAMBDA s : s \in Span /\ s \notin run.first..run.last)
        rates == [i \in DOMAIN outside |-> Rate("volumetric", outside[i])]
        peak == Max({Rate("volumetric", s) : s \in run.first..run.last})
    IN \/ outside = <<>>
       \/ Median2(rates) = 0
       \/ 2 * peak >= Median2(rates) * BaselineFactor

Candidates(kind) == {r \in Runs(kind) : kind = "volumetric" => AboveBaseline(r)}

\* The second pass: the sources of what counted in the window.
FloodSources(kind, run) ==
    UNION {{p.src : p \in {q \in received[s] : CountsFor(kind, q)}} : s \in run.first..run.last}

Event(kind, run) == [kind |-> kind, first |-> run.first, last |-> run.last, sources |-> FloodSources(kind, run)]

\* One or two sources of SIP requests are left to the security engine.
SpecificEvents ==
    UNION {{e \in {Event(k, r) : r \in Candidates(k)} : k = "sip" => Cardinality(e.sources) >= 3} :
              k \in Specific}

\* e["start"] <= b + 1 and a <= e["end"], where an event ends one second after its last.
Explained(run) == \E e \in SpecificEvents : e.first <= run.last + 1 /\ run.first <= e.last + 1

VolumetricEvents == {Event("volumetric", r) : r \in {q \in Candidates("volumetric") : ~Explained(q)}}

Events == SpecificEvents \cup VolumetricEvents

-----------------------------------------------------------------------------
(* Properties.                                                             *)

\* A run as one would define it: it starts and ends above the threshold, no two
\* seconds in a row inside are below it, nor does it go on at either end.
IsRun(hot, a, b) ==
    /\ {a, b} \subseteq hot
    /\ \A s \in a..(b - 1) : {s, s + 1} \cap hot # {}
    /\ {a - 2, a - 1, b + 1, b + 2} \cap hot = {}

\* The candidates are all the runs, each once: none is split at a dip of one
\* second, none joined across a longer one, none lost at the ends of the capture.
RunsExact ==
    \A k \in Kinds :
        LET hot == {s \in DOMAIN received : Rate(k, s) >= Minimum[k]}
        IN Runs(k) = {r \in [first : hot, last : hot] :
                         /\ r.first <= r.last /\ IsRun(hot, r.first, r.last)
                         /\ r.last - r.first + 1 >= MinLen}

\* Why a volumetric event need not last: the rest of the capture has come to a
\* volume like its own, or a specific event beside it has come to explain it.
TakenBack(e) ==
    LET run == [first |-> e.first, last |-> e.last]
    IN  e.kind = "volumetric" /\ (~AboveBaseline(run) \/ Explained(run))

\* What has been reported of a flood that is over stays as it is while the
\* capture goes on, once the capture is as long as a flood must be.  Only
\* volumetric floods can be taken back: they are judged by the median of what
\* else the capture holds (analyze_ddos), which more traffic may raise.
PastEventsStay ==
    [][Cardinality(Span) >= MinSeconds =>
          \A e \in Events : e.last + 2 <= Len(received) =>
              e \in Events' \/ TakenBack(e)']_received
=============================================================================
