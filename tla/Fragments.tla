----------------------------- MODULE Fragments -----------------------------
(***************************************************************************)
(* IP fragment reassembly: reassemble_fragments and _try_assemble in       *)
(* capture.py.                                                             *)
(*                                                                         *)
(* Hosts send datagrams cut into fragments; the sensor captures them with  *)
(* losses, in any order, and sometimes more than once.  A datagram         *)
(* of Length[d] cells carries the cells <<d, 0>>, <<d, 1>>, ..., the first *)
(* of which holds its L4 header, and hosts reuse an identification only    *)
(* after more than Timeout (the 30 s of FRAGMENT_TIMEOUT_S).  The code     *)
(* walks the packet list once; iteration i reads packets 1..i only, so the *)
(* walk is interleaved here with the capture it reads.                     *)
(***************************************************************************)
EXTENDS Absence, Integers, FiniteSets, SequencesExt

CONSTANTS Datagrams,  \* 1..n, in the order they are sent
          Key,        \* (version, src, dst, ident, proto) of each datagram
          Length,     \* cells of each datagram, as its UDP header says, the header's included
          Fragment,   \* [dg, off, len, more] records on the wire
          Timeout,
          MaxTime,    \* bound: the clock
          MaxPackets  \* bound: packets in the capture

\* The first n cells of datagram d.
Cells(d, n) == [k \in 1..n |-> <<d, k - 1>>]

ASSUME FragmentAssumption ==
    /\ Datagrams \subseteq Nat /\ Timeout \in Nat
    /\ \A d \in Datagrams : Length[d] \in Nat \ {0} /\ \A n \in 1..Length[d] : Cells(d, n) # None
    /\ \A f \in Fragment : /\ f.dg \in Datagrams /\ f.len \in Nat \ {0} /\ f.off \in Nat
                           /\ f.off + f.len <= Length[f.dg]
                           /\ f.more <=> f.off + f.len < Length[f.dg]

VARIABLES captured,  \* the packets: [frag, ts]
          pending,   \* pending[key]: indices of the fragments waiting
          info,      \* info[i]: packet i still has its frag_info
          payload,   \* payload[i]: cells handed to the L4 parsers, or None
          now, finished

fragmentVars == <<captured, pending, info, payload, now, finished>>

Keys == {Key[d] : d \in Datagrams}

-----------------------------------------------------------------------------
(* The operators of capture.py.                                            *)

Chunk(f) == [n \in 1..f.len |-> <<f.dg, f.off + n - 1>>]

Least(a, b) == IF a < b THEN a ELSE b

\* buf[off:end] = chunk[: end - off], with the meaning Python gives to a slice
\* that starts beyond the buffer and to a negative length.
Splice(buf, f, total) ==
    LET end == Least(total, f.off + f.len)
        start == Least(f.off, Len(buf))
        stop == IF end < start THEN start ELSE end
        kept == IF end >= f.off THEN end - f.off ELSE f.len - (f.off - end)
    IN  SubSeq(buf, 1, start) \o SubSeq(Chunk(f), 1, kept)
            \o SubSeq(buf, stop + 1, Len(buf))

Blank(total) == [c \in 1..total |-> None]

\* The loop over the fragments, up to the n-th.
Spliced(frags, n, total) ==
    LET upTo[k \in 0..n] == IF k = 0 THEN Blank(total)
                            ELSE Splice(upTo[k - 1], frags[k], total)
    IN upTo[n]

TryAssemble(frags) ==
    LET last == {n \in DOMAIN frags : ~frags[n].more}
        total == frags[Min(last)].off + frags[Min(last)].len
        covered == {k \in 0..(total - 1) :
                      \E n \in DOMAIN frags :
                         /\ frags[n].off <= k
                         /\ k < Least(total, frags[n].off + frags[n].len)}
    IN  IF last = {} THEN None
        ELSE IF covered # 0..(total - 1) THEN None
        ELSE Spliced(frags, Len(frags), total)

\* _decode_l4 on UDP: what follows the length in the header is dropped.
DecodeL4(data) == SubSeq(data, 1, Least(Len(data), Length[data[1][1]]))

\* Wrong on purpose: the timeout also strikes when it is just reached.
WaitingInclusive(key, ts) ==
    IF pending[key] # <<>> /\ ts - captured[Head(pending[key])].ts >= Timeout
    THEN <<>> ELSE pending[key]

\* Wrong on purpose: identifications are never forgotten.
WaitingForever(key, ts) == pending[key]

\* The fragments waiting under key when a packet arrives at time ts.
Waiting(key, ts) ==
    IF pending[key] # <<>> /\ ts - captured[Head(pending[key])].ts > Timeout
    THEN <<>> ELSE pending[key]

-----------------------------------------------------------------------------
FragmentInit ==
    /\ captured = <<>> /\ pending = [k \in Keys |-> <<>>]
    /\ info = <<>> /\ payload = <<>> /\ now = 0 /\ finished = FALSE

\* Wrong on purpose: the other fragments stay as they are, and pending.
ReassembledAside(key, idxs, data) ==
    /\ payload' = Append(payload, DecodeL4(data))
    /\ info' = Append(info, FALSE)
    /\ pending' = [pending EXCEPT ![key] = idxs]

\* Wrong on purpose: every fragment of the identification loses its payload.
ReassembledByKey(key, idxs, data) ==
    /\ payload' = Append([n \in DOMAIN payload |->
                            IF Key[captured[n].frag.dg] = key THEN None ELSE payload[n]],
                         DecodeL4(data))
    /\ info' = Append([n \in DOMAIN info |-> info[n] /\ n \notin Range(idxs)], FALSE)
    /\ pending' = [pending EXCEPT ![key] = <<>>]

\* The packet makes its datagram whole: it carries the datagram from now on,
\* and the other fragments become packets without payload.
Reassembled(key, idxs, data) ==
    /\ payload' = Append([n \in DOMAIN payload |->
                            IF n \in Range(idxs) THEN None ELSE payload[n]],
                         DecodeL4(data))
    /\ info' = Append([n \in DOMAIN info |-> info[n] /\ n \notin Range(idxs)], FALSE)
    /\ pending' = [pending EXCEPT ![key] = <<>>]

StillWaiting(key, idxs) ==
    /\ payload' = Append(payload, None)
    /\ info' = Append(info, TRUE)
    /\ pending' = [pending EXCEPT ![key] = idxs]

\* What hosts and network may do: see the head of the module.
MayArrive(f) ==
    \A n \in 1..Len(captured) :
        LET g == captured[n].frag
        IN  (g.dg # f.dg /\ Key[g.dg] = Key[f.dg])
               => g.dg < f.dg /\ now - captured[n].ts > Timeout

\* One iteration of the loop, on a captured fragment.
Capture(f) ==
    LET key == Key[f.dg]
        all == Append(captured, [frag |-> f, ts |-> now])
        idxs == Append(Waiting(key, now), Len(all))
        data == TryAssemble([n \in 1..Len(idxs) |-> all[idxs[n]].frag])
    IN  /\ ~finished /\ Len(captured) < MaxPackets /\ MayArrive(f)
        /\ captured' = all
        /\ IF data = None THEN StillWaiting(key, idxs)
           ELSE Reassembled(key, idxs, data)
        /\ UNCHANGED <<now, finished>>

Tick ==
    /\ ~finished /\ now < MaxTime
    /\ now' = now + 1
    /\ UNCHANGED <<captured, pending, info, payload, finished>>

\* Wrong on purpose: the fallback is left out.
FinishWithout ==
    /\ ~finished
    /\ finished' = TRUE
    /\ info' = [n \in DOMAIN info |-> FALSE]
    /\ UNCHANGED <<captured, pending, payload, now>>

\* The last loop: a first fragment is decoded as it is.
Finish ==
    LET left == UNION {Range(pending[k]) : k \in Keys}
    IN  /\ ~finished
        /\ finished' = TRUE
        /\ payload' = [n \in DOMAIN payload |->
                         IF n \in left /\ info[n] /\ captured[n].frag.off = 0
                         THEN DecodeL4(Chunk(captured[n].frag)) ELSE payload[n]]
        /\ info' = [n \in DOMAIN info |-> info[n] /\ n \notin left]
        /\ UNCHANGED <<captured, pending, now>>

FragmentNext == (\E f \in Fragment : Capture(f)) \/ Tick \/ Finish

FragmentSpec == FragmentInit /\ [][FragmentNext]_fragmentVars

-----------------------------------------------------------------------------
(* Properties.                                                             *)

PacketsOf(d) == {n \in 1..Len(captured) : captured[n].frag.dg = d}
Decoded(d) == {n \in 1..Len(payload) : payload[n] # None /\ payload[n][1][1] = d}

\* All that was captured of d came within Timeout of the first piece.
Prompt(d) == \A m, n \in PacketsOf(d) : captured[n].ts - captured[m].ts <= Timeout
Complete(d) == \A k \in 0..(Length[d] - 1) :
                  \E n \in PacketsOf(d) : LET f == captured[n].frag
                                          IN f.off <= k /\ k < f.off + f.len
KeyNotReused(d) == \A e \in Datagrams : e > d /\ Key[e] = Key[d] => PacketsOf(e) = {}

\* What is decoded is a datagram that was sent, from its first cell on:
\* pieces of two datagrams that used the same identification never mix, and
\* overlapping fragments never shift the content (_try_assemble).
PayloadsPure ==
    \A n \in 1..Len(payload) : payload[n] # None =>
        \E d \in Datagrams : \E len \in 1..Length[d] : payload[n] = Cells(d, len)

\* A datagram whose fragments all arrived within the timeout is decoded in
\* full, whatever their order, their overlaps and their repetitions.
CompleteIsDecoded ==
    \A d \in Datagrams : Complete(d) /\ Prompt(d) =>
        \E n \in Decoded(d) : payload[n] = Cells(d, Length[d])

\* What the fallback is for: a datagram that stayed incomplete, its pieces in
\* time, of which the first fragment was captured.
Stump(d) == Prompt(d) /\ ~Complete(d) /\ \E n \in PacketsOf(d) : captured[n].frag.off = 0

\* The docstring of reassemble_fragments: "Incomplete datagrams fall back to
\* decoding the first fragment as-is."  The code does not do it when the
\* identification is used again: idxs.clear() puts the first fragment out of
\* reach of the last loop.
FirstFragmentUsed == finished => \A d \in Datagrams : Stump(d) => Decoded(d) # {}

\* What is left of that promise: no repetition, no other datagram and no timeout
\* of another identification keeps the first fragment of an incomplete datagram
\* from the L4 parsers, as long as nobody uses its own identification again.
FallbackUsed ==
    finished => \A d \in Datagrams : Stump(d) /\ KeyNotReused(d) => Decoded(d) # {}

\* A datagram of which no cell was captured twice is decoded at most once,
\* reassembled or not, though pieces of it may have been given up before.
Disjoint(f, g) == f.off + f.len <= g.off \/ g.off + g.len <= f.off
ParsedOnce ==
    \A d \in Datagrams :
        (\A m, n \in PacketsOf(d) : m # n => Disjoint(captured[m].frag, captured[n].frag))
            => Cardinality(Decoded(d)) <= 1

\* A reassembled datagram is parsed once: its fragments "carry no L4 payload,
\* so SIP/RTP is never parsed twice" (docstring of reassemble_fragments).
ReassembledOnce ==
    \A d \in Datagrams :
        (\E n \in Decoded(d) : payload[n] = Cells(d, Length[d]))
            => Cardinality(Decoded(d)) = 1

\* Once a datagram is decoded in full it stays so, on the same packet: later
\* fragments, duplicates and the final pass never take it back.
DecodedStays ==
    [][\A n \in 1..Len(payload) : payload[n] # None => payload'[n] = payload[n]]_fragmentVars
=============================================================================
