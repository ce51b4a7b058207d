----------------------------- MODULE TcpStream -----------------------------
(***************************************************************************)
(* SIP over TCP: the filter of extract_sip_messages, _reassemble_tcp_sip,  *)
(* _find_sip_start and _extract_one_message of sip.py, for one direction   *)
(* of one pair of ports, which two connections may use one after the other.*)
(*                                                                         *)
(* The sender's byte stream is a sequence of cells, cut into segments that *)
(* the sensor captures with losses, in any order, repeated, and cut in     *)
(* other places when they are sent again.  A message is a start line, more *)
(* header, the blank line and a body; Content-Length counts the cells of   *)
(* the body, two of which may be one character (a "lead" and its "cont").  *)
(***************************************************************************)
EXTENDS Absence, Integers, SequencesExt

CONSTANTS Messages,   \* Messages[c]: of connection c, sequences of kinds of cells
          Segments,   \* [conn, off, len]: the segments sent, from offset 0
          Firsts,     \* Firsts[c]: what its initial sequence number may be
          Modulus,    \* 2^32: sequence numbers wrap here
          MaxPackets  \* bound: packets kept, and segments left out

Body == {"char", "lead", "cont"}
Kinds == {"start", "head", "blank"} \cup Body

Connections == DOMAIN Messages

\* The cells of a message, and all those that a connection sends.
Cells(c, m) ==
    [j \in 1..Len(Messages[c][m]) |-> [conn |-> c, msg |-> m, kind |-> Messages[c][m][j]]]
Stream == [c \in Connections |-> FlattenSeq([m \in 1..Len(Messages[c]) |-> Cells(c, m)])]

WellFormed(msg) == \E b \in 2..Len(msg) :
    /\ msg[1] = "start" /\ \A j \in 2..(b - 1) : msg[j] = "head"
    /\ msg[b] = "blank" /\ \A j \in (b + 1)..Len(msg) : msg[j] \in Body

ASSUME TcpAssumption ==
    /\ Messages \in Seq(Seq(Seq(Kinds)))
    /\ \A c \in Connections : \A m \in 1..Len(Messages[c]) : WellFormed(Messages[c][m])
    /\ Modulus \in Nat /\ \A c \in Connections : Firsts[c] \subseteq 0..(Modulus - 1)
    /\ \A c \in Connections : 2 * Len(Stream[c]) < Modulus
    /\ Segments \subseteq [conn : Connections, off : Nat, len : Nat \ {0}]
    /\ \A s \in Segments : s.off + s.len <= Len(Stream[s.conn])
    /\ None \notin Int

VARIABLES captured,   \* the list in tcp_streams, by time: [conn, off, len]
          sensed,     \* all segments that the sensor captured, kept or not
          onSipPort,  \* one of the two ports is 5060 or 5061
          first       \* first[c]: initial sequence number of connection c

streamVars == <<captured, sensed, onSipPort, first>>

Init ==
    /\ captured = <<>> /\ sensed = {} /\ onSipPort \in BOOLEAN
    /\ first \in {f \in [Connections -> 0..(Modulus - 1)] : \A c \in Connections : f[c] \in Firsts[c]}

\* _looks_like_sip
LooksLikeSip(s) == Stream[s.conn][s.off + 1].kind = "start"

\* The filter: on other ports a segment must look like SIP by its own first bytes.
PassesFilter(s) == onSipPort \/ LooksLikeSip(s)

\* The ports are used again only when the connection before is over.
Capture == \E s \in Segments :
    /\ Len(captured) + Cardinality({t \in sensed : ~PassesFilter(t)}) < MaxPackets
    /\ \A t \in sensed : t.conn <= s.conn
    /\ sensed' = sensed \cup {s}
    /\ captured' = IF PassesFilter(s) THEN Append(captured, s) ELSE captured
    /\ UNCHANGED <<onSipPort, first>>

Next == Capture
Spec == Init /\ [][Next]_streamVars

-----------------------------------------------------------------------------
(* Segments into chunks.                                                   *)

TcpSeq(p) == (first[captured[p].conn] + captured[p].off) % Modulus
Payload(p) == SubSeq(Stream[captured[p].conn], captured[p].off + 1, captured[p].off + captured[p].len)

Abs(x) == IF x < 0 THEN -x ELSE x

\* Wrong on purpose: sequence numbers are taken as they are.
UnwrapRaw(seq, reference) == seq

\* _unwrap32: the nearest of three candidates, the first of them on a tie.
Unwrap32(seq, reference) ==
    LET base == (reference \div Modulus) * Modulus
        candidates == <<base + seq, base - Modulus + seq, base + Modulus + seq>>
        Dist(i) == Abs(candidates[i] - reference)
    IN candidates[CHOOSE i \in 1..3 :
          \A j \in 1..3 : Dist(i) <= Dist(j) /\ (Dist(i) = Dist(j) => i <= j)]

\* The extended number of a packet; the reference follows the highest.
Unwrap(s, p) ==
    LET ext == Unwrap32(TcpSeq(p), s.ref) IN
    [ref |-> Max({s.ref, ext}), exts |-> Append(s.exts, ext)]

Extended ==
    LET upTo[n \in 0..Len(captured)] ==
          IF n = 0 THEN [ref |-> IF captured = <<>> THEN 0 ELSE TcpSeq(1), exts |-> <<>>]
          ELSE Unwrap(upTo[n - 1], n)
    IN upTo[Len(captured)].exts

\* Packets by extended number; equal ones stay in the order of their time.
Before(exts, p, q) == exts[p] < exts[q] \/ (exts[p] = exts[q] /\ p < q)
SortedPackets(exts) ==
    [n \in 1..Len(exts) |-> CHOOSE p \in 1..Len(exts) :
        Cardinality({q \in 1..Len(exts) : Before(exts, q, p)}) = n - 1]

\* Wrong on purpose: a gap does not end the chunk.
AddSegmentNoGap(s, seq, p) ==
    LET next == IF s.next = None THEN seq ELSE Max({seq, s.next})
        overlap == next - seq
        piece == SubSeq(Payload(p), overlap + 1, captured[p].len)
    IN IF overlap >= captured[p].len THEN [s EXCEPT !.next = next]
       ELSE [s EXCEPT !.next = next + Len(piece), !.buf = @ \o piece,
                      !.spans = Append(@, [first |-> Len(s.buf) + 1,
                                           last |-> Len(s.buf) + Len(piece), packet |-> p])]

\* One iteration of the loop over the sorted segments: a gap ends the chunk,
\* and of what is already there nothing is added again.
AddSegment(s, seq, p) ==
    LET gap == s.next # None /\ seq > s.next
        t == IF gap THEN [next |-> seq, buf |-> <<>>, spans |-> <<>>,
                          chunks |-> IF s.buf = <<>> THEN s.chunks
                                     ELSE Append(s.chunks, [data |-> s.buf, spans |-> s.spans])]
             ELSE [s EXCEPT !.next = IF @ = None THEN seq ELSE @]
        overlap == t.next - seq
        piece == SubSeq(Payload(p), overlap + 1, captured[p].len)
    IN IF overlap >= captured[p].len THEN t
       ELSE [next |-> t.next + Len(piece), buf |-> t.buf \o piece,
             spans |-> Append(t.spans, [first |-> Len(t.buf) + 1,
                                        last |-> Len(t.buf) + Len(piece), packet |-> p]),
             chunks |-> t.chunks]

Chunks ==
    LET exts == Extended
        order == SortedPackets(exts)
        upTo[n \in 0..Len(exts)] ==
          IF n = 0 THEN [next |-> None, buf |-> <<>>, spans |-> <<>>, chunks |-> <<>>]
          ELSE AddSegment(upTo[n - 1], exts[order[n]], order[n])
        end == upTo[Len(exts)]
    IN IF end.buf = <<>> THEN end.chunks
       ELSE Append(end.chunks, [data |-> end.buf, spans |-> end.spans])

-----------------------------------------------------------------------------
(* Chunks into messages.                                                   *)

\* decode("utf-8", "replace"): a lead and its continuation make one character.
Decode(data) ==
    LET upTo[n \in 0..Len(data)] ==
          IF n = 0 THEN <<>>
          ELSE IF n > 1 /\ data[n].kind = "cont" /\ data[n - 1].kind = "lead" THEN upTo[n - 1]
          ELSE Append(upTo[n - 1], data[n])
    IN upTo[Len(data)]

\* The first place of a kind of cell from a place on, None when there is none.
Find(text, kind, from) ==
    LET places == {i \in from..Len(text) : text[i].kind = kind} IN
    IF places = {} THEN None ELSE Min(places)

ContentLength(msg) ==
    Cardinality({j \in 1..Len(msg) : msg[j] \in Body})

\* _extract_one_message: the last place of the message that starts here, None
\* when it is not all there.
ExtractOneMessage(text, start) ==
    LET blank == Find(text, "blank", start)
        end == blank + ContentLength(Messages[text[start].conn][text[start].msg]) IN
    IF blank = None THEN None ELSE IF end > Len(text) THEN None ELSE end

\* The packet whose span holds the place, else that of the first span.
Anchor(spans, place) ==
    LET holding == {h \in 1..Len(spans) : place \in spans[h].first..spans[h].last} IN
    IF holding = {} THEN spans[1].packet ELSE spans[Min(holding)].packet

\* One iteration of the while loop over a chunk; after a break nothing changes.
Report(text, spans, s) ==
    LET start == Find(text, "start", s.cursor)
        end == ExtractOneMessage(text, start)
    IN IF start = None THEN s
       ELSE IF end = None THEN s
       ELSE [cursor |-> end + 1,
             out |-> Append(s.out, [raw |-> SubSeq(text, start, end), anchor |-> Anchor(spans, start)])]

\* What the loop reports, in order.  A message has a place or more.
Parse(chunk) ==
    LET text == Decode(chunk.data)
        upTo[k \in 0..Len(text)] ==
          IF k = 0 THEN [cursor |-> 1, out |-> <<>>] ELSE Report(text, chunk.spans, upTo[k - 1])
    IN upTo[Len(text)].out

Results == LET chunks == Chunks IN FlattenSeq([i \in 1..Len(chunks) |-> Parse(chunks[i])])

-----------------------------------------------------------------------------
(* Properties.                                                             *)

\* Offsets kept of a connection; where each message is in its stream.
Seen(c) ==
    UNION {captured[p].off .. captured[p].off + captured[p].len - 1 :
              p \in {q \in 1..Len(captured) : captured[q].conn = c}}
Offsets(c, m) == {o \in 0..(Len(Stream[c]) - 1) : Stream[c][o + 1].msg = m}
Raw(c, m) == Decode(Cells(c, m))

\* Offsets that the sensor captured and that can be told to be SIP: on a SIP port
\* all of them, on other ports those of segments that begin with a message.
BeginsMessage(s) == \E m \in 1..Len(Messages[s.conn]) : s.off = Min(Offsets(s.conn, m))
Recognizable(c) ==
    UNION {s.off .. s.off + s.len - 1 :
              s \in {t \in sensed : t.conn = c /\ (onSipPort \/ BeginsMessage(t))}}

\* The numbers of a later connection are all ahead of those before, or all
\* behind them, by less than half of the sequence space.
Numbers(c) == {(first[c] + o) % Modulus : o \in 0..(Len(Stream[c]) - 1)}
NumbersApart ==
    \A c, d \in Connections : c < d =>
        LET ahead == {(n[2] - n[1]) % Modulus : n \in Numbers(c) \X Numbers(d)}
        IN \/ \A n \in ahead : 0 < n /\ 2 * n < Modulus
           \/ \A n \in ahead : 2 * n > Modulus

\* What could be told to be SIP, whole, is in these results, once and on a packet that
\* carried its first byte; and what is in them was kept whole, in the order it was sent.
Complete(results) ==
    \A c \in Connections : \A m \in 1..Len(Messages[c]) :
        LET reports == {i \in 1..Len(results) : results[i].raw = Raw(c, m)} IN
        Offsets(c, m) \subseteq Recognizable(c) =>
            /\ Cardinality(reports) = 1
            /\ \A i \in reports :
                  LET p == captured[results[i].anchor]
                  IN p.conn = c /\ Min(Offsets(c, m)) \in p.off .. p.off + p.len - 1
Sound(results) ==
    /\ \A i \in 1..Len(results) : \E c \in Connections : \E m \in 1..Len(Messages[c]) :
           Offsets(c, m) \subseteq Seen(c) /\ results[i].raw = Raw(c, m)
    /\ \A i, j \in 1..Len(results) :
           LET a == results[i].raw[1] b == results[j].raw[1]
           IN i < j /\ a.conn = b.conn => a.msg < b.msg

\* A message all of whose bytes were captured is reported, whole and once, with
\* the time of a packet that carried its first byte, however its segments were
\* cut, repeated, reordered or numbered and whatever was lost around it; also
\* when the ports had been used before, with numbers apart from these.  On ports
\* other than 5060 and 5061 this holds only of bytes in segments that begin with a
\* message: the filter drops the others, so a message that continues in a segment
\* of its own is lost there, but takes no other message with it.
MessagesRecovered == NumbersApart => Complete(Results)

\* Nothing else is reported, and what is comes in the order it was sent: two
\* sides of a gap, or of two connections, are never put together.
NothingInvented == NumbersApart => Sound(Results)
=============================================================================
