# A formal model of Sip-Network

Sip-Network reads a packet capture (pcap or pcapng), rebuilds the SIP calls, registrations and RTP
streams in it, and reports what went wrong: loss and jitter, calls that were refused or cut, missing
ACKs, NAT trouble, floods, brute force. It runs as a library, a command line, a Streamlit dashboard
and an HTTP service.

What makes it hard to test is its input. The code itself is mostly sequential; the captures are the
concurrent part: messages of several parties that are lost, repeated, reordered and cut by the
network, counters that wrap, forks and CANCELs that cross. So most modules here have two halves. One
half is the world: senders, networks and user agents, as state and actions that also remember what
really happened. The other half is the code, as operators on what was captured, or as actions that
consume it. A property then says that **the report is what happened**. The service is the one part
with threads of its own, and is modelled as such.

1. [The system](#the-system)
2. [Modules and code](#modules-and-code)
3. [Runs](#runs)
4. [Disagreements found](#disagreements-found)
5. [Proofs](#proofs)
6. [What is not modelled](#what-is-not-modelled)
7. [Plan](#plan)

## The system

`engine.analyze_bytes` is the pipeline, a fixed sequence of pure functions:

    read_capture -> extract_sip_messages -> build_calls(messages, capture_end)
      -> analyze_rtp(packets, calls) -> request_transactions -> analyze_registrations
      -> analyze_sip_security -> analyze_icmp_errors -> analyze_nat -> analyze_ddos
      -> diagnose -> analyze_network -> compute_kpis -> build_charts

No function keeps state between captures; the state below is what a function accumulates while it
walks one. Components interact through the lists they pass on, so an error made early (a message lost
in TCP reassembly, a flow given to the wrong call) is taken for truth by all that follows. The only
shared mutable state of a running service is the semaphore `SLOTS` of `api.py`.

| Component | State | Operations | What is hard | Correct when |
|---|---|---|---|---|
| Capture readers, `capture.py` | byte order, interfaces of the section, packet number | one block or record at a time | several sections, damaged blocks, truncated files | a packet has the link type and clock of its own interface, and none is lost or numbered twice |
| Fragment reassembly, `capture.py` | `pending` by identification, the packet list that is rewritten in place | one fragment; the final pass | reordering, overlap, repetition, reuse of an identification after 30 s | a datagram is decoded once, in full if possible, never mixed with another |
| SIP over TCP, `sip.py` | extended sequence numbers, chunk buffer, spans, cursor | one segment; one message | wrap, overlap, retransmission in other cuts, gaps, bytes and characters | exactly the complete messages come out, in order, with the right time |
| Call builder, `sip.py` | attempts, responses, dialogs, hold flag, seen keys | one call from its messages | forking, challenges, CANCEL that crosses an answer, CSeq of both sides, retransmissions | outcome, ACKs, sides, holds, transfers are those of the user agents |
| SDP, `sdp.py` | session address, current medium, pending attributes | one line | levels, order of attributes, repeated payload types | each medium has what its section, else the session, says |
| RTP streams, `rtp.py` | highest extended number, `seen`, transit, jitter | one packet | 16-bit and 32-bit wrap, late and repeated packets | the counters are those of the sender and the network |
| Flow attribution, `rtp.py` | `media_endpoints` of the calls | score, choose | ports reused, calls between the same hosts, repeated SDP | a flow belongs to the call that announced it |
| RTCP, `rtcp.py`, `rtp.py` | last report of an SSRC | one report block | 32-bit NTP wrap, late reports, signed loss | RTT is the path, loss keeps its sign |
| Registrations, `registrations.py` | transactions by branch and CSeq | one request; one response | two hops, resends, challenges, stale nonces | state and counts are the registrar's |
| Security, `security.py` | sets and times per source | one message | thresholds over whole captures | an alert is raised for real attacks only |
| Floods, `ddos.py` | packets per kind, target and second | runs, candidates, events | dips, edges of the capture, overlapping floods | each flood is one event with its own sources |
| NAT, `nat.py` | devices by source address | one message, one call | devices behind one address | findings name the right device |
| Diagnostics, `diagnostics.py` | none | rules on calls and streams | rules that relate signalling and media | a rule fires when its description holds |
| Network, ICMP, KPI, E-model, Q.850, ladder, charts | none worth naming | sums, ratios, tables, drawing | real arithmetic | formulas |
| HTTP API, `api.py` | `SLOTS`, handler locals | one request | handlers on threads, early returns, exceptions | slots are conserved, every request is answered |
| Command line, dashboard, demo capture | none | I/O | none | |

Everything is listed with its status in `PROJECT.json`, and so is each hazard at the line where it
bites, with the properties that cover it or the reason that none does.

## Modules and code

One module per component; `MC*.tla` give the constants values that TLC can enumerate. Definitions named
`...Late`, `...Blind`, `...NoGap` and so on, commented "Wrong on purpose", are plausible bugs. Nothing
refers to them; putting one in place of its original must make a property fail, and does, for each
property of each passing run. The proofs of a component are in a module of their own, `*Proofs.tla`, which
extends it (see [Proofs](#proofs)).

Loops that a proof is about are written as recursive functions, one value per iteration: `Bursts`,
`EndpointScore`, the buffer of `TryAssemble`, `Runs`, `HoldState`, `Extended`, `Chunks`, `Decode`, `Parse`. The
prover can unfold those; a fold or a RECURSIVE operator it cannot.

Components that only pass finished lists to each other are checked together: `MCCapture` (pcapng blocks,
fragments), `MCText` (TCP, SDP), `MCMedia` (sequence, jitter, RTCP, attribution), `MCCall`
(signalling and its findings, media of one call, figures over calls, phones behind NAT) and `MCAlerts`
(registrations, floods, attacks) hold the variables of several modules and a variable `subject`, chosen once. A
behaviour takes steps of that module only and leaves the others in an initial state. This loses nothing:
none of them reads a variable of another, so the interleavings left out could not change what either
does; the states are then a sum instead of a product. Each property speaks of one component, and
is checked in the behaviours of that component.

**`RtpSequence`** (rtp.py, `_unwrap16`, `_burst_ratio`, first loop of `analyze_rtp`). `Account` is one
iteration of the loop; `highest`, `seen`, `duplicates`, `ooo` are the variables of the code and
`arrivals` the length of `ext_seqs`. `Witness` is the truth: which packet it was. The network may lose
and repeat anything and displace a packet by up to `Window` < `Modulus`/2, the only assumption that
makes 16 bits meaningful.
**`LossLedger`** is what the loop promises: counters kept with unbounded numbers (a packet is new, late
or a duplicate). `RtpSequence` implements it under the mapping that adds the cycles before the first
packet to each extended number. `Bursts` is one pass over the numbers; the code keeps a list of burst lengths
and uses nothing of it but its mean, so their sum and number are kept here.

**`RtpJitter`** (second loop). Times are in RTP clock units; the value after n differences is kept as
a numerator over 16^n, so the division is exact. The RFC 3550 A.8 algorithm runs alongside in 32-bit
arithmetic.

**`RtpCallMatch`** (`_endpoint_match`, `_choose_call`, and the `media_endpoints` of `build_calls`). Calls are
set up, refreshed and ended while `time` passes, on any ports, also those of a call that is up or has just ended;
`started` and `ended` give the window in which a call gets two points more (`InWindow`), from 2 seconds
before it to 5 seconds after. `flows` records when each flow started and to which call it really belongs; it may
start as late as the window lets it, from a party that has not heard of the BYE.

**`RtcpRtt`** (`parse_rtcp_reports`, `_ntp_middle32`, `last_report`). Sender and receiver reports
travel with delay and loss; `Middle32` is the clock modulo `Modulus`. The capture's clock is the
clock of the sender of the sender report: the code has no way to correct a skew, and no property about
the number would hold with one.

**`Fragments`** (`reassemble_fragments`, `_try_assemble`, `_decode_l4`). The code walks the list once,
and iteration i reads packets 1..i only, so `Capture` is the arrival of a fragment and its iteration in
one step. A cell of payload carries its datagram and its place, so mixing and shifting are visible.
`info[i]` says whether packet i still has its `frag_info`, `payload[i]` what was handed on.
`Splice` is the slice assignment with the meaning Python gives it when bounds cross.

**`PcapNg`** (`_read_pcapng`). A step is one block, written and read. The writer's variables
(`section`, `written`) are the truth; `endian`, `interfaces`, `number` are the reader's.

**`TcpStream`** (the filter of `extract_sip_messages`, `_looks_like_sip`, `_unwrap32`, `_reassemble_tcp_sip`,
`_find_sip_start`, `_extract_one_message`). `sensed` is all that was captured, `captured` what the filter let pass:
everything if a port is 5060 or 5061 (`onSipPort`), else the segments whose own first bytes look like SIP. `Extended`, `SortedPackets`, `Chunks`, `Parse`, `Results` are the stages of
the code, and `Unwrap`, `AddSegment`, `Report` one iteration of its three loops. A cell is a start line, more
header, the blank line or a byte of the body, and remembers its message (`WellFormed`). Later connections may
use the ports after the first; the code unwraps all against one reference, so `NumbersApart` says when that
keeps them apart.

**`Outcomes`** (`classify_outcome`, `OUTCOME_SEVERITY`) is shared by what is said of one call and of all.
**`SipCall`** holds the operators of `build_calls` and `_sender_side` on the messages of one Call-ID.
**`SipSignalling`** is the user agents around it: a caller, a proxy that challenges, forked callees,
CANCEL, ACK, BYE of both sides, re-INVITE, UPDATE, REFER and retransmissions. The callees number their
requests for themselves, from numbers that may be those of the caller. All of it is external (RFC 3261,
and the way the tests script calls); it exists to have a truth. A message has the fields that
`parse_sip_message` extracts and the builder reads. The Via branch and the addresses follow from the
others and are not kept.

**`CallReport`** (`_call_rules`, the rules on signalling) turns such a call into findings with their
severity. Time is the place in the capture, so the post-dial delay is a number of messages; a call without a
reaction has none and no finding about it, whatever the thresholds (`pdd_ms is not None`, diagnostics.py:98).
The truth of it is `Waited`: until the first progress, which a challenge is not.

**`CallKpis`** (`_call_kpis`, `_by_peer`, `_failing_destinations`, and the findings that go with them) is the
capture as `build_calls` summarises it: final status, answered, cancelled, heard of. Calls get
responses of several forks, are challenged and tried again.

**`CallMedia`** (`_call_rules` on missing ACK, the drop at 32 seconds, one-way audio and RTP after the
BYE; section 3 of `analyze_nat`). A phone is on the LAN of a server, in the open, or behind NAT; both talk,
change SSRC and hang up, the server gives up for want of an ACK (Timer H), BYEs cross or get lost, a
firewall stops the phone's RTP, the server may answer to where it hears the phone. The truth is what
each party heard (`heard`) and when it was told (`told`); what was captured is `streams`, `byes` and `ack`,
and the code is the operators on those. The sensor is next to the server: docs/TECHNICAL_NOTES.md:17 says
that one-way audio is what the sensor sees, so RTP lost behind it is no subject of these rules. It has
its own answer and BYEs instead of `SipSignalling`'s, since the rules read nothing else of the call.

**`Sdp`** (`parse_sdp`, `_is_hold`). One action per kind of line; `meant` is what the writer put into
the description, `session`, `media`, `pending` are `session_ip`, `media`, `pending_fmtp`.

**`Registrations`** (`request_transactions`, `analyze_registrations`, the credential attacks of
`analyze_sip_security`). A user agent registers through a proxy, and the capture sees both hops; the
registrar's `verdicts` are the truth. Hops stand for source addresses and Via branches. The capture may
miss messages: then only `RegisteredMeansAccepted` is claimed, the counts are of what it saw.

**`SipSecurity`** (`analyze_sip_security`, `analyze_registrations`, the findings of `diagnose` on
registrations). The state is the list of transactions of `request_transactions`, which grows by requests
and by answers in any order; `Alerts` and `RegisterFindings` are the code on what there is so far. Its sources
are any, `Registrations` has the details of one.

**`NatDevices`** (sections 1 and 2 of `analyze_nat`). Phones register, call and answer through routers that
hide or rewrite; `devices` and `algSeen` are the variables of the loops, merged by source address, and `sent`
remembers which phone each message was of.

**`Floods`** (`_runs`, `analyze_ddos`). The capture grows by one second, a set of [kind, source, number
of packets]. One target: the code treats targets separately.

**`ApiServer`** (`analyze`, `_check_token`, `_thresholds`). Each `Handle` disjunct is one step of a
handler thread between points where other threads may run; `slots` is the semaphore. **`AnalysisSlots`**
is what it promises: at most `Capacity` analyses, and nobody turned away while one is free. Sending
again after an answer is allowed, so a run is a service that goes on for ever.

Modules that compose: `SipSignalling` with `SipCall`; `RtpSequence` with `LossLedger` and `ApiServer`
with `AnalysisSlots` as refinements.

Some properties carry a condition, because the code does not do better without it:

* `ParsedOnce`: no cell of the datagram was captured twice. What else happens is the run `fragments_twice`.
* `FallbackUsed`: the fragments arrived within the timeout, and the identification was not used again. With it
  used again, the first fragment is lost: that is the run `fragments_reuse`.
* `MediaAttributed`: every repeated SDP adds to the score of its call, so a call with an endpoint in common repeated
  it no more often than the call of the flow, one with only a port number in common at most once more,
  another one at most twice more (`FewRefreshes`). A flow is then never given to another call; it is given to its own
  unless a call on the same endpoints, with as many refreshes, is within its window too (`Rival`): the code then
  gives it to nobody, also when that call ended up to 5 seconds before. The proof needs `MediaOfHosts` besides: media
  come from hosts that signal for the call. With media servers of its own, a call has two points less than one
  whose media are where its signalling is.
* `MessagesRecovered`, `NothingInvented`: the sequence numbers of a second connection are all ahead of those
  before, or all behind, by less than half of the sequence space.
* `MessagesRecovered`: off the ports 5060 and 5061 a message is expected only if its bytes were in segments that
  begin with a message (`Recognizable`); the filter drops the others.
* `MissingAckFaithful`, `TransfersFaithful`, and what `DiagnosisFaithful` says of forks: no request of the
  callee has the CSeq number of the INVITE or REFER whose answers count. With equal numbers the code
  takes one answer for the other (see below).
* `DiagnosisFaithful`: a challenge that was sent again may count towards the challenge loop. A high post-dial
  delay is claimed of calls that were not challenged (`Unchallenged`); of a challenged one only that none is reported
  that the caller did not wait for, since the code ends the delay at the challenge.
* `PastEventsStay`: a volumetric flood may be taken back when the rest of the capture has come to a volume like
  its own, or when a specific flood beside it has come to explain it (`TakenBack`); others may not.
* `NatFindingsFaithful`: missing rport and long registrations are claimed in both directions only where the
  phones behind one address use one transport.
* `RegistrationsReported`: a guessing source is told by an alert instead of a finding, and that is all that is
  claimed of it.
* `CountsFaithful`: rejections are compared only where no challenge was for an aged nonce.
* `OneWayFaithful`: no one-way audio is claimed or denied before a stream has 20 packets, and its
  attribution to NAT is not claimed on a LAN. What happens there is the run `nat_lan`.
* `DropFaithful`: a call that the callee ended about 32 seconds after the answer is reported although the ACK
  arrived and its user hung up; the rule cannot tell, and its confidence is "medium".
* The call model makes offers and transfers in the dialog that was answered first.

## Runs

`tlc -config X.cfg M` with the pairs of the table. States are distinct states. Deadlock is not checked:
captures and the number of messages are bounded, so those models end by design; the service never ends
but its clients may stop sending.

| Run | Module, config | Checks | Bounds |
|---|---|---|---|
| capture | `MCCapture`, `MCCapture.cfg` | `PacketsOfTheirInterface`; `PayloadsPure`, `CompleteIsDecoded`, `FallbackUsed`, `ParsedOnce`, `DecodedStays` | 7 blocks, both byte orders, 3 interfaces; 3 datagrams, 2 on one identification, overlaps, repetitions, 4 packets, 4 ticks with a timeout of 1 (515 996 states) |
| text | `MCText`, `MCText.cfg` | `MessagesRecovered`, `NothingInvented`; `DescriptionFaithful` | 2 connections, 4 packets, wrap inside the stream, sequence space of 32, on a port of SIP or on others; 2 media of an SDP (305 481) |
| media | `MCMedia`, `MCMedia.cfg` | `LossExact`, `BurstsPartitionLoss`, `LateArrivalHeals`, `LedgerSpec`; `JitterPerRfc`; `ReportsFaithful`; `MediaAttributed` | modulus 8, window 3 (the greatest that 8 allows), 21 packets sent, 7 captured: two rollovers forward and back; 5 packets and 4 delays; NTP modulus 6 that wraps, 2 reports of each kind; 3 calls, one with an endpoint of another and a port number of the third, 2 refreshes, 1 flow, 3 instants with windows of 1 before and after (1 232 175) |
| call | `MCCall`, `MCCall.cfg` | `OutcomeFaithful`, `MissingAckFaithful`, `DisconnectFaithful`, `SidesFaithful`, `RetransmissionsFaithful`, `HoldsFaithful`, `TransfersFaithful`, `DiagnosisFaithful`; `OneWayFaithful`, `DropFaithful`, `ReleaseFaithful`; `RatiosOrdered`, `FailuresAgree`; `NatFindingsFaithful` | 2 callees, interchangeable, that number from 1 or 2, 3 attempts, 3 requests in the dialog, 1 repetition, 7 messages; 5 RTP packets, a direction counting from 2 and one-way audio from 3, 1 change of source, 2 seconds with Timer H at 1; 2 calls, 12 statuses; 5 phones, 2 routers, 3 different messages (719 091) |
| alerts | `MCAlerts`, `MCAlerts.cfg` | `StateFaithful`, `RegisteredMeansAccepted`, `CountsFaithful`; `RegistrationsReported`, `AlertsStay`; `RunsExact`, `PastEventsStay` | 3 requests, 4 responses, repetitions and missed messages in all; 3 transactions of 10 kinds from 2 sources; 6 seconds out of 6 kinds of second (432 747) |
| api | `MCApiServer`, `MCApiServer.cfg` | `SlotsConserved`, `SlotsSpec`, `EveryRequestAnswered` | 2 requests, 1 slot, fairness (12 649) |

Why the bounds are enough:

* Arithmetic modulo 2^16, 2^24 and 2^32 is scaled, not removed: each modulus stays small enough for a
  run to wrap (the sequence space more than once), and displacement, horizon and thresholds keep their
  relation to it. For sequence numbers, timestamps and NTP the proofs cover every modulus.
* Thresholds of `Floods` are 2 to 4 packets and 2 seconds instead of thousands and 3. The code only
  compares with them. Six seconds hold a run at either end, two runs, a dip of one second and one of two.
* Four fragments hold a complete datagram of two and one more of its identification, before it, after
  it, or repeated; or one of three that overlap. Seven blocks hold two sections with two interfaces and
  a packet each.
* A fork needs two callees and a crossing three messages, so seven messages hold a fork that is answered
  twice, acknowledged and hung up; two challenges and the retries, which is the threshold of the challenge loop, also
  reached by one challenge sent again; or a call of three messages with hold and resume, and a BYE. One repetition is
  every retransmission, since each message is compared with those before.
* One-way audio needs a stream above the greater limit (3), one between the limits (2) and a change of
  source or address between packets: five packets. Two seconds hold the answer, a drop at Timer H and RTP that
  is late after it.
* The ratios compare classes of calls, and two calls put any two classes next to each other; every status
  that a list of kpi.py or sip.py names, or leaves out, is one of the twelve.
* Thresholds of `SipSecurity` are 2 and 3, and its three transactions cross each of them from either side;
  two sources and two registrations per source hold a finding of each kind and its suppression.
* Three messages put two phones and a response behind one address in every order; the proof covers the rest.
* One flow at a time is enough for attribution: flows are attributed one by one, from the endpoints of
  the calls and nothing of other flows. Three instants hold a call, another on its ports at once, before or after it,
  and a flow within the window of one or of both.
* Two segments of a message, one of which the filter drops, and a message behind them need four packets at most.
* Two requests are the least that compete for a slot. Its liveness is not proved.
* What a theorem states holds for every value of these bounds. A run is then there to reach each kind of
  interleaving and that no hypothesis is empty: TLC evaluates every assumption of a module in each run
  whose module extends it.

**Fairness.** Only `api` needs any: weak fairness of each handler. The framework runs a synchronous
handler on a thread of its pool after the upload was received in full, so a handler's read loop never
waits for the network; the semaphore is asked without blocking; and the analysis is a sequence of finite
loops over a finite file. No fairness is assumed of clients, and none between requests for a slot: a
client that is answered 429 may be so again, and `EveryRequestAnswered` only says that it gets an answer.

## Disagreements found

Each of these has a run whose property says what a document or a comment of the repository says; TLC
finds a behaviour of the code that does otherwise. `PROJECT.json` quotes the lines.

| Run | Module, config | Property | Source | In short |
|---|---|---|---|---|
| fragments_twice | `MCCapture`, `MCCaptureTwice.cfg` | `ReassembledOnce` | capture.py:68 | a late copy of the first fragment is parsed again |
| fragments_reuse | `MCCapture`, `MCCaptureReuse.cfg` | `FirstFragmentUsed` | capture.py:55 | the fallback to the first fragment is lost when the identification is used again |
| tcp_utf8 | `MCText`, `MCTextUtf8.cfg` | `MessagesRecovered` | sip.py:145 | Content-Length in bytes is applied to characters |
| sdp_format | `MCText`, `MCTextFormat.cfg` | `FormatOfOwnMedia` | sdp.py:74 | fmtp leaks into a later section |
| rtp_jitter_wrap | `MCMedia`, `MCMediaWrap.cfg` | `JitterPerRfc` | rtp.py:195 | the jitter leaps when the 32-bit timestamp rolls over |
| nat_lan | `MCCall`, `MCCallLan.cfg` | `PrivateNetworksNoNat` | nat.py:154 | a response that echoes a private Via counts as a device behind NAT |

Others were seen while modelling and have no run; they are why the conditions above are there:

* sip.py:46: off the ports 5060 and 5061 a segment in which a message continues does not look like SIP and is
  dropped, and the message with it, although README.md:11 announces (basic) reassembly of SIP over TCP
  without naming ports.
* sip.py:345: a re-INVITE of the callee whose CSeq number is the caller's makes the answer to it an
  answer to the initial INVITE, and the call forked. sip.py:436 has the same for the answer to a REFER.
* sip.py:397: without a BYE of the answered dialog, that of another fork ends the call, although the
  docstring (sip.py:325) says that BYEs are matched per dialog.
* diagnostics.py:108: the text of the 32-second drop says that the callee hung up, also when the caller did
  and the ACK was missing.
* nat.py:112: `alg_seen` lets the warning about a rewritten SDP hide a later critical finding of the same
  source.
* rtp.py:60: every repeated SDP adds to the score of its call, so five of them outweigh the exact address
  and port of another call between the same hosts.
* rtp.py:70: two calls on one endpoint are told apart by nothing but the window, so the media of a call is given to
  nobody if another had its ports up to 5 seconds before, or will have them within 2 seconds.
* rtp.py:165: a flow of one packet is a stream if a call has 4 points, which its port and one address give, or
  the codec of both bodies with its hosts; the comment (rtp.py:158-159) asks for three packets or a strong endpoint match.
* sip.py:480: the post-dial delay of a call that was challenged ends at the challenge, whatever rings later, while
  the finding (diagnostics.py:100) speaks of the first response of progress.
* sip.py:512: the ring time may be negative when a fork rang after another one answered.
* sip.py:486: a call that was cancelled before any response is "no_response"; kpi.py:32 counts it as ineffective.
* sip.py:47: a second connection on the same ports whose numbers overlap those of the first, or straddle half
  of the sequence space, is torn apart or lost.
* security.py:85: a 403 to an INVITE counts as an extension that was tried; the alert is a warning, and
  diagnostics.py:231 then leaves out critical findings on the registrations of the same source.
* nat.py:69: the transport of the first phone behind an address stands for all, and the rport of one hides
  that the others lack it.
* registrations.py:85: a challenge with `stale=true` counts as a refused password.
* ddos.py:185: a SIP flood of one source is left to an engine that averages over the whole capture.
* ddos.py:193: a volume next to a specific flood is dropped, whatever its packets are.
* ddos.py:97: the median of the whole capture decides whether a volume is a flood, so a longer capture of the same
  traffic may no longer report a flood that a shorter one did.
* sdp.py:69: a direction at session level is ignored, so a call held that way is not on hold.
* api.py:53: thresholds that are JSON of another type end in 500, which docs/DEPLOY.md does not list.

## Proofs

`tlapm` checks eight modules, with no step left open. What they state holds for every value of the constants that
the named assumptions allow; each assumption stands in the module whose constants it is about.

How they are laid out. Most properties compare what the code reports with what happened, and say nothing of
the state that links the two: they are not inductive. Each proof therefore has an invariant, a conjunction of
named parts, one lemma per action that keeps it, and a lemma or theorem that draws the property from it. Loops are
recursive functions on 0..n. `NumberLemmas` has what those need: least and greatest elements of sets of
numbers, and `NatSetInduction` (a set of numbers with 0 and the successor of each of its members is `Nat`), from which
the equations of such a function and its loop invariant follow. That is the induction that needs no operator as a
parameter, so these provers can use it.

**`MediaProofs`** (`RtpSequence`, `RtpJitter`, `RtcpRtt`, `RtpCallMatch`).

* Sequence numbers, from `SequenceAssumption` (numbers, and `2 * Window < Modulus`). `UnwrapCorrect` is the
  heart: if the true number t is within `Window` of the highest n, the candidate nearest to n - kM is
  t - kM. It needs a little theory of `div` and `%` and the fact that a multiple of M strictly between -2M and
  2M is -M, 0 or M. `UnwrapFaithful` alone says what `seen` is, not that the newest packet arrived, that it
  is the greatest, or that the cycles before the first packet are whole. `TruthInv` adds that,
  `CounterInv` the cardinalities; `IInv` is their conjunction. `LossIsExact` counts the missing numbers as the
  interval from least to greatest (`Span`) minus those that arrived. `ImplementsLedger` maps each arrival to
  `New`, `Late` or `Duplicate`. `LateArrivalsHeal` needs that the numbers lie between the least and the
  highest (`Extent`), before and after the step: only then is the loss a plain difference.
  `BurstsPartitionTheLoss` is about the loop over the numbers: `Knows` says what it has counted after
  each, closed bursts and the one still open.
* Jitter, from `JitterAssumption` and under `NoWrap`: no stream reaches the end of the timestamp space and no two
  delays are half of it apart. Then a difference of remainders, read as a signed number, is the difference.
  Without `NoWrap` the statement is false, and the run `rtp_jitter_wrap` shows it.
* RTCP, from `RtcpAssumption`: `ReportsAreFaithful` for every modulus. `RttInv` orders the times of a report: sent, heard,
  answered, captured. Each of the three readings of the clock is its time less whole turns, the sum of
  the turns is one multiple, and the only number of a class below the modulus is the remainder (`ModUnique`). The
  sign of the loss is the same fact with a turn of -1 or 0.
* Attribution, from `MatchAssumption` and under `MediaOfHosts`. `MatchInv` says which bodies the list of a call holds and in which
  order (`EndpointsOk`), that no call started later than now (`TimesOk`), and that each flow is
  between the endpoints of its call and within its window (`FlowOk`). The score of the right call is bounded from below
  by its exact matches, that of any other from above by what it can share, each by a loop invariant over the endpoints
  (`EndpointScore`); what is left between calls on the same endpoints is the two points of the window.

**`CaptureProofs`** (`PcapNg`, `Fragments`).

* From `PcapNgAssumption`: the property compares two lists, and nothing in it says that the reader's interface table is
  the section's. `InSection` does; `Numbered` and `Matched` carry the lists over an append.
* From `FragmentAssumption`: all five properties. `Splice` puts each cell of a fragment in its place and touches no other; by
  induction over the fragments `TryAssemble` therefore gives a datagram that is covered as a whole, and nothing
  otherwise. `FragmentInv` says what waits (`Waits`: captured, without payload, of the datagram that used the
  identification last), what carries a payload (`Decodes`: its own cells, whole before the last pass, from fragments
  that wait no more), that a datagram in time is either decoded or incomplete and waiting
  (`Completes`), and that without overlap it is decoded on one packet (`Once`). `FallbackUsed` is part of it.
  `DecodedStays` needs only that what waits has no payload.

**`CallProofs`** (`CallKpis`, `NatDevices`, `CallMedia`).

* From `KpiAssumption`: the properties compare counts. `Consistent` says which status, answer and response a call can
  have together. From it the classes of calls include or exclude each other (`ClassesOrdered`), and the counts
  follow by cardinality.
* From `NatAssumption`: `devices` and `algSeen` are summaries of a history, and `NatInv` says of which: for each source the
  rport is the disjunction and the expiries the set of those of all its messages, the transport is that of one
  of them, and `found` has one entry for each source in `algSeen`.
* From `CallMediaAssumption`: `HeardOk` (each party heard what was captured on its way to it), `LastsOk` (nobody talks after
  hanging up or hearing of the other's BYE), `HangupsOk` (BYEs in order; one for want of an ACK comes exactly at
  Timer H), `DeadlineOk` (an unacknowledged call is not older than that). One-way audio, the drop and RTP after
  release are each read off them.

**`AlertsProofs`** (`SipSecurity`, `Registrations`, `Floods`).

* From `SecurityAssumption`: `AlertsStay` is an action property. Each set an alert counts only grows, since an answered
  transaction is never answered again (`Kept`). `RegistrationsReported` needs that a last answered attempt exists, and that a
  registration belongs to one finding of its source.
* From `RegistrationAssumption`: `GenuineOk` (all that travels or was captured says what was asked or decided), `CausesOk` (of a complete
  capture: an answer comes after its request, and on the second hop first), `SettledOk` (a request that its
  phone is done with was forwarded or never will be) and `OrderOk` (requests are first seen in the order of their
  numbers). The last two are what makes the last transaction of the capture the last one of the phone, and so
  its state the right one. `RegisteredMeansAccepted` needs `GenuineOk` only, and holds of incomplete captures.
* From `FloodAssumption`: `Found` is the loop invariant of `_runs` (the maximal runs so far, and the one that is open). For
  `PastEventsStay`, a second more only touches runs that are not over, and the span of the capture grows with it
  (`HullGrows`), so a run that is over stays one, with its sources (`PastRunStays`).

**`TextProofs`** (`TcpStream`, `Sdp`).

* From `TcpAssumption`, for any number of connections on the ports, and under `OneByte` (each character of a body is one
  byte): `MessagesAreRecovered` and `NothingIsInvented`. Without `OneByte` the first is false, and the run `tcp_utf8`
  shows it. `StreamInv` says that packets are pieces of one connection after the other, and that those which pass the
  filter are kept; a segment that begins with a message passes it, so what is `Recognizable` was kept. All else is about
  what the code makes of such a capture, since nothing it computes is kept in a variable:
  1. `UnwrapIs`: a number less than half of the sequence space from the reference is found from its remainder.
     `NextHome` and `ExtendedIs`: if the numbers are apart, each connection has a place where it begins (`Home`), every
     extended number is that place plus the offset, and the reference stays near all numbers of the open connection
     (`Known`, the loop invariant). When a connection begins behind the one before, the reference stays with the
     earlier one and is still near enough.
  2. `HomesApart`: no number then belongs to two bytes, so a capture has a `World` that maps numbers to bytes.
  3. `SortedIs`: the order by number, and time among equals, has every packet once. `ChunksAre`: over that
     order the loop has built chunks of consecutive numbers with a gap between any two (`Chained`, `Built`), which
     hold exactly the numbers that were carried, each with a packet that carried it (`IsChunk`).
  4. `DecodeIs`, `ExtractIs` and `ReportIs`: on such a chunk one iteration reports the next message all of which is
     there. `ParseIs`: the loop reports those and no others. An incomplete message can only be the last of its chunk,
     which is why the break there loses nothing.
  5. `ResultsAre` puts the chunks together: a message that was carried whole lies within one (`WholeIn`).
* From `SdpAssumption`: `Read` says what was understood of each section so far, `Kept` that the parameters of the
  open one wait for their rtpmap. The connection of a section is inherited at the end only, so `Read` differs
  before and after it.

**`ApiServerProofs`**, from `ApiAssumption` (finitely many clients, at least one slot). `SlotsConserved` is not inductive: its
step needs to know that `Analysing` changes by exactly the request that moves, hence types and
finiteness; and that a release finds `slots < Capacity`, which is the account itself. `Admission(r)` says what a
handler has already checked at each step; `OnlyAdmitted` is its end. `IInv` is the conjunction of the three.
`ImplementsSlots` gives each step of a handler an `Enter`, `Leave`, `TurnAway`, `AskAgain` or a stutter.

**`SipSignallingProofs`** (`SipSignalling`, `SipCall`, `CallReport`), from `SignallingAssumption` and `ReportAssumption`, is the longest. What the
code knows of a call is only its messages, so the first invariant, `Made`, reads them backwards. `State` says how the
variables of the two sides hang together, `Captured` that every captured message is of one of twelve kinds,
each with what must be so for it to have been sent (`Legal`). An INVITE has the number of an attempt and no
To tag; an answer is of a callee that answered; a reply is to a request within the numbers of its side.
The properties then add, each for its own purpose, what was sent and must therefore be there:

| Part | Says | For |
|---|---|---|
| `Separate` | keys of messages and `repeats` make up the capture | `RetransmissionsFaithful` |
| `Witnessed`, `AckSeen`, `Reinvites` | each answer and each ACK is in the capture; an answer to the caller's number is of a callee or of a re-INVITE | `OutcomeFaithful`, `MissingAckFaithful` |
| `FirstByes`, `FirstAnswered` | the first BYE of a dialog, and the first answer, are those of the history | `DisconnectFaithful` |
| `Referring`, `ReferSeen` | requests to refer have numbers of their own, and the capture has those requests and answers, no others | `TransfersFaithful` |
| `Holding` | the loop over the capture is where the offers so far leave it | `HoldsFaithful` |
| `Counted`, `Reacted` | challenges and their repetitions; the first reaction, progress or challenge, is one to the caller's INVITE | `DiagnosisFaithful` |

`SidesFaithful` follows from `Legal` alone. `DiagnosisFaithful` follows from the other properties: the rules read the outcome, missing ACKs,
retransmissions, holds and transfers, so that a rule fires when what it describes happened. Proving it found
a mistake in an earlier form of the property: with a delay threshold of 0 it expected a finding on a call that nobody
had reacted to.

Of the properties of passing runs, one is only model-checked. `EveryRequestAnswered` is liveness under fairness,
which is out of the prover's reach. What a violation run shows is a counterexample and needs no proof.


## What is not modelled

* Decoding of link, IP and transport headers and of SIP header fields, and the classic pcap reader:
  stateless conversions. Models start from their results.
* The E-model, means and percentiles of `kpi.py`, packet times: real arithmetic.
* Ladder, dashboard, command line, charts, cause tables: presentation.
* Q.850 causes, ring and setup times, negotiated codecs and session timers of a call; DTMF, gaps,
  DSCP and clock inference of a stream: each is a field computed once from others.
* RTP of hosts that take no part in a call, and the test of `analyze_rtp` on flows that were given to no call: a count and a
  ratio of one flow.
* A TCP segment that begins inside a start line or with body text that looks like one: cells are whole lines.
* The capture clock is taken to be monotonic: the code sorts by time first and equal times keep the
  order of capture.
* A body that contains a line like the start of a message (`message/sipfrag`) after its own head was lost, clock skew
  between the machines of an RTCP exchange, malformed SDP and interface descriptions too short to read.
* What a refused re-INVITE or a hold by both sides should be reported as: no document says it.
* The session timer, short calls, the media start delay and the rules on one figure of one stream in
  `diagnostics.py`; the rate of requests in `security.py`; CGNAT in `nat.py`; ICMP errors: comparisons of one
  number with a threshold, or counts per flow, with nothing that interacts.
* Ports in `CallMedia`: an address stands for address and port, so a NAT that changes only the port is not
  told from one that changes both.

## Plan

In the order it was done, the most consequential first. What follows joins the runs that exist, so that
the number of questions grows with what can go wrong and not with the number of modules.

1. *Done.* What all numbers rest on: sequence numbers, fragments, TCP, readers; then the call builder,
   attribution, registrations, floods, SDP, RTCP; the service; the rules that relate signalling and media.
2. *Done.* The rest of `nat.py`; the rules of `diagnostics.py` on signalling and on registrations; the attacks of
   `security.py`; the figures of `kpi.py`; two connections on one pair of ports; CSeq numbers of both sides.
3. *Done.* Proofs of every property of a passing run but one, which is liveness.
4. Left: the session timer and the media start, with early media; refused re-INVITEs and holds of both sides,
   once a document says what they should be reported as; a malformed media line in `Sdp`.
5. Left: reassembly, TCP and call building composed, so that one lost fragment is followed to the outcome of a
   call.
6. Left: bodies with lines like the start of a message in `TcpStream`, and a theorem that says what characters of
   several bytes still allow: the messages of a chunk up to the first of them.
