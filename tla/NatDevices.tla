----------------------------- MODULE NatDevices -----------------------------
(***************************************************************************)
(* Sections 1 and 2 of analyze_nat, nat.py: devices behind NAT, merged by  *)
(* their source address, and the marks that a SIP ALG in a router leaves,  *)
(* reported once per source.  The phones, their routers and the server are *)
(* external.  The sensor is in front of the server, so requests of a phone *)
(* come from its router, and responses of the server repeat the Via of the *)
(* phone.                                                                  *)
(***************************************************************************)
EXTENDS Integers, FiniteSets, Sequences

CONSTANTS Phones,      \* records: router, transport, rport, and stun: the phone writes
                       \* the public address of its router into Via, Contact and SDP
          Server,      \* its address
          Lifetimes,   \* seconds that a REGISTER may ask for; 0 removes the binding
          LongLife,    \* th.nat_register_expires_s
          MaxObserved  \* bound: different messages in the capture

Routers == {p.router : p \in Phones}

ASSUME NatAssumption ==
    /\ Server \notin Routers /\ MaxObserved \in Nat
    /\ \A p \in Phones : p.rport \in BOOLEAN /\ p.stun \in BOOLEAN
    /\ Lifetimes \subseteq Nat /\ LongLife \in Nat

VARIABLES observed,  \* what was captured: [phone, src, method, expires, rewritten]
          devices,   \* source -> what is known of the device behind it
          algSeen,   \* sources that have an ALG finding
          found      \* the ALG findings, in order

natVars == <<observed, devices, algSeen, found>>

NatInit == observed = {} /\ devices = << >> /\ algSeen = {} /\ found = <<>>

\* A router rewrites the c= line of an SDP and leaves o=, or both and not the
\* Content-Length, or does both wrong.
Rewritings == {"none", "sdp", "length", "both"}

PhoneMessage(phone, src, method, expires, rewritten) ==
    [phone |-> phone, src |-> src, method |-> method, expires |-> expires, rewritten |-> rewritten]

\* _behind_nat: a private address is written that is not where the packet is from.
BehindNat(m) == ~m.phone.stun

\* Wrong on purpose: a response tells of its sender.
IsDeviceAny(m) == BehindNat(m)

IsDevice(m) == m.method # "response" /\ BehindNat(m)

\* What is known of the device behind the source of m, m included: the first
\* message gives its transport, later ones add to it.
Device(m) ==
    LET known == IF m.src \in DOMAIN devices THEN devices[m.src]
                 ELSE [rport |-> FALSE, transport |-> m.phone.transport, expires |-> {}] IN
    [rport |-> known.rport \/ m.phone.rport, transport |-> known.transport,
     expires |-> known.expires \cup (IF m.expires > 0 THEN {m.expires} ELSE {})]

\* Section 1.
See(m) ==
    devices' = IF IsDevice(m)
               THEN [s \in DOMAIN devices \cup {m.src} |-> IF s = m.src THEN Device(m) ELSE devices[s]]
               ELSE devices

\* Section 2: a wrong Content-Length is critical, a private o= with the public
\* c= of the packet itself a warning; either silences both for the source.
AlgRules(m) ==
    LET Finding(severity) == [src |-> m.src, severity |-> severity] IN
    IF m.src \in algSeen \/ m.rewritten = "none" THEN UNCHANGED <<found, algSeen>>
    ELSE /\ algSeen' = algSeen \cup {m.src}
         /\ found' = Append(found, Finding(IF m.rewritten = "sdp" THEN "warning" ELSE "critical"))

Observe(m) ==
    /\ observed' = observed \cup {m} /\ Cardinality(observed') <= MaxObserved
    /\ See(m) /\ AlgRules(m)

\* A registration has no SDP to rewrite.
Register(p) ==
    \E expires \in Lifetimes : Observe(PhoneMessage(p, p.router, "REGISTER", expires, "none"))

\* Nothing is left to rewrite for a phone that writes public addresses.
Call(p) ==
    \E rewritten \in IF p.stun THEN {"none"} ELSE Rewritings :
        Observe(PhoneMessage(p, p.router, "INVITE", 0, rewritten))

\* The phone answers a call of the server, or the server one of the phone.
AnswerCall(p) ==
    \/ \E rewritten \in IF p.stun THEN {"none"} ELSE Rewritings :
          Observe(PhoneMessage(p, p.router, "response", 0, rewritten))
    \/ Observe(PhoneMessage(p, Server, "response", 0, "none"))

NatNext == \E p \in Phones : Register(p) \/ Call(p) \/ AnswerCall(p)

NatSpec == NatInit /\ [][NatNext]_natVars

-----------------------------------------------------------------------------
(* The findings on devices.                                                *)

Behind == DOMAIN devices
NoRport == {s \in Behind : ~devices[s].rport /\ devices[s].transport = "UDP"}
TooLong == {s \in Behind : /\ devices[s].transport = "UDP"
                           /\ \E e \in devices[s].expires : e > LongLife}

-----------------------------------------------------------------------------
(* Properties.                                                             *)

\* Requests that phones with private addresses sent through a router.
Requests(src) == {m \in observed : m.src = src /\ m.method # "response" /\ ~m.phone.stun}
Rewritten(src) == {m \in observed : m.src = src /\ m.rewritten # "none"}

\* Exactly the routers with such phones are reported.  A missing rport or a long
\* registration over UDP is only reported of a router that has a phone for it,
\* and always where the phones behind the address use one transport, unless the
\* rport of one of them hides that others lack it (devices in analyze_nat, keyed
\* by source address).  A source whose messages were rewritten on the way has
\* exactly one ALG finding, another none, and it is not graver than what was
\* done, whatever came first and in whichever direction (alg_seen).
NatFindingsFaithful ==
    /\ Behind = {s \in Routers : Requests(s) # {}}
    /\ \A s \in NoRport : \E m \in Requests(s) : m.phone.transport = "UDP" /\ ~m.phone.rport
    /\ \A s \in Behind : (\A m, n \in Requests(s) : m.phone.transport = n.phone.transport) =>
          /\ s \in NoRport <=> \A m \in Requests(s) : m.phone.transport = "UDP" /\ ~m.phone.rport
          /\ s \in TooLong <=> \E m \in Requests(s) : m.phone.transport = "UDP" /\ m.expires > LongLife
    /\ \A s \in Routers \cup {Server} :
          LET of == {i \in 1..Len(found) : found[i].src = s}
              lengths == {m \in Rewritten(s) : m.rewritten # "sdp"} IN
          /\ Cardinality(of) = IF Rewritten(s) # {} THEN 1 ELSE 0
          /\ \A i \in of : /\ found[i].severity = "critical" => lengths # {}
                           /\ found[i].severity = "warning" => lengths # Rewritten(s)
=============================================================================
