----------------------------- MODULE ApiServer -----------------------------
(***************************************************************************)
(* POST /v1/analyze of api.py.  The framework runs each request's handler  *)
(* on a thread of its own once the upload is complete, so the steps of     *)
(* different requests interleave; SLOTS, a BoundedSemaphore, limits how    *)
(* many of them analyse at the same time.                                  *)
(***************************************************************************)
EXTENDS Absence, Integers, FiniteSets

CONSTANTS Requests,  \* clients, each with one request at a time
          Capacity,  \* SIP_NETWORK_MAX_CONCURRENT
          MaxUpload  \* SIP_NETWORK_MAX_UPLOAD_MB, in chunks of the read loop

ASSUME ApiAssumption ==
    /\ IsFiniteSet(Requests)
    /\ Capacity \in Nat \ {0} /\ MaxUpload \in Nat

VARIABLES configured,  \* SIP_NETWORK_API_TOKEN is set
          slots,       \* value of SLOTS
          pc,          \* where each handler is
          request,     \* what the handler was given, None when there is none
          size,        \* chunks read so far
          status       \* HTTP status of the last answer, 0 before the first

vars == <<configured, slots, pc, request, size, status>>

\* thresholds: absent or a JSON object of known fields; not JSON or with
\* unknown fields; a JSON value the code does not expect (5, null, a field of
\* the wrong type), on which set(data), tuple(...) or Thresholds(...) raises.
Contents == [token : {"right", "wrong"},
             thresholds : {"good", "rejected", "unexpected"},
             chunks : 0..(MaxUpload + 1)]
Steps == {"idle", "check_token", "thresholds", "read", "acquire",
          "analyze", "release", "serialize"}

Analysing == {r \in Requests : pc[r] \in {"analyze", "release"}}

Init ==
    /\ configured \in BOOLEAN
    /\ slots = Capacity
    /\ pc = [r \in Requests |-> "idle"]
    /\ request = [r \in Requests |-> None]
    /\ size = [r \in Requests |-> 0]
    /\ status = [r \in Requests |-> 0]

\* The client sends, for the first time or again after an answer.
Send(r, c) ==
    /\ pc[r] = "idle"
    /\ request' = [request EXCEPT ![r] = c]
    /\ status' = [status EXCEPT ![r] = 0]
    /\ pc' = [pc EXCEPT ![r] = "check_token"]
    /\ UNCHANGED <<configured, slots, size>>

Goto(r, step) == pc' = [pc EXCEPT ![r] = step] /\ UNCHANGED <<status, request>>

\* The handler returns or raises: its locals end with it.
Answer(r, code) == /\ pc' = [pc EXCEPT ![r] = "idle"]
                   /\ status' = [status EXCEPT ![r] = code]
                   /\ request' = [request EXCEPT ![r] = None]

\* _check_token
CheckToken(r) ==
    /\ pc[r] = "check_token"
    /\ IF ~configured THEN Answer(r, 503)
       ELSE IF request[r].token = "wrong" THEN Answer(r, 401)
       ELSE Goto(r, "thresholds")
    /\ UNCHANGED <<configured, slots, size>>

\* _thresholds; the framework answers 500 to an exception nobody caught.
ReadThresholds(r) ==
    /\ pc[r] = "thresholds"
    /\ \/ request[r].thresholds = "good" /\ Goto(r, "read")
       \/ request[r].thresholds = "rejected" /\ Answer(r, 422)
       \/ request[r].thresholds = "unexpected" /\ Answer(r, 500)
    /\ size' = [size EXCEPT ![r] = 0]
    /\ UNCHANGED <<configured, slots>>

\* One iteration of the read loop, or its end.
ReadChunk(r) ==
    /\ pc[r] = "read"
    /\ IF size[r] = request[r].chunks THEN Goto(r, "acquire") /\ UNCHANGED size
       ELSE /\ size' = [size EXCEPT ![r] = @ + 1]
            /\ IF size[r] + 1 > MaxUpload THEN Answer(r, 413) ELSE Goto(r, "read")
    /\ UNCHANGED <<configured, slots>>

\* Wrong on purpose: the last slot is never given out.
AcquireSparing(r) ==
    /\ pc[r] = "acquire"
    /\ IF slots > 1 THEN slots' = slots - 1 /\ Goto(r, "analyze")
       ELSE Answer(r, 429) /\ UNCHANGED slots
    /\ UNCHANGED <<configured, size>>

\* SLOTS.acquire(blocking=False)
Acquire(r) ==
    /\ pc[r] = "acquire"
    /\ IF slots > 0 THEN slots' = slots - 1 /\ Goto(r, "analyze")
       ELSE Answer(r, 429) /\ UNCHANGED slots
    /\ UNCHANGED <<configured, size>>

\* Wrong on purpose: an analysis that raises leaves without the finally block.
AnalyzeNoFinally(r) ==
    /\ pc[r] = "analyze"
    /\ \/ /\ pc' = [pc EXCEPT ![r] = "release"] /\ status' = [status EXCEPT ![r] = 200]
          /\ UNCHANGED request
       \/ \E code \in {422, 500} : Answer(r, code)
    /\ UNCHANGED <<configured, slots, size>>

\* analyze_bytes returns, raises ValueError (422) or anything else (500); the
\* finally block runs in all three cases.
Analyze(r) ==
    /\ pc[r] = "analyze"
    /\ pc' = [pc EXCEPT ![r] = "release"]
    /\ \E code \in {200, 422, 500} : status' = [status EXCEPT ![r] = code]
    /\ UNCHANGED <<configured, slots, request, size>>

\* Wrong on purpose: the slot is waited for to be given back by another.
ReleaseWaiting(r) ==
    /\ pc[r] = "release" /\ slots > 0
    /\ slots' = slots + 1
    /\ IF status[r] = 200 THEN Goto(r, "serialize") ELSE Answer(r, status[r])
    /\ UNCHANGED <<configured, size>>

\* SLOTS.release() in the finally block; a BoundedSemaphore raises when more
\* is released than was acquired, which would replace the answer by a 500.
Release(r) ==
    /\ pc[r] = "release"
    /\ IF slots = Capacity THEN Answer(r, 500) /\ UNCHANGED slots
       ELSE /\ slots' = slots + 1
            /\ IF status[r] = 200 THEN Goto(r, "serialize") ELSE Answer(r, status[r])
    /\ UNCHANGED <<configured, size>>

\* The report and its ladders are built after the slot was given back.
Serialize(r) ==
    /\ pc[r] = "serialize"
    /\ \E code \in {200, 500} : Answer(r, code)
    /\ UNCHANGED <<configured, slots, size>>

Handle(r) == \/ CheckToken(r) \/ ReadThresholds(r) \/ ReadChunk(r) \/ Acquire(r)
             \/ Analyze(r) \/ Release(r) \/ Serialize(r)

Next == \E r \in Requests : Handle(r) \/ \E c \in Contents : Send(r, c)

Spec == Init /\ [][Next]_vars

\* Each handler has a thread of its own and analyses terminate.
FairSpec == Spec /\ \A r \in Requests : WF_vars(Handle(r))

-----------------------------------------------------------------------------
(* Properties.                                                             *)

TypeOK ==
    /\ configured \in BOOLEAN
    /\ slots \in 0..Capacity
    /\ pc \in [Requests -> Steps]
    /\ request \in [Requests -> Contents \cup {None}]
    /\ size \in [Requests -> 0..(MaxUpload + 1)]
    /\ status \in [Requests -> {0, 200, 401, 413, 422, 429, 500, 503}]

\* No slot is ever lost or given back twice: a slot is free, or held by
\* exactly one request between its acquire and its release, whichever way the
\* analysis ends (try/finally of analyze).
SlotsConserved == slots + Cardinality(Analysing) = Capacity

\* A capture is analysed only for a client that proved who it is, with
\* thresholds that were accepted, once the upload was read to its end and
\* found within the limit: no early return of analyze lies behind the slot.
OnlyAdmitted ==
    \A r \in Requests : pc[r] \in {"acquire", "analyze", "release", "serialize"} =>
        /\ configured /\ request[r].token = "right"
        /\ request[r].thresholds = "good"
        /\ size[r] = request[r].chunks /\ size[r] <= MaxUpload

\* SLOTS is the semaphore it is meant to be: 429 is the answer to a request
\* that came while Capacity others were analysing, and to no other.
Slots == INSTANCE AnalysisSlots WITH
    busy <- Analysing,
    turned <- {r \in Requests : status[r] = 429}
SlotsSpec == Slots!Spec

\* Every request is answered.
EveryRequestAnswered ==
    \A r \in Requests : (pc[r] = "check_token") ~> (pc[r] = "idle" /\ status[r] # 0)
=============================================================================
