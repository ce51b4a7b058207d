-------------------------- MODULE ApiServerProofs --------------------------
(***************************************************************************)
(* Proofs about ApiServer, for any finite set of clients, any number of    *)
(* slots and any upload limit.                                             *)
(***************************************************************************)
EXTENDS ApiServer, FiniteSetTheorems, TLAPS

\* How far a handler has come says what it has checked.
Admission(r) ==
    /\ pc[r] # "idle" => request[r] \in Contents /\ status[r] # 429
    /\ pc[r] \notin {"idle", "check_token"} => configured /\ request[r].token = "right"
    /\ pc[r] \notin {"idle", "check_token", "thresholds"} =>
          /\ request[r].thresholds = "good"
          /\ size[r] <= request[r].chunks /\ size[r] <= MaxUpload
    /\ pc[r] \in {"acquire", "analyze", "release", "serialize"} =>
          size[r] = request[r].chunks

\* The inductive invariant: types, the account of the slots, and what each
\* handler has checked.  None is inductive alone: that SLOTS stays within its
\* bounds follows from the account, the account needs to know where handlers
\* can be, and the bound of size needs to know what the request holds.
IInv == TypeOK /\ SlotsConserved /\ \A r \in Requests : Admission(r)

\* The requests that analyse after one handler moves.
LEMMA AnalysingMoves ==
    ASSUME TypeOK, NEW r \in Requests, NEW step \in Steps,
           pc' = [pc EXCEPT ![r] = step]
    PROVE  /\ step \in {"analyze", "release"} => Analysing' = Analysing \cup {r}
           /\ step \notin {"analyze", "release"} => Analysing' = Analysing \ {r}
  BY DEF TypeOK, Analysing

\* Who is analysing after a step that moves one handler.
LEMMA AnalysingStays ==
    ASSUME TypeOK, NEW r \in Requests, NEW step \in Steps,
           pc' = [pc EXCEPT ![r] = step],
           step \in {"analyze", "release"} <=> pc[r] \in {"analyze", "release"}
    PROVE  Analysing' = Analysing
  <1>1. \A q \in Requests : pc'[q] = IF q = r THEN step ELSE pc[q]
    BY DEF TypeOK
  <1>2. \A q \in Requests : q \in Analysing' <=> q \in Analysing
    BY <1>1 DEF Analysing
  <1>3. Analysing \subseteq Requests /\ Analysing' \subseteq Requests
    BY DEF Analysing
  <1> QED
    BY <1>2, <1>3

\* Finitely many requests are analysed.
LEMMA AnalysingFinite ==
    ASSUME TypeOK
    PROVE  /\ IsFiniteSet(Analysing) /\ Cardinality(Analysing) \in Nat
           /\ IsFiniteSet(Analysing') /\ Cardinality(Analysing') \in Nat
  <1>1. Analysing \in SUBSET Requests /\ Analysing' \in SUBSET Requests
    BY DEF Analysing
  <1> QED
    BY <1>1, ApiAssumption, FS_Subset, FS_CardinalityType

\* A handler that is not analysing and does not begin to leaves the account
\* alone; so does one that goes from analysing to releasing.
LEMMA AccountKept ==
    ASSUME IInv, NEW r \in Requests, NEW step \in Steps,
           pc' = [pc EXCEPT ![r] = step], slots' = slots,
           step \in {"analyze", "release"} <=> pc[r] \in {"analyze", "release"}
    PROVE  SlotsConserved'
  <1>1. Analysing' = Analysing
    BY AnalysingStays DEF IInv
  <1> QED
    BY <1>1 DEF IInv, SlotsConserved

\* No request was received.
LEMMA InitInv == Init => IInv
  <1> SUFFICES ASSUME Init PROVE IInv
    OBVIOUS
  <1>1. TypeOK
    BY ApiAssumption DEF Init, TypeOK, Steps
  <1>2. Analysing = {}
    BY DEF Init, Analysing
  <1>3. SlotsConserved
    BY <1>2, FS_EmptySet, ApiAssumption DEF Init, SlotsConserved
  <1> QED
    BY <1>1, <1>3 DEF IInv, Init, Admission

\* The handlers of the other requests stay where they are.
LEMMA OthersAdmitted ==
    ASSUME IInv, NEW r \in Requests, NEW step \in Steps, UNCHANGED configured,
           pc' = [pc EXCEPT ![r] = step],
           \A q \in Requests \ {r} : /\ request'[q] = request[q] /\ size'[q] = size[q]
                                     /\ status'[q] = status[q],
           Admission(r)'
    PROVE  \A q \in Requests : Admission(q)'
  <1> SUFFICES ASSUME NEW q \in Requests, q # r PROVE Admission(q)'
    OBVIOUS
  <1>1. /\ pc'[q] = pc[q] /\ request'[q] = request[q]
        /\ size'[q] = size[q] /\ status'[q] = status[q]
    BY DEF IInv, TypeOK
  <1>2. Admission(q)
    BY DEF IInv
  <1> QED
    BY <1>1, <1>2 DEF Admission

\* A step of a handler keeps the invariant.
LEMMA StepInv ==
    ASSUME IInv, NEW r \in Requests, Handle(r) \/ \E c \in Contents : Send(r, c)
    PROVE  IInv'
  <1> USE ApiAssumption
  <1>0. TypeOK /\ SlotsConserved /\ Admission(r)
    BY DEF IInv
  <1>1. CASE \E c \in Contents : Send(r, c)
    <2>1. PICK c \in Contents : Send(r, c)
      BY <1>1
    <2>2. TypeOK'
      BY <1>0, <2>1 DEF TypeOK, Send, Steps
    <2>3. SlotsConserved'
      BY <2>1, AccountKept DEF Send, Steps
    <2>4. \A q \in Requests : Admission(q)'
      <3>1. Admission(r)'
        BY <1>0, <2>1 DEF Admission, Send, TypeOK
      <3> QED
        BY <1>0, <2>1, <3>1, OthersAdmitted, ZenonT(30) DEF Send, Steps, TypeOK
    <2> QED
      BY <2>2, <2>3, <2>4 DEF IInv
  <1>2. CASE CheckToken(r)
    <2>1. TypeOK'
      BY <1>0, <1>2 DEF TypeOK, CheckToken, Answer, Goto, Steps
    <2>2. SlotsConserved'
      BY <1>2, AccountKept DEF CheckToken, Answer, Goto, Steps
    <2>3. \A q \in Requests : Admission(q)'
      <3>1. Admission(r)'
        BY <1>0, <1>2 DEF Admission, CheckToken, Answer, Goto, Contents, TypeOK
      <3> QED
        BY <1>0, <1>2, <3>1, OthersAdmitted DEF CheckToken, Answer, Goto, Steps, TypeOK
    <2> QED
      BY <2>1, <2>2, <2>3 DEF IInv
  <1>3. CASE ReadThresholds(r)
    <2>1. TypeOK'
      BY <1>0, <1>3 DEF TypeOK, ReadThresholds, Answer, Goto, Steps
    <2>2. SlotsConserved'
      BY <1>3, AccountKept DEF ReadThresholds, Answer, Goto, Steps
    <2>3. \A q \in Requests : Admission(q)'
      <3>1. Admission(r)'
        BY <1>0, <1>3 DEF Admission, ReadThresholds, Answer, Goto, Contents, TypeOK
      <3> QED
        BY <1>0, <1>3, <3>1, OthersAdmitted DEF ReadThresholds, Answer, Goto, Steps, TypeOK
    <2> QED
      BY <2>1, <2>2, <2>3 DEF IInv
  <1>4. CASE ReadChunk(r)
    <2>1. TypeOK'
      BY <1>0, <1>4 DEF TypeOK, Admission, Contents, ReadChunk, Answer, Goto, Steps
    <2>2. SlotsConserved'
      BY <1>4, AccountKept DEF ReadChunk, Answer, Goto, Steps
    <2>3. \A q \in Requests : Admission(q)'
      <3>1. Admission(r)'
        BY <1>0, <1>4 DEF Admission, ReadChunk, Answer, Goto, Contents, TypeOK
      <3> QED
        BY <1>0, <1>4, <3>1, OthersAdmitted DEF ReadChunk, Answer, Goto, Steps, TypeOK
    <2> QED
      BY <2>1, <2>2, <2>3 DEF IInv
  <1>5. CASE Acquire(r)
    <2>1. CASE slots > 0
      <3>1. pc' = [pc EXCEPT ![r] = "analyze"] /\ slots' = slots - 1 /\ pc[r] = "acquire"
        BY <1>5, <2>1 DEF Acquire, Goto
      <3>2. Analysing' = Analysing \cup {r} /\ r \notin Analysing
        BY <1>0, <3>1, AnalysingMoves DEF Analysing, Steps
      <3>3. Cardinality(Analysing') = Cardinality(Analysing) + 1
        BY <1>0, <3>2, AnalysingFinite, FS_AddElement
      <3>4. SlotsConserved'
        BY <1>0, <3>1, <3>3, AnalysingFinite DEF SlotsConserved, TypeOK
      <3>5. TypeOK'
        BY <1>0, <1>5, <2>1 DEF TypeOK, Acquire, Goto, Steps
      <3>6. \A q \in Requests : Admission(q)'
        <4>1. Admission(r)'
          BY <1>0, <1>5, <2>1 DEF Admission, Acquire, Goto, TypeOK
        <4> QED
          BY <1>0, <1>5, <2>1, <4>1, OthersAdmitted DEF Acquire, Goto, Steps, TypeOK
      <3> QED
        BY <3>4, <3>5, <3>6 DEF IInv
    <2>2. CASE ~(slots > 0)
      <3>1. TypeOK'
        BY <1>0, <1>5, <2>2 DEF TypeOK, Acquire, Answer, Steps
      <3>2. SlotsConserved'
        BY <1>5, <2>2, AccountKept DEF Acquire, Answer, Steps
      <3>3. \A q \in Requests : Admission(q)'
        <4>1. Admission(r)'
          BY <1>0, <1>5, <2>2 DEF Admission, Acquire, Answer, TypeOK
        <4> QED
          BY <1>0, <1>5, <2>2, <4>1, OthersAdmitted DEF Acquire, Answer, Steps, TypeOK
      <3> QED
        BY <3>1, <3>2, <3>3 DEF IInv
    <2> QED
      BY <2>1, <2>2
  <1>6. CASE Analyze(r)
    <2>1. TypeOK'
      BY <1>0, <1>6 DEF TypeOK, Analyze, Steps
    <2>2. SlotsConserved'
      BY <1>6, AccountKept, ZenonT(30) DEF Analyze, Steps
    <2>3. \A q \in Requests : Admission(q)'
      <3>1. Admission(r)'
        BY <1>0, <1>6 DEF Admission, Analyze, Contents, TypeOK
      <3> QED
        <4>1. PICK code \in {200, 422, 500} : status' = [status EXCEPT ![r] = code]
          BY <1>6 DEF Analyze
        <4>2. UNCHANGED <<configured, request, size>> /\ pc' = [pc EXCEPT ![r] = "release"] /\ "release" \in Steps
          BY <1>6 DEF Analyze, Steps
        <4>3. \A q \in Requests \ {r} : status'[q] = status[q]
          BY <1>0, <4>1 DEF TypeOK
        <4> QED
          BY <3>1, <4>2, <4>3, OthersAdmitted
    <2> QED
      BY <2>1, <2>2, <2>3 DEF IInv
  <1>7. CASE Release(r)
    <2>1. r \in Analysing
      BY <1>7 DEF Release, Analysing
    <2>2. slots # Capacity
      <3>1. Cardinality(Analysing) # 0
        BY <1>0, <2>1, AnalysingFinite, FS_EmptySet
      <3> QED
        BY <1>0, <3>1, AnalysingFinite DEF SlotsConserved, TypeOK
    <2>3. /\ slots' = slots + 1
          /\ pc' = [pc EXCEPT ![r] = "serialize"] \/ pc' = [pc EXCEPT ![r] = "idle"]
      BY <1>7, <2>2 DEF Release, Goto, Answer
    <2>4. Analysing' = Analysing \ {r}
      BY <1>0, <2>3, AnalysingMoves DEF Steps
    <2>5. Cardinality(Analysing') = Cardinality(Analysing) - 1
      BY <1>0, <2>1, <2>4, AnalysingFinite, FS_RemoveElement
    <2>6. SlotsConserved'
      BY <1>0, <2>3, <2>5, AnalysingFinite DEF SlotsConserved, TypeOK
    <2>7. TypeOK'
      BY <1>0, <1>7, <2>2 DEF TypeOK, Release, Answer, Goto, Steps
    <2>8. \A q \in Requests : Admission(q)'
      <3>1. Admission(r)'
        BY <1>0, <1>7, <2>2 DEF Admission, Release, Answer, Goto, TypeOK
      <3> QED
        BY <1>0, <1>7, <2>2, <3>1, OthersAdmitted DEF Release, Answer, Goto, Steps, TypeOK
    <2> QED
      BY <2>6, <2>7, <2>8 DEF IInv
  <1>8. CASE Serialize(r)
    <2>1. TypeOK'
      BY <1>0, <1>8 DEF TypeOK, Serialize, Answer, Steps
    <2>2. SlotsConserved'
      BY <1>8, AccountKept DEF Serialize, Answer, Steps
    <2>3. \A q \in Requests : Admission(q)'
      <3>1. Admission(r)'
        BY <1>0, <1>8 DEF Admission, Serialize, Answer, Contents, TypeOK
      <3> QED
        <4>1. PICK code \in {200, 500} : Answer(r, code)
          BY <1>8 DEF Serialize
        <4>2. UNCHANGED <<configured, size>> /\ pc' = [pc EXCEPT ![r] = "idle"] /\ "idle" \in Steps
          BY <1>8, <4>1 DEF Serialize, Answer, Steps
        <4>3. \A q \in Requests \ {r} : request'[q] = request[q] /\ status'[q] = status[q]
          BY <1>0, <4>1 DEF Answer, TypeOK
        <4> QED
          BY <3>1, <4>2, <4>3, OthersAdmitted
    <2> QED
      BY <2>1, <2>2, <2>3 DEF IInv
  <1> QED
    BY <1>1, <1>2, <1>3, <1>4, <1>5, <1>6, <1>7, <1>8 DEF Handle

\* A step that changes nothing keeps the invariant.
LEMMA StutterInv == IInv /\ UNCHANGED vars => IInv'
  BY DEF IInv, TypeOK, SlotsConserved, Analysing, Admission, vars

\* The inductive invariant holds in every interleaving of the handlers of analyze_capture.
THEOREM Invariance == Spec => []IInv
  <1>1. IInv /\ [Next]_vars => IInv'
    BY StepInv, StutterInv DEF Next
  <1> QED
    BY <1>1, InitInv, PTL DEF Spec

-----------------------------------------------------------------------------
(* The properties the runs check.                                          *)

\* Types: among them that SLOTS never leaves 0..Capacity, so that its release
\* never raises (BoundedSemaphore, api.py).
THEOREM TypeCorrect == Spec => []TypeOK
  <1>1. IInv => TypeOK
    BY DEF IInv
  <1> QED
    BY <1>1, Invariance, PTL

\* No slot is lost or given back twice (try/finally of analyze, api.py).
THEOREM SlotsAreConserved == Spec => []SlotsConserved
  <1>1. IInv => SlotsConserved
    BY DEF IInv
  <1> QED
    BY <1>1, Invariance, PTL

\* Only admitted requests reach a slot (the early returns of analyze, api.py).
THEOREM OnlyAdmittedAnalyse == Spec => []OnlyAdmitted
  <1>1. IInv => OnlyAdmitted
    <2> SUFFICES ASSUME IInv, NEW r \in Requests,
                        pc[r] \in {"acquire", "analyze", "release", "serialize"}
                 PROVE  /\ configured /\ request[r].token = "right"
                        /\ request[r].thresholds = "good"
                        /\ size[r] = request[r].chunks /\ size[r] <= MaxUpload
      BY DEF OnlyAdmitted
    <2>1. Admission(r)
      BY DEF IInv
    <2> QED
      BY <2>1 DEF Admission
  <1> QED
    BY <1>1, Invariance, PTL

-----------------------------------------------------------------------------
(* Refinement.                                                             *)

\* What a handler that is neither idle nor answered has for status.
LEMMA NotTurnedAway ==
    ASSUME IInv, NEW r \in Requests, pc[r] # "idle"
    PROVE  status[r] # 429 /\ status = [q \in Requests |-> status[q]]
  BY DEF IInv, Admission, TypeOK

\* The semaphore of api.py is the counting semaphore of AnalysisSlots: at most
\* Capacity analyses at a time, and 429 only while there are that many.
THEOREM ImplementsSlots == Spec => SlotsSpec
  <1>1. Init => Slots!Init
    BY DEF Init, Analysing, Slots!Init
  <1>2. ASSUME IInv, [Next]_vars
        PROVE  [Slots!Next]_(Slots!slotVars)
    <2>0. TypeOK /\ SlotsConserved
      BY <1>2 DEF IInv
    <2>1. CASE UNCHANGED vars
      BY <2>1 DEF vars, Analysing, Slots!slotVars
    <2>2. ASSUME NEW r \in Requests, NEW c \in Contents, Send(r, c)
          PROVE  [Slots!Next]_(Slots!slotVars)
      <3>1. Analysing' = Analysing
        BY <2>0, <2>2, AnalysingStays DEF Send, Steps
      <3>2. \A q \in Requests : status'[q] = IF q = r THEN 0 ELSE status[q]
        BY <2>0, <2>2 DEF Send, TypeOK
      <3>3. CASE status[r] = 429
        <4>1. Slots!AskAgain(r)
          BY <3>1, <3>2, <3>3 DEF Slots!AskAgain
        <4> QED
          BY <4>1 DEF Slots!Next
      <3>4. CASE status[r] # 429
        BY <3>1, <3>2, <3>4 DEF Slots!slotVars
      <3> QED
        BY <3>3, <3>4
    <2>3. ASSUME NEW r \in Requests, CheckToken(r)
          PROVE  UNCHANGED Slots!slotVars
      <3>1. Analysing' = Analysing
        BY <2>0, <2>3, AnalysingStays DEF CheckToken, Goto, Answer, Steps
      <3>2. pc[r] # "idle"
        BY <2>3 DEF CheckToken
      <3>3. \A q \in Requests : status'[q] = 429 <=> status[q] = 429
        BY <1>2, <2>3, <3>2, NotTurnedAway DEF CheckToken, Goto, Answer
      <3> QED
        BY <3>1, <3>3 DEF Slots!slotVars
    <2>4. ASSUME NEW r \in Requests, ReadThresholds(r)
          PROVE  UNCHANGED Slots!slotVars
      <3>1. Analysing' = Analysing
        BY <2>0, <2>4, AnalysingStays DEF ReadThresholds, Goto, Answer, Steps
      <3>2. pc[r] # "idle"
        BY <2>4 DEF ReadThresholds
      <3>3. \A q \in Requests : status'[q] = 429 <=> status[q] = 429
        BY <1>2, <2>4, <3>2, NotTurnedAway DEF ReadThresholds, Goto, Answer
      <3> QED
        BY <3>1, <3>3 DEF Slots!slotVars
    <2>5. ASSUME NEW r \in Requests, ReadChunk(r)
          PROVE  UNCHANGED Slots!slotVars
      <3>1. Analysing' = Analysing
        BY <2>0, <2>5, AnalysingStays DEF ReadChunk, Goto, Answer, Steps
      <3>2. pc[r] # "idle"
        BY <2>5 DEF ReadChunk
      <3>3. \A q \in Requests : status'[q] = 429 <=> status[q] = 429
        BY <1>2, <2>5, <3>2, NotTurnedAway DEF ReadChunk, Goto, Answer
      <3> QED
        BY <3>1, <3>3 DEF Slots!slotVars
    <2>6. ASSUME NEW r \in Requests, Analyze(r)
          PROVE  UNCHANGED Slots!slotVars
      <3>1. Analysing' = Analysing
        BY <2>0, <2>6, AnalysingStays, ZenonT(30) DEF Analyze, Steps
      <3>2. pc[r] # "idle"
        BY <2>6 DEF Analyze
      <3>3. \A q \in Requests : status'[q] = 429 <=> status[q] = 429
        BY <1>2, <2>6, <3>2, NotTurnedAway DEF Analyze
      <3> QED
        BY <3>1, <3>3 DEF Slots!slotVars
    <2>7. ASSUME NEW r \in Requests, Serialize(r)
          PROVE  UNCHANGED Slots!slotVars
      <3>1. Analysing' = Analysing
        BY <2>0, <2>7, AnalysingStays DEF Serialize, Answer, Steps
      <3>2. pc[r] # "idle"
        BY <2>7 DEF Serialize
      <3>3. \A q \in Requests : status'[q] = 429 <=> status[q] = 429
        BY <1>2, <2>7, <3>2, NotTurnedAway DEF Serialize, Answer
      <3> QED
        BY <3>1, <3>3 DEF Slots!slotVars
    <2>8. ASSUME NEW r \in Requests, Acquire(r)
          PROVE  Slots!Next
      <3>1. r \notin Analysing
        BY <2>8 DEF Acquire, Analysing
      <3>2. CASE slots > 0
        <4>1. Analysing' = Analysing \cup {r} /\ status' = status
          BY <2>0, <2>8, <3>2, AnalysingMoves DEF Acquire, Goto, Steps
        <4>2. Cardinality(Analysing) < Capacity
          BY <2>0, <3>2, AnalysingFinite, ApiAssumption DEF SlotsConserved, TypeOK
        <4>3. Slots!Enter(r)
          BY <3>1, <4>1, <4>2 DEF Slots!Enter, Slots!Cardinality, Cardinality
        <4> QED
          BY <4>3 DEF Slots!Next
      <3>3. CASE ~(slots > 0)
        <4>1. pc' = [pc EXCEPT ![r] = "idle"] /\ status' = [status EXCEPT ![r] = 429]
          BY <2>8, <3>3 DEF Acquire, Answer
        <4>2. Analysing' = Analysing
          BY <2>0, <2>8, <4>1, AnalysingStays DEF Acquire, Steps
        <4>3. Cardinality(Analysing) = Capacity
          BY <2>0, <3>3, AnalysingFinite, ApiAssumption DEF SlotsConserved, TypeOK
        <4>4. \A q \in Requests : status'[q] = IF q = r THEN 429 ELSE status[q]
          BY <2>0, <4>1 DEF TypeOK
        <4>5. Slots!TurnAway(r)
          <5>1. Slots!Cardinality(Analysing) = Capacity
            BY <4>3 DEF Slots!Cardinality, Cardinality
          <5>2. {q \in Requests : status'[q] = 429} = {q \in Requests : status[q] = 429} \cup {r}
            BY <4>4
          <5> QED
            BY <3>1, <4>2, <5>1, <5>2 DEF Slots!TurnAway
        <4> QED
          BY <4>5 DEF Slots!Next
      <3> QED
        BY <3>2, <3>3
    <2>9. ASSUME NEW r \in Requests, Release(r)
          PROVE  Slots!Next
      <3>1. r \in Analysing
        BY <2>9 DEF Release, Analysing
      <3>2. slots # Capacity
        <4>1. Cardinality(Analysing) # 0
          BY <2>0, <3>1, AnalysingFinite, FS_EmptySet
        <4> QED
          BY <2>0, <4>1, AnalysingFinite, ApiAssumption DEF SlotsConserved, TypeOK
      <3>3. \/ pc' = [pc EXCEPT ![r] = "serialize"] /\ status' = status
            \/ pc' = [pc EXCEPT ![r] = "idle"] /\ status' = [status EXCEPT ![r] = status[r]]
        BY <2>9, <3>2 DEF Release, Goto, Answer
      <3>4. Analysing' = Analysing \ {r}
        BY <2>0, <3>3, AnalysingMoves DEF Steps
      <3>5. status' = status
        BY <2>0, <3>3 DEF TypeOK
      <3>6. Slots!Leave(r)
        BY <3>1, <3>4, <3>5 DEF Slots!Leave
      <3> QED
        BY <3>6 DEF Slots!Next
    <2> QED
      BY <1>2, <2>1, <2>2, <2>3, <2>4, <2>5, <2>6, <2>7, <2>8, <2>9 DEF Next, Handle
  <1> QED
    BY <1>1, <1>2, Invariance, PTL DEF Spec, SlotsSpec, Slots!Spec
=============================================================================
