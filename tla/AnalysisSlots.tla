--------------------------- MODULE AnalysisSlots ---------------------------
(***************************************************************************)
(* What SLOTS of api.py promises: at most Capacity requests analyse at the *)
(* same time, and a request is turned away only when there are that many.  *)
(***************************************************************************)
EXTENDS Naturals, FiniteSets

CONSTANTS Requests, Capacity

VARIABLES busy,   \* the requests that analyse
          turned  \* the requests turned away last time they asked

slotVars == <<busy, turned>>

Init == busy = {} /\ turned = {}

Enter(r) ==
    /\ r \notin busy /\ Cardinality(busy) < Capacity
    /\ busy' = busy \cup {r}
    /\ UNCHANGED turned

Leave(r) ==
    /\ r \in busy
    /\ busy' = busy \ {r}
    /\ UNCHANGED turned

TurnAway(r) ==
    /\ r \notin busy /\ Cardinality(busy) = Capacity
    /\ turned' = turned \cup {r}
    /\ UNCHANGED busy

\* A request that was turned away may be sent again.
AskAgain(r) ==
    /\ r \in turned
    /\ turned' = turned \ {r}
    /\ UNCHANGED busy

Next == \E r \in Requests : Enter(r) \/ Leave(r) \/ TurnAway(r) \/ AskAgain(r)

Spec == Init /\ [][Next]_slotVars
=============================================================================
