----------------------------- MODULE RequestPool -----------------------------
(***************************************************************************)
(* What a batch of requests promises, without transfers, handles, retries  *)
(* or responses: N requests queue for Slots places.  They take places in   *)
(* the order of the array, a place that becomes free may be handed on at   *)
(* once, and the batch is complete when every request has its answer.  It  *)
(* may also be given up at any time, and then the requests stay as they    *)
(* are.                                                                    *)
(***************************************************************************)
EXTENDS Integers, FiniteSets

CONSTANTS N, Slots

VARIABLES
    stage,    \* of each request: "queued", "active" or "answered"
    verdict   \* "open", then "complete" or "abandoned"

poolVars == <<stage, verdict>>

Job == 1 .. N

Active == {k \in Job : stage[k] = "active"}

\* k is the request whose turn it is.
Turn(k) == /\ stage[k] = "queued"
           /\ \A j \in 1 .. k - 1 : stage[j] # "queued"

Init ==
    /\ stage = [k \in Job |-> "queued"]
    /\ verdict = "open"

Start(k) ==
    /\ Turn(k)
    /\ Cardinality(Active) < Slots
    /\ stage' = [stage EXCEPT ![k] = "active"]
    /\ UNCHANGED verdict

Answer(k) ==
    /\ stage[k] = "active"
    /\ stage' = [stage EXCEPT ![k] = "answered"]

\* The place of k goes to the next request in the queue.
HandOver(k, j) ==
    /\ stage[k] = "active"
    /\ Turn(j)
    /\ stage' = [stage EXCEPT ![k] = "answered", ![j] = "active"]
    /\ UNCHANGED verdict

Complete ==
    /\ stage = [k \in Job |-> "answered"]
    /\ verdict' = "complete"
    /\ UNCHANGED stage

Abandon ==
    /\ verdict' = "abandoned"
    /\ UNCHANGED stage \/ \E k \in Job : Answer(k)

Next ==
    /\ verdict = "open"
    /\ \/ \E k \in Job : Start(k)
       \/ \E k \in Job : Answer(k) /\ UNCHANGED verdict
       \/ \E k, j \in Job : HandOver(k, j)
       \/ Complete
       \/ Abandon

\* The batch does not stay open for ever.
Spec == Init /\ [][Next]_poolVars /\ <>(verdict # "open")

===============================================================================
