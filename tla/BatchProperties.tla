--------------------------- MODULE BatchProperties ---------------------------
(***************************************************************************)
(* What ClientImpl::send_request(n, ctx, max_parallel) owes its caller.    *)
(***************************************************************************)
EXTENDS BatchSend

(***************************************************************************)
(* The variables of BatchSend hold values of their types: contexts name    *)
(* requests of the batch, handles are known to the reactor or not.         *)
(***************************************************************************)
TypeOK ==
    /\ pc \in {"launch", "loop", "returned"}
    /\ ret \in {0, 1}
    /\ next \in 0 .. N
    /\ finished \in 0 .. N
    /\ retry \in [Req -> Int]
    /\ atStart \in [Req -> BOOLEAN]
    /\ resp \in [Req -> Response]
    /\ hasLine \in [Req -> BOOLEAN]
    /\ handleCtx \in [Handle -> {NoHandle, NoCtx} \cup Req]
    /\ idle \subseteq Handle
    /\ transfer \in [Handle -> {Detached, Running} \cup Outcomes]
    /\ attempts \in [Req -> Nat]
    /\ last \in [Req -> Outcomes \cup {Detached}]
    /\ answered \subseteq Req

InFlight == {k \in Req : \E h \in Handle : handleCtx[h] = k}

(***************************************************************************)
(* HttpReactor keeps three views of a handle: its entry in _handle_ctx,    *)
(* its place in _idle_handles and its membership of the multi handle.      *)
(* They agree: a handle has a context exactly while it is in the multi     *)
(* handle (so perform() never dereferences a NULL context and never meets  *)
(* an unknown handle), is idle exactly while its context is NULL, and no   *)
(* request is on two handles.  http_client.cpp:259-320.                    *)
(***************************************************************************)
HandlesConsistent ==
    /\ \A h \in Handle :
          /\ (transfer[h] # Detached) <=> (handleCtx[h] \in Req)
          /\ (h \in idle) <=> (handleCtx[h] = NoCtx)
    /\ \A g, h \in Handle :
          handleCtx[g] \in Req /\ handleCtx[g] = handleCtx[h] => g = h

(***************************************************************************)
(* Never more than max_parallel requests in flight, and the reactor never  *)
(* makes more curl handles than that, retries included: README.md:205-206. *)
(***************************************************************************)
WithinMaxParallel ==
    /\ Cardinality(InFlight) <= Limit
    /\ Cardinality({h \in Handle : handleCtx[h] # NoHandle}) <= Limit

(***************************************************************************)
(* finish_num and i account for every request: those counted are finished, *)
(* those handed over and not counted are in flight, the others wait their  *)
(* turn.  A double count would end the loop with a transfer still running. *)
(***************************************************************************)
Accounting ==
    /\ finished = Cardinality(answered)
    /\ pc # "returned" => InFlight = (1 .. next) \ answered
    /\ answered \subseteq 1 .. next

(***************************************************************************)
(* When the batch returns 0 every request has been answered, was tried at  *)
(* least once and has no retry left to use on a retryable status.          *)
(***************************************************************************)
CompleteOnSuccess ==
    pc = "returned" /\ ret = 0 =>
        /\ answered = Req
        /\ \A k \in Req :
              /\ attempts[k] >= 1
              /\ Retryable(resp[k].status) => retry[k] <= 0

(***************************************************************************)
(* A request is sent at most 1 + retry times ("retry" is the number of     *)
(* EXTRA attempts, README.md:141), and the attempts made and the retries   *)
(* left always add up.                                                     *)
(***************************************************************************)
AttemptsBounded ==
    \A k \in Req :
        /\ attempts[k] <= 1 + (IF Retry > 0 THEN Retry ELSE 0)
        /\ pc # "returned" /\ k <= next => attempts[k] + retry[k] = 1 + Retry

\* Nothing of an earlier attempt is in the way of request k.
Ready(k) ==
    /\ atStart[k]
    /\ resp[k].http.atStart
    /\ resp[k].http.status = 0
    /\ ~hasLine[k]

(***************************************************************************)
(* A repeated transfer starts with the request stream at its first byte,   *)
(* the response stream at its first byte and no status or status line left *)
(* from the attempt before, whatever the caller handed over and whatever   *)
(* the other transfers do meanwhile.  (The FIRST transfer of a request     *)
(* starts as the caller left the context: client_impl.cpp:138-150 resets   *)
(* nothing.)                                                               *)
(***************************************************************************)
CleanStart ==
    \A h \in Handle : transfer[h] = Running =>
        (attempts[handleCtx[h]] > 1 => Ready(handleCtx[h]))

(***************************************************************************)
(* A response says ok exactly when the last transfer of its request was a  *)
(* success, whatever the attempts before it met, and whatever an earlier   *)
(* call left in the response: an old error, an old status that makes a     *)
(* success be repeated, or an old status line that makes the first         *)
(* transfer fail.                                                          *)
(***************************************************************************)
VerdictOfLastAttempt ==
    \A k \in answered : is_ok(resp[k]) <=> Succeeded(last[k])

(***************************************************************************)
(* Once counted, a request is never sent again and its response is never   *)
(* written again.                                                          *)
(***************************************************************************)
AnswerIsFinal ==
    [][\A k \in answered :
          /\ k \in answered'
          /\ attempts'[k] = attempts[k]
          /\ resp'[k] = resp[k]]_vars

(***************************************************************************)
(* The call returns: retries are finite and no request is left waiting     *)
(* for a slot that is never handed on.                                     *)
(***************************************************************************)
Returns == <>(pc = "returned")

-------------------------------------------------------------------------------
(***************************************************************************)
(* The inductive invariant behind the properties above, part by part.      *)
(***************************************************************************)

Known == {h \in Handle : handleCtx[h] # NoHandle}

\* Where the two loops stand.
Progress ==
    /\ pc = "launch" => finished = 0 /\ next <= Limit /\ idle = {}
                        /\ Cardinality(Known) = next
    /\ pc # "returned" => ret = 0 /\ next - finished <= Limit
    /\ pc = "returned" => \A h \in Handle : handleCtx[h] = NoHandle
    /\ pc = "returned" /\ ret = 0 => finished = N
    /\ Cardinality(Known) <= Limit

\* Requests the reactor has not seen have all their retries; those it has seen
\* have used as many retries as they made extra attempts.
Budget ==
    \A k \in Req :
        /\ k > next => attempts[k] = 0 /\ retry[k] = Retry
        /\ k <= next /\ pc # "returned" => attempts[k] + retry[k] = 1 + Retry
        /\ k \in answered => attempts[k] >= 1
        /\ retry[k] <= Retry
        /\ retry[k] < Retry => retry[k] >= 0
        /\ attempts[k] <= 1 + (IF Retry > 0 THEN Retry ELSE 0)

\* A reply waiting to be popped has left its status in the response.
StatusReceived ==
    \A h \in Handle : transfer[h] \in Outcomes /\ transfer[h].rc =>
        resp[handleCtx[h]].http.status = transfer[h].http

\* A counted request could not be retried.
Settled == \A k \in answered : Retryable(resp[k].status) => retry[k] <= 0

BatchInv ==
    /\ TypeOK
    /\ HandlesConsistent
    /\ Accounting
    /\ Progress
    /\ Budget
    /\ CleanStart
    /\ StatusReceived
    /\ VerdictOfLastAttempt
    /\ Settled

-------------------------------------------------------------------------------
(***************************************************************************)
(* The batch as a queue of jobs served by Limit slots (RequestPool):       *)
(* requests start in order, at most Limit are active, a retry keeps its    *)
(* slot, and the call completes only when all are answered                 *)
(* (README.md:205-207).                                                    *)
(***************************************************************************)
\* A request waits until its first transfer starts.
Stage(k) == IF k \in answered THEN "answered"
            ELSE IF attempts[k] > 0 THEN "active" ELSE "queued"

Stages == [k \in Req |-> Stage(k)]

Verdict == IF pc # "returned" THEN "open"
           ELSE IF ret = 0 THEN "complete" ELSE "abandoned"

Pool == INSTANCE RequestPool WITH
            Slots <- Limit, stage <- Stages, verdict <- Verdict

\* The detailed batch implements the pool, the guarantee that the call ends
\* included.
ImplementsPool == Pool!Spec

===============================================================================
