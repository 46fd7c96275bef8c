------------------------------ MODULE BatchSend ------------------------------
(***************************************************************************)
(* ClientImpl::send_request(n, ctx, max_parallel): one thread drives N     *)
(* requests over a libcurl multi handle through HttpReactor, at most Limit *)
(* of them at a time, and repeats a request whose status is retryable.     *)
(*                                                                         *)
(* The caller's thread is the only thread of the code.  What runs beside   *)
(* it are the transfers: libcurl advances any of them, in any order,       *)
(* whenever curl_multi_perform is called, and calls back into the          *)
(* HttpResponse while it does.                                             *)
(***************************************************************************)
EXTENDS Integers, FiniteSets, BceResponse

CONSTANTS
    N,               \* number of requests (argument n)
    MaxParallel,     \* argument max_parallel; not positive: take the option
    OptMaxParallel,  \* ClientOptions::max_parallel
    Retry,           \* ClientOptions::retry
    Outcomes,        \* what a transfer may bring back
    Contexts,        \* how the caller may hand over ctx[]: each request's
                     \* response and whether its stream is at the start
    Handle,          \* curl easy handles
    Detached,        \* a handle that is not in the multi handle
    Running          \* a handle in the multi handle, its transfer not over

Req == 1 .. N

\* max_parallel after its defaults and the clamp to n.
Limit ==
    LET m == IF MaxParallel > 0 THEN MaxParallel
             ELSE IF OptMaxParallel > 0 THEN OptMaxParallel ELSE 10
    IN  IF N > m THEN m ELSE N

\* A transfer of whose reply the HttpResponse keeps nothing.
Broken == [rc |-> FALSE, http |-> 0, body |-> NoBody, chain |-> STATUS_OK]

ASSUME BatchAssumption ==
    /\ N \in Nat
    /\ MaxParallel \in Int
    /\ OptMaxParallel \in Int
    /\ Retry \in Int
    /\ Outcomes \subseteq Outcome
    /\ \A o \in Outcomes : o.rc => o.http >= 100
    /\ Broken \in Outcomes
    /\ Contexts \subseteq [Req -> [resp : Response, atStart : BOOLEAN]]
    /\ Codes \cap {"none", "garbage"} = {}
    /\ Detached # Running
    /\ {Detached, Running} \cap Outcomes = {}
    /\ IsFiniteSet(Handle)

NoHandle == -1  \* _handle_ctx has no entry for the handle
NoCtx    == 0   \* the entry is NULL: the handle is idle

VARIABLES
    pc,         \* "launch" (first loop), "loop" (main loop) or "returned"
    ret,        \* value returned: 0, or 1 for any nonzero code
    next,       \* i: requests handed to the reactor so far
    finished,   \* finish_num
    retry,      \* HttpRequestContext::retry of each request
    atStart,    \* the request's input stream is at its first byte
    resp,       \* the response of each request
    hasLine,    \* HttpResponse::_has_recv_status_line of each
    handleCtx,  \* HttpReactor::_handle_ctx
    idle,       \* HttpReactor::_idle_handles (handles are alike: a set)
    transfer,   \* libcurl's side: Detached, Running or the outcome
    attempts,   \* history: transfers started for each request
    last,       \* history: outcome of the last finished transfer, or Detached
    answered    \* history: requests the loop has counted as finished

reactorVars == <<handleCtx, idle, transfer>>
historyVars == <<attempts, last, answered>>
vars == <<pc, ret, next, finished, retry, atStart, resp, hasLine,
          reactorVars, historyVars>>

\* The contexts are taken as they come: a response may have served an earlier
\* call, with its status, error and status line left in it, and a stream may
\* stand anywhere.  A status line has been seen exactly when there is a status:
\* write_header sets both, reset() clears both.
Init ==
    /\ pc = "launch"
    /\ ret = 0
    /\ next = 0
    /\ finished = 0
    /\ retry = [k \in Req |-> Retry]
    /\ \E c \in Contexts :
          /\ atStart = [k \in Req |-> c[k].atStart]
          /\ resp = [k \in Req |-> c[k].resp]
          /\ hasLine = [k \in Req |-> c[k].resp.http.status # 0]
    /\ handleCtx = [h \in Handle |-> NoHandle]
    /\ idle = {}
    /\ transfer = [h \in Handle |-> Detached]
    /\ attempts = [k \in Req |-> 0]
    /\ last = [k \in Req |-> Detached]
    /\ answered = {}

(***************************************************************************)
(* HttpReactor.  Its operations take the reactor's state as the enclosing  *)
(* handler has left it, because perform() and execute() run in one step of *)
(* the loop.                                                               *)
(***************************************************************************)

\* HttpReactor::execute succeeds: an idle handle is taken before a new one is
\* made, mapped to the request and added to the multi handle.
execute(k, ctxs, idles, transfers) ==
    \E h \in Handle :
        /\ \/ idles = {} /\ ctxs[h] = NoHandle
           \/ h \in idles
        /\ idle' = idles \ {h}
        /\ handleCtx' = [ctxs EXCEPT ![h] = k]
        /\ transfer' = [transfers EXCEPT ![h] = Running]
        /\ attempts' = [attempts EXCEPT ![k] = @ + 1]

\* ~HttpReactor: every handle is removed and cleaned up.
Destroy ==
    /\ handleCtx' = [h \in Handle |-> NoHandle]
    /\ idle' = {}
    /\ transfer' = [h \in Handle |-> Detached]

\* send_request returns early: build_http_request failed, no curl handle could
\* be made, or curl_multi_add_handle failed.
Abandon ==
    /\ pc' = "returned"
    /\ ret' = 1
    /\ Destroy
    /\ UNCHANGED attempts

-------------------------------------------------------------------------------
(***************************************************************************)
(* The first loop starts the first Limit requests; i moves on only when a  *)
(* request has been started.                                               *)
(***************************************************************************)
Launch ==
    /\ pc = "launch"
    /\ next < Limit
    /\ execute(next + 1, handleCtx, idle, transfer)
    /\ next' = next + 1
    /\ UNCHANGED <<pc, ret, finished, retry, atStart, resp, hasLine, last, answered>>

LaunchFails ==
    /\ pc = "launch"
    /\ next < Limit
    /\ Abandon
    /\ UNCHANGED <<next, finished, retry, atStart, resp, hasLine, last, answered>>

EnterLoop ==
    /\ pc = "launch"
    /\ next = Limit
    /\ pc' = "loop"
    /\ UNCHANGED <<ret, next, finished, retry, atStart, resp, hasLine, reactorVars,
                   historyVars>>

\* write_header takes the first line for a header line when the response says
\* it has its status line; that line does not parse and curl gives up.
Arriving(k) == IF hasLine[k] THEN {Broken} ELSE Outcomes

(***************************************************************************)
(* libcurl, inside curl_multi_perform: the transfer of h runs to its end.  *)
(* The request body is read from its stream and the reply goes through the *)
(* callbacks into the HttpResponse.                                        *)
(***************************************************************************)
Deliver(h) ==
    LET k == handleCtx[h] IN
    /\ pc = "loop"
    /\ finished < N
    /\ transfer[h] = Running
    /\ \E o \in Arriving(k) :
          /\ transfer' = [transfer EXCEPT ![h] = o]
          /\ resp' = [resp EXCEPT ![k] = Receive(@, o)]
          /\ hasLine' = [hasLine EXCEPT ![k] = @ \/ o.http # 0]
    /\ atStart' = [atStart EXCEPT ![k] = FALSE]
    /\ UNCHANGED <<pc, ret, next, finished, retry, handleCtx, idle,
                   historyVars>>

(***************************************************************************)
(* One round of the main loop.  perform() pops a finished transfer,        *)
(* detaches its handle and returns its context; the round concludes the    *)
(* response and then retries the request, starts the next one or neither.  *)
(* When perform() has nothing to return, the round waits in select() and   *)
(* changes no state.                                                       *)
(***************************************************************************)
Popped(h) ==
    /\ pc = "loop"
    /\ finished < N
    /\ transfer[h] \notin {Detached, Running}

Concluded(h) == Conclude(resp[handleCtx[h]], transfer[h])

WillRetry(h) ==
    /\ Retryable(Concluded(h).status)
    /\ retry[handleCtx[h]] > 0

\* perform() has detached h; the end of the round builds and executes k.
StartAfter(h, k) ==
    \/ /\ execute(k, [handleCtx EXCEPT ![h] = NoCtx], idle \cup {h},
                  [transfer EXCEPT ![h] = Detached])
       /\ UNCHANGED <<pc, ret>>
    \/ Abandon

\* Mutant of Repeat: ++finish_num before the branch, for repeats as well.
RepeatCounted(h) ==
    LET k == handleCtx[h] IN
    /\ Popped(h)
    /\ WillRetry(h)
    /\ retry' = [retry EXCEPT ![k] = @ - 1]
    /\ atStart' = [atStart EXCEPT ![k] = TRUE]
    /\ resp' = [resp EXCEPT ![k] = HttpReset(Concluded(h))]
    /\ hasLine' = [hasLine EXCEPT ![k] = FALSE]
    /\ last' = [last EXCEPT ![k] = transfer[h]]
    /\ StartAfter(h, k)
    /\ finished' = finished + 1
    /\ UNCHANGED <<next, answered>>

Repeat(h) ==
    LET k == handleCtx[h] IN
    /\ Popped(h)
    /\ WillRetry(h)
    /\ retry' = [retry EXCEPT ![k] = @ - 1]
    /\ atStart' = [atStart EXCEPT ![k] = TRUE]
    /\ resp' = [resp EXCEPT ![k] = HttpReset(Concluded(h))]
    /\ hasLine' = [hasLine EXCEPT ![k] = FALSE]
    /\ last' = [last EXCEPT ![k] = transfer[h]]
    /\ StartAfter(h, k)
    /\ UNCHANGED <<next, finished, answered>>

\* A request is finished for good.
Count(h) ==
    LET k == handleCtx[h] IN
    /\ Popped(h)
    /\ ~WillRetry(h)
    /\ finished' = finished + 1
    /\ resp' = [resp EXCEPT ![k] = Concluded(h)]
    /\ last' = [last EXCEPT ![k] = transfer[h]]
    /\ answered' = answered \cup {k}
    /\ UNCHANGED <<retry, atStart, hasLine>>

\* Mutant of StartNext: ctx[i - 1] for ctx[i].
StartNextPrevious(h) ==
    /\ Count(h)
    /\ next < N
    /\ next' = next + 1
    /\ StartAfter(h, next)

StartNext(h) ==
    /\ Count(h)
    /\ next < N
    /\ next' = next + 1
    /\ StartAfter(h, next + 1)

\* Mutant of Drain: perform() does not clear the handle's context.
DrainKeepsContext(h) ==
    /\ Count(h)
    /\ next = N
    /\ idle' = idle \cup {h}
    /\ transfer' = [transfer EXCEPT ![h] = Detached]
    /\ UNCHANGED <<pc, ret, next, handleCtx, attempts>>

Drain(h) ==
    /\ Count(h)
    /\ next = N
    /\ handleCtx' = [handleCtx EXCEPT ![h] = NoCtx]
    /\ idle' = idle \cup {h}
    /\ transfer' = [transfer EXCEPT ![h] = Detached]
    /\ UNCHANGED <<pc, ret, next, attempts>>

\* Mutant of Return: the loop ends when every request has been started.
ReturnWhenAllStarted ==
    /\ pc = "loop"
    /\ next = N
    /\ pc' = "returned"
    /\ ret' = 0
    /\ Destroy
    /\ UNCHANGED <<next, finished, retry, atStart, resp, hasLine, historyVars>>

Return ==
    /\ pc = "loop"
    /\ finished = N
    /\ pc' = "returned"
    /\ ret' = 0
    /\ Destroy
    /\ UNCHANGED <<next, finished, retry, atStart, resp, hasLine, historyVars>>

\* The caller has its answer; nothing more happens.
Terminated == pc = "returned" /\ UNCHANGED vars

Round(h) == Repeat(h) \/ StartNext(h) \/ Drain(h)

Next ==
    \/ Launch
    \/ LaunchFails
    \/ EnterLoop
    \/ \E h \in Handle : Deliver(h) \/ Round(h)
    \/ Return
    \/ Terminated

\* Mutant of Fairness: no CURLOPT_TIMEOUT, a transfer may hang.
FairnessWithoutTimeout ==
    /\ WF_vars(Launch \/ LaunchFails)
    /\ WF_vars(EnterLoop)
    /\ \A h \in Handle : WF_vars(Round(h))
    /\ WF_vars(Return)

(***************************************************************************)
(* The thread keeps running, and CURLOPT_TIMEOUT (prepare_curl) ends every *)
(* transfer that nothing else ends.                                        *)
(***************************************************************************)
Fairness ==
    /\ WF_vars(Launch \/ LaunchFails)
    /\ WF_vars(EnterLoop)
    /\ \A h \in Handle : WF_vars(Deliver(h))
    /\ \A h \in Handle : WF_vars(Round(h))
    /\ WF_vars(Return)

Spec == Init /\ [][Next]_vars /\ Fairness

===============================================================================
