----------------------------- MODULE BatchProofs -----------------------------
(***************************************************************************)
(* Proofs that ClientImpl::send_request(n, ctx, max_parallel), as modelled *)
(* by BatchSend, keeps the safety properties of BatchProperties for every  *)
(* number of requests, limit, retry count and set of outcomes, and for     *)
(* whatever responses and streams the caller hands over.                   *)
(*                                                                         *)
(* The argument: BatchInv is inductive.  The reactor's part of a round is  *)
(* the same in every action (detach a handle, put a request on a handle),  *)
(* so it is settled first, in two lemmas about a reactor state (c, i, t).  *)
(***************************************************************************)
EXTENDS BatchProperties, BceResponseProofs, FiniteSetTheorems, TLAPS

Fly(c)     == {k \in Req : \E h \in Handle : c[h] = k}
KnownOf(c) == {h \in Handle : c[h] # NoHandle}

ReactorType(c, i, t) ==
    /\ c \in [Handle -> {NoHandle, NoCtx} \cup Req]
    /\ i \subseteq Handle
    /\ t \in [Handle -> {Detached, Running} \cup Outcomes]

Consistent(c, i, t) ==
    /\ \A h \in Handle :
          /\ (t[h] # Detached) <=> (c[h] \in Req)
          /\ (h \in i) <=> (c[h] = NoCtx)
    /\ \A g, h \in Handle : c[g] \in Req /\ c[g] = c[h] => g = h

\* What perform() does to the context and to the transfer of handle h.
Off(c, h) == [c EXCEPT ![h] = NoCtx]
Out(t, h) == [t EXCEPT ![h] = Detached]

\* A handle that is idle or unknown carries no request.
LEMMA NoRequest == NoHandle \notin Req /\ NoCtx \notin Req /\ NoHandle # NoCtx
BY DEF NoHandle, NoCtx, Req

\* The clamp leaves a limit between 0 and n.
LEMMA LimitType == Limit \in Nat /\ Limit <= N
BY BatchAssumption DEF Limit

\* perform() takes the request of h off its handle and nothing else.
LEMMA Detaching ==
    ASSUME NEW STATE c, NEW STATE i, NEW STATE t, NEW STATE h,
           ReactorType(c, i, t), Consistent(c, i, t),
           h \in Handle, c[h] \in Req
    PROVE  /\ ReactorType(Off(c, h), i \cup {h}, Out(t, h))
           /\ Consistent(Off(c, h), i \cup {h}, Out(t, h))
           /\ Fly(Off(c, h)) = Fly(c) \ {c[h]}
           /\ KnownOf(Off(c, h)) = KnownOf(c)
<1> DEFINE c2 == Off(c, h)
           i2 == i \cup {h}
           t2 == Out(t, h)
<1>1. ReactorType(c2, i2, t2)
  BY DEF ReactorType, Off, Out
<1>2. \A g \in Handle : /\ c2[g] = IF g = h THEN NoCtx ELSE c[g]
                        /\ t2[g] = IF g = h THEN Detached ELSE t[g]
                        /\ g \in i2 <=> (g = h \/ g \in i)
  BY DEF ReactorType, Off, Out
<1> HIDE DEF c2, i2, t2
<1>3. Consistent(c2, i2, t2)
  BY <1>2, NoRequest DEF Consistent
<1>4. Fly(c2) = Fly(c) \ {c[h]}
  BY <1>2, NoRequest DEF Fly, Consistent
<1>5. KnownOf(c2) = KnownOf(c)
  BY <1>2, NoRequest DEF KnownOf, Consistent
<1> QED BY <1>1, <1>3, <1>4, <1>5 DEF c2, i2, t2

\* execute() puts k on one handle: an idle one while there is one, else a
\* handle the reactor did not know.
LEMMA Executing ==
    ASSUME NEW STATE c, NEW STATE i, NEW STATE t, NEW STATE k,
           ReactorType(c, i, t), Consistent(c, i, t),
           k \in Req, k \notin Fly(c), attempts \in [Req -> Nat],
           execute(k, c, i, t)
    PROVE  /\ ReactorType(handleCtx', idle', transfer')
           /\ Consistent(handleCtx', idle', transfer')
           /\ Fly(handleCtx') = Fly(c) \cup {k}
           /\ i # {} => KnownOf(handleCtx') = KnownOf(c)
           /\ i = {} => /\ idle' = {}
                        /\ \E h \in Handle \ KnownOf(c) :
                              KnownOf(handleCtx') = KnownOf(c) \cup {h}
           /\ \A g \in Handle :
                 \/ /\ handleCtx'[g] = k
                    /\ transfer'[g] = Running
                 \/ /\ handleCtx'[g] = c[g]
                    /\ transfer'[g] = t[g]
           /\ attempts' \in [Req -> Nat]
           /\ attempts'[k] = attempts[k] + 1
           /\ \A j \in Req : j # k => attempts'[j] = attempts[j]
<1>1. PICK h \in Handle :
        /\ (i = {} /\ c[h] = NoHandle) \/ h \in i
        /\ idle' = i \ {h}
        /\ handleCtx' = [c EXCEPT ![h] = k]
        /\ transfer' = [t EXCEPT ![h] = Running]
        /\ attempts' = [attempts EXCEPT ![k] = @ + 1]
  BY DEF execute
<1>2. ReactorType(handleCtx', idle', transfer')
  BY <1>1 DEF ReactorType
<1>3. \A g \in Handle : /\ handleCtx'[g] = IF g = h THEN k ELSE c[g]
                        /\ transfer'[g] = IF g = h THEN Running ELSE t[g]
                        /\ g \in idle' <=> (g # h /\ g \in i)
  BY <1>1 DEF ReactorType
<1>4. c[h] \notin Req /\ (c[h] = NoCtx \/ (i = {} /\ c[h] = NoHandle))
  BY <1>1, NoRequest DEF Consistent
<1>5. \A g \in Handle : c[g] # k
  BY DEF Fly
<1>6. Running # Detached
  BY BatchAssumption
<1>7. Consistent(handleCtx', idle', transfer')
  BY <1>3, <1>4, <1>5, <1>6, NoRequest DEF Consistent
<1>8. Fly(handleCtx') = Fly(c) \cup {k}
  BY <1>3, <1>4 DEF Fly
<1>9. i # {} => KnownOf(handleCtx') = KnownOf(c)
  BY <1>3, <1>4, NoRequest DEF KnownOf
<1>10. i = {} => /\ idle' = {}
                 /\ \E x \in Handle \ KnownOf(c) :
                       KnownOf(handleCtx') = KnownOf(c) \cup {x}
  <2> SUFFICES ASSUME i = {}
               PROVE  /\ idle' = {}
                      /\ h \in Handle \ KnownOf(c)
                      /\ KnownOf(handleCtx') = KnownOf(c) \cup {h}
    OBVIOUS
  <2>1. c[h] = NoHandle
    BY <1>1
  <2> QED BY <1>1, <1>3, <2>1, NoRequest DEF KnownOf
<1>11. /\ attempts' \in [Req -> Nat]
       /\ attempts'[k] = attempts[k] + 1
       /\ \A j \in Req : j # k => attempts'[j] = attempts[j]
  BY <1>1
<1> QED BY <1>2, <1>3, <1>7, <1>8, <1>9, <1>10, <1>11

-------------------------------------------------------------------------------
(***************************************************************************)
(* The actions' common parts, from the invariant.                          *)
(***************************************************************************)

\* ~HttpReactor leaves a consistent, empty reactor.
LEMMA Destroying ==
    ASSUME Destroy
    PROVE  /\ ReactorType(handleCtx', idle', transfer')
           /\ Consistent(handleCtx', idle', transfer')
           /\ \A h \in Handle : /\ handleCtx'[h] = NoHandle
                                /\ transfer'[h] = Detached
           /\ Fly(handleCtx') = {}
           /\ KnownOf(handleCtx') = {}
<1>1. \A h \in Handle : handleCtx'[h] = NoHandle /\ transfer'[h] = Detached
  BY DEF Destroy
<1>2. ReactorType(handleCtx', idle', transfer')
  BY DEF Destroy, ReactorType
<1>3. Consistent(handleCtx', idle', transfer')
  BY <1>1, NoRequest DEF Destroy, Consistent
<1> QED BY <1>1, <1>2, <1>3, NoRequest DEF Fly, KnownOf

LEMMA ReactorOfInv ==
    ASSUME BatchInv
    PROVE  /\ ReactorType(handleCtx, idle, transfer)
           /\ Consistent(handleCtx, idle, transfer)
           /\ InFlight = Fly(handleCtx)
           /\ Known = KnownOf(handleCtx)
           /\ pc # "returned" => InFlight = (1 .. next) \ answered
           /\ \A k \in answered : k \notin InFlight
<1>1. ReactorType(handleCtx, idle, transfer)
  BY DEF BatchInv, TypeOK, ReactorType
<1>2. Consistent(handleCtx, idle, transfer)
  BY DEF BatchInv, HandlesConsistent, Consistent
<1>3. InFlight = Fly(handleCtx) /\ Known = KnownOf(handleCtx)
  BY DEF InFlight, Fly, Known, KnownOf
<1>4. pc # "returned" => InFlight = (1 .. next) \ answered
  BY DEF BatchInv, Accounting
<1>5. pc = "returned" => InFlight = {}
  BY NoRequest DEF BatchInv, Progress, InFlight
<1> QED BY <1>1, <1>2, <1>3, <1>4, <1>5

\* The request perform() returns: it was in flight, has not been counted, and
\* its response is judged by the reply that just ended.
LEMMA Popping ==
    ASSUME BatchInv, NEW h \in Handle, Popped(h)
    PROVE  LET k == handleCtx[h] IN
           /\ k \in Req /\ k \in 1 .. next /\ k \notin answered
           /\ k \in InFlight
           /\ transfer[h] \in Outcomes /\ transfer[h] \in Outcome
           /\ Concluded(h) \in Response
           /\ is_ok(Concluded(h)) <=> Succeeded(transfer[h])
<1> DEFINE k == handleCtx[h]
<1>1. transfer[h] \in Outcomes
  BY DEF Popped, BatchInv, TypeOK
<1>2. transfer[h] # Detached
  BY DEF Popped
<1>3. k \in Req
  BY <1>2 DEF BatchInv, HandlesConsistent
<1>4. k \in InFlight
  BY <1>3 DEF InFlight
<1>5. k \in 1 .. next /\ k \notin answered
  BY <1>4, ReactorOfInv DEF Popped
<1>6. transfer[h] \in Outcome
  BY <1>1, BatchAssumption
<1>7. resp[k] \in Response
  BY <1>3 DEF BatchInv, TypeOK
<1>8. transfer[h].rc => resp[k].http.status = transfer[h].http
  BY <1>1 DEF BatchInv, StatusReceived
<1>9. "none" \notin Codes
  BY BatchAssumption
<1>10. /\ Conclude(resp[k], transfer[h]) \in Response
       /\ is_ok(Conclude(resp[k], transfer[h])) <=> Succeeded(transfer[h])
  BY <1>6, <1>7, <1>8, <1>9, ConcludeVerdict
<1> QED BY <1>1, <1>3, <1>4, <1>5, <1>6, <1>10 DEF Concluded

\* The reactor after the end of a round: given up, or k on a handle and the
\* request of h off its own.
LEMMA StartingAfter ==
    ASSUME BatchInv, NEW h \in Handle, Popped(h), NEW STATE k, k \in Req,
           k \notin InFlight \ {handleCtx[h]}, StartAfter(h, k)
    PROVE  /\ ReactorType(handleCtx', idle', transfer')
           /\ Consistent(handleCtx', idle', transfer')
           /\ attempts' \in [Req -> Nat]
           /\ \A j \in Req : j # k => attempts'[j] = attempts[j]
           /\ \/ /\ pc' = "returned" /\ ret' = 1
                 /\ attempts' = attempts
                 /\ \A g \in Handle : /\ handleCtx'[g] = NoHandle
                                      /\ transfer'[g] = Detached
                 /\ InFlight' = {}
                 /\ Known' = {}
              \/ /\ pc' = pc /\ ret' = ret
                 /\ attempts'[k] = attempts[k] + 1
                 /\ InFlight' = (InFlight \ {handleCtx[h]}) \cup {k}
                 /\ Known' = Known
                 /\ \A g \in Handle :
                       \/ /\ handleCtx'[g] = k
                          /\ transfer'[g] = Running
                       \/ /\ g # h
                          /\ handleCtx'[g] = handleCtx[g]
                          /\ transfer'[g] = transfer[g]
                       \/ /\ g = h
                          /\ handleCtx'[g] = NoCtx
                          /\ transfer'[g] = Detached
<1>1. InFlight' = Fly(handleCtx') /\ Known' = KnownOf(handleCtx')
  BY DEF InFlight, Fly, Known, KnownOf
<1>2. attempts \in [Req -> Nat]
  BY DEF BatchInv, TypeOK
<1>3. CASE Abandon
  <2>1. Destroy /\ pc' = "returned" /\ ret' = 1 /\ attempts' = attempts
    BY <1>3 DEF Abandon
  <2> QED BY <1>1, <1>2, <2>1, Destroying
<1>4. CASE ~Abandon
  <2> DEFINE c2 == Off(handleCtx, h)
             i2 == idle \cup {h}
             t2 == Out(transfer, h)
  <2>1. execute(k, c2, i2, t2) /\ pc' = pc /\ ret' = ret
    BY <1>4 DEF StartAfter, Off, Out
  <2>2. handleCtx[h] \in Req
    BY Popping
  <2>3. /\ ReactorType(handleCtx, idle, transfer)
        /\ Consistent(handleCtx, idle, transfer)
        /\ InFlight = Fly(handleCtx)
        /\ Known = KnownOf(handleCtx)
    BY ReactorOfInv
  <2>4. /\ ReactorType(c2, i2, t2)
        /\ Consistent(c2, i2, t2)
        /\ Fly(c2) = InFlight \ {handleCtx[h]}
        /\ KnownOf(c2) = Known
        /\ i2 # {}
    BY <2>2, <2>3, Detaching
  <2>5. \A g \in Handle : /\ c2[g] = IF g = h THEN NoCtx ELSE handleCtx[g]
                          /\ t2[g] = IF g = h THEN Detached ELSE transfer[g]
    BY <2>3 DEF ReactorType, Off, Out
  <2> HIDE DEF c2, i2, t2
  <2>6. /\ ReactorType(handleCtx', idle', transfer')
        /\ Consistent(handleCtx', idle', transfer')
        /\ Fly(handleCtx') = (InFlight \ {handleCtx[h]}) \cup {k}
        /\ KnownOf(handleCtx') = Known
        /\ \A g \in Handle :
              \/ /\ handleCtx'[g] = k
                 /\ transfer'[g] = Running
              \/ /\ handleCtx'[g] = c2[g]
                 /\ transfer'[g] = t2[g]
        /\ attempts' \in [Req -> Nat]
        /\ attempts'[k] = attempts[k] + 1
        /\ \A j \in Req : j # k => attempts'[j] = attempts[j]
    BY <1>2, <2>1, <2>4, Executing
  <2> QED BY <1>1, <2>1, <2>5, <2>6
<1> QED BY <1>3, <1>4

-------------------------------------------------------------------------------
(***************************************************************************)
(* BatchInv holds initially and every action preserves it.                 *)
(***************************************************************************)

LEMMA InvInit == Init => BatchInv
<1> SUFFICES ASSUME Init PROVE BatchInv
  OBVIOUS
<1> USE NoRequest, BatchAssumption, LimitType DEF Init
<1>1. TypeOK
  <2>1. PICK c \in Contexts :
          /\ atStart = [k \in Req |-> c[k].atStart]
          /\ resp = [k \in Req |-> c[k].resp]
          /\ hasLine = [k \in Req |-> c[k].resp.http.status # 0]
    OBVIOUS
  <2>2. /\ atStart \in [Req -> BOOLEAN] /\ resp \in [Req -> Response]
        /\ hasLine \in [Req -> BOOLEAN]
    BY <2>1
  <2> QED BY <2>2 DEF TypeOK, Req
<1>2. HandlesConsistent
  BY DEF HandlesConsistent
<1>3. Accounting
  <2>1. InFlight = {}
    BY DEF InFlight
  <2>2. (1 .. next) \ answered = {}
    OBVIOUS
  <2> QED BY <2>1, <2>2, FS_EmptySet DEF Accounting
<1>4. Progress
  <2>1. Known = {}
    BY DEF Known
  <2> QED BY <2>1, FS_EmptySet DEF Progress
<1>5. Budget
  BY DEF Budget, Req
<1>6. CleanStart /\ StatusReceived
  BY DEF CleanStart, StatusReceived
<1>7. VerdictOfLastAttempt /\ Settled
  BY DEF VerdictOfLastAttempt, Settled
<1> QED BY <1>1, <1>2, <1>3, <1>4, <1>5, <1>6, <1>7 DEF BatchInv

\* The reactor is torn down and nothing else moves: what is left to show.
LEMMA TornDown ==
    ASSUME BatchInv, Destroy, pc' = "returned",
           ret' = 1 \/ (ret' = 0 /\ finished = N),
           UNCHANGED <<next, finished, retry, atStart, resp, hasLine,
                       historyVars>>
    PROVE  BatchInv'
<1> USE Destroying DEF BatchInv, historyVars
<1>1. TypeOK'
  BY DEF TypeOK, ReactorType
<1>2. HandlesConsistent'
  BY DEF HandlesConsistent, Consistent
<1>3. Accounting'
  BY DEF Accounting
<1>4. Progress'
  <2>1. Known' = {}
    BY DEF Known, KnownOf
  <2> QED BY <2>1, FS_EmptySet, LimitType DEF Progress
<1>5. Budget'
  BY DEF Budget
<1>6. CleanStart' /\ StatusReceived'
  BY BatchAssumption DEF CleanStart, StatusReceived
<1>7. VerdictOfLastAttempt' /\ Settled'
  BY DEF VerdictOfLastAttempt, Settled
<1> QED BY <1>1, <1>2, <1>3, <1>4, <1>5, <1>6, <1>7

LEMMA LaunchFailsStep == BatchInv /\ LaunchFails => BatchInv'
BY TornDown DEF LaunchFails, Abandon, historyVars

LEMMA ReturnStep == BatchInv /\ Return => BatchInv'
BY TornDown DEF Return, historyVars

\* Nothing BatchInv speaks of changes.
LEMMA StutterStep == BatchInv /\ UNCHANGED vars => BatchInv'
<1> SUFFICES ASSUME BatchInv, UNCHANGED vars PROVE BatchInv'
  OBVIOUS
<1> USE DEF BatchInv, vars, reactorVars, historyVars
<1>1. TypeOK' /\ HandlesConsistent'
  BY DEF TypeOK, HandlesConsistent
<1>2. Accounting'
  BY DEF Accounting, InFlight
<1>3. Progress' /\ Budget'
  BY DEF Progress, Known, Budget
<1>4. CleanStart' /\ StatusReceived' /\ VerdictOfLastAttempt' /\ Settled'
  BY DEF CleanStart, Ready, StatusReceived, VerdictOfLastAttempt, Settled
<1> QED BY <1>1, <1>2, <1>3, <1>4

LEMMA EnterLoopStep == BatchInv /\ EnterLoop => BatchInv'
<1> SUFFICES ASSUME BatchInv, EnterLoop PROVE BatchInv'
  OBVIOUS
<1> USE DEF BatchInv, EnterLoop, reactorVars, historyVars
<1>1. TypeOK' /\ HandlesConsistent'
  BY DEF TypeOK, HandlesConsistent
<1>2. Accounting'
  BY DEF Accounting, InFlight
<1>3. Progress' /\ Budget'
  BY DEF Progress, Known, Budget
<1>4. CleanStart' /\ StatusReceived' /\ VerdictOfLastAttempt' /\ Settled'
  BY DEF CleanStart, Ready, StatusReceived, VerdictOfLastAttempt, Settled
<1> QED BY <1>1, <1>2, <1>3, <1>4

LEMMA LaunchStep == BatchInv /\ Launch => BatchInv'
<1> SUFFICES ASSUME BatchInv, Launch PROVE BatchInv'
  OBVIOUS
<1> DEFINE k == next + 1
<1>1. k \in Req /\ k <= Limit /\ k \in Nat /\ next \in Nat
  BY LimitType, BatchAssumption DEF Launch, Req, BatchInv, TypeOK
<1>2. k \notin InFlight /\ k \notin answered /\ InFlight = (1 .. next) \ answered
  BY <1>1, ReactorOfInv DEF Launch, BatchInv, Accounting
<1>3. finished = 0 /\ idle = {} /\ Cardinality(Known) = next
  BY DEF Launch, BatchInv, Progress
<1>4. attempts \in [Req -> Nat] /\ execute(k, handleCtx, idle, transfer)
  BY DEF Launch, BatchInv, TypeOK
<1>5. /\ ReactorType(handleCtx', idle', transfer')
      /\ Consistent(handleCtx', idle', transfer')
      /\ InFlight' = InFlight \cup {k}
      /\ idle' = {}
      /\ \E h \in Handle \ Known : Known' = Known \cup {h}
      /\ \A g \in Handle : \/ /\ handleCtx'[g] = k
                              /\ transfer'[g] = Running
                           \/ /\ handleCtx'[g] = handleCtx[g]
                              /\ transfer'[g] = transfer[g]
      /\ attempts' \in [Req -> Nat]
      /\ attempts'[k] = attempts[k] + 1
      /\ \A j \in Req : j # k => attempts'[j] = attempts[j]
  <2>1. InFlight' = Fly(handleCtx') /\ Known' = KnownOf(handleCtx')
    BY DEF InFlight, Fly, Known, KnownOf
  <2>2. /\ ReactorType(handleCtx, idle, transfer)
        /\ Consistent(handleCtx, idle, transfer)
        /\ InFlight = Fly(handleCtx)
        /\ Known = KnownOf(handleCtx)
    BY ReactorOfInv
  <2> QED BY <1>1, <1>2, <1>3, <1>4, <2>1, <2>2, Executing
<1>6. /\ next' = k
      /\ UNCHANGED <<pc, ret, finished, retry, atStart, resp, hasLine, last,
                     answered>>
  BY DEF Launch
<1>7. attempts[k] = 0 /\ retry[k] = Retry
  BY <1>1, <1>6 DEF BatchInv, Budget, TypeOK
<1> HIDE DEF k
<1>8. TypeOK'
  BY <1>1, <1>5, <1>6, LimitType, BatchAssumption
     DEF BatchInv, TypeOK, ReactorType, Req
<1>9. HandlesConsistent'
  BY <1>5 DEF HandlesConsistent, Consistent
<1>10. Accounting'
  <2>1. InFlight' = (1 .. next') \ answered'
    BY <1>1, <1>2, <1>5, <1>6 DEF k
  <2> QED BY <1>1, <1>6, <2>1 DEF BatchInv, Accounting, k
<1>11. Progress'
  <2>1. PICK h \in Handle \ Known : Known' = Known \cup {h}
    BY <1>5
  <2>2. IsFiniteSet(Known)
    BY BatchAssumption, FS_Subset DEF Known
  <2>3. Cardinality(Known') = k
    BY <1>3, <2>1, <2>2, FS_AddElement DEF k
  <2> QED BY <1>1, <1>3, <1>5, <1>6, <2>3, LimitType
          DEF BatchInv, Progress, Launch
<1>12. Budget'
  <2> SUFFICES ASSUME NEW j \in Req PROVE Budget!(j)'
    BY DEF Budget
  <2>1. CASE j = k
    BY <1>1, <1>5, <1>6, <1>7, <2>1, BatchAssumption DEF BatchInv, Budget
  <2>2. CASE j # k
    <3>1. j > k => j > next
      BY <1>1 DEF k, Req
    <3>2. j <= k => j <= next
      BY <1>1, <2>2 DEF k, Req
    <3> QED BY <1>5, <1>6, <2>2, <3>1, <3>2 DEF BatchInv, Budget, Launch
  <2> QED BY <2>1, <2>2
<1>13. CleanStart'
  <2> SUFFICES ASSUME NEW g \in Handle, transfer'[g] = Running,
                      attempts'[handleCtx'[g]] > 1
               PROVE  Ready(handleCtx[g])'
    BY DEF CleanStart
  <2>1. handleCtx'[g] # k
    BY <1>5, <1>7
  <2>2. /\ handleCtx'[g] = handleCtx[g] /\ transfer[g] = Running
        /\ handleCtx[g] \in Req
    BY <1>5, <2>1, BatchAssumption DEF BatchInv, HandlesConsistent
  <2> QED BY <1>5, <1>6, <2>1, <2>2 DEF BatchInv, CleanStart, Ready
<1>14. StatusReceived'
  BY <1>5, <1>6, BatchAssumption DEF BatchInv, StatusReceived
<1>15. VerdictOfLastAttempt' /\ Settled'
  BY <1>6 DEF BatchInv, VerdictOfLastAttempt, Settled
<1> QED BY <1>8, <1>9, <1>10, <1>11, <1>12, <1>13, <1>14, <1>15 DEF BatchInv

LEMMA DeliverStep == ASSUME BatchInv, NEW h \in Handle, Deliver(h)
                     PROVE  BatchInv'
<1> DEFINE k == handleCtx[h]
<1>1. PICK o \in Outcomes :
        /\ transfer' = [transfer EXCEPT ![h] = o]
        /\ resp' = [resp EXCEPT ![k] = Receive(@, o)]
        /\ hasLine' = [hasLine EXCEPT ![k] = @ \/ o.http # 0]
  BY BatchAssumption DEF Deliver, Arriving
<1>2. /\ atStart' = [atStart EXCEPT ![k] = FALSE]
      /\ transfer[h] = Running
      /\ UNCHANGED <<pc, ret, next, finished, retry, handleCtx, idle,
                     attempts, last, answered>>
  BY DEF Deliver, historyVars
<1>3. o \in Outcome /\ o # Detached /\ o # Running /\ (o.rc => o.http # 0)
  BY BatchAssumption DEF Outcome
<1>4. k \in Req /\ k \in InFlight /\ k \notin answered /\ k <= next
  <2>1. k \in Req
    BY <1>2, BatchAssumption DEF BatchInv, HandlesConsistent
  <2>2. k \in InFlight
    BY <2>1 DEF InFlight
  <2> QED BY <2>1, <2>2, ReactorOfInv DEF Deliver
<1>5. resp[k] \in Response
  BY <1>4 DEF BatchInv, TypeOK
<1>6. Receive(resp[k], o) \in Response
      /\ (o.rc => Receive(resp[k], o).http.status = o.http)
  BY <1>3, <1>5, ReceiveType
<1>7. \A g \in Handle : handleCtx[g] = k => g = h
  BY <1>4 DEF BatchInv, HandlesConsistent
<1>8. /\ resp' \in [Req -> Response]
      /\ resp'[k] = Receive(resp[k], o)
      /\ \A j \in Req : j # k => resp'[j] = resp[j]
      /\ hasLine' \in [Req -> BOOLEAN]
      /\ \A j \in Req : j # k => hasLine'[j] = hasLine[j]
      /\ atStart' \in [Req -> BOOLEAN]
      /\ \A j \in Req : j # k => atStart'[j] = atStart[j]
      /\ transfer' \in [Handle -> {Detached, Running} \cup Outcomes]
      /\ transfer'[h] = o
      /\ \A g \in Handle : g # h => transfer'[g] = transfer[g]
  BY <1>1, <1>2, <1>4, <1>6 DEF BatchInv, TypeOK
<1> HIDE DEF k
<1>9. TypeOK'
  BY <1>2, <1>8 DEF BatchInv, TypeOK
<1>10. HandlesConsistent'
  BY <1>2, <1>3, <1>4, <1>8, BatchAssumption
     DEF BatchInv, HandlesConsistent, k
<1>11. Accounting' /\ Progress'
  BY <1>2 DEF BatchInv, Accounting, Progress, InFlight, Known
<1>12. Budget'
  <2> SUFFICES ASSUME NEW j \in Req PROVE Budget!(j)'
    BY DEF Budget
  <2>1. j > next => j # k
    BY <1>4 DEF Req, BatchInv, TypeOK
  <2> QED BY <1>2, <1>8, <2>1 DEF BatchInv, Budget
<1>13. CleanStart'
  <2> SUFFICES ASSUME NEW g \in Handle, transfer'[g] = Running
               PROVE  attempts'[handleCtx[g]] > 1 => Ready(handleCtx[g])'
    BY <1>2 DEF CleanStart
  <2>1. g # h /\ transfer[g] = Running
    BY <1>3, <1>8
  <2>2. handleCtx[g] \in Req /\ handleCtx[g] # k
    BY <1>7, <2>1, BatchAssumption DEF BatchInv, HandlesConsistent
  <2> QED BY <1>2, <1>8, <2>1, <2>2 DEF BatchInv, CleanStart, Ready
<1>14. StatusReceived'
  <2> SUFFICES ASSUME NEW g \in Handle, transfer'[g] \in Outcomes,
                      transfer'[g].rc
               PROVE  resp'[handleCtx[g]].http.status = transfer'[g].http
    BY <1>2 DEF StatusReceived
  <2>1. CASE g = h
    BY <1>6, <1>8, <2>1 DEF k
  <2>2. CASE g # h
    <3>1. transfer[g] = transfer'[g] /\ transfer[g] # Detached
      BY <1>8, <2>2, BatchAssumption
    <3>2. handleCtx[g] \in Req /\ handleCtx[g] # k
      BY <1>7, <2>2, <3>1 DEF BatchInv, HandlesConsistent
    <3> QED BY <1>8, <3>1, <3>2 DEF BatchInv, StatusReceived
  <2> QED BY <2>1, <2>2
<1>15. VerdictOfLastAttempt' /\ Settled'
  <2>1. \A j \in answered : j \in Req /\ j # k
    BY <1>4 DEF BatchInv, TypeOK
  <2> QED BY <1>2, <1>8, <2>1 DEF BatchInv, VerdictOfLastAttempt, Settled
<1> QED BY <1>9, <1>10, <1>11, <1>12, <1>13, <1>14, <1>15 DEF BatchInv

LEMMA RepeatStep == ASSUME BatchInv, NEW h \in Handle, Repeat(h)
                    PROVE  BatchInv'
<1> DEFINE k == handleCtx[h]
<1>1. /\ Popped(h) /\ WillRetry(h)
      /\ retry' = [retry EXCEPT ![k] = @ - 1]
      /\ atStart' = [atStart EXCEPT ![k] = TRUE]
      /\ resp' = [resp EXCEPT ![k] = HttpReset(Concluded(h))]
      /\ hasLine' = [hasLine EXCEPT ![k] = FALSE]
      /\ last' = [last EXCEPT ![k] = transfer[h]]
      /\ StartAfter(h, k)
      /\ UNCHANGED <<next, finished, answered>>
  BY DEF Repeat
<1>2. /\ k \in Req /\ k \in 1 .. next /\ k \notin answered
      /\ k \in InFlight
      /\ transfer[h] \in Outcomes
      /\ Concluded(h) \in Response
  BY <1>1, Popping
<1>3. /\ HttpReset(Concluded(h)) \in Response
      /\ HttpReset(Concluded(h)).http.atStart
      /\ HttpReset(Concluded(h)).http.status = 0
  BY <1>2, HttpResetType
<1>4. retry[k] \in Int /\ retry[k] > 0 /\ pc = "loop"
  BY <1>1, <1>2 DEF WillRetry, Popped, BatchInv, TypeOK
<1>5. /\ retry' \in [Req -> Int] /\ retry'[k] = retry[k] - 1
      /\ \A j \in Req : j # k => retry'[j] = retry[j]
      /\ atStart' \in [Req -> BOOLEAN] /\ atStart'[k] = TRUE
      /\ \A j \in Req : j # k => atStart'[j] = atStart[j]
      /\ resp' \in [Req -> Response]
      /\ resp'[k] = HttpReset(Concluded(h))
      /\ \A j \in Req : j # k => resp'[j] = resp[j]
      /\ hasLine' \in [Req -> BOOLEAN] /\ hasLine'[k] = FALSE
      /\ \A j \in Req : j # k => hasLine'[j] = hasLine[j]
      /\ last' \in [Req -> Outcomes \cup {Detached}]
      /\ \A j \in Req : j # k => last'[j] = last[j]
  BY <1>1, <1>2, <1>3, <1>4 DEF BatchInv, TypeOK
<1>6. /\ ReactorType(handleCtx', idle', transfer')
      /\ Consistent(handleCtx', idle', transfer')
      /\ attempts' \in [Req -> Nat]
      /\ \A j \in Req : j # k => attempts'[j] = attempts[j]
      /\ \/ /\ pc' = "returned" /\ ret' = 1
            /\ attempts' = attempts
            /\ \A g \in Handle : /\ handleCtx'[g] = NoHandle
                                 /\ transfer'[g] = Detached
            /\ InFlight' = {}
            /\ Known' = {}
         \/ /\ pc' = pc /\ ret' = ret
            /\ attempts'[k] = attempts[k] + 1
            /\ InFlight' = (InFlight \ {k}) \cup {k}
            /\ Known' = Known
            /\ \A g \in Handle :
                  \/ /\ handleCtx'[g] = k
                     /\ transfer'[g] = Running
                  \/ /\ g # h
                     /\ handleCtx'[g] = handleCtx[g]
                     /\ transfer'[g] = transfer[g]
                  \/ /\ g = h
                     /\ handleCtx'[g] = NoCtx
                     /\ transfer'[g] = Detached
  BY <1>1, <1>2, StartingAfter
<1>7. \A g \in Handle : g # h => handleCtx[g] # k
  BY <1>2 DEF BatchInv, HandlesConsistent
<1> HIDE DEF k
<1>8. TypeOK'
  BY <1>1, <1>4, <1>5, <1>6 DEF BatchInv, TypeOK, ReactorType
<1>9. HandlesConsistent'
  BY <1>6 DEF HandlesConsistent, Consistent
<1>10. Accounting'
  BY <1>1, <1>2, <1>4, <1>6 DEF BatchInv, Accounting
<1>11. Progress'
  <2>1. Cardinality(Known') <= Limit
    <3>1. CASE Known' = {}
      BY <3>1, FS_EmptySet, LimitType
    <3>2. CASE Known' = Known
      BY <3>2 DEF BatchInv, Progress
    <3> QED BY <1>6, <3>1, <3>2
  <2>2. /\ pc' = "returned" => /\ ret' = 1
                               /\ \A g \in Handle : handleCtx'[g] = NoHandle
        /\ pc' # "returned" => pc' = pc /\ ret' = ret
    BY <1>4, <1>6
  <2> QED BY <1>1, <1>4, <2>1, <2>2 DEF BatchInv, Progress
<1>12. Budget'
  <2> SUFFICES ASSUME NEW j \in Req PROVE Budget!(j)'
    BY DEF Budget
  <2>1. CASE j = k
    <3>0. Retry \in Int /\ N \in Nat
      BY BatchAssumption
    <3>4. k \in Req /\ k <= next
      BY <1>2
    <3>5. Budget!(k)
      BY <3>4 DEF BatchInv, Budget
    <3>6. attempts[k] \in Nat /\ next \in Nat /\ k \in Nat
      BY <3>0, <3>4 DEF BatchInv, TypeOK, Req
    <3>7. attempts'[k] \in Nat
      BY <1>6, <3>4
    <3>8. attempts[k] + retry[k] = 1 + Retry /\ retry[k] <= Retry
      BY <1>4, <3>4, <3>5
    <3>9. attempts[k] <= 1 + (IF Retry > 0 THEN Retry ELSE 0)
      BY <3>5
    <3>1. /\ attempts[k] + retry[k] = 1 + Retry /\ retry[k] <= Retry
          /\ attempts[k] \in Nat /\ Retry \in Int /\ next \in Nat /\ k \in Nat
          /\ attempts[k] <= 1 + (IF Retry > 0 THEN Retry ELSE 0)
          /\ attempts'[k] \in Nat
      BY <3>0, <3>6, <3>7, <3>8, <3>9
    <3>2. k <= next
      BY <3>4
    <3> QED BY <1>1, <1>2, <1>4, <1>5, <1>6, <2>1, <3>1, <3>2
  <2>2. CASE j # k
    BY <1>1, <1>4, <1>5, <1>6, <2>2 DEF BatchInv, Budget
  <2> QED BY <2>1, <2>2
<1>13. CleanStart'
  <2> SUFFICES ASSUME NEW g \in Handle, transfer'[g] = Running
               PROVE  (attempts[handleCtx[g]] > 1 => Ready(handleCtx[g]))'
    BY DEF CleanStart
  <2>1. CASE handleCtx'[g] = k
    BY <1>3, <1>5, <2>1 DEF Ready
  <2>2. CASE handleCtx'[g] # k
    <3>1. /\ g # h /\ handleCtx'[g] = handleCtx[g]
          /\ transfer[g] = Running
      BY <1>6, <2>2, BatchAssumption
    <3>2. handleCtx[g] \in Req
      BY <3>1, BatchAssumption DEF BatchInv, HandlesConsistent
    <3> QED BY <1>5, <1>6, <2>2, <3>1, <3>2 DEF BatchInv, CleanStart, Ready
  <2> QED BY <2>1, <2>2
<1>14. StatusReceived'
  <2> SUFFICES ASSUME NEW g \in Handle, transfer'[g] \in Outcomes,
                      transfer'[g].rc
               PROVE  resp'[handleCtx'[g]].http.status = transfer'[g].http
    BY DEF StatusReceived
  <2>1. /\ g # h /\ handleCtx'[g] = handleCtx[g]
        /\ transfer'[g] = transfer[g] /\ transfer[g] # Detached
    BY <1>6, BatchAssumption
  <2>2. handleCtx[g] \in Req /\ handleCtx[g] # k
    BY <1>7, <2>1 DEF BatchInv, HandlesConsistent
  <2> QED BY <1>5, <2>1, <2>2 DEF BatchInv, StatusReceived
<1>15. VerdictOfLastAttempt' /\ Settled'
  <2>1. \A j \in answered : j \in Req /\ j # k
    BY <1>2 DEF BatchInv, TypeOK
  <2> QED BY <1>1, <1>5, <2>1 DEF BatchInv, VerdictOfLastAttempt, Settled
<1> QED BY <1>8, <1>9, <1>10, <1>11, <1>12, <1>13, <1>14, <1>15 DEF BatchInv

\* What counting a request as finished does, whatever follows it.
LEMMA Counting ==
    ASSUME BatchInv, NEW h \in Handle, Count(h)
    PROVE  LET k == handleCtx[h] IN
           /\ finished' \in 0 .. N
           /\ finished' = Cardinality(answered')
           /\ answered' \subseteq Req
           /\ resp' \in [Req -> Response]
           /\ \A j \in Req : j # k => resp'[j] = resp[j]
           /\ last' \in [Req -> Outcomes \cup {Detached}]
           /\ attempts[k] >= 1
           /\ VerdictOfLastAttempt'
           /\ Settled'
<1> DEFINE k == handleCtx[h]
<1>1. /\ Popped(h) /\ ~WillRetry(h)
      /\ finished' = finished + 1
      /\ resp' = [resp EXCEPT ![k] = Concluded(h)]
      /\ last' = [last EXCEPT ![k] = transfer[h]]
      /\ answered' = answered \cup {k}
      /\ UNCHANGED <<retry, atStart, hasLine>>
  BY DEF Count
<1>2. /\ k \in Req /\ k \in 1 .. next /\ k \notin answered
      /\ transfer[h] \in Outcomes
      /\ Concluded(h) \in Response
      /\ is_ok(Concluded(h)) <=> Succeeded(transfer[h])
  BY <1>1, Popping
<1>3. /\ resp' \in [Req -> Response]
      /\ resp'[k] = Concluded(h)
      /\ \A j \in Req : j # k => resp'[j] = resp[j]
      /\ last' \in [Req -> Outcomes \cup {Detached}]
      /\ last'[k] = transfer[h]
      /\ \A j \in Req : j # k => last'[j] = last[j]
  BY <1>1, <1>2 DEF BatchInv, TypeOK
<1>4. finished' \in 0 .. N /\ answered' \subseteq Req
  BY <1>1, <1>2, BatchAssumption DEF Popped, BatchInv, TypeOK
<1>5. finished' = Cardinality(answered')
  <2>1. IsFiniteSet(1 .. N)
    BY BatchAssumption, FS_Interval
  <2>2. IsFiniteSet(answered)
    BY <2>1, FS_Subset DEF BatchInv, TypeOK, Req
  <2>3. Cardinality(answered \cup {k}) = Cardinality(answered) + 1
    BY <1>2, <2>2, FS_AddElement
  <2> QED BY <1>1, <2>3 DEF BatchInv, Accounting
<1>6. attempts[k] >= 1
  <2>1. /\ k <= next => attempts[k] + retry[k] = 1 + Retry
        /\ retry[k] <= Retry /\ retry[k] \in Int /\ attempts[k] \in Nat
    BY <1>1, <1>2 DEF Popped, BatchInv, Budget, TypeOK
  <2>2. k <= next
    BY <1>2 DEF BatchInv, TypeOK
  <2> QED BY <2>1, <2>2, BatchAssumption
<1>7. VerdictOfLastAttempt'
  <2> SUFFICES ASSUME NEW j \in answered'
               PROVE  is_ok(resp'[j]) <=> Succeeded(last'[j])
    BY DEF VerdictOfLastAttempt
  <2>1. CASE j = k
    BY <1>2, <1>3, <2>1
  <2>2. CASE j # k
    <3>1. j \in answered /\ j \in Req
      BY <1>1, <2>2 DEF BatchInv, TypeOK
    <3> QED BY <1>3, <2>2, <3>1 DEF BatchInv, VerdictOfLastAttempt
  <2> QED BY <2>1, <2>2
<1>8. Settled'
  <2> SUFFICES ASSUME NEW j \in answered', Retryable(resp'[j].status)
               PROVE  retry[j] <= 0
    BY <1>1 DEF Settled
  <2>1. CASE j = k
    <3>1. retry[k] \in Int
      BY <1>2 DEF BatchInv, TypeOK
    <3> QED BY <1>1, <1>3, <2>1, <3>1 DEF WillRetry
  <2>2. CASE j # k
    <3>1. j \in answered /\ j \in Req
      BY <1>1, <2>2 DEF BatchInv, TypeOK
    <3> QED BY <1>3, <2>2, <3>1 DEF BatchInv, Settled
  <2> QED BY <2>1, <2>2
<1> QED BY <1>3, <1>4, <1>5, <1>6, <1>7, <1>8

LEMMA StartNextStep == ASSUME BatchInv, NEW h \in Handle, StartNext(h)
                       PROVE  BatchInv'
<1> DEFINE k == handleCtx[h]
           n == next + 1
<1>1. /\ Count(h) /\ Popped(h) /\ next < N /\ next' = n
      /\ answered' = answered \cup {k} /\ finished' = finished + 1
      /\ UNCHANGED <<retry, atStart, hasLine>>
      /\ StartAfter(h, n)
  BY DEF StartNext, Count
<1>2. /\ k \in Req /\ k \in 1 .. next /\ k \notin answered
      /\ k \in InFlight
  BY <1>1, Popping
<1>3. /\ n \in Req /\ n \in Nat /\ next \in Nat /\ n # k
      /\ n \notin answered /\ n \notin InFlight
      /\ pc = "loop" /\ finished \in Nat
  <2>1. /\ next \in 0 .. N /\ finished \in 0 .. N /\ answered \subseteq 1 .. next
        /\ pc = "loop" /\ InFlight = (1 .. next) \ answered
    BY <1>1, ReactorOfInv DEF Popped, BatchInv, TypeOK, Accounting
  <2>2. /\ next \in Nat /\ n \in Nat /\ n \in 1 .. N /\ n \notin 1 .. next
        /\ finished \in Nat
    BY <1>1, <2>1, BatchAssumption
  <2> HIDE DEF n
  <2> QED BY <1>2, <2>1, <2>2 DEF Req
<1>4. /\ finished' \in 0 .. N
      /\ finished' = Cardinality(answered')
      /\ answered' \subseteq Req
      /\ resp' \in [Req -> Response]
      /\ \A j \in Req : j # k => resp'[j] = resp[j]
      /\ last' \in [Req -> Outcomes \cup {Detached}]
      /\ attempts[k] >= 1
      /\ VerdictOfLastAttempt' /\ Settled'
  BY <1>1, Counting
<1>5. /\ ReactorType(handleCtx', idle', transfer')
      /\ Consistent(handleCtx', idle', transfer')
      /\ attempts' \in [Req -> Nat]
      /\ \A j \in Req : j # n => attempts'[j] = attempts[j]
      /\ \/ /\ pc' = "returned" /\ ret' = 1
            /\ attempts' = attempts
            /\ \A g \in Handle : /\ handleCtx'[g] = NoHandle
                                 /\ transfer'[g] = Detached
            /\ InFlight' = {}
            /\ Known' = {}
         \/ /\ pc' = pc /\ ret' = ret
            /\ attempts'[n] = attempts[n] + 1
            /\ InFlight' = (InFlight \ {k}) \cup {n}
            /\ Known' = Known
            /\ \A g \in Handle :
                  \/ /\ handleCtx'[g] = n
                     /\ transfer'[g] = Running
                  \/ /\ g # h
                     /\ handleCtx'[g] = handleCtx[g]
                     /\ transfer'[g] = transfer[g]
                  \/ /\ g = h
                     /\ handleCtx'[g] = NoCtx
                     /\ transfer'[g] = Detached
  <2>1. n \notin InFlight \ {handleCtx[h]}
    BY <1>3
  <2> QED BY <1>1, <1>3, <2>1, StartingAfter
<1>6. \A g \in Handle : g # h => handleCtx[g] # k
  BY <1>2 DEF BatchInv, HandlesConsistent
<1>7. attempts[n] = 0 /\ retry[n] = Retry
  <2>1. n > next
    BY <1>3
  <2> QED BY <1>3, <2>1 DEF BatchInv, Budget
<1>8. n \in 1 .. n /\ k \in 1 .. n /\ 1 .. n = (1 .. next) \cup {n}
  BY <1>2, <1>3
<1>9. n \in 0 .. N
  BY <1>1, <1>3, BatchAssumption
<1> HIDE DEF k
<1>10. TypeOK'
  BY <1>1, <1>3, <1>4, <1>5, <1>9 DEF BatchInv, TypeOK, ReactorType
<1>11. HandlesConsistent'
  BY <1>5 DEF HandlesConsistent, Consistent
<1>12. Accounting'
  <2>1. answered' \subseteq 1 .. next'
    BY <1>1, <1>8 DEF BatchInv, Accounting
  <2>2. pc' # "returned" => InFlight' = (1 .. next') \ answered'
    <3>1. InFlight = (1 .. next) \ answered
      BY <1>3, ReactorOfInv
    <3>2. (((1 .. next) \ answered) \ {k}) \cup {n}
             = ((1 .. next) \cup {n}) \ (answered \cup {k})
      BY <1>2, <1>3
    <3> QED BY <1>1, <1>5, <1>8, <3>1, <3>2
  <2> QED BY <1>4, <2>1, <2>2 DEF Accounting
<1>13. Progress'
  <2>1. Cardinality(Known') <= Limit
    <3>1. CASE Known' = {}
      BY <3>1, FS_EmptySet, LimitType
    <3>2. CASE Known' = Known
      BY <3>2 DEF BatchInv, Progress
    <3> QED BY <1>5, <3>1, <3>2
  <2>2. /\ pc' = "returned" => /\ ret' = 1
                               /\ \A g \in Handle : handleCtx'[g] = NoHandle
        /\ pc' # "returned" => pc' = pc /\ ret' = ret
    BY <1>3, <1>5
  <2>3. next' - finished' = next - finished
    BY <1>1, <1>3
  <2> QED BY <1>3, <2>1, <2>2, <2>3 DEF BatchInv, Progress
<1>14. Budget'
  <2> SUFFICES ASSUME NEW j \in Req PROVE Budget!(j)'
    BY DEF Budget
  <2>1. CASE j = n
    BY <1>1, <1>2, <1>3, <1>5, <1>7, <2>1, BatchAssumption DEF BatchInv, Budget
  <2>2. CASE j # n
    <3>1. (j > n => j > next) /\ (j <= n => j <= next)
      BY <1>3, <2>2 DEF Req
    <3>2. j > n => j # k
      BY <1>2, <1>3
    <3>3. j \in answered' => j \in answered \/ j = k
      BY <1>1
    <3>4. attempts'[j] = attempts[j]
      BY <1>5, <2>2
    <3> QED BY <1>1, <1>3, <1>4, <3>1, <3>2, <3>3, <3>4 DEF BatchInv, Budget
  <2> QED BY <2>1, <2>2
<1>15. CleanStart'
  <2> SUFFICES ASSUME NEW g \in Handle, transfer'[g] = Running
               PROVE  (attempts[handleCtx[g]] > 1 => Ready(handleCtx[g]))'
    BY DEF CleanStart
  <2>1. CASE handleCtx'[g] = n
    BY <1>3, <1>5, <1>7, <2>1
  <2>2. CASE handleCtx'[g] # n
    <3>1. /\ g # h /\ handleCtx'[g] = handleCtx[g]
          /\ transfer[g] = Running
      BY <1>5, <2>2, BatchAssumption
    <3>2. handleCtx[g] \in Req /\ handleCtx[g] # k
      BY <1>6, <3>1, BatchAssumption DEF BatchInv, HandlesConsistent
    <3> QED BY <1>1, <1>4, <1>5, <2>2, <3>1, <3>2 DEF BatchInv, CleanStart, Ready
  <2> QED BY <2>1, <2>2
<1>16. StatusReceived'
  <2> SUFFICES ASSUME NEW g \in Handle, transfer'[g] \in Outcomes,
                      transfer'[g].rc
               PROVE  resp'[handleCtx'[g]].http.status = transfer'[g].http
    BY DEF StatusReceived
  <2>1. /\ g # h /\ handleCtx'[g] = handleCtx[g]
        /\ transfer'[g] = transfer[g] /\ transfer[g] # Detached
    BY <1>5, BatchAssumption
  <2>2. handleCtx[g] \in Req /\ handleCtx[g] # k
    BY <1>6, <2>1 DEF BatchInv, HandlesConsistent
  <2> QED BY <1>4, <2>1, <2>2 DEF BatchInv, StatusReceived
<1> QED BY <1>4, <1>10, <1>11, <1>12, <1>13, <1>14, <1>15, <1>16 DEF BatchInv

LEMMA DrainStep == ASSUME BatchInv, NEW h \in Handle, Drain(h)
                   PROVE  BatchInv'
<1> DEFINE k == handleCtx[h]
<1>1. /\ Count(h) /\ Popped(h) /\ next = N
      /\ answered' = answered \cup {k} /\ finished' = finished + 1
      /\ UNCHANGED <<pc, ret, next, attempts, retry, atStart, hasLine>>
      /\ handleCtx' = Off(handleCtx, h)
      /\ idle' = idle \cup {h}
      /\ transfer' = Out(transfer, h)
  BY DEF Drain, Count, Off, Out
<1>2. /\ k \in Req /\ k \in 1 .. next /\ k \notin answered
      /\ k \in InFlight
  BY <1>1, Popping
<1>3. pc = "loop" /\ finished \in Nat /\ next \in Nat
  BY <1>1 DEF Popped, BatchInv, TypeOK
<1>4. /\ finished' \in 0 .. N
      /\ finished' = Cardinality(answered')
      /\ answered' \subseteq Req
      /\ resp' \in [Req -> Response]
      /\ \A j \in Req : j # k => resp'[j] = resp[j]
      /\ last' \in [Req -> Outcomes \cup {Detached}]
      /\ attempts[k] >= 1
      /\ VerdictOfLastAttempt' /\ Settled'
  BY <1>1, Counting
<1>5. /\ ReactorType(handleCtx, idle, transfer)
      /\ Consistent(handleCtx, idle, transfer)
      /\ InFlight = Fly(handleCtx)
      /\ Known = KnownOf(handleCtx)
      /\ InFlight = (1 .. next) \ answered
  BY <1>3, ReactorOfInv
<1>6. /\ ReactorType(handleCtx', idle', transfer')
      /\ Consistent(handleCtx', idle', transfer')
      /\ Fly(handleCtx') = InFlight \ {k}
      /\ KnownOf(handleCtx') = Known
  BY <1>1, <1>2, <1>5, Detaching
<1>7. \A g \in Handle :
         \/ /\ g # h
            /\ handleCtx'[g] = handleCtx[g]
            /\ transfer'[g] = transfer[g]
         \/ transfer'[g] = Detached
  BY <1>1, <1>5 DEF ReactorType, Off, Out
<1>8. InFlight' = InFlight \ {k} /\ Known' = Known
  BY <1>6 DEF InFlight, Fly, Known, KnownOf
<1>9. \A g \in Handle : g # h => handleCtx[g] # k
  BY <1>2 DEF BatchInv, HandlesConsistent
<1> HIDE DEF k
<1>10. TypeOK'
  BY <1>1, <1>4, <1>6 DEF BatchInv, TypeOK, ReactorType
<1>11. HandlesConsistent'
  BY <1>6 DEF HandlesConsistent, Consistent
<1>12. Accounting'
  <2>1. answered' \subseteq 1 .. next'
    BY <1>1, <1>2 DEF BatchInv, Accounting
  <2>2. InFlight' = (1 .. next') \ answered'
    BY <1>1, <1>5, <1>8
  <2> QED BY <1>4, <2>1, <2>2 DEF Accounting
<1>13. Progress'
  BY <1>1, <1>3, <1>8, LimitType DEF BatchInv, Progress
<1>14. Budget'
  <2> SUFFICES ASSUME NEW j \in Req PROVE Budget!(j)'
    BY DEF Budget
  <2>1. j > next => j # k
    BY <1>2, <1>3
  <2>2. j \in answered' => j \in answered \/ j = k
    BY <1>1
  <2> QED BY <1>1, <1>4, <2>1, <2>2 DEF BatchInv, Budget
<1>15. CleanStart'
  <2> SUFFICES ASSUME NEW g \in Handle, transfer'[g] = Running
               PROVE  (attempts[handleCtx[g]] > 1 => Ready(handleCtx[g]))'
    BY DEF CleanStart
  <2>1. /\ g # h /\ handleCtx'[g] = handleCtx[g]
        /\ transfer[g] = Running
    BY <1>7, BatchAssumption
  <2>2. handleCtx[g] \in Req /\ handleCtx[g] # k
    BY <1>9, <2>1, BatchAssumption DEF BatchInv, HandlesConsistent
  <2> QED BY <1>1, <1>4, <2>1, <2>2 DEF BatchInv, CleanStart, Ready
<1>16. StatusReceived'
  <2> SUFFICES ASSUME NEW g \in Handle, transfer'[g] \in Outcomes,
                      transfer'[g].rc
               PROVE  resp'[handleCtx'[g]].http.status = transfer'[g].http
    BY DEF StatusReceived
  <2>1. /\ g # h /\ handleCtx'[g] = handleCtx[g]
        /\ transfer'[g] = transfer[g] /\ transfer[g] # Detached
    BY <1>7, BatchAssumption
  <2>2. handleCtx[g] \in Req /\ handleCtx[g] # k
    BY <1>9, <2>1 DEF BatchInv, HandlesConsistent
  <2> QED BY <1>4, <2>1, <2>2 DEF BatchInv, StatusReceived
<1> QED BY <1>4, <1>10, <1>11, <1>12, <1>13, <1>14, <1>15, <1>16 DEF BatchInv

-------------------------------------------------------------------------------
(***************************************************************************)
(* The theorems.                                                           *)
(***************************************************************************)

LEMMA InvNext == BatchInv /\ [Next]_vars => BatchInv'
<1> SUFFICES ASSUME BatchInv, [Next]_vars PROVE BatchInv'
  OBVIOUS
<1>1. CASE Launch
  BY <1>1, LaunchStep
<1>2. CASE LaunchFails
  BY <1>2, LaunchFailsStep
<1>3. CASE EnterLoop
  BY <1>3, EnterLoopStep
<1>4. ASSUME NEW h \in Handle, Deliver(h) PROVE BatchInv'
  BY <1>4, DeliverStep
<1>5. ASSUME NEW h \in Handle, Repeat(h) PROVE BatchInv'
  BY <1>5, RepeatStep
<1>6. ASSUME NEW h \in Handle, StartNext(h) PROVE BatchInv'
  BY <1>6, StartNextStep
<1>7. ASSUME NEW h \in Handle, Drain(h) PROVE BatchInv'
  BY <1>7, DrainStep
<1>8. CASE Return
  BY <1>8, ReturnStep
<1>9. CASE UNCHANGED vars
  BY <1>9, StutterStep
<1> QED BY <1>1, <1>2, <1>3, <1>4, <1>5, <1>6, <1>7, <1>8, <1>9
        DEF Next, Round, Terminated

\* BatchInv holds in every reachable state of the batch.
THEOREM BatchInvariant == Spec => []BatchInv
<1>1. Init => BatchInv
  BY InvInit
<1>2. BatchInv /\ [Next]_vars => BatchInv'
  BY InvNext
<1> QED BY <1>1, <1>2, PTL DEF Spec

\* The variables keep their types.
THEOREM TypeCorrect == Spec => []TypeOK
<1>1. BatchInv => TypeOK
  BY DEF BatchInv
<1> QED BY <1>1, BatchInvariant, PTL

\* The reactor's three views of every handle agree: perform() never meets a
\* handle without a context, and no request is on two handles.
THEOREM HandlesStayConsistent == Spec => []HandlesConsistent
<1>1. BatchInv => HandlesConsistent
  BY DEF BatchInv
<1> QED BY <1>1, BatchInvariant, PTL

\* finish_num and i account for every request of the batch.
THEOREM CountsAreRight == Spec => []Accounting
<1>1. BatchInv => Accounting
  BY DEF BatchInv
<1> QED BY <1>1, BatchInvariant, PTL

\* A request is sent at most 1 + retry times.
THEOREM RetriesAreBounded == Spec => []AttemptsBounded
<1>1. BatchInv => AttemptsBounded
  BY DEF BatchInv, Budget, AttemptsBounded
<1> QED BY <1>1, BatchInvariant, PTL

\* Every repeated attempt starts with rewound streams and an empty response,
\* however the caller handed over its responses and streams.
THEOREM RepeatsBeginClean == Spec => []CleanStart
<1>1. BatchInv => CleanStart
  BY DEF BatchInv
<1> QED BY <1>1, BatchInvariant, PTL

\* A counted response is ok exactly when its last transfer succeeded.
THEOREM VerdictsAreRight == Spec => []VerdictOfLastAttempt
<1>1. BatchInv => VerdictOfLastAttempt
  BY DEF BatchInv
<1> QED BY <1>1, BatchInvariant, PTL

\* max_parallel bounds the requests in flight and the curl handles made.
THEOREM ParallelismIsBounded == Spec => []WithinMaxParallel
<1>1. BatchInv => WithinMaxParallel
  <2> SUFFICES ASSUME BatchInv PROVE WithinMaxParallel
    OBVIOUS
  <2>1. Cardinality({h \in Handle : handleCtx[h] # NoHandle}) <= Limit
    BY DEF BatchInv, Progress, Known
  <2>2. CASE pc = "returned"
    <3>1. InFlight = {}
      BY <2>2, NoRequest DEF BatchInv, Progress, InFlight
    <3> QED BY <2>1, <3>1, FS_EmptySet, LimitType DEF WithinMaxParallel
  <2>3. CASE pc # "returned"
    <3>1. /\ InFlight = (1 .. next) \ answered /\ answered \subseteq 1 .. next
          /\ next - finished <= Limit /\ finished = Cardinality(answered)
          /\ next \in Nat
      BY <2>3 DEF BatchInv, Accounting, Progress, TypeOK
    <3>2. IsFiniteSet(1 .. next) /\ Cardinality(1 .. next) = next
      BY <3>1, FS_Interval
    <3>3. Cardinality((1 .. next) \ answered) = next - Cardinality(answered)
      <4>1. (1 .. next) \cap answered = answered
        BY <3>1
      <4>2. Cardinality((1 .. next) \ answered)
              = Cardinality(1 .. next) - Cardinality((1 .. next) \cap answered)
        <5> DEFINE S == 1 .. next
        <5>1. IsFiniteSet(S)
          BY <3>2
        <5> HIDE DEF S
        <5>2. Cardinality(S \ answered) = Cardinality(S) - Cardinality(S \cap answered)
          BY <5>1, FS_Difference
        <5> QED BY <5>2 DEF S
      <4> QED BY <3>2, <4>1, <4>2
    <3> QED BY <2>1, <3>1, <3>3 DEF WithinMaxParallel
  <2> QED BY <2>2, <2>3
<1> QED BY <1>1, BatchInvariant, PTL

\* A batch that returns 0 has answered every request.
THEOREM SuccessIsComplete == Spec => []CompleteOnSuccess
<1>1. BatchInv => CompleteOnSuccess
  <2> SUFFICES ASSUME BatchInv, pc = "returned", ret = 0
               PROVE  /\ answered = Req
                      /\ \A k \in Req :
                            /\ attempts[k] >= 1
                            /\ Retryable(resp[k].status) => retry[k] <= 0
    BY DEF CompleteOnSuccess
  <2>1. Cardinality(answered) = N /\ answered \subseteq Req
    BY DEF BatchInv, Progress, Accounting, TypeOK
  <2>2. IsFiniteSet(Req) /\ Cardinality(Req) = N
    BY BatchAssumption, FS_Interval DEF Req
  <2>3. answered = Req
    BY <2>1, <2>2, FS_Subset
  <2> QED BY <2>3 DEF BatchInv, Budget, Settled
<1> QED BY <1>1, BatchInvariant, PTL

\* A counted request is never sent again and its response is not written.
THEOREM AnswersAreFinal == Spec => AnswerIsFinal
<1> DEFINE Kept == \A k \in answered : /\ k \in answered'
                                       /\ attempts'[k] = attempts[k]
                                       /\ resp'[k] = resp[k]
<1>1. BatchInv /\ [Next]_vars => [Kept]_vars
  <2> SUFFICES ASSUME BatchInv, Next, NEW k \in answered
               PROVE  /\ k \in answered'
                      /\ attempts'[k] = attempts[k]
                      /\ resp'[k] = resp[k]
    OBVIOUS
  <2>1. /\ k \in Req /\ k \notin InFlight /\ k <= next
        /\ attempts \in [Req -> Nat] /\ resp \in [Req -> Response]
        /\ next \in Nat
    BY ReactorOfInv DEF BatchInv, Accounting, TypeOK
  <2>2. \A h \in Handle : handleCtx[h] # k
    BY <2>1 DEF InFlight
  <2>3. CASE Launch
    <3>1. attempts' = [attempts EXCEPT ![next + 1] = @ + 1]
      BY <2>3 DEF Launch, execute
    <3> QED BY <2>1, <2>3, <3>1 DEF Launch
  <2>4. CASE LaunchFails \/ EnterLoop \/ Return \/ Terminated
    BY <2>4 DEF LaunchFails, EnterLoop, Return, Terminated, Abandon, vars,
                historyVars
  <2>5. ASSUME NEW h \in Handle, Deliver(h)
        PROVE  k \in answered' /\ attempts'[k] = attempts[k] /\ resp'[k] = resp[k]
    BY <2>1, <2>2, <2>5 DEF Deliver, historyVars
  <2>6. ASSUME NEW h \in Handle, Repeat(h)
        PROVE  k \in answered' /\ attempts'[k] = attempts[k] /\ resp'[k] = resp[k]
    <3>1. attempts' = attempts \/ attempts' = [attempts EXCEPT ![handleCtx[h]] = @ + 1]
      BY <2>6 DEF Repeat, StartAfter, execute, Abandon
    <3> QED BY <2>1, <2>2, <2>6, <3>1 DEF Repeat
  <2>7. ASSUME NEW h \in Handle, StartNext(h)
        PROVE  k \in answered' /\ attempts'[k] = attempts[k] /\ resp'[k] = resp[k]
    <3>1. attempts' = attempts \/ attempts' = [attempts EXCEPT ![next + 1] = @ + 1]
      BY <2>7 DEF StartNext, StartAfter, execute, Abandon
    <3> QED BY <2>1, <2>2, <2>7, <3>1 DEF StartNext, Count
  <2>8. ASSUME NEW h \in Handle, Drain(h)
        PROVE  k \in answered' /\ attempts'[k] = attempts[k] /\ resp'[k] = resp[k]
    BY <2>1, <2>2, <2>8 DEF Drain, Count
  <2> QED BY <2>3, <2>4, <2>5, <2>6, <2>7, <2>8 DEF Next, Round
<1> QED BY <1>1, BatchInvariant, PTL DEF Spec, AnswerIsFinal

-------------------------------------------------------------------------------
(***************************************************************************)
(* The batch implements RequestPool.  While it is open, the stage of a     *)
(* request is its place in the two counts: answered, else handed over      *)
(* (k <= next), else queued.  So the queue's next request is next + 1, and *)
(* the requests with a place are those in flight.                          *)
(***************************************************************************)

ByCount ==
    pc # "returned" =>
        \A k \in Req : Stages[k] = IF k \in answered THEN "answered"
                                  ELSE IF k <= next THEN "active" ELSE "queued"

LEMMA StageByCount ==
    ASSUME BatchInv, pc # "returned"
    PROVE  ByCount /\ next \in Nat /\ next <= N /\ Verdict = "open"
<1> SUFFICES ASSUME NEW k \in Req
             PROVE  Stage(k) = IF k \in answered THEN "answered"
                               ELSE IF k <= next THEN "active" ELSE "queued"
  BY BatchAssumption DEF ByCount, Stages, Verdict, BatchInv, TypeOK
<1>1. /\ attempts[k] \in Nat /\ retry[k] \in Int /\ next \in Int
      /\ retry[k] <= Retry
      /\ k > next => attempts[k] = 0
      /\ k <= next => attempts[k] + retry[k] = 1 + Retry
  BY DEF BatchInv, TypeOK, Budget
<1> QED BY <1>1, BatchAssumption DEF Stage, Req

\* There is a place for another request exactly while fewer than Limit of
\* those handed over are unanswered.
LEMMA PlacesTaken ==
    ASSUME BatchInv, pc # "returned"
    PROVE  Cardinality(Pool!Active) = next - finished
<1>1. /\ answered \subseteq 1 .. next /\ finished = Cardinality(answered)
      /\ next \in Nat /\ next <= N
  BY StageByCount DEF BatchInv, Accounting
<1>2. Pool!Active = (1 .. next) \ answered
  <2>1. \A k \in Req : Stages[k] = "active" <=> k <= next /\ k \notin answered
    BY StageByCount DEF ByCount
  <2>2. 1 .. next \subseteq Req
    BY <1>1, BatchAssumption DEF Req
  <2> QED BY <1>1, <2>1, <2>2 DEF Pool!Active, Pool!Job, Req
<1> DEFINE S == 1 .. next
<1>3. IsFiniteSet(S) /\ Cardinality(S) = next
  BY <1>1, FS_Interval
<1>4. S \cap answered = answered
  BY <1>1
<1> HIDE DEF S
<1>5. Cardinality(S \ answered) = Cardinality(S) - Cardinality(S \cap answered)
  BY <1>3, FS_Difference
<1> QED BY <1>1, <1>2, <1>3, <1>4, <1>5 DEF S

\* The first request still queued is next + 1.
LEMMA NextInTurn ==
    ASSUME BatchInv, pc # "returned", next < N
    PROVE  next + 1 \in Req /\ Pool!Turn(next + 1)
<1>1. next + 1 \in Req /\ next + 1 \notin answered
  BY StageByCount, BatchAssumption DEF Req, BatchInv, Accounting
<1>2. \A j \in 1 .. next : j \in Req /\ Stages[j] # "queued"
  BY StageByCount, BatchAssumption DEF ByCount, Req
<1> QED BY <1>1, <1>2, StageByCount DEF ByCount, Pool!Turn

LEMMA LaunchStarts == ASSUME BatchInv, ByCount', Launch
                      PROVE  Pool!Next
<1>1. pc # "returned" /\ pc' # "returned" /\ next < Limit /\ next' = next + 1
      /\ answered' = answered /\ finished = 0
  BY DEF Launch, BatchInv, Progress
<1>2. next < N /\ next \in Nat
  <2>1. next \in Nat
    BY DEF BatchInv, TypeOK
  <2> QED BY <1>1, <2>1, LimitType, BatchAssumption
<1>3. next + 1 \in Req /\ Pool!Turn(next + 1)
  BY <1>1, <1>2, NextInTurn
<1>4. Cardinality(Pool!Active) < Limit
  BY <1>1, <1>2, PlacesTaken
<1>5. Stages' = [Stages EXCEPT ![next + 1] = "active"]
  <2>1. \A k \in Req : Stages'[k] = IF k \in answered THEN "answered"
                                    ELSE IF k <= next + 1 THEN "active"
                                    ELSE "queued"
    BY <1>1 DEF ByCount
  <2>2. next + 1 \notin answered
    BY <1>2 DEF BatchInv, Accounting
  <2>3. \A k \in Req : k <= next + 1 <=> k <= next \/ k = next + 1
    BY <1>2 DEF Req
  <2>4. \A k \in Req : Stages'[k] = IF k = next + 1 THEN "active" ELSE Stages[k]
    BY <1>1, <2>1, <2>2, <2>3, StageByCount DEF ByCount
  <2> QED BY <1>3, <2>4 DEF Stages
<1>6. Verdict = "open" /\ Verdict' = "open"
  BY <1>1 DEF Verdict
<1>7. Pool!Start(next + 1)
  <2>1. Pool!Cardinality(Pool!Active) = Cardinality(Pool!Active)
    BY DEF Pool!Cardinality, Cardinality
  <2> QED BY <1>3, <1>4, <1>5, <1>6, <2>1 DEF Pool!Start
<1> QED BY <1>3, <1>6, <1>7 DEF Pool!Next, Pool!Job, Req

\* Once a request has an answer no attempt changes its stage.
LEMMA StagesUnchanged ==
    ASSUME answered' = answered,
           \A k \in Req \ answered : attempts'[k] > 0 <=> attempts[k] > 0
    PROVE  Stages' = Stages
<1>1. \A k \in Req : Stage(k)' = Stage(k)
  BY DEF Stage
<1> QED BY <1>1 DEF Stages

LEMMA GivesUp == ASSUME BatchInv, pc # "returned", pc' = "returned", ret' = 1,
                        UNCHANGED <<attempts, answered>>
                 PROVE  Pool!Next
<1>1. Stages' = Stages
  BY StagesUnchanged
<1>2. Verdict = "open" /\ Verdict' = "abandoned"
  BY DEF Verdict
<1> QED BY <1>1, <1>2 DEF Pool!Next, Pool!Abandon

LEMMA RepeatKeepsPlace == ASSUME BatchInv, NEW h \in Handle, Repeat(h)
                          PROVE  Pool!Next \/ UNCHANGED Pool!poolVars
<1> DEFINE k == handleCtx[h]
<1>1. /\ Popped(h) /\ StartAfter(h, k) /\ answered' = answered
      /\ pc = "loop" /\ next' = next
  BY DEF Repeat, Popped
<1>2. k \in Req /\ k \in 1 .. next /\ k \notin InFlight \ {k}
  BY <1>1, Popping
<1>3. /\ \A j \in Req : j # k => attempts'[j] = attempts[j]
      /\ \/ pc' = "returned" /\ ret' = 1 /\ attempts' = attempts
         \/ pc' = pc /\ attempts'[k] = attempts[k] + 1
  <2> HIDE DEF k
  <2> QED BY <1>1, <1>2, StartingAfter DEF k
<1>4. CASE pc' = "returned" /\ ret' = 1 /\ attempts' = attempts
  BY <1>1, <1>4, GivesUp
<1>5. CASE pc' = pc /\ attempts'[k] = attempts[k] + 1
  <2>1. attempts[k] \in Nat /\ attempts[k] > 0
    <3>1. attempts[k] + retry[k] = 1 + Retry /\ retry[k] <= Retry
      BY <1>1, <1>2 DEF BatchInv, Budget
    <3> QED BY <1>2, <3>1, BatchAssumption DEF BatchInv, TypeOK
  <2>2. Stages' = Stages
    BY <1>1, <1>3, <1>5, <2>1, StagesUnchanged
  <2>3. Verdict' = Verdict
    BY <1>1, <1>5 DEF Verdict
  <2> QED BY <2>2, <2>3 DEF Pool!poolVars
<1> QED BY <1>3, <1>4, <1>5

LEMMA StartNextHandsOver ==
    ASSUME BatchInv, ByCount', NEW h \in Handle, StartNext(h)
    PROVE  Pool!Next
<1> DEFINE k == handleCtx[h]
           n == next + 1
<1>1. /\ Popped(h) /\ StartAfter(h, n) /\ answered' = answered \cup {k}
      /\ pc = "loop" /\ next' = n /\ next < N
  BY DEF StartNext, Count, Popped
<1>2. k \in Req /\ k \in 1 .. next /\ k \notin answered
  BY <1>1, Popping
<1>3. n \in Req /\ Pool!Turn(n) /\ next \in Nat
  BY <1>1, NextInTurn, StageByCount
<1>4. n \notin InFlight \ {k} /\ n \notin answered /\ n # k
  BY <1>1, <1>2, <1>3, ReactorOfInv DEF BatchInv, Accounting
<1>5. Stages[k] = "active" /\ Verdict = "open"
  BY <1>1, <1>2, StageByCount DEF ByCount
<1>6. /\ \A j \in Req : j # n => attempts'[j] = attempts[j]
      /\ \/ pc' = "returned" /\ ret' = 1 /\ attempts' = attempts
         \/ pc' = pc /\ attempts'[n] = attempts[n] + 1
  <2> HIDE DEF k, n
  <2> QED BY <1>1, <1>3, <1>4, StartingAfter DEF k
<1>7. CASE pc' = "returned" /\ ret' = 1 /\ attempts' = attempts
  <2>1. \A j \in Req : Stage(j)' = IF j = k THEN "answered" ELSE Stage(j)
    BY <1>1, <1>7 DEF Stage
  <2>2. Stages' = [Stages EXCEPT ![k] = "answered"]
    BY <1>2, <2>1 DEF Stages
  <2>3. Verdict' = "abandoned"
    BY <1>7 DEF Verdict
  <2> QED BY <1>2, <1>5, <2>2, <2>3
          DEF Pool!Next, Pool!Abandon, Pool!Answer, Pool!Job, Req
<1>8. CASE pc' = pc /\ attempts'[n] = attempts[n] + 1
  <2>1. \A j \in Req : Stages'[j] = IF j \in answered' THEN "answered"
                                    ELSE IF j <= n THEN "active" ELSE "queued"
    BY <1>1, <1>8 DEF ByCount
  <2>2. \A j \in Req : j <= n <=> j <= next \/ j = n
    BY <1>3 DEF Req
  <2>3. \A j \in Req : Stages'[j] = IF j = n THEN "active"
                                    ELSE IF j = k THEN "answered"
                                    ELSE Stages[j]
    BY <1>1, <1>2, <1>4, <2>1, <2>2, StageByCount DEF ByCount
  <2>4. Stages' = [Stages EXCEPT ![k] = "answered", ![n] = "active"]
    BY <1>2, <1>3, <1>4, <2>3 DEF Stages
  <2>5. Verdict' = Verdict
    BY <1>1, <1>8 DEF Verdict
  <2>6. Pool!HandOver(k, n)
    BY <1>3, <1>5, <2>4, <2>5 DEF Pool!HandOver
  <2> QED BY <1>2, <1>3, <1>5, <2>6 DEF Pool!Next, Pool!Job, Req
<1> QED BY <1>6, <1>7, <1>8

LEMMA DrainAnswers == ASSUME BatchInv, NEW h \in Handle, Drain(h)
                      PROVE  Pool!Next
<1> DEFINE k == handleCtx[h]
<1>1. /\ Popped(h) /\ answered' = answered \cup {k} /\ pc = "loop"
      /\ UNCHANGED <<pc, ret, attempts>>
  BY DEF Drain, Count, Popped
<1>2. k \in Req /\ k \in 1 .. next /\ k \notin answered
  BY <1>1, Popping
<1>3. Stages[k] = "active" /\ Verdict = "open" /\ Verdict' = Verdict
  BY <1>1, <1>2, StageByCount DEF ByCount, Verdict
<1>4. \A j \in Req : Stage(j)' = IF j = k THEN "answered" ELSE Stage(j)
  BY <1>1 DEF Stage
<1>5. Stages' = [Stages EXCEPT ![k] = "answered"]
  BY <1>2, <1>4 DEF Stages
<1> QED BY <1>2, <1>3, <1>5 DEF Pool!Next, Pool!Answer, Pool!Job, Req

LEMMA ReturnCompletes == ASSUME BatchInv, Return
                         PROVE  Pool!Next
<1>1. /\ pc = "loop" /\ pc' = "returned" /\ ret' = 0 /\ finished = N
      /\ UNCHANGED <<attempts, answered>>
  BY DEF Return, historyVars
<1>2. answered = Req
  <2>1. Cardinality(answered) = N /\ answered \subseteq Req
    BY <1>1 DEF BatchInv, Accounting, TypeOK
  <2>2. IsFiniteSet(Req) /\ Cardinality(Req) = N
    BY BatchAssumption, FS_Interval DEF Req
  <2> QED BY <2>1, <2>2, FS_Subset
<1>3. Stages = [k \in Pool!Job |-> "answered"]
  BY <1>2 DEF Stages, Stage, Pool!Job, Req
<1>4. Stages' = Stages
  BY <1>1, StagesUnchanged
<1>5. Verdict = "open" /\ Verdict' = "complete"
  BY <1>1 DEF Verdict
<1> QED BY <1>3, <1>4, <1>5 DEF Pool!Next, Pool!Complete

LEMMA PoolInit == ASSUME Init
                  PROVE  Pool!Init
<1>1. \A k \in Req : Stage(k) = "queued"
  BY DEF Init, Stage
<1>2. Stages = [k \in Pool!Job |-> "queued"]
  BY <1>1 DEF Stages, Pool!Job, Req
<1>3. Verdict = "open"
  BY DEF Init, Verdict
<1> QED BY <1>2, <1>3 DEF Pool!Init

LEMMA PoolStep == ASSUME BatchInv, ByCount', [Next]_vars
                  PROVE  [Pool!Next]_(Pool!poolVars)
<1>1. CASE Launch
  BY <1>1, LaunchStarts
<1>2. CASE LaunchFails
  BY <1>2, GivesUp DEF LaunchFails, Abandon
<1>3. ASSUME UNCHANGED <<answered, attempts, ret>>,
             pc' # "returned" <=> pc # "returned"
      PROVE  UNCHANGED Pool!poolVars
  BY <1>3, StagesUnchanged DEF Verdict, Pool!poolVars
<1>4. CASE EnterLoop
  BY <1>3, <1>4 DEF EnterLoop, historyVars
<1>5. ASSUME NEW h \in Handle, Deliver(h) PROVE UNCHANGED Pool!poolVars
  BY <1>3, <1>5 DEF Deliver, historyVars
<1>6. ASSUME NEW h \in Handle, Round(h)
      PROVE  Pool!Next \/ UNCHANGED Pool!poolVars
  BY <1>6, RepeatKeepsPlace, StartNextHandsOver, DrainAnswers DEF Round
<1>7. CASE Return
  BY <1>7, ReturnCompletes
<1>8. CASE UNCHANGED vars
  BY <1>3, <1>8 DEF vars, historyVars
<1> QED BY <1>1, <1>2, <1>4, <1>5, <1>6, <1>7, <1>8 DEF Next, Terminated

\* Every run of the batch is a run of the pool: requests start in the order of
\* the array, never more than Limit at a time, a retry keeps its place, and the
\* batch is complete only when every request is answered (README.md:205-207).
THEOREM BatchIsAPool == Spec => Pool!Init /\ [][Pool!Next]_(Pool!poolVars)
<1>1. Init => Pool!Init
  BY PoolInit
<1>2. BatchInv => ByCount
  BY StageByCount DEF ByCount
<1>3. BatchInv /\ ByCount' /\ [Next]_vars
         => [Pool!Next]_(Pool!poolVars)
  BY PoolStep
<1> QED BY <1>1, <1>2, <1>3, BatchInvariant, PTL DEF Spec

\* What is left of the pool's specification is that the call ends.
THEOREM PoolUpToReturning == Spec /\ Returns => ImplementsPool
<1>1. pc = "returned" => Verdict # "open"
  BY DEF Verdict
<1> QED BY <1>1, BatchIsAPool, PTL DEF Returns, ImplementsPool, Pool!Spec

===============================================================================
