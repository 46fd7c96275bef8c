-------------------------- MODULE BceResponseProofs --------------------------
(***************************************************************************)
(* What the operations of BceResponse preserve and return.  The senders'   *)
(* proofs cite these lemmas and never expand the operators.                *)
(***************************************************************************)
EXTENDS BceResponse, TLAPS

\* A response object as its constructors leave it is a response, and is ok.
LEMMA NewResponseType ==
    /\ NewResponse \in Response
    /\ NewResponse.http.atStart
    /\ NewResponse.http.status = 0
BY DEF NewResponse, Response, Errors, ErrorBodies, NoError, NoBody, STATUS_OK

\* The callbacks of one transfer keep the type, leave status and error alone,
\* and leave the status line's code in the HttpResponse when one arrived.
LEMMA ReceiveType ==
    ASSUME NEW r \in Response, NEW o \in Outcome
    PROVE  /\ Receive(r, o) \in Response
           /\ o.http # 0 => Receive(r, o).http.status = o.http
<1>1. CASE o.http = 0
  BY <1>1 DEF Receive
<1>2. CASE o.http # 0
  <2> DEFINE s == [r EXCEPT !.http.status = o.http]
  <2>1. s \in Response /\ s.http.status = o.http
    BY DEF Response, Outcome
  <2>2. write_body(s, o.body) \in Response
    BY <2>1 DEF write_body, Response, Outcome
  <2>3. write_body(s, o.body).http.status = o.http
    BY <2>1 DEF write_body, Response
  <2>4. Receive(r, o) = write_body(s, o.body)
    BY <1>2 DEF Receive
  <2> QED BY <2>2, <2>3, <2>4
<1> QED BY <1>1, <1>2

\* reset() gives a response whose HTTP half is ready for another attempt, and
\* leaves the other half as it is.
LEMMA HttpResetType ==
    ASSUME NEW r \in Response
    PROVE  /\ HttpReset(r) \in Response
           /\ HttpReset(r).http.atStart
           /\ HttpReset(r).http.status = 0
           /\ HttpReset(r).status = r.status
           /\ HttpReset(r).error = r.error
<1> DEFINE h == [status |-> 0, errorBody |-> r.http.errorBody, atStart |-> TRUE]
<1>1. h \in [status : Int, errorBody : ErrorBodies, atStart : BOOLEAN]
  BY DEF Response
<1>2. h.atStart = TRUE /\ h.status = 0
  OBVIOUS
<1>3. HttpReset(r) = [r EXCEPT !.http = h]
  BY DEF HttpReset
<1> HIDE DEF h
<1>4. /\ [r EXCEPT !.http = h] \in Response
      /\ [r EXCEPT !.http = h].http = h
      /\ [r EXCEPT !.http = h].status = r.status
      /\ [r EXCEPT !.http = h].error = r.error
  BY <1>1 DEF Response
<1> QED BY <1>2, <1>3, <1>4

\* A status line changes the HttpResponse's status and nothing else.
LEMMA StatusLineType ==
    ASSUME NEW r \in Response, NEW status \in Int
    PROVE  /\ [r EXCEPT !.http.status = status] \in Response
           /\ [r EXCEPT !.http.status = status].http.status = status
BY DEF Response

\* A chunk of a body keeps the type and the status.
LEMMA WriteBodyType ==
    ASSUME NEW r \in Response, NEW chunk \in ErrorBodies
    PROVE  /\ write_body(r, chunk) \in Response
           /\ write_body(r, chunk).http.status = r.http.status
<1>1. write_body(r, chunk) \in Response
  <2>1. CASE r.http.status < 400
    BY <2>1 DEF write_body, Response
  <2>2. CASE ~(r.http.status < 400)
    BY <2>2 DEF write_body, Response
  <2> QED BY <2>1, <2>2
<1>2. write_body(r, chunk).http.status = r.http.status
  BY DEF write_body, Response
<1> QED BY <1>1, <1>2

\* Recording an error keeps the type and makes the response fail.
LEMMA SetErrorType ==
    ASSUME NEW r \in Response, NEW status \in Int, NEW code \in Errors
    PROVE  /\ set_error(r, status, code) \in Response
           /\ set_error(r, status, code).error = code
           /\ set_error(r, status, code).http = r.http
BY DEF set_error, Response

LEMMA SetErrorByJsonType ==
    ASSUME NEW r \in Response, NEW status \in Int, NEW json \in ErrorBodies,
           "none" \notin Codes
    PROVE  /\ set_error_by_json(r, status, json) \in Response
           /\ set_error_by_json(r, status, json).error # NoError
<1> DEFINE e == set_error_by_json(r, status, json)
<1>1. CASE json = NoBody
  <2>1. e = set_error(r, status, "UnknownError")
    BY <1>1 DEF set_error_by_json
  <2>2. "UnknownError" \in Errors /\ "UnknownError" # NoError
    BY DEF Errors, NoError
  <2> QED BY <2>1, <2>2, SetErrorType
<1>2. CASE json = Garbage
  <2>1. e = set_error(r, STATUS_INVALID_RESPONSE, "MalformedJson")
    BY <1>2 DEF set_error_by_json, NoBody, Garbage
  <2>2. /\ "MalformedJson" \in Errors /\ "MalformedJson" # NoError
        /\ STATUS_INVALID_RESPONSE \in Int
    BY DEF Errors, NoError, STATUS_INVALID_RESPONSE
  <2> QED BY <2>1, <2>2, SetErrorType
<1>3. CASE json # NoBody /\ json # Garbage
  <2>1. e = set_error(r, status, json)
    BY <1>3 DEF set_error_by_json
  <2>2. json \in Errors /\ json # NoError
    BY <1>3 DEF Errors, ErrorBodies, NoError
  <2> QED BY <2>1, <2>2, SetErrorType
<1> QED BY <1>1, <1>2, <1>3

\* The status recorded is the one given, or "invalid response".
LEMMA SetErrorByJsonStatus ==
    ASSUME NEW r \in Response, NEW status \in Int, NEW json \in ErrorBodies
    PROVE  set_error_by_json(r, status, json).status
               \in {status, STATUS_INVALID_RESPONSE}
<1>1. \A code, s : set_error(r, s, code).status = s
  BY DEF set_error, Response
<1> QED BY <1>1 DEF set_error_by_json

\* The verdict on a finished transfer: the response is ok exactly when the
\* service said it carried the request out.
LEMMA ConcludeVerdict ==
    ASSUME NEW r \in Response, NEW o \in Outcome,
           "none" \notin Codes,
           o.rc => r.http.status = o.http
    PROVE  /\ Conclude(r, o) \in Response
           /\ is_ok(Conclude(r, o)) <=> Succeeded(o)
<1>1. CASE ~o.rc
  <2>1. /\ "HttpExecuteFailure" \in Errors
        /\ "HttpExecuteFailure" # NoError
        /\ STATUS_RPC_FAIL \in Int
    BY DEF Errors, NoError, STATUS_RPC_FAIL
  <2>2. Conclude(r, o) = set_error(r, STATUS_RPC_FAIL, "HttpExecuteFailure")
    BY <1>1 DEF Conclude
  <2> QED BY <1>1, <2>1, <2>2, SetErrorType DEF is_ok, Succeeded
<1>2. CASE o.rc
  <2> DEFINE c == clear_error(r)
  <2>1. c \in Response /\ c.error = NoError
    BY DEF clear_error, Response, Errors
  <2>2. Conclude(r, o) = handle_response(r, o)
    BY <1>2 DEF Conclude
  <2>3. CASE r.http.status >= 400
    <3>1. r.http.status \in Int /\ r.http.errorBody \in ErrorBodies
      BY DEF Response
    <3>2. Conclude(r, o) = set_error_by_json(c, r.http.status, r.http.errorBody)
      BY <2>2, <2>3 DEF handle_response
    <3>3. ~Succeeded(o)
      BY <1>2, <2>3, <3>1 DEF Succeeded
    <3> QED BY <2>1, <3>1, <3>2, <3>3, SetErrorByJsonType DEF is_ok
  <2>4. CASE ~(r.http.status >= 400)
    <3>1. Conclude(r, o) = do_handle_chain(c, o)
      BY <2>2, <2>4 DEF handle_response
    <3>2. Succeeded(o) <=> o.chain = STATUS_OK
      BY <1>2, <2>4 DEF Succeeded, Response, Outcome
    <3>3. CASE o.chain = STATUS_OK
      <4>1. do_handle_chain(c, o) = c
        BY <3>3 DEF do_handle_chain, STATUS_OK, STATUS_INVALID_RESPONSE,
                    STATUS_INTERNAL_ERROR
      <4> QED BY <2>1, <3>1, <3>2, <3>3, <4>1 DEF is_ok
    <3>4. CASE o.chain = STATUS_INVALID_RESPONSE
      <4>1. do_handle_chain(c, o)
              = set_error(c, STATUS_INVALID_RESPONSE, "MalformedJson")
        BY <3>4 DEF do_handle_chain, STATUS_OK, STATUS_INVALID_RESPONSE,
                    STATUS_INTERNAL_ERROR
      <4>2. /\ "MalformedJson" \in Errors /\ "MalformedJson" # NoError
            /\ STATUS_INVALID_RESPONSE \in Int
        BY DEF Errors, NoError, STATUS_INVALID_RESPONSE
      <4>3. o.chain # STATUS_OK
        BY <3>4 DEF STATUS_OK, STATUS_INVALID_RESPONSE
      <4> QED BY <2>1, <3>1, <3>2, <4>1, <4>2, <4>3, SetErrorType DEF is_ok
    <3>5. CASE o.chain = STATUS_INTERNAL_ERROR
      <4>1. do_handle_chain(c, o)
              = set_error_by_json(c, STATUS_INTERNAL_ERROR, o.body)
        BY <3>5 DEF do_handle_chain, STATUS_OK, STATUS_INVALID_RESPONSE,
                    STATUS_INTERNAL_ERROR
      <4>2. STATUS_INTERNAL_ERROR \in Int /\ o.body \in ErrorBodies
        BY DEF STATUS_INTERNAL_ERROR, Outcome
      <4>3. o.chain # STATUS_OK
        BY <3>5 DEF STATUS_OK, STATUS_INTERNAL_ERROR
      <4> QED BY <2>1, <3>1, <3>2, <4>1, <4>2, <4>3, SetErrorByJsonType
              DEF is_ok
    <3> QED BY <3>3, <3>4, <3>5 DEF Outcome
  <2> QED BY <2>3, <2>4
<1> QED BY <1>1, <1>2

\* A failed attempt leaves a status that is not 0, the value that stands for
\* success.
LEMMA ConcludeStatus ==
    ASSUME NEW r \in Response, NEW o \in Outcome,
           is_fail(Conclude(r, o))
    PROVE  Conclude(r, o).status # 0
<1>1. \A x \in Response : \A code, status : set_error(x, status, code).status = status
  BY DEF set_error, Response
<1>2. CASE ~o.rc
  BY <1>1, <1>2 DEF Conclude, STATUS_RPC_FAIL
<1>3. CASE o.rc
  <2> DEFINE c == clear_error(r)
  <2>1. c \in Response /\ c.error = NoError
    BY DEF clear_error, Response, Errors
  <2>2. Conclude(r, o) = handle_response(r, o)
    BY <1>3 DEF Conclude
  <2>3. CASE r.http.status >= 400
    <3>1. /\ r.http.status \in Int
          /\ r.http.errorBody \in ErrorBodies
      BY DEF Response
    <3>2. Conclude(r, o) = set_error_by_json(c, r.http.status, r.http.errorBody)
      BY <2>2, <2>3 DEF handle_response
    <3>3. Conclude(r, o).status \in {r.http.status, STATUS_INVALID_RESPONSE}
      BY <2>1, <3>1, <3>2, SetErrorByJsonStatus
    <3> QED BY <2>3, <3>1, <3>3 DEF STATUS_INVALID_RESPONSE
  <2>4. CASE ~(r.http.status >= 400)
    <3>1. Conclude(r, o) = do_handle_chain(c, o)
      BY <2>2, <2>4 DEF handle_response
    <3>2. CASE o.chain = STATUS_OK
      <4>1. do_handle_chain(c, o) = c
        BY <3>2 DEF do_handle_chain, STATUS_OK, STATUS_INVALID_RESPONSE,
                    STATUS_INTERNAL_ERROR
      <4> QED BY <2>1, <3>1, <4>1 DEF is_fail
    <3>3. CASE o.chain = STATUS_INVALID_RESPONSE
      <4>1. do_handle_chain(c, o)
              = set_error(c, STATUS_INVALID_RESPONSE, "MalformedJson")
        BY <3>3 DEF do_handle_chain, STATUS_OK, STATUS_INVALID_RESPONSE,
                    STATUS_INTERNAL_ERROR
      <4> QED BY <1>1, <2>1, <3>1, <4>1 DEF STATUS_INVALID_RESPONSE
    <3>4. CASE o.chain = STATUS_INTERNAL_ERROR
      <4>1. do_handle_chain(c, o)
              = set_error_by_json(c, STATUS_INTERNAL_ERROR, o.body)
        BY <3>4 DEF do_handle_chain, STATUS_OK, STATUS_INVALID_RESPONSE,
                    STATUS_INTERNAL_ERROR
      <4>2. STATUS_INTERNAL_ERROR \in Int /\ o.body \in ErrorBodies
        BY DEF STATUS_INTERNAL_ERROR, Outcome
      <4>3. Conclude(r, o).status
              \in {STATUS_INTERNAL_ERROR, STATUS_INVALID_RESPONSE}
        BY <2>1, <3>1, <4>1, <4>2, SetErrorByJsonStatus
      <4> QED BY <4>3 DEF STATUS_INVALID_RESPONSE, STATUS_INTERNAL_ERROR
    <3> QED BY <3>2, <3>3, <3>4 DEF Outcome
  <2> QED BY <2>3, <2>4
<1> QED BY <1>2, <1>3

===============================================================================
