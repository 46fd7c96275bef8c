----------------------------- MODULE BceResponse -----------------------------
(***************************************************************************)
(* The response object a caller passes to a request, as a value.           *)
(*                                                                         *)
(* BceResponse keeps a status code and an error object of its own, and     *)
(* owns the HttpResponse that libcurl's callbacks fill.  The two are       *)
(* written at different times (the HttpResponse while bytes arrive, the    *)
(* BceResponse when the transfer is over) and reset by different code, so  *)
(* the record keeps both:                                                  *)
(*                                                                         *)
(*   status         BceResponse::_status_code                              *)
(*   error          code of *_error, or NoError when _error is NULL        *)
(*   http.status    HttpResponse::_status_code                             *)
(*   http.errorBody HttpResponse::_error_stream                            *)
(*   http.atStart   _body_stream (where a body below 400 goes) is at 0     *)
(*                                                                         *)
(* Only the FIRST chunk ever put in _error_stream is kept: what is later   *)
(* appended never changes what BceResponse makes of the stream, because    *)
(* Json::Reader stops at the end of the first value, and a text that does  *)
(* not start with a whole value stays malformed whatever follows it.       *)
(*                                                                         *)
(* This module has operators only; the senders keep one record per         *)
(* request.                                                                *)
(***************************************************************************)
EXTENDS Integers

CONSTANT Codes     \* error codes a service may put in a JSON error body

STATUS_OK               == 0
STATUS_INTERNAL_ERROR   == 500
STATUS_INVALID_RESPONSE == 1000
STATUS_RPC_FAIL         == 1001

NoError == "none"     \* _error == NULL
NoBody  == "none"     \* nothing was ever written to _error_stream
Garbage == "garbage"  \* bytes that do not begin with a whole JSON object

ErrorBodies == Codes \cup {NoBody, Garbage}
Errors == Codes \cup {NoError, "UnknownError", "MalformedJson",
                      "HttpExecuteFailure"}

(***************************************************************************)
(* What one transfer brings back:                                          *)
(*   rc     the CURLcode is CURLE_OK                                       *)
(*   http   status line received (0: the transfer died before one)         *)
(*   body   the body, as far as JSON parsing tells bodies apart            *)
(*   chain  for a status below 400, the status do_handle_chain sets:       *)
(*          STATUS_OK, or the error code of a reply that does not parse    *)
(*          (1000) or that carries an error object instead of a result     *)
(*          (500, copy_part_response.cpp:22)                               *)
(***************************************************************************)
Outcome ==
    [ rc    : BOOLEAN,
      http  : Int,
      body  : ErrorBodies,
      chain : {STATUS_OK, STATUS_INTERNAL_ERROR, STATUS_INVALID_RESPONSE} ]

Response ==
    [ status : Int,
      error  : Errors,
      http   : [status : Int, errorBody : ErrorBodies, atStart : BOOLEAN] ]

\* A response as its constructors leave it.  HttpResponse() does not set
\* _status_code; nothing reads it before a status line or reset() writes it.
NewResponse ==
    [ status |-> STATUS_OK,
      error  |-> NoError,
      http   |-> [status |-> 0, errorBody |-> NoBody, atStart |-> TRUE] ]

is_ok(r)   == r.error = NoError
is_fail(r) == r.error # NoError

\* Mutant of HttpReset: the status of the failed attempt stays.
HttpResetKeepsStatus(r) == [r EXCEPT !.http.atStart = TRUE]

\* HttpResponse::reset().  stringstream::clear() resets the stream's error
\* flags and keeps its contents, so errorBody survives.
HttpReset(r) ==
    [r EXCEPT !.http = [status    |-> 0,
                        errorBody |-> r.http.errorBody,
                        atStart   |-> TRUE]]

\* HttpResponse::write_body: an error body is appended to what is there, any
\* other body moves the caller's output stream on.
write_body(r, chunk) ==
    IF r.http.status < 400
      THEN [r EXCEPT !.http.atStart = FALSE]
      ELSE [r EXCEPT !.http.errorBody = IF @ = NoBody THEN chunk ELSE @]

\* libcurl's callbacks for one transfer: the status line (write_header), then
\* the body.
Receive(r, o) ==
    IF o.http = 0
      THEN r
      ELSE write_body([r EXCEPT !.http.status = o.http], o.body)

set_error(r, status, code) == [r EXCEPT !.status = status, !.error = code]

set_error_by_json(r, status, json) ==
    IF json = NoBody THEN set_error(r, status, "UnknownError")
    ELSE IF json = Garbage
      THEN set_error(r, STATUS_INVALID_RESPONSE, "MalformedJson")
      ELSE set_error(r, status, json)

\* Mutant of clear_error: the error of an earlier attempt stays.
ClearErrorNever(r) == r

\* clear_error() drops the error object and leaves _status_code alone.
clear_error(r) == [r EXCEPT !.error = NoError]

\* do_handle_chain of the response's class, for a reply below 400.
do_handle_chain(r, o) ==
    CASE o.chain = STATUS_OK               -> r
      [] o.chain = STATUS_INVALID_RESPONSE ->
           set_error(r, STATUS_INVALID_RESPONSE, "MalformedJson")
      [] o.chain = STATUS_INTERNAL_ERROR   ->
           set_error_by_json(r, STATUS_INTERNAL_ERROR, o.body)

handle_response(r, o) ==
    IF r.http.status >= 400
      THEN set_error_by_json(clear_error(r), r.http.status, r.http.errorBody)
      ELSE do_handle_chain(clear_error(r), o)

\* What both senders do with a finished transfer before they decide on a
\* retry: handle the reply, or record that there was none.
Conclude(r, o) ==
    IF o.rc THEN handle_response(r, o)
    ELSE set_error(r, STATUS_RPC_FAIL, "HttpExecuteFailure")

\* The test both senders make on status_code().
Retryable(status) == status >= 500 /\ status # 501

\* The service carried the request out and said so.
Succeeded(o) == o.rc /\ o.http < 400 /\ o.chain = STATUS_OK

===============================================================================
