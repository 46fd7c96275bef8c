----------------------------- MODULE MCBatchSend -----------------------------
(***************************************************************************)
(* Values for TLC: the outcomes a transfer may have and the contexts a     *)
(* caller may hand over.                                                   *)
(***************************************************************************)
EXTENDS BatchProperties

MCCodes == {"NoSuchKey", "SlowDown"}

Good      == [rc |-> TRUE,  http |-> 200, body |-> NoBody, chain |-> STATUS_OK]
NotFound  == [rc |-> TRUE,  http |-> 404, body |-> "NoSuchKey", chain |-> STATUS_OK]
NotImpl   == [rc |-> TRUE,  http |-> 501, body |-> NoBody, chain |-> STATUS_OK]
Throttled == [rc |-> TRUE,  http |-> 503, body |-> "SlowDown", chain |-> STATUS_OK]
CutError  == [rc |-> FALSE, http |-> 503, body |-> Garbage, chain |-> STATUS_OK]
CopyError == [rc |-> TRUE,  http |-> 200, body |-> "SlowDown", chain |-> STATUS_INTERNAL_ERROR]

\* Success, final failures on both sides of the retry test, and repeatable
\* failures: refused, cut off, and an error object in place of a result.
MCOutcomes == {Good, NotFound, NotImpl, Throttled, CutError, CopyError, Broken}

New == [resp |-> NewResponse, atStart |-> TRUE]

\* A response that served a successful download, not reset since, and a request
\* whose stream has been read before.
Used == [resp    |-> [NewResponse EXCEPT !.http.status = 200,
                                         !.http.atStart = FALSE],
         atStart |-> FALSE]

\* A response that was reset for a repeat which its batch never started.
Dropped ==
    [resp    |-> HttpReset(set_error(NewResponse, STATUS_RPC_FAIL,
                                     "HttpExecuteFailure")),
     atStart |-> TRUE]

\* Three new contexts, or a dropped one among those started at once and a used
\* one at once or when a place is free.
MCContexts == {<<New, New, New>>, <<Used, Dropped, New>>, <<New, Dropped, Used>>}

===============================================================================
