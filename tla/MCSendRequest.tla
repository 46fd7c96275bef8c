---------------------------- MODULE MCSendRequest ----------------------------
(* Replies for TLC. *)
EXTENDS SendProperties

MCCodes == {"NoSuchKey", "SlowDown"}

Good      == [rc |-> TRUE, http |-> 206, body |-> NoBody, chain |-> STATUS_OK]
NotFound  == [rc |-> TRUE, http |-> 404, body |-> "NoSuchKey", chain |-> STATUS_OK]
HtmlError == [rc |-> TRUE, http |-> 403, body |-> Garbage, chain |-> STATUS_OK]
NotImpl   == [rc |-> TRUE, http |-> 501, body |-> NoBody, chain |-> STATUS_OK]
Throttled == [rc |-> TRUE, http |-> 503, body |-> "SlowDown", chain |-> STATUS_OK]
CopyError == [rc |-> TRUE, http |-> 200, body |-> "SlowDown", chain |-> STATUS_INTERNAL_ERROR]
BadResult == [rc |-> TRUE, http |-> 200, body |-> Garbage, chain |-> STATUS_INVALID_RESPONSE]

AllReplies == {Good, NotFound, HtmlError, NotImpl, Throttled, CopyError, BadResult}

===============================================================================
