------------------------- MODULE HttpRequestResult -------------------------
(***************************************************************************)
(* The outcome of one request to the collector, and what the emitter       *)
(* concludes from it (http/http_request_result.cpp).  A result is a value: *)
(* the class has no setters, so the module has operators and no variables. *)
(* The row ids a result carries are kept by the Emitter module beside it.  *)
(***************************************************************************)
EXTENDS Integers

\* SNOWPLOW_FAIL_NO_RETRY_HTTP_STATUS_CODES
NoRetryCodes == {400, 401, 403, 410, 422}

\* The constructor: an internal error hides whatever status came with it.
Result(internal_error_code, http_response_code, is_oversize) ==
  [internal_error_code |-> internal_error_code,
   http_response_code  |-> IF internal_error_code # 0 THEN -1 ELSE http_response_code,
   is_oversize         |-> is_oversize]

HttpRequestResults ==
  [internal_error_code : Int, http_response_code : Int, is_oversize : BOOLEAN]

IsInternalError(res) == res.internal_error_code # 0

IsSuccess(res) ==
  /\ ~IsInternalError(res)
  /\ res.http_response_code >= 200
  /\ res.http_response_code < 300

\* Faulty variant of ShouldRetry: only an HTTP failure is retried, not a
\* status of 0 nor an internal error.
RetriesHttpOnly(res, custom) ==
  /\ res.http_response_code >= 300
  /\ ~res.is_oversize
  /\ IF res.http_response_code \in DOMAIN custom
     THEN custom[res.http_response_code]
     ELSE res.http_response_code \notin NoRetryCodes

\* custom is m_custom_retry_for_status_codes: a function from some status
\* codes to BOOLEAN.
ShouldRetry(res, custom) ==
  /\ ~IsSuccess(res)
  /\ ~res.is_oversize
  /\ \/ IsInternalError(res)
     \/ IF res.http_response_code \in DOMAIN custom
        THEN custom[res.http_response_code]
        ELSE res.http_response_code \notin NoRetryCodes

\* Faulty variant of GivesUp: whatever did not succeed, an "else" too few.
GivesUpOnFailure(res, custom) == ~IsSuccess(res)

\* The three-way classification of Emitter::run.
GivesUp(res, custom) == ~IsSuccess(res) /\ ~ShouldRetry(res, custom)
=============================================================================
