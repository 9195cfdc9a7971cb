---------------------------- MODULE HttpClient -----------------------------
(***************************************************************************)
(* The three built-in HTTP clients: libcurl (Unix), WinINet (Windows) and  *)
(* NSURLSession (Apple).  Each turns one exchange with the collector into  *)
(* an HttpRequestResult; they differ in what they return when there was no *)
(* HTTP answer.  An exchange also records two facts the program cannot     *)
(* see: whether the collector answered, and whether it took the events.    *)
(***************************************************************************)
EXTENDS HttpRequestResult

CONSTANTS Client,      \* the client the build links: "curl", "windows" or "apple"
          StatusCode,  \* the statuses the collector answers with
          StackValue   \* what an uninitialised long on curl's stack may hold

ASSUME HttpClientAssumption ==
  /\ Client \in {"curl", "windows", "apple"}
  /\ StatusCode \subseteq 200..599
  /\ StackValue \subseteq Int

\* Failures before any byte leaves the machine: curl_easy_init returns null,
\* or one of WinINet's open calls does.
UnsentResults(oversize) ==
  CASE Client = "curl"    -> {Result(1, -1, oversize)}
    [] Client = "windows" -> {Result(1, 0, oversize)}
    [] Client = "apple"   -> {}

\* The connection failed, or broke before the answer: curl's status_code is
\* returned uninitialised with no internal error, WinINet reports
\* GetLastError() (or a status that stayed 0), and [nil statusCode] is 0.
BrokenResults(oversize) ==
  CASE Client = "curl"    -> {Result(0, v, oversize) : v \in StackValue}
    [] Client = "windows" -> {Result(1, 0, oversize), Result(0, 0, oversize)}
    [] Client = "apple"   -> {Result(0, 0, oversize)}

AnsweredExchanges(oversize) ==
  {[result |-> Result(0, c, oversize), answered |-> TRUE, received |-> c < 300] :
      c \in StatusCode}

\* A broken connection leaves open whether the collector took the events.
UnansweredExchanges(oversize) ==
  {[result |-> r, answered |-> FALSE, received |-> FALSE] :
      r \in UnsentResults(oversize) \cup BrokenResults(oversize)}
  \cup
  {[result |-> r, answered |-> FALSE, received |-> TRUE] :
      r \in BrokenResults(oversize)}

\* HttpClient::http_get and http_post: the exchanges one request can end in.
Exchanges(oversize) == AnsweredExchanges(oversize) \cup UnansweredExchanges(oversize)
=============================================================================
