---------------------------- MODULE CollectorUrl ----------------------------
(***************************************************************************)
(* From the collector URL of a NetworkConfiguration to the URL requests    *)
(* are sent to: configuration/network_configuration.cpp, get_collector_url *)
(* of emitter/emitter.cpp and cracked_url.cpp.  A text is a sequence of    *)
(* tokens: "http://" and "https://" in any case (Scheme), ".", ":", "/",   *)
(* Number for a run of digits and Word for one of other characters.  There *)
(* are no spaces, and a port fits an int.                                  *)
(***************************************************************************)
EXTENDS Naturals, Sequences, SequencesExt

Scheme == {"http://", "https://", "HTTP://"}
Number == "80"
Word   == "word"

\* NetworkConfiguration's constructor, for a URL that is not empty: the
\* protocol and the rest of the URL.
Protocol(url) == IF url[1] \in {"http://", "HTTP://"} THEN "http://" ELSE "https://"
Hostname(url) == IF url[1] \in Scheme THEN Tail(url) ELSE url

\* "i", and "com.snowplowanalytics.snowplow/tp2".
CollectorPath(method) ==
  IF method = "GET" THEN << "/", Word >>
  ELSE << "/", Word, ".", Word, ".", Word, "/", Word >>

\* get_collector_url.
FullUrl(uri, protocol, method) == << protocol >> \o uri \o CollectorPath(method)

\* The arguments the Emitter's constructor refuses before it looks at the URL.
UriRefused(uri) == uri = << >> \/ uri[1] \in Scheme

(***************************************************************************)
(* CrackedUrl, for a URL that begins with a protocol                       *)
(***************************************************************************)
\* r_host: what is between the protocol and the first slash that comes after
\* the first dot; the dot is not at either end.
FirstDot(s) == SelectInSeq(s, LAMBDA c : c = ".")
is_valid(url) ==
  LET s == Tail(url)
      dot == FirstDot(s)
  IN  dot > 1 /\ dot < Len(s) /\ s[dot + 1] # "/"

\* Faulty variant: the host ends at the first slash but one.
SlashButOne(s) == SelectInSubSeq(s, SelectInSeq(s, LAMBDA c : c = "/") + 1, Len(s),
                                 LAMBDA c : c = "/")
HostEnd(s) == SelectInSubSeq(s, FirstDot(s), Len(s), LAMBDA c : c = "/")
HostnamePort(url) == LET s == Tail(url)
                     IN  IF HostEnd(s) = 0 THEN s ELSE SubSeq(s, 1, HostEnd(s) - 1)
path(url) == LET s == Tail(url)
             IN  IF HostEnd(s) = 0 THEN << >> ELSE SubSeq(s, HostEnd(s), Len(s))

\* r_hostname_port, searched for: the first colon with something other than a
\* colon before it and a number behind; what is behind that is dropped.
PortColon(h) ==
  SelectInSubSeq([i \in DOMAIN h |-> i], 2, Len(h) - 1,
    LAMBDA i : h[i] = ":" /\ h[i - 1] # ":" /\ h[i + 1] = Number)
use_default_port(url) == PortColon(HostnamePort(url)) = 0
hostname(url) ==
  LET h == HostnamePort(url)
      colon == PortColon(h)
      before == SelectLastInSubSeq(h, 1, colon - 1, LAMBDA c : c = ":")
  IN  IF colon = 0 THEN h ELSE SubSeq(h, before + 1, colon - 1)

\* to_string, which the HTTP clients send requests to.
to_string(url) ==
  << url[1] >> \o hostname(url)
    \o (IF use_default_port(url) THEN << >> ELSE << ":", Number >>) \o path(url)

(***************************************************************************)
(* URLs with a dot in their host                                           *)
(***************************************************************************)
\* What follows the protocol is a host with a dot between two other characters
\* of it, a port or none, and a path or none.
Token == Scheme \cup {Number, Word, ".", ":", "/"}
HasDottedHost(url) ==
  LET s == Hostname(url)
  IN  /\ url \in Seq(Token)
      /\ \E n \in 3..Len(s) :
           /\ \A i \in 1..n : s[i] \in {Word, Number, "."}
           /\ s[1] # "." /\ \E i \in 2..n - 1 : s[i] = "."
           /\ \E m \in {n, n + 2} :
                /\ m = n \/ (m <= Len(s) /\ s[n + 1] = ":" /\ s[n + 2] = Number)
                /\ m = Len(s) \/ s[m + 1] = "/"
=============================================================================
