------------------------------ MODULE DataPlane ------------------------------
(***************************************************************************)
(* The data plane of a fleet member: connections and queries, each served  *)
(* by a goroutine of its own that asks the failure registry about one      *)
(* failure type after the other and serves the first failure that applies. *)
(* Each question takes the registry's lock by itself, so activations,      *)
(* removals and expiry fall between two questions of the same request.     *)
(*                                                                         *)
(* The target serves HTTP behind a TCP proxy (targetserver.go) and TLS     *)
(* handshakes (tls.go); the nameserver serves DNS queries (dnsserver.go).  *)
(* A request is a record:                                                  *)
(*   kind  http (the first of a connection through the proxy), kept (a     *)
(*         later one of such a connection), https, tls, dns                *)
(*   ip    its source          host, path  what it asks for                *)
(*   peek  (http) the host as far as the first read shows it, or Any       *)
(*   misses  the types whose parameters (method, header) it does not match *)
(***************************************************************************)
EXTENDS FailureRegistry, Sequences

CONSTANT Workers        \* goroutines serving requests

VARIABLES conn,         \* per goroutine: the request and how far it is
          span          \* per goroutine: the failures in effect meanwhile

planeVars == <<conn, span>>

Free == [pc |-> "idle"]
NoSpan == [ever |-> {}, always |-> {}]

PlaneInit ==
    /\ conn = [w \in Workers |-> Free]
    /\ span = [w \in Workers |-> NoSpan]

\* One question: the type, the host and path it is asked with, and whether a
\* hit ends the request or is only noted.
Check(t, h, p) == [type |-> t, host |-> h, path |-> p, then |-> "stop"]
Remark(t, h, p) == [type |-> t, host |-> h, path |-> p, then |-> "note"]

\* HandleTCP, once per connection: geographic failures by source address, then
\* the connection's.  peekHTTPHost looks at what the first read brought and
\* finds no host when that ends before the Host header does.
TCPChecks(r) == <<Check("geo", Any, Any), Check("tcp_refused", Any, Any), Check("tcp_timeout", r.peek, Any)>>

HTTPTypes == <<"http_method_status", "http_status", "http_timeout", "http_latency",
               "http_header_status", "http_partial", "http_body", "http_redirect">>

RedirectForgotten(r) == [i \in 1..7 |-> Check(HTTPTypes[i], r.host, r.path)]

\* VirtualHostHandler.ServeHTTP
ServeHTTP(r) == [i \in DOMAIN HTTPTypes |-> Check(HTTPTypes[i], r.host, r.path)]

\* GetConfigForClient, then failureCertificate.
TLSChecks(r) ==
    <<Check("tls_handshake", r.host, Any), Remark("tls_deprecated", r.host, Any),
      Check("tls_invalid", r.host, Any), Check("tls_expired", r.host, Any), Check("tls_expiring", r.host, Any)>>

\* BuildResponse: the nameserver's failures are for all names; a question that
\* does not parse is answered before the last two.
BuildResponse(r) ==
    LET all == <<Check("dns_timeout", Any, Any), Remark("dns_latency", Any, Any), Check("dns_servfail", Any, Any),
                 Check("dns_ns_unavailable", Any, Any), Check("dns_nxdomain", Any, Any), Check("dns_cname_nxdomain", Any, Any)>>
    IN  IF r.qtype = "garbled" THEN SubSeq(all, 1, 4) ELSE all

Checks(r) ==
    CASE r.kind = "http"  -> TCPChecks(r) \o ServeHTTP(r)
      [] r.kind \in {"kept", "https"} -> ServeHTTP(r)
      [] r.kind = "tls"   -> TLSChecks(r)
      [] r.kind = "dns"   -> BuildResponse(r)

Question(w) == Checks(conn[w].req)[conn[w].at]
Arrived(r) == [pc |-> "ask", req |-> r, at |-> 1, noted |-> {}, out |-> "ok"]
\* matchesRequestMethod, requiredHeadersMatch
Matches(r, t) == t \notin r.misses

\* The goroutine's state after the answer to its question.  A failure that
\* waits may see the client leave first.
AfterQuestion(c, hit) ==
    LET q == Checks(c.req)[c.at]
        next == IF c.at = Len(Checks(c.req)) THEN [c EXCEPT !.pc = "end"] ELSE [c EXCEPT !.at = @ + 1]
    IN  IF ~hit \/ ~Matches(c.req, q.type) THEN {next}
        ELSE IF q.then = "note" THEN {[next EXCEPT !.noted = @ \cup {q.type}]}
        ELSE {[c EXCEPT !.pc = "end", !.out = q.type]}
             \cup (IF q.type \in {"http_timeout", "http_latency"} THEN {[c EXCEPT !.pc = "end", !.out = "gone"]} ELSE {})

\* Accept: ServeProxy, ServeUDP, ServeTCP, the HTTPS listener; or the next
\* request on a connection that HandleTCP has spliced to the HTTP server.
Arrive(w, r) ==
    /\ conn[w] = Free
    /\ conn' = [conn EXCEPT ![w] = Arrived(r)]
    /\ reply' = NoReply
    /\ UNCHANGED <<failures, now, setting>>

Ask(w) ==
    /\ conn[w].pc = "ask"
    /\ Question(w).type # "geo" /\ Lookup(Question(w).type, Question(w).host, Question(w).path)
    /\ \E c \in AfterQuestion(conn[w], reply'.kind = "hit") : conn' = [conn EXCEPT ![w] = c]

\* The proxy's question about the source address.
AskIP(w) ==
    /\ conn[w].pc = "ask"
    /\ Question(w).type = "geo" /\ LookupForIP(conn[w].req.ip)
    /\ \E c \in AfterQuestion(conn[w], reply'.kind = "hit") : conn' = [conn EXCEPT ![w] = c]

\* The response is out and the goroutine ends.
Leave(w) ==
    /\ conn[w].pc = "done"
    /\ conn' = [conn EXCEPT ![w] = Free]
    /\ reply' = NoReply
    /\ UNCHANGED <<failures, now, setting>>

\* Kept for the properties: what was in effect at some moment of a request,
\* and what was in effect all along.
Track ==
    LET specs == {live'[k].spec : k \in DOMAIN live'}
    IN  span' = [w \in Workers |->
                    IF conn'[w] = Free THEN NoSpan
                    ELSE [ever |-> span[w].ever \cup specs,
                          always |-> IF conn[w] = Free THEN specs ELSE span[w].always \cap specs]]

(***************************************************************************)
(* What a response owes to the failures in effect.                         *)
(***************************************************************************)
HTTPFailures == {"http_method_status", "http_status", "http_timeout", "http_latency",
                 "http_header_status", "http_partial", "http_body", "http_redirect"}

\* The failure types a request of each kind is meant to meet.
Injected(kind) ==
    CASE kind = "http"  -> HTTPFailures \cup {"tcp_refused", "tcp_timeout"}
      [] kind \in {"kept", "https"} -> HTTPFailures
      [] kind = "tls"   -> {"tls_handshake", "tls_deprecated", "tls_invalid", "tls_expired", "tls_expiring"}
      [] kind = "dns"   -> {"dns_timeout", "dns_latency", "dns_servfail", "dns_ns_unavailable",
                            "dns_nxdomain", "dns_cname_nxdomain"}

\* The failure s was declared for requests such as r.  TCP failures and those of
\* an address range meet connections: the requests that follow on one that was
\* let through are not theirs, and a tcp_timeout knows the host only when the
\* first read of the connection shows it.
Geo(s, r) == s.cidrs # {} /\ r.kind = "http" /\ \E c \in s.cidrs \ BadCIDRs : r.ip \in Covers[c]
About(s, r) ==
    \/ Geo(s, r)
    \/ /\ s.cidrs = {} /\ s.type \in Injected(r.kind) \ r.misses
       /\ s.host \in {Any, IF s.type = "tcp_timeout" THEN r.peek ELSE r.host} /\ s.path \in {Any, r.path}

\* A request is failed, delayed or degraded only by a failure that was in
\* effect at some moment while it was served, and that was declared for its
\* host, path, method, headers or source.
FailureIsJustified ==
    \A w \in Workers : conn[w].pc = "end" =>
        LET r == conn[w].req
        IN  /\ \A t \in (conn[w].noted \cup {conn[w].out}) \cap Injected(r.kind) :
                   \E s \in span[w].ever : s.type = t /\ s.cidrs = {} /\ About(s, r)
            /\ conn[w].out = "geo" => \E s \in span[w].ever : Geo(s, r)

\* The failure u may be found in place of s: Lookup stops at the first entry of
\* a type, LookupForIP at the first range that covers the source.
Rival(u, s, r) ==
    IF Geo(s, r) THEN Geo(u, r) ELSE u.type = s.type /\ u.cidrs = {} /\ About(u, r)

\* A failure in effect from the first to the last moment of a request it is
\* about, for every request, and not hidden by another failure that is found
\* first, is noticed: such a request is never served as if nothing was wrong.
\* About says which requests a failure of a connection or an address range is about.
FailureIsVisible ==
    \A w \in Workers : conn[w].pc = "end" /\ conn[w].out = "ok" =>
        \A s \in span[w].always :
            /\ About(s, conn[w].req) /\ s.rate = "every"
            /\ \A u \in span[w].ever : Rival(u, s, conn[w].req) => u = s
            => s.type \in conn[w].noted

\* Responses and failures go together, both ways: every connection and every
\* query served while failures come, go and expire.
ResponsesFollowFailures == FailureIsJustified /\ FailureIsVisible
=============================================================================
