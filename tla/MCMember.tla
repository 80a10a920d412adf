------------------------------- MODULE MCMember -------------------------------
(***************************************************************************)
(* An instance of Member for TLC.                                          *)
(***************************************************************************)
EXTENDS Member

CONSTANTS w1, w2, near, far

MCTypes == HTTPFailures \cup {"tcp_refused", "tcp_timeout"} \cup Injected("tls") \cup Injected("dns")

Failing(t, h, p) == [type |-> t, host |-> h, path |-> p, duration |-> 1, rate |-> "every", cidrs |-> {}]

MCActivations ==
    [http    |-> {Failing("http_redirect", "site", "page"), [Failing("http_timeout", "site", Any) EXCEPT !.rate = "some"],
                  Failing("tcp_timeout", "site", Any), [Failing("http_status", "site", Any) EXCEPT !.cidrs = {"net"}]},
     observe |-> {Failing("http_status", "site", Any)},
     tls     |-> {Failing("tls_expired", "site", Any), Failing("tls_invalid", "site", Any)},
     library |-> {},
     dns     |-> {Failing(t, Any, Any) : t \in Injected("dns")}]

Request(k, ip, missing) == [kind |-> k, ip |-> ip, host |-> "site", path |-> "page", misses |-> missing,
                            peek |-> "site", pattern |-> "bulk", number |-> 2]
Query(n, q, proto) == [kind |-> "dns", ip |-> near, host |-> Any, path |-> Any, misses |-> {},
                       name |-> n, qtype |-> q, proto |-> proto]
\* A query without a name cannot meet the failures that are about names.
Garbled == [Query("no", "garbled", "udp") EXCEPT !.misses = {"dns_nxdomain", "dns_cname_nxdomain"}]
Host(n) == [kind |-> "https", ip |-> far, host |-> "site", path |-> "page", misses |-> {},
            pattern |-> "bulk", number |-> n]

MCRequests ==
    [http    |-> {Request("http", near, {}), Request("http", far, {"http_timeout"}),
                  [Request("http", far, {}) EXCEPT !.peek = Any], Request("kept", near, {})},
     observe |-> {Host(1), Host(3)},
     tls     |-> {Request("tls", far, {})},
     library |-> {},
     dns     |-> {}]
MCQueries == {Query("challenge", "TXT", "udp"), Query("site2", "A", "tcp"), Query("a", "NS", "udp"),
              Query("b.a", "SOA", "udp"), Query("www.a", "A", "udp"), Query("site3", "A", "udp"), Garbled}

\* Two services whose ranges overlap.
MCWindows ==
    LET svc(start, count) == [pattern |-> "bulk", start |-> start, count |-> count]
    IN  LET both == {[active |-> 2, services |-> <<svc(0, 0), svc(2, 5)>>]}
        IN  [http |-> {}, observe |-> both]

MCCrew == [http |-> {w1}, observe |-> {w1, w2}, tls |-> {w1}, library |-> {}, dns |-> {w1}]

MCMaxScript == [http |-> 1, observe |-> 0, tls |-> 1, library |-> 0, dns |-> 1]
MCPollers == [tls |-> 1, library |-> 2]

MCFaults == [tls |-> 0, library |-> 1]

\* The mint replaces both certificates; the other source has one of them.
MCSources == [a |-> <<<<"old", "new">>, <<"newer">>>>, b |-> <<<<"old">>>>]
MCValidity == [old |-> "expired", new |-> "valid", newer |-> "valid"]

\* Two nameservers; b.a is a zone below a.
MCFleet ==
    [served |-> [n1 |-> {"a", "b.a"}, n2 |-> {"a"}],
     hosts |-> [n1 |-> {"ns1.a", "ns0.a"}, n2 |-> {"ns2.a"}],
     zone |-> [n \in {"a", "b.a", "www.a", "ns0.a", "ns1.a", "ns2.a", "no", "challenge", "w.b.a", "site2", "site3"} |->
                 CASE n \in {"no", "challenge"} -> {} [] n = "b.a" -> {"a", "b.a"}
                   [] n = "w.b.a" -> {"a", "b.a"} [] OTHER -> {"a"}],
     declared |-> [d \in {"a", "b.a"} |-> IF d = "a" THEN {} ELSE {"w.b.a"}],
     ttl |-> [d \in {"a", "b.a"} |-> IF d = "a" THEN 30 ELSE 60],
     first |-> [n \in {"a", "b.a", "www.a", "ns0.a", "ns1.a", "ns2.a", "w.b.a"} |->
                 CASE n = "ns0.a" -> 1 [] n = "ns1.a" -> 2 [] n = "ns2.a" -> 3 [] OTHER -> 4],
     sites |-> {"www.a"}, flags |-> {"flag"},
     generated |-> {[start |-> 1, count |-> 2]}, number |-> [site2 |-> 2, site3 |-> 3]]

\* Latencies on both sides of the probe's three seconds (120) and of the
\* control timeouts; 0 is no timeout.
MCProbes == [latency : {0, 1, 2, 40, 118, 119, 120, 121, 200, 399}, mode : {"", "servfail"},
             control : {0, 41, 120, 121, 400}, network : {0, 1, 39, 40}]

MCCovers == [c \in CIDRs |-> {near}]
=============================================================================
