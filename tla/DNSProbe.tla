------------------------------- MODULE DNSProbe -------------------------------
(***************************************************************************)
(* The runner's proof that a DNS failure is in effect (runner/             *)
(* dns_failure.go): after activating it, the runner sends each nameserver  *)
(* an A query over UDP and compares the answer with what the failure       *)
(* should do.  A run whose probe does not match is excluded.  The probe    *)
(* meets the nameserver like any other query, so its answer is read off    *)
(* the goroutine that served it.                                           *)
(*                                                                         *)
(* Time is in units of 25 ms, the tolerance of the latency comparison.     *)
(***************************************************************************)
EXTENDS DNSServer

CONSTANT Probes         \* [latency, mode, control, network] of a probe:
                        \* the failure's parameters, the configured control
                        \* timeout (0: none), the time on the network

ProbeAssumption == \A p \in Probes : {p.latency, p.control, p.network} \subseteq Nat
ASSUME ProbeAssumption

Second == 40

\* Faulty variant: long latencies get no longer timeout.
TimeoutNotExtended(t, p) == IF p.control > 0 /\ p.control < 3 * Second THEN p.control ELSE 3 * Second

dnsExposureProbeTimeout(t, p) ==
    LET timeout == IF p.control > 0 /\ p.control < 3 * Second THEN p.control ELSE 3 * Second
        longer == p.latency + Second
    IN  IF t # "dns_latency" \/ p.latency = 0 \/ timeout > p.latency THEN timeout
        ELSE IF p.control > 0 /\ longer > p.control THEN p.control ELSE longer

\* buildDNSAQuery: the queries a probe sends.
buildDNSAQuery == {r \in Queries : r.qtype = "A" /\ r.proto = "udp"}

\* The answer of a finished query as the probe reads it: what response stands
\* for, in parseDNSProbeResponse's terms.
Dropped(out, p) == out \in {"dns_timeout", "silence"} \/ (out = "dns_ns_unavailable" /\ p.mode # "servfail")
parseDNSProbeResponse(out) ==
    [rcode |-> CASE out = "formerr" -> 1
                 [] out \in {"dns_servfail", "dns_ns_unavailable"} -> 2
                 [] out \in {"dns_nxdomain", "nxdomain"} -> 3
                 [] OTHER -> 0,
     cname |-> out = "dns_cname_nxdomain"]

probeAuthoritativeDNS(c, t, p) ==
    LET timeout == dnsExposureProbeTimeout(t, p)
        elapsed == p.network + (IF "dns_latency" \in c.noted THEN p.latency ELSE 0)
    IN  IF Dropped(c.out, p) \/ elapsed >= timeout
        THEN [error |-> "timeout", rcode |-> 0, cname |-> FALSE, elapsed |-> timeout]
        ELSE [error |-> "none", rcode |-> parseDNSProbeResponse(c.out).rcode,
              cname |-> parseDNSProbeResponse(c.out).cname, elapsed |-> elapsed]

dnsProbeMatchesFailure(t, p, check) ==
    LET answered == check.error = "none"
    IN  CASE t = "dns_nxdomain"       -> answered /\ check.rcode = 3
          [] t = "dns_servfail"       -> answered /\ check.rcode = 2
          [] t = "dns_timeout"        -> ~answered
          [] t = "dns_cname_nxdomain" -> answered /\ check.rcode = 0 /\ check.cname
          [] t = "dns_latency"        -> answered /\ check.rcode = 0 /\ check.elapsed + 1 >= p.latency
          [] t = "dns_ns_unavailable" -> IF p.mode = "servfail" THEN answered /\ check.rcode = 2 ELSE ~answered

\* checkDNSFailureExposure, for one nameserver.
Observable(c, t, p) == dnsProbeMatchesFailure(t, p, probeAuthoritativeDNS(c, t, p))

\* The probe can tell the latency from the network and from no answer: the
\* code has no chance when the latency reaches the control timeout, when it is
\* within a round trip of three seconds, or below its tolerance, and when the
\* network alone takes the second it adds to a long latency.
Measurable(p) ==
    /\ p.network < Second
    /\ p.latency > p.network + 1
    /\ p.control > 0 => p.latency + p.network < p.control
    /\ p.latency < 3 * Second => p.latency + p.network < 3 * Second

\* The exposure probe tells the truth about a name that is served: a DNS
\* failure that was in effect all along, alone and for every query, is
\* recognised, whatever its latency, mode and the control timeout; and when no
\* failure was in effect at any moment, none is recognised.  Otherwise valid
\* runs would be excluded, or runs scored whose failure nobody could see.
ProbeSeesTheFailure ==
    \A w \in Workers : conn[w].pc = "done" /\ conn[w].req \in buildDNSAQuery /\ LookupA(conn[w].req.name) =>
        \A p \in Probes : Measurable(p) =>
            /\ \A s \in span[w].always :
                   s.type \in Injected("dns") /\ s.rate = "every" /\ s.cidrs = {} /\ span[w].ever = {s}
                       => Observable(conn[w], s.type, p)
            /\ span[w].ever = {} => \A t \in Injected("dns") : ~Observable(conn[w], t, p)
=============================================================================
