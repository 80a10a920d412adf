---------------------------- MODULE MCScenarioRun ----------------------------
(***************************************************************************)
(* Instances of ScenarioRun for TLC.  Failure 1 starts at once and failure *)
(* 2 starts at the instant at which failure 1 ends, so that activation and *)
(* deactivation meet.                                                      *)
(***************************************************************************)
EXTENDS ScenarioRun

CONSTANTS target, ns1, ns2, keyA, keyB, svcA, svcB

Failure(n, dns, members, key) ==
    [dns |-> dns, members |-> members, key |-> key, offset |-> n - 1, duration |-> 1]
Adapter(service, supported, budget) ==
    [service |-> service, supported |-> supported, budget |-> budget]

MCOneAdapter == <<Adapter(svcA, TRUE, 0)>>

\* An HTTP failure on the target, then a DNS failure on two nameservers.
MCMixed ==
    [failures |-> <<Failure(1, FALSE, {target}, keyA), Failure(2, TRUE, {ns1, ns2}, keyB)>>,
     adapters |-> MCOneAdapter, tlsOnly |-> FALSE, maintenance |-> FALSE,
     faults |-> {"control", "late", "cancel"}]

\* One nameserver: enough for dns_servfail, too few for dns_ns_unavailable.
MCShort ==
    [failures |-> <<Failure(1, TRUE, {ns1}, keyA), Failure(2, TRUE, {}, keyB)>>,
     adapters |-> <<Adapter(svcA, TRUE, 0), Adapter(svcB, TRUE, 0)>>,
     tlsOnly |-> FALSE, maintenance |-> FALSE, faults |-> {"db", "control", "cancel"}]

\* Two TLS failures; one service may fail, the second is turned away by a
\* capability gate.
MCTLS ==
    [failures |-> <<Failure(1, FALSE, {target}, keyA), Failure(2, FALSE, {target}, keyB)>>,
     adapters |-> <<Adapter(svcA, TRUE, 0), Adapter(svcB, FALSE, 0)>>,
     tlsOnly |-> TRUE, maintenance |-> FALSE, faults |-> {"adapter", "control", "cancel"}]

\* A scenario that names one service twice and has a maintenance window.
MCRepeat ==
    [failures |-> <<Failure(1, FALSE, {target}, keyA)>>,
     adapters |-> <<Adapter(svcA, TRUE, 1), Adapter(svcA, TRUE, 1)>>,
     tlsOnly |-> FALSE, maintenance |-> TRUE, faults |-> {"db", "control", "cancel"}]

\* A DNS failure on two nameservers with every fault of the harness's own side.
MCWorst ==
    [failures |-> <<Failure(1, TRUE, {ns1, ns2}, keyA)>>,
     adapters |-> MCOneAdapter, tlsOnly |-> FALSE, maintenance |-> FALSE,
     faults |-> FaultKinds \ {"adapter"}]

\* Every service is turned away: nothing is injected.
MCGated ==
    [failures |-> <<Failure(1, FALSE, {target}, keyA)>>,
     adapters |-> <<Adapter(svcA, FALSE, 0), Adapter(svcB, FALSE, 0)>>,
     tlsOnly |-> FALSE, maintenance |-> FALSE, faults |-> {"db", "cancel"}]

MCScenarios == {MCMixed, MCShort, MCTLS, MCRepeat, MCWorst, MCGated}
=============================================================================
