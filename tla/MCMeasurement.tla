---------------------------- MODULE MCMeasurement ----------------------------
(***************************************************************************)
(* Instances of Measurement for TLC.                                       *)
(***************************************************************************)
EXTENDS Measurement, TLC

CONSTANTS f1, f2, f3, a1, a2

MCFailures == {f1, f2, f3}

Plan(t1, t2, t3, traps, delay) ==
    [type |-> [f \in MCFailures |-> IF f = f1 THEN t1 ELSE IF f = f2 THEN t2 ELSE t3],
     traps |-> traps,
     delay |-> [f \in MCFailures |-> IF f = f1 THEN delay ELSE 0]]

\* Two failures of one type and a TLS advisory.
MCAdvised == {Plan("http_status", "http_status", "tls_expiring", {}, 0)}

\* A timeout, which is felt beyond its end, a method trap and an outage; the
\* same with an outage that ends with its window and an advisory.
MCMixed == MCAdvised \cup
    {Plan("http_timeout", "http_method_status", "http_status", {f2}, 1)}

MCAdvisory == {"tls_deprecated", "tls_expiring"}
MCTimes == {0, 3, 5, 7}
MCWindows == {[start |-> 1, end |-> 5], [start |-> 2, end |-> 6]}
MCNoWindows == {}
MCCooldowns == {{}, {"suppressed", "uncertain"}, {"uncertain"}}
MCNoCooldown == {{}}

\* Alerts are told apart by nothing but what they report.
MCSymmetry == Permutations({a1, a2})
=============================================================================
