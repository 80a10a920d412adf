----------------------------- MODULE MCCampaign -----------------------------
(***************************************************************************)
(* An instance of CampaignReport, and so of Campaign, for TLC.             *)
(***************************************************************************)
EXTENDS CampaignReport

CONSTANTS svcA, svcB

\* One service with a budget, one without.
MCServices == {svcA, svcB}
MCBudget == [s \in Services |-> IF s = svcA THEN 1 ELSE 0]

Row(v, status, code, event, latency) ==
    [service |-> v, status |-> status, code |-> code, event |-> event, latency |-> latency]

\* A detection followed by a false alarm; then a service whose DNS was unstable
\* before its alert was retrieved, beside one that lacks a capability.  The
\* earlier execution has a detection and a miss in a cooldown.
MCJournal ==
    [s \in AllSlots |->
        CASE s = 0 -> <<Row(svcA, "known", "", "hit", 2), Row(svcB, "known", "cooldown_suppressed", "quiet", 0)>>
          [] s = 1 -> <<Row(svcA, "known", "", "hit", 3), Row(svcA, "known", "", "noise", 0)>>
          [] OTHER -> <<Row(svcB, "unknown", "capability_mismatch", "quiet", 0),
                        Row(svcA, "unknown", "setup_environment_dns_unstable", "quiet", 0),
                        Row(svcA, "known", "", "hit", 1)>>]
MCLabel == [s \in AllSlots |-> CASE s = 0 -> "http_status" [] s = 1 -> "dns_servfail" [] OTHER -> ""]
MCCategory == [t \in {"http_status", "dns_servfail", "<no_failure>"} |->
                 CASE t = "http_status" -> "http" [] t = "dns_servfail" -> "dns" [] OTHER -> "other"]
\* No insert fails; a detection and the row that says unknown are lost; only
\* that row and a miss are stored.
MCLosses ==
    {[s \in AllSlots |-> {}],
     [s \in AllSlots |-> IF s = 1 THEN {1} ELSE IF s = 2 THEN {2} ELSE {}],
     [s \in AllSlots |-> IF s = 0 THEN {1} ELSE IF s = 2 THEN {1, 3} ELSE {1, 2}]}
MCWatched == {[s \in Slots |-> IF s = N THEN 2 ELSE 0]}
=============================================================================
