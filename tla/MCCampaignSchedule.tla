-------------------------- MODULE MCCampaignSchedule --------------------------
(***************************************************************************)
(* Campaign files for CampaignPlan, and an instance of CampaignSchedule:   *)
(* two replays on each of two hosts, those of one host from one design,    *)
(* those of the other from two.                                            *)
(***************************************************************************)
EXTENDS CampaignPlan

CONSTANTS hostA, hostB

MCTargets == {hostA, hostB}
MCAlternating == [d \in Designs |-> IF d = 1 THEN {hostA} ELSE {hostB}]
MCReplays == [d \in Designs |-> IF d = 1 THEN 2 ELSE 1]

Block(t, choices) == [type |-> t, choices |-> choices]
Interval(a, b) == [min |-> a, max |-> b]

\* Three cells, the first of them sampled twice.
Plain ==
    [duration |-> 16, frequency |-> 1, grace |-> 0, cooldown |-> Cooldown, budgets |-> {},
     pool |-> <<hostA, hostB>>, patterns |-> <<"single">>, buckets |-> <<Interval(2, 2)>>,
     types |-> <<Block("tcp_refused", <<>>), Block("dns_servfail", <<>>), Block("http_partial", <<>>)>>,
     samples |-> 1, tiers |-> <<[types |-> {"tcp_refused"}, samples |-> 2], [types |-> {"tcp_refused"}, samples |-> 3]>>,
     escalation |-> {}]

Scheduled == {[Plain EXCEPT !.duration = d] : d \in Durations}

Body(contents) == Block("http_body", [content |-> contents, keyword |-> {"k1", "k2"}])
Header == Block("http_header_status", [status_code |-> {403}, header_name |-> {"X-Probe"}, header_value |-> {"v1", "v2"}])
AnyHeader == Block("http_header_status", [status_code |-> {403}, header_name |-> {"X-Probe"}])
Latency == Block("http_latency", [delay |-> {2, 3}, response_time_threshold |-> {1}, method |-> {"get"}])
Timeout == Block("http_timeout", [delay |-> {5}, phase |-> {"ttfb", "dns"}, response_time_threshold |-> {4}, method |-> {"Head", "POST"}])

Escalating(p, patterns) ==
    {[probability |-> p, stages |-> Interval(2, 3), gap |-> Interval(1, 2), patterns |-> patterns]}

\* Escalations of every shape over failures that share the monitor's settings.
Escalated ==
    {[Plain EXCEPT !.types = <<Body({"keyword_injected", "ransomware", "keyword_missing"}), Header>>, !.tiers = <<>>,
                   !.buckets = <<Interval(1, 3)>>, !.escalation = Escalating(50, {"layered", "replacement", "recovery"})],
     [Plain EXCEPT !.types = <<Latency, Timeout, AnyHeader>>, !.tiers = <<>>, !.pool = <<hostA>>,
                   !.buckets = <<Interval(2, 2), Interval(4, 4)>>, !.escalation = Escalating(100, {"recovery"})],
     [Plain EXCEPT !.escalation = Escalating(0, {})],
     [Plain EXCEPT !.escalation = Escalating(100, {}), !.buckets = <<Interval(5, 5)>>]}

\* Failures whose parameters may be left to the defaults.
Defaulted ==
    {[Plain EXCEPT !.tiers = <<>>, !.pool = <<hostA>>, !.types = ts] :
       ts \in {<<Block("tls_expired", <<>>), Block("tls_invalid", <<>>), Block("tls_handshake", <<>>),
                 Block("tls_deprecated", <<>>), Block("dns_ns_unavailable", <<>>),
                 Block("http_redirect", [variant |-> {"loop", "chain"}]), Body({"empty"})>>,
               <<Block("tls_expired", [days_expired |-> {1, 7}]), Block("tls_expiring", [days_remaining |-> {3}]),
                 Block("tls_invalid", [variant |-> {"self_signed", "hostname_mismatch"}]),
                 Block("tls_handshake", [reason |-> {"version_mismatch", "no_common_cipher"}]),
                 Block("tls_deprecated", [variant |-> {"TLS10", "TLS11"}]),
                 Block("http_status", [status_code |-> {500, 503}]),
                 Block("http_method_status", [status_code |-> {405}, method |-> {"get", "HEAD", "PUT"}])>>}}

\* Files that pass, and whose replays are not all translated.
Incomplete ==
    {[Plain EXCEPT !.tiers = <<>>, !.types = <<Block(t, <<>>)>>] :
        t \in {"http_status", "http_body", "tls_expiring", "dns_latency", "smtp_down"}}
    \cup {[Plain EXCEPT !.patterns = <<"all", "two_random", "single">>]}

\* Files Parse refuses, one for every part of the validation.
Refused ==
    {[Plain EXCEPT !.samples = 0], [Plain EXCEPT !.patterns = <<"two_random">>, !.pool = <<hostA>>],
     [Plain EXCEPT !.buckets = <<Interval(3, 2)>>], [Plain EXCEPT !.tiers = <<[types |-> {"http_body"}, samples |-> 2]>>],
     [Plain EXCEPT !.cooldown = -1], [Plain EXCEPT !.budgets = {-1}], [Plain EXCEPT !.duration = 0],
     [Plain EXCEPT !.escalation = {[e EXCEPT !.stages.min = 1] : e \in Escalating(50, {})}]}
    \cup {[Plain EXCEPT !.tiers = <<>>, !.types = ts] :
            ts \in {<<>>, <<Header, AnyHeader>>, <<Block("http_latency", [delay |-> {2}])>>,
                    <<Block("http_status", [status_code |-> {600}])>>,
                    <<Block("http_body", [content |-> {"keyword_injected"}])>>,
                    <<Block("tls_handshake", [reason |-> {"expired"}])>>,
                    <<Block("http_redirect", [variant |-> {}])>>}}

MCFiles == Scheduled \cup Escalated \cup Defaulted \cup Incomplete \cup Refused
=============================================================================
