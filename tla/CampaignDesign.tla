---------------------------- MODULE CampaignDesign ----------------------------
(***************************************************************************)
(* What a campaign tests: the campaign file and its validation             *)
(* (campaign.go), the designs Generate draws from it (generator.go), the   *)
(* scenario a replay of a design becomes (translate.go), and the scenario  *)
(* file format (scenario.go), which a campaign's replays never pass        *)
(* through although both end in the same target server.                    *)
(*                                                                         *)
(* A campaign is a record of its file's fields.  A [[failure_types]] block *)
(* is [type, choices]: for each parameter it mentions, the values to draw  *)
(* from (one for a field without choices, the instants of delay_range); an *)
(* empty list is the same as none.  Ranges are [min, max]; the probability *)
(* of an escalation is in percent.                                         *)
(***************************************************************************)
EXTENDS Integers, Sequences, FiniteSets, SequencesExt

Given(b, n) == IF n \in DOMAIN b.choices THEN b.choices[n] ELSE {}
Offers(b) == {n \in DOMAIN b.choices : b.choices[n] # {}}

-----------------------------------------------------------------------------
(* The campaign file *)

validateDurationRange(r) == r.min > 0 /\ r.min <= r.max

\* Methods are trimmed and put in upper case; these are the spellings a file
\* may use besides.
Spelling == [get |-> "GET", Head |-> "HEAD"]
normalizeMethodChoices(S) == {IF m \in DOMAIN Spelling THEN Spelling[m] ELSE m : m \in S}

validHTTPMethod == {"GET", "HEAD", "POST", "PUT", "PATCH", "DELETE", "OPTIONS"}

validateVariantChoice(t, v) ==
    CASE t = "http_redirect"  -> v \in {"loop", "chain"}
      [] t = "tls_invalid"    -> v \in {"self_signed", "hostname_mismatch"}
      [] t = "tls_deprecated" -> v \in {"TLS10", "TLS11"}
      [] OTHER -> TRUE

BodyContents == {"empty", "error_page", "keyword_missing", "keyword_injected",
                 "ransomware", "defacement", "malicious_script", "spam_links"}
validateContentChoice(t, v) == t = "http_body" => v \in BodyContents
validateReasonChoice(t, v) == t = "tls_handshake" => v \in {"version_mismatch", "no_common_cipher"}

ValidChoice(t, n, v) ==
    CASE n = "status_code" -> v \in 100..599
      [] n = "method" -> v \in validHTTPMethod
      [] n \in {"days_expired", "days_remaining", "delay", "response_time_threshold"} -> v > 0
      [] n = "variant" -> validateVariantChoice(t, v)
      [] n = "content" -> validateContentChoice(t, v)
      [] n = "reason" -> validateReasonChoice(t, v)
      [] n = "keyword" -> v # ""
      [] n = "header_value" -> t = "http_header_status" => v # ""
      [] OTHER -> TRUE

\* What a block of each type cannot leave out.
RequiredChoices(t) ==
    CASE t = "http_method_status" -> {"status_code", "method"}
      [] t = "http_timeout" -> {"phase", "delay"}
      [] t = "http_latency" -> {"response_time_threshold", "delay"}
      [] t = "http_redirect" -> {"variant"}
      [] t = "http_header_status" -> {"status_code", "header_name"}
      [] OTHER -> {}

validateFailureTypes(types) ==
    /\ types # <<>>
    /\ \A j, k \in DOMAIN types : j # k => types[j].type # types[k].type
    /\ \A b \in Range(types) :
        /\ b.type # ""
        /\ \A n \in DOMAIN b.choices : \A v \in b.choices[n] : ValidChoice(b.type, n, v)
        /\ "delay" \in DOMAIN b.choices => b.choices["delay"] # {}
        /\ RequiredChoices(b.type) \subseteq Offers(b)
        /\ b.type = "http_body" /\ "keyword_injected" \in Given(b, "content") => Given(b, "keyword") # {}

validateTargets(c) ==
    /\ c.pool # <<>> /\ c.patterns # <<>>
    /\ Range(c.patterns) \subseteq {"single", "two_random", "all"}
    /\ "two_random" \in Range(c.patterns) => Len(c.pool) >= 2

validateDurationBuckets(c) == c.buckets # <<>> /\ \A r \in Range(c.buckets) : validateDurationRange(r)

validateSampling(c) ==
    /\ c.samples > 0
    /\ \A t \in Range(c.tiers) : t.samples > 0 /\ t.types # {} /\ t.types \subseteq {b.type : b \in Range(c.types)}

\* A campaign has one escalation block or none.
validateEscalation(e) ==
    /\ e.probability \in 0..100
    /\ e.stages.min >= 2 /\ e.stages.max >= e.stages.min
    /\ validateDurationRange(e.gap)
    /\ e.patterns \subseteq {"layered", "replacement", "recovery"}

DefaultGrace == 3

\* The file with its methods normalised and its defaults filled in.
Normalised(c) ==
    [c EXCEPT
       !.grace = IF @ = 0 THEN DefaultGrace ELSE @,
       !.types = [j \in DOMAIN @ |-> [@[j] EXCEPT !.choices =
                    [n \in DOMAIN @ |-> IF n = "method" THEN normalizeMethodChoices(@[n]) ELSE @[n]]]],
       !.escalation = {[e EXCEPT !.patterns = IF @ = {} THEN {"layered"} ELSE @] : e \in @}]

validate(c) ==
    /\ c.duration > 0 /\ c.frequency > 0 /\ c.grace >= 0
    /\ validateTargets(c)
    /\ validateDurationBuckets(c)
    /\ validateFailureTypes(Normalised(c).types)
    /\ validateSampling(c)
    /\ \A e \in c.escalation : validateEscalation(e)
    /\ c.cooldown >= 0 /\ \A b \in c.budgets : b >= 0

\* What RunCampaign accepts beyond that.
validateCampaignRunnerScope(c) == Range(c.patterns) = {"single"}

-----------------------------------------------------------------------------
(* Drawing the designs.  Each operator is the set of what may be drawn. *)

\* Buckets are listed in the order of their names.
enumerateCells(c) ==
    FlattenSeq([j \in DOMAIN c.types |->
        FlattenSeq([k \in DOMAIN c.buckets |->
            [l \in DOMAIN c.patterns |->
                [block |-> c.types[j], bucket |-> c.buckets[k], pattern |-> c.patterns[l]]]])])

\* The first tier that names the type decides.
SamplesOf(c, t) ==
    LET tiers == SelectSeq(c.tiers, LAMBDA r : t \in r.types)
    IN  IF tiers = <<>> THEN c.samples ELSE Head(tiers).samples

durationIn(r) == r.min..(IF r.max <= r.min THEN r.min ELSE r.max)

pickTargets(pool, pattern) ==
    CASE pattern = "single" -> {<<h>> : h \in Range(pool)}
      [] pattern = "two_random" -> {<<pool[j[1]], pool[j[2]]>> : j \in {s \in [1..2 -> DOMAIN pool] : s[1] # s[2]}}
      [] pattern = "all" -> {pool}

\* One value for every parameter the block offers; a keyword is drawn for
\* injected content only.
pickFailureParams(b) ==
    LET with(n, S) == {p @@ (n :> v) : p \in S, v \in b.choices[n]}
        all == FoldSet(with, {<<>>}, Offers(b) \ {"keyword"})
        injects(p) == "content" \in DOMAIN p /\ p["content"] = "keyword_injected"
    IN  UNION {IF injects(p) /\ Given(b, "keyword") # {}
               THEN {p @@ ("keyword" :> k) : k \in b.choices["keyword"]} ELSE {p} : p \in all}

\* Faulty variant: half of the shortest stage is nothing.
HalfOfAll(d) == d \div 2

halfPositive(d) == IF d <= 1 THEN d ELSE d \div 2

escalationStageDuration(pattern, offsets, k, whole) ==
    LET until == IF pattern # "layered" /\ k < Len(offsets) THEN offsets[k + 1] ELSE whole
    IN  IF pattern = "recovery" THEN halfPositive(until - offsets[k]) ELSE until - offsets[k]

\* n stages, each a gap after the one before; those that would not start
\* within the scenario are left out.
StageOffsets(n, gaps, whole) ==
    LET at(g, k) == SumFunctionOnSet(g, 1..(k - 1))
        within(g) == Cardinality({k \in 1..n : at(g, k) < whole})
    IN  {[k \in 1..within(g) |-> at(g, k)] : g \in [1..(n - 1) -> gaps]}

Draws(b) == {[type |-> b.type, params |-> p] : p \in pickFailureParams(b)}

\* The first stage is of the cell's type, the others of any.
pickEscalation(c, e, block, whole) ==
    LET any == UNION {Draws(b) : b \in Range(c.types)}
        staged(pattern, offsets) ==
            {[k \in DOMAIN offsets |->
                [type |-> s[k].type, params |-> s[k].params, offset |-> offsets[k],
                 duration |-> escalationStageDuration(pattern, offsets, k, whole)]] :
              s \in {r \in [DOMAIN offsets -> any] : r[1] \in Draws(block)}}
        shapes == UNION {StageOffsets(n, durationIn(e.gap), whole) : n \in e.stages.min..e.stages.max}
    IN  UNION {{[pattern |-> p, stages |-> s] : s \in staged(p, offsets)} :
                 p \in e.patterns, offsets \in shapes}

NoEscalation == [pattern |-> "", stages |-> <<>>]

Escalations(c, block, whole) ==
    (IF \A e \in c.escalation : e.probability < 100 THEN {NoEscalation} ELSE {})
    \cup UNION {pickEscalation(c, e, block, whole) : e \in {f \in c.escalation : f.probability > 0}}

generateDesign(c, cell) ==
    UNION {{[targets |-> t, type |-> cell.block.type, duration |-> d, params |-> p, escalation |-> e] :
               t \in pickTargets(c.pool, cell.pattern), p \in pickFailureParams(cell.block),
               e \in Escalations(c, cell.block, d)} : d \in durationIn(cell.bucket)}

\* Designs the report marks: a body stage that injects beside one that does not.
HasMixedContentEscalation(d) ==
    LET contents == {s.params["content"] : s \in {r \in Range(d.escalation.stages) :
                        r.type = "http_body" /\ "content" \in DOMAIN r.params}}
    IN  "keyword_injected" \in contents /\ contents # {"keyword_injected"}

-----------------------------------------------------------------------------
(* The scenario of a replay.  A field that is not set is not in "fields". *)

DNSTypes == {"dns_nxdomain", "dns_servfail", "dns_timeout", "dns_cname_nxdomain", "dns_latency", "dns_ns_unavailable"}
PlainTypes == {"tcp_refused", "tcp_timeout", "dns_nxdomain", "dns_servfail", "dns_timeout", "dns_cname_nxdomain"}

\* The parameters a failure of each type is built from: <<needed, optional>>.
failureFields ==
    [t \in PlainTypes |-> <<{}, {}>>] @@
    [http_status        |-> <<{"status_code"}, {}>>,
     http_method_status |-> <<{"status_code", "method"}, {}>>,
     http_timeout       |-> <<{"phase", "delay"}, {"method"}>>,
     http_latency       |-> <<{"delay"}, {"method"}>>,
     http_header_status |-> <<{"status_code", "header_name"}, {"header_value", "method"}>>,
     http_partial       |-> <<{}, {"method"}>>,
     http_redirect      |-> <<{"variant"}, {"chain_length", "method"}>>,
     http_body          |-> <<{"content"}, {"method"}>>,
     dns_latency        |-> <<{"added_latency"}, {}>>,
     dns_ns_unavailable |-> <<{}, {"mode"}>>,
     tls_expired        |-> <<{}, {"days_expired"}>>,
     tls_expiring       |-> <<{"days_remaining"}, {}>>,
     tls_invalid        |-> <<{}, {"variant"}>>,
     tls_handshake      |-> <<{}, {"reason"}>>,
     tls_deprecated     |-> <<{}, {"variant"}>>]

Translatable(s) == s.type \in DOMAIN failureFields /\ failureFields[s.type][1] \subseteq DOMAIN s.params

failureFrom(s) ==
    LET fields == failureFields[s.type]
    IN  [type |-> s.type, offset |-> s.offset, duration |-> s.duration,
         fields |-> Restrict(s.params, (fields[1] \cup fields[2]) \cap DOMAIN s.params)]

\* A plain design is one stage that lasts as long as the scenario.
StagesOf(d) ==
    IF d.escalation = NoEscalation
    THEN <<[type |-> d.type, params |-> d.params, offset |-> 0, duration |-> 0]>>
    ELSE d.escalation.stages

ValuesOf(stages, n) == {s.params[n] : s \in {r \in Range(stages) : n \in DOMAIN r.params}}
Bodies(stages) == SelectSeq(stages, LAMBDA s : s.type = "http_body")
Injects(stages) == "keyword_injected" \in ValuesOf(Bodies(stages), "content")

CanaryKeyword == "uptime-bench-canary"

\* The one keyword and the one check a scenario has; without a body failure it
\* has none.
applyHTTPBodyDefaults(stages) ==
    LET bodies == Bodies(stages)
        keywords == ValuesOf(bodies, "keyword")
        checks == ValuesOf(bodies, "keyword_check")
    IN  [ok |-> /\ "" \notin keywords /\ Cardinality(keywords) <= 1
                /\ checks \subseteq {"present", "absent"} /\ Cardinality(checks) <= 1
                /\ Injects(stages) => keywords # {},
         keyword |-> IF bodies = <<>> THEN "" ELSE IF keywords = {} THEN CanaryKeyword ELSE CHOOSE k \in keywords : TRUE,
         check |-> IF bodies = <<>> THEN "" ELSE IF checks # {} THEN CHOOSE k \in checks : TRUE
                   ELSE IF Injects(stages) THEN "absent" ELSE "present"]

DefaultHeader == "uptime-bench-campaign"
HeaderOf(f) == IF "header_value" \in DOMAIN f.fields THEN f.fields["header_value"] ELSE DefaultHeader

\* Later stages overwrite the threshold and the headers of earlier ones.
applyScenarioLevelParams(stages, failures) ==
    LET timed == SelectSeq(stages, LAMBDA s : "response_time_threshold" \in DOMAIN s.params)
        header(f, headers) == (f.fields["header_name"] :> HeaderOf(f)) @@ headers
    IN  [fresh |-> \E f \in Range(failures) : f.type \in DNSTypes,
         threshold |-> IF timed = <<>> THEN 0 ELSE Last(timed).params["response_time_threshold"],
         headers |-> FoldLeft(LAMBDA h, f : header(f, h), <<>>,
                              SelectSeq(failures, LAMBDA f : f.type = "http_header_status"))]

NoScenario == [target |-> ""]

ToScenario(d) ==
    LET stages == StagesOf(d)
        body == applyHTTPBodyDefaults(stages)
        failures == [k \in DOMAIN stages |-> failureFrom(stages[k])]
        level == applyScenarioLevelParams(stages, failures)
    IN  IF Len(d.targets) # 1 \/ (\E s \in Range(stages) : ~Translatable(s)) \/ ~body.ok THEN NoScenario
        ELSE [target |-> d.targets[1], duration |-> d.duration, failures |-> failures,
              keyword |-> body.keyword, check |-> body.check,
              fresh |-> level.fresh, threshold |-> level.threshold, headers |-> level.headers]

-----------------------------------------------------------------------------
(* Scenario files *)

\* The fields a failure of each type must have, the values that are allowed,
\* and the values that are filled in.
Field(f, n) == IF n \in DOMAIN f.fields THEN {f.fields[n]} ELSE {}
Has(f, n, S) == Field(f, n) # {} /\ Field(f, n) \subseteq S

validateMethod(f, required) ==
    /\ Field(f, "method") \subseteq {"GET", "HEAD"}
    /\ required => Field(f, "method") # {}

FieldDefaults ==
    [dns_ns_unavailable |-> "mode" :> "silent", tls_expired |-> "days_expired" :> 1,
     tls_invalid |-> "variant" :> "self_signed", tls_handshake |-> "reason" :> "version_mismatch",
     tls_deprecated |-> "variant" :> "TLS11"]

Filled(f) ==
    LET d == IF f.type \in DOMAIN FieldDefaults THEN FieldDefaults[f.type]
             ELSE IF f.type = "http_redirect" /\ Field(f, "variant") = {"chain"} THEN "chain_length" :> 15
             ELSE <<>>
    IN  [f EXCEPT !.fields = @ @@ d]

validateFailureType(f) ==
    LET t == f.type IN
    CASE t = "http_status" -> Has(f, "status_code", 100..599)
      [] t = "http_method_status" -> Has(f, "status_code", 100..599) /\ validateMethod(f, TRUE)
      [] t = "http_timeout" -> validateMethod(f, FALSE) /\ Has(f, "phase", {"ttfb", "body", "total"}) /\ Field(f, "delay") # {}
      [] t = "http_latency" -> validateMethod(f, FALSE) /\ Field(f, "delay") # {}
      [] t = "http_header_status" -> Has(f, "status_code", 100..599) /\ Field(f, "header_name") # {}
      [] t = "http_partial" -> validateMethod(f, FALSE)
      [] t = "http_redirect" -> validateMethod(f, FALSE) /\ Has(f, "variant", {"loop", "chain"})
      [] t = "http_body" -> validateMethod(f, FALSE) /\ Has(f, "content", BodyContents)
      [] t = "dns_latency" -> Field(f, "added_latency") # {}
      [] t = "dns_ns_unavailable" -> Has(Filled(f), "mode", {"silent", "servfail"})
      [] t = "tls_expiring" -> Field(f, "days_remaining") # {}
      [] t = "tls_invalid" -> Has(Filled(f), "variant", {"self_signed", "hostname_mismatch"})
      [] t = "tls_handshake" -> Has(Filled(f), "reason", {"version_mismatch", "no_common_cipher"})
      [] t = "tls_deprecated" -> Has(Filled(f), "variant", {"TLS10", "TLS11"})
      [] OTHER -> t \in PlainTypes \cup {"tls_expired"}

\* A duration that is written down must be positive; 0 stands for none.
validateFailure(f) == f.offset >= 0 /\ f.duration >= 0 /\ validateFailureType(f)

InjectsAny(failures) == \E f \in Range(failures) : f.type = "http_body" /\ Field(f, "content") = {"keyword_injected"}

applyKeywordDefaults(sc) ==
    IF \A f \in Range(sc.failures) : f.type # "http_body" THEN sc
    ELSE [sc EXCEPT !.keyword = IF @ = "" THEN CanaryKeyword ELSE @,
                    !.check = IF @ # "" THEN @ ELSE IF InjectsAny(sc.failures) THEN "absent" ELSE "present"]

Accepts(sc) ==
    /\ sc.failures # <<>> /\ \A f \in Range(sc.failures) : validateFailure(f)
    /\ InjectsAny(sc.failures) => sc.keyword # ""
    /\ sc.check \in {"", "present", "absent"}

\* Parse of a file: what it says with the defaults filled in.
Parsed(sc) == applyKeywordDefaults([sc EXCEPT !.failures = [k \in DOMAIN @ |-> Filled(@[k])]])

-----------------------------------------------------------------------------
(* What the fleet is told and makes of it *)

effectiveFailureDuration(sc, f) == IF f.duration > 0 THEN f.duration ELSE sc.duration

\* The parameters of the activation request.
failureParams(sc, f) ==
    f.fields
    @@ (IF sc.headers # <<>> THEN "request_headers" :> sc.headers ELSE <<>>)
    @@ (IF sc.keyword # "" /\ f.type = "http_body" /\ Field(f, "content") \subseteq {"keyword_missing", "keyword_injected"}
        THEN "keyword" :> sc.keyword ELSE <<>>)

\* The defaults of the TLS listener and of the DNS server; nothing on the
\* target reads chain_length.
HandshakeDefaults == [tls_handshake |-> "reason" :> "version_mismatch", tls_deprecated |-> "variant" :> "TLS11"]
CertificateDefaults == [tls_invalid |-> "variant" :> "self_signed", tls_expired |-> "days_expired" :> 1]
DNSDefaults == [dns_ns_unavailable |-> "mode" :> "silent"]
TargetDefaults == HandshakeDefaults @@ CertificateDefaults @@ DNSDefaults

\* What the target does while the failure is active.
Effect(sc, f) ==
    LET p == failureParams(sc, f) @@ (IF f.type \in DOMAIN TargetDefaults THEN TargetDefaults[f.type] ELSE <<>>)
    IN  [type |-> f.type, from |-> f.offset, for |-> effectiveFailureDuration(sc, f),
         params |-> Restrict(p, DOMAIN p \ {"chain_length"})]

\* A probe with the scenario's headers meets the header the failure asks for.
requiredHeadersMatch(sc, f) ==
    LET name == f.fields["header_name"]
    IN  name \in DOMAIN sc.headers /\ Field(f, "header_value") \subseteq {sc.headers[name]}
=============================================================================
