----------------------------- MODULE FailureSpecs -----------------------------
(***************************************************************************)
(* The vocabulary of the control plane (internal/control/control.go): the  *)
(* failure an /activate request carries, the key that identifies it in a   *)
(* registry, and what a stored failure answers.                            *)
(***************************************************************************)
EXTENDS Naturals, Functions

CONSTANTS
    Types,          \* failure types, e.g. http_status, tcp_refused
    Hosts,          \* virtual hosts
    Paths,          \* URL paths
    Any,            \* the empty string in a host or path field: a wildcard
    Durations,      \* auto-expiry durations a request may carry, 0 included
    Rates,          \* rates a request may carry
    CIDRs,          \* CIDR strings a request may carry
    BadCIDRs,       \* those net.ParseCIDR rejects
    IPs,            \* source addresses of connections
    Covers          \* Covers[c] = the addresses in the range c

ASSUME NamesAssumption ==
    /\ Any \notin Hosts \cup Paths
    /\ BadCIDRs \subseteq CIDRs
    /\ Covers \in [CIDRs -> SUBSET IPs]

ASSUME DurationsAssumption == Durations \subseteq Nat

\* A rate strictly between 0 and 1 gives the entry a random stream ("some");
\* every other value means each request is affected.
ASSUME RatesAssumption == Rates \subseteq {"every", "some"}

Key == Types \X (Hosts \cup {Any}) \X (Paths \cup {Any})

FailureSpec == [type : Types, host : Hosts \cup {Any}, path : Paths \cup {Any},
                duration : Durations, rate : Rates, cidrs : SUBSET CIDRs]

\* A stored failure: the request and the instant after which it is stale.
ActiveFailure == [spec : FailureSpec, expires : Nat]

failureKey(s) == <<s.type, s.host, s.path>>

\* The CIDRs that survive parsing in Set.
nets(af) == af.spec.cidrs \ BadCIDRs

Contains(af, ip) == \E c \in nets(af) : ip \in Covers[c]

\* What a step answers: nothing, or the answer to the query q that it is.
NoReply == [kind |-> "none"]
Miss(q) == [kind |-> "miss", query |-> q]
Hit(q, s) == [kind |-> "hit", query |-> q, spec |-> s]
Listing(S) == [kind |-> "listing", specs |-> S]

\* The answers to q a matched entry allows: one with a random stream may miss.
Rated(q, af) == {Hit(q, af.spec)} \cup (IF af.spec.rate = "some" THEN {Miss(q)} ELSE {})

\* A map without the keys K, and a map in which k holds v.
Without(f, K) == Restrict(f, DOMAIN f \ K)
With(f, k, v) == [j \in DOMAIN f \cup {k} |-> IF j = k THEN v ELSE f[j]]
=============================================================================
