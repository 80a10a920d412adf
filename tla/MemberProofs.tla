----------------------------- MODULE MemberProofs -----------------------------
(***************************************************************************)
(* Proofs about a fleet member, for every set of failure types, hosts,     *)
(* paths, source ranges, goroutines, requests, queries and fleets: what    *)
(* its data planes answer while failures come, go and expire between two   *)
(* questions of the same request.                                          *)
(*                                                                         *)
(* The argument goes from a single question (which failures it is about,   *)
(* what the registry answers) to the whole request: AllTold says that what *)
(* a request has been told so far is right, MemberTypes what its goroutine *)
(* may be doing, QueriesKept what a TXT query still has in the store.      *)
(* MemberInv, their conjunction, is inductive, and the properties follow.  *)
(*                                                                         *)
(* The last part is about the capacity observer: ObserverInv says that a   *)
(* service's total, with the goroutines that still have to add to it,      *)
(* never exceeds the requests its sites place, and that what a summary has *)
(* read so far covers the total it began with.                             *)
(*                                                                         *)
(* The first part is about the registry alone, for every set of types,     *)
(* hosts, paths, source ranges and handlers: it cites no assumption but    *)
(* the registry's own.                                                     *)
(***************************************************************************)
EXTENDS Member, SequenceTheorems, FiniteSetTheorems, TLAPS

-----------------------------------------------------------------------------
(* What the map helpers return *)

LEMMA KeyLemma == ASSUME NEW s \in FailureSpec PROVE failureKey(s) \in Key
BY DEF FailureSpec, failureKey, Key

LEMMA DurationLemma == ASSUME NEW s \in FailureSpec PROVE s.duration \in Nat
BY DurationsAssumption DEF FailureSpec

\* The entries of the map are well formed and filed under their own key.
MapOK(f) ==
    /\ DOMAIN f \subseteq Key
    /\ \A k \in DOMAIN f : /\ f[k] \in ActiveFailure
                           /\ k = failureKey(f[k].spec)

\* Deleting keys keeps the map well formed.
LEMMA WithoutMapOK ==
    ASSUME NEW f, NEW K, MapOK(f)
    PROVE  MapOK(Without(f, K))
BY DEF MapOK, Without, Restrict

\* Storing an entry under its own key keeps the map well formed.
LEMMA WithMapOK ==
    ASSUME NEW f, NEW v \in ActiveFailure, MapOK(f)
    PROVE  MapOK(With(f, failureKey(v.spec), v))
<1> DEFINE g == With(f, failureKey(v.spec), v)
<1>1. failureKey(v.spec) \in Key
  BY KeyLemma DEF ActiveFailure
<1>2. DOMAIN g \subseteq Key
  BY <1>1 DEF MapOK, With
<1>3. ASSUME NEW k \in DOMAIN g
      PROVE  g[k] \in ActiveFailure /\ k = failureKey(g[k].spec)
  <2>1. CASE k = failureKey(v.spec)
    BY <2>1 DEF With
  <2>2. CASE k # failureKey(v.spec)
    BY <1>3, <2>2 DEF MapOK, With
  <2> QED BY <2>1, <2>2
<1> QED BY <1>2, <1>3 DEF MapOK

\* Every step either deletes keys from the map, stores a waiting entry, or
\* leaves the map alone.
LEMMA MapSteps ==
    ASSUME [Next]_vars
    PROVE  \/ \E K : failures' = Without(failures, K) /\ UNCHANGED <<now, setting>>
           \/ \E h \in Handlers : SetCommit(h)
           \/ \E h \in Handlers, s \in FailureSpec : SetBegin(h, s)
           \/ Tick
           \/ UNCHANGED vars
<1>1. ASSUME NEW k \in Key, Remove(k)
      PROVE  \E K : failures' = Without(failures, K) /\ UNCHANGED <<now, setting>>
  BY <1>1 DEF Remove
<1>2. ASSUME Active
      PROVE  \E K : failures' = Without(failures, K) /\ UNCHANGED <<now, setting>>
  BY <1>2 DEF Active
<1>3. ASSUME NEW t, NEW h, NEW p, Lookup(t, h, p)
      PROVE  \E K : failures' = Without(failures, K) /\ UNCHANGED <<now, setting>>
  BY <1>3 DEF Lookup
<1>4. ASSUME NEW ip, LookupForIP(ip)
      PROVE  \E K : failures' = Without(failures, K) /\ UNCHANGED <<now, setting>>
  BY <1>4 DEF LookupForIP
<1> QED BY <1>1, <1>2, <1>3, <1>4 DEF Next

-----------------------------------------------------------------------------
\* The registry keeps its types, and every entry sits under its own key.
THEOREM TypeCorrect == Spec => []TypeOK
<1>1. Init => TypeOK
  BY DEF Init, TypeOK
<1>2. TypeOK /\ [Next]_vars => TypeOK'
  <2> SUFFICES ASSUME TypeOK, [Next]_vars PROVE TypeOK'
    OBVIOUS
  <2>0. MapOK(failures)
    BY DEF TypeOK, MapOK
  <2>1. ASSUME NEW K, failures' = Without(failures, K), UNCHANGED <<now, setting>>
        PROVE  TypeOK'
    <3>1. MapOK(failures')
      BY <2>0, <2>1, WithoutMapOK
    <3> QED BY <2>1, <3>1 DEF TypeOK, MapOK
  <2>2. ASSUME NEW h \in Handlers, SetCommit(h)
        PROVE  TypeOK'
    <3>1. setting[h] \in ActiveFailure
      BY <2>2 DEF SetCommit, TypeOK
    <3>2. MapOK(failures')
      BY <2>0, <2>2, <3>1, WithMapOK DEF SetCommit
    <3>3. setting' \in [Handlers -> ActiveFailure \cup {Idle}] /\ now' = now
      BY <2>2 DEF SetCommit, TypeOK
    <3> QED BY <3>2, <3>3 DEF TypeOK, MapOK
  <2>3. ASSUME NEW h \in Handlers, NEW s \in FailureSpec, SetBegin(h, s)
        PROVE  TypeOK'
    <3>1. s.duration \in Nat
      BY DurationLemma
    <3>2. [spec |-> s, expires |-> now + s.duration] \in ActiveFailure
      BY <3>1 DEF ActiveFailure, TypeOK
    <3> QED BY <2>3, <3>2 DEF SetBegin, TypeOK
  <2>4. CASE Tick
    BY <2>4 DEF Tick, TypeOK
  <2>5. CASE UNCHANGED vars
    BY <2>5 DEF vars, TypeOK
  <2> QED BY <2>1, <2>2, <2>3, <2>4, <2>5, MapSteps
<1> QED BY <1>1, <1>2, PTL DEF Spec

\* No failure, stored or about to be, ends later than its duration from now.
THEOREM OutageBounded == Spec => []BoundedOutage
<1>1. Init => BoundedOutage
  BY DEF Init, BoundedOutage
<1>2. TypeOK /\ BoundedOutage /\ [Next]_vars => BoundedOutage'
  <2> SUFFICES ASSUME TypeOK, BoundedOutage, [Next]_vars PROVE BoundedOutage'
    OBVIOUS
  <2>1. ASSUME NEW K, failures' = Without(failures, K), UNCHANGED <<now, setting>>
        PROVE  BoundedOutage'
    BY <2>1 DEF BoundedOutage, Without, Restrict
  <2>2. ASSUME NEW h \in Handlers, SetCommit(h)
        PROVE  BoundedOutage'
    <3>1. setting[h].expires <= now + setting[h].spec.duration
      BY <2>2 DEF SetCommit, BoundedOutage
    <3>2. \A k \in DOMAIN failures' :
            failures'[k].expires <= now' + failures'[k].spec.duration
      BY <2>2, <3>1 DEF SetCommit, BoundedOutage, With
    <3>3. \A g \in Handlers : setting'[g] # Idle => g # h /\ setting'[g] = setting[g]
      BY <2>2 DEF SetCommit, TypeOK
    <3> QED BY <2>2, <3>2, <3>3 DEF SetCommit, BoundedOutage
  <2>3. ASSUME NEW h \in Handlers, NEW s \in FailureSpec, SetBegin(h, s)
        PROVE  BoundedOutage'
    <3>1. now + s.duration <= now + s.duration
      BY DurationLemma DEF TypeOK
    <3>2. \A g \in Handlers :
            setting'[g] # Idle => setting'[g].expires <= now + setting'[g].spec.duration
      BY <2>3, <3>1 DEF SetBegin, BoundedOutage, TypeOK
    <3> QED BY <2>3, <3>2 DEF SetBegin, BoundedOutage
  <2>4. CASE Tick
    <3>1. ASSUME NEW af \in ActiveFailure, af.expires <= now + af.spec.duration
          PROVE  af.expires <= now' + af.spec.duration
      <4>1. af.spec.duration \in Nat /\ af.expires \in Nat
        BY DurationsAssumption DEF ActiveFailure, FailureSpec
      <4> QED BY <2>4, <3>1, <4>1 DEF Tick, TypeOK
    <3> QED BY <2>4, <3>1 DEF Tick, BoundedOutage, TypeOK
  <2>5. CASE UNCHANGED vars
    BY <2>5 DEF vars, BoundedOutage
  <2> QED BY <2>1, <2>2, <2>3, <2>4, <2>5, MapSteps
<1> QED BY <1>1, <1>2, TypeCorrect, PTL DEF Spec

-----------------------------------------------------------------------------
(* Refinement: lazy expiry implements eager expiry *)

\* The abstract module speaks the same vocabulary.
LEMMA Vocabulary ==
    /\ FW!FailureSpec = FailureSpec /\ FW!Key = Key
    /\ FW!NoReply = NoReply
    /\ \A s : FW!failureKey(s) = failureKey(s)
    /\ \A S : FW!Listing(S) = Listing(S)
    /\ \A q : FW!Miss(q) = Miss(q)
    /\ \A q, af : FW!Rated(q, af) = Rated(q, af)
    /\ \A af, ip : FW!Contains(af, ip) = Contains(af, ip)
    /\ \A f, K : FW!Restrict(f, K) = Restrict(f, K)
    /\ \A f, K : FW!Without(f, K) = Without(f, K)
    /\ \A f, k, v : FW!With(f, k, v) = With(f, k, v)
BY Zenon DEF FailureSpec, FW!FailureSpec, Key, FW!Key, NoReply, FW!NoReply,
       Miss, FW!Miss, failureKey, FW!failureKey, Listing, FW!Listing, Rated, FW!Rated,
       Hit, FW!Hit, Contains, FW!Contains, nets, FW!nets, Restrict, FW!Restrict,
       Without, FW!Without, With, FW!With

\* Pruning stale entries does not change which failures are in effect.
LEMMA PruneInvisible ==
    ASSUME NEW K, K \subseteq Stale, failures' = Without(failures, K), now' = now
    PROVE  live' = live
BY DEF live, Stale, Expired, Without, Restrict

\* The failures in effect are the unexpired entries of the map.
LEMMA LiveEntries ==
    /\ DOMAIN live = DOMAIN failures \ Stale
    /\ \A k \in DOMAIN live : live[k] = failures[k]
BY DEF live, Without, Restrict

\* Storing an entry opens the failure, or closes the one it replaces when the
\* handler was held up past the expiry it computed.
LEMMA CommitOpens ==
    ASSUME TypeOK, BoundedOutage, NEW h \in Handlers, SetCommit(h)
    PROVE  FW!Next
<1> DEFINE af == setting[h]  s == setting[h].spec  k == failureKey(s)
<1>1. af \in ActiveFailure /\ s \in FailureSpec /\ af.expires \in Nat
  BY DEF SetCommit, TypeOK, ActiveFailure
<1>2. af.expires <= now + s.duration
  BY DEF SetCommit, BoundedOutage
<1>3. af = [spec |-> s, expires |-> af.expires]
  BY <1>1 DEF ActiveFailure
<1>4. failures' = With(failures, k, af) /\ now' = now /\ reply' = NoReply
  BY DEF SetCommit
<1>5. CASE af.expires < now
  <2>1. live' = Without(live, {k})
    BY <1>1, <1>4, <1>5 DEF live, Stale, Expired, Without, Restrict, With, TypeOK
  <2>2. FW!Open(s, af.expires)
    BY <1>2, <1>4, <1>5, <2>1, Vocabulary DEF FW!Open
  <2>3. af.expires \in 0..(now + s.duration)
    BY <1>1, <1>2, DurationLemma DEF TypeOK
  <2> QED BY <1>1, <2>2, <2>3, Vocabulary DEF FW!Next
<1>6. CASE ~(af.expires < now)
  <2>1. live' = With(live, k, af)
    BY <1>1, <1>4, <1>6 DEF live, Stale, Expired, Without, Restrict, With, TypeOK
  <2>2. FW!Open(s, af.expires)
    BY <1>2, <1>3, <1>4, <1>6, <2>1, Vocabulary DEF FW!Open
  <2>3. af.expires \in 0..(now + s.duration)
    BY <1>1, <1>2, DurationLemma DEF TypeOK
  <2> QED BY <1>1, <2>2, <2>3, Vocabulary DEF FW!Next
<1> QED BY <1>5, <1>6

\* The entries Lookup considers are the failures that apply to the request.
LEMMA GlobalsApply ==
    ASSUME TypeOK, NEW t, NEW h, NEW p
    PROVE  FW!Applies(t, h, p) = {k \in {candidates(t, h, p)[i] : i \in 1..3} : Global(k)}
<1>1. \A k \in DOMAIN live : k \in Key /\ k = <<k[1], k[2], k[3]>>
  BY LiveEntries DEF TypeOK, Key
<1>2. ASSUME NEW k \in FW!Applies(t, h, p)
      PROVE  k \in {candidates(t, h, p)[i] : i \in 1..3} /\ Global(k)
  <2>1. k \in {<<t, h, p>>, <<t, h, Any>>, <<t, Any, Any>>}
    BY <1>1, <1>2 DEF FW!Applies
  <2>2. Global(k)
    BY <1>2, LiveEntries DEF FW!Applies, Global
  <2> QED BY <2>1, <2>2 DEF candidates
<1>3. ASSUME NEW k \in {candidates(t, h, p)[i] : i \in 1..3}, Global(k)
      PROVE  k \in FW!Applies(t, h, p)
  <2>1. k \in {<<t, h, p>>, <<t, h, Any>>, <<t, Any, Any>>}
    BY <1>3 DEF candidates
  <2>2. k \in DOMAIN live /\ live[k].spec.cidrs = {}
    BY <1>3, LiveEntries DEF Global
  <2> QED BY <2>1, <2>2 DEF FW!Applies
<1> QED BY <1>2, <1>3

\* A lookup is served as FailureWindows says: by the most specific failure.
LEMMA LookupServes ==
    ASSUME TypeOK, NEW t \in Types, NEW h \in Hosts \cup {Any}, NEW p \in Paths \cup {Any},
           Lookup(t, h, p)
    PROVE  FW!Serve(t, h, p)
<1> DEFINE c == candidates(t, h, p)
<1>1. live' = live /\ now' = now
  <2>1. PICK K : K \subseteq Stale /\ failures' = Without(failures, K) /\ now' = now
    BY DEF Lookup
  <2> QED BY <2>1, PruneInvisible
<1>2. CASE (\A i \in 1..3 : ~Global(c[i])) /\ reply' = Miss(<<t, h, p>>)
  <2>1. FW!Applies(t, h, p) = {}
    BY <1>2, GlobalsApply
  <2> QED BY <1>1, <1>2, <2>1, Vocabulary DEF FW!Serve
<1>3. ASSUME NEW i \in 1..3, Global(c[i]), \A j \in 1..(i - 1) : ~Global(c[j]),
             reply' \in Rated(<<t, h, p>>, failures[c[i]])
      PROVE  FW!Serve(t, h, p)
  <2>1. c[i] \in FW!Applies(t, h, p)
    BY <1>3, GlobalsApply
  <2>2. live[c[i]] = failures[c[i]]
    BY <1>3, LiveEntries DEF Global
  <2>3. \A j \in 1..3 : Global(c[j]) => j >= i
    BY <1>3
  <2>4. \A j \in 1..3 : j >= i => FW!AsSpecific(c[i], c[j])
    BY DEF FW!AsSpecific, candidates
  <2>5. \A k \in FW!Applies(t, h, p) : FW!AsSpecific(c[i], k)
    BY <2>3, <2>4, GlobalsApply
  <2> QED BY <1>1, <1>3, <2>1, <2>2, <2>5, Vocabulary DEF FW!Serve
<1> QED BY <1>2, <1>3 DEF Lookup

\* A geo lookup is served as FailureWindows says.
LEMMA LookupForIPServes ==
    ASSUME NEW ip \in IPs, LookupForIP(ip)
    PROVE  FW!ServeIP(ip)
<1>1. live' = live /\ now' = now
  <2>1. PICK K : K \subseteq Stale /\ failures' = Without(failures, K) /\ now' = now
    BY DEF LookupForIP
  <2> QED BY <2>1, PruneInvisible
<1>2. CASE (\A k \in DOMAIN failures \ Stale : ~Contains(failures[k], ip)) /\ reply' = Miss(ip)
  BY <1>1, <1>2, LiveEntries, Vocabulary DEF FW!ServeIP
<1>3. ASSUME NEW k \in DOMAIN failures \ Stale, Contains(failures[k], ip),
             reply' \in Rated(ip, failures[k])
      PROVE  FW!ServeIP(ip)
  BY <1>1, <1>3, LiveEntries, Vocabulary DEF FW!ServeIP
<1> QED BY <1>2, <1>3 DEF LookupForIP

\* Every step of the registry is a step of FailureWindows or leaves it alone.
LEMMA StepRefines ==
    ASSUME TypeOK, BoundedOutage, [Next]_vars
    PROVE  [FW!Next]_(FW!vars)
<1>1. ASSUME NEW h \in Handlers, NEW s \in FailureSpec, SetBegin(h, s)
      PROVE  FW!Receive
  BY <1>1, Vocabulary DEF SetBegin, FW!Receive, live, Stale, Expired
<1>2. ASSUME NEW k \in Key, Remove(k)
      PROVE  FW!Close(k)
  <2>1. live' = Without(live, {k})
    BY <1>2 DEF Remove, live, Stale, Expired, Without, Restrict
  <2> QED BY <1>2, <2>1, Vocabulary DEF Remove, FW!Close
<1>3. ASSUME Active
      PROVE  FW!List
  <2>1. live' = live
    BY <1>3, PruneInvisible DEF Active
  <2>2. {failures[k].spec : k \in DOMAIN failures \ Stale} = {live[k].spec : k \in DOMAIN live}
    BY LiveEntries
  <2> QED BY <1>3, <2>1, <2>2, Vocabulary DEF Active, FW!List
<1>4. ASSUME Tick
      PROVE  FW!Tick
  <2>1. live' = Restrict(live, {k \in DOMAIN live : live[k].expires >= now + 1})
    BY <1>4 DEF Tick, live, Stale, Expired, Without, Restrict, TypeOK, ActiveFailure
  <2> QED BY <1>4, <2>1, Vocabulary DEF Tick, FW!Tick
<1>5. CASE UNCHANGED vars
  BY <1>5 DEF vars, FW!vars, live, Stale, Expired
<1>6. ASSUME NEW h \in Handlers, SetCommit(h)
      PROVE  FW!Next
  BY <1>6, CommitOpens
<1> QED BY <1>1, <1>2, <1>3, <1>4, <1>5, <1>6, LookupServes, LookupForIPServes, Vocabulary
        DEF Next, FW!Next

\* The registry implements FailureWindows: although it prunes entries only when
\* a call walks over them, no caller ever sees a failure past its expiry.
THEOREM RegistryImplementsWindows == Spec => ImplementsWindows
<1>1. Init => FW!Init
  BY Vocabulary DEF Init, FW!Init, live, Without, Restrict, Stale
<1> QED BY <1>1, StepRefines, TypeCorrect, OutageBounded, PTL
        DEF Spec, ImplementsWindows, FW!Spec

-----------------------------------------------------------------------------
(***************************************************************************)
(* A member on top of its registry                                         *)
(***************************************************************************)

-----------------------------------------------------------------------------
(* What a request is asked about *)

\* The types whose hit is only noted, and those that make the client wait.
Noted == {"dns_latency", "tls_deprecated"}
Waiting == {"http_timeout", "http_latency"}

\* The host and the path a question about type t carries.
AskedHost(t, r) == IF t \in {"tcp_refused"} \cup Injected("dns") THEN Any
                   ELSE IF t = "tcp_timeout" THEN r.peek ELSE r.host
AskedPath(t, r) == IF t \in HTTPFailures THEN r.path ELSE Any

\* A question a request of r's kind is meant to be asked.
QuestionOK(q, r) ==
    /\ q.type = "geo" => r.kind = "http" /\ q.then = "stop"
    /\ q.type # "geo" =>
         /\ q.type \in Injected(r.kind)
         /\ q.host = AskedHost(q.type, r) /\ q.path = AskedPath(q.type, r)
         /\ q.then = IF q.type \in Noted THEN "note" ELSE "stop"

\* Requests of a kind the member serves; only a query that does not parse is
\* not asked about everything.
KindOK(r) ==
    /\ r.kind \in {"http", "kept", "https", "tls", "dns"}
    /\ "geo" \notin r.misses
    /\ r.kind = "dns" => r.misses = IF r.qtype = "garbled" THEN {"dns_nxdomain", "dns_cname_nxdomain"} ELSE {}

\* A function on 1..n is a sequence of length n.
LEMMA FunctionIsSequence ==
    ASSUME NEW S, NEW n \in Nat, NEW f \in [1..n -> S]
    PROVE  f \in Seq(S) /\ Len(f) = n
OBVIOUS

\* A question about an HTTP type is one an HTTP request is meant to be asked.
LEMMA HTTPQuestionOK ==
    ASSUME NEW r, r.kind \in {"http", "kept", "https"}, NEW q, q.type \in HTTPFailures, q.host = r.host,
           q.path = r.path, q.then = "stop"
    PROVE  QuestionOK(q, r)
<1>1. /\ HTTPFailures \cap ({"tcp_refused", "tcp_timeout", "geo"} \cup Injected("dns") \cup Noted) = {}
      /\ HTTPFailures \subseteq Injected(r.kind)
  BY DEF HTTPFailures, Injected, Noted
<1>2. q.type # "geo" /\ q.type \in Injected(r.kind) /\ q.type \notin Noted
      /\ q.type \notin {"tcp_refused", "tcp_timeout"} \cup Injected("dns")
  BY <1>1
<1> QED BY <1>2 DEF QuestionOK, AskedHost, AskedPath

\* b lists the questions of HTTP, one per type.
HTTPList(b, r) ==
    /\ Len(b) = 8 /\ b \in Seq({Check(t, r.host, r.path) : t \in HTTPFailures})
    /\ \A i \in 1..8 : /\ b[i].type \in HTTPFailures /\ b[i].host = r.host
                       /\ b[i].path = r.path /\ b[i].then = "stop"
    /\ \A t \in HTTPFailures : \E i \in 1..8 : b[i].type = t

\* ServeHTTP asks about every HTTP type.
LEMMA HTTPQuestions == ASSUME NEW r PROVE HTTPList(ServeHTTP(r), r)
<1> DEFINE f == ServeHTTP(r)
<1>0. DOMAIN HTTPTypes = 1..8
  BY DEF HTTPTypes
<1>1. f = [i \in 1..8 |-> Check(HTTPTypes[i], r.host, r.path)]
  BY <1>0 DEF ServeHTTP
<1>2. \A i \in 1..8 : HTTPTypes[i] \in HTTPFailures
  BY DEF HTTPTypes, HTTPFailures
<1>3. \A t \in HTTPFailures : \E i \in 1..8 : HTTPTypes[i] = t
  <2>1. /\ HTTPTypes[1] = "http_method_status" /\ HTTPTypes[2] = "http_status"
        /\ HTTPTypes[3] = "http_timeout" /\ HTTPTypes[4] = "http_latency"
        /\ HTTPTypes[5] = "http_header_status" /\ HTTPTypes[6] = "http_partial"
        /\ HTTPTypes[7] = "http_body" /\ HTTPTypes[8] = "http_redirect"
    BY DEF HTTPTypes
  <2>2. {1, 2, 3, 4, 5, 6, 7, 8} \subseteq 1..8
    OBVIOUS
  <2> QED BY <2>1, <2>2 DEF HTTPFailures
<1>4. f \in [1..8 -> {Check(t, r.host, r.path) : t \in HTTPFailures}]
  BY <1>1, <1>2
<1>5. f \in Seq({Check(t, r.host, r.path) : t \in HTTPFailures}) /\ Len(f) = 8
  <2> DEFINE S == {Check(t, r.host, r.path) : t \in HTTPFailures}
  <2> HIDE DEF f, S
  <2>1. f \in [1..8 -> S] => f \in Seq(S) /\ Len(f) = 8
    BY FunctionIsSequence
  <2> QED BY <1>4, <2>1 DEF S
<1> QED BY <1>1, <1>2, <1>3, <1>5 DEF Check, HTTPList

\* Where the elements of a concatenation come from.
Joined(a, b, c) ==
    /\ Len(c) = 11
    /\ \A i \in 1..3 : c[i] = a[i]
    /\ \A i \in 4..11 : c[i] = b[i - 3]

\* Three questions and then eight make eleven.
LEMMA Concatenated ==
    ASSUME NEW S, NEW a \in Seq(S), NEW b \in Seq(S), Len(a) = 3, Len(b) = 8, NEW c, c = a \o b
    PROVE  Joined(a, b, c)
<1>1. /\ Len(a \o b) = Len(a) + Len(b)
      /\ \A i \in 1..Len(a) + Len(b) : (a \o b)[i] = IF i <= Len(a) THEN a[i] ELSE b[i - Len(a)]
  BY ConcatProperties, Zenon
<1>2. Len(c) = 3 + 8 /\ \A i \in 1..3 + 8 : c[i] = IF i <= 3 THEN a[i] ELSE b[i - 3]
  BY <1>1, Zenon
<1>3. Len(c) = 11
  BY <1>2
<1>4. ASSUME NEW i \in 1..3 PROVE c[i] = a[i]
  <2>1. i \in 1..3 + 8 /\ i <= 3
    OBVIOUS
  <2> QED BY <1>2, <2>1, Zenon
<1>5. ASSUME NEW i \in 4..11 PROVE c[i] = b[i - 3]
  <2>1. i \in 1..3 + 8 /\ ~(i <= 3)
    OBVIOUS
  <2> QED BY <1>2, <2>1, Zenon
<1> QED BY <1>3, <1>4, <1>5 DEF Joined

\* The list c asks about each of the types a request r is meant to meet.
ChecksOK(c, r) ==
    /\ Len(c) \in Nat \ {0}
    /\ \A i \in 1..Len(c) : QuestionOK(c[i], r)
    /\ r.kind = "http" => \E i \in 1..Len(c) : c[i].type = "geo"
    /\ \A t \in Injected(r.kind) \ r.misses : \E i \in 1..Len(c) : c[i].type = t

\* Every request is asked about each of the types it is meant to meet, with
\* the host and the path of AskedHost and AskedPath.
LEMMA CheckFacts == ASSUME NEW r, KindOK(r) PROVE ChecksOK(Checks(r), r)
<1>a. PICK c : c = Checks(r)
  OBVIOUS
<1>b. PICK b : b = ServeHTTP(r) /\ HTTPList(b, r)
  BY HTTPQuestions
<1>c. r.kind \in {"http", "kept", "https"} => \A i \in 1..8 : QuestionOK(b[i], r)
  BY <1>b, HTTPQuestionOK DEF HTTPList
<1>d. Len(b) = 8 /\ \A t \in HTTPFailures : \E i \in 1..8 : b[i].type = t
  BY <1>b DEF HTTPList
<1>1. ASSUME r.kind \in {"kept", "https"} PROVE ChecksOK(c, r)
  <2>1. c = b /\ Injected(r.kind) = HTTPFailures
    BY <1>1, <1>a, <1>b DEF Checks, Injected
  <2>2. Len(c) = 8 /\ (\A i \in 1..8 : QuestionOK(c[i], r))
        /\ (\A t \in Injected(r.kind) \ r.misses : \E i \in 1..8 : c[i].type = t)
    BY <1>1, <1>c, <1>d, <2>1, Zenon
  <2> QED BY <1>1, <2>2 DEF ChecksOK
<1>2. ASSUME r.kind = "http" PROVE ChecksOK(c, r)
  <2>0. PICK a : a = TCPChecks(r)
    OBVIOUS
  <2>1. c = a \o b /\ Injected(r.kind) = HTTPFailures \cup {"tcp_refused", "tcp_timeout"}
    BY <1>2, <1>a, <1>b, <2>0 DEF Checks, Injected
  <2>2. /\ a[1] = Check("geo", Any, Any) /\ a[2] = Check("tcp_refused", Any, Any)
        /\ a[3] = Check("tcp_timeout", r.peek, Any)
        /\ Len(a) = 3 /\ a \in Seq({a[1], a[2], a[3]})
    BY <2>0 DEF TCPChecks
  <2>3. Len(c) = 11 /\ (\A i \in 1..3 : c[i] = a[i]) /\ (\A i \in 4..11 : c[i] = b[i - 3])
    <3>1. PICK A, B : A = {a[1], a[2], a[3]} /\ B = {Check(t, r.host, r.path) : t \in HTTPFailures}
      OBVIOUS
    <3>2. a \in Seq(A) /\ b \in Seq(B)
      BY <1>b, <2>2, <3>1, Zenon DEF HTTPList
    <3>3. a \in Seq(A \cup B) /\ b \in Seq(A \cup B)
      BY <3>2
    <3>4. Len(a) = 3 /\ Len(b) = 8 /\ c = a \o b
      BY <1>d, <2>1, <2>2
    <3>5. PICK U : a \in Seq(U) /\ b \in Seq(U)
      BY <3>3
    <3>6. Joined(a, b, c)
      BY <3>4, <3>5, Concatenated, Zenon
    <3> QED BY <3>6 DEF Joined
  <2>5. \A i \in 1..3 : QuestionOK(a[i], r)
    <3>1. QuestionOK(a[1], r)
      BY <1>2, <2>2 DEF QuestionOK, Check
    <3>2. QuestionOK(a[2], r)
      BY <1>2, <2>1, <2>2 DEF QuestionOK, Check, AskedHost, AskedPath, HTTPFailures, Noted
    <3>3. QuestionOK(a[3], r)
      BY <1>2, <2>1, <2>2 DEF QuestionOK, Check, AskedHost, AskedPath, HTTPFailures, Noted, Injected
    <3> QED BY <3>1, <3>2, <3>3
  <2>7. \A i \in 1..11 : QuestionOK(c[i], r)
    <3> SUFFICES ASSUME NEW i \in 1..11 PROVE QuestionOK(c[i], r)
      OBVIOUS
    <3>1. i \in 1..3 \/ (i \in 4..11 /\ i - 3 \in 1..8)
      OBVIOUS
    <3> QED BY <1>2, <1>c, <3>1, <2>3, <2>5
  <2>8. \A t \in HTTPFailures : \E i \in 1..11 : c[i].type = t
    <3> SUFFICES ASSUME NEW t \in HTTPFailures PROVE \E i \in 1..11 : c[i].type = t
      OBVIOUS
    <3>1. PICK j \in 1..8 : b[j].type = t
      BY <1>d
    <3>2. j + 3 \in 1..11 /\ c[j + 3] = b[j]
      BY <2>3
    <3> QED BY <3>1, <3>2
  <2>9. c[1].type = "geo" /\ c[2].type = "tcp_refused" /\ c[3].type = "tcp_timeout"
    BY <2>3, <2>2 DEF Check
  <2>10. \A t \in Injected(r.kind) : \E i \in 1..11 : c[i].type = t
    <3>1. 1 \in 1..11 /\ 2 \in 1..11 /\ 3 \in 1..11
      OBVIOUS
    <3> QED BY <2>1, <2>8, <2>9, <3>1, Zenon
  <2> QED BY <1>2, <2>3, <2>7, <2>9, <2>10 DEF ChecksOK
<1>3. ASSUME r.kind = "tls" PROVE ChecksOK(c, r)
  <2>1. /\ c = TLSChecks(r) /\ HTTPFailures \cap Injected("tls") = {} /\ Len(c) = 5
        /\ c[1] = Check("tls_handshake", r.host, Any) /\ c[2] = Remark("tls_deprecated", r.host, Any)
        /\ c[3] = Check("tls_invalid", r.host, Any) /\ c[4] = Check("tls_expired", r.host, Any)
        /\ c[5] = Check("tls_expiring", r.host, Any)
    BY <1>3, <1>a DEF Checks, TLSChecks, HTTPFailures, Injected
  <2>2. Injected(r.kind) = {"tls_handshake", "tls_deprecated", "tls_invalid", "tls_expired", "tls_expiring"}
    BY <1>3 DEF Injected
  <2>3. \A i \in 1..5 : QuestionOK(c[i], r)
    BY <1>3, <2>1, <2>2 DEF QuestionOK, Check, Remark, AskedHost, AskedPath, Noted, Injected
  <2>4. \A t \in Injected(r.kind) : \E i \in 1..5 : c[i].type = t
    <3>1. {1, 2, 3, 4, 5} \subseteq 1..5
      OBVIOUS
    <3> QED BY <2>1, <2>2, <3>1 DEF Check, Remark
  <2> QED BY <1>3, <2>1, <2>3, <2>4 DEF ChecksOK
<1>4. ASSUME r.kind = "dns" PROVE ChecksOK(c, r)
  <2> DEFINE n == IF r.qtype = "garbled" THEN 4 ELSE 6
  <2>1. /\ Len(c) = n /\ HTTPFailures \cap Injected("dns") = {}
        /\ c[1] = Check("dns_timeout", Any, Any) /\ c[2] = Remark("dns_latency", Any, Any)
        /\ c[3] = Check("dns_servfail", Any, Any) /\ c[4] = Check("dns_ns_unavailable", Any, Any)
        /\ n = 6 => c[5] = Check("dns_nxdomain", Any, Any) /\ c[6] = Check("dns_cname_nxdomain", Any, Any)
    BY <1>4, <1>a DEF Checks, BuildResponse, HTTPFailures, Injected
  <2>2. Injected(r.kind) = {"dns_timeout", "dns_latency", "dns_servfail", "dns_ns_unavailable",
                            "dns_nxdomain", "dns_cname_nxdomain"}
    BY <1>4 DEF Injected
  <2>3. \A i \in 1..n : QuestionOK(c[i], r)
    BY <1>4, <2>1, <2>2 DEF QuestionOK, Check, Remark, AskedHost, AskedPath, Noted, Injected
  <2>4. \A t \in Injected(r.kind) \ r.misses : \E i \in 1..n : c[i].type = t
    BY <1>4, <2>1, <2>2 DEF Check, Remark, KindOK
  <2> QED BY <1>4, <2>1, <2>3, <2>4 DEF ChecksOK
<1> QED BY <1>a, <1>1, <1>2, <1>3, <1>4 DEF KindOK

-----------------------------------------------------------------------------
(* What a question finds *)

\* The failures in effect.
InEffect == {live[k].spec : k \in DOMAIN live}

Addressed(s) ==
    /\ s \in FailureSpec
    /\ \E h \in Hosts, p \in Paths \cup {Any} : <<s.host, s.path>> = targetHostPathForFailure(h, p, s.type)

\* s answers the question q of a request r.
Answers(s, q, r) ==
    IF q.type = "geo" THEN Geo(s, r)
    ELSE s.cidrs = {} /\ failureKey(s) \in {<<q.type, q.host, q.path>>, <<q.type, q.host, Any>>, <<q.type, Any, Any>>}

\* A hit and a miss are answers the failures in E allow.
Fair(hit, E, q, r) ==
    /\ hit => \E s \in E : Answers(s, q, r)
    /\ ~hit => \A s \in E : Answers(s, q, r) => \E u \in E : Answers(u, q, r) /\ u.rate # "every"

\* The failures in effect are those of the entries, each under its own key.
LEMMA InEffectFacts ==
    ASSUME TypeOK
    PROVE  /\ \A s \in InEffect : failureKey(s) \in DOMAIN live /\ live[failureKey(s)].spec = s
           /\ \A k \in DOMAIN live : live[k].spec \in InEffect /\ failureKey(live[k].spec) = k
                                     /\ live[k].spec \in FailureSpec
BY LiveEntries DEF InEffect, TypeOK, ActiveFailure

\* What Lookup answers, and that it changes no failure in effect.
LEMMA LookupIsFair ==
    ASSUME TypeOK, NEW q, q.type # "geo", NEW r, Lookup(q.type, q.host, q.path)
    PROVE  InEffect' = InEffect /\ Fair(reply'.kind = "hit", InEffect, q, r)
<1> DEFINE c == candidates(q.type, q.host, q.path)
<1>1. live' = live
  <2>1. PICK K : K \subseteq Stale /\ failures' = Without(failures, K) /\ now' = now
    BY DEF Lookup
  <2> QED BY <2>1, PruneInvisible
<1>2. \A i \in 1..3 : Global(c[i]) =>
         live[c[i]].spec \in InEffect /\ Answers(live[c[i]].spec, q, r) /\ live[c[i]] = failures[c[i]]
  <2>1. \A i \in 1..3 : c[i] \in {<<q.type, q.host, q.path>>, <<q.type, q.host, Any>>, <<q.type, Any, Any>>}
    BY DEF candidates
  <2> HIDE DEF c
  <2>2. \A i \in 1..3 : Global(c[i]) => c[i] \in DOMAIN live /\ live[c[i]] = failures[c[i]] /\ live[c[i]].spec.cidrs = {}
    BY LiveEntries DEF Global
  <2> QED BY <2>1, <2>2, InEffectFacts DEF Answers
<1>3. ASSUME NEW s \in InEffect, Answers(s, q, r)
      PROVE  \E i \in 1..3 : Global(c[i])
  <2>1. failureKey(s) \in DOMAIN live /\ live[failureKey(s)].spec = s /\ s.cidrs = {}
    BY <1>3, InEffectFacts DEF Answers
  <2>2. Global(failureKey(s))
    BY <2>1, LiveEntries DEF Global
  <2>3. \E i \in 1..3 : c[i] = failureKey(s)
    BY <1>3 DEF Answers, candidates
  <2> QED BY <2>2, <2>3
<1>4. CASE (\A i \in 1..3 : ~Global(c[i])) /\ reply' = Miss(<<q.type, q.host, q.path>>)
  <2>1. reply'.kind # "hit"
    BY <1>4 DEF Miss
  <2> QED BY <1>1, <1>3, <1>4, <2>1 DEF Fair, InEffect
<1>5. ASSUME NEW i \in 1..3, Global(c[i]), reply' \in Rated(<<q.type, q.host, q.path>>, failures[c[i]])
      PROVE  InEffect' = InEffect /\ Fair(reply'.kind = "hit", InEffect, q, r)
  <2>1. reply'.kind # "hit" => live[c[i]].spec.rate # "every"
    BY <1>2, <1>5 DEF Rated, Hit, Miss
  <2> QED BY <1>1, <1>2, <1>5, <2>1 DEF Fair, InEffect
<1> QED BY <1>4, <1>5 DEF Lookup

\* The same of LookupForIP.
LEMMA LookupForIPIsFair ==
    ASSUME TypeOK, NEW q, q.type = "geo", NEW r, r.kind = "http", LookupForIP(r.ip)
    PROVE  InEffect' = InEffect /\ Fair(reply'.kind = "hit", InEffect, q, r)
<1>1. live' = live
  <2>1. PICK K : K \subseteq Stale /\ failures' = Without(failures, K) /\ now' = now
    BY DEF LookupForIP
  <2> QED BY <2>1, PruneInvisible
<1>2. \A k \in DOMAIN failures \ Stale :
         /\ live[k].spec \in InEffect /\ live[k] = failures[k]
         /\ Contains(failures[k], r.ip) => Answers(live[k].spec, q, r)
  BY LiveEntries, InEffectFacts DEF Answers, Geo, Contains, nets
<1>3. ASSUME NEW s \in InEffect, Answers(s, q, r)
      PROVE  \E k \in DOMAIN failures \ Stale : Contains(failures[k], r.ip)
  BY <1>3, LiveEntries DEF InEffect, Answers, Geo, Contains, nets
<1>4. CASE (\A k \in DOMAIN failures \ Stale : ~Contains(failures[k], r.ip)) /\ reply' = Miss(r.ip)
  <2>1. reply'.kind # "hit"
    BY <1>4 DEF Miss
  <2> QED BY <1>1, <1>3, <1>4, <2>1 DEF Fair, InEffect
<1>5. ASSUME NEW k \in DOMAIN failures \ Stale, Contains(failures[k], r.ip), reply' \in Rated(r.ip, failures[k])
      PROVE  InEffect' = InEffect /\ Fair(reply'.kind = "hit", InEffect, q, r)
  <2>1. reply'.kind # "hit" => live[k].spec.rate # "every"
    BY <1>2, <1>5 DEF Rated, Hit, Miss
  <2> QED BY <1>1, <1>2, <1>5, <2>1 DEF Fair, InEffect
<1> QED BY <1>4, <1>5 DEF LookupForIP

\* A failure that answers a question about a type is about the request, and the
\* other way round when it is addressed as the runner addresses it.
LEMMA AnswersAbout ==
    ASSUME NEW r, KindOK(r), NEW q, QuestionOK(q, r), q.type # "geo", q.type \notin r.misses, NEW s
    PROVE  /\ Answers(s, q, r) => s.type = q.type /\ s.cidrs = {} /\ About(s, r)
           /\ Addressed(s) /\ s.cidrs = {} /\ s.type = q.type /\ About(s, r) => Answers(s, q, r)
<1> DEFINE t == q.type
<1>1. t \in Injected(r.kind) /\ q.host = AskedHost(t, r) /\ q.path = AskedPath(t, r)
  BY DEF QuestionOK
<1>2. ASSUME Answers(s, q, r) PROVE s.type = t /\ s.cidrs = {} /\ About(s, r)
  <2>1. s.cidrs = {} /\ s.type = t /\ s.host \in {Any, q.host} /\ s.path \in {Any, q.path}
    BY <1>2 DEF Answers, failureKey
  <2>2. s.host \in {Any, IF t = "tcp_timeout" THEN r.peek ELSE r.host} /\ s.path \in {Any, r.path}
    BY <1>1, <2>1 DEF AskedHost, AskedPath
  <2> QED BY <1>1, <2>1, <2>2 DEF About
<1>3. ASSUME Addressed(s), s.cidrs = {}, s.type = t, About(s, r) PROVE Answers(s, q, r)
  <2>1. s.host \in {Any, IF t = "tcp_timeout" THEN r.peek ELSE r.host} /\ s.path \in {Any, r.path}
    BY <1>3 DEF About, Geo
  <2>2. PICK h \in Hosts, p \in Paths \cup {Any} : <<s.host, s.path>> = targetHostPathForFailure(h, p, t)
    BY <1>3 DEF Addressed
  <2>3. h # Any
    BY NamesAssumption
  <2>4. CASE t \in {"tcp_refused"} \cup Injected("dns")
    <3>1. targetHostPathForFailure(h, p, t) = <<Any, Any>>
      <4>1. ({"tcp_refused"} \cup Injected("dns")) \cap ({"tcp_timeout"} \cup Injected("tls")) = {}
        BY DEF Injected
      <4> QED BY <2>4, <4>1 DEF targetHostPathForFailure
    <3>2. s.host = Any /\ s.path = Any
      BY <2>2, <3>1
    <3> QED BY <1>3, <3>2 DEF Answers, failureKey
  <2>5. CASE t \notin {"tcp_refused"} \cup Injected("dns")
    <3>1. q.host = IF t = "tcp_timeout" THEN r.peek ELSE r.host
      BY <1>1, <2>5 DEF AskedHost
    <3>2. CASE t \in {"tcp_timeout"} \cup Injected("tls")
      <4>1. s.path = Any
        BY <2>2, <2>5, <3>2 DEF targetHostPathForFailure
      <4> QED BY <1>3, <2>1, <3>1, <4>1 DEF Answers, failureKey
    <3>3. CASE t \notin {"tcp_timeout"} \cup Injected("tls")
      <4>1. s.host = h
        BY <2>2, <2>5, <3>3 DEF targetHostPathForFailure
      <4>2. t \in HTTPFailures
        BY <1>1, <2>5, <3>3 DEF Injected, KindOK
      <4>3. q.path = r.path
        BY <1>1, <4>2 DEF AskedPath
      <4> QED BY <1>3, <2>1, <2>3, <3>1, <4>1, <4>3 DEF Answers, failureKey
    <3> QED BY <3>2, <3>3
  <2> QED BY <2>4, <2>5
<1> QED BY <1>2, <1>3

-----------------------------------------------------------------------------
(* What a request has been told so far *)

Shape(c) == c = [pc |-> c.pc, req |-> c.req, at |-> c.at, noted |-> c.noted, out |-> c.out]

\* The answer of an exposure probe is out.
Probed(c) == c.pc = "done" /\ c.req \in buildDNSAQuery /\ LookupA(c.req.name)
Watched(c) == c.pc \in {"ask", "end"} \/ Probed(c)

\* What a request was failed or degraded by was in effect.
Justified(c, sp) ==
    /\ \A t \in (c.noted \cup {c.out}) \cap Injected(c.req.kind) :
         \E s \in sp.ever : s.type = t /\ s.cidrs = {} /\ About(s, c.req)
    /\ c.out = "geo" => \E s \in sp.ever : Geo(s, c.req)

Outcomes(c) ==
    /\ c.noted \subseteq Noted
    /\ c.out \in {"ok", "geo", "gone", "address"} \cup (Injected(c.req.kind) \ Noted)
    /\ c.pc = "ask" => c.out = "ok"
    /\ c.pc = "done" => c.out # "ok"
    /\ c.pc = "end" => c.out # "address"
    /\ c.out \in {"geo", "gone"} => c.req.kind \in {"http", "kept", "https"}

\* The request should notice s.
Owed(s, sp, r) == About(s, r) /\ s.rate = "every" /\ \A u \in sp.ever : Rival(u, s, r) => u = s

\* The type of the question that finds s.
FoundBy(s, r) == IF Geo(s, r) THEN "geo" ELSE s.type

\* Questions asked so far did not pass over a failure that should be noticed.
Noticed(c, sp) ==
    c.out \in {"ok", "address"} => \A s \in sp.always :
        /\ Owed(s, sp, c.req)
        /\ c.pc = "ask" => \E i \in 1..(c.at - 1) : Checks(c.req)[i].type = FoundBy(s, c.req)
        => s.type \in c.noted

Told(c, sp) == Watched(c) => Justified(c, sp) /\ Outcomes(c) /\ Noticed(c, sp)

\* What a request was told stays right as failures come and go.
LEMMA TimePasses ==
    ASSUME NEW c, NEW sp, NEW sp2, sp.ever \subseteq sp2.ever, sp2.always \subseteq sp.always, Told(c, sp)
    PROVE  Told(c, sp2)
<1> SUFFICES ASSUME Watched(c) PROVE Justified(c, sp2) /\ Outcomes(c) /\ Noticed(c, sp2)
  BY DEF Told
<1>1. Justified(c, sp) /\ Outcomes(c) /\ Noticed(c, sp)
  BY DEF Told
<1>2. Justified(c, sp2)
  BY <1>1 DEF Justified
<1>3. \A s : Owed(s, sp2, c.req) => Owed(s, sp, c.req)
  BY DEF Owed
<1>4. Noticed(c, sp2)
  BY <1>1, <1>3 DEF Noticed
<1> QED BY <1>1, <1>2, <1>4

\* No type of failure is called as an outcome is.
LEMMA NamesDiffer ==
    \A k \in {"http", "kept", "https", "tls", "dns"} : Injected(k) \cap {"ok", "geo", "gone", "address"} = {}
BY DEF Injected, HTTPFailures

\* A request at c that was told what it should be gets an answer from the
\* failures E in effect and goes on at d.
Asking(c, sp, E, hit, d, sp2) ==
    /\ KindOK(c.req) /\ Shape(c) /\ c.pc = "ask" /\ c.at \in 1..Len(Checks(c.req))
    /\ Told(c, sp) /\ \A s \in sp.always : Addressed(s)
    /\ hit \in BOOLEAN /\ Fair(hit, E, Checks(c.req)[c.at], c.req) /\ d \in AfterQuestion(c, hit)
    /\ sp2.ever = sp.ever \cup E /\ sp2.always = sp.always \cap E

\* After one question more, what it was told is still right.
LEMMA AskedOnceMore ==
    ASSUME NEW c, NEW sp, NEW E, NEW hit, NEW d, NEW sp2, Asking(c, sp, E, hit, d, sp2)
    PROVE  /\ Told(d, sp2)
           /\ Shape(d) /\ d.pc \in {"ask", "end"} /\ d.req = c.req /\ d.at \in 1..Len(Checks(c.req))
<1> USE DEF Asking
<1> DEFINE r == c.req  q == Checks(r)[c.at]  n == Len(Checks(r))
           next == IF c.at = n THEN [c EXCEPT !.pc = "end"] ELSE [c EXCEPT !.at = @ + 1]
<1>1. ChecksOK(Checks(r), r)
  BY CheckFacts
<1>2. n \in Nat \ {0} /\ QuestionOK(q, r) /\ c.at \in 1..n
  BY <1>1 DEF ChecksOK
<1>3. Justified(c, sp) /\ Outcomes(c) /\ Noticed(c, sp) /\ c.out = "ok"
  BY DEF Told, Watched, Outcomes
<1>4. r.kind \in {"http", "kept", "https", "tls", "dns"} /\ "geo" \notin r.misses
  BY DEF KindOK
<1>5. /\ next.req = r /\ next.noted = c.noted /\ next.out = "ok" /\ Shape(next)
      /\ \/ c.at = n /\ next.pc = "end" /\ next.at = n
         \/ c.at < n /\ next.pc = "ask" /\ next.at = c.at + 1
  BY <1>2, <1>3 DEF Shape
<1>6. hit /\ q.type # "geo" /\ q.type \notin r.misses =>
        \E s \in sp2.ever : s.type = q.type /\ s.cidrs = {} /\ About(s, r)
  BY <1>2, AnswersAbout DEF Fair
<1>7. hit /\ q.type = "geo" => \E s \in sp2.ever : Geo(s, r)
  BY DEF Fair, Answers
\* The question at hand does not pass over a failure that should be noticed.
<1>8. ASSUME NEW s \in sp2.always, Owed(s, sp2, r), FoundBy(s, r) = q.type
      PROVE  hit /\ q.type \notin r.misses
  <2>1. s \in E /\ Addressed(s) /\ About(s, r) /\ s.rate = "every"
    BY <1>8 DEF Owed
  <2>2. \A u \in E : Rival(u, s, r) => u = s
    BY <1>8 DEF Owed
  <2>3. CASE Geo(s, r)
    <3>1. q.type = "geo" /\ Answers(s, q, r)
      BY <1>8, <2>3 DEF FoundBy, Answers
    <3>2. \A u \in E : Answers(u, q, r) => u = s
      BY <2>2, <2>3, <3>1 DEF Answers, Rival
    <3> QED BY <1>4, <2>1, <3>1, <3>2 DEF Fair
  <2>4. CASE ~Geo(s, r)
    <3>1. s.cidrs = {} /\ s.type = q.type /\ s.type \in Injected(r.kind) /\ s.type \notin r.misses
      BY <1>8, <2>1, <2>4 DEF FoundBy, About
    <3>2. q.type # "geo"
      BY <1>4, <3>1, NamesDiffer
    <3>3. Answers(s, q, r)
      BY <1>2, <2>1, <3>1, <3>2, AnswersAbout
    <3>4. \A u \in E : Answers(u, q, r) => u = s
      BY <1>2, <2>2, <2>4, <3>1, <3>2, AnswersAbout DEF Rival
    <3> QED BY <2>1, <3>1, <3>3, <3>4 DEF Fair
  <2> QED BY <2>3, <2>4
\* Nor did an earlier one.
<1>9. ASSUME NEW s \in sp2.always, Owed(s, sp2, r), \E i \in 1..(c.at - 1) : Checks(r)[i].type = FoundBy(s, r)
      PROVE  s.type \in c.noted
  <2>1. s \in sp.always /\ Owed(s, sp, r)
    BY <1>9 DEF Owed
  <2> QED BY <1>3, <1>9, <2>1 DEF Noticed
\* Some question finds it.
<1>10. ASSUME NEW s, About(s, r)
       PROVE  \E i \in 1..n : Checks(r)[i].type = FoundBy(s, r)
  BY <1>1, <1>10 DEF ChecksOK, About, FoundBy, Geo
<1>11. ASSUME NEW s \in sp2.always, Owed(s, sp2, r),
              next.pc = "ask" => \E i \in 1..(next.at - 1) : Checks(r)[i].type = FoundBy(s, r)
       PROVE  s.type \in c.noted \/ FoundBy(s, r) = q.type
  <2>1. PICK i \in 1..n : Checks(r)[i].type = FoundBy(s, r) /\ i <= c.at
    <3>1. CASE next.pc = "ask"
      BY <1>2, <1>5, <1>11, <3>1
    <3>2. CASE c.at = n
      <4>1. About(s, r)
        BY <1>11 DEF Owed
      <4> QED BY <1>2, <1>10, <3>2, <4>1
    <3> QED BY <1>5, <3>1, <3>2
  <2>2. i = c.at \/ i \in 1..(c.at - 1)
    BY <1>2, <2>1
  <2> QED BY <1>9, <1>11, <2>1, <2>2
<1>12. CASE (~hit \/ q.type \in r.misses) /\ d = next
  <2>1. Justified(d, sp2)
    BY <1>3, <1>5, <1>12 DEF Justified
  <2>2. Outcomes(d)
    BY <1>3, <1>5, <1>12 DEF Outcomes
  <2>3. Noticed(d, sp2)
    <3> SUFFICES ASSUME NEW s \in sp2.always, Owed(s, sp2, r),
                        next.pc = "ask" => \E i \in 1..(next.at - 1) : Checks(r)[i].type = FoundBy(s, r)
                 PROVE  s.type \in c.noted
      BY <1>5, <1>12, Zenon DEF Noticed
    <3>1. s.type \in c.noted \/ FoundBy(s, r) = q.type
      BY <1>11, Zenon
    <3> QED BY <1>8, <1>12, <3>1, Zenon
  <2> QED BY <1>2, <1>5, <1>12, <2>1, <2>2, <2>3 DEF Told
<1>13. CASE hit /\ q.type \notin r.misses /\ q.then = "note" /\ d = [next EXCEPT !.noted = @ \cup {q.type}]
  <2>1. q.type \in Noted /\ q.type # "geo"
    BY <1>2, <1>13 DEF QuestionOK
  <2>2. /\ d.req = r /\ d.noted = c.noted \cup {q.type} /\ d.out = "ok" /\ Shape(d)
        /\ d.pc = next.pc /\ d.at = next.at
    BY <1>5, <1>13 DEF Shape
  <2>3. Justified(d, sp2)
    <3>1. ASSUME NEW t \in (c.noted \cup {"ok"}) \cap Injected(r.kind)
          PROVE  \E s \in sp2.ever : s.type = t /\ s.cidrs = {} /\ About(s, r)
      BY <1>3, <3>1 DEF Justified
    <3>2. \E s \in sp2.ever : s.type = q.type /\ s.cidrs = {} /\ About(s, r)
      BY <1>6, <1>13, <2>1
    <3>3. d.noted \cup {d.out} = (c.noted \cup {"ok"}) \cup {q.type} /\ d.out # "geo"
      BY <2>2
    <3> QED BY <2>2, <3>1, <3>2, <3>3, Zenon DEF Justified
  <2>4. Outcomes(d)
    BY <1>3, <1>5, <2>1, <2>2 DEF Outcomes
  <2>5. ASSUME NEW s, FoundBy(s, r) = q.type PROVE s.type = q.type
    BY <2>1, <2>5 DEF FoundBy
  <2>6. Noticed(d, sp2)
    <3> SUFFICES ASSUME NEW s \in sp2.always, Owed(s, sp2, r),
                        next.pc = "ask" => \E i \in 1..(next.at - 1) : Checks(r)[i].type = FoundBy(s, r)
                 PROVE  s.type \in d.noted
      BY <2>2, Zenon DEF Noticed
    <3>1. s.type \in c.noted \/ FoundBy(s, r) = q.type
      BY <1>11, Zenon
    <3> QED BY <2>2, <2>5, <3>1
  <2> QED BY <1>2, <1>5, <2>2, <2>3, <2>4, <2>6 DEF Told
<1>14. CASE /\ hit /\ q.type \notin r.misses /\ q.then # "note"
            /\ \/ d = [c EXCEPT !.pc = "end", !.out = q.type]
               \/ q.type \in Waiting /\ d = [c EXCEPT !.pc = "end", !.out = "gone"]
  <2>1. /\ d.req = r /\ d.noted = c.noted /\ d.pc = "end" /\ d.at = c.at /\ Shape(d)
        /\ d.out = q.type \/ (q.type \in Waiting /\ d.out = "gone")
    BY <1>14 DEF Shape
  <2>2. q.type = "geo" \/ q.type \in Injected(r.kind) \ Noted
    BY <1>2, <1>14 DEF QuestionOK
  <2>3. q.type \in Waiting => r.kind \in {"http", "kept", "https"}
    BY <1>2, <1>4 DEF QuestionOK, Waiting, Injected, HTTPFailures
  <2>4. Outcomes(d)
    BY <1>2, <1>3, <1>4, <2>1, <2>2, <2>3, NamesDiffer DEF Outcomes, QuestionOK
  <2>5. Justified(d, sp2)
    <3>1. ASSUME NEW t \in c.noted \cap Injected(r.kind)
          PROVE  \E s \in sp2.ever : s.type = t /\ s.cidrs = {} /\ About(s, r)
      BY <1>3, <3>1 DEF Justified
    <3>2. ASSUME d.out \in Injected(r.kind)
          PROVE  \E s \in sp2.ever : s.type = d.out /\ s.cidrs = {} /\ About(s, r)
      <4>1. d.out = q.type /\ q.type # "geo"
        BY <1>4, <2>1, <3>2, NamesDiffer
      <4> QED BY <1>6, <1>14, <4>1
    <3>3. d.out = "geo" => \E s \in sp2.ever : Geo(s, r)
      BY <1>7, <1>14, <2>1
    <3> QED BY <2>1, <3>1, <3>2, <3>3, Zenon DEF Justified
  <2>6. Noticed(d, sp2)
    BY <1>4, <2>1, <2>2, NamesDiffer DEF Noticed
  <2> QED BY <1>2, <2>1, <2>4, <2>5, <2>6 DEF Told
<1> QED BY <1>12, <1>13, <1>14 DEF AfterQuestion, Matches, Waiting

-----------------------------------------------------------------------------
(* The invariant of the member *)

\* Requests of the data plane that is under load.
Proper(r) == r \in IF workload = "dns" THEN Queries ELSE Requests[workload]

\* A goroutine is free or serves a request and is at one of its questions.
ConnOK(c) ==
    \/ c = Free
    \/ /\ Shape(c) /\ c.pc \in {"ask", "end", "done", "default", "load"}
       /\ Proper(c.req) /\ c.at \in 1..Len(Checks(c.req))

\* Every failure the registry holds or is about to hold, and every failure a
\* request remembers, is addressed as the runner addresses it.
AllAddressed ==
    /\ \A k \in DOMAIN failures : Addressed(failures[k].spec)
    /\ \A h \in Handlers : setting[h] # Idle => Addressed(setting[h].spec)
    /\ \A w \in Workers : \A s \in span[w].always : Addressed(s)

MemberTypes ==
    /\ TypeOK /\ AllAddressed
    /\ workload \in DOMAIN Activations /\ script \subseteq Activations[workload]
    /\ DOMAIN conn = Workers /\ DOMAIN span = Workers
    /\ \A w \in Workers : ConnOK(conn[w])

\* What every request has been told so far is right.
AllTold == \A w \in Workers : conn[w] # Free => Told(conn[w], span[w])

\* The TXT part of a query q served by a goroutine at c with the answer a: what
\* it kept is in the store x until it is answered or missed.
Kept(q, c, a, x) ==
    /\ c # Free /\ c.req.qtype = "TXT" /\ q.name \in TXTNames
    /\ q.missed => q.kept = {}
    /\ c.pc = "ask" /\ ~q.missed => q.kept \subseteq x[q.name]
    /\ c.pc = "end" => q.missed
    /\ c.pc = "done" => q.kept \subseteq a

\* A query without a TXT part.
Nameless == ""

QueryShape(q) == q = [name |-> q.name, kept |-> q.kept, missed |-> q.missed] /\ q.missed \in BOOLEAN

QueriesKept ==
    /\ DOMAIN txt = TXTNames /\ DOMAIN query = Workers /\ DOMAIN answer = Workers
    /\ \A w \in Workers : QueryShape(query[w]) /\ (query[w].name # Nameless => Kept(query[w], conn[w], answer[w], txt))
    /\ workload # "dns" => \A w \in Workers : query[w].name = Nameless

MemberInv == MemberTypes /\ AllTold /\ QueriesKept

-----------------------------------------------------------------------------
(* What the steps of the member do *)

\* To the registry.
Deletes == (\E K : failures' = Without(failures, K)) /\ UNCHANGED <<now, setting>>
Stores == \E h \in Handlers : SetCommit(h)
Begins == \E h \in Handlers, s \in script : SetBegin(h, s)
Empties == failures' = [k \in {} |-> {}] /\ setting' = [h \in Handlers |-> Idle] /\ now' = now
RegistryStep == Deletes \/ Stores \/ Begins \/ Tick \/ Empties \/ UNCHANGED <<failures, now, setting>>

\* To the goroutine w.
Arrives(w) == \E r : Proper(r) /\ Arrive(w, r)
Asks(w) == Ask(w) \/ AskIP(w)
Turns(w) ==
    /\ conn[w].pc \in {"ask", "end", "default", "load"} /\ conn[w].req \notin buildDNSAQuery
    /\ \E d : /\ conn' = [conn EXCEPT ![w] = d] /\ d.pc \in {"done", "default", "load"}
              /\ Shape(d) /\ d.req = conn[w].req /\ d.at = conn[w].at
Ends(w) == conn' = [conn EXCEPT ![w] = Free]
ConnStep ==
    \/ UNCHANGED conn
    \/ \E w \in Workers : Arrives(w) \/ Asks(w) \/ AnswerDNS(w) \/ Turns(w) \/ Ends(w)
    \/ conn' = [w \in Workers |-> Free]

\* The control server changes the registry alone.
LEMMA ControlStep ==
    ASSUME Control PROVE RegistryStep
BY DEF Control, RegistryStep, Deletes, Stores, Begins, Remove

\* A question may delete stale entries.
LEMMA AskStep ==
    ASSUME NEW w, Asks(w) PROVE RegistryStep
<1>1. ASSUME Ask(w) PROVE Deletes
  BY <1>1 DEF Ask, Lookup, Deletes
<1>2. ASSUME AskIP(w) PROVE Deletes
  BY <1>2 DEF AskIP, LookupForIP, Deletes
<1> QED BY <1>1, <1>2 DEF Asks, RegistryStep

\* The HTTP data plane, with the capacity observer.
LEMMA ObserverStep ==
    ASSUME MemberTypes, workload \in {"http", "observe"},
           ObserverNext(Windows[workload], Requests[workload], Crew[workload])
    PROVE  RegistryStep /\ ConnStep
<1>0. Crew[workload] \subseteq Workers
  BY MemberAssumption DEF MemberTypes
<1>1. ASSUME NEW req, Reset(req) PROVE RegistryStep /\ ConnStep
  BY <1>1 DEF Reset, RegistryStep, ConnStep
<1>2. ASSUME NEW w \in Workers, NEW r \in Requests[workload], ArriveHTTP(w, r) PROVE RegistryStep /\ ConnStep
  <2>1. Proper(r)
    BY DEF Proper
  <2> QED BY <1>2, <2>1 DEF ArriveHTTP, Arrive, Arrives, RegistryStep, ConnStep
<1>3. ASSUME NEW w \in Workers, AskHTTP(w) PROVE RegistryStep /\ ConnStep
  <2>1. Asks(w)
    BY <1>3 DEF AskHTTP, Asks
  <2> QED BY <2>1, AskStep DEF ConnStep
<1>4. ASSUME NEW w \in Workers, RecordBegin(w) PROVE RegistryStep /\ ConnStep
  BY <1>4 DEF RecordBegin, Finished, Ends, RegistryStep, ConnStep
<1>5. ASSUME NEW w \in Workers, Record(w) PROVE RegistryStep /\ ConnStep
  <2>1. UNCHANGED <<failures, now, setting>> /\ (UNCHANGED conn \/ Ends(w))
    BY <1>5 DEF Record, Later, Finished, Ends
  <2> QED BY <2>1 DEF RegistryStep, ConnStep
<1>6. ASSUME NEW i, ReadBegin(i) PROVE RegistryStep /\ ConnStep
  BY <1>6 DEF ReadBegin, RegistryStep, ConnStep
<1>7. ASSUME ReadSite \/ ReadEnd PROVE RegistryStep /\ ConnStep
  BY <1>7 DEF ReadSite, ReadEnd, RegistryStep, ConnStep
<1> QED BY <1>0, <1>1, <1>2, <1>3, <1>4, <1>5, <1>6, <1>7 DEF ObserverNext

\* A goroutine that sets its pc and its outcome, no probe's, makes such a turn.
LEMMA TurnStep ==
    ASSUME NEW w \in Workers, Shape(conn[w]), conn[w].pc \in {"ask", "end", "default", "load"},
           conn[w].req \notin buildDNSAQuery, NEW p \in {"done", "default", "load"}, NEW o,
           conn' = [conn EXCEPT ![w] = [@ EXCEPT !.pc = p, !.out = o]]
    PROVE  Turns(w)
<1>1. PICK d : d = [conn[w] EXCEPT !.pc = p, !.out = o]
  OBVIOUS
<1>2. conn' = [conn EXCEPT ![w] = d]
  BY <1>1
<1>3. d.pc = p /\ Shape(d) /\ d.req = conn[w].req /\ d.at = conn[w].at
  BY <1>1 DEF Shape
<1> QED BY <1>2, <1>3, Zenon DEF Turns

\* Pollers leave the registry and the requests alone.
LEMMA PollerStepQuiet ==
    ASSUME NEW g, PollerStep(g) PROVE RegistryStep /\ ConnStep
<1>1. PollerQuiet
  BY DEF PollerStep, Poll, Hang, Download, Rename, Corrupt, PollFails, SetLibrary, PruneCache, Wake
<1> QED BY <1>1 DEF PollerQuiet, Quiet, RegistryStep, ConnStep

\* A handshake is no probe of the nameserver.
LEMMA HandshakeIsNoProbe ==
    ASSUME MemberTypes, workload \in {"tls", "library"}, NEW w \in Workers, conn[w] # Free
    PROVE  conn[w].req \notin buildDNSAQuery /\ Shape(conn[w])
<1>1. conn[w].req \in Requests[workload] /\ workload \in DOMAIN Activations /\ Shape(conn[w])
  BY DEF MemberTypes, ConnOK, Proper
<1>2. conn[w].req.kind = "tls"
  BY <1>1, MemberAssumption
<1> QED BY <1>1, <1>2, MemberAssumption DEF buildDNSAQuery

\* The TLS data plane, with the certificate library.
LEMMA LibraryStep ==
    ASSUME MemberTypes, workload \in {"tls", "library"}, LibraryNext(Requests[workload], Crew[workload])
    PROVE  RegistryStep /\ ConnStep
<1>0. Crew[workload] \subseteq Workers
  BY MemberAssumption DEF MemberTypes
<1>1. ASSUME NEW s, Publish(s) \/ Apply(s) PROVE RegistryStep /\ ConnStep
  BY <1>1 DEF Publish, Apply, Quiet, RegistryStep, ConnStep
<1>2. ASSUME RestoreState PROVE RegistryStep /\ ConnStep
  BY <1>2 DEF RestoreState, Empties, RegistryStep, ConnStep
<1>3. ASSUME NEW g, PollerStep(g) PROVE RegistryStep /\ ConnStep
  BY <1>3, PollerStepQuiet
<1>4. ASSUME NEW w \in Workers, NEW r \in Requests[workload], ArriveTLS(w, r) PROVE RegistryStep /\ ConnStep
  <2>1. Proper(r)
    BY DEF Proper
  <2> QED BY <1>4, <2>1 DEF ArriveTLS, Arrive, Arrives, RegistryStep, ConnStep
<1>5. ASSUME NEW w \in Workers, AskTLS(w) PROVE RegistryStep /\ ConnStep
  <2>1. Asks(w)
    BY <1>5 DEF AskTLS, Asks
  <2> QED BY <2>1, AskStep DEF ConnStep
<1>6. ASSUME NEW w \in Workers, ReadLibrary(w) \/ FailureCertificate(w) \/ DefaultCertificate(w) \/ LoadCertificate(w)
      PROVE  RegistryStep /\ ConnStep
  <2>1. UNCHANGED <<failures, now, setting>> /\ conn[w].pc \in {"ask", "end", "default", "load"}
    BY <1>6 DEF ReadLibrary, FailureCertificate, DefaultCertificate, LoadCertificate, ShakeQuiet, Quiet
  <2>2. conn[w].req \notin buildDNSAQuery /\ Shape(conn[w])
    BY <2>1, HandshakeIsNoProbe DEF Free
  <2>3. \A o : Answer(w, o) => Turns(w)
    BY <2>1, <2>2, TurnStep, Zenon DEF Answer
  <2>4. \A p \in {"default", "load"} : conn' = [conn EXCEPT ![w].pc = p] => Turns(w)
    <3>1. \A p : [conn[w] EXCEPT !.pc = p] = [conn[w] EXCEPT !.pc = p, !.out = conn[w].out]
      BY <2>2 DEF Shape
    <3>2. \A p : [conn EXCEPT ![w].pc = p] = [conn EXCEPT ![w] = [@ EXCEPT !.pc = p, !.out = conn[w].out]]
      BY <3>1, Zenon
    <3> QED BY <2>1, <2>2, <3>2, TurnStep, Zenon
  <2>5. UNCHANGED conn \/ Turns(w)
    <3>1. CASE ReadLibrary(w)
      BY <2>1, <2>2, <3>1, TurnStep, Zenon DEF ReadLibrary
    <3>2. CASE FailureCertificate(w)
      BY <2>3, <2>4, <3>2 DEF FailureCertificate, Serve
    <3>3. CASE DefaultCertificate(w)
      BY <2>4, <3>3 DEF DefaultCertificate
    <3>4. CASE LoadCertificate(w)
      BY <2>3, <3>4 DEF LoadCertificate, Serve
    <3> QED BY <1>6, <3>1, <3>2, <3>3, <3>4
  <2> QED BY <2>1, <2>5 DEF RegistryStep, ConnStep
<1>7. ASSUME NEW w \in Workers, LeaveTLS(w) PROVE RegistryStep /\ ConnStep
  BY <1>7 DEF LeaveTLS, Leave, Ends, RegistryStep, ConnStep
<1> QED BY <1>0, <1>1, <1>2, <1>3, <1>4, <1>5, <1>6, <1>7 DEF LibraryNext

\* The nameserver.
LEMMA DNSStep ==
    ASSUME MemberInv, workload = "dns", DNSNext(Crew[workload])
    PROVE  RegistryStep /\ ConnStep
<1>0. Crew[workload] \subseteq Workers
  BY MemberAssumption DEF MemberInv, MemberTypes
<1>1. ASSUME NEW n, NEW v, Add(n, v) \/ RemoveTXT(n, v) PROVE RegistryStep /\ ConnStep
  BY <1>1 DEF Add, RemoveTXT, Calm, RegistryStep, ConnStep
<1>2. ASSUME NEW w \in Workers, NEW r \in Queries, ArriveDNS(w, r) PROVE RegistryStep /\ ConnStep
  <2>1. Proper(r)
    BY DEF Proper
  <2> QED BY <1>2, <2>1 DEF ArriveDNS, Arrive, Arrives, RegistryStep, ConnStep
<1>3. ASSUME NEW w \in Workers, AnswerTXT(w) PROVE RegistryStep /\ ConnStep
  <2>0. query[w].name # Nameless /\ conn[w].pc = "ask" /\ UNCHANGED <<failures, now, setting>>
    BY <1>3, Zenon DEF AnswerTXT, Nameless
  <2>1. UNCHANGED conn \/ conn' = [conn EXCEPT ![w] = [@ EXCEPT !.pc = "done", !.out = "txt"]]
    BY <1>3, Zenon DEF AnswerTXT
  <2>2. conn[w] # Free /\ conn[w].req.qtype = "TXT" /\ Shape(conn[w])
    <3>1. conn[w] # Free /\ conn[w].req.qtype = "TXT"
      BY <2>0, Zenon DEF MemberInv, QueriesKept, Kept
    <3> QED BY <3>1, Zenon DEF MemberInv, MemberTypes, ConnOK
  <2>3. conn[w].req \notin buildDNSAQuery
    BY <2>2 DEF buildDNSAQuery
  <2>4. UNCHANGED conn \/ Turns(w)
    BY <2>0, <2>1, <2>2, <2>3, TurnStep, Zenon
  <2> QED BY <2>0, <2>4, Zenon DEF RegistryStep, ConnStep
<1>4. ASSUME NEW w \in Workers, AskDNS(w) PROVE RegistryStep /\ ConnStep
  <2>1. Asks(w)
    BY <1>4, Zenon DEF AskDNS, Asks
  <2> QED BY <2>1, AskStep DEF ConnStep
<1>5. ASSUME NEW w \in Workers, AnswerDNS(w) PROVE RegistryStep /\ ConnStep
  <2>1. UNCHANGED <<failures, now, setting>>
    BY <1>5 DEF AnswerDNS
  <2> QED BY <1>5, <2>1 DEF RegistryStep, ConnStep
<1>6. ASSUME NEW w \in Workers, LeaveDNS(w) PROVE RegistryStep /\ ConnStep
  BY <1>6 DEF LeaveDNS, Leave, Ends, RegistryStep, ConnStep
<1> QED BY <1>0, <1>1, <1>2, <1>3, <1>4, <1>5, <1>6 DEF DNSNext

\* Every step of the member.
LEMMA MemberSteps ==
    ASSUME MemberInv, MemberNext
    PROVE  RegistryStep /\ ConnStep /\ Track /\ UNCHANGED <<workload, script>>
<1>1. Track /\ UNCHANGED <<workload, script>>
  BY DEF MemberNext
<1>2. CASE Control /\ UNCHANGED <<conn, observerVars, libraryVars, dnsVars>>
  BY <1>1, <1>2, ControlStep DEF ConnStep
<1>3. CASE workload \in {"http", "observe"} /\ ObserverNext(Windows[workload], Requests[workload], Crew[workload])
  BY <1>1, <1>3, ObserverStep DEF MemberInv
<1>4. CASE workload \in {"tls", "library"} /\ LibraryNext(Requests[workload], Crew[workload])
  BY <1>1, <1>4, LibraryStep DEF MemberInv
<1>5. CASE workload = "dns" /\ DNSNext(Crew[workload])
  BY <1>1, <1>5, DNSStep
<1> QED BY <1>2, <1>3, <1>4, <1>5 DEF MemberNext

-----------------------------------------------------------------------------
(* The invariant is kept *)

\* The registry keeps its types and holds only failures of the script.
LEMMA RegistryKept ==
    ASSUME MemberTypes, RegistryStep
    PROVE  /\ TypeOK' /\ \A k \in DOMAIN failures' : Addressed(failures'[k].spec)
           /\ \A h \in Handlers : setting'[h] # Idle => Addressed(setting'[h].spec)
<1> DEFINE Held == /\ \A k \in DOMAIN failures : Addressed(failures[k].spec)
                   /\ \A h \in Handlers : setting[h] # Idle => Addressed(setting[h].spec)
<1>0. TypeOK /\ Held /\ \A s \in script : s \in FailureSpec /\ Addressed(s)
  BY MemberAssumption DEF MemberTypes, AllAddressed, Addressed
<1>1. CASE Deletes
  <2>1. PICK K : failures' = Without(failures, K) /\ UNCHANGED <<now, setting>>
    BY <1>1 DEF Deletes
  <2>2. MapOK(failures')
    BY <1>0, <2>1, WithoutMapOK DEF TypeOK, MapOK
  <2>3. \A k \in DOMAIN failures' : k \in DOMAIN failures /\ failures'[k] = failures[k]
    BY <2>1 DEF Without, Restrict
  <2> QED BY <1>0, <2>1, <2>2, <2>3 DEF TypeOK, MapOK
<1>2. CASE Stores
  <2>1. PICK h \in Handlers : SetCommit(h)
    BY <1>2 DEF Stores
  <2>2. setting[h] \in ActiveFailure /\ setting[h] # Idle /\ Addressed(setting[h].spec)
    BY <1>0, <2>1 DEF SetCommit, TypeOK
  <2>3. MapOK(failures')
    BY <1>0, <2>1, <2>2, WithMapOK DEF SetCommit, TypeOK, MapOK
  <2>4. setting' \in [Handlers -> ActiveFailure \cup {Idle}] /\ now' = now
    BY <1>0, <2>1 DEF SetCommit, TypeOK
  <2>5. \A k \in DOMAIN failures' : failures'[k] = setting[h] \/ (k \in DOMAIN failures /\ failures'[k] = failures[k])
    BY <2>1 DEF SetCommit, With
  <2>6. \A k \in DOMAIN failures' : Addressed(failures'[k].spec)
    BY <1>0, <2>2, <2>5
  <2>7. \A g \in Handlers : setting'[g] = Idle \/ setting'[g] = setting[g]
    BY <1>0, <2>1 DEF SetCommit, TypeOK
  <2> QED BY <1>0, <2>3, <2>4, <2>6, <2>7 DEF TypeOK, MapOK
<1>3. CASE Begins
  <2>1. PICK h \in Handlers, s \in script : SetBegin(h, s)
    BY <1>3 DEF Begins
  <2>2. [spec |-> s, expires |-> now + s.duration] \in ActiveFailure
    <3>1. s \in FailureSpec /\ s.duration \in Nat
      BY <1>0, DurationLemma
    <3> QED BY <1>0, <3>1 DEF ActiveFailure, TypeOK
  <2>3. UNCHANGED <<failures, now>> /\ setting' = [setting EXCEPT ![h] = [spec |-> s, expires |-> now + s.duration]]
    BY <2>1 DEF SetBegin
  <2>4. TypeOK'
    BY <1>0, <2>2, <2>3 DEF TypeOK
  <2>5. \A g \in Handlers : setting'[g].spec = s \/ setting'[g] = setting[g]
    BY <1>0, <2>3 DEF TypeOK
  <2> QED BY <1>0, <2>3, <2>4, <2>5
<1>4. CASE Tick
  BY <1>0, <1>4 DEF Tick, TypeOK
<1>5. CASE Empties
  BY <1>0, <1>5 DEF Empties, TypeOK
<1>6. CASE UNCHANGED <<failures, now, setting>>
  BY <1>0, <1>6 DEF TypeOK
<1> QED BY <1>1, <1>2, <1>3, <1>4, <1>5, <1>6 DEF RegistryStep

\* Requests of the workload are of a kind the member serves.
LEMMA ProperKind ==
    ASSUME workload \in DOMAIN Activations, NEW r, Proper(r)
    PROVE  KindOK(r) /\ (workload # "dns" => r.kind # "dns")
<1>1. CASE workload = "dns"
  BY <1>1, MemberAssumption DEF Proper, KindOK
<1>2. CASE workload # "dns"
  BY <1>2, MemberAssumption DEF Proper, KindOK
<1> QED BY <1>1, <1>2

\* A goroutine's question and the answer it gets.
LEMMA AskedFairly ==
    ASSUME MemberTypes, NEW w \in Workers, Asks(w)
    PROVE  /\ conn[w] # Free /\ Shape(conn[w]) /\ conn[w].pc = "ask" /\ Proper(conn[w].req)
           /\ conn[w].at \in 1..Len(Checks(conn[w].req)) /\ KindOK(conn[w].req)
           /\ InEffect' = InEffect
           /\ \E hit \in BOOLEAN : /\ Fair(hit, InEffect, Checks(conn[w].req)[conn[w].at], conn[w].req)
                                   /\ \E d \in AfterQuestion(conn[w], hit) : conn' = [conn EXCEPT ![w] = d]
<1>1. conn[w].pc = "ask"
  BY DEF Asks, Ask, AskIP
<1>2. conn[w] # Free /\ ConnOK(conn[w])
  BY <1>1 DEF MemberTypes, Free
<1>3. /\ Shape(conn[w]) /\ Proper(conn[w].req) /\ conn[w].at \in 1..Len(Checks(conn[w].req))
      /\ KindOK(conn[w].req)
  BY <1>2, ProperKind DEF ConnOK, MemberTypes
<1>4. PICK q : q = Checks(conn[w].req)[conn[w].at]
  OBVIOUS
<1>5. q = Question(w) /\ QuestionOK(q, conn[w].req)
  BY <1>3, <1>4, CheckFacts DEF Question, ChecksOK
<1>6. CASE Ask(w)
  <2>1. q.type # "geo" /\ Lookup(q.type, q.host, q.path)
    BY <1>5, <1>6 DEF Ask
  <2>2. InEffect' = InEffect /\ Fair(reply'.kind = "hit", InEffect, q, conn[w].req)
    BY <2>1, LookupIsFair DEF MemberTypes
  <2>3. \E d \in AfterQuestion(conn[w], reply'.kind = "hit") : conn' = [conn EXCEPT ![w] = d]
    BY <1>6 DEF Ask
  <2> QED BY <1>1, <1>2, <1>3, <1>4, <2>2, <2>3, Zenon
<1>7. CASE AskIP(w)
  <2>1. q.type = "geo" /\ LookupForIP(conn[w].req.ip) /\ conn[w].req.kind = "http"
    BY <1>5, <1>7 DEF AskIP, QuestionOK
  <2>2. InEffect' = InEffect /\ Fair(reply'.kind = "hit", InEffect, q, conn[w].req)
    BY <2>1, LookupForIPIsFair DEF MemberTypes
  <2>3. \E d \in AfterQuestion(conn[w], reply'.kind = "hit") : conn' = [conn EXCEPT ![w] = d]
    BY <1>7 DEF AskIP
  <2> QED BY <1>1, <1>2, <1>3, <1>4, <2>2, <2>3, Zenon
<1> QED BY <1>6, <1>7 DEF Asks

\* What Track remembers of a request.
LEMMA Remembered ==
    ASSUME Track, NEW v \in Workers
    PROVE  /\ DOMAIN span' = Workers
           /\ conn'[v] = Free => span'[v] = NoSpan
           /\ conn'[v] # Free => /\ span'[v].ever = span[v].ever \cup InEffect'
                                 /\ span'[v].always = IF conn[v] = Free THEN InEffect' ELSE span[v].always \cap InEffect'
BY DEF Track, InEffect

\* A request that does not move.
LEMMA Waits ==
    ASSUME AllTold, Track, NEW v \in Workers, conn'[v] = conn[v], conn'[v] # Free
    PROVE  Told(conn'[v], span'[v])
<1>1. span[v].ever \subseteq span'[v].ever /\ span'[v].always \subseteq span[v].always
  BY Remembered
<1>2. Told(conn[v], span[v])
  BY DEF AllTold
<1>3. Told(conn[v], span'[v])
  BY <1>1, <1>2, TimePasses, Zenon
<1> QED BY <1>3

\* A request that has just arrived was told nothing yet.
LEMMA ToldNothing ==
    ASSUME NEW r, KindOK(r), NEW sp PROVE Told(Arrived(r), sp)
<1>1. PICK c : c = Arrived(r)
  OBVIOUS
<1>2. c.pc = "ask" /\ c.req = r /\ c.at = 1 /\ c.noted = {} /\ c.out = "ok"
  BY <1>1 DEF Arrived
<1>3. Outcomes(c)
  BY <1>2 DEF Outcomes
<1>4. Noticed(c, sp)
  <2>1. 1..(c.at - 1) = {}
    BY <1>2
  <2> QED BY <1>2, <2>1, Zenon DEF Noticed
<1>5. Justified(c, sp)
  <2>1. "ok" \notin Injected(r.kind)
    BY NamesDiffer DEF KindOK
  <2> QED BY <1>2, <2>1 DEF Justified
<1> QED BY <1>1, <1>3, <1>4, <1>5 DEF Told

\* The answer of the nameserver: to a probe of a name that is served, the
\* failure the questions ended with, or the address.
LEMMA AnsweredDNS ==
    ASSUME MemberTypes, NEW w \in Workers, AnswerDNS(w)
    PROVE  /\ conn[w] # Free /\ conn[w].pc = "end" /\ conn[w].req.kind = "dns"
           /\ \E d : /\ conn' = [conn EXCEPT ![w] = d]
                     /\ Shape(d) /\ d.pc = "done" /\ d.req = conn[w].req /\ d.at = conn[w].at
                     /\ d.noted = conn[w].noted
                     /\ Probed(d) => d.out = IF conn[w].out = "ok" THEN "address" ELSE conn[w].out
<1>1. conn[w].pc = "end" /\ conn[w].req.kind = "dns"
  BY DEF AnswerDNS
<1>2. conn[w] # Free /\ Shape(conn[w])
  BY <1>1 DEF MemberTypes, ConnOK, Free
<1> DEFINE r == conn[w].req
           outs == IF conn[w].out \notin {"ok"} THEN {conn[w].out}
                   ELSE IF r.qtype \in {"NS", "SOA"} /\ LookupApex(r.name) # {}
                   THEN {IF a.name = r.name THEN "apex" ELSE "nxdomain" : a \in LookupApex(r.name)}
                   ELSE IF r.qtype = "garbled" THEN {"formerr"}
                   ELSE IF r.qtype = "A" /\ LookupA(r.name) THEN {"address"} ELSE {"nxdomain"}
           late == IF r.proto = "tcp" /\ "dns_latency" \in conn[w].noted THEN {"silence"} ELSE {}
<1>3. PICK o \in outs \cup late : conn' = [conn EXCEPT ![w] = [@ EXCEPT !.pc = "done", !.out = o]]
  BY Zenon DEF AnswerDNS
<1>4. r \in buildDNSAQuery /\ LookupA(r.name) => o = IF conn[w].out = "ok" THEN "address" ELSE conn[w].out
  <2> SUFFICES ASSUME r \in buildDNSAQuery, LookupA(r.name)
               PROVE  o = IF conn[w].out = "ok" THEN "address" ELSE conn[w].out
    OBVIOUS
  <2>1. r.qtype = "A" /\ r.proto = "udp"
    BY DEF buildDNSAQuery
  <2>2. late = {}
    BY <2>1
  <2>3. outs = IF conn[w].out = "ok" THEN {"address"} ELSE {conn[w].out}
    BY <2>1
  <2> HIDE DEF outs, late
  <2> QED BY <1>3, <2>2, <2>3
<1> HIDE DEF outs, late
<1>5. PICK d : d = [conn[w] EXCEPT !.pc = "done", !.out = o]
  OBVIOUS
<1>6. conn' = [conn EXCEPT ![w] = d]
  BY <1>3, <1>5
<1>7. Shape(d) /\ d.pc = "done" /\ d.req = r /\ d.at = conn[w].at /\ d.noted = conn[w].noted /\ d.out = o
  BY <1>2, <1>5 DEF Shape
<1>8. Probed(d) => d.out = IF conn[w].out = "ok" THEN "address" ELSE conn[w].out
  BY <1>4, <1>7 DEF Probed
<1> QED BY <1>1, <1>2, <1>6, <1>7, <1>8, Zenon

\* The answer says no more than the questions found.
LEMMA ToldByAnswer ==
    ASSUME NEW c, NEW d, NEW sp, Told(c, sp), c.pc = "end", d.pc = "done", d.req = c.req, d.noted = c.noted,
           KindOK(c.req), Probed(d) => d.out = IF c.out = "ok" THEN "address" ELSE c.out
    PROVE  Told(d, sp)
<1> SUFFICES ASSUME Probed(d) PROVE Justified(d, sp) /\ Outcomes(d) /\ Noticed(d, sp)
  BY DEF Told, Watched
<1>1. Justified(c, sp) /\ Outcomes(c) /\ Noticed(c, sp)
  BY DEF Told, Watched
<1>2. d.out = IF c.out = "ok" THEN "address" ELSE c.out
  OBVIOUS
<1>3. Injected(c.req.kind) \cap {"ok", "geo", "gone", "address"} = {}
  BY NamesDiffer DEF KindOK
<1>4. Justified(d, sp)
  BY <1>1, <1>2, <1>3 DEF Justified
<1>5. Outcomes(d)
  BY <1>1, <1>2 DEF Outcomes
<1>6. Noticed(d, sp)
  BY <1>1, <1>2 DEF Noticed, Outcomes
<1> QED BY <1>4, <1>5, <1>6

\* Whatever a step does to the goroutines, each of them is free or goes on as
\* its data plane does, and what it has been told is right.
LEMMA GoroutinesKept ==
    ASSUME MemberTypes, AllTold, ConnStep, Track, workload' = workload
    PROVE  DOMAIN conn' = Workers /\ (\A v \in Workers : ConnOK(conn[v])') /\ AllTold'
<1> DEFINE OK(c) == \/ c = Free
                    \/ /\ Shape(c) /\ c.pc \in {"ask", "end", "done", "default", "load"}
                       /\ Proper(c.req) /\ c.at \in 1..Len(Checks(c.req))
           Good(v) == OK(conn'[v]) /\ (conn'[v] # Free => Told(conn'[v], span'[v]))
<1>0. /\ workload \in DOMAIN Activations /\ DOMAIN conn = Workers
      /\ \A v \in Workers : OK(conn[v])
  BY DEF MemberTypes, ConnOK
<1>1. ASSUME NEW v \in Workers, conn'[v] = conn[v] PROVE Good(v)
  <2>1. conn'[v] # Free => Told(conn'[v], span'[v])
    BY <1>1, Waits
  <2> QED BY <1>0, <1>1, <2>1
<1>2. ASSUME NEW v \in Workers, conn'[v] = Free PROVE Good(v)
  BY <1>2
\* One goroutine moves.
<1>3. ASSUME NEW w \in Workers, NEW d, conn' = [conn EXCEPT ![w] = d], OK(d), d # Free => Told(d, span'[w])
      PROVE  DOMAIN conn' = Workers /\ \A v \in Workers : Good(v)
  <2>1. DOMAIN conn' = Workers /\ conn'[w] = d /\ \A v \in Workers : v # w => conn'[v] = conn[v]
    BY <1>0, <1>3
  <2> HIDE DEF OK
  <2> QED BY <1>1, <1>3, <2>1, Zenon
<1>4. ASSUME NEW w \in Workers, Arrives(w)
      PROVE  DOMAIN conn' = Workers /\ \A v \in Workers : Good(v)
  <2>1. PICK r : Proper(r) /\ conn' = [conn EXCEPT ![w] = Arrived(r)]
    BY <1>4 DEF Arrives, Arrive
  <2>2. KindOK(r)
    BY <1>0, <2>1, ProperKind
  <2>3. 1 \in 1..Len(Checks(r))
    BY <2>2, CheckFacts DEF ChecksOK
  <2>4. OK(Arrived(r))
    BY <2>1, <2>3 DEF Arrived, Shape
  <2>5. Told(Arrived(r), span'[w])
    BY <2>2, ToldNothing
  <2> HIDE DEF OK, Good
  <2> QED BY <1>3, <2>1, <2>4, <2>5
<1>5. ASSUME NEW w \in Workers, Asks(w)
      PROVE  DOMAIN conn' = Workers /\ \A v \in Workers : Good(v)
  <2> DEFINE c == conn[w]
  <2>1. /\ c # Free /\ Shape(c) /\ c.pc = "ask" /\ Proper(c.req) /\ c.at \in 1..Len(Checks(c.req)) /\ KindOK(c.req)
        /\ InEffect' = InEffect
    BY <1>5, AskedFairly
  <2>a. PICK hit \in BOOLEAN : /\ Fair(hit, InEffect, Checks(c.req)[c.at], c.req)
                               /\ \E d \in AfterQuestion(c, hit) : conn' = [conn EXCEPT ![w] = d]
    BY <1>5, AskedFairly, Zenon
  <2>2. PICK d \in AfterQuestion(c, hit) : conn' = [conn EXCEPT ![w] = d]
    BY <2>a
  <2>3. /\ Told(d, [ever |-> span[w].ever \cup InEffect, always |-> span[w].always \cap InEffect])
        /\ Shape(d) /\ d.pc \in {"ask", "end"} /\ d.req = c.req /\ d.at \in 1..Len(Checks(c.req))
    <3>1. Told(c, span[w]) /\ \A s \in span[w].always : Addressed(s)
      BY <2>1, Zenon DEF AllTold, MemberTypes, AllAddressed
    <3>2. PICK sp2 : sp2 = [ever |-> span[w].ever \cup InEffect, always |-> span[w].always \cap InEffect]
      OBVIOUS
    <3>3. sp2.ever = span[w].ever \cup InEffect /\ sp2.always = span[w].always \cap InEffect
      BY <3>2
    <3>4. /\ Told(d, sp2)
          /\ Shape(d) /\ d.pc \in {"ask", "end"} /\ d.req = c.req /\ d.at \in 1..Len(Checks(c.req))
      <4>1. Asking(c, span[w], InEffect, hit, d, sp2)
        BY <2>1, <2>a, <3>1, <3>3, Zenon DEF Asking
      <4> QED BY <4>1, AskedOnceMore, Zenon
    <3> QED BY <3>2, <3>4
  <2>4. d # Free
    BY <2>3 DEF Free
  <2>5. conn'[w] = d
    BY <1>0, <2>2
  <2>6. span'[w].ever = span[w].ever \cup InEffect /\ span'[w].always = span[w].always \cap InEffect
    BY <2>1, <2>4, <2>5, Remembered
  <2>7. Told(d, span'[w])
    BY <2>3, <2>6, TimePasses
  <2>8. OK(d)
    BY <2>1, <2>3
  <2> HIDE DEF OK, Good
  <2> QED BY <1>3, <2>2, <2>7, <2>8
<1>6. ASSUME NEW w \in Workers, AnswerDNS(w)
      PROVE  DOMAIN conn' = Workers /\ \A v \in Workers : Good(v)
  <2> DEFINE c == conn[w]
  <2>1. c # Free /\ c.pc = "end" /\ c.req.kind = "dns"
    BY <1>6, AnsweredDNS
  <2>2. PICK d : /\ conn' = [conn EXCEPT ![w] = d]
                 /\ Shape(d) /\ d.pc = "done" /\ d.req = c.req /\ d.at = c.at /\ d.noted = c.noted
                 /\ Probed(d) => d.out = IF c.out = "ok" THEN "address" ELSE c.out
    BY <1>6, AnsweredDNS
  <2>3. Proper(c.req) /\ KindOK(c.req) /\ c.at \in 1..Len(Checks(c.req))
    BY <1>0, <2>1, ProperKind
  <2>4. Told(c, span[w])
    BY <2>1 DEF AllTold
  <2>5. Told(d, span[w])
    BY <2>1, <2>2, <2>3, <2>4, ToldByAnswer
  <2>6. conn'[w] = d /\ d # Free
    BY <1>0, <2>2 DEF Free
  <2>7. span[w].ever \subseteq span'[w].ever /\ span'[w].always \subseteq span[w].always
    BY <2>1, <2>6, Remembered
  <2>8. Told(d, span'[w])
    BY <2>5, <2>7, TimePasses
  <2>9. OK(d)
    BY <2>2, <2>3
  <2> HIDE DEF OK, Good
  <2> QED BY <1>3, <2>2, <2>8, <2>9
<1>7. ASSUME NEW w \in Workers, Turns(w)
      PROVE  DOMAIN conn' = Workers /\ \A v \in Workers : Good(v)
  <2>1. PICK d : /\ conn' = [conn EXCEPT ![w] = d] /\ d.pc \in {"done", "default", "load"}
                 /\ Shape(d) /\ d.req = conn[w].req /\ d.at = conn[w].at
    BY <1>7 DEF Turns
  <2>2. conn[w].pc # "idle" /\ d.req \notin buildDNSAQuery
    BY <1>7, <2>1 DEF Turns
  <2>3. OK(d)
    BY <1>0, <2>1, <2>2 DEF Free
  <2>4. Told(d, span'[w])
    BY <2>1, <2>2 DEF Told, Watched, Probed
  <2> HIDE DEF OK, Good
  <2> QED BY <1>3, <2>1, <2>3, <2>4
<1>8. ASSUME NEW w \in Workers, Ends(w)
      PROVE  DOMAIN conn' = Workers /\ \A v \in Workers : Good(v)
  BY <1>3, <1>8 DEF Ends
<1>9. ASSUME conn' = [w \in Workers |-> Free]
      PROVE  DOMAIN conn' = Workers /\ \A v \in Workers : Good(v)
  <2>1. DOMAIN conn' = Workers /\ \A v \in Workers : conn'[v] = Free
    BY <1>9
  <2> HIDE DEF Good
  <2> QED BY <1>2, <2>1
<1>10. ASSUME UNCHANGED conn
       PROVE  DOMAIN conn' = Workers /\ \A v \in Workers : Good(v)
  <2>1. DOMAIN conn' = Workers /\ \A v \in Workers : conn'[v] = conn[v]
    BY <1>0, <1>10
  <2> HIDE DEF Good
  <2> QED BY <1>1, <2>1
<1>11. DOMAIN conn' = Workers /\ \A v \in Workers : Good(v)
  <2> HIDE DEF Good
  <2> QED BY <1>4, <1>5, <1>6, <1>7, <1>8, <1>9, <1>10, Zenon DEF ConnStep
<1> QED BY <1>11 DEF ConnOK, AllTold, Proper

\* Types and addresses are kept.
LEMMA TypesKept ==
    ASSUME MemberInv, MemberNext PROVE MemberTypes' /\ AllTold'
<1>1. RegistryStep /\ ConnStep /\ Track /\ UNCHANGED <<workload, script>>
  BY MemberSteps
<1>2. /\ TypeOK' /\ \A k \in DOMAIN failures' : Addressed(failures'[k].spec)
      /\ \A h \in Handlers : setting'[h] # Idle => Addressed(setting'[h].spec)
  BY <1>1, RegistryKept DEF MemberInv
<1>3. DOMAIN conn' = Workers /\ (\A v \in Workers : ConnOK(conn[v])') /\ AllTold'
  BY <1>1, GoroutinesKept DEF MemberInv
<1>4. ASSUME NEW v \in Workers, NEW s \in span'[v].always PROVE Addressed(s)
  <2>1. \A u \in InEffect' : Addressed(u)
    BY <1>2 DEF InEffect, live, Without, Restrict
  <2>2. s \in InEffect'
    <3>1. conn'[v] # Free
      <4>1. NoSpan.always = {}
        BY DEF NoSpan
      <4> QED BY <1>1, <1>4, <4>1, Remembered, Zenon
    <3>2. span'[v].always = InEffect' \/ span'[v].always = span[v].always \cap InEffect'
      BY <1>1, <3>1, Remembered, Zenon
    <3> QED BY <1>4, <3>2
  <2> QED BY <2>1, <2>2
<1>5. DOMAIN span' = Workers
  BY <1>1 DEF Track
<1> QED BY <1>1, <1>2, <1>3, <1>4, <1>5 DEF MemberTypes, AllAddressed, MemberInv

\* A step of the nameserver that touches one goroutine and not the store.
LEMMA OthersKept ==
    ASSUME QueriesKept, workload' = workload, workload = "dns", txt' = txt, NEW w \in Workers,
           DOMAIN query' = Workers, DOMAIN answer' = Workers,
           \A v \in Workers \ {w} : conn'[v] = conn[v] /\ query'[v] = query[v] /\ answer'[v] = answer[v],
           QueryShape(query'[w]), query'[w].name # Nameless => Kept(query'[w], conn'[w], answer'[w], txt)
    PROVE  QueriesKept'
<1>1. ASSUME NEW v \in Workers
      PROVE  QueryShape(query'[v]) /\ (query'[v].name # Nameless => Kept(query'[v], conn'[v], answer'[v], txt'))
  <2>1. CASE v = w
    BY <2>1, Zenon
  <2>2. CASE v # w
    BY <2>2, Zenon DEF QueriesKept
  <2> QED BY <2>1, <2>2, Zenon
<1>2. DOMAIN txt' = TXTNames /\ workload' = "dns"
  BY Zenon DEF QueriesKept
<1> QED BY <1>1, <1>2, Zenon DEF QueriesKept

\* At most the value at w changes, to x.
Changes(f, g, w, x) == g = [f EXCEPT ![w] = x] \/ (g = f /\ x = f[w])

\* NoQuery has no TXT part and has missed nothing.
LEMMA NoQueryFacts == QueryShape(NoQuery) /\ NoQuery.name = Nameless /\ NoQuery.missed = FALSE
<1>1. NoQuery.name = "" /\ NoQuery.missed = FALSE /\ NoQuery.kept = {}
  BY Zenon DEF NoQuery
<1> QED BY <1>1, Zenon DEF QueryShape, NoQuery, Nameless

\* The store and the queries, whatever the step.
LEMMA QueriesStayKept ==
    ASSUME MemberInv, MemberNext PROVE QueriesKept'
<1>0. QueriesKept /\ MemberTypes /\ workload' = workload
  BY Zenon DEF MemberInv, MemberNext
\* Other workloads have no TXT queries.
<1>1. ASSUME workload # "dns", UNCHANGED dnsVars PROVE QueriesKept'
  <2>1. txt' = txt /\ query' = query /\ answer' = answer
    BY <1>1 DEF dnsVars
  <2> QED BY <1>0, <1>1, <2>1, Zenon DEF QueriesKept
<1>2. ASSUME UNCHANGED <<conn, dnsVars>> PROVE QueriesKept'
  <2>1. txt' = txt /\ query' = query /\ answer' = answer /\ conn' = conn
    BY <1>2 DEF dnsVars
  <2> QED BY <1>0, <2>1, Zenon DEF QueriesKept
<1>3. ASSUME workload = "dns", NEW n \in TXTNames, NEW v, Add(n, v) PROVE QueriesKept'
  <2>1. query' = query /\ answer' = answer /\ conn' = conn /\ txt' = [txt EXCEPT ![n] = @ \cup {v}]
    BY <1>3 DEF Add, Calm
  <2>2. DOMAIN txt' = TXTNames /\ \A m \in TXTNames : txt[m] \subseteq txt'[m]
    BY <1>0, <2>1 DEF QueriesKept
  <2>3. \A q, c, a : Kept(q, c, a, txt) => Kept(q, c, a, txt')
    BY <2>2, Zenon DEF Kept
  <2> QED BY <1>0, <1>3, <2>1, <2>2, <2>3, Zenon DEF QueriesKept
<1>4. ASSUME workload = "dns", NEW n \in TXTNames, NEW v, RemoveTXT(n, v) PROVE QueriesKept'
  <2>1. /\ answer' = answer /\ conn' = conn /\ txt' = [txt EXCEPT ![n] = @ \ {v}]
        /\ query' = [w \in Workers |-> IF query[w].name = n THEN [query[w] EXCEPT !.kept = @ \ {v}] ELSE query[w]]
    BY <1>4 DEF RemoveTXT, Calm, Keep
  <2>2. DOMAIN txt' = TXTNames /\ txt'[n] = txt[n] \ {v} /\ \A m \in TXTNames : m # n => txt'[m] = txt[m]
    BY <1>0, <2>1 DEF QueriesKept
  <2>3. ASSUME NEW w \in Workers
        PROVE  QueryShape(query'[w]) /\ (query'[w].name # Nameless => Kept(query'[w], conn[w], answer[w], txt'))
    <3>1. QueryShape(query[w]) /\ (query[w].name # Nameless => Kept(query[w], conn[w], answer[w], txt))
      BY <1>0, Zenon DEF QueriesKept
    <3>2. CASE query[w].name = n
      <4>1. query'[w] = [name |-> n, kept |-> query[w].kept \ {v}, missed |-> query[w].missed]
        BY <2>1, <3>1, <3>2 DEF QueryShape
      <4>2. PICK q : q = query'[w]
        OBVIOUS
      <4>3. q.name = n /\ q.kept = query[w].kept \ {v} /\ q.missed = query[w].missed /\ QueryShape(q)
        BY <3>1, <4>1, <4>2 DEF QueryShape
      <4>4. Kept(query[w], conn[w], answer[w], txt) /\ n # Nameless => Kept(q, conn[w], answer[w], txt')
        BY <2>2, <3>2, <4>3 DEF Kept
      <4> QED BY <3>1, <3>2, <4>2, <4>3, <4>4, Zenon
    <3>3. CASE query[w].name # n
      <4>1. query'[w] = query[w]
        BY <2>1, <3>3
      <4>2. Kept(query[w], conn[w], answer[w], txt) => Kept(query[w], conn[w], answer[w], txt')
        BY <2>2, <3>3, Zenon DEF Kept
      <4> QED BY <3>1, <4>1, <4>2, Zenon
    <3> QED BY <3>2, <3>3, Zenon
  <2>4. DOMAIN query' = Workers
    BY <2>1
  <2> QED BY <1>0, <1>4, <2>1, <2>2, <2>3, <2>4, Zenon DEF QueriesKept
\* One goroutine is touched.
<1>5. ASSUME workload = "dns", NEW w \in Workers, NEW q, NEW c, NEW a, txt' = txt,
             Changes(conn, conn', w, c), Changes(query, query', w, q), Changes(answer, answer', w, a),
             QueryShape(q), q.name # Nameless => Kept(q, c, a, txt)
      PROVE  QueriesKept'
  <2>1. DOMAIN conn = Workers /\ DOMAIN query = Workers /\ DOMAIN answer = Workers
    BY <1>0, Zenon DEF MemberTypes, QueriesKept
  <2>2. DOMAIN query' = Workers /\ query'[w] = q /\ \A v \in Workers \ {w} : query'[v] = query[v]
    BY <1>5, <2>1 DEF Changes
  <2>3. DOMAIN answer' = Workers /\ answer'[w] = a /\ \A v \in Workers \ {w} : answer'[v] = answer[v]
    BY <1>5, <2>1 DEF Changes
  <2>4. conn'[w] = c /\ \A v \in Workers \ {w} : conn'[v] = conn[v]
    BY <1>5, <2>1 DEF Changes
  <2> QED BY <1>0, <1>5, <2>2, <2>3, <2>4, OthersKept, Zenon
\* What is known of a goroutine's query.
<1>6. ASSUME NEW w \in Workers
      PROVE  /\ QueryShape(query[w]) /\ query[w].missed \in BOOLEAN
             /\ query[w].name # Nameless => Kept(query[w], conn[w], answer[w], txt)
  BY <1>0, Zenon DEF QueriesKept, QueryShape
<1>7. ASSUME workload = "dns", NEW w \in Workers, NEW r \in Queries, ArriveDNS(w, r) PROVE QueriesKept'
  <2>1. /\ conn' = [conn EXCEPT ![w] = Arrived(r)] /\ txt' = txt /\ answer' = answer
        /\ query' = [query EXCEPT ![w] = IF r.qtype = "TXT" THEN [NoQuery EXCEPT !.name = r.name, !.kept = txt[r.name]] ELSE NoQuery]
    BY <1>7, Zenon DEF ArriveDNS, Arrive
  <2>2. PICK q : q = IF r.qtype = "TXT" THEN [NoQuery EXCEPT !.name = r.name, !.kept = txt[r.name]] ELSE NoQuery
    OBVIOUS
  <2>a. QueryShape(NoQuery) /\ NoQuery.name = Nameless /\ NoQuery.missed = FALSE
    BY NoQueryFacts
  <2>3. QueryShape(q) /\ q.missed = FALSE
    BY <2>2, <2>a DEF QueryShape
  <2>4. q.name # Nameless => r.qtype = "TXT" /\ q.name = r.name /\ q.kept = txt[r.name]
    BY <2>2, <2>a DEF QueryShape
  <2>5. PICK c : c = Arrived(r)
    OBVIOUS
  <2>6. c # Free /\ c.req = r /\ c.pc = "ask"
    BY <2>5 DEF Arrived, Free
  <2>7. r.qtype = "TXT" => r.name \in TXTNames
    BY MemberAssumption
  <2>8. q.name # Nameless => Kept(q, c, answer[w], txt)
    BY <2>3, <2>4, <2>6, <2>7 DEF Kept
  <2>9. Changes(conn, conn', w, c) /\ Changes(query, query', w, q) /\ Changes(answer, answer', w, answer[w])
    BY <2>1, <2>2, <2>5, Zenon DEF Changes
  <2> QED BY <1>5, <1>7, <2>1, <2>3, <2>8, <2>9, Zenon
<1>8. ASSUME workload = "dns", NEW w \in Workers, AnswerTXT(w) PROVE QueriesKept'
  <2>1. txt' = txt /\ query[w].name # Nameless /\ conn[w].pc = "ask" /\ ~query[w].missed
    BY <1>8, Zenon DEF AnswerTXT, Nameless
  <2>2. Kept(query[w], conn[w], answer[w], txt)
    BY <1>6, <2>1
  <2>3. CASE /\ txt[query[w].name] = {} /\ query' = [query EXCEPT ![w].missed = TRUE]
             /\ conn' = conn /\ answer' = answer
    <3>1. PICK q : q = [query[w] EXCEPT !.missed = TRUE]
      OBVIOUS
    <3>2. q.name = query[w].name /\ q.kept = query[w].kept /\ q.missed = TRUE /\ QueryShape(q)
      <4>1. QueryShape(query[w])
        BY <1>6
      <4> QED BY <3>1, <4>1 DEF QueryShape
    <3>3. query[w].kept = {}
      BY <2>1, <2>2, <2>3 DEF Kept
    <3>4. Kept(q, conn[w], answer[w], txt)
      BY <2>2, <3>2, <3>3 DEF Kept
    <3>5. /\ Changes(conn, conn', w, conn[w]) /\ Changes(query, query', w, q)
          /\ Changes(answer, answer', w, answer[w])
      BY <2>3, <3>1, Zenon DEF Changes
    <3> QED BY <1>5, <1>8, <2>1, <3>2, <3>4, <3>5, Zenon
  <2>4. CASE /\ txt[query[w].name] # {} /\ answer' = [answer EXCEPT ![w] = txt[query[w].name]]
             /\ conn' = [conn EXCEPT ![w] = [@ EXCEPT !.pc = "done", !.out = "txt"]] /\ query' = query
    <3>1. PICK c : c = [conn[w] EXCEPT !.pc = "done", !.out = "txt"]
      OBVIOUS
    <3>2. c.pc = "done" /\ c.req = conn[w].req /\ c # Free
      <4>1. Shape(conn[w])
        BY <1>0, <2>2, Zenon DEF MemberTypes, ConnOK, Kept
      <4> QED BY <3>1, <4>1 DEF Shape, Free
    <3>3. Kept(query[w], c, txt[query[w].name], txt)
      BY <2>1, <2>2, <3>2 DEF Kept
    <3>4. /\ Changes(conn, conn', w, c) /\ Changes(query, query', w, query[w])
          /\ Changes(answer, answer', w, txt[query[w].name])
      BY <2>4, <3>1, Zenon DEF Changes
    <3> QED BY <1>5, <1>6, <1>8, <2>1, <2>4, <3>3, <3>4, Zenon
  <2> QED BY <1>8, <2>3, <2>4, Zenon DEF AnswerTXT
<1>9. ASSUME workload = "dns", NEW w \in Workers, AskDNS(w) PROVE QueriesKept'
  <2>1. Asks(w) /\ (query[w].name # Nameless => query[w].missed) /\ txt' = txt /\ query' = query /\ answer' = answer
    BY <1>9, Zenon DEF AskDNS, Asks, dnsVars, Nameless
  <2>2. PICK hit \in BOOLEAN : \E d \in AfterQuestion(conn[w], hit) : conn' = [conn EXCEPT ![w] = d]
    BY <1>0, <2>1, AskedFairly, Zenon
  <2>3. PICK d \in AfterQuestion(conn[w], hit) : conn' = [conn EXCEPT ![w] = d]
    BY <2>2
  <2>4. Shape(conn[w]) /\ conn[w].pc = "ask" /\ conn[w] # Free
    BY <1>0, <2>1, AskedFairly, Zenon
  <2>5. d.pc \in {"ask", "end"} /\ d.req = conn[w].req
    BY <2>4 DEF AfterQuestion, Shape
  <2>6. d # Free
    BY <2>5 DEF Free
  <2>7. query[w].name # Nameless => Kept(query[w], d, answer[w], txt)
    <3> SUFFICES ASSUME query[w].name # Nameless PROVE Kept(query[w], d, answer[w], txt)
      BY Zenon
    <3>1. Kept(query[w], conn[w], answer[w], txt) /\ query[w].missed
      BY <1>6, <2>1, Zenon
    <3>2. d.pc # "done"
      BY <2>5
    <3> QED BY <2>5, <2>6, <3>1, <3>2, Zenon DEF Kept
  <2>8. Changes(conn, conn', w, d) /\ Changes(query, query', w, query[w]) /\ Changes(answer, answer', w, answer[w])
    BY <2>1, <2>3, Zenon DEF Changes
  <2> QED BY <1>5, <1>6, <1>9, <2>1, <2>3, <2>7, <2>8, Zenon
<1>10. ASSUME workload = "dns", NEW w \in Workers, AnswerDNS(w) PROVE QueriesKept'
  <2>1. txt' = txt /\ query' = query /\ answer' = answer /\ conn[w].pc = "end" /\ conn[w] # Free
    <3>1. UNCHANGED dnsVars
      BY <1>10, Zenon DEF AnswerDNS
    <3>2. conn[w].pc = "end" /\ conn[w] # Free
      BY <1>0, <1>10, AnsweredDNS, Zenon
    <3> QED BY <3>1, <3>2 DEF dnsVars
  <2>2. PICK d : /\ conn' = [conn EXCEPT ![w] = d] /\ Shape(d) /\ d.pc = "done" /\ d.req = conn[w].req
    BY <1>0, <1>10, AnsweredDNS
  <2>3. d # Free
    BY <2>2 DEF Free
  <2>4. query[w].name # Nameless => Kept(query[w], d, answer[w], txt)
    <3> SUFFICES ASSUME query[w].name # Nameless PROVE Kept(query[w], d, answer[w], txt)
      BY Zenon
    <3>1. Kept(query[w], conn[w], answer[w], txt)
      BY <1>6, Zenon
    <3>2. query[w].missed /\ query[w].kept = {}
      BY <2>1, <3>1, Zenon DEF Kept
    <3>3. {} \subseteq answer[w] /\ {} \subseteq txt[query[w].name]
      OBVIOUS
    <3> QED BY <2>2, <2>3, <3>1, <3>2, <3>3, Zenon DEF Kept
  <2>5. Changes(conn, conn', w, d) /\ Changes(query, query', w, query[w]) /\ Changes(answer, answer', w, answer[w])
    BY <2>1, <2>2, Zenon DEF Changes
  <2> QED BY <1>5, <1>6, <1>10, <2>1, <2>2, <2>4, <2>5, Zenon
<1>11. ASSUME workload = "dns", NEW w \in Workers, LeaveDNS(w) PROVE QueriesKept'
  <2>1. /\ conn' = [conn EXCEPT ![w] = Free] /\ query' = [query EXCEPT ![w] = NoQuery]
        /\ answer' = [answer EXCEPT ![w] = {}] /\ txt' = txt
    BY <1>11, Zenon DEF LeaveDNS, Leave
  <2>2. QueryShape(NoQuery) /\ NoQuery.name = Nameless
    BY NoQueryFacts
  <2>3. Changes(conn, conn', w, Free) /\ Changes(query, query', w, NoQuery) /\ Changes(answer, answer', w, {})
    BY <2>1, Zenon DEF Changes
  <2> QED BY <1>5, <1>11, <2>1, <2>2, <2>3, Zenon
<1>12. ASSUME workload = "dns", DNSNext(Crew[workload]) PROVE QueriesKept'
  <2>1. Crew[workload] \subseteq Workers
    BY <1>0, MemberAssumption DEF MemberTypes
  <2> QED BY <1>3, <1>4, <1>7, <1>8, <1>9, <1>10, <1>11, <1>12, <2>1, Zenon DEF DNSNext
<1>13. CASE Control /\ UNCHANGED <<conn, observerVars, libraryVars, dnsVars>>
  <2>1. UNCHANGED <<conn, dnsVars>>
    BY <1>13
  <2> QED BY <1>2, <2>1
<1>14. CASE workload \in {"http", "observe", "tls", "library"} /\ UNCHANGED dnsVars
  <2>1. workload # "dns"
    BY <1>14
  <2> QED BY <1>1, <1>14, <2>1
<1> QED BY <1>12, <1>13, <1>14 DEF MemberNext

\* The invariant holds at the start.
LEMMA MemberInvInit == MemberInit => MemberInv
<1> SUFFICES ASSUME MemberInit PROVE MemberInv
  OBVIOUS
<1>1. Init /\ PlaneInit /\ DNSInit /\ workload \in DOMAIN Activations /\ script \subseteq Activations[workload]
  BY DEF MemberInit
<1>2. TypeOK /\ AllAddressed
  <2>1. TypeOK /\ (\A k \in DOMAIN failures : Addressed(failures[k].spec)) /\ \A h \in Handlers : setting[h] = Idle
    BY <1>1 DEF Init, TypeOK
  <2>2. \A w \in Workers : span[w].always = {}
    BY <1>1 DEF PlaneInit, NoSpan
  <2> QED BY <2>1, <2>2 DEF AllAddressed
<1>3. MemberTypes /\ \A w \in Workers : conn[w] = Free
  BY <1>1, <1>2 DEF PlaneInit, MemberTypes, ConnOK
<1>4. AllTold
  BY <1>3, Zenon DEF AllTold
<1>5. QueriesKept
  <2>1. /\ DOMAIN txt = TXTNames /\ DOMAIN query = Workers /\ DOMAIN answer = Workers
        /\ \A w \in Workers : query[w] = NoQuery
    BY <1>1 DEF DNSInit
  <2> QED BY <2>1, NoQueryFacts, Zenon DEF QueriesKept
<1> QED BY <1>3, <1>4, <1>5 DEF MemberInv

\* The invariant is inductive.
LEMMA MemberInvStep == MemberInv /\ [MemberNext]_memberVars => MemberInv'
<1>1. ASSUME MemberInv, MemberNext PROVE MemberInv'
  BY <1>1, TypesKept, QueriesStayKept DEF MemberInv
<1>2. ASSUME MemberInv, UNCHANGED memberVars PROVE MemberInv'
  <2>1. /\ failures' = failures /\ now' = now /\ setting' = setting /\ conn' = conn /\ span' = span
        /\ txt' = txt /\ query' = query /\ answer' = answer /\ workload' = workload /\ script' = script
    BY <1>2 DEF memberVars, vars, planeVars, dnsVars
  <2>2. MemberTypes'
    <3>1. TypeOK'
      BY <1>2, <2>1 DEF MemberInv, MemberTypes, TypeOK
    <3>2. AllAddressed'
      BY <1>2, <2>1, Zenon DEF MemberInv, MemberTypes, AllAddressed
    <3> QED BY <1>2, <2>1, <3>1, <3>2, Zenon DEF MemberInv, MemberTypes, ConnOK, Proper
  <2>3. AllTold'
    BY <1>2, <2>1, Zenon DEF MemberInv, AllTold
  <2>4. QueriesKept'
    BY <1>2, <2>1, Zenon DEF MemberInv, QueriesKept
  <2> QED BY <2>2, <2>3, <2>4 DEF MemberInv
<1> QED BY <1>1, <1>2

\* Whatever the member serves, MemberInv holds.
THEOREM MemberCorrect == MemberSpec => []MemberInv
<1> QED BY MemberInvInit, MemberInvStep, PTL DEF MemberSpec

-----------------------------------------------------------------------------
(* What follows from the invariant *)

\* A request is failed, delayed or degraded only by a failure that was in effect
\* while it was served and was declared for it, and no failure in effect all
\* along goes unnoticed: for every set of failures, hosts, paths, source ranges,
\* goroutines and requests, whenever activations, removals and expiry fall
\* between two questions of the same request.
THEOREM ResponsesCorrect == MemberSpec => []ResponsesFollowFailures
<1>1. MemberInv => ResponsesFollowFailures
  <2> SUFFICES ASSUME MemberInv PROVE ResponsesFollowFailures
    OBVIOUS
  <2>1. ASSUME NEW w \in Workers, conn[w].pc = "end"
        PROVE  Justified(conn[w], span[w]) /\ Noticed(conn[w], span[w])
    <3>1. conn[w] # Free
      BY <2>1 DEF Free
    <3> QED BY <2>1, <3>1 DEF MemberInv, AllTold, Told, Watched
  <2>2. FailureIsJustified
    BY <2>1 DEF FailureIsJustified, Justified
  <2>3. FailureIsVisible
    <3> SUFFICES ASSUME NEW w \in Workers, conn[w].pc = "end", conn[w].out = "ok", NEW s \in span[w].always,
                        Owed(s, span[w], conn[w].req)
                 PROVE  s.type \in conn[w].noted
      BY DEF FailureIsVisible, Owed
    <3> QED BY <2>1 DEF Noticed
  <2> QED BY <2>2, <2>3 DEF ResponsesFollowFailures
<1> QED BY <1>1, MemberCorrect, PTL

\* An ACME challenge that was stored when a query came in, and that was not
\* removed meanwhile, is in the answer.
THEOREM ChallengesAnswered == MemberSpec => []ChallengeIsAnswered
<1>1. MemberInv => ChallengeIsAnswered
  BY Zenon DEF MemberInv, QueriesKept, Kept, ChallengeIsAnswered, Nameless
<1> QED BY <1>1, MemberCorrect, PTL

\* The probe's timeout is a number.
LEMMA TimeoutIsNat ==
    ASSUME NEW p \in Probes, NEW t PROVE dnsExposureProbeTimeout(t, p) \in Nat
BY ProbeAssumption DEF ProbeAssumption, dnsExposureProbeTimeout, Second

\* The probe waits longer than the network takes, and than the latency and the
\* network together when it is about the latency.
LEMMA ProbeWaits ==
    ASSUME NEW p \in Probes, Measurable(p), NEW t
    PROVE  /\ p.network < dnsExposureProbeTimeout(t, p)
           /\ t = "dns_latency" => p.network + p.latency < dnsExposureProbeTimeout(t, p)
           /\ p.network \in Nat /\ p.latency \in Nat /\ p.latency > p.network + 1
<1>1. p.network \in Nat /\ p.latency \in Nat /\ p.control \in Nat
  BY ProbeAssumption DEF ProbeAssumption
<1>2. /\ p.network < 40 /\ p.latency > p.network + 1
      /\ p.control > 0 => p.latency + p.network < p.control
      /\ p.latency < 120 => p.latency + p.network < 120
  BY <1>1 DEF Measurable, Second
<1>3. PICK x : x = IF p.control > 0 /\ p.control < 120 THEN p.control ELSE 120
  OBVIOUS
<1>4. dnsExposureProbeTimeout(t, p) =
        IF t # "dns_latency" \/ p.latency = 0 \/ x > p.latency THEN x
        ELSE IF p.control > 0 /\ p.latency + 40 > p.control THEN p.control ELSE p.latency + 40
  BY <1>1, <1>3 DEF dnsExposureProbeTimeout, Second
<1>5. x \in Nat /\ x > p.network /\ (x > p.latency => x > p.latency + p.network)
  BY <1>1, <1>2, <1>3
<1> QED BY <1>1, <1>2, <1>4, <1>5

\* A probe of a served name that met one failure, or none: how it reads the
\* answer.
LEMMA ProbeReads ==
    ASSUME NEW p \in Probes, Measurable(p), NEW c
    PROVE  /\ c.out \in Injected("dns") \ Noted /\ "dns_latency" \notin c.noted => Observable(c, c.out, p)
           /\ c.out = "address" /\ "dns_latency" \in c.noted => Observable(c, "dns_latency", p)
           /\ c.out = "address" /\ "dns_latency" \notin c.noted => \A t \in Injected("dns") : ~Observable(c, t, p)
<1>1. Injected("dns") \ Noted = {"dns_timeout", "dns_servfail", "dns_ns_unavailable", "dns_nxdomain", "dns_cname_nxdomain"}
  BY DEF Injected, Noted
\* No latency: only the drop counts.
<1>2. ASSUME "dns_latency" \notin c.noted, NEW t
      PROVE  probeAuthoritativeDNS(c, t, p) =
               IF Dropped(c.out, p)
               THEN [error |-> "timeout", rcode |-> 0, cname |-> FALSE, elapsed |-> dnsExposureProbeTimeout(t, p)]
               ELSE [error |-> "none", rcode |-> parseDNSProbeResponse(c.out).rcode,
                     cname |-> parseDNSProbeResponse(c.out).cname, elapsed |-> p.network]
  <2>1. p.network \in Nat /\ p.network + 0 = p.network
    BY ProbeWaits
  <2>2. PICK x : x = dnsExposureProbeTimeout(t, p) /\ p.network < x
    BY ProbeWaits
  <2>3. ~(p.network >= x)
    <3>1. x \in Nat
      BY <2>2, TimeoutIsNat
    <3> QED BY <2>1, <2>2, <3>1
  <2> QED BY <1>2, <2>1, <2>2, <2>3 DEF probeAuthoritativeDNS
<1>3. ASSUME c.out \in Injected("dns") \ Noted, "dns_latency" \notin c.noted
      PROVE  Observable(c, c.out, p)
  <2>1. PICK k : k = probeAuthoritativeDNS(c, c.out, p)
    OBVIOUS
  <2>2. Dropped(c.out, p) <=> c.out = "dns_timeout" \/ (c.out = "dns_ns_unavailable" /\ p.mode # "servfail")
    BY <1>1, <1>3 DEF Dropped
  <2>3. /\ Dropped(c.out, p) => k.error = "timeout"
        /\ ~Dropped(c.out, p) => /\ k.error = "none" /\ k.rcode = parseDNSProbeResponse(c.out).rcode
                                 /\ k.cname = parseDNSProbeResponse(c.out).cname
    BY <1>2, <1>3, <2>1
  <2>4. /\ c.out = "dns_servfail" => parseDNSProbeResponse(c.out).rcode = 2
        /\ c.out = "dns_ns_unavailable" => parseDNSProbeResponse(c.out).rcode = 2
        /\ c.out = "dns_nxdomain" => parseDNSProbeResponse(c.out).rcode = 3
        /\ c.out = "dns_cname_nxdomain" => parseDNSProbeResponse(c.out).rcode = 0 /\ parseDNSProbeResponse(c.out).cname = TRUE
    BY DEF parseDNSProbeResponse
  <2>5. dnsProbeMatchesFailure(c.out, p, k)
    BY <1>1, <1>3, <2>2, <2>3, <2>4 DEF dnsProbeMatchesFailure
  <2> QED BY <2>1, <2>5 DEF Observable
<1>4. parseDNSProbeResponse("address").rcode = 0 /\ parseDNSProbeResponse("address").cname = FALSE
      /\ ~Dropped("address", p)
  BY DEF parseDNSProbeResponse, Dropped
<1>5. ASSUME c.out = "address", "dns_latency" \in c.noted PROVE Observable(c, "dns_latency", p)
  <2>1. PICK x : x = dnsExposureProbeTimeout("dns_latency", p)
    OBVIOUS
  <2>2. x \in Nat /\ p.network + p.latency < x /\ p.network \in Nat /\ p.latency \in Nat
    BY <2>1, ProbeWaits, TimeoutIsNat
  <2>3. PICK k : k = probeAuthoritativeDNS(c, "dns_latency", p)
    OBVIOUS
  <2>4. k = [error |-> "none", rcode |-> 0, cname |-> FALSE, elapsed |-> p.network + p.latency]
    <3>1. ~(p.network + p.latency >= x)
      BY <2>2
    <3> QED BY <1>4, <1>5, <2>1, <2>3, <3>1 DEF probeAuthoritativeDNS
  <2>5. k.error = "none" /\ k.rcode = 0 /\ k.elapsed + 1 >= p.latency
    BY <2>2, <2>4
  <2>6. dnsProbeMatchesFailure("dns_latency", p, k)
    BY <2>5 DEF dnsProbeMatchesFailure
  <2> QED BY <2>3, <2>6 DEF Observable
<1>6. ASSUME c.out = "address", "dns_latency" \notin c.noted, NEW t \in Injected("dns") PROVE ~Observable(c, t, p)
  <2>1. PICK k : k = probeAuthoritativeDNS(c, t, p)
    OBVIOUS
  <2>2. k.error = "none" /\ k.rcode = 0 /\ k.cname = FALSE /\ k.elapsed = p.network
    BY <1>2, <1>4, <1>6, <2>1
  <2>3. ~(k.elapsed + 1 >= p.latency)
    <3>1. p.network \in Nat /\ p.latency \in Nat /\ p.latency > p.network + 1
      BY ProbeWaits
    <3> QED BY <2>2, <3>1
  <2>4. t \in {"dns_timeout", "dns_latency", "dns_servfail", "dns_ns_unavailable", "dns_nxdomain", "dns_cname_nxdomain"}
    BY <1>6 DEF Injected
  <2>5. ~dnsProbeMatchesFailure(t, p, k)
    <3>1. ~k.cname
      BY <2>2, Zenon
    <3>2. k.error = "none" /\ k.rcode = 0
      BY <2>2
    <3>3. CASE t = "dns_nxdomain"
      BY <3>2, <3>3 DEF dnsProbeMatchesFailure
    <3>4. CASE t = "dns_servfail"
      BY <3>2, <3>4 DEF dnsProbeMatchesFailure
    <3>5. CASE t = "dns_timeout"
      BY <3>2, <3>5 DEF dnsProbeMatchesFailure
    <3>6. CASE t = "dns_ns_unavailable"
      <4>1. dnsProbeMatchesFailure("dns_ns_unavailable", p, k) =
              IF p.mode = "servfail" THEN k.error = "none" /\ k.rcode = 2 ELSE ~(k.error = "none")
        BY DEF dnsProbeMatchesFailure
      <4>2. k.error = "none" /\ k.rcode # 2
        BY <3>2
      <4> QED BY <3>6, <4>1, <4>2, Zenon
    <3>7. CASE t = "dns_latency"
      BY <2>3, <3>7 DEF dnsProbeMatchesFailure
    <3>8. CASE t = "dns_cname_nxdomain"
      BY <3>1, <3>8 DEF dnsProbeMatchesFailure
    <3> QED BY <2>4, <3>3, <3>4, <3>5, <3>6, <3>7, <3>8
  <2> QED BY <2>1, <2>5 DEF Observable
<1> QED BY <1>3, <1>5, <1>6

\* The exposure probe recognises a failure that was in effect all along, and
\* none when there was none, for every latency, mode, timeout and network the
\* probe can measure.
THEOREM ProbeCorrect == MemberSpec => []ProbeSeesTheFailure
<1>1. MemberInv => ProbeSeesTheFailure
  <2> SUFFICES ASSUME MemberInv, NEW w \in Workers, conn[w].pc = "done", conn[w].req \in buildDNSAQuery,
                      LookupA(conn[w].req.name), NEW p \in Probes, Measurable(p)
               PROVE  /\ \A s \in span[w].always :
                           s.type \in Injected("dns") /\ s.rate = "every" /\ s.cidrs = {} /\ span[w].ever = {s}
                              => Observable(conn[w], s.type, p)
                      /\ span[w].ever = {} => \A t \in Injected("dns") : ~Observable(conn[w], t, p)
    BY DEF ProbeSeesTheFailure
  <2>1. PICK c, sp, r : c = conn[w] /\ sp = span[w] /\ r = conn[w].req
    OBVIOUS
  <2>2. c # Free /\ r = c.req /\ c.pc = "done"
    BY <2>1 DEF Free
  <2>3. Justified(c, sp) /\ Outcomes(c) /\ Noticed(c, sp)
    BY <2>1, <2>2 DEF MemberInv, AllTold, Told, Watched, Probed
  <2>4. r.kind = "dns" /\ r.misses = {} /\ r \in Queries
    BY <2>1, MemberAssumption DEF buildDNSAQuery
  <2>5. c.noted \subseteq Noted /\ c.out \in {"address"} \cup (Injected("dns") \ Noted)
    BY <2>2, <2>3, <2>4 DEF Outcomes
  <2>6. "dns_latency" \in Injected("dns") \cap Noted /\ Injected("dns") \cap Noted \subseteq {"dns_latency"}
        /\ "address" \notin Injected("dns")
    BY DEF Injected, Noted
  <2>7. ASSUME NEW s \in sp.always, s.type \in Injected("dns"), s.rate = "every", s.cidrs = {}, sp.ever = {s}
        PROVE  Observable(c, s.type, p)
    <3>1. Addressed(s)
      BY <2>1, <2>7 DEF MemberInv, MemberTypes, AllAddressed
    <3>2. s.host = Any /\ s.path = Any
      <4>1. ({"tcp_refused"} \cup Injected("dns")) \cap ({"tcp_timeout"} \cup Injected("tls")) = {}
        BY DEF Injected
      <4>2. \A h, q : targetHostPathForFailure(h, q, s.type) = <<Any, Any>>
        BY <2>7, <4>1 DEF targetHostPathForFailure
      <4> QED BY <3>1, <4>2 DEF Addressed
    <3>3. About(s, r)
      BY <2>4, <2>7, <3>2 DEF About
    <3>4. Owed(s, sp, r)
      BY <2>7, <3>3 DEF Owed
    <3>5. \A t \in (c.noted \cup {c.out}) \cap Injected("dns") : t = s.type
      BY <2>2, <2>3, <2>4, <2>7 DEF Justified
    <3>6. c.out = "address" => s.type \in c.noted
      BY <2>2, <2>3, <2>7, <3>4 DEF Noticed
    <3>7. CASE c.out = "address"
      <4>1. s.type = "dns_latency" /\ "dns_latency" \in c.noted
        BY <2>5, <2>6, <2>7, <3>6, <3>7
      <4> QED BY <3>7, <4>1, ProbeReads
    <3>8. CASE c.out \in Injected("dns") \ Noted
      <4>1. c.out = s.type /\ "dns_latency" \notin c.noted
        BY <2>6, <3>5, <3>8
      <4> QED BY <3>8, <4>1, ProbeReads
    <3> QED BY <2>5, <3>7, <3>8
  <2>8. ASSUME sp.ever = {}, NEW t \in Injected("dns") PROVE ~Observable(c, t, p)
    <3>1. (c.noted \cup {c.out}) \cap Injected("dns") = {}
      BY <2>2, <2>3, <2>4, <2>8 DEF Justified
    <3>2. c.out = "address" /\ "dns_latency" \notin c.noted
      BY <2>5, <2>6, <3>1
    <3> QED BY <3>2, ProbeReads
  <2> QED BY <2>1, <2>7, <2>8
<1> QED BY <1>1, MemberCorrect, PTL

-----------------------------------------------------------------------------
(* What the capacity observer counts *)

\* The counters of a service in a window.
Service ==
    {s \in [pattern : STRING, start : Int, count : Nat \ {0},
            requests : UNION {[0..(n - 1) -> Nat] : n \in Nat}, lastSeen : SUBSET Nat, total : Nat,
            statuses : [{"ok", "failed", "none"} -> Nat],
            statusHosts : SUBSET ({"ok", "failed", "none"} \X Nat)] :
        s.requests \in [0..(s.count - 1) -> Nat] /\ s.lastSeen \subseteq 0..(s.count - 1)}

Counters == Seq(Service) \ {<<>>}

\* The requests, one by one, that the counters of s place at a site seen.
Tally(s) == UNION {{n} \X (1..s.requests[n]) : n \in s.lastSeen}

LEMMA RowsFinite ==
    ASSUME NEW H, IsFiniteSet(H), NEW f, \A n \in H : f[n] \in Nat
    PROVE  IsFiniteSet(UNION {{n} \X (1..f[n]) : n \in H})
<1> DEFINE of(n) == {n} \X (1..f[n])
           T == {of(n) : n \in H}
           g == [n \in H |-> of(n)]
<1>1. \A n \in H : IsFiniteSet(of(n))
  <2> TAKE n \in H
  <2>1. 1 \in Int /\ f[n] \in Int
    OBVIOUS
  <2>2. IsFiniteSet(1..f[n]) /\ IsFiniteSet({n})
    BY <2>1, FS_Interval, FS_Singleton
  <2> QED BY <2>2, FS_Product
<1>2. IsFiniteSet(T)
  <2>1. g \in Surjection(H, T)
    BY DEF Surjection
  <2> HIDE DEF T, g
  <2> QED BY <2>1, FS_Surjection
<1> QED BY <1>1, <1>2, FS_UNION

LEMMA TallyFinite ==
    ASSUME NEW s \in Service
    PROVE  IsFiniteSet(Tally(s)) /\ Cardinality(Tally(s)) \in Nat
<1>1. s.count \in Nat /\ s.lastSeen \subseteq 0..(s.count - 1) /\ \A n \in s.lastSeen : s.requests[n] \in Nat
  BY DEF Service
<1>2. 0 \in Int /\ s.count - 1 \in Int
  BY <1>1
<1>3. IsFiniteSet(0..(s.count - 1))
  BY <1>2, FS_Interval
<1>4. IsFiniteSet(s.lastSeen)
  BY <1>1, <1>3, FS_Subset
<1>5. IsFiniteSet(Tally(s))
  BY <1>1, <1>4, RowsFinite DEF Tally
<1> QED BY <1>5, FS_CardinalityType

\* The kinds of status that are counted.
LEMMA StatusKind == ASSUME NEW c PROVE StatusOf(c) \in {"ok", "failed", "none"}
BY DEF StatusOf

\* The service x became y: what is asked of requests is the same, and every
\* request that was placed still is.
Grown(x, y) ==
    /\ y \in Service /\ y.pattern = x.pattern /\ y.start = x.start /\ y.count = x.count
    /\ Tally(x) \subseteq Tally(y)

\* The counters y are s after the step e for a request at site n.
Changed(s, y, n, e) ==
    /\ Grown(s, y)
    /\ y.total = IF e = "total" THEN s.total + 1 ELSE s.total
    /\ y.lastSeen = IF e = "seen" THEN s.lastSeen \cup {n} ELSE s.lastSeen
    /\ DOMAIN y.requests = DOMAIN s.requests
    /\ \A d \in DOMAIN s.requests :
         y.requests[d] = IF e = "count" /\ d = n THEN s.requests[d] + 1 ELSE s.requests[d]

\* One counter is changed, and nothing that was placed is lost.
LEMMA CountedFacts ==
    ASSUME NEW s \in Service, NEW n \in 0..(s.count - 1), NEW e \in {"count", "seen", "total", "status"},
           NEW c \in {"ok", "failed", "none"}
    PROVE  Changed(s, Counted(s, n, e, c), n, e)
<1> DEFINE s2 == Counted(s, n, e, c)
<1>0. n \in Nat /\ s.count \in Nat /\ s.requests \in [0..(s.count - 1) -> Nat] /\ s.total \in Nat
      /\ s.lastSeen \subseteq 0..(s.count - 1) /\ s.statuses \in [{"ok", "failed", "none"} -> Nat]
      /\ s.statusHosts \subseteq {"ok", "failed", "none"} \X Nat
  BY DEF Service
<1>1. /\ s2.pattern = s.pattern /\ s2.start = s.start /\ s2.count = s.count
      /\ s2.total = IF e = "total" THEN s.total + 1 ELSE s.total
      /\ s2.lastSeen = IF e = "seen" THEN s.lastSeen \cup {n} ELSE s.lastSeen
      /\ s2.requests = IF e = "count" THEN [s.requests EXCEPT ![n] = @ + 1] ELSE s.requests
      /\ s2.statuses = IF e = "status" THEN [s.statuses EXCEPT ![c] = @ + 1] ELSE s.statuses
      /\ s2.statusHosts = IF e = "status" /\ c # "ok" THEN s.statusHosts \cup {<<c, n>>} ELSE s.statusHosts
      /\ s2 = [pattern |-> s2.pattern, start |-> s2.start, count |-> s2.count, requests |-> s2.requests,
               lastSeen |-> s2.lastSeen, total |-> s2.total, statuses |-> s2.statuses,
               statusHosts |-> s2.statusHosts]
  <2>1. s = [pattern |-> s.pattern, start |-> s.start, count |-> s.count, requests |-> s.requests,
             lastSeen |-> s.lastSeen, total |-> s.total, statuses |-> s.statuses,
             statusHosts |-> s.statusHosts]
    BY DEF Service
  <2>2. CASE e = "count"
    BY <2>1, <2>2 DEF Counted
  <2>3. CASE e = "seen"
    BY <2>1, <2>3 DEF Counted
  <2>4. CASE e = "total"
    BY <2>1, <2>4 DEF Counted
  <2>5. CASE e = "status"
    BY <2>1, <2>5 DEF Counted
  <2> QED BY <2>2, <2>3, <2>4, <2>5
<1> HIDE DEF s2
<1>2. /\ DOMAIN s2.requests = DOMAIN s.requests
      /\ \A d \in DOMAIN s.requests :
           s2.requests[d] = IF e = "count" /\ d = n THEN s.requests[d] + 1 ELSE s.requests[d]
      /\ s2.requests \in [0..(s.count - 1) -> Nat]
  BY <1>0, <1>1
<1>3. s2 \in Service
  <2>1. s2.requests \in UNION {[0..(a - 1) -> Nat] : a \in Nat}
    BY <1>0, <1>2
  <2>2. s2.statuses \in [{"ok", "failed", "none"} -> Nat]
    BY <1>0, <1>1
  <2>3. s2.statusHosts \subseteq {"ok", "failed", "none"} \X Nat
    BY <1>0, <1>1
  <2>4. s2.lastSeen \subseteq Nat /\ s2.lastSeen \subseteq 0..(s.count - 1) /\ s2.total \in Nat
    BY <1>0, <1>1
  <2>5. s.pattern \in STRING /\ s.start \in Int /\ s.count \in Nat \ {0}
    BY DEF Service
  <2> QED BY <1>1, <1>2, <2>1, <2>2, <2>3, <2>4, <2>5 DEF Service
<1>4. Tally(s) \subseteq Tally(s2)
  <2> SUFFICES ASSUME NEW d \in s.lastSeen, NEW m \in 1..s.requests[d]
               PROVE  d \in s2.lastSeen /\ m \in 1..s2.requests[d]
    BY DEF Tally
  <2>1. d \in DOMAIN s.requests /\ s.requests[d] \in Nat
    BY <1>0
  <2> QED BY <1>1, <1>2, <2>1
<1>5. Changed(s, s2, n, e)
  BY <1>1, <1>2, <1>3, <1>4 DEF Changed, Grown
<1> QED BY <1>5 DEF s2

\* The windows y are x with the counters s for service b of window a.
Replaced(x, y, a, b, s) ==
    /\ y \in Seq(Counters) /\ Len(y) = Len(x)
    /\ \A k \in 1..Len(x) :
         /\ Len(y[k]) = Len(x[k])
         /\ \A j \in 1..Len(x[k]) : y[k][j] = IF k = a /\ j = b THEN s ELSE x[k][j]

LEMMA OneService ==
    ASSUME NEW x \in Seq(Counters), NEW a \in 1..Len(x), NEW b \in 1..Len(x[a]), NEW s \in Service
    PROVE  Replaced(x, [x EXCEPT ![a][b] = s], a, b, s)
<1>0. PICK y : y = [x EXCEPT ![a][b] = s]
  OBVIOUS
<1>1. x[a] \in Counters
  BY ElementOfSeq
<1>2. x[a] \in Seq(Service) /\ Len(x[a]) \in Nat
  BY <1>1 DEF Counters
<1>3. PICK t : t = [x[a] EXCEPT ![b] = s]
  OBVIOUS
<1>4. /\ t \in Seq(Service) /\ Len(t) = Len(x[a])
      /\ \A j \in 1..Len(x[a]) : t[j] = IF j = b THEN s ELSE x[a][j]
  BY <1>2, <1>3, ExceptSeq
<1>5. t \in Counters
  <2>1. Len(t) # 0
    BY <1>2, <1>4
  <2>2. t # <<>>
    BY <2>1
  <2> QED BY <1>4, <2>2 DEF Counters
<1>6. y = [x EXCEPT ![a] = t]
  BY <1>0, <1>3
<1>7. /\ y \in Seq(Counters) /\ Len(y) = Len(x)
      /\ \A k \in 1..Len(x) : y[k] = IF k = a THEN t ELSE x[k]
  BY <1>5, <1>6, ExceptSeq
<1>8. Replaced(x, y, a, b, s)
  BY <1>4, <1>7 DEF Replaced
<1> QED BY <1>0, <1>8

-----------------------------------------------------------------------------
(* The invariant of the observer *)

\* The goroutine w is about to take the n-th step for service j of window k.
Doing(w, k, j, n) == recording[w].stage = n /\ recording[w].win = k /\ recording[w].svc = j

\* The site of its request there.
SiteOf(w, k, j) == Offset(windows[k][j], conn[w].req)

\* Requests that are counted at a site that does not count as seen yet, and
\* those that are placed but not in the total.
Unseen(k, j, n) == {w \in Workers : Doing(w, k, j, 2) /\ SiteOf(w, k, j) = n}
Untotalled(k, j) ==
    {w \in Workers : Doing(w, k, j, 3) \/ (Doing(w, k, j, 2) /\ SiteOf(w, k, j) \in windows[k][j].lastSeen)}

\* The total never runs ahead of what is placed, and what is not placed yet will
\* be by the goroutines that counted it.
Balanced(k, j) ==
    LET s == windows[k][j]
    IN  /\ s.total + Cardinality(Untotalled(k, j)) <= Cardinality(Tally(s))
        /\ \A n \in DOMAIN s.requests \ s.lastSeen : Cardinality(Unseen(k, j, n)) <= s.requests[n]

\* A goroutine that records has served its request, and from the second step on
\* the request is one of the service.
RecordingOK(w) ==
    \/ recording[w] = NotRecording
    \/ /\ recording[w] \in [stage : 1..4, win : 1..Len(windows), svc : Nat]
       /\ recording[w].svc \in 1..Len(windows[recording[w].win])
       /\ conn[w].pc = "end"
       /\ recording[w].stage > 1 => Belongs(windows[recording[w].win][recording[w].svc], conn[w].req)

Readers(W) ==
    [stage : {"requests", "seen", "read"}, win : W, svc : Nat, at : Nat,
     total : Nat, requests : Seq(Nat), observed : SUBSET Nat]

\* What the reader r has of the service s.  What was placed when the summary
\* read the total is still placed, and the sites the summary has passed show it.
Shows(r, s) ==
    /\ IF r.stage = "read" THEN r.at = s.count ELSE r.at < s.count
    /\ Len(r.requests) = IF r.stage = "seen" THEN r.at + 1 ELSE r.at
    /\ \A n \in r.observed : n < r.at
    /\ \E P \in SUBSET Tally(s) :
         /\ r.total <= Cardinality(P)
         /\ \A e \in P :
              /\ e[1] < r.at => e[1] \in r.observed
              /\ e[1] < Len(r.requests) => e[2] <= r.requests[e[1] + 1]

ReaderFits(r, x) ==
    \/ r = NotReading
    \/ r \in Readers(1..Len(x)) /\ r.svc \in 1..Len(x[r.win]) /\ Shows(r, x[r.win][r.svc])

ReaderOK == ReaderFits(reader, windows)

Recordings ==
    /\ windows \in Seq(Counters)
    /\ DOMAIN recording = Workers /\ \A w \in Workers : RecordingOK(w)
    /\ \A k \in 1..Len(windows) : \A j \in 1..Len(windows[k]) : Balanced(k, j)
    /\ workload \notin {"http", "observe"} => windows = <<>>

ObserverInv == Recordings /\ ReaderOK

LEMMA ObserverInvInit == MemberInit => ObserverInv
<1> SUFFICES ASSUME MemberInit PROVE ObserverInv
  OBVIOUS
<1>1. windows = <<>> /\ recording = [w \in Workers |-> NotRecording] /\ reader = NotReading
  BY DEF MemberInit, ObserverInit
<1>2. windows \in Seq(Counters) /\ Len(windows) = 0
  BY <1>1
<1> QED BY <1>1, <1>2 DEF ObserverInv, Recordings, ReaderOK, ReaderFits, RecordingOK

\* Requests that arrive or are asked about, and a summary that is read, leave
\* the counting alone.
LEMMA RecordingsKept ==
    ASSUME Recordings, UNCHANGED <<windows, recording>>, workload' = workload,
           (\A w \in Workers : conn[w].pc = "end" => conn'[w] = conn[w]) \/ windows = <<>>
    PROVE  Recordings'
<1>1. windows \in Seq(Counters) /\ (windows = <<>> => Len(windows) = 0)
      /\ \A w \in Workers : RecordingOK(w)
  BY DEF Recordings
<1>2. \A w \in Workers : recording[w] = NotRecording \/ (conn[w].pc = "end" /\ conn'[w] = conn[w])
  BY <1>1 DEF RecordingOK
<1>3. ASSUME NEW w \in Workers PROVE RecordingOK(w)'
  BY <1>1, <1>2 DEF RecordingOK
<1>4. ASSUME NEW k \in 1..Len(windows), NEW j \in 1..Len(windows[k]) PROVE Balanced(k, j)'
  <2>1. Balanced(k, j)
    BY DEF Recordings
  <2>2. \A w \in Workers, a \in {2, 3} :
          /\ Doing(w, k, j, a)' <=> Doing(w, k, j, a)
          /\ Doing(w, k, j, a) => SiteOf(w, k, j)' = SiteOf(w, k, j)
    BY <1>2 DEF Doing, SiteOf, NotRecording
  <2>3. Untotalled(k, j)' = Untotalled(k, j) /\ \A n : Unseen(k, j, n)' = Unseen(k, j, n)
    BY <2>2 DEF Untotalled, Unseen
  <2> QED BY <2>1, <2>3 DEF Balanced
<1> QED BY <1>1, <1>3, <1>4 DEF Recordings

LEMMA ObserverUntouched ==
    ASSUME ObserverInv, UNCHANGED <<windows, recording, reader>>, workload' = workload,
           (\A w \in Workers : conn[w].pc = "end" => conn'[w] = conn[w]) \/ windows = <<>>
    PROVE  ObserverInv'
<1>1. Recordings'
  BY RecordingsKept DEF ObserverInv
<1>2. ReaderOK'
  BY DEF ObserverInv, ReaderOK
<1> QED BY <1>1, <1>2 DEF ObserverInv

-----------------------------------------------------------------------------
(* Recording *)

LEMMA ServiceAt ==
    ASSUME windows \in Seq(Counters), NEW k \in 1..Len(windows), NEW j \in 1..Len(windows[k])
    PROVE  windows[k][j] \in Service /\ windows[k] \in Seq(Service) /\ windows[k] # <<>> /\ Len(windows[k]) \in Nat
<1>1. windows[k] \in Counters
  BY ElementOfSeq
<1>2. windows[k] \in Seq(Service) /\ windows[k] # <<>>
  BY <1>1 DEF Counters
<1> QED BY <1>2, ElementOfSeq, LenProperties

\* A step by which services at most grow leaves the reader sound.
LEMMA ReaderKept ==
    ASSUME ReaderOK, UNCHANGED reader, Len(windows) <= Len(windows'), Len(windows) \in Nat, Len(windows') \in Nat,
           \A k \in 1..Len(windows) : /\ Len(windows'[k]) = Len(windows[k])
                                      /\ \A j \in 1..Len(windows[k]) : Grown(windows[k][j], windows'[k][j])
    PROVE  ReaderOK'
<1>1. CASE reader = NotReading
  BY <1>1 DEF ReaderOK, ReaderFits
<1>2. CASE reader # NotReading
  <2> DEFINE x == windows[reader.win][reader.svc]
             y == windows'[reader.win][reader.svc]
  <2>1. reader \in Readers(1..Len(windows)) /\ reader.svc \in 1..Len(windows[reader.win]) /\ Shows(reader, x)
    BY <1>2 DEF ReaderOK, ReaderFits
  <2>2. reader.win \in 1..Len(windows)
    BY <2>1 DEF Readers
  <2>3. Grown(x, y) /\ Len(windows'[reader.win]) = Len(windows[reader.win])
    BY <2>1, <2>2
  <2>4. reader \in Readers(1..Len(windows'))
    <3>1. 1..Len(windows) \subseteq 1..Len(windows')
      OBVIOUS
    <3> QED BY <2>1, <3>1 DEF Readers
  <2> HIDE DEF x, y
  <2>5. Shows(reader, y)
    BY <2>1, <2>3 DEF Shows, Grown
  <2> QED BY <2>1, <2>3, <2>4, <2>5 DEF ReaderOK, ReaderFits, y
<1> QED BY <1>1, <1>2

\* Where w neither places nor totals a request, before and after the step,
\* nothing changes.
LEMMA ElsewhereBalanced ==
    ASSUME NEW w \in Workers, NEW k, NEW j, Balanced(k, j),
           windows'[k][j] = windows[k][j],
           \A v \in Workers : v # w => recording'[v] = recording[v] /\ conn'[v] = conn[v],
           ~Doing(w, k, j, 2), ~Doing(w, k, j, 3), ~Doing(w, k, j, 2)', ~Doing(w, k, j, 3)'
    PROVE  Balanced(k, j)'
<1>1. \A v \in Workers : v # w => (\A n : Doing(v, k, j, n)' <=> Doing(v, k, j, n)) /\ SiteOf(v, k, j)' = SiteOf(v, k, j)
  BY DEF Doing, SiteOf
<1>2. Untotalled(k, j)' = Untotalled(k, j)
  BY <1>1 DEF Untotalled
<1>3. \A n : Unseen(k, j, n)' = Unseen(k, j, n)
  BY <1>1 DEF Unseen
<1> QED BY <1>2, <1>3 DEF Balanced

LEMMA NextService ==
    ASSUME NEW S, NEW m \in [stage : 1..4, win : S, svc : Nat]
    PROVE  [m EXCEPT !.stage = 1, !.svc = @ + 1] = [stage |-> 1, win |-> m.win, svc |-> m.svc + 1]
<1>1. PICK a \in 1..4, b \in S, c \in Nat : m = [stage |-> a, win |-> b, svc |-> c]
  OBVIOUS
<1>2. m.win = b /\ m.svc = c
  BY <1>1
<1>3. [m EXCEPT !.stage = 1] = [stage |-> 1, win |-> b, svc |-> c]
  BY <1>1
<1>4. [[stage |-> 1, win |-> b, svc |-> c] EXCEPT !.svc = c + 1] = [stage |-> 1, win |-> b, svc |-> c + 1]
  OBVIOUS
<1> QED BY <1>2, <1>3, <1>4, Zenon

\* After the last counter, or at a service the request is not one of, w turns
\* to the next service or is done.
LEMMA LaterFacts ==
    ASSUME windows \in Seq(Counters), DOMAIN conn = Workers, DOMAIN recording = Workers, NEW w \in Workers,
           RecordingOK(w), recording[w] # NotRecording, Later(w)
    PROVE  /\ \A v \in Workers : v # w => recording'[v] = recording[v] /\ conn'[v] = conn[v]
           /\ DOMAIN recording' = Workers
           /\ recording'[w] = NotRecording
              \/ /\ recording'[w] = [stage |-> 1, win |-> recording[w].win, svc |-> recording[w].svc + 1]
                 /\ recording[w].svc + 1 \in 1..Len(windows[recording[w].win])
                 /\ conn'[w] = conn[w]
<1> DEFINE m == recording[w]
<1>1. m \in [stage : 1..4, win : 1..Len(windows), svc : Nat] /\ m.svc \in 1..Len(windows[m.win])
  BY DEF RecordingOK
<1>2. Len(windows[m.win]) \in Nat
  BY <1>1, ServiceAt
<1>3. CASE Finished(w)
  BY <1>3 DEF Finished
<1>4. CASE ~Finished(w)
  <2>1. m.svc # Len(windows[m.win]) /\ recording' = [recording EXCEPT ![w] = [m EXCEPT !.stage = 1, !.svc = @ + 1]]
        /\ conn' = conn
    BY <1>4 DEF Later
  <2>2. [m EXCEPT !.stage = 1, !.svc = @ + 1] = [stage |-> 1, win |-> m.win, svc |-> m.svc + 1]
    BY <1>1, NextService
  <2> QED BY <1>1, <1>2, <2>1, <2>2
<1> QED BY <1>3, <1>4

LEMMA OneMore ==
    ASSUME NEW S, IsFiniteSet(S), NEW x
    PROVE  /\ Cardinality(S) \in Nat /\ Cardinality(S \cup {x}) \in Nat
           /\ Cardinality(S \cup {x}) <= Cardinality(S) + 1
           /\ x \notin S => Cardinality(S \cup {x}) = Cardinality(S) + 1
<1>1. Cardinality(S) \in Nat
  BY FS_CardinalityType
<1>2. Cardinality(S \cup {x}) = IF x \in S THEN Cardinality(S) ELSE Cardinality(S) + 1
  BY FS_AddElement
<1> QED BY <1>1, <1>2

LEMMA Disjoint ==
    ASSUME NEW S, IsFiniteSet(S), NEW T, IsFiniteSet(T), S \cap T = {}
    PROVE  Cardinality(S \cup T) = Cardinality(S) + Cardinality(T)
<1>1. Cardinality(S) \in Nat /\ Cardinality(T) \in Nat
  BY FS_CardinalityType
<1>2. Cardinality(S \cap T) = 0
  BY FS_EmptySet
<1>3. Cardinality(S \cup T) = Cardinality(S) + Cardinality(T) - Cardinality(S \cap T)
  BY FS_Union
<1> QED BY <1>1, <1>2, <1>3

LEMMA RowSize ==
    ASSUME NEW n, NEW m \in Nat
    PROVE  IsFiniteSet({n} \X (1..m)) /\ Cardinality({n} \X (1..m)) = m
<1>1. 1 \in Int /\ m \in Int
  OBVIOUS
<1>2. IsFiniteSet(1..m) /\ Cardinality(1..m) = IF 1 > m THEN 0 ELSE m - 1 + 1
  BY <1>1, FS_Interval
<1> DEFINE T == 1..m
<1> HIDE DEF T
<1>3. IsFiniteSet(T) /\ Cardinality(T) = m
  BY <1>2 DEF T
<1>4. IsFiniteSet({n}) /\ Cardinality({n}) = 1
  BY FS_Singleton
<1>5. IsFiniteSet({n} \X T) /\ Cardinality({n} \X T) = Cardinality({n}) * Cardinality(T)
  BY <1>3, <1>4, FS_Product
<1>6. Cardinality({n} \X T) = m
  BY <1>3, <1>4, <1>5
<1> QED BY <1>5, <1>6 DEF T

\* The step of w at the service it records for: a request is counted at its
\* site, then placed, when the site counts as seen, then in the total.
LEMMA RecordBalances ==
    ASSUME NEW w \in Workers, NEW k, NEW j, NEW s \in Service, s = windows[k][j], Balanced(k, j),
           NEW n \in 0..(s.count - 1), NEW a \in 1..4, Doing(w, k, j, a), SiteOf(w, k, j) = n,
           NEW c \in {"ok", "failed", "none"}, windows'[k][j] = Counted(s, n, Stages[a], c),
           \A v \in Workers : v # w => recording'[v] = recording[v] /\ conn'[v] = conn[v],
           a < 4 => Doing(w, k, j, a + 1)' /\ conn'[w] = conn[w],
           a = 4 => ~Doing(w, k, j, 2)' /\ ~Doing(w, k, j, 3)'
    PROVE  Balanced(k, j)'
<1> DEFINE y == windows'[k][j]
<1>1. /\ y \in Service /\ y.start = s.start
      /\ y.total = IF a = 3 THEN s.total + 1 ELSE s.total
      /\ y.lastSeen = IF a = 2 THEN s.lastSeen \cup {n} ELSE s.lastSeen
      /\ DOMAIN y.requests = DOMAIN s.requests
      /\ \A d \in DOMAIN s.requests :
           y.requests[d] = IF a = 1 /\ d = n THEN s.requests[d] + 1 ELSE s.requests[d]
  <2>1. Stages[a] \in {"count", "seen", "total", "status"}
        /\ (Stages[a] = "count" <=> a = 1) /\ (Stages[a] = "seen" <=> a = 2) /\ (Stages[a] = "total" <=> a = 3)
    BY DEF Stages
  <2>2. PICK e \in {"count", "seen", "total", "status"} : e = Stages[a]
    BY <2>1
  <2>3. Changed(s, Counted(s, n, e, c), n, e)
    BY CountedFacts
  <2>4. y = Counted(s, n, e, c)
    BY <2>2
  <2> HIDE DEF y
  <2>5. Changed(s, y, n, e)
    BY <2>3, <2>4
  <2> QED BY <2>1, <2>2, <2>5 DEF Changed, Grown
<1> HIDE DEF y
<1>2. /\ n \in DOMAIN s.requests /\ \A d \in DOMAIN s.requests : s.requests[d] \in Nat
      /\ s.lastSeen \subseteq DOMAIN s.requests /\ s.total \in Nat
  BY DEF Service
<1>3. /\ IsFiniteSet(Tally(s)) /\ Cardinality(Tally(s)) \in Nat
      /\ IsFiniteSet(Tally(y)) /\ Cardinality(Tally(y)) \in Nat
  BY <1>1, TallyFinite
<1>4. /\ IsFiniteSet(Untotalled(k, j)) /\ Cardinality(Untotalled(k, j)) \in Nat
      /\ \A d : IsFiniteSet(Unseen(k, j, d)) /\ Cardinality(Unseen(k, j, d)) \in Nat
  BY MemberAssumption, FS_Subset, FS_CardinalityType DEF Untotalled, Unseen
<1>5. \A v \in Workers : v # w =>
        (\A b : Doing(v, k, j, b)' <=> Doing(v, k, j, b)) /\ SiteOf(v, k, j)' = SiteOf(v, k, j)
  BY <1>1 DEF Doing, SiteOf, Offset, y
<1>6. a < 4 => SiteOf(w, k, j)' = n
  BY <1>1 DEF SiteOf, Offset, y
<1>7. \A b : Doing(w, k, j, b) <=> b = a
  BY DEF Doing
<1>8. a < 4 => \A b : Doing(w, k, j, b)' <=> b = a + 1
  BY DEF Doing
<1>9. /\ s.total + Cardinality(Untotalled(k, j)) <= Cardinality(Tally(s))
      /\ \A d \in DOMAIN s.requests \ s.lastSeen : Cardinality(Unseen(k, j, d)) <= s.requests[d]
  BY DEF Balanced
<1>10. SUFFICES /\ y.total + Cardinality(Untotalled(k, j)') <= Cardinality(Tally(y))
                /\ \A d \in DOMAIN s.requests \ y.lastSeen : Cardinality(Unseen(k, j, d)') <= y.requests[d]
  BY <1>1 DEF Balanced, y, Tally
<1>11. CASE a = 1
  <2>1. \A d : Unseen(k, j, d)' = IF d = n THEN Unseen(k, j, d) \cup {w} ELSE Unseen(k, j, d)
    BY <1>5, <1>6, <1>7, <1>8, <1>11 DEF Unseen
  <2>2. y.lastSeen = s.lastSeen /\ y.total = s.total
    BY <1>1, <1>11
  <2>3. \A d \in DOMAIN s.requests \ s.lastSeen : Cardinality(Unseen(k, j, d)') <= y.requests[d]
    <3> SUFFICES ASSUME NEW d \in DOMAIN s.requests \ s.lastSeen
                 PROVE  Cardinality(Unseen(k, j, d)') <= y.requests[d]
      OBVIOUS
    <3>1. Cardinality(Unseen(k, j, d) \cup {w}) <= Cardinality(Unseen(k, j, d)) + 1
      BY <1>4, OneMore
    <3>2. CASE d = n
      <4>1. Cardinality(Unseen(k, j, d)') = Cardinality(Unseen(k, j, d) \cup {w})
        BY <2>1, <3>2
      <4>2. Cardinality(Unseen(k, j, d) \cup {w}) \in Nat
        BY <1>4, OneMore
      <4> QED BY <1>1, <1>2, <1>4, <1>9, <1>11, <3>1, <3>2, <4>1, <4>2
    <3>3. CASE d # n
      BY <1>1, <1>9, <2>1, <3>3
    <3> QED BY <3>2, <3>3
  <2>4. CASE n \in s.lastSeen
    <3>1. Untotalled(k, j)' = Untotalled(k, j) \cup {w}
      BY <1>1, <1>5, <1>6, <1>7, <1>8, <1>11, <2>2, <2>4 DEF Untotalled, y
    <3>2. Cardinality(Untotalled(k, j)') <= Cardinality(Untotalled(k, j)) + 1
          /\ Cardinality(Untotalled(k, j)') \in Nat
      BY <1>4, <3>1, OneMore
    <3> DEFINE e == <<n, s.requests[n] + 1>>
    <3>3. y.requests[n] = s.requests[n] + 1 /\ s.requests[n] \in Nat
      BY <1>1, <1>2, <1>11
    <3>4. Tally(s) \subseteq Tally(y) /\ e \in Tally(y) /\ e \notin Tally(s)
      <4>1. \A d \in s.lastSeen : y.requests[d] \in Nat /\ s.requests[d] \in Nat /\ s.requests[d] <= y.requests[d]
        BY <1>1, <1>2
      <4>2. e \in Tally(y)
        BY <2>2, <2>4, <3>3 DEF Tally
      <4>3. e \notin Tally(s)
        BY <3>3 DEF Tally
      <4>4. Tally(s) \subseteq Tally(y)
        BY <2>2, <4>1 DEF Tally
      <4> QED BY <4>2, <4>3, <4>4
    <3> HIDE DEF e
    <3>5. Cardinality(Tally(s) \cup {e}) = Cardinality(Tally(s)) + 1
      BY <1>3, <3>4, OneMore
    <3>6. Cardinality(Tally(s) \cup {e}) <= Cardinality(Tally(y))
      <4>1. Tally(s) \cup {e} \in SUBSET Tally(y)
        BY <3>4
      <4> QED BY <4>1, <1>3, FS_Subset
    <3> QED BY <1>2, <1>3, <1>4, <1>9, <2>2, <2>3, <3>2, <3>5, <3>6
  <2>5. CASE n \notin s.lastSeen
    <3>1. Untotalled(k, j)' = Untotalled(k, j)
      BY <1>1, <1>5, <1>6, <1>7, <1>8, <1>11, <2>2, <2>5 DEF Untotalled, y
    <3>2. Tally(y) = Tally(s)
      <4>1. \A d \in s.lastSeen : y.requests[d] = s.requests[d]
        BY <1>1, <1>2, <2>5
      <4> QED BY <2>2, <4>1 DEF Tally
    <3> QED BY <1>9, <2>2, <2>3, <3>1, <3>2
  <2> QED BY <2>4, <2>5
<1>12. CASE a = 2
  <2>1. /\ y.lastSeen = s.lastSeen \cup {n} /\ y.total = s.total
        /\ \A d \in DOMAIN s.requests : y.requests[d] = s.requests[d]
    BY <1>1, <1>12
  <2>2. \A d : d # n => Unseen(k, j, d)' = Unseen(k, j, d)
    BY <1>5, <1>6, <1>7, <1>8, <1>12 DEF Unseen
  <2>3. \A d \in DOMAIN s.requests \ y.lastSeen : Cardinality(Unseen(k, j, d)') <= y.requests[d]
    BY <1>9, <2>1, <2>2
  <2>4. CASE n \in s.lastSeen
    <3>1. Untotalled(k, j)' = Untotalled(k, j)
      BY <1>1, <1>5, <1>6, <1>7, <1>8, <1>12, <2>1, <2>4 DEF Untotalled, y
    <3>2. Tally(y) = Tally(s)
      <4>1. \A d \in s.lastSeen : y.requests[d] = s.requests[d]
        BY <1>2, <2>1
      <4>2. y.lastSeen = s.lastSeen
        BY <2>1, <2>4
      <4> QED BY <4>1, <4>2 DEF Tally
    <3> QED BY <1>9, <2>1, <2>3, <3>1, <3>2
  <2>5. CASE n \notin s.lastSeen
    <3> DEFINE U == Unseen(k, j, n)
               R == {n} \X (1..s.requests[n])
    <3>1. Untotalled(k, j)' = Untotalled(k, j) \cup U
      BY <1>1, <1>5, <1>6, <1>7, <1>8, <1>12, <2>1, <2>5 DEF Untotalled, Unseen, y
    <3>2. Tally(y) = Tally(s) \cup R /\ Tally(s) \cap R = {}
      <4>1. \A d \in y.lastSeen : y.requests[d] = s.requests[d]
        BY <1>2, <2>1
      <4>2. Tally(y) = UNION {{d} \X (1..s.requests[d]) : d \in s.lastSeen \cup {n}}
        BY <2>1, <4>1 DEF Tally
      <4> QED BY <2>5, <4>2 DEF Tally
    <3>3. IsFiniteSet(R) /\ Cardinality(R) = s.requests[n]
      <4>1. s.requests[n] \in Nat
        BY <1>2
      <4> QED BY <4>1, RowSize
    <3> HIDE DEF U, R
    <3>4. Cardinality(Tally(y)) = Cardinality(Tally(s)) + s.requests[n]
      <4>1. Cardinality(Tally(s) \cup R) = Cardinality(Tally(s)) + Cardinality(R)
        BY <1>3, <3>2, <3>3, Disjoint
      <4> QED BY <3>2, <3>3, <4>1
    <3>5. IsFiniteSet(U) /\ Cardinality(U) <= s.requests[n] /\ Cardinality(U) \in Nat
      BY <1>2, <1>4, <1>9, <2>5 DEF U
    <3>6. Cardinality(Untotalled(k, j)') <= Cardinality(Untotalled(k, j)) + Cardinality(U)
          /\ Cardinality(Untotalled(k, j)') \in Nat
      <4>1. IsFiniteSet(Untotalled(k, j) \cup U)
            /\ Cardinality(Untotalled(k, j) \cup U) =
                 Cardinality(Untotalled(k, j)) + Cardinality(U) - Cardinality(Untotalled(k, j) \cap U)
        BY <1>4, <3>5, FS_Union
      <4>2. Cardinality(Untotalled(k, j) \cap U) \in Nat
        <5>1. IsFiniteSet(Untotalled(k, j) \cap U)
          BY <1>4, FS_Subset
        <5> QED BY <5>1, FS_CardinalityType
      <4>3. Cardinality(Untotalled(k, j) \cup U) \in Nat
        BY <4>1, FS_CardinalityType
      <4> QED BY <1>4, <3>1, <3>5, <4>1, <4>2, <4>3
    <3> QED BY <1>2, <1>3, <1>4, <1>9, <2>1, <2>3, <3>4, <3>5, <3>6
  <2> QED BY <2>4, <2>5
<1>13. CASE a \in {3, 4}
  <2>1. /\ y.lastSeen = s.lastSeen /\ y.total = IF a = 3 THEN s.total + 1 ELSE s.total
        /\ \A d \in DOMAIN s.requests : y.requests[d] = s.requests[d]
    BY <1>1, <1>13
  <2>2. ~Doing(w, k, j, 2) /\ ~Doing(w, k, j, 2)' /\ ~Doing(w, k, j, 3)'
    BY <1>7, <1>8, <1>13
  <2>3. \A d : Unseen(k, j, d)' = Unseen(k, j, d)
    BY <1>5, <2>2 DEF Unseen
  <2>4. Untotalled(k, j)' = Untotalled(k, j) \ {w} /\ (a = 3 => w \in Untotalled(k, j))
    BY <1>5, <2>1, <2>2 DEF Untotalled, y
  <2>5. y.total + Cardinality(Untotalled(k, j)') <= s.total + Cardinality(Untotalled(k, j))
    <3>1. Cardinality(Untotalled(k, j) \ {w}) =
            IF w \in Untotalled(k, j) THEN Cardinality(Untotalled(k, j)) - 1 ELSE Cardinality(Untotalled(k, j))
      BY <1>4, FS_RemoveElement
    <3> QED BY <1>2, <1>4, <1>13, <2>1, <2>4, <3>1
  <2>6. Tally(y) = Tally(s)
    <3>1. \A d \in s.lastSeen : y.requests[d] = s.requests[d]
      BY <1>2, <2>1
    <3> QED BY <2>1, <3>1 DEF Tally
  <2>7. Cardinality(Untotalled(k, j)') \in Nat /\ y.total \in Nat
    <3>1. IsFiniteSet(Untotalled(k, j)')
      BY <1>4, <2>4, FS_RemoveElement
    <3> QED BY <1>2, <2>1, <3>1, FS_CardinalityType
  <2> QED BY <1>2, <1>3, <1>4, <1>9, <2>1, <2>3, <2>5, <2>6, <2>7
<1> QED BY <1>11, <1>12, <1>13

\* A recording record after its next counter.
LEMMA NextStage ==
    ASSUME NEW S, NEW m \in [stage : 1..4, win : S, svc : Nat]
    PROVE  [m EXCEPT !.stage = @ + 1] = [stage |-> m.stage + 1, win |-> m.win, svc |-> m.svc]
<1>1. PICK a \in 1..4, b \in S, c \in Nat : m = [stage |-> a, win |-> b, svc |-> c]
  OBVIOUS
<1>2. [[stage |-> a, win |-> b, svc |-> c] EXCEPT !.stage = a + 1] = [stage |-> a + 1, win |-> b, svc |-> c]
  OBVIOUS
<1>3. m.stage = a /\ m.win = b /\ m.svc = c
  BY <1>1
<1> QED BY <1>1, <1>2, <1>3, Zenon

LEMMA RecordStep ==
    ASSUME ObserverInv, workload' = workload, workload \in {"http", "observe"}, DOMAIN conn = Workers,
           NEW w \in Workers, Record(w)
    PROVE  ObserverInv'
<1> DEFINE m == recording[w]
           s == windows[m.win][m.svc]
           n == Offset(s, conn[w].req)
<1>1. windows \in Seq(Counters) /\ DOMAIN recording = Workers /\ Len(windows) \in Nat
      /\ (\A v \in Workers : RecordingOK(v))
      /\ \A k \in 1..Len(windows) : \A j \in 1..Len(windows[k]) : Balanced(k, j)
  BY DEF ObserverInv, Recordings
<1>2. m # NotRecording /\ m.stage # 0
  BY DEF Record, NotRecording
<1>3. /\ m \in [stage : 1..4, win : 1..Len(windows), svc : Nat]
      /\ m.svc \in 1..Len(windows[m.win]) /\ conn[w].pc = "end"
      /\ m.stage > 1 => Belongs(s, conn[w].req)
  BY <1>1, <1>2 DEF RecordingOK
<1>4. s \in Service /\ Len(windows[m.win]) \in Nat
  BY <1>1, <1>3, ServiceAt
<1>5. UNCHANGED reader
  BY DEF Record
<1>6. CASE ~Belongs(s, conn[w].req)
  <2>1. Later(w) /\ windows' = windows /\ m.stage = 1
    BY <1>3, <1>6 DEF Record
  <2>2. /\ \A v \in Workers : v # w => recording'[v] = recording[v] /\ conn'[v] = conn[v]
        /\ DOMAIN recording' = Workers
        /\ recording'[w] = NotRecording
           \/ /\ recording'[w] = [stage |-> 1, win |-> m.win, svc |-> m.svc + 1]
              /\ m.svc + 1 \in 1..Len(windows[m.win])
              /\ conn'[w] = conn[w]
    BY <1>1, <1>2, <2>1, LaterFacts
  <2>3. ASSUME NEW v \in Workers PROVE RecordingOK(v)'
    <3>1. CASE v # w
      BY <1>1, <2>1, <2>2, <3>1 DEF RecordingOK
    <3>2. CASE v = w
      BY <1>3, <2>1, <2>2, <3>2 DEF RecordingOK
    <3> QED BY <3>1, <3>2
  <2>4. ASSUME NEW k \in 1..Len(windows), NEW j \in 1..Len(windows[k]) PROVE Balanced(k, j)'
    <3>1. ~Doing(w, k, j, 2) /\ ~Doing(w, k, j, 3)
      BY <2>1 DEF Doing
    <3>2. ~Doing(w, k, j, 2)' /\ ~Doing(w, k, j, 3)'
      BY <2>2 DEF Doing, NotRecording
    <3>3. Balanced(k, j) /\ windows'[k][j] = windows[k][j]
      BY <1>1, <2>1
    <3> QED BY <2>2, <3>1, <3>2, <3>3, ElsewhereBalanced
  <2>5. ReaderOK'
    BY <1>5, <2>1 DEF ObserverInv, ReaderOK
  <2> QED BY <1>1, <2>1, <2>2, <2>3, <2>4, <2>5 DEF ObserverInv, Recordings
<1>7. CASE Belongs(s, conn[w].req)
  <2>0. n \in 0..(s.count - 1)
    BY <1>7 DEF Belongs
  <2>1. PICK c \in {"ok", "failed", "none"} : c = StatusOf(conn[w])
    BY StatusKind
  <2>2. PICK y : y = Counted(s, n, Stages[m.stage], c)
    OBVIOUS
  <2>3. windows' = [windows EXCEPT ![m.win][m.svc] = y]
    BY <1>7, <2>1, <2>2 DEF Record
  <2>4. Grown(s, y)
    <3>1. Stages[m.stage] \in {"count", "seen", "total", "status"}
      BY <1>3 DEF Stages
    <3>2. PICK e \in {"count", "seen", "total", "status"} : e = Stages[m.stage]
      BY <3>1
    <3>3. Changed(s, Counted(s, n, e, c), n, e)
      BY <1>4, <2>0, CountedFacts
    <3>4. y = Counted(s, n, e, c)
      BY <2>2, <3>2
    <3> QED BY <3>3, <3>4 DEF Changed
  <2>5. /\ windows' \in Seq(Counters) /\ Len(windows') = Len(windows)
        /\ \A k \in 1..Len(windows) :
             /\ Len(windows'[k]) = Len(windows[k])
             /\ \A j \in 1..Len(windows[k]) :
                  windows'[k][j] = IF k = m.win /\ j = m.svc THEN y ELSE windows[k][j]
    <3>1. y \in Service
      BY <2>4 DEF Grown
    <3>2. PICK a \in 1..Len(windows) : \E b \in 1..Len(windows[a]) : a = m.win /\ b = m.svc
      BY <1>3
    <3>3. PICK b \in 1..Len(windows[a]) : a = m.win /\ b = m.svc
      BY <3>2
    <3>4. windows' = [windows EXCEPT ![a][b] = y]
      BY <2>3, <3>3
    <3>5. Replaced(windows, [windows EXCEPT ![a][b] = y], a, b, y)
      BY <1>1, <3>1, OneService
    <3>6. Replaced(windows, windows', a, b, y)
      BY <3>4, <3>5
    <3> QED BY <3>3, <3>6 DEF Replaced
  <2>6. \A k \in 1..Len(windows) : \A j \in 1..Len(windows[k]) : Grown(windows[k][j], windows'[k][j])
    <3> SUFFICES ASSUME NEW k \in 1..Len(windows), NEW j \in 1..Len(windows[k])
                 PROVE  Grown(windows[k][j], windows'[k][j])
      OBVIOUS
    <3>1. CASE k = m.win /\ j = m.svc
      BY <2>4, <2>5, <3>1
    <3>2. CASE ~(k = m.win /\ j = m.svc)
      <4>1. windows[k][j] \in Service
        BY <1>1, ServiceAt
      <4> QED BY <2>5, <3>2, <4>1 DEF Grown
    <3> QED BY <3>1, <3>2
  <2>7. /\ \A v \in Workers : v # w => recording'[v] = recording[v] /\ conn'[v] = conn[v]
        /\ DOMAIN recording' = Workers
        /\ m.stage < 4 => recording'[w] = [stage |-> m.stage + 1, win |-> m.win, svc |-> m.svc]
                          /\ conn'[w] = conn[w]
        /\ m.stage = 4 =>
              \/ recording'[w] = NotRecording
              \/ /\ recording'[w] = [stage |-> 1, win |-> m.win, svc |-> m.svc + 1]
                 /\ m.svc + 1 \in 1..Len(windows[m.win])
                 /\ conn'[w] = conn[w]
    <3>1. CASE m.stage = 4
      <4>1. Later(w)
        BY <1>7, <3>1 DEF Record, Stages
      <4> QED BY <1>1, <1>2, <3>1, <4>1, LaterFacts
    <3>2. CASE m.stage # 4
      <4>1. recording' = [recording EXCEPT ![w] = [m EXCEPT !.stage = @ + 1]] /\ conn' = conn
        BY <1>7, <3>2 DEF Record, Stages
      <4>2. recording'[w] = [stage |-> m.stage + 1, win |-> m.win, svc |-> m.svc]
        BY <1>1, <1>3, <4>1, NextStage
      <4> QED BY <1>1, <1>3, <3>2, <4>1, <4>2
    <3> QED BY <3>1, <3>2
  <2> HIDE DEF n
  <2>8. ASSUME NEW v \in Workers PROVE RecordingOK(v)'
    <3>1. \A k \in 1..Len(windows) : \A j \in 1..Len(windows[k]) : \A r :
            Belongs(windows[k][j], r) => Belongs(windows'[k][j], r)
      BY <2>6 DEF Grown, Belongs, Offset
    <3>2. CASE v # w
      <4>1. CASE recording[v] = NotRecording
        BY <2>7, <3>2, <4>1 DEF RecordingOK
      <4>2. CASE recording[v] # NotRecording
        <5>1. /\ recording[v] \in [stage : 1..4, win : 1..Len(windows), svc : Nat]
              /\ recording[v].svc \in 1..Len(windows[recording[v].win])
              /\ conn[v].pc = "end"
              /\ recording[v].stage > 1 => Belongs(windows[recording[v].win][recording[v].svc], conn[v].req)
          BY <1>1, <4>2 DEF RecordingOK
        <5>2. recording'[v] = recording[v] /\ conn'[v] = conn[v]
          BY <2>7, <3>2
        <5>3. recording[v].win \in 1..Len(windows)
          BY <5>1
        <5>4. Len(windows') = Len(windows) /\ Len(windows'[recording[v].win]) = Len(windows[recording[v].win])
          BY <2>5, <5>3
        <5> QED BY <3>1, <5>1, <5>2, <5>3, <5>4 DEF RecordingOK
      <4> QED BY <4>1, <4>2
    <3>3. CASE v = w
      <4>1. Len(windows') = Len(windows) /\ Len(windows'[m.win]) = Len(windows[m.win]) /\ m.win \in 1..Len(windows)
        BY <1>3, <2>5
      <4>2. CASE m.stage < 4
        <5>1. Belongs(windows'[m.win][m.svc], conn[w].req)
          BY <1>3, <1>7, <3>1, <4>1
        <5> QED BY <1>3, <2>7, <3>3, <4>1, <4>2, <5>1 DEF RecordingOK
      <4>3. CASE m.stage = 4
        BY <1>3, <2>7, <3>3, <4>1, <4>3 DEF RecordingOK
      <4> QED BY <1>3, <4>2, <4>3
    <3> QED BY <3>2, <3>3
  <2>9. ASSUME NEW k \in 1..Len(windows), NEW j \in 1..Len(windows[k]) PROVE Balanced(k, j)'
    <3>0. Balanced(k, j)
      BY <1>1
    <3>1. CASE k = m.win /\ j = m.svc
      <4>1. PICK a \in 1..4 : a = m.stage
        BY <1>3
      <4>2. Doing(w, k, j, a) /\ SiteOf(w, k, j) = n
        BY <3>1, <4>1 DEF Doing, SiteOf, n
      <4>3. windows'[k][j] = Counted(s, n, Stages[a], c) /\ s = windows[k][j]
        BY <2>2, <2>5, <3>1, <4>1
      <4>4. a < 4 => Doing(w, k, j, a + 1)' /\ conn'[w] = conn[w]
        BY <2>7, <3>1, <4>1 DEF Doing
      <4>5. a = 4 => ~Doing(w, k, j, 2)' /\ ~Doing(w, k, j, 3)'
        BY <2>7, <4>1 DEF Doing, NotRecording
      <4>6. PICK z \in Service : z = s
        BY <1>4
      <4>7. n \in 0..(z.count - 1) /\ z = windows[k][j] /\ windows'[k][j] = Counted(z, n, Stages[a], c)
        BY <2>0, <4>3, <4>6
      <4>8. \A v \in Workers : v # w => recording'[v] = recording[v] /\ conn'[v] = conn[v]
        BY <2>7
      <4> HIDE DEF s, m
      <4> QED BY <3>0, <4>2, <4>4, <4>5, <4>7, <4>8, RecordBalances
    <3>2. CASE ~(k = m.win /\ j = m.svc)
      <4>1. windows'[k][j] = windows[k][j]
        BY <2>5, <3>2
      <4>2. ~Doing(w, k, j, 2) /\ ~Doing(w, k, j, 3)
        BY <3>2 DEF Doing
      <4>3. ~Doing(w, k, j, 2)' /\ ~Doing(w, k, j, 3)'
        BY <1>3, <2>7, <3>2 DEF Doing, NotRecording
      <4> QED BY <2>7, <3>0, <4>1, <4>2, <4>3, ElsewhereBalanced
    <3> QED BY <3>1, <3>2
  <2>10. ReaderOK'
    <3>1. Len(windows) <= Len(windows') /\ Len(windows') \in Nat
      BY <1>1, <2>5
    <3> QED BY <1>1, <1>5, <2>5, <2>6, <3>1, ReaderKept DEF ObserverInv
  <2> QED BY <2>5, <2>7, <2>8, <2>9, <2>10 DEF ObserverInv, Recordings
<1> QED BY <1>6, <1>7

\* A request that begins to be recorded, in the active window.
LEMMA RecordBeginStep ==
    ASSUME ObserverInv, workload' = workload, workload \in {"http", "observe"}, DOMAIN conn = Workers,
           NEW w \in Workers, RecordBegin(w)
    PROVE  ObserverInv'
<1>1. windows \in Seq(Counters) /\ DOMAIN recording = Workers /\ Len(windows) \in Nat
      /\ (\A v \in Workers : RecordingOK(v))
      /\ \A k \in 1..Len(windows) : \A j \in 1..Len(windows[k]) : Balanced(k, j)
  BY DEF ObserverInv, Recordings
<1>2. recording[w].stage = 0 /\ conn[w].pc = "end" /\ windows' = windows /\ reader' = reader
  BY DEF RecordBegin
<1>3. /\ \A v \in Workers : v # w => recording'[v] = recording[v] /\ conn'[v] = conn[v]
      /\ DOMAIN recording' = Workers
      /\ \/ recording'[w] = NotRecording
         \/ /\ recording'[w] = [stage |-> 1, win |-> Len(windows), svc |-> 1] /\ windows # <<>>
            /\ conn'[w] = conn[w]
  <2>1. CASE Finished(w)
    BY <1>1, <2>1 DEF Finished
  <2>2. CASE ~Finished(w)
    BY <1>1, <2>2 DEF RecordBegin
  <2> QED BY <2>1, <2>2
<1>4. ASSUME NEW v \in Workers PROVE RecordingOK(v)'
  <2>1. CASE v # w
    BY <1>1, <1>2, <1>3, <2>1 DEF RecordingOK
  <2>2. CASE v = w
    <3>1. windows # <<>> => Len(windows) \in 1..Len(windows) /\ 1 \in 1..Len(windows[Len(windows)])
      <4> SUFFICES ASSUME windows # <<>>
                   PROVE  Len(windows) \in 1..Len(windows) /\ 1 \in 1..Len(windows[Len(windows)])
        OBVIOUS
      <4>1. Len(windows) \in 1..Len(windows)
        BY <1>1
      <4>2. windows[Len(windows)] \in Seq(Service) /\ windows[Len(windows)] # <<>>
        BY <1>1, <4>1, ServiceAt, ElementOfSeq DEF Counters
      <4> QED BY <4>1, <4>2
    <3> QED BY <1>2, <1>3, <2>2, <3>1 DEF RecordingOK
  <2> QED BY <2>1, <2>2
<1>5. ASSUME NEW k \in 1..Len(windows), NEW j \in 1..Len(windows[k]) PROVE Balanced(k, j)'
  <2>1. ~Doing(w, k, j, 2) /\ ~Doing(w, k, j, 3)
    BY <1>2 DEF Doing
  <2>2. ~Doing(w, k, j, 2)' /\ ~Doing(w, k, j, 3)'
    BY <1>3 DEF Doing, NotRecording
  <2>3. Balanced(k, j) /\ windows'[k][j] = windows[k][j]
    BY <1>1, <1>2
  <2> QED BY <1>3, <2>1, <2>2, <2>3, ElsewhereBalanced
<1>6. ReaderOK'
  BY <1>2 DEF ObserverInv, ReaderOK
<1> QED BY <1>1, <1>2, <1>3, <1>4, <1>5, <1>6 DEF ObserverInv, Recordings

\* The counters of a new window are all zero.
LEMMA Compiled ==
    ASSUME NEW active \in Int, active > 0, NEW q \in [pattern : STRING, start : Int, count : Int], q.count >= 0
    PROVE  LET s == Compile(q, active) IN s \in Service /\ s.total = 0 /\ s.lastSeen = {}
<1> DEFINE count == IF q.count = 0 \/ q.count > active THEN active ELSE q.count
           start == IF q.start = 0 THEN 1 ELSE q.start
           s == Compile(q, active)
<1>1. count \in Nat \ {0} /\ start \in Int /\ q.pattern \in STRING
  OBVIOUS
<1>2. s = [pattern |-> q.pattern, start |-> start, count |-> count,
           requests |-> [n \in 0..(count - 1) |-> 0], lastSeen |-> {}, total |-> 0,
           statuses |-> [c \in {"ok", "failed", "none"} |-> 0], statusHosts |-> {}]
  BY DEF Compile
<1> HIDE DEF count, start, s
<1>3. s.requests \in [0..(s.count - 1) -> Nat] /\ s.requests \in UNION {[0..(n - 1) -> Nat] : n \in Nat}
  BY <1>1, <1>2
<1>4. s \in Service /\ s.total = 0 /\ s.lastSeen = {}
  BY <1>1, <1>2, <1>3 DEF Service
<1> QED BY <1>4 DEF s

LEMMA ResetStep ==
    ASSUME ObserverInv, workload' = workload, workload \in {"http", "observe"}, workload \in DOMAIN Activations,
           NEW q \in Windows[workload], Reset(q)
    PROVE  ObserverInv'
<1>1. windows \in Seq(Counters) /\ DOMAIN recording = Workers /\ Len(windows) \in Nat
      /\ (\A v \in Workers : RecordingOK(v))
      /\ \A k \in 1..Len(windows) : \A j \in 1..Len(windows[k]) : Balanced(k, j)
  BY DEF ObserverInv, Recordings
<1>2. q.active \in Int /\ q.services \in Seq([pattern : STRING, start : Int, count : Int])
  BY MemberAssumption
<1>3. q.active > 0 /\ q.services # <<>> /\ \A j \in 1..Len(q.services) : q.services[j].count >= 0
  <2>1. q.active > 0 /\ q.services # <<>> /\ \A j \in DOMAIN q.services : q.services[j].count >= 0
    BY Zenon DEF Reset, ValidReset
  <2>2. DOMAIN q.services = 1..Len(q.services)
    BY <1>2, LenProperties
  <2> QED BY <2>1, <2>2
<1> DEFINE x == [j \in DOMAIN q.services |-> Compile(q.services[j], q.active)]
           N == Len(q.services)
<1>4. N \in Nat /\ N > 0 /\ DOMAIN q.services = 1..N
  BY <1>2, <1>3
<1>5. \A j \in 1..N : x[j] \in Service /\ x[j].total = 0 /\ x[j].lastSeen = {}
  <2> TAKE j \in 1..N
  <2>1. q.services[j] \in [pattern : STRING, start : Int, count : Int] /\ q.services[j].count >= 0
    BY <1>2, <1>3, ElementOfSeq
  <2>2. x[j] = Compile(q.services[j], q.active)
    BY <1>4
  <2> QED BY <1>2, <1>3, <2>1, <2>2, Compiled
<1>6. DOMAIN x = 1..N
  BY <1>4
<1>7. UNCHANGED <<conn, recording, reader>> /\ windows' = Append(windows, x)
  BY DEF Reset
<1> HIDE DEF x, N
<1>8. x \in Counters /\ Len(x) = N
  <2>1. x \in [1..N -> Service]
    <3>1. x = [j \in 1..N |-> x[j]]
      BY <1>4, <1>6 DEF x, N
    <3> QED BY <1>5, <3>1
  <2>2. x \in Seq(Service) /\ Len(x) = N
    BY <1>4, <2>1, FunctionIsSequence
  <2>3. x # <<>>
    BY <1>4, <2>2
  <2> QED BY <2>2, <2>3 DEF Counters
<1>9. /\ windows' \in Seq(Counters) /\ Len(windows') = Len(windows) + 1
      /\ \A k \in 1..Len(windows) : windows'[k] = windows[k]
      /\ windows'[Len(windows) + 1] = x
  BY <1>1, <1>7, <1>8, AppendProperties
<1>10. ASSUME NEW v \in Workers PROVE RecordingOK(v)'
  <2>1. CASE recording[v] = NotRecording
    BY <1>7, <2>1 DEF RecordingOK
  <2>2. CASE recording[v] # NotRecording
    <3>1. /\ recording[v] \in [stage : 1..4, win : 1..Len(windows), svc : Nat]
          /\ recording[v].svc \in 1..Len(windows[recording[v].win])
          /\ conn[v].pc = "end"
          /\ recording[v].stage > 1 => Belongs(windows[recording[v].win][recording[v].svc], conn[v].req)
      BY <1>1, <2>2 DEF RecordingOK
    <3>2. recording[v].win \in 1..Len(windows)
      BY <3>1
    <3>3. windows'[recording[v].win] = windows[recording[v].win]
      BY <1>9, <3>2
    <3>4. recording[v] \in [stage : 1..4, win : 1..Len(windows'), svc : Nat]
      <4>1. 1..Len(windows) \subseteq 1..Len(windows')
        BY <1>1, <1>9
      <4> QED BY <3>1, <4>1
    <3> QED BY <1>7, <3>1, <3>3, <3>4 DEF RecordingOK
  <2> QED BY <2>1, <2>2
<1>11. ASSUME NEW k \in 1..Len(windows'), NEW j \in 1..Len(windows'[k]) PROVE Balanced(k, j)'
  <2>1. CASE k \in 1..Len(windows)
    <3>1. windows'[k] = windows[k] /\ Balanced(k, j)
      BY <1>1, <1>9, <2>1
    <3>2. Untotalled(k, j)' = Untotalled(k, j) /\ \A n : Unseen(k, j, n)' = Unseen(k, j, n)
      BY <1>7, <3>1 DEF Untotalled, Unseen, Doing, SiteOf
    <3> QED BY <3>1, <3>2 DEF Balanced
  <2>2. CASE k = Len(windows) + 1
    <3>1. \A v \in Workers, a \in {2, 3} : ~Doing(v, k, j, a)'
      BY <1>1, <1>7, <2>2 DEF Doing, RecordingOK, NotRecording
    <3>2. Untotalled(k, j)' = {} /\ \A n : Unseen(k, j, n)' = {}
      BY <3>1 DEF Untotalled, Unseen
    <3>3. windows'[k][j] = x[j] /\ x[j] \in Service /\ x[j].total = 0 /\ x[j].lastSeen = {}
      BY <1>5, <1>8, <1>9, <2>2
    <3>4. \A n \in DOMAIN x[j].requests : x[j].requests[n] \in Nat
      BY <3>3 DEF Service
    <3>5. Cardinality(Tally(x[j])) \in Nat /\ Cardinality({}) = 0
      BY <3>3, TallyFinite, FS_EmptySet
    <3> DEFINE y == windows'[k][j]
    <3>6. y = x[j]
      BY <3>3
    <3> HIDE DEF y
    <3>7. y.total + Cardinality({}) <= Cardinality(Tally(y))
          /\ \A n \in DOMAIN y.requests \ y.lastSeen : Cardinality({}) <= y.requests[n]
      BY <3>3, <3>4, <3>5, <3>6
    <3> QED BY <3>2, <3>7 DEF Balanced, y, Tally
  <2> QED BY <1>1, <1>9, <2>1, <2>2
<1>12. ReaderOK'
  <2>1. \A k \in 1..Len(windows) : /\ Len(windows'[k]) = Len(windows[k])
                                   /\ \A j \in 1..Len(windows[k]) : Grown(windows[k][j], windows'[k][j])
    <3> SUFFICES ASSUME NEW k \in 1..Len(windows)
                 PROVE  /\ Len(windows'[k]) = Len(windows[k])
                        /\ \A j \in 1..Len(windows[k]) : Grown(windows[k][j], windows'[k][j])
      OBVIOUS
    <3>1. windows'[k] = windows[k] /\ \A j \in 1..Len(windows[k]) : windows[k][j] \in Service
      BY <1>1, <1>9, ServiceAt
    <3> QED BY <3>1 DEF Grown
  <2>2. Len(windows) <= Len(windows') /\ Len(windows') \in Nat
    BY <1>1, <1>9
  <2> QED BY <1>1, <1>7, <2>1, <2>2, ReaderKept DEF ObserverInv
<1> QED BY <1>1, <1>7, <1>9, <1>10, <1>11, <1>12 DEF ObserverInv, Recordings

-----------------------------------------------------------------------------
(* Reading *)

\* A request placed by the counters of s.
LEMMA Placed ==
    ASSUME NEW s \in Service, NEW e \in Tally(s)
    PROVE  /\ e[1] \in s.lastSeen /\ e[1] \in Nat /\ e[1] < s.count
           /\ e[2] \in Nat /\ e[2] > 0 /\ e[2] <= s.requests[e[1]] /\ s.requests[e[1]] \in Nat
           /\ e = <<e[1], e[2]>>
<1>1. PICK n \in s.lastSeen : e \in {n} \X (1..s.requests[n])
  BY DEF Tally
<1>2. n \in Nat /\ n < s.count /\ s.requests[n] \in Nat
  BY DEF Service
<1> QED BY <1>1, <1>2

LEMMA ReadBeginStep ==
    ASSUME ObserverInv, NEW j, ReadBegin(j)
    PROVE  ReaderOK'
<1> DEFINE k == Len(windows)
           s == windows[k][j]
<1>1. windows \in Seq(Counters) /\ windows # <<>> /\ k \in Nat
  BY DEF ObserverInv, Recordings, ReadBegin
<1>2. k \in 1..Len(windows) /\ windows[k] \in Seq(Service)
  <2>1. k \in 1..Len(windows)
    BY <1>1
  <2> QED BY <1>1, <2>1, ServiceAt, ElementOfSeq DEF Counters
<1>3. j \in 1..Len(windows[k])
  BY <1>2 DEF ReadBegin
<1>4. s \in Service /\ Balanced(k, j)
  BY <1>1, <1>2, <1>3, ServiceAt DEF ObserverInv, Recordings
<1>5. s.total <= Cardinality(Tally(s)) /\ s.total \in Nat /\ s.count \in Nat /\ s.count > 0
  <2>1. Cardinality(Untotalled(k, j)) \in Nat
    <3>1. IsFiniteSet(Untotalled(k, j))
      BY MemberAssumption, FS_Subset DEF Untotalled
    <3> QED BY <3>1, FS_CardinalityType
  <2>2. s.total \in Nat /\ s.count \in Nat /\ s.count > 0 /\ Cardinality(Tally(s)) \in Nat
    <3> DEFINE S == Service
    <3> HIDE DEF s, S
    <3>1. s \in S /\ Cardinality(Tally(s)) \in Nat
      BY <1>4, TallyFinite DEF S
    <3> QED BY <3>1 DEF S, Service
  <2>3. s.total + Cardinality(Untotalled(k, j)) <= Cardinality(Tally(s))
    BY <1>4 DEF Balanced
  <2> QED BY <2>1, <2>2, <2>3
<1>6. /\ reader' = [stage |-> "requests", win |-> k, svc |-> j, at |-> 0, total |-> s.total,
                    requests |-> <<>>, observed |-> {}]
      /\ windows' = windows
  BY DEF ReadBegin
<1> HIDE DEF s, k
<1>7. reader' \in Readers(1..Len(windows)) /\ reader'.svc \in 1..Len(windows[reader'.win])
      /\ windows[reader'.win][reader'.svc] = s
  BY <1>1, <1>2, <1>3, <1>5, <1>6 DEF Readers, s
<1>8. Shows(reader', s)
  <2>1. \A e \in Tally(s) : ~(e[1] < 0)
    BY <1>4, Placed
  <2>2. \E P \in SUBSET Tally(s) :
          /\ s.total <= Cardinality(P)
          /\ \A e \in P :
               /\ e[1] < 0 => e[1] \in {}
               /\ e[1] < 0 => e[2] <= reader'.requests[e[1] + 1]
    <3> WITNESS Tally(s) \in SUBSET Tally(s)
    <3> QED BY <1>5, <2>1
  <2>3. Len(<<>>) = 0
    OBVIOUS
  <2> QED BY <1>5, <1>6, <2>2, <2>3 DEF Shows
<1>9. ReaderFits(reader', windows)
  BY <1>7, <1>8 DEF ReaderFits
<1> QED BY <1>6, <1>9 DEF ReaderOK

Onward(r, g, o) == [r EXCEPT !.at = @ + 1, !.stage = g, !.observed = o]

LEMMA NextSite ==
    ASSUME NEW S, NEW r \in Readers(S), NEW g \in {"read", "requests"}, NEW o \in SUBSET Nat, NEW r2,
           r2 = Onward(r, g, o)
    PROVE  /\ r2 \in Readers(S) /\ r2.stage = g /\ r2.win = r.win /\ r2.svc = r.svc /\ r2.at = r.at + 1
           /\ r2.total = r.total /\ r2.observed = o /\ r2.requests = r.requests
<1>1. PICK h : h = r.at + 1
  OBVIOUS
<1>2. PICK x : x = [r EXCEPT !.at = h]
  OBVIOUS
<1>3. PICK y : y = [x EXCEPT !.stage = g]
  OBVIOUS
<1>4. r2 = [y EXCEPT !.observed = o]
  BY <1>1, <1>2, <1>3, Zenon DEF Onward
<1>5. h \in Nat
  BY <1>1 DEF Readers
<1>6. x \in Readers(S) /\ x.win = r.win /\ x.svc = r.svc /\ x.at = h
      /\ x.total = r.total /\ x.requests = r.requests
  BY <1>2, <1>5 DEF Readers
<1>7. y \in Readers(S) /\ y.stage = g /\ y.win = r.win /\ y.svc = r.svc /\ y.at = h
      /\ y.total = r.total /\ y.requests = r.requests
  BY <1>3, <1>6 DEF Readers
<1>8. /\ r2 \in Readers(S) /\ r2.stage = g /\ r2.win = r.win /\ r2.svc = r.svc /\ r2.at = h
      /\ r2.total = r.total /\ r2.requests = r.requests /\ r2.observed = o
  BY <1>4, <1>7 DEF Readers
<1> QED BY <1>1, <1>8

\* One counter of one site is read.
LEMMA ReadSiteStep ==
    ASSUME ObserverInv, ReadSite
    PROVE  ReaderOK'
<1> DEFINE s == windows[reader.win][reader.svc]
<1>1. windows \in Seq(Counters) /\ reader # NotReading /\ reader.stage \in {"requests", "seen"}
  BY DEF ObserverInv, Recordings, ReadSite, NotReading
<1>2. reader \in Readers(1..Len(windows)) /\ reader.svc \in 1..Len(windows[reader.win]) /\ Shows(reader, s)
  BY <1>1 DEF ObserverInv, ReaderOK, ReaderFits
<1>3. s \in Service
  <2>1. reader.win \in 1..Len(windows)
    BY <1>2 DEF Readers
  <2> QED BY <1>1, <1>2, <2>1, ServiceAt
<1>4. windows' = windows
      /\ \/ /\ reader.stage = "requests"
            /\ reader' = [reader EXCEPT !.stage = "seen", !.requests = Append(@, s.requests[reader.at])]
         \/ /\ reader.stage = "seen"
            /\ reader' = [reader EXCEPT !.at = @ + 1,
                            !.stage = IF reader.at + 1 = s.count THEN "read" ELSE "requests",
                            !.observed = IF reader.at \in s.lastSeen THEN @ \cup {reader.at} ELSE @]
  BY DEF ReadSite
<1> HIDE DEF s
<1>5. PICK r : r = reader
  OBVIOUS
<1>6. PICK r2 : r2 = reader'
  OBVIOUS
<1>7. r \in Readers(1..Len(windows)) /\ Shows(r, s)
  BY <1>2, <1>5
<1>8. /\ r.at \in Nat /\ r.requests \in Seq(Nat) /\ Len(r.requests) \in Nat /\ r.observed \subseteq Nat
      /\ r.total \in Nat /\ s.count \in Nat /\ r.svc \in Nat /\ r.win \in 1..Len(windows)
  BY <1>3, <1>7 DEF Readers, Service
<1>9. PICK P \in SUBSET Tally(s) :
        /\ r.total <= Cardinality(P)
        /\ \A e \in P :
             /\ e[1] < r.at => e[1] \in r.observed
             /\ e[1] < Len(r.requests) => e[2] <= r.requests[e[1] + 1]
  BY <1>7 DEF Shows
<1>10. \A e \in P : /\ e[1] \in s.lastSeen /\ e[1] \in Nat /\ e[1] < s.count
                    /\ e[2] \in Nat /\ e[2] <= s.requests[e[1]]
  BY <1>3, <1>9, Placed
<1>11. CASE r.stage = "requests"
  <2>0. s.count \in Nat /\ \A n \in 0..(s.count - 1) : s.requests[n] \in Nat
    BY <1>3 DEF Service
  <2>1. s.requests[r.at] \in Nat /\ r.at < s.count /\ Len(r.requests) = r.at /\ \A n \in r.observed : n < r.at
    <3>1. r.at < s.count /\ Len(r.requests) = r.at /\ \A n \in r.observed : n < r.at
      BY <1>7, <1>11 DEF Shows
    <3>2. r.at \in 0..(s.count - 1)
      BY <1>8, <2>0, <3>1
    <3> QED BY <2>0, <3>1, <3>2
  <2>2. PICK z : z = Append(r.requests, s.requests[r.at])
    OBVIOUS
  <2>3. /\ z \in Seq(Nat) /\ Len(z) = r.at + 1 /\ z[r.at + 1] = s.requests[r.at]
        /\ \A n \in 1..r.at : z[n] = r.requests[n]
    BY <1>8, <2>1, <2>2, AppendProperties
  <2>4. r2 = [r EXCEPT !.stage = "seen", !.requests = z]
    BY <1>4, <1>5, <1>6, <1>11, <2>2
  <2>5. /\ r2 \in Readers(1..Len(windows)) /\ r2.stage = "seen" /\ r2.win = r.win /\ r2.svc = r.svc /\ r2.at = r.at
        /\ r2.total = r.total /\ r2.observed = r.observed /\ r2.requests = z
    BY <1>7, <2>3, <2>4 DEF Readers
  <2>6. \A e \in P : e[1] < Len(z) => e[2] <= z[e[1] + 1]
    <3> SUFFICES ASSUME NEW e \in P, e[1] < Len(z) PROVE e[2] <= z[e[1] + 1]
      OBVIOUS
    <3>1. CASE e[1] = r.at
      BY <1>10, <2>3, <3>1
    <3>2. CASE e[1] < r.at
      <4>1. e[1] + 1 \in 1..r.at
        BY <1>8, <1>10, <3>2
      <4> QED BY <1>9, <2>1, <2>3, <3>2, <4>1
    <3> QED BY <1>8, <1>10, <2>3, <3>1, <3>2
  <2>7. Shows(r2, s)
    BY <1>9, <2>1, <2>3, <2>5, <2>6 DEF Shows
  <2> QED BY <1>2, <1>4, <1>5, <1>6, <2>5, <2>7 DEF ReaderOK, ReaderFits, s
<1>12. CASE r.stage = "seen"
  <2>1. r.at < s.count /\ Len(r.requests) = r.at + 1 /\ \A n \in r.observed : n < r.at
    BY <1>7, <1>12 DEF Shows
  <2>2. PICK o, g : /\ o = IF r.at \in s.lastSeen THEN r.observed \cup {r.at} ELSE r.observed
                    /\ g = IF r.at + 1 = s.count THEN "read" ELSE "requests"
    OBVIOUS
  <2>3. r2 = Onward(r, g, o)
    BY <1>4, <1>5, <1>6, <1>12, <2>2 DEF Onward
  <2>4. o \in SUBSET Nat /\ (\A n \in o : n < r.at + 1) /\ g \in {"read", "requests"}
    BY <1>8, <2>1, <2>2
  <2>5. /\ r2 \in Readers(1..Len(windows)) /\ r2.stage = g /\ r2.win = r.win /\ r2.svc = r.svc /\ r2.at = r.at + 1
        /\ r2.total = r.total /\ r2.observed = o /\ r2.requests = r.requests
    <3>1. o \in SUBSET Nat /\ g \in {"read", "requests"} /\ r \in Readers(1..Len(windows))
      BY <1>7, <2>4
    <3> QED BY <2>3, <3>1, NextSite
  <2>6. \A e \in P : e[1] < r.at + 1 => e[1] \in o
    <3> SUFFICES ASSUME NEW e \in P, e[1] < r.at + 1 PROVE e[1] \in o
      OBVIOUS
    <3>1. CASE e[1] = r.at
      BY <1>10, <2>2, <3>1
    <3>2. CASE e[1] < r.at
      BY <1>9, <2>2, <3>2
    <3> QED BY <1>8, <1>10, <3>1, <3>2
  <2>7. IF g = "read" THEN r.at + 1 = s.count ELSE r.at + 1 < s.count
    BY <1>8, <2>1, <2>2
  <2>8. Shows(r2, s)
    BY <1>9, <2>1, <2>4, <2>5, <2>6, <2>7 DEF Shows
  <2> QED BY <1>2, <1>4, <1>5, <1>6, <2>5, <2>8 DEF ReaderOK, ReaderFits, s
<1> QED BY <1>1, <1>5, <1>11, <1>12

-----------------------------------------------------------------------------
(* Every step *)

LEMMA ObserverNextStep ==
    ASSUME ObserverInv, MemberTypes, workload' = workload, workload \in {"http", "observe"},
           ObserverNext(Windows[workload], Requests[workload], Crew[workload])
    PROVE  ObserverInv'
<1>0. Crew[workload] \subseteq Workers /\ workload \in DOMAIN Activations /\ DOMAIN conn = Workers
  BY MemberAssumption DEF MemberTypes
<1>1. ASSUME NEW q \in Windows[workload], Reset(q) PROVE ObserverInv'
  BY <1>0, <1>1, ResetStep
<1>2. ASSUME NEW w \in Workers, NEW r, ArriveHTTP(w, r) PROVE ObserverInv'
  <2>1. conn[w].pc = "idle" /\ conn' = [conn EXCEPT ![w] = Arrived(r)] /\ UNCHANGED <<windows, recording, reader>>
    BY <1>2 DEF ArriveHTTP, Arrive, Free
  <2>2. \A v \in Workers : conn[v].pc = "end" => conn'[v] = conn[v]
    BY <1>0, <2>1
  <2> QED BY <2>1, <2>2, ObserverUntouched
<1>3. ASSUME NEW w \in Workers, AskHTTP(w) PROVE ObserverInv'
  <2>1. conn[w].pc = "ask" /\ (\E c : conn' = [conn EXCEPT ![w] = c]) /\ UNCHANGED <<windows, recording, reader>>
    BY <1>3 DEF AskHTTP, Ask, AskIP, observerVars
  <2>2. \A v \in Workers : conn[v].pc = "end" => conn'[v] = conn[v]
    BY <1>0, <2>1
  <2> QED BY <2>1, <2>2, ObserverUntouched
<1>4. ASSUME NEW w \in Workers, RecordBegin(w) PROVE ObserverInv'
  BY <1>0, <1>4, RecordBeginStep
<1>5. ASSUME NEW w \in Workers, Record(w) PROVE ObserverInv'
  BY <1>0, <1>5, RecordStep
<1>6. ASSUME (\E n : ReadBegin(n)) \/ ReadSite \/ ReadEnd PROVE ObserverInv'
  <2>1. UNCHANGED <<conn, windows, recording>>
    BY <1>6 DEF ReadBegin, ReadSite, ReadEnd
  <2>2. ReaderOK'
    <3>1. ASSUME NEW n, ReadBegin(n) PROVE ReaderOK'
      BY <3>1, ReadBeginStep
    <3>2. ASSUME ReadSite PROVE ReaderOK'
      BY <3>2, ReadSiteStep
    <3>3. ASSUME ReadEnd PROVE ReaderOK'
      BY <3>3 DEF ReadEnd, ReaderOK, ReaderFits
    <3> QED BY <1>6, <3>1, <3>2, <3>3
  <2>3. Recordings'
    BY <2>1, RecordingsKept DEF ObserverInv
  <2> QED BY <2>2, <2>3 DEF ObserverInv
<1> QED BY <1>0, <1>1, <1>2, <1>3, <1>4, <1>5, <1>6 DEF ObserverNext

LEMMA ObserverInvStep == MemberInv /\ ObserverInv /\ [MemberNext]_memberVars => ObserverInv'
<1> SUFFICES ASSUME MemberInv, ObserverInv, [MemberNext]_memberVars PROVE ObserverInv'
  OBVIOUS
<1>1. CASE UNCHANGED memberVars
  <2>1. UNCHANGED <<conn, windows, recording, reader, workload>>
    BY <1>1 DEF memberVars, planeVars, observerVars
  <2> QED BY <2>1, ObserverUntouched
<1>2. CASE MemberNext
  <2>0. workload' = workload
    BY <1>2 DEF MemberNext
  <2>1. CASE Control /\ UNCHANGED <<conn, observerVars, libraryVars, dnsVars>>
    BY <2>0, <2>1, ObserverUntouched DEF observerVars
  <2>2. CASE workload \in {"http", "observe"}
             /\ ObserverNext(Windows[workload], Requests[workload], Crew[workload])
    BY <2>0, <2>2, ObserverNextStep DEF MemberInv
  <2>3. CASE workload \notin {"http", "observe"} /\ UNCHANGED observerVars
    <3>1. windows = <<>>
      BY <2>3 DEF ObserverInv, Recordings
    <3> QED BY <2>0, <2>3, <3>1, ObserverUntouched DEF observerVars
  <2> QED BY <1>2, <2>1, <2>2, <2>3 DEF MemberNext
<1> QED BY <1>1, <1>2

\* What a finished summary shows covers what it counted.
LEMMA SummaryCovers == ObserverInv => ObserverSummaryAgrees
<1> SUFFICES ASSUME ObserverInv, reader.stage = "read"
             PROVE  reader.total <= Cardinality(UNION {{n} \X (1..reader.requests[n + 1]) : n \in reader.observed})
  BY DEF ObserverSummaryAgrees
<1>1. PICK r : r = reader
  OBVIOUS
<1>2. reader # NotReading /\ windows \in Seq(Counters)
  BY DEF NotReading, ObserverInv, Recordings
<1>3. PICK s : s = windows[reader.win][reader.svc]
  OBVIOUS
<1>4. r \in Readers(1..Len(windows)) /\ Shows(r, s) /\ reader.svc \in 1..Len(windows[reader.win])
  BY <1>1, <1>2, <1>3 DEF ObserverInv, ReaderOK, ReaderFits
<1>5. s \in Service
  <2>1. reader.win \in 1..Len(windows)
    BY <1>1, <1>4 DEF Readers
  <2> QED BY <1>2, <1>3, <1>4, <2>1, ServiceAt
<1>6. /\ r.at \in Nat /\ r.requests \in Seq(Nat) /\ r.observed \subseteq Nat
      /\ r.total \in Nat /\ s.count \in Nat
  BY <1>4, <1>5 DEF Readers, Service
<1>7. r.at = s.count /\ Len(r.requests) = r.at /\ \A n \in r.observed : n < r.at
  BY <1>1, <1>4 DEF Shows
<1>8. PICK P \in SUBSET Tally(s) :
        /\ r.total <= Cardinality(P)
        /\ \A e \in P :
             /\ e[1] < r.at => e[1] \in r.observed
             /\ e[1] < Len(r.requests) => e[2] <= r.requests[e[1] + 1]
  BY <1>4 DEF Shows
<1> DEFINE f == [n \in r.observed |-> r.requests[n + 1]]
           U == UNION {{n} \X (1..f[n]) : n \in r.observed}
<1>9. \A n \in r.observed : f[n] \in Nat /\ f[n] = r.requests[n + 1]
  <2> TAKE n \in r.observed
  <2>1. n + 1 \in 1..Len(r.requests)
    BY <1>6, <1>7
  <2> QED BY <1>6, <2>1, ElementOfSeq
<1>10. IsFiniteSet(U)
  <2>1. IsFiniteSet(0..(r.at - 1))
    <3>1. 0 \in Int /\ r.at - 1 \in Int
      BY <1>6
    <3> QED BY <3>1, FS_Interval
  <2>2. r.observed \subseteq 0..(r.at - 1)
    BY <1>6, <1>7
  <2>3. IsFiniteSet(r.observed)
    BY <2>1, <2>2, FS_Subset
  <2> HIDE DEF f
  <2> QED BY <1>9, <2>3, RowsFinite
<1>11. P \subseteq U
  <2> SUFFICES ASSUME NEW e \in P PROVE e \in U
    OBVIOUS
  <2>1. e[1] \in Nat /\ e[1] < s.count /\ e[2] \in Nat /\ e[2] > 0 /\ e = <<e[1], e[2]>>
    BY <1>5, <1>8, Placed
  <2>2. e[1] \in r.observed /\ e[2] <= r.requests[e[1] + 1]
    BY <1>7, <1>8, <2>1
  <2>3. e[2] \in 1..f[e[1]]
    BY <1>9, <2>1, <2>2
  <2> HIDE DEF f
  <2>4. e \in {e[1]} \X (1..f[e[1]])
    BY <2>1, <2>3
  <2> QED BY <2>2, <2>4
<1>12. U = UNION {{n} \X (1..r.requests[n + 1]) : n \in r.observed}
  OBVIOUS
<1>13. Cardinality(P) <= Cardinality(U) /\ Cardinality(P) \in Nat /\ Cardinality(U) \in Nat
  <2> HIDE DEF U
  <2> QED BY <1>10, <1>11, FS_Subset, FS_CardinalityType
<1>14. r.total <= Cardinality(U)
  <2> HIDE DEF U
  <2> QED BY <1>6, <1>8, <1>13
<1> QED BY <1>1, <1>12, <1>14, Zenon

\* A summary never claims requests it cannot place: for every number of
\* goroutines that count without a lock, windows, services and sites, the sites
\* a summary reports as observed account for its total.
THEOREM SummariesAgree == MemberSpec => []ObserverSummaryAgrees
<1>1. MemberInit => ObserverInv
  BY ObserverInvInit
<1>2. ObserverInv => ObserverSummaryAgrees
  BY SummaryCovers
<1>3. MemberInv /\ ObserverInv /\ [MemberNext]_memberVars => ObserverInv'
  BY ObserverInvStep
<1> QED BY <1>1, <1>2, <1>3, MemberCorrect, PTL DEF MemberSpec
=============================================================================
