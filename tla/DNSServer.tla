------------------------------ MODULE DNSServer ------------------------------
(***************************************************************************)
(* The nameserver (internal/dnsserver, cmd/dns): its zones, the TXT        *)
(* records certmint puts there for ACME, and the answers that are not      *)
(* failures.                                                               *)
(***************************************************************************)
EXTENDS DataPlane

CONSTANTS Fleet,        \* nameservers, domains and targets of fleet.toml
          Member,       \* this nameserver
          TXTNames, TXTValues,
          Queries       \* queries that may arrive

VARIABLES txt,          \* the TXT store: name -> values
          query,        \* per goroutine: the TXT part of its query
          answer        \* per goroutine: the answer that is sent

dnsVars == <<txt, query, answer>>

NoQuery == [name |-> "", kept |-> {}, missed |-> FALSE]

DNSInit ==
    /\ txt = [n \in TXTNames |-> {}]
    /\ query = [w \in Workers |-> NoQuery]
    /\ answer = [w \in Workers |-> {}]

(***************************************************************************)
(* BuildFromFleet.  Fleet.served[m] are the domains nameserver m serves,   *)
(* Fleet.hosts[m] its public names; Fleet.zone[n] the domains a name is    *)
(* under; Fleet.declared[d] the NS hosts domain d declares; Fleet.first    *)
(* orders the names.  A name under two served domains takes the TTL of     *)
(* either: the loop ranges over a map.                                     *)
(***************************************************************************)
Served(n, m) == Fleet.zone[n] \cap Fleet.served[m]
First(S) == CHOOSE n \in S : \A o \in S : Fleet.first[n] <= Fleet.first[o]

\* The NS hosts of a domain: the declared ones, or for each nameserver the
\* first of its public names that is under the domain.
NSHosts(d) ==
    IF Fleet.declared[d] # {} THEN Fleet.declared[d]
    ELSE {First({n \in Fleet.hosts[o] : d \in Fleet.zone[n]}) :
             o \in {p \in DOMAIN Fleet.hosts : \E n \in Fleet.hosts[p] : d \in Fleet.zone[n]}}

Apex(d) ==
    [name |-> d, ns |-> NSHosts(d), minimum |-> Fleet.ttl[d],
     mname |-> IF NSHosts(d) = {} THEN d ELSE First(NSHosts(d))]

BuildFromFleet(m) ==
    [records |-> {n \in UNION {Fleet.hosts[o] : o \in DOMAIN Fleet.hosts} \cup Fleet.sites : Served(n, m) # {}},
     apex |-> {Apex(d) : d \in Fleet.served[m]}]

\* -zone flags add names.
MergeFlagZones == BuildFromFleet(Member).records \cup Fleet.flags

\* GeneratedRecordRange.Lookup: a numbered name within a range of the pattern.
GeneratedLookup(n) ==
    n \in DOMAIN Fleet.number /\ \E g \in Fleet.generated : Fleet.number[n] \in g.start..(g.start + g.count - 1)

LookupA(n) == n \in MergeFlagZones \/ GeneratedLookup(n)

\* LookupApex: some apex at or above the name, whichever the map yields.
LookupApex(n) == {a \in BuildFromFleet(Member).apex : a.name \in Fleet.zone[n] \cup {n}}

(***************************************************************************)
(* The TXT store, over the control plane (PUT and DELETE /acme/txt).       *)
(***************************************************************************)
Calm == UNCHANGED <<failures, now, setting, conn>> /\ reply' = NoReply
\* What no removal has named since the query came in.
Keep(n, v) == query' = [w \in Workers |-> IF query[w].name = n THEN [query[w] EXCEPT !.kept = @ \ {v}] ELSE query[w]]

Add(n, v) ==
    /\ txt' = [txt EXCEPT ![n] = @ \cup {v}]
    /\ Calm /\ UNCHANGED <<query, answer>>

\* Faulty variant: a removal drops the name with all its values.
RemoveAll(n, v) ==
    /\ v \in txt[n]
    /\ txt' = [txt EXCEPT ![n] = {}]
    /\ Keep(n, v) /\ Calm /\ UNCHANGED answer

\* Challenges for the apex and for the wildcard share one name.
RemoveTXT(n, v) ==
    /\ v \in txt[n]
    /\ txt' = [txt EXCEPT ![n] = @ \ {v}]
    /\ Keep(n, v) /\ Calm /\ UNCHANGED answer

(***************************************************************************)
(* Queries.  A TXT query for a challenge that the store has bypasses the   *)
(* failures; every other query goes through them.                          *)
(***************************************************************************)
ArriveDNS(w, r) ==
    /\ Arrive(w, r)
    /\ query' = [query EXCEPT ![w] = IF r.qtype = "TXT" THEN [NoQuery EXCEPT !.name = r.name, !.kept = txt[r.name]] ELSE NoQuery]
    /\ UNCHANGED <<txt, answer>>

\* BuildResponse's bypass, one look at the store.
AnswerTXT(w) ==
    LET n == query[w].name
    IN  /\ n # "" /\ conn[w].pc = "ask" /\ conn[w].at = 1 /\ ~query[w].missed
        /\ \/ /\ txt[n] = {}
              /\ query' = [query EXCEPT ![w].missed = TRUE]
              /\ UNCHANGED <<conn, answer>>
           \/ /\ txt[n] # {}
              /\ answer' = [answer EXCEPT ![w] = txt[n]]
              /\ conn' = [conn EXCEPT ![w] = [@ EXCEPT !.pc = "done", !.out = "txt"]]
              /\ UNCHANGED query
        /\ reply' = NoReply
        /\ UNCHANGED <<failures, now, setting, txt>>

\* The failures are asked about only when the bypass did not answer.
AskDNS(w) ==
    /\ query[w].name # "" => query[w].missed
    /\ Ask(w)
    /\ UNCHANGED dnsVars

\* The answer that is no failure: NS or SOA at an apex, an address, or
\* NXDOMAIN with the SOA of a zone the name is in.  A delayed answer over TCP
\* may come after the connection's deadline and is then lost.
AnswerDNS(w) ==
    /\ conn[w].pc = "end" /\ conn[w].req.kind = "dns"
    /\ LET r == conn[w].req
           outs == IF conn[w].out \notin {"ok"} THEN {conn[w].out}
                   ELSE IF r.qtype \in {"NS", "SOA"} /\ LookupApex(r.name) # {}
                   THEN {IF a.name = r.name THEN "apex" ELSE "nxdomain" : a \in LookupApex(r.name)}
                   ELSE IF r.qtype = "garbled" THEN {"formerr"}
                   ELSE IF r.qtype = "A" /\ LookupA(r.name) THEN {"address"} ELSE {"nxdomain"}
           late == IF r.proto = "tcp" /\ "dns_latency" \in conn[w].noted THEN {"silence"} ELSE {}
       IN  \E o \in outs \cup late : conn' = [conn EXCEPT ![w] = [@ EXCEPT !.pc = "done", !.out = o]]
    /\ reply' = NoReply
    /\ UNCHANGED <<failures, now, setting, dnsVars>>

LeaveDNS(w) ==
    /\ Leave(w)
    /\ query' = [query EXCEPT ![w] = NoQuery] /\ answer' = [answer EXCEPT ![w] = {}]
    /\ UNCHANGED txt

DNSNext(crew) ==
    \/ \E n \in TXTNames, v \in TXTValues : Add(n, v) \/ RemoveTXT(n, v)
    \/ \E w \in crew, r \in Queries : ArriveDNS(w, r)
    \/ \E w \in crew : AnswerTXT(w) \/ AskDNS(w) \/ AnswerDNS(w) \/ LeaveDNS(w)

\* A challenge value that was in the store when a query came in and that no
\* removal has named since is in the answer, whatever failures the nameserver
\* injects and whichever other challenges come and go under the same name:
\* certificates can be minted while a scenario runs.
ChallengeIsAnswered ==
    \A w \in Workers : conn[w].pc = "done" /\ query[w].name # "" => query[w].kept \subseteq answer[w]

=============================================================================
