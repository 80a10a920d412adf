-------------------------------- MODULE Member --------------------------------
(***************************************************************************)
(* A fleet member as a process (cmd/target, cmd/dns): its registry behind  *)
(* the control server, and one of its data planes under load.  Which one   *)
(* is the workload, chosen at the start:                                   *)
(*   http     requests through the proxy and over HTTPS, no window open    *)
(*   observe  the same handler while the capacity observer counts          *)
(*   tls      handshakes while the certificate library is replaced         *)
(*   library  the certificate library alone                                *)
(*   dns      queries while ACME records come and go                       *)
(***************************************************************************)
EXTENDS CapacityObserver, CertLibrary, DNSProbe

CONSTANTS Activations,  \* workload -> the failures the harness activates
          Requests,     \* workload -> the requests monitors send
          MaxScript,    \* workload -> how many of them in one behaviour
          Clocked,      \* workloads in which time passes and failures expire
          Pollers,      \* workload -> bound on the pollers started
          Faults,       \* workload -> bound on failed exchanges and restarts
          Crew,         \* workload -> goroutines that serve
          Windows       \* workload -> reset requests of the capacity benchmark

\* targetHostPathForFailure: what an activation is addressed to.
targetHostPathForFailure(host, path, t) ==
    CASE t \in {"tcp_refused"} \cup Injected("dns") -> <<Any, Any>>
      [] t \in {"tcp_timeout"} \cup Injected("tls") -> <<host, Any>>
      [] OTHER                                      -> <<host, path>>

\* Failures are addressed as the runner addresses them, requests are of their
\* data plane's kind, and no DNS query has parameters to miss a failure by; a
\* query that does not parse cannot meet the failures that are about names.
\* A process has finitely many goroutines, and a reset names ranges of hosts.
ASSUME MemberAssumption ==
    /\ IsFiniteSet(Workers)
    /\ DOMAIN Activations \subseteq {"http", "observe", "tls", "library", "dns"}
    /\ \A l \in DOMAIN Activations :
         /\ Crew[l] \subseteq Workers
         /\ \A s \in Activations[l] :
              /\ s \in FailureSpec
              /\ \E h \in Hosts, p \in Paths \cup {Any} :
                   <<s.host, s.path>> = targetHostPathForFailure(h, p, s.type)
         /\ \A r \in Requests[l] :
              /\ r.kind \in IF l \in {"tls", "library"} THEN {"tls"} ELSE {"http", "kept", "https"}
              /\ r.kind = "http" => r.peek \in {Any, r.host}
              /\ "geo" \notin r.misses
    /\ \A l \in DOMAIN Activations \cap {"http", "observe"} : \A q \in Windows[l] :
         q.active \in Int /\ q.services \in Seq([pattern : STRING, start : Int, count : Int])
    /\ \A r \in Queries :
         /\ r.kind = "dns" /\ (r.qtype = "TXT" => r.name \in TXTNames)
         /\ r.misses = IF r.qtype = "garbled" THEN {"dns_nxdomain", "dns_cname_nxdomain"} ELSE {}

VARIABLES workload,
          script        \* the failures this behaviour is about

memberVars == <<vars, planeVars, observerVars, libraryVars, dnsVars, workload, script>>

MemberInit ==
    /\ Init /\ PlaneInit /\ ObserverInit /\ LibraryInit /\ DNSInit
    /\ workload \in DOMAIN Activations
    /\ script \in {S \in SUBSET Activations[workload] : Cardinality(S) = MaxScript[workload]}

\* The control server's part, whichever data plane runs.
Control ==
    \/ \E h \in Handlers, s \in script : SetBegin(h, s)
    \/ \E h \in Handlers : SetCommit(h)
    \/ \E s \in script : Remove(failureKey(s))
    \/ workload \in Clocked /\ Tick

MemberNext ==
    /\ \/ Control /\ UNCHANGED <<conn, observerVars, libraryVars, dnsVars>>
       \/ /\ workload \in {"http", "observe"}
          /\ ObserverNext(Windows[workload], Requests[workload], Crew[workload])
          /\ UNCHANGED <<libraryVars, dnsVars>>
       \/ /\ workload \in {"tls", "library"}
          /\ LibraryNext(Requests[workload], Crew[workload])
          /\ running' <= Pollers[workload] /\ faults' <= Faults[workload]
          /\ UNCHANGED <<observerVars, dnsVars>>
       \/ workload = "dns" /\ DNSNext(Crew[workload]) /\ UNCHANGED <<observerVars, libraryVars>>
    /\ Track
    /\ UNCHANGED <<workload, script>>

\* Pollers are goroutines that are scheduled and whose ticker keeps firing.  Their
\* requests have no deadline, so nothing is assumed of one that hangs but that
\* cancelling its context ends it.
PollerRuns(g) ==
    /\ Poll(g) \/ Download(g) \/ Rename(g) \/ PollFails(g) \/ SetLibrary(g) \/ PruneCache(g) \/ Wake(g)
    /\ Track
    /\ UNCHANGED <<observerVars, dnsVars, workload, script>>

MemberSpec ==
    /\ MemberInit /\ [][MemberNext]_memberVars
    /\ \A g \in 1..MaxApplies : WF_memberVars(PollerRuns(g))
=============================================================================
