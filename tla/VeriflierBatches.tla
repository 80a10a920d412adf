--------------------------- MODULE VeriflierBatches ---------------------------
(***************************************************************************)
(* What the Veriflier benchmarks send, before anything is sent:            *)
(* uptime-bench-veriflier-url-once selects sites from a database dump,     *)
(* numbers them and cuts them into batches; uptime-bench-veriflier-bench   *)
(* builds the batches of a tier.  Hosts are numbered in string order.      *)
(***************************************************************************)
EXTENDS Naturals, Sequences, FiniteSets, Functions

AtLeast(n, m) == IF n < m THEN m ELSE n
AtMost(n, m) == IF n > m THEN m ELSE n

\* A finite set in the order of a relation that is total on it.
InOrder(S, R) == [k \in 1..Cardinality(S) |-> CHOOSE x \in S : Cardinality({y \in S : <<y, x>> \in R}) = k - 1]
Ascending(S) == InOrder(S, {p \in S \X S : p[1] < p[2]})

\* A row [active, url, host, scheme, hash]; host 0 is a URL with none.  Rows
\* that agree in hash and URL come in any order: here, that of the dump.
Before(rows, i, j) ==
    \/ rows[i].hash < rows[j].hash
    \/ rows[i].hash = rows[j].hash /\ rows[i].url < rows[j].url
    \/ rows[i].hash = rows[j].hash /\ rows[i].url = rows[j].url /\ i < j

Eligible(rows) == {i \in DOMAIN rows : rows[i].active /\ rows[i].host # 0 /\ rows[i].scheme \in {"http", "https"}}

loadAndSelectSites(rows, maxURLs) ==
    LET sorted == InOrder(Eligible(rows), {p \in Eligible(rows) \X Eligible(rows) : Before(rows, p[1], p[2])})
        all == Cardinality(Eligible(rows))
    IN  [k \in 1..(IF maxURLs > 0 THEN AtMost(all, maxURLs) ELSE all) |-> rows[sorted[k]]]

\* The modes a flag names, each once and in its order; an unknown one is an
\* error, and no name at all selects every mode.
FirstPlaces(names) == {i \in DOMAIN names : \A k \in 1..(i - 1) : names[k] # names[i]}
selectModes(all, names) ==
    IF names = <<>> THEN all
    ELSE [k \in 1..Cardinality(FirstPlaces(names)) |-> names[Ascending(FirstPlaces(names))[k]]]
KnownModes(all, names) == Range(names) \subseteq Range(all)

\* A check: its synthetic blog ID (from 920000000), URL and host.
Numbered(sites) == [i \in DOMAIN sites |-> [id |-> i, url |-> sites[i].url, host |-> sites[i].host]]

\* Faulty variant: the IDs start again behind the URLs that are skipped.
NumberedAfterSkip(sites, skip) == Numbered(SubSeq(sites, skip + 1, Len(sites)))

\* The checks of one mode of a real run: numbered first, then skipped.
runRealURLComparison(sites, skip) ==
    IF skip >= Len(sites) THEN <<>> ELSE SubSeq(Numbered(sites), skip + 1, Len(sites))

\* A fixture mode asks count times for one URL, which names the mode: it is
\* written as the first ID of the mode.
FixtureChecks(base, count, host) == [i \in 1..count |-> [id |-> base + (i - 1), url |-> base, host |-> host]]

Ids(batch) == {batch[i].id : i \in DOMAIN batch}
HostsOf(batch) == {batch[i].host : i \in DOMAIN batch}

\* Where the batch of a check begins: a batch ends when it is full and, apart,
\* before a host that it already has.
BatchStart(checks, size, apart) ==
    LET first[i \in DOMAIN checks] ==
            IF i = 1 THEN 1
            ELSE LET f == first[i - 1]
                 IN  IF \/ i - f >= AtLeast(size, 1)
                        \/ apart /\ \E k \in f..(i - 1) : checks[k].host = checks[i].host
                     THEN i ELSE f
    IN  first

\* The checks from one beginning to the next.
Cut(checks, size, apart) ==
    LET from == Ascending({i \in DOMAIN checks : BatchStart(checks, size, apart)[i] = i})
    IN  [k \in DOMAIN from |-> SubSeq(checks, from[k], IF k = Len(from) THEN Len(checks) ELSE from[k + 1] - 1)]

makeBatches(checks, size) == Cut(checks, size, FALSE)
makeHostAwareBatches(checks, size) == Cut(checks, size, TRUE)

\* Faulty variant: the hosts in the order in which the batch has them.
HostsAsTheyCome(batch) == [i \in DOMAIN batch |-> batch[i].host]

\* The hosts of a batch, sorted: every worker takes them in one order.
uniqueBatchHosts(batch) == Ascending(HostsOf(batch))

\* The checks of a tier: as many as its rate gives, at least one, one URL.
tierTotal(rate, minutes) == AtLeast(rate * minutes, 1)
buildBatches(total, size, base, host) == makeBatches(FixtureChecks(base, total, host), size)
inFlightBatches(concurrency, size) == AtLeast(concurrency \div AtLeast(size, 1), 1)

=============================================================================
