----------------------------- MODULE VeriflierRun -----------------------------
(***************************************************************************)
(* The Veriflier benchmarks at work: uptime-bench-veriflier-url-once and   *)
(* uptime-bench-veriflier-bench send batches of checks to a Veriflier.  A  *)
(* v2 Veriflier answers the call; a v1 Veriflier acknowledges it and calls *)
(* back with the results, in any order, late or never.  A behaviour is one *)
(* of three programs:                                                      *)
(*   real     the pool of workers over real sites, with limits per host    *)
(*            and in all, a results file, and a resumed run after a crash  *)
(*   fixture  one batch after the other against the counted target         *)
(*   tier     paced batches in flight together, callbacks drained at the   *)
(*            end, and a verdict                                           *)
(* Contexts are never cancelled: main runs under context.Background.  A    *)
(* fixture or a tier starts afresh, but its IDs are a hash of names: v1    *)
(* checks that an earlier execution left behind (program.stale) call back  *)
(* under the same IDs, for a URL with the run ID of that execution.        *)
(***************************************************************************)
EXTENDS VeriflierBatches

CONSTANTS Programs,     \* [name, modes, dump, maxURLs, attempts, buffered, stale]: what a behaviour runs
          AllModes,     \* defaultModes
          Endpoint,     \* mode -> "v1" or "v2"
          FirstID,      \* firstSyntheticBlogID: mode -> the ID of its first check
          BatchSize, PerHost, Global,
          FixtureURLs, Rate, Minutes, Concurrency

ASSUME LimitsAssumption ==
    /\ PerHost \in Nat \ {0} /\ Global \in Nat \ {0} /\ FixtureURLs \in Nat \ {0}
    /\ BatchSize \in Nat /\ Rate \in Nat /\ Minutes \in Nat /\ Concurrency \in Nat

\* The default modes have names of their own.  FirstID is a hash of the name: the
\* modes get ranges of IDs that do not meet as long as their checks are fewer
\* than the distance of the hashes, 64 million for the modes of defaultModes.
\* (The tiers of uptime-bench-veriflier-bench hash the names of endpoint and
\* tier; names that an operator chooses could come closer.)
ASSUME ModesAssumption ==
    /\ AllModes \in Seq(STRING) /\ AllModes # <<>>
    /\ \A i, k \in DOMAIN AllModes : AllModes[i] = AllModes[k] => i = k
    /\ Endpoint \in [Range(AllModes) -> {"v1", "v2"}]
    /\ FirstID \in [Range(AllModes) -> Nat]
    /\ \A m, o \in Range(AllModes) :
          m # o => \/ FirstID[m] + AtLeast(FixtureURLs, tierTotal(Rate, Minutes)) <= FirstID[o]
                  \/ FirstID[o] + AtLeast(FixtureURLs, tierTotal(Rate, Minutes)) <= FirstID[m]

\* The programs are runs that main starts: modes it knows, or none named.
DumpRow == [active : BOOLEAN, url : Nat, host : Nat, scheme : STRING, hash : Nat]
ASSUME ProgramsAssumption ==
    /\ Programs \subseteq [name : {"real", "fixture", "tier"}, modes : Seq(STRING), dump : Seq(DumpRow),
                          maxURLs : Nat, attempts : Nat, buffered : BOOLEAN, stale : SUBSET Nat]
    /\ \A p \in Programs : KnownModes(AllModes, p.modes) /\ (p.name = "real" => p.stale = {})

VARIABLES program,
          pos,          \* [try, mode, skip]: the attempt and the mode it is in
          phase,        \* "start", "run", "drain" or "done"
          plan, queue,  \* the batches of the mode, and those not yet taken
          wk,           \* the workers
          outcomes,     \* outcomeCh
          limits,       \* hosts and tokens in use, and who holds the token lock
          jobs,         \* checks the Verifliers accepted
          callbacks,    \* the callback server's rows: ID -> the URL checked
          rows,         \* the rows the drain of a tier has read
          results,      \* what was counted
          buffer, file, \* results.ndjson, before and after the flush
          observed,     \* requests the counted target reports for each mode
          writer,       \* the writer of results.ndjson: "open", "failed" or "unopened"
          sampler,      \* the resource sampler: "on", or "hung" in an ssh that never ends
          report        \* [mode, ids, noted] of the modes that are over

vars == <<program, pos, phase, plan, queue, wk, outcomes, limits, jobs, callbacks, rows, results, buffer, file, observed, writer, sampler, report>>

Selected == loadAndSelectSites(program.dump, program.maxURLs)
Hosts == {1} \cup UNION {{p.dump[i].host : i \in DOMAIN p.dump} : p \in Programs}
Workers == 1..AtLeast(Global, inFlightBatches(Concurrency, BatchSize))
Modes == selectModes(AllModes, program.modes)
Ep == Endpoint[Modes[pos.mode]]

Batches(p, q) ==
    CASE p.name = "real" -> makeHostAwareBatches(runRealURLComparison(Selected, q.skip), AtMost(BatchSize, Global))
      [] p.name = "fixture" -> makeBatches(FixtureChecks(FirstID[Modes[q.mode]], FixtureURLs, 1), BatchSize)
      [] p.name = "tier" -> buildBatches(tierTotal(Rate, Minutes), BatchSize, FirstID[Modes[q.mode]], 1)
Checks == UNION {{b[i] : i \in DOMAIN b} : b \in Range(plan)}

\* Workers of the pool; one caller for the fixture; goroutines of a tier.
Crew == CASE program.name = "real" -> 1..AtLeast(AtMost(Global, Len(plan)), 1)
          [] program.name = "fixture" -> {1}
          [] program.name = "tier" -> 1..inFlightBatches(Concurrency, BatchSize)

Idle == [pc |-> "idle", batch |-> <<>>, at |-> 0, got |-> 0, read |-> {}]
NoLimits == [host |-> [h \in Hosts |-> 0], tokens |-> 0, mu |-> 0]

\* A mode starts: runFixture, runRealURLComparison and the loop over tiers.
FirstPhase(p) == IF p.name = "tier" THEN "start" ELSE "run"
Begin(q) ==
    /\ pos' = q /\ phase' = FirstPhase(program) /\ plan' = Batches(program, q) /\ queue' = plan'
    /\ wk' = [w \in Workers |-> Idle] /\ outcomes' = <<>> /\ limits' = NoLimits /\ rows' = {}
    /\ writer' = "open" /\ sampler' = "on"

Init ==
    /\ program \in Programs
    /\ pos = [try |-> 1, mode |-> 1, skip |-> 0]
    /\ phase = FirstPhase(program) /\ plan = Batches(program, pos) /\ queue = plan
    /\ wk = [w \in Workers |-> Idle] /\ outcomes = <<>> /\ limits = NoLimits /\ rows = {}
    /\ jobs = {} /\ callbacks = {} /\ results = {} /\ buffer = {} /\ file = {}
    /\ observed = {} /\ writer = "open" /\ sampler = "on" /\ report = {}

(***************************************************************************)
(* Results: one per check of the batch, of kind completed, missing or      *)
(* transport.                                                              *)
(***************************************************************************)
Result(c, kind, url) == [try |-> pos.try, mode |-> pos.mode, id |-> c.id, kind |-> kind,
                         asked |-> c.url, url |-> url]

transportFailures(batch) == {Result(c, "transport", c.url) : c \in Range(batch)}

\* convertV1Rows: the rows that came, and missing for every other check.
convertV1Rows(checks, read) ==
    {LET mine == {r \in read : r.id = c.id}
     IN  IF mine = {} THEN Result(c, "missing", c.url) ELSE Result(c, "completed", (CHOOSE r \in mine : TRUE).url)
        : c \in checks}

\* The jobs a worker's batch became.
Mine(w) == {j \in jobs : j.id \in Ids(wk[w].batch) /\ j.try = pos.try /\ j.mode = pos.mode}

\* release: the tokens, then the hosts; then the outcome goes to the channel
\* (its capacity, one per worker, is never reached here).
Released(w) ==
    LET b == wk[w].batch
    IN  IF program.name # "real" THEN limits
        ELSE [limits EXCEPT !.tokens = @ - AtMost(Len(b), Global),
                            !.host = [h \in Hosts |-> IF h \in HostsOf(b) THEN @[h] - 1 ELSE @[h]]]
Deliver(w, out) ==
    /\ limits' = Released(w)
    /\ wk' = [wk EXCEPT ![w] = Idle]
    /\ IF program.name = "real" THEN outcomes' = Append(outcomes, out) /\ UNCHANGED results
       ELSE results' = results \cup out /\ UNCHANGED outcomes

(***************************************************************************)
(* The pool of workers of runRealMode.                                     *)
(***************************************************************************)
Take(w) ==
    /\ phase = "run" /\ w \in Crew /\ wk[w].pc = "idle" /\ queue # <<>>
    /\ wk' = [wk EXCEPT ![w] = [Idle EXCEPT !.batch = Head(queue),
                                  !.pc = CASE program.name = "real" -> "hosts"
                                           [] program.name = "fixture" -> "send"
                                           [] program.name = "tier" -> "post"]]
    /\ queue' = Tail(queue)
    /\ UNCHANGED <<program, pos, phase, plan, outcomes, limits, jobs, callbacks, rows, results, buffer, file, observed, writer, sampler, report>>

\* acquireBatchLimits: one host after the other, each until it has room.
AcquireHost(w) ==
    /\ wk[w].pc = "hosts"
    /\ LET hs == uniqueBatchHosts(wk[w].batch)
           h == hs[wk[w].at + 1]
       IN  /\ limits.host[h] < PerHost
           /\ limits' = [limits EXCEPT !.host[h] = @ + 1]
           /\ wk' = [wk EXCEPT ![w] = [wk[w] EXCEPT !.at = @ + 1, !.pc = IF wk[w].at + 1 = Len(hs) THEN "lock" ELSE "hosts"]]
    /\ UNCHANGED <<program, pos, phase, plan, queue, outcomes, jobs, callbacks, rows, results, buffer, file, observed, writer, sampler, report>>

\* lockedTokenSemaphore.Acquire: under the lock, token after token.
Lock(w) ==
    /\ wk[w].pc = "lock" /\ limits.mu = 0
    /\ limits' = [limits EXCEPT !.mu = w]
    /\ wk' = [wk EXCEPT ![w].pc = "tokens"]
    /\ UNCHANGED <<program, pos, phase, plan, queue, outcomes, jobs, callbacks, rows, results, buffer, file, observed, writer, sampler, report>>

\* Faulty variant: one token whatever the size of the batch.
TakesOneToken(w) ==
    /\ wk[w].pc = "tokens" /\ limits.tokens < Global
    /\ limits' = [limits EXCEPT !.tokens = @ + 1, !.mu = 0]
    /\ wk' = [wk EXCEPT ![w].pc = "send"]
    /\ UNCHANGED <<program, pos, phase, plan, queue, outcomes, jobs, callbacks, rows, results, buffer, file, observed, writer, sampler, report>>

TakeToken(w) ==
    /\ wk[w].pc = "tokens" /\ limits.tokens < Global
    /\ LET full == wk[w].got + 1 = AtMost(Len(wk[w].batch), Global)
       IN  /\ limits' = [limits EXCEPT !.tokens = @ + 1, !.mu = IF full THEN 0 ELSE @]
           /\ wk' = [wk EXCEPT ![w] = [wk[w] EXCEPT !.got = @ + 1, !.pc = IF full THEN "send" ELSE "tokens"]]
    /\ UNCHANGED <<program, pos, phase, plan, queue, outcomes, jobs, callbacks, rows, results, buffer, file, observed, writer, sampler, report>>

(***************************************************************************)
(* executeBatch, runMode and the goroutines of runEndpointTier.            *)
(***************************************************************************)
Forget(ids) == callbacks' = {r \in callbacks : r.id \notin ids}

ForgetIDs(w) ==
    /\ wk[w].pc = "send"
    /\ IF Ep = "v1" THEN Forget(Ids(wk[w].batch)) ELSE UNCHANGED callbacks
    /\ wk' = [wk EXCEPT ![w].pc = "post"]
    /\ UNCHANGED <<program, pos, phase, plan, queue, outcomes, limits, jobs, rows, results, buffer, file, observed, writer, sampler, report>>

\* The request leaves; the Veriflier accepts it, or it never gets there or is
\* turned away.
Post(w) ==
    /\ wk[w].pc = "post"
    /\ \/ jobs' = jobs \cup
             {[try |-> pos.try, mode |-> pos.mode, id |-> c.id, url |-> c.url, seen |-> FALSE, noted |-> FALSE, told |-> FALSE,
               nth |-> Cardinality({j \in Mine(w) : j.id = c.id})] : c \in Range(wk[w].batch)}
       \/ UNCHANGED jobs
    /\ wk' = [wk EXCEPT ![w].pc = "answer"]
    /\ UNCHANGED <<program, pos, phase, plan, queue, outcomes, limits, callbacks, rows, results, buffer, file, observed, writer, sampler, report>>

\* sendV1Batch succeeds: the acknowledgement of an accepted batch.
AckV1(w) ==
    /\ wk[w].pc = "answer" /\ Ep = "v1" /\ Mine(w) # {}
    /\ IF program.name = "tier" THEN Deliver(w, {})
       ELSE wk' = [wk EXCEPT ![w].pc = "wait"] /\ UNCHANGED <<limits, outcomes, results>>
    /\ UNCHANGED <<program, pos, phase, plan, queue, jobs, callbacks, rows, buffer, file, observed, writer, sampler, report>>

\* sendV2Batch succeeds: results for the checks that were made in time.
AnswerV2(w) ==
    /\ wk[w].pc = "answer" /\ Ep = "v2" /\ Mine(w) # {}
    /\ LET made == {j \in Mine(w) : j.seen}
       IN  /\ Deliver(w, convertV1Rows(Range(wk[w].batch), {[id |-> j.id, url |-> j.url] : j \in made}))
           /\ jobs' = (jobs \ made) \cup {[j EXCEPT !.told = TRUE] : j \in made}
    /\ UNCHANGED <<program, pos, phase, plan, queue, callbacks, rows, buffer, file, observed, writer, sampler, report>>

\* The call fails: no answer in time, no connection, overload, a status that
\* is not 200, a body that is no answer.  The Veriflier may have the batch.
CallFails(w) ==
    /\ wk[w].pc = "answer"
    /\ Deliver(w, transportFailures(wk[w].batch))
    /\ UNCHANGED <<program, pos, phase, plan, queue, jobs, callbacks, rows, buffer, file, observed, writer, sampler, report>>

\* ResultsForIDs: the callbacks that are there whenever it looks (on a signal
\* or a tick), until all are, or the deadline finds it with what it read last.
ReadIDs(ids) == {r \in callbacks : r.id \in ids}
ResultsForIDs(w) ==
    LET now == ReadIDs(Ids(wk[w].batch))
    IN  /\ wk[w].pc = "wait" /\ now # wk[w].read
        /\ IF Cardinality(now) >= Len(wk[w].batch)
           THEN Deliver(w, convertV1Rows(Range(wk[w].batch), now))
           ELSE wk' = [wk EXCEPT ![w].read = now] /\ UNCHANGED <<limits, outcomes, results>>
        /\ UNCHANGED <<program, pos, phase, plan, queue, jobs, callbacks, rows, buffer, file, observed, writer, sampler, report>>
DrainDeadline(w) ==
    /\ wk[w].pc = "wait"
    /\ Deliver(w, convertV1Rows(Range(wk[w].batch), wk[w].read))
    /\ UNCHANGED <<program, pos, phase, plan, queue, jobs, callbacks, rows, buffer, file, observed, writer, sampler, report>>

(***************************************************************************)
(* The main goroutine.                                                     *)
(***************************************************************************)
\* results.ndjson cannot be opened: the mode is over before a batch is made.
OpenFails ==
    /\ program.name = "real" /\ phase = "run" /\ writer = "open"
    /\ queue = plan /\ outcomes = <<>> /\ buffer = {} /\ \A w \in Workers : wk[w].pc = "idle"
    /\ writer' = "unopened" /\ plan' = <<>> /\ queue' = <<>>
    /\ UNCHANGED <<program, pos, phase, wk, outcomes, limits, jobs, callbacks, rows, results, buffer, file, observed, sampler, report>>

\* accumulateModeResult, and writeResultRecords into the buffered writer: one
\* record per check of the batch, whatever became of it.  A writer that has
\* failed takes no more.
Collect ==
    /\ outcomes # <<>>
    /\ results' = results \cup Head(outcomes)
    /\ buffer' = IF writer = "open" THEN buffer \cup {[mode |-> r.mode, url |-> r.asked] : r \in Head(outcomes)} ELSE buffer
    /\ outcomes' = Tail(outcomes)
    /\ UNCHANGED <<program, pos, phase, plan, queue, wk, limits, jobs, callbacks, rows, file, observed, writer, sampler, report>>

Quiet == phase = "run" /\ queue = <<>> /\ outcomes = <<>> /\ \A w \in Workers : wk[w].pc = "idle"

\* A write of the buffer fails, when it is full, at a flush or at the end: some
\* of it is in the file, and the writer keeps its error.  (Before the end only
\* where a crash may follow: without one no later step tells the two apart.)
WriteFails ==
    /\ buffer # {} /\ (Quiet \/ pos.try < program.attempts)
    /\ \E part \in SUBSET buffer : file' = file \cup part
    /\ buffer' = {} /\ writer' = "failed"
    /\ UNCHANGED <<program, pos, phase, plan, queue, wk, outcomes, limits, jobs, callbacks, rows, results, observed, sampler, report>>

\* The writer is flushed now and then, and when it is full.  (Only where a
\* crash may follow, as above.)
Flush ==
    /\ buffer # {} /\ pos.try < program.attempts
    /\ file' = file \cup buffer /\ buffer' = {}
    /\ UNCHANGED <<program, pos, phase, plan, queue, wk, outcomes, limits, jobs, callbacks, rows, results, observed, writer, sampler, report>>

\* ForgetRange at the start of a tier.
ForgetRange ==
    /\ phase = "start"
    /\ IF Ep = "v1" THEN Forget({c.id : c \in Checks}) ELSE UNCHANGED callbacks
    /\ phase' = "run"
    /\ UNCHANGED <<program, pos, plan, queue, wk, outcomes, limits, jobs, rows, results, buffer, file, observed, writer, sampler, report>>

NextMode ==
    IF pos.mode < Len(Modes)
    THEN Begin([pos EXCEPT !.mode = @ + 1, !.skip = 0])
    ELSE phase' = "done" /\ UNCHANGED <<pos, plan, queue, wk, outcomes, limits, rows, writer, sampler>>

\* Faulty variant: the last records stay in the buffer.
EndWithoutFlush == UNCHANGED <<buffer, file>>

\* The end of runRealMode flushes the writer.
FlushAtEnd == file' = file \cup buffer /\ buffer' = {}

\* Observation: what the counted target has counted for the mode's path.
Observation ==
    observed' = observed \cup
        {[mode |-> pos.mode, requests |-> Cardinality({j \in jobs : j.noted /\ j.mode = pos.mode})]}

\* stopAndWait: the sampler takes its last sample, by an ssh that has no
\* deadline.  (One that hangs earlier is waited for here as well.)
stopAndWait == sampler = "on"
Hang ==
    /\ sampler = "on" /\ (Quiet \/ phase = "drain")
    /\ sampler' = "hung"
    /\ UNCHANGED <<program, pos, phase, plan, queue, wk, outcomes, limits, jobs, callbacks, rows, results, buffer, file, observed, writer, report>>

\* The result of the mode: its checks, and whether ErrorsByKind tells of a
\* failed open, write or flush (the last flush repeats the writer's error).
modeResult == report' = report \cup {[mode |-> pos.mode, ids |-> {c.id : c \in Checks}, noted |-> writer # "open"]}

EndMode ==
    /\ Quiet /\ stopAndWait /\ modeResult /\ UNCHANGED program
    /\ \/ program.name = "real" /\ FlushAtEnd /\ NextMode /\ UNCHANGED observed
       \/ program.name = "fixture" /\ Observation /\ NextMode /\ UNCHANGED <<buffer, file>>
       \/ program.name = "tier" /\ Ep = "v2" /\ Observation /\ NextMode /\ UNCHANGED <<buffer, file>>
    /\ UNCHANGED <<jobs, callbacks, results>>

\* A tier on v1 waits for its callbacks when every batch is sent.
StartDrain ==
    /\ Quiet /\ program.name = "tier" /\ Ep = "v1"
    /\ phase' = "drain"
    /\ UNCHANGED <<program, pos, plan, queue, wk, outcomes, limits, jobs, callbacks, rows, results, buffer, file, observed, writer, sampler, report>>

\* ResultsForRange: as ResultsForIDs, over the whole tier.
ResultsForRange ==
    /\ phase = "drain" /\ ReadIDs({c.id : c \in Checks}) # rows
    /\ rows' = ReadIDs({c.id : c \in Checks})
    /\ UNCHANGED <<program, pos, phase, plan, queue, wk, outcomes, limits, jobs, callbacks, results, buffer, file, observed, writer, sampler, report>>

\* All came, or the deadline did.  A check whose batch failed counts again.
EndDrain ==
    /\ phase = "drain" /\ stopAndWait /\ modeResult /\ UNCHANGED program
    /\ results' = results \cup convertV1Rows(Checks, rows)
    /\ Observation /\ NextMode
    /\ UNCHANGED <<jobs, callbacks, buffer, file>>

\* The process dies; the operator starts again with a mode before which the
\* file has everything, and skips URLs that all have a record in it.
Crash ==
    /\ program.name = "real" /\ phase = "run" /\ pos.try < program.attempts /\ UNCHANGED program
    /\ \E m \in 1..pos.mode, s \in 0..Len(Selected) :
          /\ \A o \in 1..m, i \in DOMAIN Selected : o < m \/ i <= s => [mode |-> o, url |-> Selected[i].url] \in file
          /\ Begin([pos EXCEPT !.try = @ + 1, !.mode = m, !.skip = s])
    /\ callbacks' = {} /\ buffer' = {} /\ results' = {} /\ report' = {}
    /\ UNCHANGED <<jobs, file, observed>>

(***************************************************************************)
(* The Verifliers and the counted target.                                  *)
(***************************************************************************)
OnV1(j) == Endpoint[Modes[j.mode]] = "v1"

\* A check reaches its URL.  countedTarget.handle writes the body and counts;
\* a body that fits the response buffer leaves after both, a larger one may
\* leave before the count.
Contact(j) ==
    /\ ~j.seen /\ phase # "done" /\ (program.name = "real" => ~OnV1(j))
    /\ jobs' = (jobs \ {j}) \cup {[j EXCEPT !.seen = TRUE, !.noted = program.buffered]}
    /\ UNCHANGED <<program, pos, phase, plan, queue, wk, outcomes, limits, callbacks, rows, results, buffer, file, observed, writer, sampler, report>>
CountLate(j) ==
    /\ j.seen /\ ~j.noted /\ phase # "done" /\ program.name # "real"
    /\ jobs' = (jobs \ {j}) \cup {[j EXCEPT !.noted = TRUE]}
    /\ UNCHANGED <<program, pos, phase, plan, queue, wk, outcomes, limits, callbacks, rows, results, buffer, file, observed, writer, sampler, report>>

\* A v1 Veriflier calls back: handleStatus.  (For real sites the check and
\* the callback are one step.)
handleStatus(j) ==
    /\ OnV1(j) /\ ~j.told /\ phase # "done" /\ (program.name = "real" \/ j.seen)
    /\ jobs' = (jobs \ {j}) \cup {[j EXCEPT !.seen = TRUE, !.told = TRUE]}
    /\ callbacks' = {r \in callbacks : r.id # j.id} \cup {[id |-> j.id, url |-> j.url]}
    /\ UNCHANGED <<program, pos, phase, plan, queue, wk, outcomes, limits, rows, results, buffer, file, observed, writer, sampler, report>>

\* A v1 check of an earlier execution of the fixture or the tier calls back.
StaleCallback(id) ==
    /\ phase # "done"
    /\ callbacks' = {r \in callbacks : r.id # id} \cup {[id |-> id, url |-> 0]}
    /\ UNCHANGED <<program, pos, phase, plan, queue, wk, outcomes, limits, jobs, rows, results, buffer, file, observed, writer, sampler, report>>

Worker(w) ==
    \/ Take(w) \/ AcquireHost(w) \/ Lock(w) \/ TakeToken(w) \/ ForgetIDs(w) \/ Post(w)
    \/ AckV1(w) \/ AnswerV2(w) \/ CallFails(w) \/ ResultsForIDs(w) \/ DrainDeadline(w)
Main == Collect \/ ForgetRange \/ EndMode \/ StartDrain \/ EndDrain

Next ==
    \/ \E w \in Workers : Worker(w)
    \/ Main \/ Flush \/ ResultsForRange \/ OpenFails \/ WriteFails \/ Hang \/ Crash
    \/ \E id \in program.stale : StaleCallback(id)
    \/ \E j \in jobs : Contact(j) \/ CountLate(j) \/ handleStatus(j)

\* Goroutines are scheduled, and the calls and waits of the workers and of the
\* drain have deadlines.  An ssh of the sampler has none: Hang is a step of its
\* own, and stopAndWait waits for ever after it.
Spec == Init /\ [][Next]_vars /\ (\A w \in Workers : WF_vars(Worker(w))) /\ WF_vars(Main)

-----------------------------------------------------------------------------
\* The checks of mode m that have a result of the kind.
Of(m, kind) == {r.id : r \in {x \in results : x.try = pos.try /\ x.mode = m /\ x.kind = kind}}

\* The batches that workers are executing have no more checks in all, and no
\* more for one host, than the limits of the run allow: batches of runRealMode
\* never repeat a host, and hold one place per host and one token per check.
\* (Batches only: when a call fails or its callbacks stay out, its places and
\* tokens are free again while the Veriflier may still be making its checks.)
LimitsHeld ==
    program.name = "real" =>
      LET busy == {p \in Workers \X (1..Global) :
                      wk[p[1]].pc \in {"send", "post", "answer", "wait"} /\ p[2] \in DOMAIN wk[p[1]].batch}
      IN  /\ Cardinality(busy) <= Global
          /\ \A h \in Hosts : Cardinality({p \in busy : wk[p[1]].batch[p[2]].host = h}) <= PerHost

\* In every mode that is over each check has been counted: exactly once by the
\* URL-once harness, and at least once by a tier, which also counts as missing
\* (or as completed) a check whose call failed.  (A mode whose results file
\* could not be opened makes no checks.)
EveryCheckAccounted ==
    \A e \in report : \A id \in e.ids :
       LET kinds == {r.kind : r \in {x \in results : x.try = pos.try /\ x.mode = e.mode /\ x.id = id}}
       IN  kinds # {} /\ (program.name # "tier" => Cardinality(kinds) = 1)

\* Once a mode is over every selected URL has its record in results.ndjson, or
\* the mode's result has an error about the file: also when an earlier attempt
\* died and the run skipped what that one had recorded.
EveryURLRecorded ==
    program.name = "real" =>
      \A m \in DOMAIN Modes :
         m < pos.mode \/ phase = "done" =>
            \/ \A i \in DOMAIN Selected : [mode |-> m, url |-> Selected[i].url] \in file
            \/ \E e \in report : e.mode = m /\ e.noted

\* Nothing that was selected is lost without a word: not to a failed call, a
\* callback that never came, a file that fails, nor a crash.
NothingIsLost == EveryCheckAccounted /\ EveryURLRecorded

\* A result is about the URL its check asked for, also when a callback of an
\* attempt that died comes in for the same ID.  (In a fixture or a tier it can
\* be about the URL of an earlier execution that left a check with that ID.)
ResultIsOfItsURL == \A r \in results : r.url = r.asked \/ r.id \in program.stale

\* One attempt makes a check at most once per mode: there is no retry, and a
\* call that failed may have reached the Veriflier.  So it contacts a real URL
\* at most as often as the selection has rows with it: once, unless rows of the
\* dump share a URL, which loadAndSelectSites keeps.
ContactedOncePerRow ==
    /\ \A j, k \in jobs : j.seen /\ k.seen /\ j.try = k.try /\ j.mode = k.mode /\ j.id = k.id => j = k
    /\ program.name = "real" =>
         \A j \in jobs : Cardinality({k \in jobs : k.seen /\ k.try = j.try /\ k.mode = j.mode /\ k.url = j.url})
                            <= Cardinality({i \in DOMAIN Selected : Selected[i].url = j.url})

\* Results are of the checks that were made: of their URL, asked once per row.
ResultsAreTheirOwn == ResultIsOfItsURL /\ ContactedOncePerRow

\* The counted target has counted every check of a fixture mode that completed,
\* as long as its body fits the response buffer.  (Not those that an earlier
\* execution's check with the same ID may have answered.)
CompletedWasCounted ==
    program.name = "fixture" /\ program.buffered =>
      \A o \in observed : Cardinality(Of(o.mode, "completed") \ program.stale) <= o.requests

\* Faulty variant: completion is not looked at.
IgnoresCompletion(m, n, requests) ==
    /\ 100 * requests >= 99 * n /\ 100 * requests <= 101 * n
    /\ 100 * Cardinality(Of(m, "transport")) <= n

\* classifySustainability, for a tier of n checks that are all up.
classifySustainability(m, n, requests) ==
    /\ 100 * requests >= 99 * n /\ 100 * requests <= 101 * n
    /\ 100 * Cardinality(Of(m, "completed")) >= 99 * n
    /\ 100 * Cardinality(Of(m, "transport")) <= n

\* Check i of a tier was made, by this execution or an earlier one, and its
\* answer came.
Served(m, i) ==
    LET id == FirstID[Modes[m]] + (i - 1)
    IN  /\ id \in program.stale \/ \E j \in jobs : j.mode = m /\ j.id = id /\ j.seen /\ j.told
        /\ id \in Of(m, "completed")

\* A tier that is called sustainable has, but for the one check in a hundred
\* that the thresholds allow, every check made by the Veriflier and answered.
SustainableMeansServed ==
    program.name = "tier" =>
      LET n == tierTotal(Rate, Minutes)
      IN  \A o \in observed :
             classifySustainability(o.mode, n, o.requests) => 100 * Cardinality({i \in 1..n : Served(o.mode, i)}) >= 99 * n

\* The rates that are reported have been reached.
RatesAreEarned == CompletedWasCounted /\ SustainableMeansServed

\* Every run ends, or gets through the batches of a mode and then waits for an
\* ssh of its sampler that hangs: workers take the places of their hosts in one
\* order and the tokens under one lock, so they never wait for each other in a
\* circle.
EveryRunEnds == <>(phase = "done" \/ sampler = "hung")
=============================================================================
