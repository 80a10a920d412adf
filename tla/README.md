# uptime-bench in TLA+

uptime-bench measures uptime monitors. It injects failures of known kind and
time into a fleet of its own (HTTP/TLS targets and nameservers), lets monitoring
services watch that fleet, and scores what they report against the log of what
was really injected. Its results are worth as much as three statements: the log
says what the fleet did; a run that calls itself complete is complete; the
verdicts are those the log and the alerts call for. This project models the code
those statements rest on, checks it with TLC and proves part of it with TLAPS.

## 1. Inventory

### Parts, state, operations

| Part (package) | State it keeps | Operations |
| --- | --- | --- |
| control plane (`internal/control`) | per member, a map from (type, host, path) to the active failure and its expiry, behind a mutex | `/activate`, `/deactivate`, `/status`; `Lookup`, `LookupForIP` for the data plane |
| scenario runner (`internal/runner`: `runner.go`, `dns_failure.go`, `dns_baseline.go`) | the phase of one run, its resolution reason, the handles of provisioned monitors, the sorted failure timeline | `Run`: insert row, provision, walk the timeline, grace period, retrieve, deprovision, close row |
| campaign files (`internal/campaign/campaign.go`, `translate.go`; `internal/scenario`) | none | validate a campaign file, translate a design to a scenario, validate a scenario file |
| campaign generator (`internal/campaign/generator.go`) | the designs, the shuffled replays and their slots | draw a design for each cell; `generateSchedule` and its two layouts |
| campaign runner (`internal/runner/campaign.go`) | the slot it is at, the campaign's row | budget pre-flight, walk, close |
| measurement (`internal/measurement`) | derived per run and service, from rows of the database | `Derive`, `computeMetrics`, `DeriveCampaign` |
| database (`internal/db`) | `scenario_runs`, `ground_truth_events`, `monitor_reports`, `campaigns`, `derived_metrics` | inserts, closes, queries |
| adapters (`internal/adapter/*`) | monitors and maintenance windows at the services | gate, `Provision`, `Retrieve`, `Deprovision`, `CleanupStale` |
| active-run guard (`internal/activeguard`) | a lock file | `EnsureInactive`, `Acquire`, `Release` |
| target server (`internal/targetserver`) | connections and requests, one goroutine each | ask the registry about one failure type after the other, serve the first that applies |
| capacity observer (`targetserver/capacity_observer.go`) | a window of atomic counters per service and site | reset, count a request, summarise |
| certificate library on a target (`internal/certlibrary`, `targetserver/tls.go`, `cert_library_control.go`) | the current library, a cache of loaded certificates, a cache directory, the applied source | poll, mirror, swap, prune, restore, choose a certificate |
| DNS server (`internal/dnsserver`) | zones, ACME TXT records | answer a query under the active failures; set and clear TXT records |
| certificate minting (`internal/certmint`, `cmd/certmint`) | `manifest.json`, a copy of it in each process, certificate directories, a lock file | plan, issue, archive, save, trim; serve the library |
| Jetmon capacity benchmark (`internal/jetmoncapacity`) | rows of the services' databases, a suite-state file, the manifest of a batch, a replay goroutine | seed, activate, run a batch or a suite, replay, analyse, clean up |
| reports (`internal/report`, `cmd/uptime-bench-report`, `cmd/uptime-bench-finalize`) | none: reads the database | look up, derive, query, summarise |
| Veriflier benchmarks (`cmd/uptime-bench-veriflier-url-once`, `-bench`) | a pool of workers, limits, callback rows, a results file | select, batch, send, collect, resume, judge a tier |
| configuration, probe lists, experiment drivers | files | load, render |

Interactions. The harness (`cmd/harness`) calls `Run`, or `RunCampaign`, which
calls `Run` once per slot. `Run` posts to the control servers of fleet members
over HTTP with a timeout, calls adapters, and writes rows; the context it passes
around is cancelled by SIGINT and SIGTERM. Members serve the failures in their
registry until they are deactivated or expire. Afterwards `Derive` reads the rows
back, and a report or finalize command may do so while the campaign still runs. The
capacity run drives the services' databases, fails hosts of a target through the
control plane and asks its observer what arrived; with the cleanup command it shares
nothing but the lock file. The mint runs on a host of its own; targets download from it whatever its manifest
names.

### What is hard about it

* A signal may come between any two calls or while one is in flight, which then fails,
  carried out or not; every later call under the same context fails, and only
  `deprovisionAll` takes a fresh one.
* A control call may fail, or succeed with the answer lost, or be carried out
  after the client gave up. A failed database write may have been stored. A failed
  `Provision` may have created a monitor.
* The harness may be killed; members then rely on auto-expiry, which is lazy and
  whose time is computed before the registry's lock is taken.
* Several failures start and end at one instant, with shared registry keys.
* Schedules, budgets and coverage are integer arithmetic with tight bounds.
* Allowed values and defaults of a failure are written down four times, in the campaign
  file's validation, the translation, the scenario file's validation and the fleet.
* The mint writes certificate files and the manifest that names them in separate
  steps and may be killed between them; a daemon and a command run by hand each
  write back a whole manifest.
* Row order is not fixed where `ORDER BY` has ties, and a report is put together from
  several statements.
* A member's goroutines ask the registry again for every failure type, count in
  atomics without a common lock, and read a certificate library that cancelled
  pollers may still replace.
* A service may carry a call out and lose the answer; an earlier run or a cleanup may
  own the monitor that is found then.
* A deadlock rolls a transaction back of which only the last statement is retried.
* Workers hold several limits at once; callbacks come late, or for an attempt that died.

`PROJECT.json` lists these as hazards, each at its line, with the properties that
cover it. Correctness per part is in section 3.

## 2. Modules

| Module | Models | Composition |
| --- | --- | --- |
| `FailureSpecs` | the vocabulary of the control plane: requests, keys, CIDRs, rates | extended by the next two |
| `FailureWindows` | the promise: a failure is in effect from activation to deactivation or expiry, and every answer reflects what is in effect | abstract specification |
| `FailureRegistry` | the registry and its control server | implements `FailureWindows` (`INSTANCE ... WITH` live entries) |
| `ScenarioRun` | `runner.Run` with the fleet, the database and the services around it | uses the eager expiry that `MemberProofs` justifies |
| `CampaignDesign` | operators: campaign files, draws, translation, scenario files, what the fleet makes of a failure | pure |
| `CampaignSchedule` | `generateSchedule` | its result is the `offset` of `Campaign` |
| `CampaignPlan` | a campaign file on its way to replays: `Parse`, `Generate`, `ToScenario` | extends the two above |
| `Campaign` | `RunCampaign` and `DeriveCampaign` | keeps of each `ScenarioRun` how long it took and what row it left |
| `CampaignReport` | report and finalize beside a campaign: lookup, derivation, queries, summaries | extends `Campaign` |
| `Measurement` | `Derive`, `computeMetrics` | reads the log `ScenarioRun` writes |
| `AdapterReports`, `Adapters` | what each adapter makes of a service's records; its calls under a run and a cleanup | the detail behind `Provision` and its siblings in `ScenarioRun` |
| `DataPlane` | the requests of a member against its registry | extends `FailureRegistry` |
| `CapacityObserver`, `CertLibrary`, `DNSServer` | what else the member's processes keep | each extends `DataPlane` |
| `DNSProbe` | the runner's exposure probe against the nameserver | extends `DNSServer` |
| `Member` | a fleet member as a process, under failures addressed as the runner addresses them | composes the five above |
| `ActiveGuard` | the lock file under competing commands | stands alone; the reason invocations of `CapacityRun` follow one another |
| `CertMint` | the mint's processes, its library and manifest | its manifests are what `CertLibrary` mirrors |
| `CapacityPlan`, `CapacityAnalysis`, `CapacityRun` | configurations, SQL plans and suites; the analyses; the command | each extends the one before |
| `VeriflierBatches`, `VeriflierRun` | what is sent; the programs that send it | the second extends the first |
| `*Proofs` | theorems about the module they extend | |
| `MC*` | instances for TLC | |

How state and actions correspond to the code:

* **FailureRegistry.** `failures` is the map. `SetBegin` is the handler up to the
  lock (it rejects non-positive durations and computes the expiry), `SetCommit`
  the rest of `Set`; everything else holds the mutex throughout and is one action.
  `reply` is the answer of the step. A rate between 0 and 1 gives an entry a random
  stream, so a match may miss. Map iteration in `LookupForIP` is an open choice.
* **ScenarioRun.** `pc` names the phase, one action per call that can fail.
  `truth`, `reports` and `run` are what the database holds, `active` what the fleet
  holds, `monitor` what the services hold, `late` the requests still under way.
  `sc` is the scenario of the run with the kinds of fault it may meet, chosen in
  `Init`. Lost and late effects are the disjuncts of `NotLogged`, `ControlFails` and
  `Provision`. The verdicts of DNS probes and baselines are left open.
* **CampaignSchedule.** The shuffle and the jitter are open choices. The
  stretch is exact division; the code multiplies by a float and truncates, so the
  result says nothing about rounding in the last nanosecond.
* **CampaignDesign, CampaignPlan.** A campaign is the record of its file; a block of
  failure types has a set of choices per parameter, and every operator of the generator
  is the set of what a seed may draw. A failure's `fields` are the ones that are set.
  Every design has a random source of its own and is translated by itself, so a
  behaviour of `CampaignPlan` follows one design to its scenario, or the schedule of all
  of them. The times of stages are in the smallest unit. TOML, durations as strings and
  the hashing of seeds are left out; of the methods that are not in upper case two
  spellings stand for all.
* **Campaign.** `start`, `end` and `maxCount` are the sweep; `k` is the slot; `Tick`
  moves the clock while the walk waits or a replay runs.
* **Measurement.** The log is any interleaving of the starts and ends of the
  failures of a run that closed all of them (an aborted run has no retrieved
  reports). The 80% test is done in integers, `5 * overlap >= 4 * total`; the code
  divides floats.
* **ActiveGuard.** One process per command; look, create, write, work and release
  are separate system calls, and a process may be killed between any two.
* **CertMint.** One process per daemon or `once` command; `lock` is the flock, which
  the kernel drops with its process. `manifest`, `dirs` and `full` are the disk (an
  archive directory exists, its four files are complete), `mem` the process's
  manifest, `todo` and `order` the loop of `runOnce`. `Archive` and `Copy` split the
  archiving where a kill leaves half-written files; the rename in `Save` is atomic.
  An order is a slot (profile, day, number), sorted by profile and number; names,
  identifiers and certbot's arguments are left out. A certificate's lifetime is the
  authority's choice. `DryRuns` are processes with `-dry-run`. `plan` and `inspect`
  only read.

* **CampaignReport.** `written` is how many inserts into `monitor_reports` a slot has made,
  `refused` which of them fail (they are only logged; the choice is made in `Init`),
  `metrics` the table `derived_metrics`, `cmd` the report or finalize command: its two
  lookups, its derivations run by run and its two queries are steps between those of
  the campaign. Slot 0 is a replay of an earlier execution of the same campaign.
  Rendering is left out, sums, percentiles and scores are not.
* **Adapters.** `mons` and `wins` are the account at the service (external); every call
  to it is a step that is applied and answered, applied with the answer lost or without
  an identifier, refused, denied or not sent. `run` is the runner's use of the adapter, `cl` the cleanup. One
  operator per adapter and operation; `trouble` remembers which calls failed, for the
  properties. `AdapterReports` has the eight translations from records to reports.
* **DataPlane.** `conn[w]` is a goroutine with its request and the questions it has
  still to ask; one question is one step, as it takes the registry's lock once.
  `span[w]` is the history the property needs: which failures were in effect at some
  time, and which all the time, since the request came. A failure may be hidden by another
  that is found in its place (`Rival`): `Lookup` ends at the first entry of a type and
  `LookupForIP` at the first range that covers the source, whatever its type, and there a
  rate that misses ends the search too. `HandleTCP` asks once per connection and splices it
  then, so a later request on it (`kept`) meets the HTTP failures only, and it looks for the
  host in the first read (`peek`), which may end before the Host header: `About` counts
  neither as a failure that was passed over.
* **Member.** `Activations`, `Requests` and `Crew` say what happens per data plane.
  `MemberAssumption` says of them what the code guarantees: the runner's
  `targetHostPathForFailure` addresses DNS failures to every name and TLS failures to every
  path of a host, and a query that does not parse is answered before the failures of names.
  The goroutines are finitely many, and a reset of the observer names ranges of hosts.
* **DNSServer.** Zones come from the fleet as `BuildFromFleet` makes them; a name under
  two domains takes the TTL of either, the loop being over a map. `txt` is the TXT
  store, `query` and `answer` the TXT part of a query.
* **DNSProbe.** No state: it reads the verdict of a probe off the goroutine that served
  it, for every failure type, latency, mode and timeout in `Probes`. `Measurable` names what
  the probe cannot tell apart, a network slower than the second it adds among it.
* **CapacityObserver.** Counting a request is staged as the code's atomic operations
  are, and a summary reads total, sites and statuses one after the other. A reset
  replaces the window; requests that had read the old one count there.
* **CertLibrary.** One poller per `Apply`; fetching, each file, the swap and the prune
  are steps, and a poller that was cancelled keeps going until it looks. A handshake
  reads the library, then the cache or the disk. `RestoreState` forgets memory and restores
  the source from the state file. A request without an answer leaves its poller `hung`.
* **CapacityRun.** `inv` is the invocation with its program counter, `m` the manifest of
  its batch, `rp` the replay goroutine, `db` the tables, `file` the suite state. A
  statement may fail, be a deadlock's victim (its transaction is then rolled back and
  the statement repeated alone) or succeed; a signal and a crash may come at any step.
  `look` keeps input and result of the last analysis.
* **VeriflierRun.** `program` is one of the three programs; `wk` the workers, `limits`
  the places and tokens in use, `jobs` what the Verifliers accepted, `callbacks` what
  the callback server has stored, `buffer` and `file` the results before and after the
  flush, `writer` whether the file still takes them, `report` the results of the modes that
  are over. A call may fail with or without having been accepted; an open, write or flush
  of the file may fail, and the run goes on (`OpenFails`, `WriteFails`); an ssh of the
  resource sampler may hang (`Hang`); and v1 checks that an earlier execution of a fixture
  or tier left behind (`program.stale`) call back under IDs of this one (`StaleCallback`).

## 3. What is checked

Passing runs:

| Run | Shows |
| --- | --- |
| `registry` | with exact, host and full wildcards competing, ranges, a delayed activation and lazy pruning: answers are those of `FailureWindows` (`ImplementsWindows`); nothing outlives its duration (`BoundedOutage`) |
| `run` | with every fault, a signal between any two calls or in one, and a kill at any step. `GroundTruthHolds`: between `failure_start` and the deactivation every member has the failure. `PlannedIsComplete`: `planned_completion` means complete windows, no monitor left and a verdict per service; when every service is turned away, no window at all. `ExposureFailureExcludes`: what DNS probes could not see is not scored. `MonitorsDeleted`: every monitor whose Provision returned is deleted at a service that answers; a signal leaves at most the one behind whose creation it fell into, and that run's row open. `RunEnds`, `FleetRecovers` |
| `schedule` | `ScheduleSound`: starts on a host are apart, and the layout passes its own check. `FitsOrInfeasible`: a schedule stays within the campaign, and a rejection is compared with all placements. `ReplaysTestTheirCell`: a design that the campaign file describes completely becomes a scenario whose failures lie in the windows of their pattern, whose monitors look for them, and which does the same as its scenario file would |
| `campaign` | `BudgetPreflight`: a campaign is run exactly when its plan keeps every budget in every rolling hour. `FinishedReportIsRight`: a finalized report that shows the campaign's end scores every run as its rows call for, and once. `UnknownIsNeverScored`: a service that a stored row of a run calls unknown is neither passed nor failed for it, however early a report is taken and whichever rows are lost; a lost unknown row is not seen by anybody. `CampaignEnds` |
| `guard` | `LockSound`: one run at a time, under its lock for as long as it works, and no stale lock |
| `measure` | `VerdictRight`: verdict, window and latency are those of the failures, in every order of rows. `MaintenanceEarned`: suppression needs 80% of the outage covered |
| `mint` | `ManifestSound`: the files of whatever the manifest names are complete, and an entry leaves it only by the trim rule, so no process undoes another's work. `DueArchived`: failures, signals and kills do not keep a slot that is still due from being archived |
| `adapters` | `NoSilentLeak`: a monitor outlives its run only after a lost answer or reported failures, and a lost answer to UptimeRobot's create leaks nothing unless the search for it fails too. `RunHasWhatItAsked`, `KnownMeansWatched`: a run watches its own monitor, and `known` is said of one that is there. `SamplesMakeOutages`: samples in any order become one outage for the self-hosted services, and one for each run of failing samples for datadog. `CleanExitMeansClean`: a cleanup that exits with 0 left nothing of the fleet behind |
| `member` | `ResponsesFollowFailures`: a response is failed by what was in effect, and what was in effect throughout does fail it. `ObserverSummaryAgrees`: a summary's sites account for its total. `ChallengeIsAnswered`: a challenge value no removal named is answered under any failure. `ProbeSeesTheFailure`: the probe recognises what is in effect and nothing else. `LibraryCatchesUp`: the served library becomes and stays the source's, unless the poller in charge hangs at it |
| `capacity` | `InterruptedCleansUp`, `LeftActiveIsReported`, `CleanBatchWasClean`: no rows are left active unnoticed, and a batch counts as clean only if rows and target are restored and, unless a statement failed, its window had the rows asked for. `DetectionHostsWereFailed`, `SameHistorySameVerdict`: detection reads rows that are active and whose host the target did fail, unless a statement or the replay itself failed, and judges one history alike for both services but for the check interval that only jetmon-v2 tells |
| `veriflier` | `LimitsHeld`: the batches workers execute keep the limits in all and per host. `NothingIsLost`: in every mode that is over each check is counted and each selected URL recorded, also by a resumed run, or the mode's result notes a file error. `ResultsAreTheirOwn`: a result is about its URL, and an attempt contacts a URL once per row that has it. `RatesAreEarned`: completed checks were counted by the target, and a sustainable tier was served. `EveryRunEnds`: no circular wait; a run ends unless its sampler's ssh hangs |

Where the code disagrees with what is said of it, with a run that shows it:

| Run | What happens |
| --- | --- |
| `capacity_deadlock` | a deadlock on a sidecar DELETE of jetmon-v2's deactivate plan rolls the UPDATE before it back; only the DELETE is repeated, the rows stay active and the cleanup is recorded as pass. `LeftActiveIsReported` shows that the verification afterwards says so |

Disagreements that have no run of their own are notes of the hazards. In a scenario
run: after a signal `CloseRun` runs under the cancelled context and the row keeps no
reason; a failure that starts as another of its type ends is deleted by that end;
failures stay active after an abort; the budget counts retrieve calls only. In a
campaign: a signal during the last replay goes unnoticed, overrunning replays exceed
the planned budget, designs on two hosts may fail the self-check;
campaign files that can never be translated are accepted, stages that draw different
keywords lose their replay, and of two header values or thresholds the last wins without
the mark that mixed body content gets. In the measurement:
overlapping failures of one type lose a window, and latency counts from the window that
ended first. Cleanup looks at the lock once, and scenario runs do not take it; a release
removes a lock that was overridden. In the mint: a dry run trims the library, a pass
with nothing due does not trim, a failed save is not retried. The exposure probe cannot
see a latency as long as its timeout, sees any latency up to 25 ms, and takes a dead
nameserver for `dns_timeout`. Two overlapping finalize commands may store older metrics
last. UptimeRobot's adapter looks for a monitor whose creation was not answered, and not
for one whose answer came without an identifier: that one stays at the service. In the
Veriflier benchmarks: rows of the dump that share a URL are all selected, so the URL is
contacted once for each, where `main.go:2257` says at most once per mode; a v1 callback of an
earlier execution of a fixture or tier is taken for a check of this one; a failed call frees
its limits while its checks may still be made; errors of the results file are only
tallied; and the wait for the sampler has no deadline.

### Bounds

* `registry`: four keys, two entries at a time, clock up to 2. An entry lives one
  unit, so entries are live, at their boundary and stale; any two entries
  compete for any query. The proofs cover every size.
* `run`: six scenarios with up to two failures that meet at an instant (offsets 0 and
  1, one unit each), up to two members and two adapters, two deprovision attempts; in
  one of them every service is turned away;
  `MaxLag` = 2, the largest the auto-expiry allows with grace and margin 1. The clock
  passes the last expiry (`MaxTime` 9).
* `schedule`: four replays on two hosts, durations around the smallest feasible
  one (7, 8) and around twice the cooldown (16, 17), where some jitters pass the
  check and some do not. 31 campaign files: two whose escalations of up to three stages,
  in every pattern and with gaps 1 and 2 in scenarios of 1 to 4 units, mix failures that
  share the monitor's settings, so that stages are cut off, last one unit, and disagree;
  every TLS, DNS and HTTP type with and without its parameters; files that pass and
  cannot be translated; one refused file for each part of the validation.
* `campaign`: two slots and the replay of an earlier execution, an hour of two units,
  so that both slots fall into one hour or not; `BudgetCorrect` covers every number of
  slots. Rows are stored and reports asked for on the schedules in `Watched`; a report
  may be taken at any moment of such a campaign. `Losses` are the inserts that fail:
  none, a detection together with the row that says unknown, or everything else.
* `guard`: three runs and two cleanups, symmetric among those alike.
* `mint`: days of two ticks and a clock up to 4, with lifetimes 1 and 2 and retention
  1: within three days two certificates of a profile become very old and one is
  trimmed, and lifetime 2 is refused. One daemon, one command, one dry run, one
  failure, signal or kill; the proofs cover any number. At the last tick a quiet
  period counts as over, since the clock stops.
* `measure`: three failures in all 90 orders of their events, two alerts at four
  times, two maintenance windows, one of which covers four fifths of some outages.
* `adapters`: every adapter, two runs, two failing calls: a lost create followed by a
  failed search, or a cleanup that meets what the first run left. Pages of two monitors
  make a listing of more than one page.
* `member`: one data plane per behaviour, since they share only the registry. HTTP and
  DNS with one failure that comes, goes and expires during a request (of every DNS
  type; rate, source range, host, path, a truncated first read and a kept connection vary
  for HTTP); two requests counted by two
  goroutines with a reset and a summary between; two pollers over two sources, one of
  which replaces its manifest, with one fault or restart; a handshake beside one poller.
* `capacity`: two services with different offsets, two invocations of any mode, one
  failing call, deadlock, measurement over its limit or crash, and a signal. One
  configuration has a batch of four rows of five, of which an earlier run left four active, not the first four.
* `veriflier`: two workers over batches with the same hosts in opposite orders, one
  place per host and two tokens; one resumed attempt, in one mode and across two; a URL
  that two rows have; one check left behind by an earlier execution of a fixture and a tier.

### Fairness

`ScenarioRun!FairSpec` assumes weak fairness of the harness's goroutine, every call
of which has a timeout, and of time. It assumes none of late requests, of signals
or of a kill. `CampaignReport` assumes the same of the walk with its replays, whose end
`RunEnds` is the reason for, and of the clock; of the report command it assumes nothing.
`CertMint` assumes weak fairness of time, of every running process (certbot has a
timeout, the poll timer fires), and of the daemon's start, which systemd repeats
(`Restart=always` in `deploy/systemd/uptime-bench-certmint.service`). `Member` assumes weak
fairness of each poller, whose timer fires, but not that its requests end: they have no
deadline (`http.DefaultClient` under a context without one), so `Hang` may take the poller
at any request, and only its cancellation, a failed exchange or a restart frees it.
`LibraryCatchesUp` excepts a poller in charge that hangs; other faults are bounded.
`VeriflierRun` assumes weak fairness of each worker and of the main goroutine: HTTP calls
and the waits for callbacks have deadlines. The wait for the resource sampler has none (its ssh
runs under `context.Background`), so `Hang` may stop a mode at its end for ever, and
`EveryRunEnds` excepts that. The other modules state no liveness.

## 4. What is proved

All proofs hold for every value of the constants that satisfies the module's named
assumptions.

* **MemberProofs, the registry.** `TypeCorrect`; `OutageBounded`; and
  `RegistryImplementsWindows`, refinement of `FailureWindows`, from the registry's own
  assumptions. The abstract
  windows are the entries that have not expired; pruning is then invisible
  (`PruneInvisible`), and a lookup that skips stale candidates serves what the
  promise allows (`LookupServes`, `LookupForIPServes`). The invariant needed is that
  every entry sits under its own key.
* **CampaignScheduleProofs.** `TypeCorrect`; `SpacedCorrect`: what is handed out has
  passed a check of consecutive starts per host, and in a sorted schedule
  consecutive starts suffice (`CheckImpliesSpaced`, by the least counterexample).
  `SelfCheckNeverFails`: with one host per design, the invariant `LaidOut` says that
  the placed replays of a host are at distinct multiples of the cooldown below the
  host's position, and `StretchKeepsApart` that the stretch moves none closer.
  `ScheduleCorrect` puts the parts together as `ScheduleSound`. The assumption `OneTarget` is necessary: with a design on two hosts it fails.
  `FitsOrThereIsNone` needs no such assumption: the invariant `Fits` says that in the layout
  no host is overfull and a host's position is at most the number of replays placed on it,
  so the last position lies within the campaign, and the stretch maps the last possible start
  to the campaign's last (`StretchFits`). A host that is overfull has no schedule at all
  (`OverfullDoesNotFit`): cut the campaign into cooldowns, and two of its replays share one.
* **CampaignProofs, the budgets.** `TypeCorrect`; `BudgetCorrect`: the invariant says that
  `maxCount` bounds the starts within an hour of every slot passed, and that `end` is
  the first slot outside the current hour; a window that begins between slots holds
  no more than the one at its first slot (`HourFromFirst`).
* **CampaignProofs, the verdict.** `MeasureTypeCorrect` and `VerdictsAreRight`, for any
  number of failures and alerts and every interleaving of the log. The invariant
  `MeasureInv` (`MeasureInvariant`) follows `Derive`: events are read in the order of their
  times (`InTime`); while no two failures of a type overlap, the start known under a type is
  the one that is open (`Open`), so the windows are exactly those of the failures that
  have ended (`Closed`, `StartOpens`, `EndCloses`). An alert then falls into a window just when
  it detects that failure (`AlertFalls`), which carries the flags from alert to alert
  (`Judged`, `Unexcused`); `OneExcuse` says why no two verdicts meet. `PlanAssumption` and
  `MeasureAssumption` say what failures and times are; a method trap is never an advisory.
* **CampaignProofs, the report.** `UnknownScoredNever`. A metric that scores a service is
  written only by a derivation that saw known rows and no unknown one (`DeriveFounded`), and
  since a service's unknown rows come before its known ones (`JournalAssumption`:
  skipped provisions and the DNS baseline are recorded before anything is retrieved, and
  the rows of one retrieve share their status), no row that is stored later says
  unknown, whichever inserts fail (`ObservedSoFar`). `ReportInv` keeps that for the table, for what a command has read of it
  and for a derivation under way, whoever derives and whichever upserts fail.
* **CampaignProofs, the finished report.** `ScoresCountedRight`, the half of
  `FinishedReportIsRight` that counts. A command that read the campaign's end finds a row
  that no longer changes (`RowOver`), so no run writes journal rows beside it. From then on
  `Settled` says that the runs derived so far have the metrics their rows call for
  (`Faithful`): a derivation that saw a run's whole journal overwrites what an earlier one
  made of a part of it (`Rederived`, `DerivationIsFaithful`), and so does one by the
  harness beside it (`BesideTheFinish`). What is read of such metrics has the outcome of
  the rows (`OutcomeIsClean`), and each run is counted once (`Scoring`).
* **CertMintProofs.** `TypeCorrect`, `ManifestServable`, `ManifestTrimmed`, together
  `ManifestCorrect`. The invariant
  `IInv` is about the one process that holds the lock: what its memory names is
  complete; what the disk names and its memory does not is very old and replaced by
  an older entry of its profile; the slots it has still to handle are in neither, so
  writing over a slot's directory destroys nothing that is named. That last part
  rests on `MintAssumption`: lifetime and retention together cover the day of the
  slot, so a trimmed slot is never due again (`DayFacts`).
* **ScenarioRunProofs.** `TypeCorrect` carries `EventAtHand`: the event being handled is
  the first one left. From it `LogInv`: what is done of the timeline is in the log, what
  is left is not. `ExposureCorrect` adds that the row is open until its close (`RowInv`)
  and that nothing is retrieved before the grace period (`ExposureInv`);
  `MonitorsCorrect` that every monitor has its handle but the one whose creation a signal
  fell into (`LeakInv`: no call follows that one), and that cleanup empties the
  handles (`HandleInv`, `MonitorInv`); `PlannedCorrect` which verdicts are stored at which
  point of a run that is still on plan (`VerdictInv`, `CompleteInv`). The proof of the
  last showed that an earlier form of `PlannedIsComplete` was false when every service is
  turned away; the property and the run's scenarios now have that case.
  `GroundTruthCorrect`: an activation expires after the last event by more than Run can be
  late (`ClockInv`, from `LatestEnd` and `ExpiryFacts`), a deactivation under way is of a
  failure that has ended (`LateInv`), so an entry of a failure that is logged as active
  leaves no registry (`EffectInv`). Its hypothesis `DistinctKeys` says that two failures
  on one member have different registry keys; it is necessary, as the code lets the end
  of the one delete the other. `FleetFreed` is the safety half of `FleetRecovers`: it
  gives the moment after which no member serves a failure.
* **AdaptersProofs.** The steps of the eight adapters are reduced to a few shapes
  (`CreationSteps`, `ProvisionShape`, `DeprovisionShape`, `CleanupShape`, `AccountShape`).
  `LeaksNoticed` rests on `LeakInv`, every monitor of a run is its handle's or its
  creation left a trace, and for UptimeRobot on `LostInv`, what a lost create made is
  the one match of the search; `RunGetsWhatItAsked` on `HandleInv` and `WindowInv`;
  `KnownIsWatched` is an action property. `CleanupIsThorough` rests on `CleanInv`: what is
  ranked below the offset of the listing has been seen, and `ShortPageIsLast`, proved from
  cardinalities: ranks by identifier are a bijection onto the numbers below the count.
* **MemberProofs, the member.** `ResponsesCorrect`, `ChallengesAnswered` and `ProbeCorrect`, for any
  goroutines, requests, queries, fleet and failures that keep `MemberAssumption`, from one
  inductive invariant, `MemberInv` (`MemberCorrect`). The lemmas first treat a single
  question: the list a request goes through asks about every type it is meant to meet, with
  the host and path under which the runner files that type (`CheckFacts`, `AnswersAbout`),
  and the registry's answer is one the failures in effect allow (`LookupIsFair`,
  `LookupForIPIsFair`, on `PruneInvisible`). `AllTold` lifts that to
  a request half way through its questions: what it was failed by was in effect, and no
  question already asked passed over a failure that was in effect since the request came and
  that nothing hides. Time only widens what was ever and narrows what was always in effect
  (`TimePasses`), so only the goroutine that asks has to be looked at (`AskedOnceMore`).
  `QueriesKept` says that a TXT query still finds in the store what it kept, or has been
  answered with it, or has missed and kept nothing. `ProbeCorrect` adds the arithmetic of the
  timeouts (`ProbeWaits`) and the reading of the answer (`ProbeReads`). The attempt showed
  three statements to be too strong: a failure for a source range can be hidden by another
  of a different type; a probe says nothing of a failure restricted to source ranges, which the
  nameserver never serves; and the timeout of a long latency is too short for a network
  that takes a second. `FailureIsVisible`, `ProbeSeesTheFailure` and `Measurable` now say so,
  and the run's probes have such networks.
* **MemberProofs, the capacity observer.** `SummariesAgree`, for any number of goroutines,
  windows, services and sites. A service's sites place so many requests (`Tally`). The
  invariant `ObserverInv` says that its total plus the goroutines that have placed a request
  and not yet added it to the total is at most that (`Balanced`), and that a site not seen yet
  has at least as many requests as goroutines about to mark it seen. A goroutine's step moves
  it from one of these to the next (`RecordBalances`), and what is placed stays placed
  (`Grown`). For a summary under way, `Shows` says that some set of requests as large as the
  total it read is still placed, and that the sites already passed show their part of it. The
  argument rests on the order of the four counters and on the total being read before the sites.
* **CapacityRunProofs, the lock.** `GuardTypeCorrect`; `LockCorrect`, without the override: the
  file, when a run is past creating it, is that run's. It gives mutual exclusion,
  the presence of the lock and the absence of stale ones.
* **CapacityRunProofs, the run.** `CapacityCorrect` shows the invariant `CapacityInv` inductive, for
  any configuration, tables, limits, number of invocations, failing statements, deadlocks,
  signals and crashes that keep `CapacityAssumption`, `ConfigsAssumption` (the fields are
  integers), `InvocationsAssumption` and `TablesAssumption` (an active row is a row).
  First, what a plan leaves in a table: `ExecuteSQL` follows a plan statement by
  statement, so a family of sets that each statement leads through is kept to the end
  (`PlanEnds`, by the least index that would leave it). From it, a plan stays in the
  reserved range whatever fails, and one of which nothing fails leaves at most the rows it
  names active (`UntouchedPlan`, `DeactivatePlan`, `ActivatePlan`). The parts of the
  invariant: `Control`, which services are still to be visited; `Swept`, while no
  statement has failed, a service is inactive unless it is still on the list of the phase,
  which gives `ReturnedMeansInactive`; `Reported`, what the count after the deactivation
  found, which gives `LeftoversAreReported` even after a deadlock; `Exact`, a count equal
  to the size asked for means that exactly the first rows are active (`CountIsPrefix`), and
  they stay so until the deactivation; `Replayed`, the hosts it has been through are failed
  unless an error is noted, and once the batch has waited for the goroutine, its hosts are cleared or the
  replay is noted as failed; `Rising`, the sizes of a suite ascend, so that a new clean size
  is the batch's own; `Read`, detection looks at active rows of hosts that were failed
  (`DetectionReadsFailedHosts`). `CleanMeansClean` combines them in the step that saves the
  state of the suite. The attempt showed an earlier `CleanBatchWasClean` to be false: rows
  left active by an earlier invocation, and a deadlock on a sidecar statement of jetmon-v2's
  activate plan, which undoes the reset before it, make a count that fits rows other than
  those asked for. The property now claims the exact rows only while no statement
  failed; the run has that table and configuration.

* **VeriflierRunProofs.** One inductive invariant, `VeriflierInv` (`VeriflierInvariant`), for
  any programs, limits, workers, hosts, calls that fail, callbacks that come late and
  attempts that die. First, pure lemmas: a set in order lists each element once
  (`InOrder`), what is eligible is cut into batches that share no check (`BatchStart`, `Cut`),
  and the URLs a dump left out come after those it holds (`Ascending`). The parts of the
  invariant: `Shape`, the types; `Work`, every check of the mode is in the queue, with one
  worker or sent, and with no two of them; `Phases`, what each phase leaves empty;
  `Accounts`, a check waits or has its result, never both; `ResultsOK` and `JobsOK`, each
  result, callback and job is of a check of its attempt, mode and ID, or of one that an earlier
  execution left (`Left`), and a check is sent
  once in each; `Records`, while the writer is open what is settled has its record in file or
  buffer, what is past or skipped has it in the file or its mode's result notes an error
  (`Broken`), and a reported mode has a result for each of its checks (`Reported`);
  `Limited`, the tokens held are those the workers
  count; `Observed`, the counted target has seen what completed. `LimitsAreHeld`,
  `NothingGetsLost`, `ResultsBelong` and `RatesAreReached` follow. Of the assumptions,
  `ModesAssumption` carries the weight: the ranges of IDs of two modes do not meet, which
  the code gets from a hash of the mode's name, and which holds for its default modes up to
  64 million checks. Without it a late callback of one mode could be taken for the next.

Only model-checked: `FullMarks`, the other half of `FinishedReportIsRight`, `MaintenanceEarned`, `SamplesMakeOutages`,
`SameHistorySameVerdict` and the operators of `CampaignDesign`, which fold over sequences
or compare sums; `ReplaysTestTheirCell`, about
what is parsed and translated; and whatever is stated under fairness, `EveryRunEnds` among it
(TLAPS has no reach into `ENABLED` and liveness here).

## 5. Not modelled, and the plan

Not modelled because there is no state or decision of interest: TOML and JSON
decoding, SQL text, rendering of reports, manifests and charts, downloads of probe
lists, file names and redaction, the load generator, and one-shot queries. The drivers
of single experiments against another project's pull requests (`uptime-bench-veriflier-pr105`,
`-pr105-followup`, `-quorum-live`) repeat the structure of the Veriflier benchmarks and
mostly write reports. `PROJECT.json` gives the reason per part.

Left open inside what is modelled: the samples of DNS baselines, how `cooldownState`
reads metadata, the counters of telemetry captures, more than one finalize command at a time.

Plan, in order:

1. Two runs on one fleet, for what an aborted run leaves behind.
2. The scenarios of `ScenarioRun` taken from `CampaignPlan`, with the stages of one type
   that share a registry key.
