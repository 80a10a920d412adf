--------------------------- MODULE MCCapacityRun ---------------------------
(* Instances of CapacityRun. *)
EXTENDS CapacityRun

MCServices == <<"jetmon-v1", "jetmon-v2">>
MCLimits == [cpu |-> 90, up |-> 1, missed |-> 5, never |-> 0, stale |-> 0]

Base == [targets |-> 2, sizes |-> <<1, 2>>,
         count |-> [s \in ServiceSet |-> 2],
         first |-> [s \in ServiceSet |-> IF V2(s) THEN 3 ELSE 1],
         dsn |-> ServiceSet,
         on |-> {"replay", "detect"},
         event |-> [end |-> 5, start |-> 0, hosts |-> 1, sample |-> 1, outcome |-> "down_recovery"],
         window |-> 10, batch |-> 1, buckets |-> 1, strict |-> FALSE]

\* Every capture; hosts shared by the services; a service short of rows, one
\* without a DSN; an event too long for the window; one expected to be missed;
\* more rows than the target preflight samples.
MCConfigs ==
    {Base,
     [Base EXCEPT !.on = {"observer", "network", "db", "disk", "stream"}],
     [Base EXCEPT !.event = [@ EXCEPT !.start = 1, !.hosts = 2, !.sample = 2, !.outcome = "up"],
                  !.strict = TRUE,
                  !.first = [s \in ServiceSet |-> IF V2(s) THEN 2 ELSE 1]],
     [Base EXCEPT !.count = [s \in ServiceSet |-> IF V2(s) THEN 1 ELSE 2], !.event = [@ EXCEPT !.end = 11]],
     [Base EXCEPT !.dsn = {"jetmon-v1"}, !.on = {}],
     [Base EXCEPT !.targets = 5, !.sizes = <<4>>, !.count = [s \in ServiceSet |-> 5], !.on = {}]}

Call(mode, apply, force, full, start, size) ==
    [mode |-> mode, apply |-> apply, force |-> force, full |-> full, start |-> start, size |-> size]
MCInvocations ==
    {Call("plan", FALSE, FALSE, FALSE, 0, 0), Call("plan", TRUE, FALSE, FALSE, 0, 0),
     Call("seed", TRUE, TRUE, FALSE, 0, 0), Call("verify", TRUE, FALSE, FALSE, 0, 0),
     Call("activate", TRUE, FALSE, FALSE, 0, 2), Call("deactivate", TRUE, FALSE, FALSE, 0, 0),
     Call("run-batch", TRUE, FALSE, FALSE, 0, 2), Call("run-suite", TRUE, FALSE, FALSE, 0, 0),
     Call("run-suite", TRUE, FALSE, TRUE, 0, 0), Call("run-suite", TRUE, FALSE, FALSE, 2, 0)}

Seeded == Table(0..1, {}, {})
\* Seeded, empty, with a foreign row, and seeded with rows left active.
MCTables == {Seeded, Table({}, {}, {}), Table({0}, {1}, {}), Table({0}, {}, {}), Table(0..1, {}, {1}),
             Table(0..4, {}, {0, 2, 3, 4})}
SeededOnly == {Seeded}

Outage(from, to) == [from |-> from, to |-> to, interval |-> "same"]
Other(outage) == [outage EXCEPT !.interval = "other"]
\* Around a replay from 10 to 20, collected at 25, padding 5.
MCHistories ==
    {<<>>, <<Outage(12, 22)>>, <<Outage(12, 18)>>, <<Outage(12, 0)>>, <<Outage(21, 23)>>,
     <<Outage(8, 22)>>, <<Outage(8, 9), Outage(12, 21)>>, <<Outage(7, 0)>>, <<Outage(2, 22)>>,
     <<Other(Outage(6, 7))>>}
=============================================================================
