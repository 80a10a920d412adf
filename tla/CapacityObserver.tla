--------------------------- MODULE CapacityObserver ---------------------------
(***************************************************************************)
(* The capacity observer of the target (capacity_observer.go): every       *)
(* request the HTTP handler serves is counted, after its response, in the  *)
(* window that is active then.  The counters are atomics without a common  *)
(* lock; a summary reads them one by one while requests go on.             *)
(*                                                                         *)
(* A request here has a pattern and the number in its host name.           *)
(***************************************************************************)
EXTENDS DataPlane, FiniteSets

CONSTANTS MaxWindows,   \* bound on resets
          MaxServed     \* bound on requests

VARIABLES windows,      \* every window there was; the last one is active
          recording,    \* per goroutine: what it still has to count
          reader,       \* the summary that is being put together
          served        \* requests so far

observerVars == <<windows, recording, reader, served>>

NotRecording == [stage |-> 0]
NotReading == [stage |-> "no"]

ObserverInit ==
    /\ windows = <<>>
    /\ recording = [w \in Workers |-> NotRecording]
    /\ reader = NotReading
    /\ served = 0

(***************************************************************************)
(* Reset replaces the window; requests that read the old one go on there.  *)
(***************************************************************************)
\* newCapacityObserveServiceState: the range of host numbers of one service.
Compile(s, active) ==
    LET count == IF s.count = 0 \/ s.count > active THEN active ELSE s.count
        start == IF s.start = 0 THEN 1 ELSE s.start
    IN  [pattern |-> s.pattern, start |-> start, count |-> count,
         requests |-> [i \in 0..(count - 1) |-> 0], lastSeen |-> {}, total |-> 0,
         statuses |-> [c \in {"ok", "failed", "none"} |-> 0], statusHosts |-> {}]

ValidReset(req) ==
    /\ req.active > 0 /\ req.services # <<>>
    /\ \A i \in DOMAIN req.services : req.services[i].pattern # "" /\ req.services[i].count >= 0

Reset(req) ==
    /\ ValidReset(req) /\ Len(windows) < MaxWindows
    /\ windows' = Append(windows, [i \in DOMAIN req.services |-> Compile(req.services[i], req.active)])
    /\ reply' = NoReply
    /\ UNCHANGED <<failures, now, setting, conn, recording, reader, served>>

(***************************************************************************)
(* record, one atomic operation a step.                                    *)
(***************************************************************************)
\* offsetForHost
Offset(s, r) == r.number - s.start
Belongs(s, r) == r.pattern = s.pattern /\ Offset(s, r) \in 0..(s.count - 1)

\* observeResponseWriter: the first status written, 0 when the client left.
StatusOf(c) == CASE c.out = "gone" -> "none"
                 [] c.out \in {"ok", "http_latency", "http_partial", "http_redirect"} -> "ok"
                 [] c.out = "http_body" -> "ok"
                 [] OTHER -> "failed"

ArriveHTTP(w, r) ==
    /\ served < MaxServed /\ served' = served + 1
    /\ Arrive(w, r)
    /\ UNCHANGED <<windows, recording, reader>>

AskHTTP(w) == (Ask(w) \/ AskIP(w)) /\ UNCHANGED observerVars

Finished(w) ==
    /\ conn' = [conn EXCEPT ![w] = Free]
    /\ recording' = [recording EXCEPT ![w] = NotRecording]

\* RecordResponse, deferred in ServeHTTP: the window pointer is read under the
\* lock.  A connection the proxy failed never reached the handler.
RecordBegin(w) ==
    /\ conn[w].pc = "end" /\ recording[w].stage = 0
    /\ IF windows = <<>> \/ conn[w].out \in {"geo", "tcp_refused", "tcp_timeout"} THEN Finished(w)
       ELSE /\ recording' = [recording EXCEPT ![w] = [stage |-> 1, win |-> Len(windows), svc |-> 1]]
            /\ UNCHANGED conn
    /\ reply' = NoReply
    /\ UNCHANGED <<failures, now, setting, windows, reader, served>>

Later(w) == LET m == recording[w]
            IN  IF m.svc = Len(windows[m.win]) THEN Finished(w)
                ELSE /\ recording' = [recording EXCEPT ![w] = [m EXCEPT !.stage = 1, !.svc = @ + 1]]
                     /\ UNCHANGED conn

\* The counters one after the other: what each changes.
Counted(s, i, stage, status) ==
    CASE stage = "count" -> [s EXCEPT !.requests[i] = @ + 1]
      [] stage = "seen"  -> [s EXCEPT !.lastSeen = @ \cup {i}]
      [] stage = "total" -> [s EXCEPT !.total = @ + 1]
      [] stage = "status" -> [s EXCEPT !.statuses[status] = @ + 1,
                                       !.statusHosts = IF status = "ok" THEN @ ELSE @ \cup {<<status, i>>}]

\* The order of record; faulty variant: the total is counted first.
TotalFirst == <<"total", "count", "seen", "status">>
Stages == <<"count", "seen", "total", "status">>

Record(w) ==
    LET m == recording[w]
        s == windows[m.win][m.svc]
        i == Offset(s, conn[w].req)
    IN  /\ m.stage # 0
        /\ IF ~Belongs(s, conn[w].req) THEN Later(w) /\ UNCHANGED windows
           ELSE /\ windows' = [windows EXCEPT ![m.win][m.svc] = Counted(s, i, Stages[m.stage], StatusOf(conn[w]))]
                /\ IF m.stage = Len(Stages) THEN Later(w)
                   ELSE /\ recording' = [recording EXCEPT ![w].stage = @ + 1]
                        /\ UNCHANGED conn
        /\ reply' = NoReply
        /\ UNCHANGED <<failures, now, setting, reader, served>>

(***************************************************************************)
(* Summary of one service of the window: the total, then site by site.     *)
(***************************************************************************)
ReadBegin(i) ==
    /\ reader.stage = "no" /\ windows # <<>> /\ i \in DOMAIN windows[Len(windows)]
    /\ reader' = [stage |-> "requests", win |-> Len(windows), svc |-> i, at |-> 0,
                  total |-> windows[Len(windows)][i].total, requests |-> <<>>, observed |-> {}]
    /\ reply' = NoReply
    /\ UNCHANGED <<failures, now, setting, conn, windows, recording, served>>

ReadSite ==
    LET s == windows[reader.win][reader.svc]
    IN  /\ \/ /\ reader.stage = "requests"
              /\ reader' = [reader EXCEPT !.stage = "seen", !.requests = Append(@, s.requests[reader.at])]
           \/ /\ reader.stage = "seen"
              /\ reader' = [reader EXCEPT !.at = @ + 1,
                              !.stage = IF reader.at + 1 = s.count THEN "read" ELSE "requests",
                              !.observed = IF reader.at \in s.lastSeen THEN @ \cup {reader.at} ELSE @]
        /\ reply' = NoReply
        /\ UNCHANGED <<failures, now, setting, conn, windows, recording, served>>

ReadEnd ==
    /\ reader.stage = "read"
    /\ reader' = NotReading
    /\ reply' = NoReply
    /\ UNCHANGED <<failures, now, setting, conn, windows, recording, served>>

\* The reset requests [active, services] and the requests that may arrive.
ObserverNext(resets, traffic, crew) ==
    \/ \E req \in resets : Reset(req)
    \/ \E w \in crew, r \in traffic : ArriveHTTP(w, r)
    \/ \E w \in crew : AskHTTP(w) \/ RecordBegin(w) \/ Record(w)
    \/ \E i \in 1..2 : ReadBegin(i)
    \/ ReadSite \/ ReadEnd

\* A summary never claims requests it cannot place: although it reads counters
\* that move, the sites it reports as observed account for its total.
\* expected_request_ratio and coverage are computed from these and a capacity
\* gate compares them.
ObserverSummaryAgrees ==
    reader.stage = "read" =>
        reader.total <= Cardinality(UNION {{i} \X (1..reader.requests[i + 1]) : i \in reader.observed})

=============================================================================
