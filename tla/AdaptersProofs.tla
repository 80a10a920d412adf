--------------------------- MODULE AdaptersProofs ---------------------------
(***************************************************************************)
(* Proofs about Adapters, for any number of runs, retries, pages and       *)
(* operators' monitors: a run leaves no monitor behind unnoticed, gets     *)
(* what it asked for, and knows an outcome only of a monitor that was      *)
(* watched; a cleanup that reports no error has left nothing.              *)
(*                                                                         *)
(* The adapters differ in their calls, not in what a call can do to the    *)
(* account: the shape lemmas reduce the steps of all eight to a creation,  *)
(* a window, a deletion, a retrieval or a sweep, and the invariants are    *)
(* shown of those.  LeakInv follows a monitor from its creation to the     *)
(* handle or to the trouble that explains its loss; LostInv does so for    *)
(* uptimerobot, which looks for a monitor whose creation was not answered. *)
(* CleanInv needs that the listing misses nothing: the ranks of monitors   *)
(* by identifier are exactly the numbers below their count, so a page that *)
(* is not full is the last (ShortPageIsLast).                              *)
(***************************************************************************)
EXTENDS Adapters, FiniteSetTheorems, TLAPS

-----------------------------------------------------------------------------
(* The inductive invariant *)

\* Where a run has no handle yet, and where it holds one.
Searching == {"provision", "lookup", "adopt", "recreate", "find", "purge", "retry"}
Holding == {"maintenance", "attach", "rollback", "live", "retrieved", "teardown"}

Monitors == [id : Nat, by : Nat, name : {"operator", "bench", "seed", "bootstrap"},
             host : {"target", "other", "local"}, cfg : ConfigType, mw : BOOLEAN]

RunType(r) ==
    r \in [n : Nat, pc : {"idle"} \cup Searching \cup Holding, cfg : ConfigType, mon : Nat,
           win : Nat, tries : Nat, todo : SUBSET Nat,
           out : {"none", "failed", "rejected", "gone", "error", "known", "unknown", "mismatch", "crashed"},
           reports : {r.reports}, log : {r.log}]

CleanupType ==
    [pc : {"idle", "list", "sweep", "done"}, dry : BOOLEAN, off : Nat, todo : SUBSET Monitors,
     began : Nat, alone : BOOLEAN, failed : BOOLEAN]

AccountTypes ==
    /\ mons \subseteq Monitors /\ IsFiniteSet(mons) /\ ids \in Nat
    /\ \A m \in mons : m.id <= ids
    /\ \A m, x \in mons : m.id = x.id => m = x

AdapterTypes ==
    /\ ad \in Types /\ auth \in Registry(ad)
    /\ AccountTypes
    /\ RunType(run) /\ cl \in CleanupType /\ cancelled \in BOOLEAN
    /\ \A m \in mons : m.by <= run.n /\ (m.by > 0 => m.name = "bench" /\ m.host = "target")

\* The monitors this run has made.
Mine == {m \in mons : m.by = run.n /\ run.n > 0}

\* Until a run is over every monitor it has made is the one it holds, or its
\* creation left a trace.
LeakInv ==
    /\ run.pc \in Searching => \A m \in Mine : \E pc \in Creates : Orphaned(pc)
    /\ run.pc \in Holding => \A m \in Mine : m.id = run.mon \/ \E pc \in Creates : Orphaned(pc)
    /\ ad = "jetmon-v1" /\ ~auth.write => \A m \in mons : m.by = 0
    /\ LeaksAreReported

\* uptimerobot: no second look was taken, or it failed.
NotFound == Failed("adopt") \/ Failed("recreate") \/ Failed("retry")

\* uptimerobot: when the answer to the first create was lost, its monitor is the
\* only one the search can find.
LostInv ==
    ad = "uptimerobot" =>
        /\ run.pc = "provision" => Mine = {}
        /\ run.pc = "adopt" => \A m \in Mine, d \in Duplicates : d = m
        /\ run.pc \in Searching \ {"adopt"} => Mine = {} \/ NotFound
        /\ run.pc \in Holding => (\A m \in Mine : m.id = run.mon) \/ NotFound
        /\ LostCreateRecovered

HandleInv ==
    /\ run.pc = "adopt" => ad = "uptimerobot" /\ (Failed("provision") \/ cancelled)
    /\ HandleIsOurs

\* The gate lets no window through to an adapter that cannot set one.
WindowInv ==
    /\ run.pc # "idle" /\ run.cfg.window # "none" =>
          ad \in {"uptimerobot", "pingdom", "datadog", "better-uptime", "jetmon-v2"}
    /\ run.pc = "attach" /\ ad = "uptimerobot" => run.win # 0
    /\ WindowIsSet

\* No run has touched the account since the cleanup started, and no call of it
\* has failed.
Undisturbed == cl.alone /\ run.n = cl.began /\ ~cl.dry /\ ~cl.failed /\ StaleCleaner

Stale == {m \in mons : m.name = "bench" /\ MatchesURL(m)}
Rank(m) == Cardinality({x \in mons : x.id < m.id})

CleanInv ==
    /\ cl.began <= run.n
    /\ cl.pc # "idle" /\ cl.alone /\ run.n = cl.began => run.pc = "idle"
    /\ Undisturbed =>
          /\ cl.pc = "list" => \A m \in Stale : Rank(m) < cl.off => m \in cl.todo
          /\ cl.pc = "sweep" => Stale \subseteq cl.todo
          /\ cl.pc = "done" => Stale = {}

-----------------------------------------------------------------------------
(* Types *)

\* A monitor the search or the seed lookup picks is one of those found.
LEMMA Chosen ==
  ASSUME NEW S, S # {}
  PROVE  (CHOOSE m \in S : TRUE) \in S
OBVIOUS

\* Deleting from the account keeps its types.
LEMMA AccountShrinks ==
  ASSUME AccountTypes, mons' \subseteq mons, ids' \in Nat, ids' >= ids
  PROVE  AccountTypes'
<1>1. IsFiniteSet(mons')
  BY FS_Subset DEF AccountTypes
<1>2. \A m \in mons : m.id \in Nat
  BY DEF AccountTypes, Monitors
<1> QED BY <1>1, <1>2 DEF AccountTypes

\* A new monitor has an identifier of its own.
LEMMA AccountGrows ==
  ASSUME AccountTypes, NEW m \in Monitors, m.id = ids + 1, mons' = mons \cup {m}, ids' = ids + 1
  PROVE  AccountTypes'
<1>1. IsFiniteSet(mons')
  BY FS_AddElement DEF AccountTypes
<1>2. \A x \in mons : x.id \in Nat /\ x.id <= ids
  BY DEF AccountTypes, Monitors
<1> QED BY <1>1, <1>2 DEF AccountTypes

\* A window attached to a monitor changes nothing else of it.
LEMMA AttachKeeps ==
  ASSUME AccountTypes, RunType(run), NEW o, Attach(o, "live", "rollback")
  PROVE  /\ AccountTypes'
         /\ \A x \in mons' : \E m \in mons : m.id = x.id /\ m.by = x.by /\ m.name = x.name /\ m.host = x.host
<1>1. CASE ~Applied(o)
  BY <1>1, AccountShrinks DEF Attach, AccountTypes
<1>2. CASE Applied(o)
  <2> DEFINE With(m) == IF m.id = run.mon THEN [m EXCEPT !.mw = TRUE] ELSE m
  <2>1. mons' = {With(m) : m \in mons} /\ ids' = ids
    BY <1>2 DEF Attach
  <2>2. \A m \in mons : /\ With(m) \in Monitors /\ With(m).id = m.id /\ With(m).by = m.by
                        /\ With(m).name = m.name /\ With(m).host = m.host
    BY DEF AccountTypes, Monitors
  <2>3. IsFiniteSet(mons')
    <3> DEFINE f == [m \in mons |-> With(m)]
    <3> HIDE DEF With
    <3>1. f \in Surjection(mons, mons')
      BY <2>1 DEF Surjection
    <3> QED BY <3>1, FS_Surjection DEF AccountTypes
  <2>4. \A x \in mons' : \E m \in mons : x = With(m)
    BY <2>1
  <2> HIDE DEF With
  <2> QED BY <2>1, <2>2, <2>3, <2>4 DEF AccountTypes
<1> QED BY <1>1, <1>2

\* What is known of the create that a provision step is.
CreateFacts(o, next, err) ==
    /\ run.pc \in Creates /\ Create(o, next, err)
    /\ o \in {"ok", "lost", "unnamed", "refused", "denied", "cancelled"}
    /\ o = "cancelled" => cancelled
    /\ next = AfterCreate \/ (next = "live" /\ ad \in {"jetmon-v1", "gatus", "uptime-kuma"})
    /\ err \in {"idle", "adopt"}
    /\ err = "adopt" => ad = "uptimerobot" /\ run.pc = "provision" /\ o \notin {"denied", "unnamed"}
    /\ ad = "uptimerobot" =>
          /\ Applied(o) => Duplicates = {}
          /\ run.pc = "provision" /\ o \notin {"denied", "unnamed"} => err = "adopt"
    /\ ad = "jetmon-v1" => auth.write

\* A search step of uptimerobot that creates nothing: the account has such a
\* monitor already, or a call that would tell fails.
Refused ==
    /\ ad = "uptimerobot" /\ run.pc \in Creates /\ Duplicates # {}
    /\ \E pc \in {"find", "adopt", "idle"}, o \in {"ok", "lost"} :
          /\ pc = "adopt" => run.pc = "provision" /\ o = "lost"
          /\ run' = [run EXCEPT !.pc = pc, !.out = "failed"]
          /\ Note(o, run.pc)
    /\ UNCHANGED account

\* A call under a context of its own is never cancelled.
LEMMA OutcomeSets ==
  ASSUME NEW fresh \in BOOLEAN
  PROVE  /\ Outcomes(fresh) \subseteq {"ok", "lost", "refused", "cancelled"}
         /\ "cancelled" \in Outcomes(fresh) => cancelled
         /\ "cancelled" \notin Outcomes(TRUE)
BY DEF Outcomes

\* The same of createMonitor, which three steps of uptimerobot call.
LEMMA CreateMonitorSteps ==
  ASSUME ad = "uptimerobot", run.pc \in Creates, NEW exists \in {"find", "idle"},
         NEW uncertain \in {"adopt", "idle"}, uncertain = "adopt" <=> run.pc = "provision",
         CreateMonitor(AfterCreate, exists, uncertain, "idle")
  PROVE  Reject \/ Refused \/ \E o, next, err : CreateFacts(o, next, err)
<1> SUFFICES ASSUME ~Reject PROVE Refused \/ \E o, next, err : CreateFacts(o, next, err)
  OBVIOUS
<1>1. PICK o \in Answers(FALSE) \cup (IF "lost" \in Outcomes(FALSE) THEN {"unnamed"} ELSE {}) :
            \/ /\ Duplicates # {} /\ o \in {"ok", "lost"}
               /\ run' = [run EXCEPT !.pc = IF o = "ok" THEN exists ELSE uncertain, !.out = "failed"]
               /\ Note(o, run.pc) /\ UNCHANGED account
            \/ /\ Duplicates = {} \/ o \in {"refused", "denied", "cancelled"}
               /\ Create(o, AfterCreate, IF o \in {"denied", "unnamed"} THEN "idle" ELSE uncertain)
  BY DEF CreateMonitor
<1>2. /\ o \in {"ok", "lost", "unnamed", "refused", "denied", "cancelled"}
      /\ o = "cancelled" => cancelled
  BY <1>1, OutcomeSets DEF Answers
<1>3. CASE /\ Duplicates # {} /\ o \in {"ok", "lost"}
           /\ run' = [run EXCEPT !.pc = IF o = "ok" THEN exists ELSE uncertain, !.out = "failed"]
           /\ Note(o, run.pc) /\ UNCHANGED account
  <2>1. PICK pc \in {"find", "adopt", "idle"} : pc = IF o = "ok" THEN exists ELSE uncertain
    OBVIOUS
  <2> QED BY <1>3, <2>1 DEF Refused
<1>4. CASE /\ Duplicates = {} \/ o \in {"refused", "denied", "cancelled"}
           /\ Create(o, AfterCreate, IF o \in {"denied", "unnamed"} THEN "idle" ELSE uncertain)
  <2> DEFINE err == IF o \in {"denied", "unnamed"} THEN "idle" ELSE uncertain
  <2>1. CreateFacts(o, AfterCreate, err)
    BY <1>2, <1>4 DEF CreateFacts, Applied
  <2> QED BY <2>1
<1> QED BY <1>1, <1>3, <1>4

\* The provision steps that may create a monitor.
Creations ==
    \/ PingdomProvision \/ DatadogProvision \/ BetterUptimeProvision \/ JetmonV2Provision
    \/ JetmonV1ProvisionWrite \/ GatusProvision \/ UptimeKumaProvision
    \/ UptimeRobotProvision \/ Recreate \/ CreateAfterPurge

\* jetmon-v2 meets a blog id in use; a read-only bridge of jetmon-v1 is asked
\* for the seeded site instead.
TriesAgain ==
    /\ run.pc = "provision" /\ UNCHANGED account /\ trouble \subseteq trouble'
    /\ \/ ad = "jetmon-v2" /\ run' = [run EXCEPT !.tries = @ + 1]
       \/ ad = "jetmon-v1" /\ (Goto("lookup") \/ Return("failed"))

\* What the steps that create a monitor come down to, whichever the adapter.
LEMMA CreationSteps ==
  ASSUME Creations
  PROVE  \/ run.pc \in Creates /\ Reject
         \/ Refused \/ TriesAgain
         \/ \E o, next, err : CreateFacts(o, next, err)
<1> SUFFICES ASSUME ~(run.pc \in Creates /\ Reject), ~Refused, ~TriesAgain
             PROVE  \E o, next, err : CreateFacts(o, next, err)
  OBVIOUS
<1> USE DEF Creates
<1>1. ASSUME NEW o \in Outcomes(FALSE), NEW next, run.pc = "provision", ad # "uptimerobot",
             next = AfterCreate \/ (next = "live" /\ ad \in {"jetmon-v1", "gatus", "uptime-kuma"}),
             ad = "jetmon-v1" => auth.write, Create(o, next, "idle")
      PROVE  \E p, q, err : CreateFacts(p, q, err)
  <2>1. CreateFacts(o, next, "idle")
    BY <1>1, OutcomeSets DEF CreateFacts
  <2> QED BY <2>1
<1>2. CASE PingdomProvision
  BY <1>1, <1>2 DEF PingdomProvision, At
<1>3. CASE DatadogProvision \/ BetterUptimeProvision
  BY <1>1, <1>3 DEF DatadogProvision, BetterUptimeProvision, At
<1>4. CASE GatusProvision \/ UptimeKumaProvision
  BY <1>1, <1>4 DEF GatusProvision, UptimeKumaProvision, At
<1>5. CASE JetmonV1ProvisionWrite
  <2>1. ad = "jetmon-v1" /\ run.pc = "provision" /\ auth.write
    BY <1>5 DEF JetmonV1ProvisionWrite, At
  <2>2. ~auth.readonly
    BY <1>5, <2>1 DEF JetmonV1ProvisionWrite, TriesAgain, Note
  <2> QED BY <1>1, <1>5, <2>1, <2>2 DEF JetmonV1ProvisionWrite
<1>6. CASE JetmonV2Provision
  <2>1. ad = "jetmon-v2" /\ run.pc = "provision" /\ ~Reject
    BY <1>6 DEF JetmonV2Provision, At
  <2>2. PICK o \in Answers(FALSE) : Create(o, AfterCreate, "idle")
    BY <1>6, <2>1 DEF JetmonV2Provision, TriesAgain, Note
  <2>3. CreateFacts(o, AfterCreate, "idle")
    BY <2>1, <2>2, OutcomeSets DEF CreateFacts, Answers
  <2> QED BY <2>3
<1>7. CASE UptimeRobotProvision
  BY <1>7, CreateMonitorSteps DEF UptimeRobotProvision, At
<1>8. CASE Recreate
  BY <1>8, CreateMonitorSteps DEF Recreate, At
<1>9. CASE CreateAfterPurge
  BY <1>9, CreateMonitorSteps DEF CreateAfterPurge, At
<1> QED BY <1>2, <1>3, <1>4, <1>5, <1>6, <1>7, <1>8, <1>9 DEF Creations

\* The options and the fleet are those the adapter was configured with.
LEMMA FixedStep == [Next]_vars => UNCHANGED fixed
BY DEF Next, vars, fixed, Begin, Provision, Retrieve, Teardown, Deprovision, Cancel, Crash, Cleanup

\* Provision writes the handle, or nothing, or ends the run.
LEMMA ProvisionRunType ==
  ASSUME AdapterTypes, Provision
  PROVE  RunType(run)'
<1>0. /\ RunType(run) /\ ids + 1 \in Nat
      /\ mons \subseteq Monitors
  BY DEF AdapterTypes, AccountTypes
<1>1. ASSUME NEW pc \in {"idle"} \cup Searching \cup Holding, Goto(pc) PROVE RunType(run)'
  BY <1>0, <1>1 DEF RunType, Goto
<1>2. ASSUME NEW out \in {"rejected", "failed", "gone", "error"}, Return(out) PROVE RunType(run)'
  BY <1>0, <1>2 DEF RunType, Return
<1>3. ASSUME NEW o, NEW next, NEW err, CreateFacts(o, next, err) PROVE RunType(run)'
  <2>1. next \in Holding /\ err \in {"idle", "adopt"}
    BY <1>3 DEF CreateFacts, AfterCreate, Holding
  <2>2. \/ run' = [run EXCEPT !.pc = next, !.mon = ids + 1]
        \/ run' = [run EXCEPT !.pc = err, !.out = "failed", !.tries = 0]
    BY <1>3 DEF CreateFacts, Create, Monitor
  <2>3. CASE run' = [run EXCEPT !.pc = next, !.mon = ids + 1]
    <3> DEFINE id == ids + 1
    <3>1. id \in Nat /\ run' = [run EXCEPT !.pc = next, !.mon = id]
      BY <1>0, <2>3
    <3> HIDE DEF id
    <3> QED BY <1>0, <2>1, <3>1 DEF RunType
  <2>4. CASE run' = [run EXCEPT !.pc = err, !.out = "failed", !.tries = 0]
    BY <1>0, <2>1, <2>4 DEF RunType, Searching
  <2> QED BY <2>2, <2>3, <2>4
<1>4. CASE Creations
  <2>1. CASE Refused
    BY <1>0, <2>1 DEF Refused, RunType, Searching, Holding
  <2>2. CASE TriesAgain
    BY <1>0, <1>1, <1>2, <2>2 DEF TriesAgain, RunType, Searching
  <2> QED BY <1>2, <1>3, <1>4, <2>1, <2>2, CreationSteps DEF Reject
<1>5. ASSUME NEW S \in SUBSET mons, NEW pc \in Searching \cup Holding, S # {},
             run' = [run EXCEPT !.pc = pc, !.mon = (CHOOSE m \in S : TRUE).id]
      PROVE  RunType(run)'
  <2>1. (CHOOSE m \in S : TRUE).id \in Nat
    BY <1>0, <1>5, Chosen DEF Monitors
  <2> QED BY <1>0, <1>5, <2>1 DEF RunType
<1>6. CASE JetmonV1ProvisionRead
  BY <1>2, <1>5, <1>6 DEF JetmonV1ProvisionRead, Holding
<1>7. CASE AdoptSingleMatching
  <2>1. Cardinality(Duplicates) = 1 => Duplicates # {}
    BY FS_EmptySet
  <2>2. Duplicates \in SUBSET mons
    BY DEF Duplicates
  <2>3. AfterCreate \in Holding /\ "recreate" \in Searching
    BY DEF AfterCreate, Holding, Searching
  <2> QED BY <1>1, <1>5, <1>7, <2>1, <2>2, <2>3 DEF AdoptSingleMatching
<1>8. CASE FindMatching
  <2>1. {m.id : m \in Duplicates} \in SUBSET Nat
    BY <1>0 DEF Duplicates, Monitors
  <2> QED BY <1>0, <1>2, <1>8, <2>1 DEF FindMatching, RunType, Searching
<1>9. CASE PurgeMatching
  <2>1. \/ Goto("retry") \/ Return("failed")
        \/ \E id : run' = [run EXCEPT !.todo = @ \ {id}]
    BY <1>9 DEF PurgeMatching
  <2>2. ASSUME NEW id, run' = [run EXCEPT !.todo = @ \ {id}] PROVE RunType(run)'
    <3>1. run.todo \ {id} \in SUBSET Nat
      BY <1>0 DEF RunType
    <3> QED BY <1>0, <2>2, <3>1 DEF RunType
  <2> QED BY <1>1, <1>2, <2>1, <2>2 DEF Searching
<1>10. CASE Rollback
  BY <1>2, <1>10 DEF Rollback
<1>11. ASSUME NEW o, NEW next \in Holding, CreateWindow(o, next, "rollback") PROVE RunType(run)'
  <2>1. CASE run' = [run EXCEPT !.pc = next, !.win = ids + 1]
    <3> DEFINE id == ids + 1
    <3>1. id \in Nat /\ run' = [run EXCEPT !.pc = next, !.win = id]
      BY <1>0, <2>1
    <3> HIDE DEF id
    <3> QED BY <1>0, <1>11, <3>1 DEF RunType
  <2>2. CASE Goto("rollback")
    BY <1>1, <2>2 DEF Holding
  <2> QED BY <1>11, <2>1, <2>2 DEF CreateWindow, Goto
<1>12. CASE PingdomCreateMaintenance \/ DatadogCreateDowntime \/ UptimeRobotCreateMWindow
  BY <1>1, <1>11, <1>12 DEF PingdomCreateMaintenance, DatadogCreateDowntime, UptimeRobotCreateMWindow, Holding
<1>13. CASE \/ DatadogFetchMonitorID \/ BetterUptimeApplyMaintenance \/ JetmonV2ApplyMaintenance
            \/ UptimeRobotAttachMWindow
  BY <1>1, <1>13 DEF DatadogFetchMonitorID, BetterUptimeApplyMaintenance, JetmonV2ApplyMaintenance,
     UptimeRobotAttachMWindow, Attach, Holding
<1> QED BY <1>4, <1>6, <1>7, <1>8, <1>9, <1>10, <1>12, <1>13 DEF Provision, Creations

\* A retrieval ends with what the service said, or that it could not be told,
\* or is tried again.
Retrievals ==
    \/ \E log, reports : run' = Known(log, reports)
    \/ run' = Unknown
    \/ run' = [run EXCEPT !.tries = @ + 1]

\* Retrieving reads the account and does not change it.
LEMMA RetrieveShape ==
  ASSUME Retrieve
  PROVE  /\ Retrievals /\ run.pc = "live"
         /\ UNCHANGED <<fixed, account, cl, cancelled>> /\ trouble \subseteq trouble'
<1> USE DEF Retrievals
<1>1. CASE PingdomRetrieve
  BY <1>1 DEF PingdomRetrieve, At, Note, Retrieve
<1>2. CASE GatusRetrieve
  BY <1>2 DEF GatusRetrieve, At, Note, Retrieve
<1>3. CASE \/ UptimeRobotRetrieve \/ DatadogRetrieve \/ BetterUptimeRetrieve
           \/ JetmonV1Retrieve \/ JetmonV2Retrieve \/ UptimeKumaRetrieve
  BY <1>3 DEF UptimeRobotRetrieve, DatadogRetrieve, BetterUptimeRetrieve, JetmonV1Retrieve,
     JetmonV2Retrieve, UptimeKumaRetrieve, RetrieveWith, At, Note, Retrieve
<1> QED BY <1>1, <1>2, <1>3 DEF Retrieve

\* The run's record keeps its type.
LEMMA RunTypeStep == AdapterTypes /\ [Next]_vars => RunType(run)'
<1> SUFFICES ASSUME AdapterTypes, [Next]_vars PROVE RunType(run)'
  OBVIOUS
<1>0. RunType(run)
  BY DEF AdapterTypes
<1>1. CASE Begin
  <2>1. PICK cfg \in Configs :
          run' = [Idle EXCEPT !.n = run.n + 1, !.cfg = cfg,
                              !.pc = IF PassesGate(cfg) THEN "provision" ELSE "idle",
                              !.out = IF PassesGate(cfg) THEN "none" ELSE "mismatch"]
    BY <1>1 DEF Begin
  <2>2. cfg \in ConfigType /\ run.n + 1 \in Nat
    BY <1>0, AdapterAssumption DEF RunType
  <2> QED BY <2>1, <2>2 DEF RunType, Idle, Searching
<1>2. CASE Retrieve
  <2>1. ASSUME NEW log, NEW reports, run' = Known(log, reports) PROVE RunType(run)'
    BY <1>0, <2>1 DEF Known, RunType, Holding
  <2>2. CASE run' = Unknown
    BY <1>0, <2>2 DEF Unknown, RunType, Holding
  <2>3. CASE run' = [run EXCEPT !.tries = @ + 1]
    BY <1>0, <2>3 DEF RunType
  <2> QED BY <1>2, <2>1, <2>2, <2>3, RetrieveShape DEF Retrievals
<1>3. CASE Teardown
  BY <1>0, <1>3 DEF Teardown, RunType, Holding
<1>4. CASE Crash
  BY <1>0, <1>4 DEF Crash, RunType, Idle, NoConfig, ConfigType
<1>5. CASE Cancel \/ Cleanup \/ UNCHANGED vars
  BY <1>0, <1>5 DEF Cancel, Cleanup, vars, RunType
<1>6. CASE Deprovision
  <2>1. ASSUME NEW out \in {"gone", "error"}, Return(out) PROVE RunType(run)'
    BY <1>0, <2>1 DEF RunType, Return
  <2>2. ASSUME NEW o, Torn(o) PROVE RunType(run)'
    BY <1>0, <2>1, <2>2 DEF Torn, RunType
  <2>3. ASSUME NEW type, DeleteWindowFirst(type) \/ DeleteMonitorOnly(type) PROVE RunType(run)'
    <3>1. CASE run' = [run EXCEPT !.win = 0]
      BY <1>0, <3>1 DEF RunType
    <3> QED BY <2>2, <2>3, <3>1 DEF DeleteWindowFirst, DeleteMonitorOnly, DeleteMonitor
  <2>4. CASE JetmonV1Deprovision
    BY <2>1, <2>2, <2>4 DEF JetmonV1Deprovision, DeleteMonitor
  <2> QED BY <1>6, <2>3, <2>4 DEF Deprovision, UptimeRobotDeprovision, PingdomDeprovision,
          DatadogDeprovision, BetterUptimeDeprovision, JetmonV2Deprovision, GatusDeprovision,
          UptimeKumaDeprovision
<1> QED BY <1>1, <1>2, <1>3, <1>4, <1>5, <1>6, ProvisionRunType DEF Next

-----------------------------------------------------------------------------
(* What each step does to the account and to the run *)

\* A call about a maintenance window that does not change the monitor.
Windowing ==
    /\ run.pc \in {"maintenance", "attach"}
    /\ mons' = mons /\ ids' \in {ids, ids + 1} /\ trouble \subseteq trouble'
    /\ \/ Goto("rollback")
       \/ ad = "datadog" /\ Goto("attach")
       \/ ad \in {"pingdom", "datadog"} /\ run' = [run EXCEPT !.pc = "live", !.win = ids + 1]
       \/ ad = "uptimerobot" /\ run' = [run EXCEPT !.pc = "attach", !.win = ids + 1]

\* The call that puts the maintenance window on the monitor.
Attaching ==
    /\ \/ ad \in {"better-uptime", "jetmon-v2"} /\ run.pc = "maintenance"
       \/ ad = "uptimerobot" /\ run.pc = "attach"
    /\ \E o : Attach(o, "live", "rollback")

\* The cases of a provisioning step, whichever the adapter.
LEMMA ProvisionShape ==
  ASSUME Provision
  PROVE  \/ run.pc \in Creates /\ Reject
         \/ Refused \/ TriesAgain
         \/ \E o, next, err : CreateFacts(o, next, err)
         \/ JetmonV1ProvisionRead \/ AdoptSingleMatching \/ FindMatching \/ PurgeMatching
         \/ Windowing \/ Attaching \/ Rollback
<1>1. CASE Creations
  BY <1>1, CreationSteps
<1>2. CASE PingdomCreateMaintenance \/ DatadogCreateDowntime \/ DatadogFetchMonitorID
  BY <1>2 DEF PingdomCreateMaintenance, DatadogCreateDowntime, DatadogFetchMonitorID, Windowing,
     At, CreateWindow, Note, Goto, account
<1>3. CASE UptimeRobotCreateMWindow
  BY <1>3 DEF UptimeRobotCreateMWindow, Windowing, At, CreateWindow, Note, Goto, account
<1>4. CASE JetmonV2ApplyMaintenance \/ UptimeRobotAttachMWindow
  BY <1>4 DEF JetmonV2ApplyMaintenance, UptimeRobotAttachMWindow, Attaching, At
<1>5. CASE BetterUptimeApplyMaintenance
  BY <1>5 DEF BetterUptimeApplyMaintenance, Attaching, Windowing, At, account
<1> QED BY <1>1, <1>2, <1>3, <1>4, <1>5 DEF Provision, Creations

\* One call of a teardown.
Deleting ==
    /\ run.pc = "teardown" /\ mons' \subseteq mons /\ ids' = ids /\ trouble \subseteq trouble'
    /\ UNCHANGED <<fixed, cl, cancelled>>
    /\ \/ run' = [run EXCEPT !.win = 0]
       \/ run' = [run EXCEPT !.tries = @ + 1]
       \/ Return("error")
       \/ Return("gone") /\ (mons' = WithoutMon(run.mon) \/ (ad = "jetmon-v1" /\ ~auth.write))

\* Every teardown step deletes the run's monitor or its window, or fails to.
LEMMA DeprovisionShape ==
  ASSUME Deprovision
  PROVE  Deleting
<1>1. ASSUME NEW o, DeleteMonitor(o), run.pc = "teardown" PROVE Deleting
  BY <1>1 DEF DeleteMonitor, Torn, DeleteFails, Applied, WithoutMon, Note, Deleting, Deprovision
<1>2. ASSUME NEW type, DeleteWindowFirst(type) \/ DeleteMonitorOnly(type) PROVE Deleting
  <2>1. run.pc = "teardown"
    BY <1>2 DEF DeleteWindowFirst, DeleteMonitorOnly, At
  <2>2. CASE mons' = mons /\ ids' = ids /\ run' = [run EXCEPT !.win = 0] /\ trouble \subseteq trouble'
    BY <2>1, <2>2 DEF Deleting, Deprovision
  <2> QED BY <1>1, <1>2, <2>1, <2>2 DEF DeleteWindowFirst, DeleteMonitorOnly, Note
<1>3. CASE JetmonV1Deprovision
  <2>1. run.pc = "teardown" /\ ad = "jetmon-v1"
    BY <1>3 DEF JetmonV1Deprovision, At
  <2>2. CASE auth.write /\ auth.readonly /\ Torn("denied") /\ UNCHANGED <<account, faults, trouble>>
    BY <2>1, <2>2 DEF Torn, DeleteFails, Deleting, Deprovision, account
  <2>3. CASE ~auth.write /\ Return("gone") /\ UNCHANGED <<account, faults, trouble>>
    BY <2>1, <2>3 DEF Deleting, Deprovision, account
  <2> QED BY <1>1, <1>3, <2>1, <2>2, <2>3 DEF JetmonV1Deprovision
<1> QED BY <1>2, <1>3 DEF Deprovision, UptimeRobotDeprovision, PingdomDeprovision,
        DatadogDeprovision, BetterUptimeDeprovision, JetmonV2Deprovision, GatusDeprovision,
        UptimeKumaDeprovision

\* A cleanup only deletes, and leaves the run alone.
LEMMA CleanupShape ==
  ASSUME Cleanup
  PROVE  mons' \subseteq mons /\ UNCHANGED <<fixed, ids, run, cancelled, trouble>>
BY DEF Cleanup, PingdomCleanupStale, DatadogCleanupStale, BetterUptimeCleanupStale,
   GatusCleanupStale, UptimeKumaCleanupStale, UptimeRobotCleanupStale, Sweep, Listed, SweepOne,
   Swept, ListPage, WithoutMon

\* Only a create adds to the account, only an attached window changes a monitor.
LEMMA AccountShape ==
  ASSUME AdapterTypes, [Next]_vars
  PROVE  \/ mons' \subseteq mons /\ ids' \in Nat /\ ids' >= ids /\ run'.n \in Nat /\ run'.n >= run.n
         \/ \E o, next, err : CreateFacts(o, next, err)
         \/ Attaching
<1>0. RunType(run) /\ RunType(run)' /\ ids \in Nat
  BY RunTypeStep DEF AdapterTypes, AccountTypes
<1>1. run.n \in Nat /\ run'.n \in Nat
  BY <1>0 DEF RunType
<1>2. CASE Provision
  <2>1. CASE (run.pc \in Creates /\ Reject) \/ Refused \/ TriesAgain
    <3>1. mons' = mons /\ ids' = ids
      BY <2>1 DEF Reject, Refused, TriesAgain, account
    <3>2. run'.n = run.n
      BY <1>0, <2>1 DEF Reject, Return, Refused, TriesAgain, Goto, RunType
    <3> QED BY <1>0, <1>1, <3>1, <3>2
  <2>2. CASE JetmonV1ProvisionRead \/ AdoptSingleMatching \/ FindMatching
    <3>1. mons' = mons /\ ids' = ids
      BY <2>2 DEF JetmonV1ProvisionRead, AdoptSingleMatching, FindMatching, account
    <3>2. run'.n = run.n
      BY <1>0, <2>2 DEF JetmonV1ProvisionRead, AdoptSingleMatching, FindMatching, Return, Goto, RunType
    <3> QED BY <1>0, <1>1, <3>1, <3>2
  <2>3. CASE PurgeMatching
    <3>1. mons' \subseteq mons /\ ids' = ids
      BY <2>3 DEF PurgeMatching, WithoutMon, account
    <3>2. run'.n = run.n
      BY <1>0, <2>3 DEF PurgeMatching, Return, Goto, RunType
    <3> QED BY <1>0, <1>1, <3>1, <3>2
  <2>4. CASE Windowing
    <3>1. mons' = mons /\ ids' >= ids /\ ids' \in Nat
      BY <1>0, <2>4 DEF Windowing
    <3>2. run'.n = run.n
      BY <1>0, <2>4 DEF Windowing, Goto, RunType
    <3> QED BY <1>1, <3>1, <3>2
  <2>5. CASE Rollback
    BY <1>0, <1>1, <2>5 DEF Rollback, WithoutMon, Return, RunType
  <2> QED BY <1>2, <2>1, <2>2, <2>3, <2>4, <2>5, ProvisionShape
<1>3. CASE Retrieve
  <2>1. mons' = mons /\ ids' = ids
    BY <1>3 DEF Retrieve, account
  <2>2. run'.n = run.n
    BY <1>0, <1>3, RetrieveShape DEF Retrievals, Known, Unknown, RunType
  <2> QED BY <1>0, <1>1, <2>1, <2>2
<1>4. CASE Deprovision
  <2>1. mons' \subseteq mons /\ ids' = ids
    BY <1>4, DeprovisionShape DEF Deleting
  <2>2. run'.n = run.n
    BY <1>0, <1>4, DeprovisionShape DEF Deleting, Return, RunType
  <2> QED BY <1>0, <1>1, <2>1, <2>2
<1>5. CASE Cleanup
  BY <1>0, <1>1, <1>5, CleanupShape
<1>6. CASE Begin
  <2>1. run'.n = run.n + 1 /\ mons' = mons /\ ids' = ids
    BY <1>6 DEF Begin, Idle, account
  <2> QED BY <1>0, <1>1, <2>1
<1>7. CASE Teardown \/ Cancel \/ Crash \/ UNCHANGED vars
  <2>1. mons' = mons /\ ids' = ids
    BY <1>7 DEF Teardown, Cancel, Crash, vars, account
  <2>2. run'.n = run.n
    BY <1>0, <1>7 DEF Teardown, Cancel, Crash, Idle, vars, RunType
  <2> QED BY <1>0, <1>1, <2>1, <2>2
<1> QED BY <1>2, <1>3, <1>4, <1>5, <1>6, <1>7 DEF Next

\* The account keeps its types, and what a run makes carries its number.
LEMMA AccountStep ==
  ASSUME AdapterTypes, [Next]_vars
  PROVE  /\ AccountTypes'
         /\ \A m \in mons' : m.by <= run'.n /\ (m.by > 0 => m.name = "bench" /\ m.host = "target")
<1>0. /\ AccountTypes /\ RunType(run) /\ RunType(run)' /\ ids \in Nat
      /\ run.n \in Nat /\ run'.n \in Nat /\ \A m \in mons : m.by \in Nat
  BY RunTypeStep DEF AdapterTypes, AccountTypes, RunType, Monitors
<1>1. CASE mons' \subseteq mons /\ ids' \in Nat /\ ids' >= ids /\ run'.n \in Nat /\ run'.n >= run.n
  BY <1>0, <1>1, AccountShrinks DEF AdapterTypes
<1>2. ASSUME NEW o, NEW next, NEW err, CreateFacts(o, next, err)
      PROVE  /\ AccountTypes'
             /\ \A m \in mons' : m.by <= run'.n /\ (m.by > 0 => m.name = "bench" /\ m.host = "target")
  <2> DEFINE m == Monitor(ids + 1, run.n, "bench", "target", run.cfg)
  <2>1. m \in Monitors /\ m.id = ids + 1 /\ m.by = run.n /\ m.name = "bench" /\ m.host = "target"
    BY <1>0 DEF Monitor, Monitors, RunType
  <2>2. run'.n = run.n
    BY <1>0, <1>2 DEF CreateFacts, Create, RunType
  <2>3. (mons' = mons /\ ids' = ids) \/ (mons' = mons \cup {m} /\ ids' = ids + 1)
    BY <1>2 DEF CreateFacts, Create
  <2>4. AccountTypes'
    BY <1>0, <2>1, <2>3, AccountShrinks, AccountGrows
  <2> HIDE DEF m
  <2> QED BY <1>0, <2>1, <2>2, <2>3, <2>4 DEF AdapterTypes
<1>3. CASE Attaching
  <2>1. PICK o : Attach(o, "live", "rollback")
    BY <1>3 DEF Attaching
  <2>2. run'.n = run.n
    BY <1>0, <2>1 DEF Attach, Goto, RunType
  <2> QED BY <1>0, <2>1, <2>2, AttachKeeps DEF AdapterTypes
<1> QED BY <1>1, <1>2, <1>3, AccountShape

\* A listing and a sweep keep what they have found.
LEMMA CleanupTypeStep ==
  ASSUME AdapterTypes, [Next]_vars
  PROVE  cl' \in CleanupType
<1>0. cl \in CleanupType /\ mons \subseteq Monitors /\ run.n \in Nat
  BY DEF AdapterTypes, AccountTypes, RunType
<1>1. CASE UNCHANGED cl
  BY <1>0, <1>1
<1>2. CASE StartCleanup
  <2>1. PICK dry \in BOOLEAN, alone \in BOOLEAN, pc \in {"list", "done"} :
          cl' = [pc |-> pc, dry |-> dry, off |-> 0, todo |-> {}, began |-> run.n, alone |-> alone,
                 failed |-> FALSE]
    BY <1>2 DEF StartCleanup, CleanupIdle
  <2> QED BY <1>0, <2>1 DEF CleanupType
<1>3. ASSUME NEW owned \in SUBSET mons, Listed(owned) PROVE cl' \in CleanupType
  <2>1. Candidates(owned) \in SUBSET Monitors
    BY <1>0 DEF Candidates
  <2>2. CASE cl' = [cl EXCEPT !.pc = "sweep", !.todo = Candidates(owned)]
    BY <1>0, <2>1, <2>2 DEF CleanupType
  <2>3. CASE cl' = [cl EXCEPT !.pc = "done", !.failed = TRUE]
    BY <1>0, <2>3 DEF CleanupType
  <2> QED BY <1>3, <2>2, <2>3 DEF Listed
<1>4. CASE SweepOne
  <2>1. PICK m \in cl.todo, o \in Outcomes(TRUE) :
          cl' = [cl EXCEPT !.todo = @ \ {m}, !.failed = @ \/ DeleteFails(ad, o, m.id)]
    BY <1>4 DEF SweepOne
  <2> DEFINE failed == cl.failed \/ DeleteFails(ad, o, m.id)
  <2>2. failed \in BOOLEAN /\ cl.todo \ {m} \in SUBSET Monitors
    BY <1>0 DEF CleanupType
  <2>3. cl' = [cl EXCEPT !.todo = @ \ {m}, !.failed = failed]
    BY <2>1
  <2> HIDE DEF failed
  <2> QED BY <1>0, <2>2, <2>3 DEF CleanupType
<1>5. CASE Swept
  BY <1>0, <1>5 DEF Swept, CleanupType
<1>6. CASE ListPage
  <2> DEFINE found == cl.todo \cup Candidates({m \in Page(cl.off) : m.name = "bench"})
  <2>1. found \in SUBSET Monitors
    BY <1>0 DEF Candidates, Page, CleanupType
  <2>2. cl.off + PageLimit \in Nat
    BY <1>0, AdapterAssumption DEF CleanupType
  <2>3. CASE cl' = [cl EXCEPT !.pc = "done", !.failed = TRUE, !.todo = {}]
    BY <1>0, <2>3 DEF CleanupType
  <2>4. ASSUME NEW pc \in {"sweep", cl.pc}, cl' = [cl EXCEPT !.todo = found, !.off = @ + PageLimit, !.pc = pc]
        PROVE  cl' \in CleanupType
    <3> HIDE DEF found
    <3> QED BY <1>0, <2>1, <2>2, <2>4 DEF CleanupType
  <2> QED BY <1>6, <2>3, <2>4 DEF ListPage
<1>7. CASE Cleanup
  BY <1>1, <1>2, <1>3, <1>4, <1>5, <1>6, <1>7 DEF Cleanup, PingdomCleanupStale, DatadogCleanupStale,
     BetterUptimeCleanupStale, GatusCleanupStale, UptimeKumaCleanupStale, UptimeRobotCleanupStale,
     Sweep, Named
<1> QED BY <1>1, <1>7 DEF Next, vars, Begin, Provision, Retrieve, Teardown, Deprovision, Cancel, Crash

\* An adapter starts with its variables of their types.
LEMMA TypesInit == Init => AdapterTypes
<1> SUFFICES ASSUME Init PROVE AdapterTypes
  OBVIOUS
<1>1. ad \in Types /\ auth \in Registry(ad) /\ ids = 3 /\ cancelled \in BOOLEAN /\ run = Idle
  BY DEF Init
<1>2. cl \in CleanupType
  BY DEF Init, CleanupIdle, CleanupType
<1>3. RunType(run)
  BY DEF Init, Idle, RunType, NoConfig, ConfigType
<1>4. NoConfig \in ConfigType
  BY DEF NoConfig, ConfigType
<1> DEFINE a == Monitor(1, 0, "operator", "target", NoConfig)
           b == Monitor(2, 0, "bench", "other", NoConfig)
           c == Monitor(3, 0, "seed", "target", NoConfig)
           d == Monitor(3, 0, "bootstrap", "local", NoConfig)
<1>5. mons \in {{a, b}, {a, b, c}, {a, b, d}}
  <2>1. mons = {a, b} \cup (IF ad = "jetmon-v1" /\ (~auth.write \/ auth.readonly) THEN {c} ELSE {})
               \cup (IF ad = "gatus" THEN {d} ELSE {})
    BY DEF Init, Foreign
  <2> HIDE DEF a, b, c, d
  <2> QED BY <2>1
<1>6. IsFiniteSet(mons)
  <2> HIDE DEF a, b, c, d
  <2>1. mons \subseteq (({a} \cup {b}) \cup {c}) \cup {d}
    BY <1>5
  <2>2. IsFiniteSet({a})
    BY FS_Singleton
  <2>3. IsFiniteSet({a} \cup {b})
    BY <2>2, FS_AddElement
  <2>4. IsFiniteSet(({a} \cup {b}) \cup {c})
    BY <2>3, FS_AddElement
  <2>5. IsFiniteSet((({a} \cup {b}) \cup {c}) \cup {d})
    BY <2>4, FS_AddElement
  <2> QED BY <2>1, <2>5, FS_Subset
<1>e. /\ {a, b, c, d} \subseteq Monitors /\ a.by = 0 /\ b.by = 0 /\ c.by = 0 /\ d.by = 0
      /\ a.id = 1 /\ b.id = 2 /\ c.id = 3 /\ d.id = 3
  BY <1>4 DEF Monitor, Monitors
<1> HIDE DEF a, b, c, d
<1>7. \A m \in mons : m.by = 0 /\ m.id <= 3 /\ m \in Monitors
  BY <1>5, <1>e
<1>8. \A m, x \in mons : m.id = x.id => m = x
  BY <1>5, <1>e
<1>9. run.n = 0
  BY <1>1 DEF Idle
<1> QED BY <1>1, <1>2, <1>3, <1>6, <1>7, <1>8, <1>9 DEF AdapterTypes, AccountTypes

\* A step keeps the types of the account, the run and the cleanup.
LEMMA TypesStep == AdapterTypes /\ [Next]_vars => AdapterTypes'
<1> SUFFICES ASSUME AdapterTypes, [Next]_vars PROVE AdapterTypes'
  OBVIOUS
<1>1. ad' = ad /\ auth' = auth
  BY FixedStep DEF fixed
<1>2. cancelled' \in BOOLEAN
  BY DEF AdapterTypes, Next, vars, Begin, Provision, Retrieve, Teardown, Deprovision, Cancel, Crash, Cleanup
<1> QED BY <1>1, <1>2, RunTypeStep, AccountStep, CleanupTypeStep DEF AdapterTypes, Registry

\* The type invariant holds throughout.
LEMMA TypesHold == Spec => []AdapterTypes
BY TypesInit, TypesStep, PTL DEF Spec

-----------------------------------------------------------------------------
(* No monitor is left behind unnoticed *)

Orphan == \E pc \in Creates : Orphaned(pc)

\* What went wrong in a run is not forgotten before the next one.
LEMMA TroubleStays ==
  ASSUME trouble \subseteq trouble'
  PROVE  /\ Orphan => Orphan'
         /\ NotFound => NotFound'
         /\ \A what : Failed(what) => Failed(what)'
BY DEF Orphan, Orphaned, NotFound, Failed

\* What a step that creates nothing and gives no handle up does to a run.
Moves ==
    /\ mons' \subseteq mons /\ trouble \subseteq trouble' /\ run'.n = run.n
    /\ \/ run' = run
       \/ run.pc \in Searching
       \/ run.pc \in Holding /\ run'.pc \in Holding /\ run'.mon = run.mon
       \/ run'.pc = "idle" /\ run'.out \in {"crashed", "error"}

\* What such a create does.
Created(o, next, err) ==
    /\ run'.n = run.n /\ trouble \subseteq trouble' /\ run'.cfg = run.cfg /\ run'.win = run.win
    /\ o = "ok" => run'.pc = next /\ run'.mon = ids + 1
    /\ o # "ok" => run'.pc = err /\ run'.out = "failed"
    /\ o \in {"lost", "unnamed", "refused", "denied"} => <<run.pc, o>> \in trouble'
    /\ ~Applied(o) => mons' = mons
    /\ \A x \in mons' \ mons :
          /\ x.id = ids + 1 /\ x.by = run.n
          /\ Applied(o) /\ x = Monitor(ids + 1, run.n, "bench", "target", run.cfg)
    /\ next \in {"live", "maintenance"} /\ next \in Holding
    /\ mons \subseteq mons'

\* Every monitor after a create call was there before or is the one it made.
LEMMA CreateEffect ==
  ASSUME AdapterTypes, NEW o, NEW next, NEW err, CreateFacts(o, next, err)
  PROVE  Created(o, next, err)
<1>1. RunType(run)
  BY DEF AdapterTypes
<1>2. /\ run'.n = run.n /\ run'.cfg = run.cfg /\ run'.win = run.win
      /\ o = "ok" => run'.pc = next /\ run'.mon = ids + 1
      /\ o # "ok" => run'.pc = err /\ run'.out = "failed"
  BY <1>1 DEF CreateFacts, Create, Monitor, RunType
<1>3. /\ trouble \subseteq trouble'
      /\ o \in {"lost", "unnamed", "refused", "denied"} => <<run.pc, o>> \in trouble'
  BY DEF CreateFacts, Create, Note
<1>4. /\ ~Applied(o) => mons' = mons
      /\ mons \subseteq mons'
      /\ \A x \in mons' \ mons :
               /\ x.id = ids + 1 /\ x.by = run.n
               /\ Applied(o) /\ x = Monitor(ids + 1, run.n, "bench", "target", run.cfg)
  BY DEF CreateFacts, Create, Monitor
<1>5. next \in {"live", "maintenance"} /\ next \in Holding
  BY DEF CreateFacts, AfterCreate, Holding
<1> QED BY <1>2, <1>3, <1>4, <1>5 DEF Created

\* A step keeps every monitor of a run held by it, looked for or reported.
LEMMA LeakStep == AdapterTypes /\ LeakInv /\ [Next]_vars => LeakInv'
<1> SUFFICES ASSUME AdapterTypes, LeakInv, [Next]_vars PROVE LeakInv'
  OBVIOUS
<1>0. /\ RunType(run) /\ RunType(run)' /\ AdapterTypes' /\ ad' = ad /\ auth' = auth
      /\ run.pc \in {"idle"} \cup Searching \cup Holding
      /\ run.n \in Nat /\ run'.n \in Nat /\ (\A m \in mons : m.by \in Nat /\ m.by <= run.n)
  BY TypesStep, FixedStep DEF AdapterTypes, AccountTypes, Monitors, RunType, fixed
<1>1. /\ "idle" \notin Searching \cup Holding /\ Searching \cap Holding = {}
  BY DEF Searching, Holding
<1>m. ASSUME Moves PROVE LeakInv'
  <2>1. /\ Mine' \subseteq Mine
        /\ Orphan => Orphan'
        /\ Failed("rollback") => Failed("rollback")'
    BY <1>m, TroubleStays DEF Moves, Mine
  <2>2. CASE run' = run
    BY <1>0, <1>1, <1>m, <2>1, <2>2 DEF LeakInv, Moves, Mine, Orphan, LeaksAreReported
  <2>3. CASE run.pc \in Searching
    BY <1>0, <1>1, <1>m, <2>1, <2>3 DEF LeakInv, Moves, Mine, Orphan, LeaksAreReported
  <2>4. CASE run.pc \in Holding /\ run'.pc \in Holding /\ run'.mon = run.mon
    BY <1>0, <1>1, <1>m, <2>1, <2>4 DEF LeakInv, Moves, Mine, Orphan, LeaksAreReported
  <2>5. CASE run'.pc = "idle" /\ run'.out \in {"crashed", "error"}
    BY <1>0, <1>1, <1>m, <2>1, <2>5 DEF LeakInv, Moves, Mine, Orphan, LeaksAreReported
  <2> QED BY <1>m, <2>2, <2>3, <2>4, <2>5 DEF Moves
<1>c. ASSUME NEW o, NEW next, NEW err, CreateFacts(o, next, err) PROVE LeakInv'
  <2>e. Created(o, next, err)
    BY <1>c, CreateEffect
  <2>1. /\ o \in {"lost", "unnamed"} => Orphan'
        /\ Orphan => Orphan'
    BY <2>e, <1>c, TroubleStays DEF CreateFacts, Orphan, Orphaned, Created
  <2>2. /\ run.pc \in Searching
        /\ \A m \in Mine' \cap mons : Orphan'
    <3>1. run.pc \in Searching
      BY <1>c DEF CreateFacts, Creates, Searching
    <3>2. Mine' \cap mons \subseteq Mine
      BY <2>e, <1>c DEF Mine, Created
    <3> QED BY <2>1, <3>1, <3>2 DEF LeakInv, Orphan
  <2>3. ad = "jetmon-v1" => auth.write
    BY <1>c DEF CreateFacts
  <2>4. CASE o = "ok"
    BY <2>e, <1>0, <1>1, <1>c, <2>2, <2>3, <2>4 DEF LeakInv, Mine, Orphan, LeaksAreReported, Created
  <2>5. CASE o # "ok"
    <3>1. \A m \in Mine' : Orphan'
      BY <2>e, <1>c, <2>1, <2>2, <2>5 DEF Applied, Mine, Created
    <3> QED BY <1>0, <2>3, <3>1 DEF LeakInv, Mine, Orphan, LeaksAreReported
  <2> QED BY <2>4, <2>5
<1>2. CASE Provision
  <2>1. CASE (run.pc \in Creates /\ Reject) \/ Refused \/ TriesAgain
    <3>1. run.pc \in Searching
      BY <2>1 DEF Creates, Searching, Refused, TriesAgain
    <3>2. run'.n = run.n
      BY <1>0, <2>1 DEF Reject, Return, Refused, TriesAgain, Goto, RunType
    <3>3. mons' = mons /\ trouble \subseteq trouble'
      BY <2>1 DEF Reject, Refused, TriesAgain, Note, account
    <3> QED BY <1>m, <3>1, <3>2, <3>3 DEF Moves
  <2>2. CASE JetmonV1ProvisionRead \/ AdoptSingleMatching \/ FindMatching \/ PurgeMatching
    <3>1. run.pc \in Searching
      BY <2>2 DEF JetmonV1ProvisionRead, AdoptSingleMatching, FindMatching, PurgeMatching, At, Searching
    <3>2. run'.n = run.n
      BY <1>0, <2>2 DEF JetmonV1ProvisionRead, AdoptSingleMatching, FindMatching, PurgeMatching,
         Return, Goto, RunType
    <3>3. mons' \subseteq mons /\ trouble \subseteq trouble'
      BY <2>2 DEF JetmonV1ProvisionRead, AdoptSingleMatching, FindMatching, PurgeMatching,
         WithoutMon, Note, account
    <3> QED BY <1>m, <3>1, <3>2, <3>3 DEF Moves
  <2>3. CASE Windowing
    <3>1. run'.n = run.n /\ run'.mon = run.mon /\ run'.pc \in Holding /\ run.pc \in Holding
      BY <1>0, <2>3 DEF Windowing, Goto, RunType, Holding
    <3> QED BY <1>m, <2>3, <3>1 DEF Moves, Windowing
  <2>4. CASE Attaching
    <3>1. PICK o : Attach(o, "live", "rollback")
      BY <2>4 DEF Attaching
    <3>2. run'.n = run.n /\ run'.mon = run.mon /\ run'.pc \in Holding /\ run.pc \in Holding
      BY <1>0, <2>4, <3>1 DEF Attaching, Attach, Goto, RunType, Holding
    <3>3. trouble \subseteq trouble' /\ ad # "jetmon-v1"
      BY <2>4, <3>1 DEF Attach, Note, Attaching
    <3>4. \A x \in mons' : \E m \in mons : m.id = x.id /\ m.by = x.by
      BY <1>0, <3>1, AttachKeeps DEF AdapterTypes
    <3>5. Orphan => Orphan'
      BY <3>3, TroubleStays
    <3> QED BY <1>0, <1>1, <3>2, <3>3, <3>4, <3>5 DEF LeakInv, Mine, Orphan, LeaksAreReported
  <2>5. CASE Rollback
    <3>1. run'.n = run.n /\ run'.pc = "idle" /\ run.pc \in Holding
      BY <1>0, <2>5 DEF Rollback, Return, RunType, Holding
    <3>2. PICK o \in Outcomes(TRUE), p \in Outcomes(TRUE) :
            /\ mons' = IF Applied(o) THEN WithoutMon(run.mon) ELSE mons
            /\ Note(IF o = "ok" THEN p ELSE o, "rollback")
      BY <2>5 DEF Rollback
    <3>3. trouble \subseteq trouble' /\ (o = "refused" => Failed("rollback")')
      <4>1. trouble \subseteq trouble' /\ (o = "refused" => <<"rollback", o>> \in trouble')
        BY <3>2 DEF Note
      <4> QED BY <4>1 DEF Failed
    <3>4. o # "refused" => Applied(o)
      BY <3>2, OutcomeSets DEF Applied
    <3>5. \A m \in mons' : m \in mons /\ (m.id = run.mon => Failed("rollback")')
      BY <3>2, <3>3, <3>4 DEF WithoutMon
    <3>6. Orphan => Orphan'
      BY <3>3, TroubleStays
    <3> QED BY <1>0, <1>1, <3>1, <3>5, <3>6 DEF LeakInv, Mine, Orphan, LeaksAreReported
  <2> QED BY <1>2, <1>c, <2>1, <2>2, <2>3, <2>4, <2>5, ProvisionShape
<1>3. CASE Retrieve
  <2>1. run'.n = run.n /\ run'.mon = run.mon /\ run'.pc \in Holding /\ run.pc \in Holding
    BY <1>0, <1>3, RetrieveShape DEF Retrievals, Known, Unknown, RunType, Holding
  <2> QED BY <1>3, <1>m, <2>1, RetrieveShape DEF Moves, account
<1>4. CASE Deprovision
  <2>1. Deleting /\ run.pc \in Holding
    BY <1>4, DeprovisionShape DEF Deleting, Holding
  <2>2. CASE run' = [run EXCEPT !.win = 0] \/ run' = [run EXCEPT !.tries = @ + 1]
    <3>1. run'.n = run.n /\ run'.mon = run.mon /\ run'.pc = run.pc
      BY <1>0, <2>2 DEF RunType
    <3> QED BY <1>m, <2>1, <3>1 DEF Moves, Deleting
  <2>3. CASE Return("error")
    <3>1. run'.n = run.n /\ run'.pc = "idle" /\ run'.out = "error"
      BY <1>0, <2>3 DEF Return, RunType
    <3> QED BY <1>m, <2>1, <3>1 DEF Moves, Deleting
  <2>4. CASE Return("gone") /\ (mons' = WithoutMon(run.mon) \/ (ad = "jetmon-v1" /\ ~auth.write))
    <3>1. run'.n = run.n /\ run'.pc = "idle" /\ trouble \subseteq trouble'
      BY <1>0, <2>1, <2>4 DEF Return, RunType, Deleting
    <3>2. \A m \in mons' : m \in mons /\ (m.id # run.mon \/ m.by = 0)
      BY <2>1, <2>4 DEF WithoutMon, LeakInv, Deleting
    <3>3. Orphan => Orphan'
      BY <3>1, TroubleStays
    <3> QED BY <1>0, <1>1, <2>1, <3>1, <3>2, <3>3 DEF LeakInv, Mine, Orphan, LeaksAreReported
  <2> QED BY <2>1, <2>2, <2>3, <2>4 DEF Deleting
<1>5. CASE Cleanup
  BY <1>5, <1>m, CleanupShape DEF Moves
<1>6. CASE Begin
  <2>1. run'.n = run.n + 1 /\ mons' = mons
    BY <1>6 DEF Begin, Idle, account
  <2>2. Mine' = {}
    BY <1>0, <2>1 DEF Mine
  <2> QED BY <1>0, <2>1, <2>2 DEF LeakInv, Mine, LeaksAreReported
<1>7. CASE Teardown \/ Cancel \/ Crash \/ UNCHANGED vars
  <2>1. mons' = mons /\ trouble' = trouble
    BY <1>7 DEF Teardown, Cancel, Crash, vars, account
  <2>2. CASE Teardown
    <3>1. run'.n = run.n /\ run'.mon = run.mon /\ run'.pc \in Holding /\ run.pc \in Holding
      BY <1>0, <2>2 DEF Teardown, RunType, Holding
    <3> QED BY <1>m, <2>1, <3>1 DEF Moves
  <2>3. CASE Crash
    <3>1. run'.n = run.n /\ run'.pc = "idle" /\ run'.out = "crashed"
      BY <1>0, <2>3 DEF Crash, Idle
    <3> QED BY <1>m, <2>1, <3>1 DEF Moves
  <2>4. CASE run' = run
    BY <1>m, <2>1, <2>4 DEF Moves
  <2> QED BY <1>7, <2>2, <2>3, <2>4 DEF Cancel, vars
<1> QED BY <1>2, <1>3, <1>4, <1>5, <1>6, <1>7 DEF Next

\* uptimerobot: a lost answer is looked into.
LEMMA LostStep == AdapterTypes /\ LostInv /\ [Next]_vars => LostInv'
<1> SUFFICES ASSUME AdapterTypes, LostInv, [Next]_vars, ad = "uptimerobot" PROVE LostInv'
  BY FixedStep DEF LostInv, fixed
<1>0. /\ RunType(run) /\ RunType(run)' /\ AdapterTypes' /\ ad' = ad
      /\ run.pc \in {"idle"} \cup Searching \cup Holding
      /\ run.n \in Nat /\ run'.n \in Nat /\ (\A m \in mons : m.by \in Nat /\ m.by <= run.n)
  BY TypesStep, FixedStep DEF AdapterTypes, AccountTypes, Monitors, RunType, fixed
<1>1. /\ "idle" \notin Searching \cup Holding /\ Searching \cap Holding = {}
      /\ {"provision", "adopt"} \subseteq Searching
  BY DEF Searching, Holding
<1>2. Mine \subseteq Duplicates
  BY <1>0 DEF AdapterTypes, Mine, Duplicates
<1>i. /\ run.pc = "provision" => Mine = {}
      /\ run.pc = "adopt" => \A m \in Mine, d \in Duplicates : d = m
      /\ run.pc \in Searching \ {"adopt"} => Mine = {} \/ NotFound
      /\ run.pc \in Holding => (\A m \in Mine : m.id = run.mon) \/ NotFound
      /\ LostCreateRecovered
  BY DEF LostInv
<1>n. ASSUME run'.pc # "adopt", run'.pc # "provision", (Mine = {})' \/ NotFound' PROVE LostInv'
  BY <1>0, <1>1, <1>n DEF LostInv, Mine, LostCreateRecovered, NotFound
<1>h. ASSUME run'.pc \in Holding, (\A m \in Mine : m.id = run.mon)' \/ NotFound' PROVE LostInv'
  BY <1>0, <1>1, <1>h DEF LostInv, LostCreateRecovered
<1>m. ASSUME mons' \subseteq mons, trouble \subseteq trouble', run'.n = run.n,
             \/ run' = run
             \/ run.pc \in Searching \ {"adopt"} /\ run'.pc \notin {"adopt", "provision"}
             \/ run.pc \in Holding /\ run'.pc \in Holding /\ run'.mon = run.mon
             \/ run'.pc = "idle" /\ run'.out \in {"crashed", "error"}
      PROVE  LostInv'
  <2>1. /\ Mine' \subseteq Mine /\ Duplicates' \subseteq Duplicates
        /\ NotFound => NotFound'
        /\ Failed("rollback") => Failed("rollback")'
    BY <1>m, TroubleStays DEF Mine, Duplicates
  <2>2. CASE run' = run
    BY <1>0, <1>1, <1>i, <1>m, <2>1, <2>2 DEF LostInv, Mine, NotFound, LostCreateRecovered
  <2>3. CASE run.pc \in Searching \ {"adopt"} /\ run'.pc \notin {"adopt", "provision"}
    BY <1>i, <1>n, <2>1, <2>3
  <2>4. CASE run.pc \in Holding /\ run'.pc \in Holding /\ run'.mon = run.mon
    BY <1>i, <1>h, <2>1, <2>4
  <2>5. CASE run'.pc = "idle" /\ run'.out \in {"crashed", "error"}
    BY <1>0, <1>1, <2>5 DEF LostInv, LostCreateRecovered
  <2> QED BY <1>m, <2>2, <2>3, <2>4, <2>5
<1>c. ASSUME NEW o, NEW next, NEW err, CreateFacts(o, next, err) PROVE LostInv'
  <2>e. Created(o, next, err)
    BY <1>c, CreateEffect
  <2>0. /\ run.pc \in Creates /\ run'.n = run.n /\ mons \subseteq mons' /\ (NotFound => NotFound')
        /\ Applied(o) => Duplicates = {}
        /\ o \in {"ok", "lost", "unnamed", "refused", "denied", "cancelled"}
        /\ err \in {"idle", "adopt"}
        /\ err = "adopt" => run.pc = "provision"
        /\ run.pc = "provision" /\ o \notin {"denied", "unnamed"} => err = "adopt"
    BY <2>e, <1>c, TroubleStays DEF CreateFacts, Created
  <2>1. CASE o = "ok"
    <3>1. run'.pc \in Holding /\ run'.mon = ids + 1
      BY <2>e, <1>c, <2>1 DEF Created
    <3>2. Mine = {}
      BY <1>2, <2>0, <2>1 DEF Applied
    <3>3. \A m \in Mine' : m.id = ids + 1
      BY <2>e, <1>c, <2>0, <3>2 DEF Mine, Created
    <3> QED BY <1>h, <3>1, <3>3
  <2>2. CASE o # "ok" /\ err = "idle"
    <3>1. run'.pc = "idle"
      BY <2>e, <1>c, <2>2 DEF Created
    <3>2. CASE run.pc \in {"recreate", "retry"} /\ o \in {"lost", "unnamed"}
      <4>1. <<run.pc, o>> \in trouble'
        BY <2>e, <1>c, <3>2 DEF Created
      <4>2. NotFound'
        BY <3>2, <4>1 DEF NotFound, Failed
      <4> QED BY <1>n, <3>1, <4>2
    <3>3. CASE run.pc = "provision" /\ o = "unnamed"
      <4>1. <<"provision", "unnamed">> \in trouble'
        BY <2>e, <1>c, <3>3 DEF Created
      <4> QED BY <1>0, <1>1, <3>1, <4>1 DEF LostInv, LostCreateRecovered
    <3>4. CASE ~Applied(o)
      <4>1. Mine' = Mine
        BY <2>e, <1>c, <2>0, <3>4 DEF Mine, Created
      <4>2. run.pc \in Searching \ {"adopt"}
        BY <2>0 DEF Creates, Searching
      <4>3. (Mine = {})' \/ NotFound'
        BY <1>i, <2>0, <4>1, <4>2
      <4> QED BY <1>n, <3>1, <4>3
    <3> QED BY <2>0, <2>2, <3>2, <3>3, <3>4 DEF Applied, Creates
  <2>3. CASE o # "ok" /\ err = "adopt"
    <3>1. run'.pc = "adopt" /\ run.pc = "provision" /\ Mine = {}
      BY <2>e, <1>c, <1>i, <2>0, <2>3 DEF Created
    <3>2. CASE Applied(o)
      <4>1. \A x \in Duplicates' : x = Monitor(ids + 1, run.n, "bench", "target", run.cfg)
        BY <2>e, <1>c, <2>0, <3>2 DEF Duplicates, Created
      <4>2. Mine' \subseteq Duplicates'
        BY <1>0 DEF AdapterTypes, Mine, Duplicates
      <4>3. \A m \in Mine', d \in Duplicates' : d = m
        BY <4>1, <4>2
      <4> QED BY <1>0, <1>1, <3>1, <4>3 DEF LostInv, LostCreateRecovered
    <3>3. CASE ~Applied(o)
      <4>1. Mine' = {}
        BY <2>e, <1>c, <2>0, <3>1, <3>3 DEF Mine, Created
      <4> QED BY <1>0, <1>1, <3>1, <4>1 DEF LostInv, LostCreateRecovered
    <3> QED BY <3>2, <3>3
  <2> QED BY <2>0, <2>1, <2>2, <2>3
<1>3. CASE Provision
  <2>1. CASE run.pc \in Creates /\ Reject
    <3>1. run'.n = run.n /\ run'.pc = "idle" /\ mons' = mons /\ trouble' = trouble
      BY <1>0, <2>1 DEF Reject, Return, RunType, account
    <3> QED BY <1>m, <2>1, <3>1 DEF Creates, Searching
  <2>2. CASE Refused
    <3>1. /\ run'.n = run.n /\ mons' = mons /\ trouble \subseteq trouble'
          /\ run'.pc \in {"find", "adopt", "idle"}
          /\ run'.pc = "adopt" => run.pc = "provision"
      BY <1>0, <2>2 DEF Refused, RunType, account, Note
    <3>2. CASE run'.pc = "adopt"
      <4>1. Mine' = {}
        BY <1>i, <3>1, <3>2 DEF Mine
      <4> QED BY <1>0, <1>1, <3>2, <4>1 DEF LostInv, LostCreateRecovered
    <3>3. CASE run'.pc # "adopt"
      BY <1>m, <2>2, <3>1, <3>3 DEF Refused, Creates, Searching
    <3> QED BY <3>2, <3>3
  <2>3. CASE FindMatching
    <3>1. run.pc = "find" /\ run'.pc \in {"purge", "idle"} /\ run'.n = run.n /\ mons' = mons /\ trouble \subseteq trouble'
      BY <1>0, <2>3 DEF FindMatching, Return, RunType, account, Note, At
    <3> QED BY <1>m, <3>1 DEF Searching
  <2>4. CASE PurgeMatching
    <3>1. run.pc = "purge" /\ run'.pc \in {"purge", "retry", "idle"} /\ run'.n = run.n
      BY <1>0, <2>4 DEF PurgeMatching, Return, Goto, RunType, At
    <3>2. mons' \subseteq mons /\ trouble \subseteq trouble'
      BY <2>4 DEF PurgeMatching, WithoutMon, account, Note
    <3> QED BY <1>m, <3>1, <3>2 DEF Searching
  <2>5. CASE AdoptSingleMatching
    <3>1. PICK o \in Outcomes(TRUE) :
            /\ Note(o, "adopt")
            /\ IF o = "ok" /\ Cardinality(Duplicates) = 1
               THEN run' = [run EXCEPT !.pc = AfterCreate, !.mon = (CHOOSE m \in Duplicates : TRUE).id]
               ELSE Goto("recreate")
      BY <2>5 DEF AdoptSingleMatching
    <3>2. run.pc = "adopt" /\ mons' = mons /\ trouble \subseteq trouble' /\ run'.n = run.n
      BY <1>0, <2>5, <3>1 DEF AdoptSingleMatching, At, account, Note, Goto, RunType
    <3>3. Mine' = Mine /\ \A m \in Mine, d \in Duplicates : d = m
      BY <1>i, <3>2 DEF Mine
    <3>4. CASE o # "ok"
      <4>1. <<"adopt", o>> \in trouble'
        BY <3>1, <3>4, OutcomeSets DEF Note
      <4>2. NotFound' /\ run'.pc = "recreate"
        BY <1>0, <3>1, <3>4, <4>1 DEF NotFound, Failed, Goto, RunType
      <4> QED BY <1>n, <4>2
    <3>5. CASE o = "ok" /\ Cardinality(Duplicates) = 1
      <4>1. Duplicates # {}
        BY <3>5, FS_EmptySet
      <4>2. run'.pc \in Holding /\ run'.mon = (CHOOSE m \in Duplicates : TRUE).id
        BY <1>0, <3>1, <3>5 DEF RunType, AfterCreate, Holding
      <4>3. \A m \in Mine' : m.id = run'.mon
        BY <3>3, <4>1, <4>2, Chosen
      <4> QED BY <1>h, <4>2, <4>3
    <3>6. CASE o = "ok" /\ Cardinality(Duplicates) # 1
      <4>1. Mine = {}
        <5> SUFFICES ASSUME NEW m \in Mine PROVE FALSE
          OBVIOUS
        <5>1. Duplicates = {m}
          BY <1>2, <3>3
        <5> QED BY <3>6, <5>1, FS_Singleton
      <4>2. run'.pc = "recreate"
        BY <1>0, <3>1, <3>6 DEF Goto, RunType
      <4> QED BY <1>n, <3>3, <4>1, <4>2
    <3> QED BY <3>4, <3>5, <3>6
  <2>6. CASE Windowing
    <3>1. run'.n = run.n /\ run'.mon = run.mon /\ run'.pc \in Holding /\ run.pc \in Holding
      BY <1>0, <2>6 DEF Windowing, Goto, RunType, Holding
    <3> QED BY <1>m, <2>6, <3>1 DEF Windowing
  <2>7. CASE Attaching
    <3>1. PICK o : Attach(o, "live", "rollback")
      BY <2>7 DEF Attaching
    <3>2. run'.n = run.n /\ run'.mon = run.mon /\ run'.pc \in Holding /\ run.pc \in Holding
      BY <1>0, <2>7, <3>1 DEF Attaching, Attach, Goto, RunType, Holding
    <3>3. NotFound => NotFound'
      BY <3>1, TroubleStays DEF Attach, Note
    <3>4. \A x \in mons' : \E m \in mons : m.id = x.id /\ m.by = x.by
      BY <1>0, <3>1, AttachKeeps DEF AdapterTypes
    <3>5. (\A m \in Mine : m.id = run.mon)' \/ NotFound'
      BY <1>i, <3>2, <3>3, <3>4 DEF Mine
    <3> QED BY <1>h, <3>2, <3>5
  <2>8. CASE Rollback
    <3>1. run'.n = run.n /\ run'.pc = "idle" /\ run.pc \in Holding
      BY <1>0, <2>8 DEF Rollback, Return, RunType, Holding
    <3>2. PICK o \in Outcomes(TRUE), p \in Outcomes(TRUE) :
            /\ mons' = IF Applied(o) THEN WithoutMon(run.mon) ELSE mons
            /\ Note(IF o = "ok" THEN p ELSE o, "rollback")
      BY <2>8 DEF Rollback
    <3>3. trouble \subseteq trouble' /\ (o = "refused" => Failed("rollback")')
      <4>1. trouble \subseteq trouble' /\ (o = "refused" => <<"rollback", o>> \in trouble')
        BY <3>2 DEF Note
      <4> QED BY <4>1 DEF Failed
    <3>4. o # "refused" => Applied(o)
      BY <3>2, OutcomeSets DEF Applied
    <3>5. \A m \in mons' : m \in mons /\ (m.id = run.mon => Failed("rollback")')
      BY <3>2, <3>3, <3>4 DEF WithoutMon
    <3>6. NotFound => NotFound'
      BY <3>3, TroubleStays
    <3> QED BY <1>0, <1>1, <1>i, <3>1, <3>5, <3>6 DEF LostInv, Mine, NotFound, LostCreateRecovered
  <2> QED BY <1>3, <1>c, <2>1, <2>2, <2>3, <2>4, <2>5, <2>6, <2>7, <2>8, ProvisionShape
          DEF TriesAgain, JetmonV1ProvisionRead
<1>4. CASE Retrieve
  <2>1. run'.n = run.n /\ run'.mon = run.mon /\ run'.pc \in Holding /\ run.pc \in Holding
    BY <1>0, <1>4, RetrieveShape DEF Retrievals, Known, Unknown, RunType, Holding
  <2> QED BY <1>4, <1>m, <2>1, RetrieveShape DEF account
<1>5. CASE Deprovision
  <2>1. Deleting /\ run.pc \in Holding
    BY <1>5, DeprovisionShape DEF Deleting, Holding
  <2>2. CASE run' = [run EXCEPT !.win = 0] \/ run' = [run EXCEPT !.tries = @ + 1]
    <3>1. run'.n = run.n /\ run'.mon = run.mon /\ run'.pc = run.pc
      BY <1>0, <2>2 DEF RunType
    <3> QED BY <1>m, <2>1, <3>1 DEF Deleting
  <2>3. CASE Return("error")
    <3>1. run'.n = run.n /\ run'.pc = "idle" /\ run'.out = "error"
      BY <1>0, <2>3 DEF Return, RunType
    <3> QED BY <1>m, <2>1, <3>1 DEF Deleting
  <2>4. CASE Return("gone") /\ (mons' = WithoutMon(run.mon) \/ (ad = "jetmon-v1" /\ ~auth.write))
    <3>1. run'.n = run.n /\ run'.pc = "idle" /\ trouble \subseteq trouble'
      BY <1>0, <2>1, <2>4 DEF Return, RunType, Deleting
    <3>2. \A m \in mons' : m \in mons /\ m.id # run.mon
      BY <2>4 DEF WithoutMon
    <3>3. (Mine = {})' \/ NotFound'
      BY <1>i, <2>1, <3>1, <3>2, TroubleStays DEF Mine
    <3> QED BY <1>n, <3>1, <3>3
  <2> QED BY <2>1, <2>2, <2>3, <2>4 DEF Deleting
<1>6. CASE Cleanup
  BY <1>6, <1>m, CleanupShape
<1>7. CASE Begin
  <2>1. run'.n = run.n + 1 /\ mons' = mons
    BY <1>7 DEF Begin, Idle, account
  <2>2. Mine' = {}
    BY <1>0, <2>1 DEF Mine
  <2> QED BY <1>0, <2>1, <2>2 DEF LostInv, Mine, LostCreateRecovered
<1>8. CASE Teardown \/ Cancel \/ Crash \/ UNCHANGED vars
  <2>1. mons' = mons /\ trouble' = trouble
    BY <1>8 DEF Teardown, Cancel, Crash, vars, account
  <2>2. CASE Teardown
    <3>1. run'.n = run.n /\ run'.mon = run.mon /\ run'.pc \in Holding /\ run.pc \in Holding
      BY <1>0, <2>2 DEF Teardown, RunType, Holding
    <3> QED BY <1>m, <2>1, <3>1
  <2>3. CASE Crash
    <3>1. run'.n = run.n /\ run'.pc = "idle" /\ run'.out = "crashed"
      BY <1>0, <2>3 DEF Crash, Idle
    <3> QED BY <1>m, <2>1, <3>1
  <2>4. CASE run' = run
    BY <1>m, <2>1, <2>4
  <2> QED BY <1>8, <2>2, <2>3, <2>4 DEF Cancel, vars
<1> QED BY <1>3, <1>4, <1>5, <1>6, <1>7, <1>8 DEF Next

\* For every set of adapter types, configurations and bounds: whatever calls fail
\* or are cancelled, wherever the harness dies and whatever a cleanup deletes in
\* between, a run leaves no monitor behind unnoticed.
THEOREM LeaksNoticed == Spec => []NoSilentLeak
<1>1. Init => LeakInv /\ LostInv
  <2> SUFFICES ASSUME Init PROVE LeakInv /\ LostInv
    OBVIOUS
  <2>1. run.n = 0 /\ run.pc = "idle" /\ AdapterTypes
    BY TypesInit DEF Init, Idle
  <2>2. \A m \in mons : m.by = 0
    BY <2>1 DEF AdapterTypes, AccountTypes, Monitors
  <2>3. Mine = {}
    BY <2>1 DEF Mine
  <2> QED BY <2>1, <2>2, <2>3 DEF LeakInv, LostInv, LeaksAreReported, LostCreateRecovered, Searching,
          Holding
<1>2. LeakInv /\ LostInv => NoSilentLeak
  BY DEF LeakInv, LostInv, NoSilentLeak, LostCreateRecovered
<1> QED BY <1>1, <1>2, TypesHold, LeakStep, LostStep, PTL DEF Spec

-----------------------------------------------------------------------------
(* A run goes ahead with the monitor and the window it asked for *)

\* Where HandleIsOurs speaks of the handle.
Using == {"live", "maintenance", "attach"}

\* A step keeps the handle a run holds pointing at a monitor of its own.
LEMMA HandleStep == AdapterTypes /\ HandleInv /\ [Next]_vars => HandleInv'
<1> SUFFICES ASSUME AdapterTypes, HandleInv, [Next]_vars PROVE HandleInv'
  OBVIOUS
<1>0. /\ RunType(run) /\ RunType(run)' /\ ad' = ad
      /\ ids \in Nat /\ (\A m \in mons : m.id \in Nat /\ m.id <= ids)
  BY TypesStep, FixedStep DEF AdapterTypes, AccountTypes, Monitors, fixed
<1>i. /\ run.pc = "adopt" => ad = "uptimerobot" /\ (Failed("provision") \/ cancelled)
      /\ run.pc \in Using /\ ad # "jetmon-v1" =>
            \A m \in mons : m.id = run.mon =>
                m.by = run.n \/ (ad = "uptimerobot" /\ (Failed("provision") \/ cancelled))
  BY DEF HandleInv, HandleIsOurs, Using
<1>n. ASSUME run'.pc \notin Using, run'.pc # "adopt" PROVE HandleInv'
  BY <1>n DEF HandleInv, HandleIsOurs, Using
<1>m. ASSUME \A x \in mons' : \E m \in mons : m.id = x.id /\ m.by = x.by,
             trouble \subseteq trouble', cancelled => cancelled',
             run'.n = run.n, run'.mon = run.mon,
             run'.pc \in Using => run.pc \in Using,
             run'.pc = "adopt" => run.pc = "adopt"
      PROVE  HandleInv'
  <2>1. Failed("provision") => Failed("provision")'
    BY <1>m, TroubleStays
  <2> QED BY <1>0, <1>i, <1>m, <2>1 DEF HandleInv, HandleIsOurs, Using
<1>c. ASSUME NEW o, NEW next, NEW err, CreateFacts(o, next, err), cancelled' = cancelled PROVE HandleInv'
  <2>e. Created(o, next, err)
    BY <1>c, CreateEffect
  <2>1. CASE o = "ok"
    <3>1. run'.pc \in Using /\ run'.mon = ids + 1 /\ run'.n = run.n
      BY <2>e, <2>1 DEF Created, Using
    <3>2. \A x \in mons' : x.id = ids + 1 => x.by = run.n
      BY <1>0, <2>e DEF Created
    <3> QED BY <3>1, <3>2 DEF HandleInv, HandleIsOurs, Using
  <2>2. CASE o # "ok" /\ err = "adopt"
    <3>1. /\ run'.pc = "adopt" /\ ad = "uptimerobot" /\ run.pc = "provision"
          /\ o \in {"lost", "refused", "cancelled"} /\ (o = "cancelled" => cancelled)
      BY <1>c, <2>e, <2>2 DEF CreateFacts, Created
    <3>2. o # "cancelled" => <<"provision", o>> \in trouble'
      BY <2>e, <3>1 DEF Created
    <3>3. Failed("provision")' \/ cancelled'
      BY <1>c, <3>1, <3>2 DEF Failed
    <3> QED BY <1>0, <3>1, <3>3 DEF HandleInv, HandleIsOurs
  <2>3. CASE o # "ok" /\ err = "idle"
    BY <1>n, <2>e, <2>3 DEF Created, Using
  <2> QED BY <1>c, <2>1, <2>2, <2>3 DEF CreateFacts
<1>2. CASE Provision
  <2>0. cancelled' = cancelled
    BY <1>2 DEF Provision
  <2>1. CASE (run.pc \in Creates /\ Reject) \/ TriesAgain
    <3>1. run'.pc \in {"idle", "lookup", "provision"}
      BY <1>0, <2>1 DEF Reject, Return, TriesAgain, Goto, RunType
    <3> QED BY <1>n, <3>1 DEF Using
  <2>2. CASE Refused
    <3>1. PICK pc \in {"find", "adopt", "idle"}, o \in {"ok", "lost"} :
            /\ pc = "adopt" => run.pc = "provision" /\ o = "lost"
            /\ run' = [run EXCEPT !.pc = pc, !.out = "failed"] /\ Note(o, run.pc)
      BY <2>2 DEF Refused
    <3>2. run'.pc = pc
      BY <1>0, <3>1 DEF RunType
    <3>3. pc = "adopt" => <<"provision", "lost">> \in trouble'
      BY <3>1 DEF Note
    <3>4. pc = "adopt" => Failed("provision")'
      BY <3>3 DEF Failed
    <3> QED BY <1>0, <2>2, <3>2, <3>4 DEF HandleInv, HandleIsOurs, Refused
  <2>3. CASE FindMatching \/ PurgeMatching \/ Rollback
    <3>1. run'.pc \in {"idle", "purge", "retry"}
      BY <1>0, <2>3 DEF FindMatching, PurgeMatching, Rollback, Return, Goto, RunType, At
    <3> QED BY <1>n, <3>1 DEF Using
  <2>4. CASE JetmonV1ProvisionRead
    <3>1. ad = "jetmon-v1" /\ run'.pc \in {"live", "idle"}
      BY <1>0, <2>4 DEF JetmonV1ProvisionRead, Return, RunType
    <3> QED BY <1>0, <3>1 DEF HandleInv, HandleIsOurs
  <2>5. CASE AdoptSingleMatching
    <3>1. run.pc = "adopt" /\ run'.pc # "adopt" /\ trouble \subseteq trouble'
      BY <1>0, <2>5 DEF AdoptSingleMatching, At, Goto, AfterCreate, Note, RunType
    <3>2. ad = "uptimerobot" /\ (Failed("provision")' \/ cancelled')
      BY <1>i, <2>0, <3>1, TroubleStays
    <3> QED BY <1>0, <3>1, <3>2 DEF HandleInv, HandleIsOurs
  <2>6. CASE Windowing
    <3>1. run'.n = run.n /\ run'.mon = run.mon /\ run'.pc # "adopt" /\ run.pc \in Using
      BY <1>0, <2>6 DEF Windowing, Goto, RunType, Using
    <3> QED BY <1>m, <2>0, <2>6, <3>1 DEF Windowing
  <2>7. CASE Attaching
    <3>1. PICK o : Attach(o, "live", "rollback")
      BY <2>7 DEF Attaching
    <3>2. run'.n = run.n /\ run'.mon = run.mon /\ run'.pc # "adopt" /\ run.pc \in Using
      BY <1>0, <2>7, <3>1 DEF Attaching, Attach, Goto, RunType, Using
    <3>3. trouble \subseteq trouble'
      BY <3>1 DEF Attach, Note
    <3>4. \A x \in mons' : \E m \in mons : m.id = x.id /\ m.by = x.by
      BY <1>0, <3>1, AttachKeeps DEF AdapterTypes
    <3> QED BY <1>m, <2>0, <3>2, <3>3, <3>4
  <2> QED BY <1>2, <1>c, <2>0, <2>1, <2>2, <2>3, <2>4, <2>5, <2>6, <2>7, ProvisionShape
<1>3. CASE Retrieve
  <2>1. run'.n = run.n /\ run'.mon = run.mon /\ run'.pc # "adopt" /\ run.pc \in Using
    BY <1>0, <1>3, RetrieveShape DEF Retrievals, Known, Unknown, RunType, Using
  <2> QED BY <1>3, <1>m, <2>1, RetrieveShape DEF account
<1>4. CASE Deprovision \/ Teardown \/ Crash \/ Begin
  <2>1. run'.pc \in {"idle", "teardown", "provision"}
    <3>1. CASE Deprovision
      BY <1>0, <3>1, DeprovisionShape DEF Deleting, Return, RunType
    <3>2. CASE Teardown \/ Crash \/ Begin
      BY <1>0, <3>2 DEF Teardown, Crash, Begin, Idle, RunType
    <3> QED BY <1>4, <3>1, <3>2
  <2> QED BY <1>n, <2>1 DEF Using
<1>5. CASE Cleanup
  BY <1>5, <1>m, CleanupShape
<1>6. CASE Cancel \/ UNCHANGED vars
  BY <1>6, <1>m DEF Cancel, vars, account
<1> QED BY <1>2, <1>3, <1>4, <1>5, <1>6 DEF Next

\* What a run that passed its gates is configured with, and its window.
LEMMA WindowStep == AdapterTypes /\ WindowInv /\ [Next]_vars => WindowInv'
<1> SUFFICES ASSUME AdapterTypes, WindowInv, [Next]_vars PROVE WindowInv'
  OBVIOUS
<1> DEFINE Able == ad \in {"uptimerobot", "pingdom", "datadog", "better-uptime", "jetmon-v2"}
           Set == /\ run.win # 0 \/ ad \in {"better-uptime", "jetmon-v2"}
                  /\ ad \in {"better-uptime", "jetmon-v2", "uptimerobot"} =>
                        \A m \in mons : m.id = run.mon => m.mw
<1>0. /\ RunType(run) /\ RunType(run)' /\ ad' = ad /\ ids \in Nat /\ ids + 1 # 0
      /\ mons \subseteq Monitors
  BY TypesStep, FixedStep DEF AdapterTypes, AccountTypes, fixed
<1>i. /\ run.pc # "idle" /\ run.cfg.window # "none" => Able
      /\ run.pc = "attach" /\ ad = "uptimerobot" => run.win # 0
      /\ run.pc = "live" /\ run.cfg.window # "none" => Set
  BY DEF WindowInv, WindowIsSet
<1>q. ASSUME run'.pc = "idle" PROVE WindowInv'
  BY <1>q DEF WindowInv, WindowIsSet
<1>n. ASSUME run.pc # "idle", run'.pc \notin {"live", "attach"}, run'.cfg = run.cfg PROVE WindowInv'
  BY <1>0, <1>i, <1>n DEF WindowInv, WindowIsSet
<1>m. ASSUME mons' \subseteq mons, run'.mon = run.mon, run'.win = run.win, run'.cfg = run.cfg,
             run.pc # "idle" \/ run'.pc = run.pc, run'.pc = "live" => run.pc = "live",
             run'.pc = "attach" => run.pc = "attach"
      PROVE  WindowInv'
  BY <1>0, <1>i, <1>m DEF WindowInv, WindowIsSet
<1>c. ASSUME NEW o, NEW next, NEW err, CreateFacts(o, next, err) PROVE WindowInv'
  <2>e. Created(o, next, err)
    BY <1>c, CreateEffect
  <2>1. run.pc # "idle" /\ run'.cfg = run.cfg /\ run'.pc \in {next, err} /\ next \in {"live", "maintenance"}
    BY <1>c, <2>e DEF CreateFacts, Created, Creates
  <2>2. run'.pc # "live" => WindowInv'
    BY <1>c, <1>n, <2>1 DEF CreateFacts
  <2>3. run'.pc = "live" => run.cfg.window = "none"
    BY <1>c, <1>i, <2>1 DEF CreateFacts, AfterCreate
  <2>4. run'.pc = "live" => WindowInv'
    BY <1>0, <2>1, <2>3 DEF WindowInv, WindowIsSet
  <2> QED BY <2>2, <2>4
<1>2. CASE Provision
  <2>1. CASE run.pc \in Creates /\ Reject
    BY <1>0, <1>q, <2>1 DEF Reject, Return, RunType
  <2>2. CASE Refused \/ TriesAgain
    <3>1. /\ run.pc \in Searching /\ run'.cfg = run.cfg
          /\ run'.pc \in {"find", "adopt", "idle", "lookup", "provision"}
      BY <1>0, <2>2 DEF Refused, TriesAgain, Goto, Return, RunType, Creates, Searching
    <3> QED BY <1>n, <3>1 DEF Searching
  <2>3. CASE FindMatching \/ PurgeMatching
    <3>1. run.pc \in Searching /\ run'.cfg = run.cfg /\ run'.pc \in {"idle", "purge", "retry"}
      BY <1>0, <2>3 DEF FindMatching, PurgeMatching, Return, Goto, RunType, At, Searching
    <3> QED BY <1>n, <3>1 DEF Searching
  <2>4. CASE Rollback
    BY <1>0, <1>q, <2>4 DEF Rollback, Return, RunType
  <2>5. CASE JetmonV1ProvisionRead
    <3>1. ad = "jetmon-v1" /\ run'.pc \in {"live", "idle"} /\ run'.cfg = run.cfg /\ run.pc # "idle"
      BY <1>0, <2>5 DEF JetmonV1ProvisionRead, Return, RunType
    <3> QED BY <1>0, <1>i, <3>1 DEF WindowInv, WindowIsSet
  <2>6. CASE AdoptSingleMatching
    <3>1. run.pc = "adopt" /\ run'.cfg = run.cfg /\ run'.pc \in {AfterCreate, "recreate"}
      BY <1>0, <2>6 DEF AdoptSingleMatching, At, Goto, RunType
    <3>2. CASE run'.pc = "live"
      BY <1>0, <3>1, <3>2 DEF AfterCreate, WindowInv, WindowIsSet
    <3>3. CASE run'.pc # "live"
      BY <1>n, <3>1, <3>3 DEF AfterCreate
    <3> QED BY <3>2, <3>3
  <2>7. CASE Windowing
    <3>0. run.pc \in {"maintenance", "attach"} /\ mons' = mons
      BY <2>7 DEF Windowing
    <3>1. CASE Goto("rollback")
      <4>1. run'.pc = "rollback" /\ run'.cfg = run.cfg
        BY <1>0, <3>1 DEF Goto, RunType
      <4> QED BY <1>n, <3>0, <4>1
    <3>2. CASE ad = "datadog" /\ Goto("attach")
      <4>1. run'.pc = "attach" /\ run'.cfg = run.cfg
        BY <1>0, <3>2 DEF Goto, RunType
      <4> QED BY <1>0, <1>i, <3>0, <3>2, <4>1 DEF WindowInv, WindowIsSet
    <3>3. CASE ad \in {"pingdom", "datadog"} /\ run' = [run EXCEPT !.pc = "live", !.win = ids + 1]
      <4>1. run'.pc = "live" /\ run'.cfg = run.cfg /\ run'.win = ids + 1
        BY <1>0, <3>3 DEF RunType
      <4> QED BY <1>0, <1>i, <3>0, <3>3, <4>1 DEF WindowInv, WindowIsSet
    <3>4. CASE ad = "uptimerobot" /\ run' = [run EXCEPT !.pc = "attach", !.win = ids + 1]
      <4>1. run'.pc = "attach" /\ run'.cfg = run.cfg /\ run'.win = ids + 1
        BY <1>0, <3>4 DEF RunType
      <4> QED BY <1>0, <1>i, <3>0, <3>4, <4>1 DEF WindowInv, WindowIsSet
    <3> QED BY <2>7, <3>1, <3>2, <3>3, <3>4 DEF Windowing
  <2>8. CASE Attaching
    <3>1. PICK o : Attach(o, "live", "rollback")
      BY <2>8 DEF Attaching
    <3>2. /\ run'.mon = run.mon /\ run'.cfg = run.cfg /\ run'.win = run.win
          /\ run'.pc = IF o = "ok" THEN "live" ELSE "rollback"
      BY <1>0, <3>1 DEF Attach, Goto, RunType
    <3>3. /\ run.pc # "idle" /\ ad \in {"better-uptime", "jetmon-v2", "uptimerobot"}
          /\ ad = "uptimerobot" => run.pc = "attach"
      BY <2>8 DEF Attaching
    <3>4. CASE o # "ok"
      BY <1>n, <3>2, <3>3, <3>4
    <3>5. CASE o = "ok"
      <4>1. mons' = {IF m.id = run.mon THEN [m EXCEPT !.mw = TRUE] ELSE m : m \in mons}
        BY <3>1, <3>5 DEF Attach, Applied
      <4>2. \A x \in mons' : x.id = run.mon => x.mw
        BY <1>0, <4>1 DEF Monitors
      <4> QED BY <1>0, <1>i, <3>2, <3>3, <3>5, <4>2 DEF WindowInv, WindowIsSet
    <3> QED BY <3>4, <3>5
  <2> QED BY <1>2, <1>c, <2>1, <2>2, <2>3, <2>4, <2>5, <2>6, <2>7, <2>8, ProvisionShape
<1>3. CASE Retrieve
  <2>1. /\ run'.mon = run.mon /\ run'.cfg = run.cfg /\ run'.win = run.win
        /\ run'.pc \in {"retrieved", "live"} /\ run.pc = "live"
    BY <1>0, <1>3, RetrieveShape DEF Retrievals, Known, Unknown, RunType
  <2> QED BY <1>3, <1>m, <2>1, RetrieveShape DEF account
<1>4. CASE Deprovision
  <2>1. run.pc = "teardown" /\ run'.pc \in {"teardown", "idle"} /\ run'.cfg = run.cfg
    BY <1>0, <1>4, DeprovisionShape DEF Deleting, Return, RunType
  <2> QED BY <1>n, <2>1
<1>5. CASE Teardown
  <2>1. run.pc # "idle" /\ run'.pc = "teardown" /\ run'.cfg = run.cfg
    BY <1>0, <1>5 DEF Teardown, RunType
  <2> QED BY <1>n, <2>1
<1>6. CASE Crash
  BY <1>6, <1>q DEF Crash, Idle
<1>7. CASE Begin
  <2>1. PICK cfg \in Configs :
          run' = [Idle EXCEPT !.n = run.n + 1, !.cfg = cfg,
                              !.pc = IF PassesGate(cfg) THEN "provision" ELSE "idle",
                              !.out = IF PassesGate(cfg) THEN "none" ELSE "mismatch"]
    BY <1>7 DEF Begin
  <2>2. run'.cfg = cfg /\ run'.pc \in {"provision", "idle"} /\ (run'.pc # "idle" => PassesGate(cfg))
    BY <2>1 DEF Idle
  <2>3. ad \in AllTypes
    BY AdapterAssumption DEF AdapterTypes
  <2>4. PassesGate(cfg) /\ cfg.window # "none" => Able
    <3>1. CASE ad = "jetmon-v1"
      BY <3>1 DEF PassesGate, Capabilities, JetmonV1Capabilities, Caps
    <3>2. CASE ad = "gatus"
      BY <3>2 DEF PassesGate, Capabilities, GatusCapabilities, Caps
    <3>3. CASE ad = "uptime-kuma"
      BY <3>3 DEF PassesGate, Capabilities, UptimeKumaCapabilities, Caps
    <3> QED BY <2>3, <3>1, <3>2, <3>3 DEF AllTypes
  <2> QED BY <1>0, <2>2, <2>4 DEF WindowInv, WindowIsSet
<1>8. CASE Cleanup
  BY <1>8, <1>m, CleanupShape
<1>9. CASE Cancel \/ UNCHANGED vars
  BY <1>9, <1>m DEF Cancel, vars, account
<1> QED BY <1>2, <1>3, <1>4, <1>5, <1>6, <1>7, <1>8, <1>9 DEF Next

\* For every adapter, configuration and bound: a run that goes ahead watches its
\* own monitor (or, with uptimerobot, one it adopted because the answer to its
\* create failed), under the maintenance window it asked for.
THEOREM RunGetsWhatItAsked == Spec => []RunHasWhatItAsked
<1>1. Init => HandleInv /\ WindowInv
  <2> SUFFICES ASSUME Init PROVE HandleInv /\ WindowInv
    OBVIOUS
  <2>1. run.pc = "idle"
    BY DEF Init, Idle
  <2> QED BY <2>1 DEF HandleInv, WindowInv, HandleIsOurs, WindowIsSet
<1>2. HandleInv /\ WindowInv => RunHasWhatItAsked
  BY DEF HandleInv, WindowInv, RunHasWhatItAsked
<1> QED BY <1>1, <1>2, TypesHold, HandleStep, WindowStep, PTL DEF Spec

-----------------------------------------------------------------------------
(* `known' is only said of a monitor that is there *)

\* For every adapter but gatus, whose bridge answers for a missing endpoint: no
\* retrieval reports `known' about a monitor the service does not have, whatever
\* a cleanup deleted under the run.
THEOREM KnownIsWatched == Spec => KnownMeansWatched
<1> DEFINE Says == run'.pc = "retrieved" /\ run'.out = "known" /\ ad # "gatus" /\ run' # run => Watched
<1>1. AdapterTypes /\ [Next]_vars => [Says]_vars
  <2> SUFFICES ASSUME AdapterTypes, Next, run'.pc = "retrieved", run'.out = "known", ad # "gatus",
                      run' # run
               PROVE  Watched
    OBVIOUS
  <2>0. RunType(run)
    BY DEF AdapterTypes
  <2>1. CASE Provision
    <3>1. CASE (run.pc \in Creates /\ Reject) \/ Refused \/ TriesAgain
      BY <2>0, <3>1 DEF Reject, Refused, TriesAgain, Goto, Return, RunType
    <3>2. ASSUME NEW o, NEW next, NEW err, CreateFacts(o, next, err) PROVE FALSE
      BY <3>2, CreateEffect DEF Created, CreateFacts
    <3>3. CASE JetmonV1ProvisionRead \/ AdoptSingleMatching \/ FindMatching \/ PurgeMatching
      BY <2>0, <3>3 DEF JetmonV1ProvisionRead, AdoptSingleMatching, FindMatching, PurgeMatching, At,
         Goto, Return, AfterCreate, RunType
    <3>4. CASE Windowing \/ Attaching \/ Rollback
      BY <2>0, <3>4 DEF Windowing, Attaching, Attach, Rollback, Goto, Return, RunType
    <3> QED BY <2>1, <3>1, <3>2, <3>3, <3>4, ProvisionShape
  <2>2. CASE Retrieve
    <3>1. CASE run' = Unknown \/ run' = [run EXCEPT !.tries = @ + 1]
      BY <2>0, <2>2, <3>1, RetrieveShape DEF Unknown, RunType
    <3>2. CASE PingdomRetrieve
      BY <3>1, <3>2 DEF PingdomRetrieve
    <3>3. ASSUME NEW type, NEW Reports(_), RetrieveWith(type, Reports) PROVE Watched
      BY <3>1, <3>3 DEF RetrieveWith
    <3> QED BY <2>2, <3>2, <3>3 DEF Retrieve, GatusRetrieve, At, UptimeRobotRetrieve, DatadogRetrieve,
            BetterUptimeRetrieve, JetmonV1Retrieve, JetmonV2Retrieve, UptimeKumaRetrieve
  <2>3. CASE Deprovision
    BY <2>0, <2>3, DeprovisionShape DEF Deleting, Return, RunType
  <2>4. CASE Begin \/ Teardown \/ Crash
    BY <2>0, <2>4 DEF Begin, Teardown, Crash, Idle, RunType
  <2>5. CASE Cancel \/ Cleanup
    BY <2>5 DEF Cancel, Cleanup
  <2> QED BY <2>1, <2>2, <2>3, <2>4, <2>5 DEF Next
<1> QED BY <1>1, TypesHold, PTL DEF Spec, KnownMeansWatched

-----------------------------------------------------------------------------
(* A cleanup that exits with 0 has cleaned up *)

\* The ranks of the monitors by identifier are 0 up to their number: a page that
\* is not full is the last one.
LEMMA ShortPageIsLast ==
  ASSUME AccountTypes, NEW off \in Nat, Cardinality(Page(off)) < PageLimit, NEW m \in mons
  PROVE  Rank(m) \in Nat /\ Rank(m) < off + PageLimit
<1> DEFINE Below(x) == {y \in mons : y.id < x.id}
           N == Cardinality(mons)
           L == PageLimit
<1>1. L \in Nat \ {0}
  BY AdapterAssumption
<1>2. \A x \in mons : x.id \in Nat
  BY DEF AccountTypes, Monitors
<1>3. IsFiniteSet(mons) /\ N \in Nat
  BY FS_CardinalityType DEF AccountTypes
<1>4. \A x \in mons : IsFiniteSet(Below(x)) /\ Rank(x) = Cardinality(Below(x)) /\ Rank(x) \in Nat
  BY <1>3, FS_Subset, FS_CardinalityType DEF Rank
<1>5. \A x, y \in mons : x.id < y.id => Rank(x) < Rank(y)
  <2> SUFFICES ASSUME NEW x \in mons, NEW y \in mons, x.id < y.id PROVE Rank(x) < Rank(y)
    OBVIOUS
  <2>1. Below(x) \cup {x} \in SUBSET Below(y)
    BY <1>2
  <2>2. x \notin Below(x)
    BY <1>2
  <2>3. Cardinality(Below(x) \cup {x}) = Rank(x) + 1
    BY <1>4, <2>2, FS_AddElement
  <2>4. Cardinality(Below(x) \cup {x}) <= Cardinality(Below(y))
    <3> DEFINE S == Below(y)
               T == Below(x) \cup {x}
    <3>1. IsFiniteSet(S) /\ T \in SUBSET S
      BY <1>4, <2>1
    <3> HIDE DEF S, T
    <3>2. Cardinality(T) <= Cardinality(S)
      BY <3>1, FS_Subset
    <3> QED BY <3>2 DEF S, T
  <2>5. Rank(x) \in Nat /\ Rank(y) \in Nat /\ Rank(y) = Cardinality(Below(y))
    BY <1>4
  <2>6. Rank(x) + 1 <= Rank(y)
    BY <2>3, <2>4, <2>5
  <2> HIDE DEF Below
  <2> QED BY <2>5, <2>6
<1>6. \A x \in mons : Rank(x) \in 0..(N - 1)
  <2> SUFFICES ASSUME NEW x \in mons PROVE Rank(x) \in 0..(N - 1)
    OBVIOUS
  <2>1. Below(x) \in SUBSET (mons \ {x})
    BY <1>2
  <2>2. IsFiniteSet(mons \ {x}) /\ Cardinality(mons \ {x}) = N - 1
    BY <1>3, FS_RemoveElement
  <2>3. Rank(x) \in Nat /\ Rank(x) <= N - 1
    <3> DEFINE S == mons \ {x}
               T == Below(x)
    <3>1. IsFiniteSet(S) /\ T \in SUBSET S
      BY <2>1, <2>2
    <3> HIDE DEF S, T
    <3>2. Cardinality(T) <= Cardinality(S)
      BY <3>1, FS_Subset
    <3> QED BY <1>4, <2>2, <3>2 DEF S, T
  <2> HIDE DEF N
  <2> QED BY <1>3, <2>3
<1> HIDE DEF Below, N
<1> DEFINE f == [x \in mons |-> Rank(x)]
<1>7. f \in Injection(mons, 0..(N - 1))
  <2>1. \A x, y \in mons : Rank(x) = Rank(y) => x = y
    <3> SUFFICES ASSUME NEW x \in mons, NEW y \in mons, Rank(x) = Rank(y) PROVE x.id = y.id
      BY DEF AccountTypes
    <3>1. ~(x.id < y.id) /\ ~(y.id < x.id)
      <4>1. Rank(x) \in Nat /\ Rank(y) \in Nat
        BY <1>4
      <4> QED BY <1>5, <4>1
    <3> QED BY <1>2, <3>1
  <2>2. f \in [mons -> 0..(N - 1)]
    BY <1>6
  <2>3. \A x, y \in mons : f[x] = f[y] => x = y
    BY <2>1
  <2> HIDE DEF f
  <2> QED BY <2>2, <2>3 DEF Injection, IsInjective
<1>8. IsFiniteSet(0..(N - 1)) /\ Cardinality(0..(N - 1)) = N
  BY <1>3, FS_Interval
<1>9. f \in Surjection(mons, 0..(N - 1))
  <2> DEFINE T == 0..(N - 1)
  <2>1. f \in Injection(mons, T) /\ IsFiniteSet(T) /\ Cardinality(mons) = Cardinality(T)
    BY <1>7, <1>8 DEF N
  <2> HIDE DEF f, T
  <2>2. f \in Surjection(mons, T)
    BY <2>1, FS_Injection
  <2> QED BY <2>2 DEF T
<1>10. \A r \in 0..(N - 1) : \E x \in mons : Rank(x) = r
  BY <1>9 DEF Surjection
<1>11. Rank(m) < off + L
  <2>0. Rank(m) \in Nat
    BY <1>4
  <2> SUFFICES ASSUME Rank(m) >= off + L PROVE FALSE
    BY <1>1, <2>0
  <2> DEFINE g == [x \in Page(off) |-> Rank(x)]
             J == off..(off + L - 1)
  <2>1. \A x \in Page(off) : Rank(x) \in J
    <3> SUFFICES ASSUME NEW x \in Page(off) PROVE Rank(x) \in J
      OBVIOUS
    <3>1. x \in mons /\ off <= Rank(x) /\ Rank(x) < off + L
      BY DEF Page, Rank
    <3>2. Rank(x) \in Nat
      BY <1>4, <3>1
    <3> QED BY <1>1, <3>1, <3>2
  <2>2. \A r \in J : \E x \in Page(off) : Rank(x) = r
    <3> SUFFICES ASSUME NEW r \in J PROVE \E x \in Page(off) : Rank(x) = r
      OBVIOUS
    <3>1. r \in 0..(N - 1)
      BY <1>1, <1>3, <1>6
    <3>2. PICK x \in mons : Rank(x) = r
      BY <1>10, <3>1
    <3>3. off <= Rank(x) /\ Rank(x) < off + L
      BY <1>1, <3>2
    <3>4. x \in Page(off)
      BY <3>3 DEF Page, Rank
    <3> QED BY <3>2, <3>4
  <2>3. g \in Surjection(Page(off), J)
    <3>1. g \in [Page(off) -> J]
      BY <2>1
    <3>2. \A r \in J : \E x \in Page(off) : g[x] = r
      BY <2>2
    <3> HIDE DEF g, J
    <3> QED BY <3>1, <3>2 DEF Surjection
  <2>4. IsFiniteSet(Page(off))
    BY <1>3, FS_Subset DEF Page
  <2>5. Cardinality(J) <= Cardinality(Page(off))
    <3> HIDE DEF g, J
    <3> QED BY <2>3, <2>4, FS_Surjection
  <2>6. Cardinality(J) = L
    BY <1>1, FS_Interval
  <2>7. Cardinality(Page(off)) \in Nat
    BY <2>4, FS_CardinalityType
  <2> QED BY <1>1, <2>5, <2>6, <2>7
<1> QED BY <1>4, <1>11

\* What a listing and a sweep have found and deleted so far.
LEMMA CleanStep == AdapterTypes /\ CleanInv /\ [Next]_vars => CleanInv'
<1> SUFFICES ASSUME AdapterTypes, CleanInv, [Next]_vars PROVE CleanInv'
  OBVIOUS
<1>0. /\ AccountTypes /\ RunType(run) /\ RunType(run)' /\ cl \in CleanupType /\ cl' \in CleanupType
      /\ ad' = ad /\ scope' = scope /\ run.n \in Nat /\ run'.n \in Nat /\ cl.began \in Nat
  BY TypesStep, FixedStep DEF AdapterTypes, fixed, RunType, CleanupType
<1>1. CASE Cleanup
  <2>0. run' = run /\ mons' \subseteq mons
    BY <1>1, CleanupShape
  <2>1. CASE StartCleanup
    <3>1. /\ cl'.began = run.n /\ (cl'.alone => run.pc = "idle") /\ cl'.off = 0
          /\ cl'.pc = IF StaleCleaner THEN "list" ELSE "done"
      BY <2>1 DEF StartCleanup, CleanupIdle
    <3>2. \A m \in mons' : m \in Stale' => ~(Rank(m)' < cl'.off)
      <4> SUFFICES ASSUME NEW m \in mons' PROVE ~(Rank(m)' < 0)
        BY <3>1
      <4>1. IsFiniteSet(mons')
        BY <1>0, <2>0, FS_Subset DEF AccountTypes
      <4>2. {x \in mons' : x.id < m.id} \in SUBSET mons'
        OBVIOUS
      <4>3. Cardinality({x \in mons' : x.id < m.id}) \in Nat
        BY <4>1, <4>2, FS_Subset, FS_CardinalityType
      <4> QED BY <4>3 DEF Rank
    <3> QED BY <1>0, <2>0, <3>1, <3>2 DEF CleanInv, Undisturbed, StaleCleaner, Stale
  <2>2. CASE ~StartCleanup
    <3>0. /\ cl.pc \in {"list", "sweep"} /\ ad \notin {"jetmon-v1", "jetmon-v2"}
          /\ \/ ad # "uptimerobot" /\ Listed(Named("bench"))
             \/ ad = "uptimerobot" /\ ListPage
             \/ SweepOne \/ Swept
      BY <1>1, <2>2 DEF Cleanup, PingdomCleanupStale, DatadogCleanupStale, BetterUptimeCleanupStale,
         GatusCleanupStale, UptimeKumaCleanupStale, UptimeRobotCleanupStale, Sweep, Listed, ListPage,
         SweepOne, Swept
    <3>1. CASE Listed(Named("bench"))
      <4>1. CASE cl' = [cl EXCEPT !.pc = "sweep", !.todo = Candidates(Named("bench"))]
        <5>1. /\ cl'.pc = "sweep" /\ cl'.todo = Candidates(Named("bench")) /\ cl'.dry = cl.dry
              /\ cl'.alone = cl.alone /\ cl'.began = cl.began
          BY <1>0, <4>1 DEF CleanupType
        <5>2. mons' = mons
          BY <3>1 DEF Listed
        <5>3. ~cl.dry => Stale' \subseteq Candidates(Named("bench"))
          BY <1>0, <5>2 DEF Stale, Candidates, Named, MatchesURL
        <5> QED BY <1>0, <2>0, <3>0, <5>1, <5>3 DEF CleanInv, Undisturbed
      <4>2. CASE cl' = [cl EXCEPT !.pc = "done", !.failed = TRUE]
        <5>1. cl'.pc = "done" /\ cl'.failed /\ cl'.alone = cl.alone /\ cl'.began = cl.began
          BY <1>0, <4>2 DEF CleanupType
        <5> QED BY <1>0, <2>0, <3>0, <5>1 DEF CleanInv, Undisturbed
      <4> QED BY <3>1, <4>1, <4>2 DEF Listed
    <3>2. CASE ad = "uptimerobot" /\ ListPage
      <4> DEFINE found == cl.todo \cup Candidates({m \in Page(cl.off) : m.name = "bench"})
                 short == Cardinality(Page(cl.off)) < PageLimit
      <4>0. cl.pc = "list" /\ mons' = mons /\ cl.off \in Nat /\ PageLimit \in Nat \ {0}
        BY <1>0, <3>2, AdapterAssumption DEF ListPage, CleanupType
      <4>1. CASE cl' = [cl EXCEPT !.pc = "done", !.failed = TRUE, !.todo = {}]
        <5>1. cl'.pc = "done" /\ cl'.failed /\ cl'.alone = cl.alone /\ cl'.began = cl.began
          BY <1>0, <4>1 DEF CleanupType
        <5> QED BY <1>0, <2>0, <3>0, <5>1 DEF CleanInv, Undisturbed
      <4>2. CASE cl' = [cl EXCEPT !.todo = found, !.off = @ + PageLimit, !.pc = IF short THEN "sweep" ELSE @]
        <5>1. /\ cl'.pc = (IF short THEN "sweep" ELSE "list") /\ cl'.todo = found
              /\ cl'.off = cl.off + PageLimit /\ cl'.dry = cl.dry /\ cl'.failed = cl.failed
              /\ cl'.alone = cl.alone /\ cl'.began = cl.began
          <6> HIDE DEF found, short
          <6> QED BY <1>0, <4>0, <4>2 DEF CleanupType
        <5>2. ASSUME Undisturbed, NEW m \in Stale, Rank(m) < cl.off + PageLimit, Rank(m) \in Nat PROVE m \in found
          <6>1. CASE Rank(m) < cl.off
            BY <4>0, <5>2, <6>1 DEF CleanInv
          <6>2. CASE Rank(m) >= cl.off
            <7>1. m \in mons /\ m.name = "bench" /\ MatchesURL(m) /\ ~cl.dry
              BY <5>2 DEF Stale, Undisturbed
            <7>2. m \in Page(cl.off)
              BY <5>2, <6>2, <7>1 DEF Page, Rank
            <7> QED BY <7>1, <7>2 DEF Candidates
          <6> QED BY <4>0, <5>2, <6>1, <6>2
        <5>3. \A m \in mons : Rank(m) \in Nat
          <6> SUFFICES ASSUME NEW m \in mons PROVE Rank(m) \in Nat
            OBVIOUS
          <6>1. {x \in mons : x.id < m.id} \in SUBSET mons
            OBVIOUS
          <6> QED BY <1>0, <6>1, FS_Subset, FS_CardinalityType DEF Rank, AccountTypes
        <5>4. short => \A m \in mons : Rank(m) < cl.off + PageLimit
          BY <1>0, <4>0, ShortPageIsLast
        <5>5. Stale' = Stale /\ \A m : Rank(m)' = Rank(m)
          BY <1>0, <4>0 DEF Stale, MatchesURL, Rank
        <5>6. Undisturbed' => Undisturbed
          BY <1>0, <2>0, <5>1 DEF Undisturbed, StaleCleaner
        <5>7. Stale \subseteq mons
          BY DEF Stale
        <5> HIDE DEF found, short
        <5>8. Undisturbed' => /\ cl'.pc = "list" => \A m \in Stale' : Rank(m)' < cl'.off => m \in cl'.todo
                              /\ cl'.pc = "sweep" => Stale' \subseteq cl'.todo
                              /\ cl'.pc # "done"
          BY <5>1, <5>2, <5>3, <5>4, <5>5, <5>6, <5>7
        <5> QED BY <1>0, <2>0, <3>0, <5>1, <5>8 DEF CleanInv
      <4> QED BY <3>2, <4>1, <4>2 DEF ListPage
    <3>3. CASE SweepOne
      <4>1. PICK m \in cl.todo, o \in Outcomes(TRUE) :
              /\ mons' = IF Applied(o) THEN WithoutMon(m.id) ELSE mons
              /\ cl' = [cl EXCEPT !.todo = @ \ {m}, !.failed = @ \/ DeleteFails(ad, o, m.id)]
        BY <3>3 DEF SweepOne
      <4>2. /\ cl'.pc = "sweep" /\ cl.pc = "sweep" /\ cl'.todo = cl.todo \ {m} /\ cl'.dry = cl.dry
            /\ cl'.alone = cl.alone /\ cl'.began = cl.began
            /\ cl'.failed = (cl.failed \/ DeleteFails(ad, o, m.id))
        BY <1>0, <3>3, <4>1 DEF SweepOne, CleanupType
      <4>3. ~cl'.failed => o = "ok" /\ ~cl.failed
        BY <4>2 DEF DeleteFails
      <4>4. o = "ok" => mons' = WithoutMon(m.id)
        BY <4>1 DEF Applied
      <4>5. o = "ok" => Stale' \subseteq Stale \ {m}
        BY <1>0, <4>4 DEF WithoutMon, Stale, MatchesURL
      <4>6. Undisturbed' => Undisturbed /\ o = "ok"
        BY <1>0, <2>0, <4>2, <4>3 DEF Undisturbed, StaleCleaner
      <4> QED BY <1>0, <2>0, <4>2, <4>5, <4>6 DEF CleanInv
    <3>4. CASE Swept
      <4>1. /\ cl.pc = "sweep" /\ cl.todo = {} /\ cl'.pc = "done" /\ mons' = mons
            /\ cl'.dry = cl.dry /\ cl'.alone = cl.alone /\ cl'.began = cl.began /\ cl'.failed = cl.failed
        BY <1>0, <3>4 DEF Swept, CleanupType
      <4>2. Stale' = Stale /\ (Undisturbed' => Undisturbed)
        BY <1>0, <2>0, <4>1 DEF Undisturbed, StaleCleaner, Stale, MatchesURL
      <4> QED BY <1>0, <2>0, <4>1, <4>2 DEF CleanInv
    <3> QED BY <3>0, <3>1, <3>2, <3>3, <3>4
  <2> QED BY <2>1, <2>2
<1>2. CASE ~Cleanup
  <2>1. cl' = cl
    BY <1>2 DEF Next, vars, Begin, Provision, Retrieve, Teardown, Deprovision, Cancel, Crash
  <2>2. CASE Begin
    <3>1. run'.n = run.n + 1
      BY <2>2 DEF Begin, Idle
    <3>2. cl.began <= run.n
      BY DEF CleanInv
    <3>3. cl'.began <= run'.n /\ cl'.began # run'.n
      BY <1>0, <2>1, <3>1, <3>2
    <3> QED BY <3>3 DEF CleanInv, Undisturbed
  <2>3. CASE run.pc # "idle" /\ run'.n = run.n
    BY <1>0, <2>1, <2>3 DEF CleanInv, Undisturbed
  <2>4. CASE run'.n = run.n /\ run'.pc = run.pc /\ mons' = mons
    <3>1. Stale' = Stale /\ (\A m : Rank(m)' = Rank(m)) /\ (Undisturbed' <=> Undisturbed)
      BY <1>0, <2>1, <2>4 DEF Stale, MatchesURL, Rank, Undisturbed, StaleCleaner
    <3> QED BY <1>0, <2>1, <2>4, <3>1 DEF CleanInv
  <2>5. CASE Provision
    <3>1. run.pc # "idle"
      BY <2>5, ProvisionShape DEF Creates, Refused, TriesAgain, CreateFacts, JetmonV1ProvisionRead,
         AdoptSingleMatching, FindMatching, PurgeMatching, At, Windowing, Attaching, Rollback
    <3>2. run'.n = run.n
      <4>1. CASE (run.pc \in Creates /\ Reject) \/ Refused \/ TriesAgain
        BY <1>0, <4>1 DEF Reject, Refused, TriesAgain, Goto, Return, RunType
      <4>2. ASSUME NEW o, NEW next, NEW err, CreateFacts(o, next, err) PROVE run'.n = run.n
        BY <4>2, CreateEffect DEF Created
      <4>3. CASE JetmonV1ProvisionRead \/ AdoptSingleMatching \/ FindMatching \/ PurgeMatching
        BY <1>0, <4>3 DEF JetmonV1ProvisionRead, AdoptSingleMatching, FindMatching, PurgeMatching,
           Goto, Return, RunType
      <4>4. CASE Windowing \/ Attaching \/ Rollback
        BY <1>0, <4>4 DEF Windowing, Attaching, Attach, Rollback, Goto, Return, RunType
      <4> QED BY <2>5, <4>1, <4>2, <4>3, <4>4, ProvisionShape
    <3> QED BY <2>3, <3>1, <3>2
  <2>6. CASE Retrieve
    <3>1. run.pc # "idle" /\ run'.n = run.n
      BY <1>0, <2>6, RetrieveShape DEF Retrievals, Known, Unknown, RunType
    <3> QED BY <2>3, <3>1
  <2>7. CASE Deprovision
    <3>1. run.pc # "idle" /\ run'.n = run.n
      BY <1>0, <2>7, DeprovisionShape DEF Deleting, Return, RunType
    <3> QED BY <2>3, <3>1
  <2>8. CASE Teardown \/ Crash
    <3>1. run.pc # "idle" /\ run'.n = run.n
      BY <1>0, <2>8 DEF Teardown, Crash, Idle, RunType
    <3> QED BY <2>3, <3>1
  <2>9. CASE Cancel \/ UNCHANGED vars
    BY <2>4, <2>9 DEF Cancel, vars, account
  <2> QED BY <1>2, <2>2, <2>5, <2>6, <2>7, <2>8, <2>9 DEF Next
<1> QED BY <1>1, <1>2

\* For every adapter, page size and bound: a deleting cleanup that exits with 0
\* while no run is under way has left no benchmark monitor of the fleet behind,
\* however many pages the listing has.
THEOREM CleanupIsThorough == Spec => []CleanExitMeansClean
<1>1. Init => CleanInv
  <2> SUFFICES ASSUME Init PROVE CleanInv
    OBVIOUS
  <2>1. cl.pc = "idle" /\ cl.began = 0 /\ run.n = 0
    BY DEF Init, CleanupIdle, Idle
  <2> QED BY <2>1 DEF CleanInv
<1>2. CleanInv => CleanExitMeansClean
  BY DEF CleanInv, CleanExitMeansClean, Undisturbed, Stale
<1> QED BY <1>1, <1>2, TypesHold, CleanStep, PTL DEF Spec
=============================================================================
