-------------------------- MODULE CapacityRunProofs --------------------------
(***************************************************************************)
(* Proofs about capacity runs, for every set of services, configurations,  *)
(* tables, invocations and limits, any number of invocations and faults: a *)
(* signal, a failing statement or a failing call at any moment.            *)
(*                                                                         *)
(* The lemmas first say what a plan leaves in a table, by induction on its *)
(* statements.  CapacityInv, which is inductive, then has one part per     *)
(* question: Types; Control, which services are still to be visited;       *)
(* Swept, where a row may be active while no statement has failed;         *)
(* Reported, what has been noticed of rows left active; Exact, which rows  *)
(* the window runs with; Replayed, what the replay leaves behind; Rising,  *)
(* the batches of a suite; and Read, what replay detection looked at.      *)
(*                                                                         *)
(* The first part is about the lock that keeps applied invocations apart,  *)
(* for any number of commands; CapacityRun lets them follow one another.   *)
(***************************************************************************)
EXTENDS ActiveGuard, CapacityRun, FiniteSetTheorems, SequenceTheorems, WellFoundedInduction, TLAPS

-----------------------------------------------------------------------------
(* The lock *)

\* The runs that hold the lock in the eyes of the code.
Holders == {c \in Runs : pc[c] \in {"write", "work", "release"}}

\* Only runs open, write or release the lock file, and the file is that of every
\* run that holds it: there is one at most.
LockOwned ==
    /\ \A c \in Cleanups : pc[c] \notin {"open", "write", "release"}
    /\ \A c \in Holders : lockFile = c

\* Nobody at work: the lock is one that a killed run or a failed write left.
LockExplained ==
    lockFile # Absent => lockFile \in Holders \/ \E c \in Runs : pc[c] \in {"killed", "failed"}

LEMMA GuardTypeStep ==
    ASSUME GuardTypeOK, \A c \in Cleanups : pc[c] \notin {"open", "write", "release"}, [GuardNext]_guardVars
    PROVE  GuardTypeOK' /\ \A c \in Cleanups : pc'[c] \notin {"open", "write", "release"}
<1> USE CommandsAssumption DEF GuardTypeOK, Move, Commands, Gone
<1>1. ASSUME NEW c \in Commands,
             EnsureInactive(c) \/ Open(c) \/ Write(c) \/ Work(c) \/ Release(c) \/ Kill(c)
      PROVE  GuardTypeOK' /\ \A d \in Cleanups : pc'[d] \notin {"open", "write", "release"}
  <2>1. CASE EnsureInactive(c)
    BY <2>1 DEF EnsureInactive
  <2>2. CASE Open(c)
    BY <2>2 DEF Open
  <2>3. CASE Write(c)
    BY <2>3 DEF Write
  <2>4. CASE Work(c)
    BY <2>4 DEF Work
  <2>5. CASE Release(c)
    BY <2>5 DEF Release
  <2>6. CASE Kill(c)
    BY <2>6 DEF Kill
  <2> QED BY <1>1, <2>1, <2>2, <2>3, <2>4, <2>5, <2>6
<1>2. CASE UNCHANGED guardVars
  BY <1>2 DEF guardVars
<1> QED BY <1>1, <1>2 DEF GuardNext, Terminated

\* The lock file is absent or a run's, and every command is at one of its steps.
THEOREM GuardTypeCorrect == GuardSpec => []GuardTypeOK
<1> DEFINE Inv == GuardTypeOK /\ \A c \in Cleanups : pc[c] \notin {"open", "write", "release"}
<1>1. GuardInit => Inv
  BY DEF GuardInit, GuardTypeOK, Commands
<1>2. Inv /\ [GuardNext]_guardVars => Inv'
  BY GuardTypeStep
<1> QED BY <1>1, <1>2, PTL DEF GuardSpec

LEMMA LockStep ==
    ASSUME Allow \cap Runs = {}, GuardTypeOK, LockOwned, LockExplained, [GuardNext]_guardVars
    PROVE  LockOwned' /\ LockExplained'
<1> USE CommandsAssumption DEF GuardTypeOK, Move, Commands, Gone, Holders, LockOwned, LockExplained
<1>1. ASSUME NEW c \in Commands,
             EnsureInactive(c) \/ Open(c) \/ Write(c) \/ Work(c) \/ Release(c) \/ Kill(c)
      PROVE  LockOwned' /\ LockExplained'
  <2>1. CASE EnsureInactive(c)
    BY <2>1 DEF EnsureInactive
  <2>2. CASE Open(c)
    BY <2>2 DEF Open
  <2>3. CASE Write(c)
    BY <2>3 DEF Write
  <2>4. CASE Work(c)
    BY <2>4 DEF Work
  <2>5. CASE Release(c)
    BY <2>5 DEF Release
  <2>6. CASE Kill(c)
    BY <2>6 DEF Kill
  <2> QED BY <1>1, <2>1, <2>2, <2>3, <2>4, <2>5, <2>6
<1>2. CASE UNCHANGED guardVars
  BY <1>2 DEF guardVars
<1> QED BY <1>1, <1>2 DEF GuardNext, Terminated

\* As long as no run is given the override, any number of runs and cleanups, killed
\* or failing at any step, keep to one run at a time, the lock is there while it
\* works, and a run that ends takes its lock with it.
THEOREM LockCorrect ==
    ASSUME Allow \cap Runs = {}
    PROVE  GuardSpec => []LockSound
<1>1. GuardInit => LockOwned /\ LockExplained
  BY CommandsAssumption DEF GuardInit, LockOwned, LockExplained, Holders, Commands
<1>2. GuardTypeOK /\ LockOwned /\ LockExplained /\ [GuardNext]_guardVars => (LockOwned /\ LockExplained)'
  BY LockStep
<1>3. GuardTypeOK /\ LockOwned /\ LockExplained => LockSound
  BY CommandsAssumption
     DEF GuardTypeOK, LockOwned, LockExplained, Holders, Commands, Gone,
         LockSound, OneRunAtATime, LockForDuration, NoStaleLock
<1> QED BY <1>1, <1>2, <1>3, GuardTypeCorrect, PTL DEF GuardSpec

-----------------------------------------------------------------------------
(* The parts of the inductive invariant *)

Batch == {"run-batch", "run-suite"}
Modes == Batch \cup {"none", "plan", "seed", "verify", "activate", "deactivate"}

\* Before, during and after the services are activated; up to the end of a batch.
Rising1 == {"targets", "observer", "network", "start"}
Running == {"replay", "window", "end", "finish", "detect", "snapshot", "netsnap", "stream", "endverify"}
Up == Rising1 \cup Running
After == {"prom2", "postverify", "judge"}
Visiting == {"seedcheck", "seed", "verify", "activate", "count", "partial", "deactivate", "cleanup"}
Pcs == {"idle", "suite", "prom", "batchend", "cooldown"} \cup Visiting \cup Up \cup After

Elems(q) == {q[i] : i \in DOMAIN q}

\* A table whose rows are in the reserved range of n rows.
TableOK(t, n) ==
    t \in [rows : SUBSET (0..(n - 1)), foreign : SUBSET (0..(n - 1)), active : SUBSET (0..(n - 1))]

InvocationOK(i) ==
    i \in [n : Nat, mode : Modes, apply : BOOLEAN, force : BOOLEAN, pc : Pcs,
           todo : Seq(ServiceSet), act : Seq(ServiceSet), size : Int, rest : Seq(Int),
           source : {"none", "error", "full_suite", "explicit", "state", "first_configured"},
           clean : Int, problem : Int, out : {"none", "ok", "err", "crash"}, sql : Nat,
           touched : SUBSET ServiceSet, exact : BOOLEAN]

\* A manifest has its fields, and its parts.
ManifestOK(x) ==
    /\ x \in [life : {x.life}, cleanup : {x.cleanup}, health : {x.health}, err : {x.err}, over : {x.over},
              stop : {x.stop}, parts : {x.parts}, db : {x.db}, disk : {x.disk}, got : {x.got},
              prom : {x.prom}, replayed : {x.replayed}]
    /\ x.parts \in [Parts -> {x.parts[p] : p \in Parts}]

FileOK(f) == f \in {None, Torn} \cup [kind : {"saved"}, completed : Int, clean : Int, problem : Int]

Types ==
    /\ cfg \in Configs /\ DOMAIN db = ServiceSet /\ db = [s \in ServiceSet |-> db[s]]
    /\ \A s \in ServiceSet : TableOK(db[s], cfg.count[s])
    /\ InvocationOK(inv) /\ ManifestOK(m) /\ FileOK(file)
    /\ rp = [pc |-> rp.pc, todo |-> rp.todo, plan |-> rp.plan, bad |-> rp.bad, hit |-> rp.hit]
    /\ cancelled \in BOOLEAN /\ faults \in Nat

Control ==
    /\ ~At("idle") => Validate(cfg) /\ inv.out = "none"
    /\ inv.pc \in {"seedcheck", "seed"} => inv.mode = "seed"
    /\ At("verify") => inv.mode = "verify"
    /\ inv.pc \in {"activate", "count", "partial"} => inv.mode \in Batch \cup {"activate"}
    /\ At("deactivate") => inv.mode \in Batch \cup {"deactivate"}
    /\ inv.pc \in {"suite", "cooldown"} => inv.mode = "run-suite"
    /\ inv.pc \in {"prom", "batchend", "cleanup"} \cup Up \cup After => inv.mode \in Batch
    /\ inv.pc \in Visiting => inv.todo # <<>>
    /\ inv.pc \in {"suite", "prom", "cooldown"} \cup After => inv.act = <<>>
    /\ inv.pc \in {"activate", "count"} =>
          Elems(inv.act) \subseteq cfg.dsn /\ Elems(inv.act) \cup Elems(inv.todo) = ServiceSet
    /\ At("count") => Head(inv.todo) \in Elems(inv.act)
    /\ At("partial") => \A i \in 1..(Len(inv.todo) - 1) : inv.todo[i] \in cfg.dsn
    /\ inv.pc \in {"cleanup"} \cup Up \/ (At("deactivate") /\ inv.mode \in Batch) =>
          Elems(inv.act) = ServiceSet /\ cfg.dsn = ServiceSet

\* The services that may have active rows while no statement has failed.
MayBeActive ==
    IF inv.pc \in {"activate", "count"} \cup Up THEN Elems(inv.act)
    ELSE IF inv.pc \in {"partial", "deactivate", "cleanup"} THEN Elems(inv.todo)
    ELSE {}

Swept ==
    inv.mode \in Batch /\ inv.sql = 0 /\ inv.out # "crash" =>
        \A s \in (inv.touched \cap cfg.dsn) \ MayBeActive : db[s].active = {}

Inactive == \A s \in ServiceSet : db[s].active = {}
Reported ==
    /\ At("cleanup") => m.err = TRUE
    /\ At("judge") => Inactive \/ \E h \in m.got : h.status = "fail"
    /\ At("batchend") => m.err = TRUE \/ m.health = "fail" \/ Inactive

Exact ==
    inv.sql = 0 =>
        /\ At("activate") => \A s \in Elems(inv.act) : Prefix(s, inv.size)
        /\ At("count") => /\ \A s \in Elems(inv.act) \ {Head(inv.todo)} : Prefix(s, inv.size)
                          /\ db[Head(inv.todo)].active \subseteq 0..(inv.size - 1)
        /\ inv.pc \in Rising1 \cup Running => \A s \in ServiceSet : Prefix(s, inv.size)
        /\ \/ inv.pc \in Running \cup After
           \/ At("deactivate") /\ inv.mode \in Batch
           \/ At("batchend") /\ m.err # TRUE
           => inv.exact = TRUE

\* The hosts of a plan are within the rows a service has active.
PlanOK(plan, n) ==
    \A s \in ServiceSet : /\ plan.of[s] \subseteq plan.hosts /\ plan.of[s] \subseteq Int
                          /\ \A h \in plan.of[s] : h < cfg.first[s] + n

NotYet == {"idle", "suite", "prom", "activate", "count", "partial", "seedcheck", "seed", "verify", "cooldown", "replay"}
              \cup Rising1
\* What the goroutine has done so far.
ReplayOK ==
    /\ rp.pc \in {"none", "wait", "activate", "on", "off", "done"}
    /\ rp.pc # "none" => PlanOK(rp.plan, inv.size)
    /\ rp.pc = "wait" => rp.todo = rp.plan.hosts
    /\ rp.pc = "activate" /\ rp.bad # TRUE => rp.plan.hosts \ rp.todo \subseteq rp.hit
    /\ rp.pc \in {"on", "off", "done"} /\ rp.bad # TRUE => rp.plan.hosts \subseteq rp.hit
    /\ rp.pc = "off" /\ rp.bad # TRUE => failing \cap rp.plan.hosts \subseteq rp.todo
    /\ rp.pc = "done" /\ rp.bad # TRUE => failing \cap rp.plan.hosts = {}
Replayed ==
    /\ ReplayOK
    /\ inv.pc \in NotYet \/ (At("deactivate") /\ inv.mode = "deactivate") => rp.pc = "none"
    /\ inv.pc \in {"suite", "prom", "activate", "count", "replay", "window", "end", "finish"} \cup Rising1
          => m.replayed = FALSE
    /\ At("detect") /\ m.replayed = TRUE => rp.pc = "done"
    /\ \/ inv.pc \in {"detect", "snapshot", "netsnap", "stream", "endverify"} \cup After
       \/ At("deactivate") \/ (At("batchend") /\ m.err # TRUE)
       => rp.pc = "none" \/ m.parts["replay"] = "fail" \/ (rp.pc = "done" /\ rp.bad # TRUE)

Ascending(q) == \A i \in DOMAIN q : q[i] > 0 /\ (i > 1 => q[i - 1] < q[i])
Rising ==
    inv.mode = "run-suite" /\ ~At("idle") =>
        /\ Ascending(inv.rest)
        /\ At("suite") => inv.rest # <<>>
        /\ At("cooldown") => inv.rest # <<>> /\ inv.clean < Head(inv.rest)
        /\ inv.pc \notin {"suite", "cooldown"} =>
              inv.clean < inv.size /\ (inv.rest # <<>> => inv.size < Head(inv.rest))

Read == look.kind = "detect" => At("snapshot") /\ rp.pc = "done" /\ DetectionHostsWereFailed

CapacityInv ==
    /\ Types /\ Control /\ Swept /\ Reported /\ Exact /\ Replayed /\ Rising /\ Read

-----------------------------------------------------------------------------
(* What a plan leaves in a table *)

\* A nonempty set of numbers has a least element.
LEMMA LeastNumber ==
    ASSUME NEW S \in SUBSET Nat, S # {}
    PROVE  \E x \in S : \A y \in S : x <= y
<1> DEFINE R == OpToRel(<, Nat)
<1>1. PICK x \in S : \A y \in S : ~(<<y, x>> \in R)
  <2>1. IsWellFoundedOn(R, Nat)
    BY NatLessThanWellFounded
  <2> HIDE DEF R
  <2> QED BY <2>1, WFMin
<1>2. \A y \in S : ~(y < x)
  BY <1>1 DEF OpToRel
<1> QED BY <1>2

\* What holds of the sessions before a statement leads to what holds after it:
\* then the end of the plan is as the last of these sets says.
LEMMA PlanEnds ==
    ASSUME NEW t, NEW plan, Len(plan) \in Nat, NEW faulty, NEW J,
           Session(t) \in J[0],
           \A i \in 1..Len(plan) : \A ss \in J[i - 1] : ExecStatement(ss, plan[i], faulty) \subseteq J[i]
    PROVE  ExecuteSQL(t, plan, faulty) \subseteq J[Len(plan)]
<1> DEFINE Step(S, i) == UNION {ExecStatement(ss, plan[i], faulty) : ss \in S}
           IsAfter(g, n) == g = [i \in 0..n |-> IF i = 0 THEN {Session(t)} ELSE Step(g[i - 1], i)]
<1>1. \A n \in Nat : \E g : IsAfter(g, n)
  <2> SUFFICES ASSUME {n \in Nat : ~ \E g : IsAfter(g, n)} # {} PROVE FALSE
    OBVIOUS
  <2> DEFINE Bad == {n \in Nat : ~ \E g : IsAfter(g, n)}
  <2>0. Bad \in SUBSET Nat /\ Bad # {}
    OBVIOUS
  <2>1. PICK n \in Bad : \A k \in Bad : n <= k
    <3> HIDE DEF Bad
    <3> QED BY <2>0, LeastNumber
  <2>2. CASE n = 0
    <3>1. IsAfter([i \in 0..0 |-> {Session(t)}], 0)
      <4> HIDE DEF Step
      <4> QED OBVIOUS
    <3> QED BY <2>1, <2>2, <3>1
  <2>3. CASE n # 0
    <3>1. n - 1 \in Nat /\ n - 1 \notin Bad
      <4> HIDE DEF Bad
      <4> QED BY <2>0, <2>1, <2>3
    <3>2. PICK g : IsAfter(g, n - 1)
      BY <3>1
    <3> DEFINE h == [i \in 0..n |-> IF i = n THEN Step(g[n - 1], n) ELSE g[i]]
    <3>3. IsAfter(h, n)
      <4> HIDE DEF Step
      <4>1. \A i \in 0..(n - 1) : h[i] = g[i]
        BY <2>1, <3>1
      <4>2. h[n] = Step(h[n - 1], n)
        BY <4>1, <2>1, <3>1
      <4>3. \A i \in 0..(n - 1) : h[i] = IF i = 0 THEN {Session(t)} ELSE Step(h[i - 1], i)
        <5> TAKE i \in 0..(n - 1)
        <5>1. g[i] = IF i = 0 THEN {Session(t)} ELSE Step(g[i - 1], i)
          BY <3>2, <3>1
        <5>2. i # 0 => h[i - 1] = g[i - 1]
          BY <4>1, <3>1
        <5> QED BY <5>1, <5>2, <4>1
      <4>4. h = [i \in 0..n |-> h[i]]
        OBVIOUS
      <4> HIDE DEF h
      <4>5. \A i \in 0..n : h[i] = IF i = 0 THEN {Session(t)} ELSE Step(h[i - 1], i)
        <5> TAKE i \in 0..n
        <5>1. CASE i = n
          BY <5>1, <4>2, <2>3
        <5>2. CASE i # n
          <6>1. i \in 0..(n - 1)
            BY <5>2, <2>1
          <6> QED BY <6>1, <4>3
        <5> QED BY <5>1, <5>2
      <4> QED BY <4>4, <4>5
    <3> QED BY <3>3, <2>1
  <2> QED BY <2>2, <2>3
<1> DEFINE after == CHOOSE g : IsAfter(g, Len(plan))
<1>2. IsAfter(after, Len(plan))
  BY <1>1
<1>3. ExecuteSQL(t, plan, faulty) = after[Len(plan)]
  BY DEF ExecuteSQL
<1> HIDE DEF after
<1>4. \A n \in 0..Len(plan) : after[n] \subseteq J[n]
  <2> SUFFICES ASSUME {n \in 0..Len(plan) : ~(after[n] \subseteq J[n])} # {} PROVE FALSE
    OBVIOUS
  <2> DEFINE Bad == {n \in 0..Len(plan) : ~(after[n] \subseteq J[n])}
  <2>0. Bad \in SUBSET Nat /\ Bad # {}
    OBVIOUS
  <2>1. PICK n \in Bad : \A k \in Bad : n <= k
    <3> HIDE DEF Bad
    <3> QED BY <2>0, LeastNumber
  <2>2. CASE n = 0
    <3>1. after[0] = {Session(t)}
      <4> HIDE DEF Step
      <4> QED BY <1>2
    <3> QED BY <3>1, <2>1, <2>2
  <2>3. CASE n # 0
    <3>1. n \in 1..Len(plan) /\ n - 1 \in 0..Len(plan) /\ after[n - 1] \subseteq J[n - 1]
      BY <2>1, <2>3
    <3>2. after[n] = Step(after[n - 1], n)
      <4> HIDE DEF Step
      <4> QED BY <1>2, <3>1
    <3>3. Step(after[n - 1], n) \subseteq J[n]
      BY <3>1
    <3> QED BY <3>2, <3>3, <2>1
  <2> QED BY <2>2, <2>3
<1> QED BY <1>3, <1>4

\* The sessions over a reserved range of n rows, and the statements that keep
\* to it.
Tabs(n) == [rows : SUBSET (0..(n - 1)), foreign : SUBSET (0..(n - 1)), active : SUBSET (0..(n - 1))]
Sessions(n) == [com : Tabs(n), work : Tabs(n), tx : BOOLEAN, ok : BOOLEAN, hit : BOOLEAN]
Ops == {"begin", "commit", "pause", "side", "clear", "set", "delete", "insert"}
StatementOK(st, n) ==
    st \in [op : Ops, from : Int, to : Int] /\ (st.op = "insert" => Span(st) \subseteq 0..(n - 1))
PlanOver(plan, n) == Len(plan) \in Nat /\ \A i \in 1..Len(plan) : StatementOK(plan[i], n)

\* A statement changes rows of the reserved range only.
LEMMA ChangeKeepsRange ==
    ASSUME NEW n, NEW t \in Tabs(n), NEW st, StatementOK(st, n)
    PROVE  Change(t, st) \in Tabs(n)
<1> DEFINE R == 0..(n - 1)
<1>1. t.rows \subseteq R /\ t.foreign \subseteq R /\ t.active \subseteq R
  BY DEF Tabs
<1>2. st.op \in Ops
  BY DEF StatementOK
<1>3. CASE st.op = "clear"
  BY <1>1, <1>3 DEF Change, Tabs
<1>4. CASE st.op = "set"
  BY <1>1, <1>4 DEF Change, Tabs
<1>5. CASE st.op = "delete"
  BY <1>1, <1>5 DEF Change, Tabs, Table
<1>6. CASE st.op = "insert"
  BY <1>1, <1>6 DEF Change, Tabs, StatementOK
<1>7. CASE st.op \in {"begin", "commit", "pause", "side"}
  BY <1>7 DEF Change
<1> QED BY <1>2, <1>3, <1>4, <1>5, <1>6, <1>7 DEF Ops

\* So does a statement that succeeds, inside a transaction or not.
LEMMA RunKeepsRange ==
    ASSUME NEW n, NEW ss \in Sessions(n), NEW st, StatementOK(st, n)
    PROVE  Run1(ss, st) \in Sessions(n) /\ Run1(ss, st).hit = ss.hit
<1>1. ss.work \in Tabs(n) /\ ss.com \in Tabs(n)
  BY DEF Sessions
<1>2. Change(ss.work, st) \in Tabs(n)
  BY <1>1, ChangeKeepsRange
<1> QED BY <1>1, <1>2 DEF Run1, Closed, Sessions

\* And one that fails, or whose transaction is rolled back by a deadlock.
LEMMA StatementKeepsRange ==
    ASSUME NEW n, NEW ss \in Sessions(n), NEW st, StatementOK(st, n), NEW faulty
    PROVE  ExecStatement(ss, st, faulty) \subseteq Sessions(n)
<1>1. Run1(ss, st) \in Sessions(n)
  BY RunKeepsRange
<1>2. \A x \in Sessions(n) : [Closed(x) EXCEPT !.hit = TRUE] \in Sessions(n)
  BY DEF Closed, Sessions
<1>3. [ss EXCEPT !.work = ss.com, !.tx = FALSE, !.hit = TRUE] \in Sessions(n)
  BY DEF Sessions
<1>4. Retried(ss, st) \in Sessions(n)
  BY <1>3, RunKeepsRange DEF Retried
<1> QED BY <1>1, <1>2, <1>4 DEF ExecStatement

\* A statement nothing has happened to is the statement as it was written.
LEMMA NothingHit ==
    ASSUME NEW n, NEW ss \in Sessions(n), NEW st, StatementOK(st, n), NEW faulty,
           NEW r \in ExecStatement(ss, st, faulty), r.hit = FALSE
    PROVE  ss.hit = FALSE /\ (ss.ok = TRUE => r = Run1(ss, st))
<1>1. Run1(ss, st).hit = ss.hit
  BY RunKeepsRange
<1>2. \A x \in Sessions(n) : [Closed(x) EXCEPT !.hit = TRUE].hit = TRUE
  BY DEF Closed, Sessions
<1>3. Run1(ss, st) \in Sessions(n)
  BY RunKeepsRange
<1>4. Retried(ss, st).hit = TRUE
  <2>1. [ss EXCEPT !.work = ss.com, !.tx = FALSE, !.hit = TRUE] \in Sessions(n)
    BY DEF Sessions
  <2>2. [ss EXCEPT !.work = ss.com, !.tx = FALSE, !.hit = TRUE].hit = TRUE
    BY DEF Sessions
  <2> QED BY <2>1, <2>2, RunKeepsRange DEF Retried
<1>5. r \in {ss, Run1(ss, st), [Closed(ss) EXCEPT !.hit = TRUE], [Closed(Run1(ss, st)) EXCEPT !.hit = TRUE],
             Retried(ss, st)}
  BY DEF ExecStatement
<1>6. r \in {ss, Run1(ss, st)}
  BY <1>2, <1>3, <1>4, <1>5
<1>7. ss.ok = TRUE => r = Run1(ss, st)
  <2> SUFFICES ASSUME ss.ok = TRUE PROVE r = Run1(ss, st)
    OBVIOUS
  <2>1. r \in {Run1(ss, st), [Closed(ss) EXCEPT !.hit = TRUE], [Closed(Run1(ss, st)) EXCEPT !.hit = TRUE],
               Retried(ss, st)}
    BY DEF ExecStatement
  <2> QED BY <1>2, <1>3, <1>4, <2>1
<1> QED BY <1>1, <1>6, <1>7

\* A session begins with the committed table.
LEMMA SessionOK ==
    ASSUME NEW n, NEW t, TableOK(t, n)
    PROVE  Session(t) \in Sessions(n)
BY DEF TableOK, Session, Sessions, Tabs

\* Hence a whole plan, whatever happens to its statements.
LEMMA PlanKeepsRange ==
    ASSUME NEW n, NEW t, TableOK(t, n), NEW plan, PlanOver(plan, n), NEW faulty
    PROVE  ExecuteSQL(t, plan, faulty) \subseteq Sessions(n)
<1> DEFINE J == [i \in 0..Len(plan) |-> Sessions(n)]
<1>1. Len(plan) \in Nat /\ \A i \in 1..Len(plan) : StatementOK(plan[i], n)
  BY DEF PlanOver
<1>2. \A i \in 0..Len(plan) : J[i] = Sessions(n)
  OBVIOUS
<1> HIDE DEF J
<1>3. Session(t) \in J[0]
  BY <1>1, <1>2, SessionOK
<1>4. \A i \in 1..Len(plan) : \A ss \in J[i - 1] : ExecStatement(ss, plan[i], faulty) \subseteq J[i]
  <2> TAKE i \in 1..Len(plan)
  <2>1. J[i] = Sessions(n) /\ J[i - 1] = Sessions(n) /\ StatementOK(plan[i], n)
    BY <1>1, <1>2
  <2> QED BY <2>1, StatementKeepsRange
<1>5. ExecuteSQL(t, plan, faulty) \subseteq J[Len(plan)]
  BY <1>1, <1>3, <1>4, PlanEnds
<1> QED BY <1>1, <1>2, <1>5

\* A plan that clears the range, then activates rows of K at most, and
\* commits: unless something happened to it, it worked and no other row is
\* active.
Activating(plan, n, K) ==
    /\ plan[Len(plan)] = Commit
    /\ \A i \in 1..Len(plan) : plan[i].op \notin {"insert", "delete"}
    /\ \E c \in 1..(Len(plan) - 1) :
          /\ plan[c] = Stmt("clear", 0, n)
          /\ \A i \in (c + 1)..Len(plan) : plan[i].op = "set" => Span(plan[i]) \subseteq K

\* If nothing failed, the plan's last update of the active flags is committed.
LEMMA UntouchedPlan ==
    ASSUME NEW n, NEW t, TableOK(t, n), NEW plan, PlanOver(plan, n), NEW faulty, NEW K, Activating(plan, n, K),
           NEW r \in ExecuteSQL(t, plan, faulty), r.hit = FALSE
    PROVE  r.ok = TRUE /\ r.com.active \subseteq K
<1>0. Len(plan) \in Nat /\ \A i \in 1..Len(plan) : StatementOK(plan[i], n)
  BY DEF PlanOver
<1>1. PICK c \in 1..(Len(plan) - 1) :
          /\ plan[c] = Stmt("clear", 0, n)
          /\ \A i \in (c + 1)..Len(plan) : plan[i].op = "set" => Span(plan[i]) \subseteq K
  BY DEF Activating
<1> DEFINE L == Len(plan)
           Calm(ss, i) == ss.hit = FALSE => /\ ss.ok = TRUE
                                            /\ i >= c => ss.work.active \subseteq K
                                            /\ i = L => ss.com.active \subseteq K
           J == [i \in 0..L |-> {ss \in Sessions(n) : Calm(ss, i)}]
<1>2. \A i \in 0..L : J[i] = {ss \in Sessions(n) : Calm(ss, i)}
  OBVIOUS
<1>3. Session(t) \in J[0]
  <2>1. Session(t) \in Sessions(n)
    BY SessionOK
  <2>2. Session(t).ok = TRUE
    BY DEF Session
  <2>3. L # 0 /\ ~(0 >= c) /\ 0 \in 0..L
    BY <1>0, <1>1
  <2> QED BY <2>1, <2>2, <2>3, <1>2
<1> HIDE DEF J
<1>4. \A i \in 1..L : \A ss \in J[i - 1] : ExecStatement(ss, plan[i], faulty) \subseteq J[i]
  <2> SUFFICES ASSUME NEW i \in 1..L, NEW ss \in J[i - 1], NEW q \in ExecStatement(ss, plan[i], faulty)
               PROVE  q \in J[i]
    OBVIOUS
  <2>1. ss \in Sessions(n) /\ Calm(ss, i - 1) /\ StatementOK(plan[i], n) /\ i \in 0..L
    BY <1>0, <1>2
  <2>2. q \in Sessions(n)
    BY <2>1, StatementKeepsRange
  <2>3. ASSUME q.hit = FALSE
        PROVE  /\ q.ok = TRUE
               /\ i >= c => q.work.active \subseteq K
               /\ i = L => q.com.active \subseteq K
    <3>1. ss.hit = FALSE /\ ss.ok = TRUE /\ q = Run1(ss, plan[i])
      BY <2>1, <2>3, NothingHit
    <3>2. plan[i].op \notin {"insert", "delete"} /\ plan[i].op \in Ops
      BY <2>1 DEF Activating, StatementOK
    <3>3. ss.work \in Tabs(n) /\ i \in Int /\ c \in Int /\ L \in Int
      BY <2>1, <1>0, <1>1 DEF Sessions
    <3>4. q.ok = TRUE /\ q.work = IF plan[i].op \in {"begin", "commit"} THEN ss.work ELSE Change(ss.work, plan[i])
      BY <3>1, <3>2, <2>1 DEF Run1, Sessions
    <3>5. CASE i = c
      <4>1. plan[i].op = "clear" /\ Span(plan[i]) = 0..(n - 1)
        BY <3>5, <1>1 DEF Stmt, Span
      <4>2. q.work.active = ss.work.active \ 0..(n - 1)
        BY <3>4, <3>3, <4>1 DEF Change, Tabs
      <4>3. q.work.active = {}
        BY <4>2, <3>3 DEF Tabs
      <4> QED BY <3>4, <4>3, <3>5, <1>1, <1>0
    <3>6. CASE i < c
      BY <3>4, <3>6, <3>3, <1>1, <1>0
    <3>7. CASE i > c
      <4>1. ss.work.active \subseteq K
        BY <2>1, <3>1, <3>3, <3>7
      <4>2. i \in (c + 1)..L
        BY <3>7, <3>3
      <4>3. q.work.active \subseteq K
        <5>1. CASE plan[i].op = "set"
          <6>1. Span(plan[i]) \subseteq K
            BY <4>2, <1>1, <5>1
          <6> QED BY <6>1, <5>1, <4>1, <3>4, <3>3 DEF Change, Tabs
        <5>2. CASE plan[i].op = "clear"
          BY <5>2, <4>1, <3>4, <3>3 DEF Change, Tabs
        <5>3. CASE plan[i].op \in {"begin", "commit", "pause", "side"}
          BY <5>3, <4>1, <3>4, <3>3 DEF Change
        <5> QED BY <5>1, <5>2, <5>3, <3>2 DEF Ops
      <4>4. i = L => q.com.active \subseteq K
        <5> SUFFICES ASSUME i = L PROVE q.com.active \subseteq K
          OBVIOUS
        <5>1. plan[i].op = "commit"
          BY DEF Activating, Commit, Stmt
        <5>2. q.com = ss.work
          BY <5>1, <3>1, <2>1 DEF Run1, Sessions
        <5> QED BY <5>2, <4>1
      <4> QED BY <3>4, <4>3, <4>4
    <3>8. i = c \/ i < c \/ i > c
      BY <3>3
    <3> QED BY <3>5, <3>6, <3>7, <3>8
  <2>4. Calm(q, i)
    BY <2>3
  <2> HIDE DEF Calm
  <2> QED BY <1>2, <2>1, <2>2, <2>4
<1>5. ExecuteSQL(t, plan, faulty) \subseteq J[L]
  BY <1>0, <1>3, <1>4, PlanEnds
<1>6. Calm(r, L)
  BY <1>5, <1>2, <1>0
<1> QED BY <1>6, <1>0, <1>1

-----------------------------------------------------------------------------
(* The plans *)

\* The statements of the plans are within the range.
LEMMA StatementsOK ==
    ASSUME NEW n \in Int, NEW k \in Int
    PROVE  /\ StatementOK(Begin, n) /\ StatementOK(Commit, n) /\ StatementOK(Pause, n) /\ StatementOK(Side, n)
           /\ StatementOK(Stmt("clear", 0, k), n) /\ StatementOK(Stmt("set", 0, k), n)
           /\ StatementOK(Stmt("delete", 0, k), n)
BY DEF StatementOK, Begin, Commit, Pause, Side, Stmt, Ops

\* The deactivate plan leaves no row active.
LEMMA DeactivatePlan ==
    ASSUME NEW c, NEW s, c.count[s] \in Int
    PROVE  /\ PlanOver(WriteDeactivateSQL(c, s), c.count[s])
           /\ Activating(WriteDeactivateSQL(c, s), c.count[s], {})
<1> DEFINE n == c.count[s]
           clear == Stmt("clear", 0, n)
           p == WriteDeactivateSQL(c, s)
<1>1. /\ Len(p) = IF V2(s) THEN 12 ELSE 3
      /\ p[2] = clear /\ p[Len(p)] = Commit
      /\ \A i \in 1..Len(p) : p[i] \in {Begin, clear, Side, Commit, Pause}
  <2>1. CASE V2(s)
    BY <2>1 DEF WriteDeactivateSQL, SetRangeActive, Sidecars, CloseOpenEvents
  <2>2. CASE ~V2(s)
    BY <2>2 DEF WriteDeactivateSQL, SetRangeActive, Sidecars, CloseOpenEvents
  <2> QED BY <2>1, <2>2
<1> HIDE DEF p
<1>2. PlanOver(p, n)
  BY <1>1, StatementsOK DEF PlanOver
<1>3. \A i \in 1..Len(p) : p[i].op \notin {"insert", "delete", "set"}
  BY <1>1 DEF Begin, Side, Commit, Pause, Stmt
<1>4. Activating(p, n, {})
  BY <1>1, <1>3 DEF Activating
<1> QED BY <1>2, <1>4 DEF p

\* The activate plan leaves at most the first k rows active.
LEMMA ActivatePlan ==
    ASSUME NEW c, NEW s, c.count[s] \in Int, NEW k \in Int
    PROVE  /\ PlanOver(WriteActivateSQL(c, s, k), c.count[s])
           /\ Activating(WriteActivateSQL(c, s, k), c.count[s], 0..(k - 1))
<1> DEFINE n == c.count[s]
           clear == Stmt("clear", 0, n)
           set == Stmt("set", 0, k)
           p == WriteActivateSQL(c, s, k)
           at == IF V2(s) THEN 3 ELSE 2
<1>1. /\ Len(p) = IF V2(s) THEN 7 ELSE 4
      /\ p[at] = clear /\ p[Len(p)] = Commit
      /\ \A i \in 1..Len(p) : p[i] \in {Begin, clear, set, Side, Commit}
  <2>1. CASE V2(s)
    BY <2>1 DEF WriteActivateSQL, SetRangeActive, Sidecars, CloseOpenEvents
  <2>2. CASE ~V2(s)
    BY <2>2 DEF WriteActivateSQL, SetRangeActive, Sidecars, CloseOpenEvents
  <2> QED BY <2>1, <2>2
<1> HIDE DEF p
<1>2. PlanOver(p, n)
  BY <1>1, StatementsOK DEF PlanOver
<1>3. \A i \in 1..Len(p) : p[i].op \notin {"insert", "delete"} /\ (p[i].op = "set" => Span(p[i]) = 0..(k - 1))
  BY <1>1 DEF Begin, Side, Commit, Pause, Stmt, Span
<1>4. Activating(p, n, 0..(k - 1))
  <2>1. at \in 1..(Len(p) - 1)
    BY <1>1
  <2>2. \A i \in (at + 1)..Len(p) : i \in 1..Len(p)
    BY <1>1
  <2> QED BY <1>1, <1>3, <2>1, <2>2 DEF Activating
<1> QED BY <1>2, <1>4 DEF p

\* The seed plan stays within the range; of its flags nothing is needed.
LEMMA SeedPlan ==
    ASSUME NEW c, NEW s, c.count[s] \in Int, c.batch \in Int, c.count[s] > 0, c.batch > 0
    PROVE  PlanOver(WriteSeedSQL(c, s), c.count[s])
<1> DEFINE n == c.count[s]
           k == (n + c.batch - 1) \div c.batch
           inserts == [i \in 1..k |-> InsertBatch(c, s, i)]
           St == {x \in [op : Ops, from : Int, to : Int] : StatementOK(x, n)}
<1>1. k \in Nat
  <2> SUFFICES ASSUME NEW x \in Nat, NEW y \in Nat, y > 0 PROVE x \div y \in Nat
    OBVIOUS
  <2> QED OBVIOUS
<1>2. \A i \in 1..k : InsertBatch(c, s, i) \in St
  <2> TAKE i \in 1..k
  <2>1. (i - 1) * c.batch \in Nat /\ i * c.batch \in Int
    <3> SUFFICES ASSUME NEW x \in Nat, NEW y \in Nat PROVE x * y \in Nat
      BY <1>1
    <3> QED OBVIOUS
  <2>2. PICK f \in Nat, to \in Int : InsertBatch(c, s, i) = [op |-> "insert", from |-> f, to |-> to] /\ to <= n
    BY <2>1 DEF InsertBatch, Stmt
  <2> QED BY <2>2 DEF StatementOK, Span, Ops
<1> HIDE DEF k
<1>3. inserts \in Seq(St)
  BY <1>1, <1>2
<1>4. <<Begin>> \in Seq(St) /\ Sidecars(s) \in Seq(St) /\ <<Stmt("delete", 0, n)>> \in Seq(St) /\ <<Commit>> \in Seq(St)
  <2>1. Begin \in St /\ Side \in St /\ Commit \in St /\ Stmt("delete", 0, n) \in St
    BY StatementsOK DEF StatementOK
  <2> HIDE DEF St
  <2> QED BY <2>1 DEF Sidecars
<1>5. WriteSeedSQL(c, s) = <<Begin>> \o Sidecars(s) \o <<Stmt("delete", 0, n)>> \o inserts \o <<Commit>>
  BY DEF WriteSeedSQL, k
<1> HIDE DEF inserts
<1>6. WriteSeedSQL(c, s) \in Seq(St)
  <2> HIDE DEF St
  <2> QED BY <1>3, <1>4, <1>5
<1>7. Len(WriteSeedSQL(c, s)) \in Nat /\ \A i \in 1..Len(WriteSeedSQL(c, s)) : WriteSeedSQL(c, s)[i] \in St
  <2> HIDE DEF St
  <2> QED BY <1>6
<1> QED BY <1>7 DEF PlanOver

-----------------------------------------------------------------------------
(* What executing a plan does to the invocation *)

Counted(i, hit) == IF hit THEN [i EXCEPT !.sql = @ + 1] ELSE i

\* A statement that failed is counted; a plan that worked went to a service
\* with a DSN, and one no statement of which failed left only rows of K.  Under
\* a context of its own such a plan works.
Outcome(s, fresh, K, next, err, t, ok, hit) ==
    /\ TableOK(t, cfg.count[s]) /\ db' = [db EXCEPT ![s] = t]
    /\ inv' = Counted(IF ok THEN next ELSE err, hit) /\ InvocationOK(inv')
    /\ faults' \in Nat /\ cancelled' \in BOOLEAN
    /\ ok => s \in cfg.dsn
    /\ ok /\ ~hit => t.active \subseteq K
    /\ fresh /\ ~hit /\ s \in cfg.dsn => ok
Executes(s, fresh, K, next, err) ==
    \E t : \E ok, hit \in BOOLEAN : Outcome(s, fresh, K, next, err, t, ok, hit)

\* A failed statement is counted, nothing else of the invocation changes.
LEMMA CountedOK ==
    ASSUME NEW i, InvocationOK(i), NEW hit \in BOOLEAN
    PROVE  /\ InvocationOK(Counted(i, hit))
           /\ [i EXCEPT !.sql = IF hit THEN @ + 1 ELSE @] = Counted(i, hit)
<1>1. i.sql \in Nat
  BY DEF InvocationOK
<1>2. i = [i EXCEPT !.sql = i.sql]
  BY DEF InvocationOK
<1>3. [i EXCEPT !.sql = i.sql + 1] \in [n : Nat, mode : Modes, apply : BOOLEAN, force : BOOLEAN, pc : Pcs,
           todo : Seq(ServiceSet), act : Seq(ServiceSet), size : Int, rest : Seq(Int),
           source : {"none", "error", "full_suite", "explicit", "state", "first_configured"},
           clean : Int, problem : Int, out : {"none", "ok", "err", "crash"}, sql : Nat,
           touched : SUBSET ServiceSet, exact : BOOLEAN]
  BY <1>1 DEF InvocationOK
<1>4. InvocationOK([i EXCEPT !.sql = i.sql + 1])
  BY <1>3 DEF InvocationOK
<1>5. CASE hit = TRUE
  BY <1>4, <1>5 DEF Counted
<1>6. CASE hit = FALSE
  BY <1>2, <1>6 DEF Counted
<1> QED BY <1>5, <1>6

\* Executing a plan on one service: the table it leaves, and what comes next.
LEMMA ExecDoes ==
    ASSUME Types, NEW s \in ServiceSet, NEW plan, PlanOver(plan, cfg.count[s]), NEW fresh \in BOOLEAN,
           NEW next, InvocationOK(next), NEW err, InvocationOK(err),
           NEW K, Activating(plan, cfg.count[s], K) \/ K = Int, Exec(s, plan, fresh, next, err)
    PROVE  \/ Executes(s, fresh, K, next, err)
           \/ K = Int /\ Executes(s, FALSE, K, next, err)
<1> DEFINE n == cfg.count[s]
           how == fresh /\ Activating(plan, n, K)
<1>0. TableOK(db[s], n) /\ faults \in Nat /\ cancelled \in BOOLEAN
  BY DEF Types
<1> SUFFICES Executes(s, how, K, next, err)
  <2>1. CASE Activating(plan, n, K)
    <3>1. how = fresh
      BY <2>1
    <3> QED BY <3>1
  <2>2. CASE ~Activating(plan, n, K)
    <3>1. how = FALSE /\ K = Int
      BY <2>2
    <3> QED BY <3>1
  <2> QED BY <2>1, <2>2
<1>1. ASSUME NEW faulty, NEW r \in ExecuteSQL(db[s], plan, faulty)
      PROVE  /\ TableOK(r.com, n) /\ r.ok \in BOOLEAN /\ r.hit \in BOOLEAN
             /\ r.hit = FALSE => r.com.active \subseteq K
             /\ how /\ r.hit = FALSE => r.ok = TRUE
  <2>1. r \in Sessions(n)
    BY <1>0, <1>1, PlanKeepsRange
  <2>2. TableOK(r.com, n) /\ r.ok \in BOOLEAN /\ r.hit \in BOOLEAN
    BY <2>1 DEF Sessions, Tabs, TableOK
  <2>3. CASE Activating(plan, n, K)
    <3>1. r.hit = FALSE => r.ok = TRUE /\ r.com.active \subseteq K
      BY <1>0, <1>1, <2>3, UntouchedPlan
    <3> QED BY <2>2, <3>1
  <2>4. CASE ~Activating(plan, n, K)
    <3>1. K = Int /\ r.com.active \subseteq Int
      BY <2>2, <2>4 DEF TableOK
    <3> QED BY <2>2, <2>4, <3>1
  <2> QED BY <2>3, <2>4
<1>2. ASSUME NEW r \in Executed(s, plan, fresh),
             db' = [db EXCEPT ![s] = r.com],
             faults' = IF r.hit THEN faults + 1 ELSE faults,
             inv' = [(IF r.ok THEN next ELSE err) EXCEPT !.sql = IF r.hit THEN @ + 1 ELSE @],
             UNCHANGED cancelled
      PROVE  Executes(s, how, K, next, err)
  <2>0. CASE r \in NotWritten(s)
    <3>1. r = [Session(db[s]) EXCEPT !.ok = FALSE, !.hit = TRUE]
      BY <2>0 DEF NotWritten
    <3>2. r.ok = FALSE /\ r.hit = TRUE /\ r.com = db[s]
      BY <3>1 DEF Session
    <3>3. inv' = Counted(err, TRUE) /\ InvocationOK(inv')
      <4>1. inv' = [err EXCEPT !.sql = IF TRUE THEN @ + 1 ELSE @]
        BY <1>2, <3>2
      <4> QED BY <4>1, CountedOK
    <3>4. faults' \in Nat /\ cancelled' \in BOOLEAN /\ db' = [db EXCEPT ![s] = db[s]]
      BY <1>0, <1>2, <3>2
    <3> HIDE DEF how
    <3>5. Outcome(s, how, K, next, err, db[s], FALSE, TRUE)
      BY <1>0, <3>3, <3>4, Zenon DEF Outcome
    <3> QED BY <3>5 DEF Executes
  <2>1. CASE r \notin NotWritten(s) /\ (s \notin cfg.dsn \/ (cancelled /\ ~fresh))
    <3>1. r = [Session(db[s]) EXCEPT !.ok = FALSE]
      BY <2>1 DEF Executed
    <3>2. r.ok = FALSE /\ r.hit = FALSE /\ r.com = db[s]
      BY <3>1 DEF Session
    <3>3. inv' = Counted(err, FALSE) /\ InvocationOK(inv')
      <4>1. inv' = [err EXCEPT !.sql = IF FALSE THEN @ + 1 ELSE @]
        BY <1>2, <3>2
      <4> QED BY <4>1, CountedOK
    <3>4. Outcome(s, how, K, next, err, db[s], FALSE, FALSE)
      BY <1>0, <1>2, <2>1, <3>2, <3>3 DEF Outcome
    <3> QED BY <3>4 DEF Executes
  <2>2. CASE r \notin NotWritten(s) /\ ~(s \notin cfg.dsn \/ (cancelled /\ ~fresh))
    <3>1. r \in ExecuteSQL(db[s], plan, faults < MaxFaults)
      BY <1>2, <2>2 DEF Executed
    <3>2. /\ TableOK(r.com, n) /\ r.ok \in BOOLEAN /\ r.hit \in BOOLEAN
          /\ r.hit = FALSE => r.com.active \subseteq K
          /\ how /\ r.hit = FALSE => r.ok = TRUE
      BY <3>1, <1>1
    <3>3. inv' = Counted(IF r.ok THEN next ELSE err, r.hit) /\ InvocationOK(inv')
      <4> DEFINE i == IF r.ok THEN next ELSE err
      <4>1. InvocationOK(i)
        BY <3>2
      <4>2. inv' = [i EXCEPT !.sql = IF r.hit THEN @ + 1 ELSE @]
        BY <1>2
      <4> HIDE DEF i
      <4>3. PICK hit \in BOOLEAN : hit = r.hit
        BY <3>2
      <4>4. InvocationOK(Counted(i, hit)) /\ [i EXCEPT !.sql = IF hit THEN @ + 1 ELSE @] = Counted(i, hit)
        BY <4>1, CountedOK
      <4>5. inv' = Counted(i, r.hit) /\ InvocationOK(inv')
        BY <4>2, <4>3, <4>4
      <4> QED BY <4>5 DEF i
    <3>4. faults' \in Nat
      BY <1>0, <1>2
    <3> HIDE DEF how
    <3>5. Outcome(s, how, K, next, err, r.com, r.ok, r.hit)
      BY <1>0, <1>2, <2>2, <3>2, <3>3, <3>4 DEF Outcome
    <3> QED BY <3>2, <3>5 DEF Executes
  <2> QED BY <2>0, <2>1, <2>2
<1>3. ASSUME NEW r \in Interrupted(s, plan, fresh),
             db' = [db EXCEPT ![s] = r.com], inv' = err, cancelled' = TRUE, UNCHANGED faults
      PROVE  Executes(s, how, K, next, err)
  <2>1. fresh = FALSE /\ r \in ExecuteSQL(db[s], plan, TRUE)
    BY <1>3 DEF Interrupted
  <2>2. TableOK(r.com, n) /\ how = FALSE
    BY <2>1, <1>1
  <2>3. inv' = Counted(err, FALSE) /\ InvocationOK(inv')
    BY <1>3 DEF Counted
  <2> HIDE DEF how
  <2>4. Outcome(s, how, K, next, err, r.com, FALSE, FALSE)
    BY <1>0, <1>3, <2>2, <2>3 DEF Outcome
  <2> QED BY <2>4 DEF Executes
<1> QED BY <1>2, <1>3 DEF Exec

-----------------------------------------------------------------------------
(* How an invocation moves *)

\* The list of services has every service.
LEMMA ServicesOK == Services \in Seq(ServiceSet) /\ Services # <<>> /\ Elems(Services) = ServiceSet
<1>1. Elems(Services) = ServiceSet
  BY DEF Elems, ServiceSet
<1>2. Services \in Seq(ServiceSet)
  <2>1. /\ Len(Services) \in Nat /\ DOMAIN Services = 1..Len(Services)
        /\ Services = [i \in 1..Len(Services) |-> Services[i]]
    BY CapacityAssumption
  <2>2. \A i \in 1..Len(Services) : Services[i] \in ServiceSet
    BY <2>1 DEF ServiceSet
  <2> DEFINE f == [i \in 1..Len(Services) |-> Services[i]]
  <2>3. f \in Seq(ServiceSet) /\ Services = f
    BY <2>1, <2>2
  <2> HIDE DEF f
  <2> QED BY <2>3
<1> QED BY <1>1, <1>2, CapacityAssumption

\* Head, tail and members of a list of services.
LEMMA ElemsOf ==
    ASSUME NEW S, NEW q \in Seq(S)
    PROVE  /\ Elems(q) \subseteq S
           /\ q = <<>> => Elems(q) = {}
           /\ q # <<>> => /\ Head(q) \in S /\ Head(q) = q[1] /\ Tail(q) \in Seq(S) /\ Len(q) \in Nat /\ Len(q) > 0
                          /\ Elems(q) = {Head(q)} \cup Elems(Tail(q))
                          /\ Len(q) = 1 => Elems(q) = {Head(q)}
                          /\ Len(q) # 1 => Tail(q) # <<>>
                          /\ Len(Tail(q)) = Len(q) - 1
                          /\ \A i \in 1..Len(Tail(q)) : Tail(q)[i] = q[i + 1]
<1>1. Elems(q) \subseteq S /\ (q = <<>> => Elems(q) = {})
  BY DEF Elems
<1>2. ASSUME q # <<>>
      PROVE  /\ Head(q) \in S /\ Head(q) = q[1] /\ Tail(q) \in Seq(S) /\ Len(q) \in Nat /\ Len(q) > 0
             /\ Len(q) # 1 => Tail(q) # <<>>
             /\ Len(Tail(q)) = Len(q) - 1
             /\ \A i \in 1..Len(Tail(q)) : Tail(q)[i] = q[i + 1]
  <2>1. /\ Head(q) \in S /\ Tail(q) \in Seq(S) /\ Len(Tail(q)) = Len(q) - 1
        /\ \A i \in 1..Len(Tail(q)) : Tail(q)[i] = q[i + 1]
    BY <1>2, HeadTailProperties
  <2>2. Len(q) \in Nat /\ Len(q) > 0 /\ Head(q) = q[1]
    BY <1>2, EmptySeq
  <2>3. Len(q) # 1 => Len(Tail(q)) # 0
    BY <2>1, <2>2
  <2> QED BY <2>1, <2>2, <2>3, EmptySeq
<1>3. ASSUME q # <<>>
      PROVE  Elems(q) = {Head(q)} \cup Elems(Tail(q)) /\ (Len(q) = 1 => Elems(q) = {Head(q)})
  <2>1. \A x : x \in Elems(q) <=> \E i \in 1..Len(q) : x = q[i]
    BY DEF Elems
  <2>2. \A x : x \in Elems(Tail(q)) <=> \E i \in 1..Len(Tail(q)) : x = Tail(q)[i]
    BY <1>2, <1>3 DEF Elems
  <2>3. \A i \in 1..Len(q) : i = 1 \/ (i - 1 \in 1..Len(Tail(q)) /\ q[i] = Tail(q)[i - 1])
    BY <1>2, <1>3
  <2>4. \A i \in 1..Len(Tail(q)) : i + 1 \in 1..Len(q) /\ Tail(q)[i] = q[i + 1]
    BY <1>2, <1>3
  <2>5. 1 \in 1..Len(q)
    BY <1>2, <1>3
  <2>6. \A x \in Elems(q) : x \in {Head(q)} \cup Elems(Tail(q))
    BY <2>1, <2>2, <2>3, <1>2, <1>3
  <2>7. \A x \in {Head(q)} \cup Elems(Tail(q)) : x \in Elems(q)
    BY <2>1, <2>2, <2>4, <2>5, <1>2, <1>3
  <2>8. Len(q) = 1 => Elems(q) = {Head(q)}
    BY <2>1, <2>5, <1>2, <1>3
  <2> QED BY <2>6, <2>7, <2>8
<1> QED BY <1>1, <1>2, <1>3

\* Members of a list that grew by one service.
LEMMA ElemsAppend ==
    ASSUME NEW S, NEW q \in Seq(S), NEW x \in S
    PROVE  /\ Append(q, x) \in Seq(S) /\ Append(q, x) # <<>> /\ Elems(Append(q, x)) = Elems(q) \cup {x}
           /\ \A i \in 1..(Len(Append(q, x)) - 1) : Append(q, x)[i] \in Elems(q)
<1>1. /\ Append(q, x) \in Seq(S) /\ Len(Append(q, x)) = Len(q) + 1 /\ Append(q, x)[Len(q) + 1] = x
      /\ \A i \in 1..Len(q) : Append(q, x)[i] = q[i]
  OBVIOUS
<1>2. Elems(Append(q, x)) = Elems(q) \cup {x}
  <2>1. \A y : y \in Elems(q) <=> \E i \in 1..Len(q) : y = q[i]
    BY DEF Elems
  <2>2. \A y : y \in Elems(Append(q, x)) <=> \E i \in 1..(Len(q) + 1) : y = Append(q, x)[i]
    BY <1>1 DEF Elems
  <2>3. \A i \in 1..(Len(q) + 1) : i \in 1..Len(q) \/ i = Len(q) + 1
    OBVIOUS
  <2>4. \A i \in 1..Len(q) : i \in 1..(Len(q) + 1)
    OBVIOUS
  <2>5. Len(q) + 1 \in 1..(Len(q) + 1)
    OBVIOUS
  <2>6. \A y \in Elems(Append(q, x)) : y \in Elems(q) \cup {x}
    BY <1>1, <2>1, <2>2, <2>3
  <2>7. \A y \in Elems(q) \cup {x} : y \in Elems(Append(q, x))
    BY <1>1, <2>1, <2>2, <2>4, <2>5
  <2> QED BY <2>6, <2>7
<1>3. \A i \in 1..(Len(Append(q, x)) - 1) : Append(q, x)[i] \in Elems(q)
  BY <1>1 DEF Elems
<1> QED BY <1>1, <1>2, <1>3

\* From i to j the place, the services to visit and the activated ones change.
Same(i, j) ==
    /\ j.mode = i.mode /\ j.size = i.size /\ j.clean = i.clean /\ j.rest = i.rest
    /\ j.sql = i.sql /\ j.touched = i.touched /\ j.exact = i.exact /\ j.out = i.out
Moved(i, j, p, q, a) == InvocationOK(j) /\ j.pc = p /\ j.todo = q /\ j.act = a /\ Same(i, j)

\* The updates of the program counter and the lists keep everything else.
LEMMA Moves ==
    ASSUME NEW i, InvocationOK(i), NEW p \in Pcs, NEW q \in Seq(ServiceSet), NEW a \in Seq(ServiceSet)
    PROVE  /\ Moved(i, [i EXCEPT !.pc = p], p, i.todo, i.act)
           /\ Moved(i, [i EXCEPT !.todo = q], i.pc, q, i.act)
           /\ Moved(i, [i EXCEPT !.pc = p, !.todo = q], p, q, i.act)
           /\ Moved(i, [i EXCEPT !.todo = q, !.pc = p], p, q, i.act)
           /\ Moved(i, [i EXCEPT !.pc = p, !.act = a, !.todo = q], p, q, a)
           /\ Moved(i, [i EXCEPT !.pc = p, !.todo = q, !.act = a], p, q, a)
<1>1. Moved(i, [i EXCEPT !.pc = p], p, i.todo, i.act)
  BY DEF Moved, Same, InvocationOK
<1>2. Moved(i, [i EXCEPT !.todo = q], i.pc, q, i.act)
  BY DEF Moved, Same, InvocationOK
<1>3. Moved(i, [i EXCEPT !.pc = p, !.todo = q], p, q, i.act)
  BY DEF Moved, Same, InvocationOK
<1>4. Moved(i, [i EXCEPT !.todo = q, !.pc = p], p, q, i.act)
  BY DEF Moved, Same, InvocationOK
<1>5. Moved(i, [i EXCEPT !.pc = p, !.act = a, !.todo = q], p, q, a)
  BY DEF Moved, Same, InvocationOK
<1>6. Moved(i, [i EXCEPT !.pc = p, !.todo = q, !.act = a], p, q, a)
  BY DEF Moved, Same, InvocationOK
<1> QED BY <1>1, <1>2, <1>3, <1>4, <1>5, <1>6

\* The names of the places.
Places == {"idle", "suite", "prom", "batchend", "cooldown", "seedcheck", "seed", "verify", "activate", "count",
           "partial", "deactivate", "cleanup", "targets", "observer", "network", "start", "replay", "window", "end",
           "finish", "detect", "snapshot", "netsnap", "stream", "endverify", "prom2", "postverify", "judge"}
\* The program counters, spelled out.
LEMMA PcsAre == Pcs = Places
BY DEF Pcs, Places, Visiting, Up, Rising1, Running, After

\* What a step that executes no plan leaves well formed.
Still ==
    /\ cfg' = cfg /\ db' = db /\ FileOK(file') /\ ManifestOK(m') /\ faults' \in Nat /\ cancelled' \in BOOLEAN
    /\ rp' = [pc |-> rp'.pc, todo |-> rp'.todo, plan |-> rp'.plan, bad |-> rp'.bad, hit |-> rp'.hit]

\* ... and one that leaves the replay alone as well.
Apart == UNCHANGED <<cfg, rp, failing, db, file>> /\ faults' \in Nat /\ cancelled' \in BOOLEAN

\* A step that touches neither tables nor replay leaves the types alone.
LEMMA ApartIsStill ==
    ASSUME Types, Apart, ManifestOK(m')
    PROVE  Still
BY DEF Types, Apart, Still

\* Then only the new invocation has to be typed.
LEMMA StillTyped ==
    ASSUME Types, Still, InvocationOK(inv')
    PROVE  Types'
BY DEF Types, Still

\* The end of an invocation keeps the invariant if what was activated is
\* swept and nothing of the replay is left.
LEMMA IdleKeeps ==
    ASSUME Types', Swept', inv'.pc = "idle", rp'.pc = "none", look'.kind # "detect"
    PROVE  CapacityInv'
<1>1. Control'
  BY DEF Control, At, Visiting, Up, Rising1, Running, After
<1>2. Reported' /\ Exact' /\ Rising'
  BY DEF Reported, Exact, Rising, At, Rising1, Running, After
<1>3. Replayed'
  BY DEF Replayed, ReplayOK, At, After, Rising1
<1>4. Read'
  BY DEF Read
<1> QED BY <1>1, <1>2, <1>3, <1>4 DEF CapacityInv

\* A replay that only withdraws failures stays as planned.
LEMMA SameReplay ==
    ASSUME ReplayOK, rp' = rp, failing' \subseteq failing, inv'.size = inv.size, cfg' = cfg
    PROVE  ReplayOK'
<1>1. PlanOK(rp.plan, inv.size) => PlanOK(rp.plan, inv.size)'
  BY DEF PlanOK
<1> QED BY <1>1 DEF ReplayOK

\* BatchFailed: the deferred cleanup gets every service that was activated.
LEMMA FailureKeeps ==
    ASSUME CapacityInv, Apart, inv.pc \in {"prom", "postverify"} \cup (Up \ {"snapshot"}),
           NEW why, ManifestOK(why), BatchFailed(why), look' = look
    PROVE  CapacityInv'
<1> USE DEF CapacityInv
<1>0. Still
  <2>1. m' = [why EXCEPT !.err = TRUE]
    BY DEF BatchFailed
  <2>2. ManifestOK([why EXCEPT !.err = TRUE])
    BY DEF ManifestOK
  <2> QED BY <2>1, <2>2, ApartIsStill
<1>1. InvocationOK(inv) /\ inv.act \in Seq(ServiceSet) /\ inv.touched \subseteq ServiceSet /\ inv.pc \in Pcs
  BY DEF Types, InvocationOK
<1> DEFINE p == IF inv.act = <<>> THEN "batchend" ELSE "cleanup"
<1>2. Moved(inv, inv', p, inv.act, inv.act)
  <2>1. p \in Pcs
    BY PcsAre DEF Places
  <2>2. inv' = [inv EXCEPT !.pc = p, !.todo = inv.act]
    BY DEF BatchFailed
  <2> HIDE DEF p
  <2> QED BY <1>1, <2>1, <2>2, Moves
<1>3. m'.err = TRUE
  BY DEF BatchFailed, ManifestOK
<1>4. Types'
  BY <1>0, <1>2, StillTyped DEF Moved
<1>5. inv.pc \in Up => Elems(inv.act) = ServiceSet /\ cfg.dsn = ServiceSet /\ inv.act # <<>>
  <2>1. ServiceSet # {}
    BY ServicesOK, ElemsOf
  <2> QED BY <1>1, <2>1, ElemsOf DEF Control
<1>6. inv.pc \in {"prom", "postverify"} => inv.act = <<>>
  BY DEF Control, After
<1>7. inv.pc \in {"prom", "postverify"} \/ inv.pc \in Up
  OBVIOUS
<1>8. inv.mode \in Batch
  BY <1>7 DEF Control, After
<1>9. Validate(cfg)
  BY <1>7 DEF Control, At, Up, Rising1, Running
<1>10. Control'
  <2>1. CASE inv.act = <<>>
    BY <1>0, <1>2, <1>8, <1>9, <2>1 DEF Control, Moved, Same, At, Visiting, Up, Rising1, Running, After, Still
  <2>2. CASE inv.act # <<>>
    <3>1. Elems(inv.act) = ServiceSet /\ cfg.dsn = ServiceSet
      BY <2>2, <1>5, <1>6, <1>7
    <3> QED BY <1>0, <1>2, <1>8, <1>9, <2>2, <3>1 DEF Control, Moved, Same, At, Visiting, Up, Rising1, Running, After, Still
  <2> QED BY <2>1, <2>2
<1>11. Swept'
  <2>1. CASE inv.act = <<>>
    <3>1. inv.pc \in {"prom", "postverify"}
      BY <2>1, <1>5, <1>7
    <3>2. MayBeActive = {} /\ MayBeActive' = {}
      BY <3>1, <2>1, <1>2 DEF MayBeActive, Moved, Up, Rising1, Running
    <3> QED BY <1>0, <3>2, <1>2 DEF Swept, Moved, Same, Still
  <2>2. CASE inv.act # <<>>
    <3>1. MayBeActive' = ServiceSet
      BY <2>2, <1>2, <1>5, <1>6, <1>7 DEF MayBeActive, Moved, Up, Rising1, Running
    <3> QED BY <3>1, <1>1, <1>2 DEF Swept, Moved, Same
  <2> QED BY <2>1, <2>2
<1>12. Reported'
  BY <1>2, <1>3 DEF Reported, Moved, At
<1>13. Exact'
  BY <1>2, <1>3 DEF Exact, Moved, At, Rising1, Running, After
<1>14. Replayed'
  <2>1. ReplayOK'
    BY <1>2, SameReplay DEF Replayed, Moved, Same, Apart
  <2> QED BY <1>2, <1>3, <2>1 DEF Replayed, Moved, At, NotYet, Rising1, After, Apart
<1>15. Rising'
  <2>1. inv.mode = "run-suite" => Ascending(inv.rest) /\ inv.clean < inv.size /\ (inv.rest # <<>> => inv.size < Head(inv.rest))
    BY <1>7 DEF Rising, At, Up, Rising1, Running
  <2> QED BY <2>1, <1>2 DEF Rising, Moved, Same, At
<1>16. Read'
  BY <1>7 DEF Read, At
<1> QED BY <1>4, <1>10, <1>11, <1>12, <1>13, <1>14, <1>15, <1>16

\* Faults are counted.
LEMMA NoteCounts ==
    ASSUME Types, NEW bad, Note(bad)
    PROVE  faults' \in Nat
BY DEF Types, Note

\* A part of the manifest is marked.
Marked(x, y, p, v) ==
    /\ ManifestOK(y) /\ y.parts[p] = v
    /\ p # "replay" => y.parts["replay"] = x.parts["replay"]
    /\ y.err = x.err /\ y.replayed = x.replayed /\ y.got = x.got /\ y.health = x.health

\* Noting a result in the manifest changes that note only.
LEMMA Marks ==
    ASSUME NEW x, ManifestOK(x), NEW p \in Parts, NEW v, NEW w
    PROVE  /\ Marked(x, [x EXCEPT !.parts[p] = v], p, v)
           /\ Marked(x, [x EXCEPT !.parts[p] = v, !.over = w], p, v)
           /\ Marked([x EXCEPT !.life = w], [[x EXCEPT !.life = w] EXCEPT !.parts[p] = v], p, v)
           /\ ManifestOK([x EXCEPT !.life = w])
           /\ [x EXCEPT !.life = w].replayed = x.replayed
           /\ [x EXCEPT !.life = w].parts = x.parts
<1>1. "replay" \in Parts
  BY DEF Parts
<1>2. Marked(x, [x EXCEPT !.parts[p] = v], p, v)
  BY <1>1 DEF Marked, ManifestOK
<1>3. Marked(x, [x EXCEPT !.parts[p] = v, !.over = w], p, v)
  BY <1>1 DEF Marked, ManifestOK
<1> DEFINE y == [x EXCEPT !.life = w]
<1>5. ManifestOK(y) /\ y.replayed = x.replayed /\ y.parts = x.parts
  BY DEF ManifestOK
<1> HIDE DEF y
<1>6. Marked(y, [y EXCEPT !.parts[p] = v], p, v)
  BY <1>1, <1>5 DEF Marked, ManifestOK
<1> QED BY <1>2, <1>3, <1>5, <1>6 DEF y

\* Within the part of a batch in which every service is active.
Onward(i, j, p) ==
    /\ InvocationOK(j) /\ j.pc = p /\ j.todo = i.todo /\ j.act = i.act /\ j.mode = i.mode /\ j.size = i.size
    /\ j.clean = i.clean /\ j.rest = i.rest /\ j.sql = i.sql /\ j.touched = i.touched /\ j.out = i.out

\* A batch that goes on with every service active.
LEMMA OnwardKeeps ==
    ASSUME CapacityInv, Still, NEW q \in Up, inv.pc \in Up, Onward(inv, inv', q)
    PROVE  Types' /\ Control' /\ Swept' /\ Reported' /\ Rising'
<1> USE DEF CapacityInv
<1>1. inv.touched \subseteq ServiceSet
  BY DEF Types, InvocationOK
<1>2. Types'
  BY StillTyped DEF Onward
<1>3. Validate(cfg) /\ inv.mode \in Batch /\ Elems(inv.act) = ServiceSet /\ cfg.dsn = ServiceSet
  BY DEF Control, At, Up, Rising1, Running
<1>4. Control'
  BY <1>3 DEF Control, Onward, At, Visiting, Up, Rising1, Running, After, Still
<1>5. Swept'
  <2>1. MayBeActive' = ServiceSet
    BY <1>3 DEF MayBeActive, Onward
  <2> QED BY <1>1, <2>1 DEF Swept, Onward
<1>6. Reported'
  BY DEF Reported, Onward, At, Up, Rising1, Running
<1>7. Rising'
  <2>1. inv.mode = "run-suite" => Ascending(inv.rest) /\ inv.clean < inv.size /\ (inv.rest # <<>> => inv.size < Head(inv.rest))
    BY DEF Rising, At, Up, Rising1, Running
  <2> QED BY <2>1 DEF Rising, Onward, At, Up, Rising1, Running
<1> QED BY <1>2, <1>4, <1>5, <1>6, <1>7

\* The same, when the window's rows are not looked at anew.
LEMMA GotoKeeps ==
    ASSUME CapacityInv, Still, NEW q \in Up, inv.pc \in Up,
           q \in Rising1 => inv.pc \in Rising1, q \in Running => inv.pc \in Running, Goto(q)
    PROVE  /\ Types' /\ Control' /\ Swept' /\ Reported' /\ Exact' /\ Rising'
           /\ inv'.pc = q /\ inv'.size = inv.size /\ inv'.mode = inv.mode
<1> USE DEF CapacityInv
<1>1. Moved(inv, inv', q, inv.todo, inv.act)
  <2>1. InvocationOK(inv) /\ q \in Pcs
    BY DEF Types, Pcs
  <2> QED BY <2>1, Moves DEF Goto, Types, InvocationOK
<1>2. Onward(inv, inv', q)
  BY <1>1 DEF Moved, Same, Onward
<1>3. Exact'
  BY <1>1 DEF Exact, Moved, Same, At, Up, Rising1, Running, After, Prefix, Still
<1> QED BY <1>1, <1>2, <1>3, OnwardKeeps DEF Moved, Same

-----------------------------------------------------------------------------
(* The steps of a batch while every service is active *)

\* A failed batch has a well-formed manifest.
LEMMA LifeFailedOK ==
    ASSUME Types
    PROVE  ManifestOK(LifeFailed) /\ \A p \in Parts : \A v : ManifestOK([LifeFailed EXCEPT !.parts[p] = v])
<1>1. ManifestOK(m)
  BY DEF Types
<1>2. ManifestOK([m EXCEPT !.life = "fail"])
  BY <1>1, Marks DEF Parts
<1>3. \A p \in Parts : \A v : ManifestOK([[m EXCEPT !.life = "fail"] EXCEPT !.parts[p] = v])
  BY <1>2, Marks DEF Marked
<1> QED BY <1>2, <1>3 DEF LifeFailed

\* A step to a later place that only marks a part other than the replay's.
LEMMA MarkKeeps ==
    ASSUME CapacityInv, Apart, ManifestOK(m'), NEW q \in Up, inv.pc \in Up,
           q \in Rising1 => inv.pc \in Rising1, q \in Running => inv.pc \in Running, Goto(q),
           inv.pc # "finish", q \notin {"replay", "detect", "snapshot"},
           m'.replayed = m.replayed, m'.parts["replay"] = m.parts["replay"],
           q \in {"netsnap", "stream", "endverify"} => inv.pc \in {"snapshot", "netsnap", "stream"},
           q \in {"window", "end", "finish"} \cup Rising1 => inv.pc \in {"replay", "window", "end"} \cup Rising1,
           look'.kind # "detect"
    PROVE  CapacityInv'
<1> USE DEF CapacityInv
<1>1. Still
  BY ApartIsStill
<1>2. /\ Types' /\ Control' /\ Swept' /\ Reported' /\ Exact' /\ Rising'
      /\ inv'.pc = q /\ inv'.size = inv.size /\ inv'.mode = inv.mode
  BY <1>1, GotoKeeps
<1>3. ReplayOK'
  BY <1>2, SameReplay DEF Apart, Replayed
<1>4. Replayed'
  BY <1>2, <1>3 DEF Replayed, Apart, At, NotYet, Up, Rising1, Running, After
<1>5. Read'
  BY DEF Read
<1> QED BY <1>2, <1>4, <1>5

LEMMA TargetsStep ==
    ASSUME CapacityInv, PreflightActivatedTargets
    PROVE  CapacityInv'
<1>1. Apart /\ inv.pc = "targets" /\ look' = look /\ look.kind # "detect" /\ ManifestOK(m) /\ Types
  BY NoteCounts DEF PreflightActivatedTargets, At, Apart, CapacityInv, Read, Types, outside
<1>2. (Goto("observer") /\ m' = m) \/ BatchFailed(LifeFailed)
  BY DEF PreflightActivatedTargets
<1>3. CASE Goto("observer") /\ m' = m
  BY <1>1, <1>3, MarkKeeps DEF Up, Rising1, Running
<1>4. CASE BatchFailed(LifeFailed)
  BY <1>1, <1>4, LifeFailedOK, FailureKeeps DEF Up, Rising1
<1> QED BY <1>2, <1>3, <1>4

LEMMA ObserverStep ==
    ASSUME CapacityInv, ResetTargetObserver
    PROVE  CapacityInv'
<1> DEFINE why == [LifeFailed EXCEPT !.parts["observer"] = "preflight_failed"]
<1>1. Apart /\ inv.pc = "observer" /\ look' = look /\ look.kind # "detect" /\ ManifestOK(m) /\ Types
  BY NoteCounts DEF ResetTargetObserver, At, Apart, CapacityInv, Read, Types, outside
<1>2. (Goto("network") /\ m' = m) \/ BatchFailed(why)
  BY DEF ResetTargetObserver
<1>3. CASE Goto("network") /\ m' = m
  BY <1>1, <1>3, MarkKeeps DEF Up, Rising1, Running
<1>4. CASE BatchFailed(why)
  <2>1. ManifestOK(why)
    BY <1>1, LifeFailedOK DEF Parts
  <2> HIDE DEF why
  <2> QED BY <1>1, <1>4, <2>1, FailureKeeps DEF Up, Rising1
<1> QED BY <1>2, <1>3, <1>4

LEMMA NetworkStep ==
    ASSUME CapacityInv, ResetNetworkBuckets
    PROVE  CapacityInv'
<1> DEFINE why == [LifeFailed EXCEPT !.parts["network"] = "preflight_failed"]
<1>1. Apart /\ inv.pc = "network" /\ look' = look /\ look.kind # "detect" /\ ManifestOK(m) /\ Types
  BY NoteCounts DEF ResetNetworkBuckets, At, Apart, CapacityInv, Read, Types, outside
<1>2. (Goto("start") /\ m' = m) \/ BatchFailed(why)
  BY DEF ResetNetworkBuckets
<1>3. CASE Goto("start") /\ m' = m
  BY <1>1, <1>3, MarkKeeps DEF Up, Rising1, Running
<1>4. CASE BatchFailed(why)
  <2>1. ManifestOK(why)
    BY <1>1, LifeFailedOK DEF Parts
  <2> HIDE DEF why
  <2> QED BY <1>1, <1>4, <2>1, FailureKeeps DEF Up, Rising1
<1> QED BY <1>2, <1>3, <1>4

\* The rows the window will run with are what Exact says they are.
LEMMA StartStep ==
    ASSUME CapacityInv, StartCaptures
    PROVE  CapacityInv'
<1> USE DEF CapacityInv
<1>1. Apart /\ inv.pc = "start" /\ look' = look /\ look.kind # "detect" /\ ManifestOK(m) /\ InvocationOK(inv)
  BY NoteCounts DEF StartCaptures, At, Apart, Read, Types, outside
<1>2. PICK d, k : m' = [m EXCEPT !.db = d, !.disk = k]
  BY DEF StartCaptures
<1>3. ManifestOK(m') /\ m'.replayed = m.replayed
  BY <1>1, <1>2 DEF ManifestOK
<1>4. Still
  BY <1>1, <1>3, ApartIsStill
<1>5. Onward(inv, inv', "replay") /\ inv'.exact = (\A s \in ServiceSet : Prefix(s, inv.size))
  <2>1. inv' = [inv EXCEPT !.pc = "replay", !.exact = \A s \in ServiceSet : Prefix(s, inv.size)]
    BY DEF StartCaptures
  <2>2. PICK b \in BOOLEAN : b = \A s \in ServiceSet : Prefix(s, inv.size)
    OBVIOUS
  <2>3. inv' = [inv EXCEPT !.pc = "replay", !.exact = b] /\ "replay" \in Pcs
    BY <2>1, <2>2, PcsAre DEF Places
  <2>4. Onward(inv, inv', "replay") /\ inv'.exact = b
    BY <1>1, <2>3 DEF Onward, InvocationOK
  <2> QED BY <2>2, <2>4
<1>6. Types' /\ Control' /\ Swept' /\ Reported' /\ Rising'
  BY <1>1, <1>4, <1>5, OnwardKeeps DEF Up, Rising1, Running
<1>7. Exact'
  <2>1. inv.sql = 0 => \A s \in ServiceSet : Prefix(s, inv.size)
    BY <1>1 DEF Exact, Rising1
  <2>2. inv.sql = 0 => inv'.exact = TRUE
    BY <2>1, <1>5
  <2> QED BY <1>1, <2>1, <2>2, <1>5 DEF Exact, Onward, At, Apart, Prefix, Rising1, Running, After
<1>8. Replayed'
  <2>1. ReplayOK'
    BY <1>1, <1>5, SameReplay DEF Apart, Replayed, Onward
  <2> QED BY <1>1, <1>3, <1>5, <2>1 DEF Replayed, Onward, Apart, At, NotYet, Rising1, After
<1>9. Read'
  BY <1>1 DEF Read
<1> QED BY <1>6, <1>7, <1>8, <1>9

LEMMA WindowStep ==
    ASSUME CapacityInv, SleepWindow
    PROVE  CapacityInv'
<1>1. Apart /\ inv.pc = "window" /\ look' = look /\ look.kind # "detect" /\ ManifestOK(m) /\ Types
  BY DEF SleepWindow, At, Apart, CapacityInv, Read, Types, outside
<1>2. (Goto("end") /\ m' = m) \/ BatchFailed(LifeFailed)
  BY DEF SleepWindow
<1>3. CASE Goto("end") /\ m' = m
  BY <1>1, <1>3, MarkKeeps DEF Up, Rising1, Running
<1>4. CASE BatchFailed(LifeFailed)
  BY <1>1, <1>4, LifeFailedOK, FailureKeeps DEF Up, Running
<1> QED BY <1>2, <1>3, <1>4

LEMMA EndStep ==
    ASSUME CapacityInv, EndCaptures
    PROVE  CapacityInv'
<1>1. Apart /\ inv.pc = "end" /\ look.kind # "detect" /\ ManifestOK(m) /\ Types /\ Goto("finish")
  BY NoteCounts DEF EndCaptures, At, Apart, CapacityInv, Read, Types, outside
<1>2. PICK d, k : m' = [m EXCEPT !.db = d, !.disk = k]
  BY DEF EndCaptures
<1>3. ManifestOK(m') /\ m'.replayed = m.replayed /\ m'.parts = m.parts
  BY <1>1, <1>2 DEF ManifestOK
<1>4. look'.kind # "detect"
  BY <1>1 DEF EndCaptures
<1> QED BY <1>1, <1>3, <1>4, MarkKeeps DEF Up, Rising1, Running

\* A part other than the replay's is marked, or none.
Marking(x, y, p) ==
    y = x \/ (\E v : y = [x EXCEPT !.parts[p] = v]) \/ (\E v, w : y = [x EXCEPT !.parts[p] = v, !.over = w])

\* Noting a part other than the replay keeps the replay's note.
LEMMA PartMarked ==
    ASSUME Types, NEW p \in Parts, p # "replay", Marking(m, m', p)
    PROVE  ManifestOK(m') /\ m'.replayed = m.replayed /\ m'.parts["replay"] = m.parts["replay"]
<1>1. ManifestOK(m)
  BY DEF Types
<1>2. CASE m' = m
  BY <1>1, <1>2
<1>3. ASSUME NEW v, m' = [m EXCEPT !.parts[p] = v]
      PROVE  Marked(m, m', p, v)
  BY <1>1, <1>3, Marks, Zenon
<1>4. ASSUME NEW v, NEW w, m' = [m EXCEPT !.parts[p] = v, !.over = w]
      PROVE  Marked(m, m', p, v)
  BY <1>1, <1>4, Marks, Zenon
<1>5. CASE \E v : Marked(m, m', p, v)
  BY <1>5 DEF Marked
<1> QED BY <1>2, <1>3, <1>4, <1>5, Zenon DEF Marking

LEMMA NetworkSnapshotStep ==
    ASSUME CapacityInv, SnapshotNetworkBuckets
    PROVE  CapacityInv'
<1>1. Apart /\ inv.pc = "netsnap" /\ look' = look /\ look.kind # "detect" /\ ManifestOK(m) /\ Types /\ Goto("stream")
  BY NoteCounts DEF SnapshotNetworkBuckets, At, Apart, CapacityInv, Read, Types, outside
<1>2. Marking(m, m', "network")
  BY DEF SnapshotNetworkBuckets, Marking
<1>3. ManifestOK(m') /\ m'.replayed = m.replayed /\ m'.parts["replay"] = m.parts["replay"]
  BY <1>1, <1>2, PartMarked DEF Parts
<1> QED BY <1>1, <1>3, MarkKeeps DEF Up, Rising1, Running

LEMMA StreamStep ==
    ASSUME CapacityInv, CollectStreamingTelemetry
    PROVE  CapacityInv'
<1>1. Apart /\ inv.pc = "stream" /\ look' = look /\ look.kind # "detect" /\ ManifestOK(m) /\ Types /\ Goto("endverify")
  BY NoteCounts DEF CollectStreamingTelemetry, At, Apart, CapacityInv, Read, Types, outside, Goto
<1>2. Marking(m, m', "stream")
  BY DEF CollectStreamingTelemetry, Marking
<1>3. ManifestOK(m') /\ m'.replayed = m.replayed /\ m'.parts["replay"] = m.parts["replay"]
  BY <1>1, <1>2, PartMarked DEF Parts
<1> QED BY <1>1, <1>3, MarkKeeps DEF Up, Rising1, Running

LEMMA ObserverSnapshotStep ==
    ASSUME CapacityInv, SnapshotTargetObserver
    PROVE  CapacityInv'
<1>1. Apart /\ inv.pc = "snapshot" /\ look'.kind # "detect" /\ ManifestOK(m) /\ Types /\ Goto("netsnap")
  BY NoteCounts DEF SnapshotTargetObserver, At, Apart, CapacityInv, Types, outside, NoLook
<1>2. Marking(m, m', "observer")
  BY DEF SnapshotTargetObserver, Marking
<1>3. ManifestOK(m') /\ m'.replayed = m.replayed /\ m'.parts["replay"] = m.parts["replay"]
  BY <1>1, <1>2, PartMarked DEF Parts
<1> QED BY <1>1, <1>3, MarkKeeps DEF Up, Rising1, Running

\* The hosts chosen for a replay are within the rows the batch has active.
LEMMA ReplayPlansOK ==
    ASSUME cfg \in Configs, Validate(cfg), NEW n \in Int, NEW plan \in ReplayPlans(cfg, ServiceSet, n)
    PROVE  PlanOK(plan, n)
<1> DEFINE e == cfg.event
           hosts == IF e.hosts <= 0 \/ e.hosts > n THEN n ELSE e.hosts
<1>1. /\ e.start \in Int /\ e.hosts \in Int /\ hosts \in Int /\ hosts <= n
      /\ \A s \in ServiceSet : cfg.first[s] \in Int /\ cfg.first[s] > 0
  BY ConfigsAssumption DEF Validate, ServiceLifecycle, ConfigValid
<1>2. ASSUME NEW first
      PROVE  \A S \in ReplayHostNumbers(e, n, first) :
                S \subseteq (IF e.start = 0 THEN first ELSE e.start)..((IF e.start = 0 THEN first ELSE e.start) + hosts - 1)
  BY DEF ReplayHostNumbers
<1> HIDE DEF hosts
<1>3. CASE e.start > 0
  <2>1. PICK S \in ReplayHostNumbers(e, n, 0) :
            plan = [hosts |-> S, of |-> [s \in ServiceSet |-> HostsForNumbers(cfg, s, S, n)]]
    BY <1>3 DEF ReplayPlans
  <2>2. S \subseteq Int
    BY <1>1, <1>2, <1>3, <2>1
  <2> QED BY <1>1, <2>1, <2>2 DEF PlanOK, HostsForNumbers
<1>4. CASE ~(e.start > 0)
  <2>1. PICK f : /\ plan = [hosts |-> UNION {f[s] : s \in ServiceSet}, of |-> f]
                 /\ \A s \in ServiceSet : f[s] \in ReplayHostNumbers(e, n, cfg.first[s])
    BY <1>4 DEF ReplayPlans
  <2>2. \A s \in ServiceSet : f[s] \subseteq Int /\ \A h \in f[s] : h < cfg.first[s] + n
    <3> TAKE s \in ServiceSet
    <3>1. CASE e.start = 0
      <4>1. f[s] \subseteq cfg.first[s]..(cfg.first[s] + hosts - 1)
        BY <1>2, <2>1, <3>1
      <4> QED BY <1>1, <4>1
    <3>2. CASE e.start # 0
      <4>1. f[s] \subseteq e.start..(e.start + hosts - 1)
        BY <1>2, <2>1, <3>2
      <4> QED BY <1>1, <1>4, <4>1
    <3> QED BY <3>1, <3>2
  <2> QED BY <2>1, <2>2 DEF PlanOK
<1> QED BY <1>3, <1>4

LEMMA ReplayStep ==
    ASSUME CapacityInv, StartCapacityReplay
    PROVE  CapacityInv'
<1> USE DEF CapacityInv
<1> DEFINE why == [LifeFailed EXCEPT !.parts["replay"] = "fail"]
<1>1. /\ inv.pc = "replay" /\ look' = look /\ look.kind # "detect" /\ ManifestOK(m) /\ Types
      /\ UNCHANGED <<cfg, failing, db, file, cancelled, faults>> /\ faults \in Nat /\ cancelled \in BOOLEAN
      /\ cfg \in Configs /\ inv.size \in Int /\ m.replayed = FALSE
  BY DEF StartCapacityReplay, At, Read, Types, InvocationOK, Replayed
<1>2. CASE Goto("window") /\ m' = m /\ rp' = rp
  BY <1>1, <1>2, MarkKeeps DEF Up, Rising1, Running, Apart
<1>3. CASE BatchFailed(why) /\ rp' = rp
  <2>1. ManifestOK(why)
    BY <1>1, LifeFailedOK DEF Parts
  <2>2. Apart
    BY <1>1, <1>3 DEF Apart
  <2> HIDE DEF why
  <2> QED BY <1>1, <1>3, <2>1, <2>2, FailureKeeps DEF Up, Running
<1>4. ASSUME NEW plan \in ReplayPlans(cfg, ServiceSet, inv.size),
             rp' = [pc |-> "wait", todo |-> plan.hosts, plan |-> plan, bad |-> FALSE, hit |-> {}],
             Goto("window"), m' = [m EXCEPT !.parts["replay"] = "running"]
      PROVE  CapacityInv'
  <2>1. ManifestOK(m') /\ m'.replayed = m.replayed
    <3>1. Marked(m, m', "replay", "running")
      BY <1>1, <1>4, Marks, Zenon DEF Parts
    <3> QED BY <3>1 DEF Marked
  <2>2. Still
    BY <1>1, <1>4, <2>1 DEF Still, Types
  <2>3. /\ Types' /\ Control' /\ Swept' /\ Reported' /\ Exact' /\ Rising'
        /\ inv'.pc = "window" /\ inv'.size = inv.size /\ inv'.mode = inv.mode
    BY <1>1, <1>4, <2>2, GotoKeeps DEF Up, Rising1, Running
  <2>4. PlanOK(plan, inv.size)
    BY <1>1, <1>4, ReplayPlansOK DEF Control, At
  <2>5. ReplayOK'
    <3>1. PlanOK(rp.plan, inv.size)'
      BY <1>1, <1>4, <2>3, <2>4 DEF PlanOK
    <3> QED BY <1>4, <3>1 DEF ReplayOK
  <2>6. Replayed'
    BY <1>1, <2>1, <2>3, <2>5 DEF Replayed, At, NotYet, Rising1, After
  <2>7. Read'
    BY <1>1 DEF Read
  <2> QED BY <2>3, <2>6, <2>7
<1> QED BY <1>2, <1>3, <1>4 DEF StartCapacityReplay

\* The replay has been waited for when its note is written, so its hosts are cleared.
LEMMA FinishStep ==
    ASSUME CapacityInv, FinishCapacityReplay
    PROVE  CapacityInv'
<1> USE DEF CapacityInv
<1>1. /\ Apart /\ inv.pc = "finish" /\ look'.kind # "detect" /\ ManifestOK(m) /\ Types /\ Goto("detect")
      /\ m.replayed = FALSE
  BY DEF FinishCapacityReplay, At, Apart, Types, outside, NoLook, Replayed
<1>2. /\ ManifestOK(m')
      /\ m'.replayed = TRUE => rp.pc = "done"
      /\ rp.pc = "none" \/ m'.parts["replay"] = "fail" \/ (rp.pc = "done" /\ rp.bad # TRUE)
  <2>1. CASE m' = m /\ rp.pc = "none"
    BY <1>1, <2>1
  <2>2. CASE m' = [m EXCEPT !.parts["replay"] = "fail"]
    <3>1. Marked(m, m', "replay", "fail")
      BY <1>1, <2>2, Marks, Zenon DEF Parts
    <3> QED BY <3>1, <1>1 DEF Marked
  <2>3. CASE rp.pc = "done" /\ m' = [m EXCEPT !.parts["replay"] = IF rp.bad THEN "fail" ELSE "pass", !.replayed = TRUE]
    <3>1. PICK v : v = (IF rp.bad THEN "fail" ELSE "pass") /\ m' = [m EXCEPT !.parts["replay"] = v, !.replayed = TRUE]
      BY <2>3
    <3>2. ManifestOK(m') /\ m'.parts["replay"] = v
      BY <1>1, <3>1 DEF ManifestOK, Parts
    <3> QED BY <2>3, <3>1, <3>2
  <2> QED BY <2>1, <2>2, <2>3 DEF FinishCapacityReplay
<1>3. Still
  BY <1>1, <1>2, ApartIsStill
<1>4. /\ Types' /\ Control' /\ Swept' /\ Reported' /\ Exact' /\ Rising'
      /\ inv'.pc = "detect" /\ inv'.size = inv.size /\ inv'.mode = inv.mode
  BY <1>1, <1>3, GotoKeeps DEF Up, Rising1, Running
<1>5. ReplayOK'
  BY <1>1, <1>4, SameReplay DEF Apart, Replayed
<1>6. Replayed'
  BY <1>1, <1>2, <1>4, <1>5 DEF Replayed, Apart, At, NotYet, Rising1
<1>7. Read'
  BY <1>1 DEF Read
<1> QED BY <1>4, <1>6, <1>7

\* Every row that replay detection reads is one of the plan's and of the batch's.
LEMMA SpecsOK ==
    ASSUME cfg \in Configs, NEW plan, NEW n \in Int, PlanOK(plan, n), NEW s \in ServiceSet,
           NEW o \in ReplayDetectionHostSpecs(cfg, s, plan.of[s])
    PROVE  cfg.first[s] + o \in plan.hosts /\ o \in 0..(n - 1)
<1>1. cfg.first[s] \in Int
  BY ConfigsAssumption
<1>2. PICK h \in plan.of[s] : o = h - cfg.first[s] /\ o \in Nat
  BY DEF ReplayDetectionHostSpecs
<1>3. h \in Int /\ h \in plan.hosts /\ h < cfg.first[s] + n
  BY <1>2 DEF PlanOK
<1> QED BY <1>1, <1>2, <1>3

\* Detection looks at active rows whose hosts are the plan's (SpecsOK), which a
\* replay without an error has all failed.
LEMMA DetectStep ==
    ASSUME CapacityInv, CollectReplayDetections
    PROVE  CapacityInv'
<1> USE DEF CapacityInv
<1>1. /\ Apart /\ inv.pc = "detect" /\ look.kind # "detect" /\ ManifestOK(m) /\ Types /\ Goto("snapshot")
      /\ cfg \in Configs /\ inv.size \in Int
  BY NoteCounts DEF CollectReplayDetections, At, Apart, Types, outside, Read, InvocationOK
<1>2. Marking(m, m', "detect")
  BY DEF CollectReplayDetections, Marking
<1>3. ManifestOK(m') /\ m'.replayed = m.replayed /\ m'.parts["replay"] = m.parts["replay"]
  BY <1>1, <1>2, PartMarked DEF Parts
<1>4. Still
  BY <1>1, <1>3, ApartIsStill
<1>5. /\ Types' /\ Control' /\ Swept' /\ Reported' /\ Exact' /\ Rising'
      /\ inv'.pc = "snapshot" /\ inv'.size = inv.size /\ inv'.mode = inv.mode
  BY <1>1, <1>4, GotoKeeps DEF Up, Rising1, Running
<1>6. ReplayOK'
  BY <1>1, <1>5, SameReplay DEF Apart, Replayed
<1>7. Replayed'
  BY <1>1, <1>3, <1>5, <1>6 DEF Replayed, Apart, At, NotYet, Rising1, After
<1>8. Read'
  <2>1. CASE look' = look
    BY <1>1, <2>1 DEF Read
  <2>2. CASE look' # look
    <3>1. m.replayed = TRUE /\ \E h, asked, verdict :
             look' = [kind |-> "detect", history |-> h,
                      specs |-> [s \in ServiceSet |-> ReplayDetectionHostSpecs(cfg, s, rp.plan.of[s])],
                      asked |-> asked, verdict |-> verdict]
      BY <2>2 DEF CollectReplayDetections
    <3>2. rp.pc = "done" /\ PlanOK(rp.plan, inv.size)
      BY <1>1, <3>1 DEF Replayed, ReplayOK, At
    <3>3. \A s \in ServiceSet : look'.specs[s] = ReplayDetectionHostSpecs(cfg, s, rp.plan.of[s])
      BY <3>1
    <3>4. \A s \in ServiceSet : \A o \in look'.specs[s] :
             cfg.first[s] + o \in rp.plan.hosts /\ o \in 0..(inv.size - 1)
      BY <1>1, <3>2, <3>3, SpecsOK
    <3>5. m'.parts["replay"] = "pass" => rp.plan.hosts \subseteq rp.hit
      BY <1>1, <1>3, <3>2 DEF Replayed, ReplayOK, At
    <3>6. inv.sql = 0 => \A s \in ServiceSet : db[s].active = 0..(inv.size - 1)
      BY <1>1 DEF Exact, Running, Prefix
    <3>7. inv'.sql = inv.sql
      BY <1>1 DEF Goto, Types, InvocationOK
    <3>8. DetectionHostsWereFailed'
      BY <1>1, <3>4, <3>5, <3>6, <3>7 DEF DetectionHostsWereFailed, Apart
    <3> QED BY <1>1, <1>5, <3>2, <3>8 DEF Read, At, Apart
  <2> QED BY <2>1, <2>2
<1> QED BY <1>5, <1>7, <1>8

LEMMA EndVerifyStep ==
    ASSUME CapacityInv, WindowEndVerify
    PROVE  CapacityInv'
<1> USE DEF CapacityInv
<1>1. /\ Apart /\ inv.pc = "endverify" /\ look' = look /\ look.kind # "detect" /\ ManifestOK(m) /\ Types
      /\ InvocationOK(inv) /\ inv.touched \subseteq ServiceSet
  BY NoteCounts DEF WindowEndVerify, At, Apart, Types, outside, Read, InvocationOK
<1>2. CASE BatchFailed(LifeFailed)
  BY <1>1, <1>2, LifeFailedOK, FailureKeeps DEF Up, Running
<1>3. ASSUME NEW g, m' = [m EXCEPT !.got = g], inv' = [inv EXCEPT !.pc = "deactivate", !.todo = Services]
      PROVE  CapacityInv'
  <2>1. ManifestOK(m') /\ m'.parts = m.parts
    BY <1>1, <1>3 DEF ManifestOK
  <2>2. Still
    BY <1>1, <2>1, ApartIsStill
  <2>3. Moved(inv, inv', "deactivate", Services, inv.act)
    BY <1>1, <1>3, ServicesOK, Moves, PcsAre DEF Places, InvocationOK
  <2>4. Types'
    BY <1>1, <2>2, <2>3, StillTyped DEF Moved
  <2>5. Validate(cfg) /\ inv.out = "none" /\ inv.mode \in Batch /\ Elems(inv.act) = ServiceSet /\ cfg.dsn = ServiceSet
    BY <1>1 DEF Control, At, Up, Running
  <2>6. Control'
    BY <2>2, <2>3, <2>5, ServicesOK DEF Control, Moved, Same, At, Visiting, Up, Rising1, Running, After, Still
  <2>7. Swept'
    <3>1. MayBeActive' = ServiceSet
      BY <2>3, ServicesOK DEF MayBeActive, Moved, Up, Rising1, Running
    <3> QED BY <1>1, <2>3, <3>1 DEF Swept, Moved, Same
  <2>8. Reported'
    BY <2>3 DEF Reported, Moved, At
  <2>9. Exact'
    BY <1>1, <2>3 DEF Exact, Moved, Same, At, Rising1, Running, After
  <2>10. Replayed'
    <3>1. ReplayOK'
      BY <1>1, <2>3, SameReplay DEF Apart, Replayed, Moved, Same
    <3> QED BY <1>1, <2>1, <2>3, <2>5, <3>1 DEF Replayed, Moved, Same, Apart, At, NotYet, Rising1, After, Batch
  <2>11. Rising'
    BY <1>1, <2>3 DEF Rising, Moved, Same, At
  <2>12. Read'
    BY <1>1 DEF Read
  <2> QED BY <2>4, <2>6, <2>7, <2>8, <2>9, <2>10, <2>11, <2>12
<1> QED BY <1>2, <1>3 DEF WindowEndVerify

-----------------------------------------------------------------------------
(* The steps that execute a plan *)

\* The invocation goes on as i, but for the statement that failed.
Follows(i, j, hit) ==
    /\ InvocationOK(j) /\ j.pc = i.pc /\ j.todo = i.todo /\ j.act = i.act /\ j.mode = i.mode /\ j.size = i.size
    /\ j.clean = i.clean /\ j.rest = i.rest /\ j.touched = i.touched /\ j.exact = i.exact /\ j.out = i.out
    /\ j.sql = 0 => i.sql = 0 /\ hit = FALSE

\* A plan changed the table of one service.
Ran(s, t) == db'[s] = t /\ \A x \in ServiceSet \ {s} : db'[x] = db[x]

Result(s, fresh, K, next, err, t, ok, hit) ==
    /\ Types' /\ Ran(s, t) /\ Follows(IF ok THEN next ELSE err, inv', hit)
    /\ ok => s \in cfg.dsn
    /\ ok /\ ~hit => t.active \subseteq K
    /\ fresh /\ ~hit /\ s \in cfg.dsn => ok
PlanRan(s, fresh, K, next, err) == \E t : \E ok, hit \in BOOLEAN : Result(s, fresh, K, next, err, t, ok, hit)

\* The rest of the state while a plan is executed.
Beside == UNCHANGED <<cfg, rp, failing, file, look>> /\ ManifestOK(m')

\* Executing a plan on one service, as a step of the whole state.
LEMMA PlanRuns ==
    ASSUME Types, Beside, NEW s \in ServiceSet, NEW fresh, NEW K, NEW next, InvocationOK(next),
           NEW err, InvocationOK(err), Executes(s, fresh, K, next, err)
    PROVE  PlanRan(s, fresh, K, next, err)
<1> SUFFICES ASSUME NEW t, NEW ok \in BOOLEAN, NEW hit \in BOOLEAN, Outcome(s, fresh, K, next, err, t, ok, hit)
             PROVE  Types' /\ Ran(s, t) /\ Follows(IF ok THEN next ELSE err, inv', hit)
  BY DEF Executes, PlanRan, Result, Outcome
<1>1. Ran(s, t) /\ DOMAIN db' = ServiceSet /\ db' = [x \in ServiceSet |-> db'[x]]
  <2>1. DOMAIN db = ServiceSet /\ db = [x \in ServiceSet |-> db[x]] /\ db' = [db EXCEPT ![s] = t]
    BY DEF Types, Outcome
  <2> QED BY <2>1 DEF Ran
<1>2. \A x \in ServiceSet : TableOK(db'[x], cfg.count[x])
  <2>1. TableOK(t, cfg.count[s]) /\ \A x \in ServiceSet : TableOK(db[x], cfg.count[x])
    BY DEF Types, Outcome
  <2> QED BY <1>1, <2>1 DEF Ran
<1>3. InvocationOK(inv') /\ faults' \in Nat /\ cancelled' \in BOOLEAN
  BY DEF Outcome
<1>4. Types'
  BY <1>1, <1>2, <1>3 DEF Types, Beside
<1> DEFINE i == IF ok THEN next ELSE err
<1>5. Follows(i, inv', hit)
  <2>1. InvocationOK(i) /\ inv' = Counted(i, hit)
    BY DEF Outcome
  <2> HIDE DEF i
  <2>2. CASE hit = TRUE
    <3>1. PICK k : inv' = [i EXCEPT !.sql = k] /\ k = i.sql + 1
      BY <2>1, <2>2 DEF Counted
    <3>2. k # 0
      <4>1. i.sql \in Nat
        BY <2>1 DEF InvocationOK
      <4> QED BY <3>1, <4>1
    <3>3. /\ inv'.pc = i.pc /\ inv'.todo = i.todo /\ inv'.act = i.act /\ inv'.mode = i.mode /\ inv'.size = i.size
          /\ inv'.clean = i.clean /\ inv'.rest = i.rest /\ inv'.touched = i.touched /\ inv'.exact = i.exact
          /\ inv'.out = i.out /\ inv'.sql = k
      BY <2>1, <3>1 DEF InvocationOK
    <3> QED BY <1>3, <3>2, <3>3 DEF Follows
  <2>3. CASE hit = FALSE
    <3>1. inv' = i
      BY <2>1, <2>3 DEF Counted
    <3> QED BY <1>3, <2>3, <3>1 DEF Follows
  <2> QED BY <2>2, <2>3
<1> QED BY <1>1, <1>4, <1>5

\* What Ended leaves.
Over(i, j, o) ==
    /\ InvocationOK(j) /\ j.pc = "idle" /\ j.out = o /\ j.mode = i.mode /\ j.touched = i.touched /\ j.sql = i.sql
\* An invocation that returns.
LEMMA EndedOK ==
    ASSUME InvocationOK(inv), NEW o \in {"ok", "err", "crash"}
    PROVE  Over(inv, Ended(o), o)
<1>1. <<>> \in Seq(ServiceSet) /\ <<>> \in Seq(Int) /\ "idle" \in Pcs
  BY PcsAre DEF Places
<1> QED BY <1>1 DEF Over, Ended, InvocationOK

\* The service being visited, and those left.
LEMMA TodoOK ==
    ASSUME CapacityInv, inv.pc \in Visiting
    PROVE  /\ InvocationOK(inv) /\ inv.todo \in Seq(ServiceSet) /\ inv.act \in Seq(ServiceSet) /\ inv.todo # <<>>
           /\ Head(inv.todo) \in ServiceSet /\ Tail(inv.todo) \in Seq(ServiceSet)
           /\ Elems(inv.todo) = {Head(inv.todo)} \cup Elems(Tail(inv.todo)) /\ Validate(cfg)
           /\ Len(inv.todo) # 1 => Tail(inv.todo) # <<>>
           /\ Len(inv.todo) = 1 => Elems(inv.todo) = {Head(inv.todo)}
           /\ Len(inv.todo) \in Nat /\ Len(inv.todo) > 0
<1>1. InvocationOK(inv) /\ inv.todo # <<>> /\ Validate(cfg)
  BY DEF CapacityInv, Types, Control, At, Visiting
<1>2. inv.todo \in Seq(ServiceSet) /\ inv.act \in Seq(ServiceSet)
  BY <1>1 DEF InvocationOK
<1> QED BY <1>1, <1>2, ElemsOf

\* Counts and batch size of the configuration.
LEMMA CountsAreInts ==
    ASSUME Types, NEW s \in ServiceSet
    PROVE  cfg.count[s] \in Int /\ cfg.batch \in Int
BY ConfigsAssumption DEF Types

\* A deactivate plan as a step.
LEMMA DeactivateDoes ==
    ASSUME Types, Beside, NEW s \in ServiceSet, NEW fresh \in BOOLEAN, NEW next, InvocationOK(next),
           NEW err, InvocationOK(err), Exec(s, WriteDeactivateSQL(cfg, s), fresh, next, err)
    PROVE  PlanRan(s, fresh, {}, next, err)
<1>1. cfg.count[s] \in Int
  BY CountsAreInts
<1>2. /\ PlanOver(WriteDeactivateSQL(cfg, s), cfg.count[s])
      /\ Activating(WriteDeactivateSQL(cfg, s), cfg.count[s], {})
  BY <1>1, DeactivatePlan
<1>3. {} # Int
  OBVIOUS
<1>4. Executes(s, fresh, {}, next, err)
  BY <1>2, <1>3, ExecDoes
<1> QED BY <1>4, PlanRuns

\* One service more has been swept, or a statement failed, or there is no
\* database to sweep.
LEMMA SweptOn ==
    ASSUME CapacityInv, inv.pc \in {"partial", "deactivate", "cleanup"}, cfg' = cfg,
           NEW s, NEW t, Ran(s, t),
           inv'.mode = inv.mode, inv'.touched = inv.touched,
           inv'.sql = 0 => /\ inv.sql = 0 /\ (t.active = {} \/ s \notin cfg.dsn)
                           /\ Elems(inv.todo) \ {s} \subseteq MayBeActive'
    PROVE  Swept'
<1> USE DEF CapacityInv
<1> SUFFICES ASSUME inv'.mode \in Batch, inv'.sql = 0, NEW x \in (inv'.touched \cap cfg'.dsn) \ MayBeActive'
             PROVE  db'[x].active = {}
  BY DEF Swept
<1>1. x \in ServiceSet /\ x \in inv.touched \cap cfg.dsn
  BY DEF Types, InvocationOK
<1>2. CASE x = s
  BY <1>1, <1>2 DEF Ran
<1>3. CASE x # s
  <2>1. x \notin Elems(inv.todo)
    BY <1>3
  <2>2. MayBeActive = Elems(inv.todo)
    BY DEF MayBeActive, Up, Rising1, Running
  <2>3. inv.out # "crash"
    BY DEF Control, At
  <2>4. db[x].active = {}
    BY <1>1, <2>1, <2>2, <2>3 DEF Swept
  <2> QED BY <1>1, <1>3, <2>4 DEF Ran
<1> QED BY <1>2, <1>3

\* The deferred cleanup ends with every service swept, or at a statement that failed.
LEMMA CleanupStep ==
    ASSUME CapacityInv, DeferredCleanup
    PROVE  CapacityInv'
<1> USE DEF CapacityInv
<1> DEFINE s == Head(inv.todo)
           p == IF Len(inv.todo) = 1 THEN "batchend" ELSE "cleanup"
           next == [inv EXCEPT !.todo = Tail(@), !.pc = IF Len(inv.todo) = 1 THEN "batchend" ELSE @]
           err == [inv EXCEPT !.pc = "batchend"]
<1>1. /\ inv.pc = "cleanup" /\ UNCHANGED <<cfg, rp, failing, file, look>> /\ look.kind # "detect" /\ Types
      /\ ManifestOK(m) /\ m.err = TRUE
      /\ Exec(s, WriteDeactivateSQL(cfg, s), TRUE, next, err)
  BY DEF DeferredCleanup, At, Read, Types, Reported, outside
<1>2. /\ s \in ServiceSet /\ Tail(inv.todo) \in Seq(ServiceSet) /\ InvocationOK(inv)
      /\ Elems(inv.todo) = {s} \cup Elems(Tail(inv.todo)) /\ Validate(cfg)
      /\ Len(inv.todo) # 1 => Tail(inv.todo) # <<>>
      /\ Len(inv.todo) = 1 => Elems(inv.todo) = {s}
  BY <1>1, TodoOK DEF Visiting
<1>3. Elems(inv.act) = ServiceSet /\ cfg.dsn = ServiceSet /\ inv.mode \in Batch
  BY <1>1 DEF Control, At
<1>4. Moved(inv, next, p, Tail(inv.todo), inv.act) /\ Moved(inv, err, "batchend", inv.todo, inv.act)
  <2>1. p \in Pcs /\ "batchend" \in Pcs
    BY PcsAre DEF Places
  <2>2. next = [inv EXCEPT !.todo = Tail(inv.todo), !.pc = p]
    BY <1>1
  <2> HIDE DEF next, p
  <2> QED BY <1>2, <2>1, <2>2, Moves DEF InvocationOK
<1>5. ManifestOK(m') /\ m'.err = TRUE
  BY <1>1 DEF DeferredCleanup, ManifestOK
<1> HIDE DEF s, next, err
<1>6. PlanRan(s, TRUE, {}, next, err)
  BY <1>1, <1>2, <1>4, <1>5, DeactivateDoes DEF Moved, Beside
<1>7. PICK t : \E ok, hit \in BOOLEAN : Result(s, TRUE, {}, next, err, t, ok, hit)
  BY <1>6 DEF PlanRan
<1>0. PICK ok \in BOOLEAN, hit \in BOOLEAN : Result(s, TRUE, {}, next, err, t, ok, hit)
  BY <1>7
<1>8. Types' /\ Ran(s, t) /\ Follows(IF ok THEN next ELSE err, inv', hit)
  BY <1>0 DEF Result
<1>9. (ok = TRUE /\ hit = FALSE => t.active = {}) /\ (hit = FALSE => ok = TRUE)
  BY <1>0, <1>2, <1>3 DEF Result
<1>10. /\ inv'.act = inv.act /\ inv'.mode = inv.mode /\ inv'.size = inv.size /\ inv'.clean = inv.clean
       /\ inv'.rest = inv.rest /\ inv'.touched = inv.touched /\ inv'.out = inv.out /\ inv'.exact = inv.exact
       /\ inv'.sql = 0 => inv.sql = 0 /\ hit = FALSE
       /\ ok = TRUE => inv'.pc = p /\ inv'.todo = Tail(inv.todo)
       /\ inv'.pc \in {"batchend", p}
       /\ inv'.pc = "cleanup" => inv'.todo = Tail(inv.todo)
  BY <1>4, <1>8 DEF Follows, Moved, Same
<1>11. Control'
  BY <1>1, <1>2, <1>3, <1>10 DEF Control, At, Visiting, Up, Rising1, Running, After
<1>12. Swept'
  <2>1. inv'.sql = 0 => Elems(inv.todo) \ {s} \subseteq MayBeActive'
    BY <1>2, <1>9, <1>10 DEF MayBeActive, Up, Rising1, Running
  <2> QED BY <1>1, <1>8, <1>9, <1>10, <2>1, SweptOn
<1>13. Reported'
  BY <1>5, <1>10 DEF Reported, At
<1>14. Exact'
  BY <1>5, <1>10 DEF Exact, At, Rising1, Running, After
<1>15. Replayed'
  <2>1. ReplayOK'
    BY <1>1, <1>10, SameReplay DEF Replayed
  <2> QED BY <1>5, <1>10, <2>1 DEF Replayed, At, NotYet, Rising1, After
<1>16. Rising'
  BY <1>1, <1>10 DEF Rising, At
<1>17. Read'
  BY <1>1 DEF Read
<1> QED BY <1>8, <1>11, <1>12, <1>13, <1>14, <1>15, <1>16, <1>17

\* Deactivation: the service visited is swept, a failure goes on to the cleanup.
LEMMA DeactivateStep ==
    ASSUME CapacityInv, Deactivate
    PROVE  CapacityInv'
<1> USE DEF CapacityInv
<1> DEFINE s == Head(inv.todo)
           batch == inv.mode # "deactivate"
           next == IF Len(inv.todo) > 1 THEN [inv EXCEPT !.todo = Tail(@)]
                   ELSE IF batch THEN [inv EXCEPT !.pc = "prom2", !.todo = <<>>, !.act = <<>>]
                   ELSE Ended("ok")
           err == IF batch THEN [inv EXCEPT !.pc = "cleanup", !.todo = inv.act] ELSE Ended("err")
<1>1. /\ inv.pc = "deactivate" /\ UNCHANGED <<cfg, rp, failing, file, look>> /\ look.kind # "detect" /\ Types
      /\ ManifestOK(m)
      /\ Exec(s, WriteDeactivateSQL(cfg, s), FALSE, next, err)
  BY DEF Deactivate, At, Read, Types, outside
<1>2. /\ s \in ServiceSet /\ Tail(inv.todo) \in Seq(ServiceSet) /\ InvocationOK(inv)
      /\ Elems(inv.todo) = {s} \cup Elems(Tail(inv.todo)) /\ Validate(cfg)
      /\ Len(inv.todo) # 1 => Tail(inv.todo) # <<>>
      /\ Len(inv.todo) = 1 => Elems(inv.todo) = {s}
      /\ Len(inv.todo) \in Nat /\ Len(inv.todo) > 0 /\ inv.act \in Seq(ServiceSet)
  BY <1>1, TodoOK DEF Visiting
<1>3. /\ batch => inv.mode \in Batch /\ Elems(inv.act) = ServiceSet /\ cfg.dsn = ServiceSet /\ inv.act # <<>>
      /\ ~batch => inv.mode = "deactivate" /\ rp.pc = "none"
      /\ inv.out = "none"
  <2>1. ServiceSet # {}
    BY <1>2
  <2> QED BY <1>1, <1>2, <2>1, ElemsOf DEF Control, At, Replayed, Batch
<1>4. /\ Moved(inv, [inv EXCEPT !.todo = Tail(inv.todo)], "deactivate", Tail(inv.todo), inv.act)
      /\ Moved(inv, [inv EXCEPT !.pc = "prom2", !.todo = <<>>, !.act = <<>>], "prom2", <<>>, <<>>)
      /\ Moved(inv, [inv EXCEPT !.pc = "cleanup", !.todo = inv.act], "cleanup", inv.act, inv.act)
      /\ Over(inv, Ended("ok"), "ok") /\ Over(inv, Ended("err"), "err")
  <2>1. "deactivate" \in Pcs /\ "prom2" \in Pcs /\ "cleanup" \in Pcs /\ <<>> \in Seq(ServiceSet)
    BY PcsAre DEF Places
  <2> QED BY <1>1, <1>2, <2>1, Moves, EndedOK
<1>5. /\ Len(inv.todo) > 1 => Moved(inv, next, "deactivate", Tail(inv.todo), inv.act)
      /\ ~(Len(inv.todo) > 1) /\ batch => Moved(inv, next, "prom2", <<>>, <<>>)
      /\ ~(Len(inv.todo) > 1) /\ ~batch => Over(inv, next, "ok")
      /\ batch => Moved(inv, err, "cleanup", inv.act, inv.act)
      /\ ~batch => Over(inv, err, "err")
  BY <1>4
<1>6. /\ ManifestOK(m') /\ m'.parts = m.parts
      /\ inv'.pc = "cleanup" => m'.err = TRUE
  BY <1>1 DEF Deactivate, ManifestOK
<1> HIDE DEF s, next, err, batch
<1>7. InvocationOK(next) /\ InvocationOK(err)
  BY <1>5 DEF Moved, Over
<1>8. PlanRan(s, FALSE, {}, next, err)
  BY <1>1, <1>2, <1>6, <1>7, DeactivateDoes DEF Beside
<1>9. PICK t : \E ok, hit \in BOOLEAN : Result(s, FALSE, {}, next, err, t, ok, hit)
  BY <1>8 DEF PlanRan
<1>0. PICK ok \in BOOLEAN, hit \in BOOLEAN : Result(s, FALSE, {}, next, err, t, ok, hit)
  BY <1>9
<1>10. Types' /\ Ran(s, t) /\ (ok = TRUE /\ hit = FALSE => t.active = {})
  BY <1>0 DEF Result
<1>11. Follows(IF ok THEN next ELSE err, inv', hit)
  BY <1>0 DEF Result
<1>12. CASE ok = TRUE /\ Len(inv.todo) > 1
  <2>0. Moved(inv, next, "deactivate", Tail(inv.todo), inv.act) /\ Follows(next, inv', hit)
    BY <1>5, <1>11, <1>12
  <2>1. /\ inv'.pc = "deactivate" /\ inv'.todo = Tail(inv.todo) /\ inv'.act = inv.act /\ inv'.out = inv.out
        /\ inv'.mode = inv.mode /\ inv'.size = inv.size /\ inv'.clean = inv.clean /\ inv'.rest = inv.rest
        /\ inv'.touched = inv.touched /\ inv'.exact = inv.exact
        /\ inv'.sql = 0 => inv.sql = 0 /\ hit = FALSE
    BY <2>0 DEF Follows, Moved, Same
  <2>10. inv'.sql = 0 => inv.sql = 0 /\ t.active = {}
    BY <1>10, <1>12, <2>1
  <2>2. Control'
    <3>1. /\ Validate(cfg) /\ inv.out = "none" /\ inv.mode \in Batch \cup {"deactivate"}
          /\ inv.mode \in Batch => Elems(inv.act) = ServiceSet /\ cfg.dsn = ServiceSet
      BY <1>1, <1>2 DEF Control, At
    <3>2. Tail(inv.todo) # <<>>
      <4>1. PICK n \in Nat : n = Len(inv.todo)
        BY <1>2
      <4>2. n > 1
        BY <1>12, <4>1, Zenon
      <4>3. n # 1
        BY <4>2
      <4> QED BY <1>2, <4>1, <4>3, Zenon
    <3> QED BY <1>1, <2>1, <3>1, <3>2 DEF Control, At, Visiting, Up, Rising1, Running, After
  <2>3. Swept'
    <3>1. MayBeActive' = Elems(Tail(inv.todo))
      BY <2>1 DEF MayBeActive, Up, Rising1, Running
    <3> QED BY <1>1, <1>2, <1>10, <2>1, <2>10, <3>1, SweptOn
  <2>4. Reported'
    BY <2>1 DEF Reported, At
  <2>5. Exact'
    BY <1>1, <2>1 DEF Exact, At, Rising1, Running, After
  <2>6. Replayed'
    <3>1. ReplayOK'
      BY <1>1, <2>1, SameReplay DEF Replayed
    <3> QED BY <1>1, <1>6, <2>1, <3>1 DEF Replayed, At, NotYet, Rising1, After
  <2>7. Rising'
    BY <1>1, <2>1 DEF Rising, At
  <2>8. Read'
    BY <1>1 DEF Read
  <2> QED BY <1>10, <2>2, <2>3, <2>4, <2>5, <2>6, <2>7, <2>8
<1>13. CASE ok = TRUE /\ ~(Len(inv.todo) > 1) /\ batch
  <2>0. Moved(inv, next, "prom2", <<>>, <<>>) /\ Follows(next, inv', hit)
    BY <1>5, <1>11, <1>13
  <2>1. /\ inv'.pc = "prom2" /\ inv'.todo = <<>> /\ inv'.act = <<>> /\ inv'.out = inv.out
        /\ inv'.mode = inv.mode /\ inv'.size = inv.size /\ inv'.clean = inv.clean /\ inv'.rest = inv.rest
        /\ inv'.touched = inv.touched /\ inv'.exact = inv.exact
        /\ inv'.sql = 0 => inv.sql = 0 /\ t.active = {}
    BY <2>0, <1>10, <1>13 DEF Follows, Moved, Same
  <2>2. Control'
    BY <1>1, <1>2, <1>3, <1>13, <2>1 DEF Control, At, Visiting, Up, Rising1, Running, After
  <2>3. Swept'
    <3>1. Elems(inv.todo) = {s}
      BY <1>2, <1>13
    <3> QED BY <1>1, <1>10, <2>1, <3>1, SweptOn
  <2>4. Reported'
    BY <2>1 DEF Reported, At
  <2>5. Exact'
    BY <1>1, <1>3, <1>13, <2>1 DEF Exact, At, Rising1, Running, After
  <2>6. Replayed'
    <3>1. ReplayOK'
      BY <1>1, <2>1, SameReplay DEF Replayed
    <3> QED BY <1>1, <1>6, <2>1, <3>1 DEF Replayed, At, NotYet, Rising1, After
  <2>7. Rising'
    BY <1>1, <2>1 DEF Rising, At
  <2>8. Read'
    BY <1>1 DEF Read
  <2> QED BY <1>10, <2>2, <2>3, <2>4, <2>5, <2>6, <2>7, <2>8
<1>14. CASE ok = FALSE /\ batch
  <2>0. Moved(inv, err, "cleanup", inv.act, inv.act) /\ Follows(err, inv', hit)
    BY <1>5, <1>11, <1>14
  <2>1. /\ inv'.pc = "cleanup" /\ inv'.todo = inv.act /\ inv'.act = inv.act /\ inv'.out = inv.out
        /\ inv'.mode = inv.mode /\ inv'.size = inv.size /\ inv'.clean = inv.clean /\ inv'.rest = inv.rest
        /\ inv'.touched = inv.touched
    BY <2>0, <1>14 DEF Follows, Moved, Same
  <2>2. Control'
    BY <1>1, <1>2, <1>3, <1>14, <2>1 DEF Control, At, Visiting, Up, Rising1, Running, After
  <2>3. Swept'
    <3>1. MayBeActive' = ServiceSet /\ inv'.touched \subseteq ServiceSet
      BY <1>2, <1>3, <1>14, <2>1 DEF MayBeActive, Up, Rising1, Running, InvocationOK
    <3> QED BY <3>1 DEF Swept
  <2>4. Reported'
    BY <1>6, <2>1 DEF Reported, At
  <2>5. Exact'
    BY <2>1 DEF Exact, At, Rising1, Running, After
  <2>6. Replayed'
    <3>1. ReplayOK'
      BY <1>1, <2>1, SameReplay DEF Replayed
    <3> QED BY <2>1, <3>1 DEF Replayed, At, NotYet, Rising1, After
  <2>7. Rising'
    BY <1>1, <2>1 DEF Rising, At
  <2>8. Read'
    BY <1>1 DEF Read
  <2> QED BY <1>10, <2>2, <2>3, <2>4, <2>5, <2>6, <2>7, <2>8
<1>15. CASE (ok = FALSE \/ ~(Len(inv.todo) > 1)) /\ ~batch
  <2>1. inv'.pc = "idle" /\ inv'.mode = inv.mode
    BY <1>5, <1>11, <1>15 DEF Follows, Over
  <2>2. Swept'
    BY <1>3, <1>15, <2>1 DEF Swept, Batch
  <2> QED BY <1>1, <1>3, <1>10, <1>15, <2>1, <2>2, IdleKeeps
<1> QED BY <1>12, <1>13, <1>14, <1>15

\* The cleanup of a partial activation visits the service that failed too.
LEMMA PartialStep ==
    ASSUME CapacityInv, PartialActivationCleanup
    PROVE  CapacityInv'
<1> USE DEF CapacityInv
<1> DEFINE s == Head(inv.todo)
           alone == inv.mode = "activate"
           over == IF inv.mode = "activate" THEN Ended("err")
                   ELSE [inv EXCEPT !.pc = "batchend", !.act = <<>>, !.todo = <<>>]
           next == IF Len(inv.todo) = 1 THEN over ELSE [inv EXCEPT !.todo = Tail(@)]
<1>1. /\ inv.pc = "partial" /\ UNCHANGED <<cfg, rp, failing, file, look>> /\ look.kind # "detect" /\ Types
      /\ rp.pc = "none" /\ m' = [LifeFailed EXCEPT !.err = TRUE]
      /\ Exec(s, WriteDeactivateSQL(cfg, s), TRUE, next, over)
  BY DEF PartialActivationCleanup, At, Read, Types, outside, Replayed, NotYet
<1>2. /\ s \in ServiceSet /\ Tail(inv.todo) \in Seq(ServiceSet) /\ InvocationOK(inv)
      /\ Elems(inv.todo) = {s} \cup Elems(Tail(inv.todo)) /\ Validate(cfg)
      /\ Len(inv.todo) # 1 => Tail(inv.todo) # <<>>
      /\ Len(inv.todo) = 1 => Elems(inv.todo) = {s}
      /\ Len(inv.todo) \in Nat /\ Len(inv.todo) > 0 /\ inv.act \in Seq(ServiceSet) /\ inv.todo \in Seq(ServiceSet)
  BY <1>1, TodoOK DEF Visiting
<1>3. /\ ~alone => inv.mode \in Batch
      /\ inv.mode \in Batch \cup {"activate"} /\ inv.out = "none"
      /\ \A i \in 1..(Len(inv.todo) - 1) : inv.todo[i] \in cfg.dsn
      /\ Len(inv.todo) # 1 => s \in cfg.dsn
  <2>1. /\ inv.mode \in Batch \cup {"activate"} /\ inv.out = "none"
        /\ \A i \in 1..(Len(inv.todo) - 1) : inv.todo[i] \in cfg.dsn
    BY <1>1 DEF Control, At
  <2>2. s = inv.todo[1]
    BY <1>2, ElemsOf
  <2> QED BY <1>2, <2>1, <2>2
<1>4. /\ Moved(inv, [inv EXCEPT !.todo = Tail(inv.todo)], "partial", Tail(inv.todo), inv.act)
      /\ Moved(inv, [inv EXCEPT !.pc = "batchend", !.act = <<>>, !.todo = <<>>], "batchend", <<>>, <<>>)
      /\ Over(inv, Ended("err"), "err")
  <2>1. "partial" \in Pcs /\ "batchend" \in Pcs /\ <<>> \in Seq(ServiceSet)
    BY PcsAre DEF Places
  <2> QED BY <1>1, <1>2, <2>1, Moves, EndedOK
<1>5. /\ Len(inv.todo) # 1 => Moved(inv, next, "partial", Tail(inv.todo), inv.act)
      /\ Len(inv.todo) = 1 => next = over
      /\ ~alone => Moved(inv, over, "batchend", <<>>, <<>>)
      /\ alone => Over(inv, over, "err")
  BY <1>4
<1>6. ManifestOK(m') /\ m'.err = TRUE
  <2>1. ManifestOK(LifeFailed)
    BY <1>1, LifeFailedOK
  <2> QED BY <1>1, <2>1 DEF ManifestOK
<1> HIDE DEF s, next, over, alone
<1>7. InvocationOK(next) /\ InvocationOK(over)
  BY <1>5 DEF Moved, Over
<1>8. PlanRan(s, TRUE, {}, next, over)
  BY <1>1, <1>2, <1>6, <1>7, DeactivateDoes DEF Beside
<1>9. PICK t : \E ok, hit \in BOOLEAN : Result(s, TRUE, {}, next, over, t, ok, hit)
  BY <1>8 DEF PlanRan
<1>0. PICK ok \in BOOLEAN, hit \in BOOLEAN : Result(s, TRUE, {}, next, over, t, ok, hit)
  BY <1>9
<1>10. /\ Types' /\ Ran(s, t) /\ (ok = TRUE /\ hit = FALSE => t.active = {})
       /\ hit = FALSE /\ s \in cfg.dsn => ok = TRUE
  BY <1>0 DEF Result
<1>11. Follows(IF ok THEN next ELSE over, inv', hit)
  BY <1>0 DEF Result
<1>12. CASE ok = TRUE /\ Len(inv.todo) # 1
  <2>0. Moved(inv, next, "partial", Tail(inv.todo), inv.act) /\ Follows(next, inv', hit)
    BY <1>5, <1>11, <1>12
  <2>1. /\ inv'.pc = "partial" /\ inv'.todo = Tail(inv.todo) /\ inv'.out = inv.out
        /\ inv'.mode = inv.mode /\ inv'.size = inv.size /\ inv'.clean = inv.clean /\ inv'.rest = inv.rest
        /\ inv'.touched = inv.touched
        /\ inv'.sql = 0 => inv.sql = 0 /\ t.active = {}
    BY <2>0, <1>10, <1>12 DEF Follows, Moved, Same
  <2>2. Control'
    <3>1. \A i \in 1..(Len(Tail(inv.todo)) - 1) : Tail(inv.todo)[i] \in cfg.dsn
      <4>1. Len(Tail(inv.todo)) = Len(inv.todo) - 1 /\ \A i \in 1..Len(Tail(inv.todo)) : Tail(inv.todo)[i] = inv.todo[i + 1]
        BY <1>2, ElemsOf, EmptySeq
      <4> QED BY <1>2, <1>3, <4>1
    <3> QED BY <1>1, <1>2, <1>3, <1>12, <2>1, <3>1 DEF Control, At, Visiting, Up, Rising1, Running, After
  <2>3. Swept'
    <3>1. MayBeActive' = Elems(Tail(inv.todo))
      BY <2>1 DEF MayBeActive, Up, Rising1, Running
    <3> QED BY <1>1, <1>2, <1>10, <2>1, <3>1, SweptOn
  <2>4. Reported' /\ Exact'
    BY <2>1 DEF Reported, Exact, At, Rising1, Running, After
  <2>5. Replayed'
    <3>1. ReplayOK'
      BY <1>1, <2>1, SameReplay DEF Replayed
    <3> QED BY <1>1, <2>1, <3>1 DEF Replayed, At, NotYet, Rising1, After
  <2>6. Rising'
    BY <1>1, <2>1 DEF Rising, At
  <2>7. Read'
    BY <1>1 DEF Read
  <2> QED BY <1>10, <2>2, <2>3, <2>4, <2>5, <2>6, <2>7
<1>13. CASE ~(ok = TRUE /\ Len(inv.todo) # 1)
  <2>0. Follows(over, inv', hit)
    BY <1>5, <1>11, <1>13
  <2>1. CASE alone
    <3>1. inv'.pc = "idle" /\ inv'.mode = inv.mode
      BY <2>0, <2>1, <1>5 DEF Follows, Over
    <3>2. Swept'
      BY <2>1, <3>1 DEF Swept, Batch, alone
    <3> QED BY <1>1, <1>10, <3>1, <3>2, IdleKeeps
  <2>2. CASE ~alone
    <3>1. /\ inv'.pc = "batchend" /\ inv'.out = inv.out
          /\ inv'.mode = inv.mode /\ inv'.size = inv.size /\ inv'.clean = inv.clean /\ inv'.rest = inv.rest
          /\ inv'.touched = inv.touched
          /\ inv'.sql = 0 => inv.sql = 0 /\ hit = FALSE
      BY <2>0, <2>2, <1>5 DEF Follows, Moved, Same
    <3>2. Control'
      BY <1>1, <1>2, <1>3, <2>2, <3>1 DEF Control, At, Visiting, Up, Rising1, Running, After
    <3>3. Swept'
      <4>1. inv'.sql = 0 => Elems(inv.todo) = {s} /\ (t.active = {} \/ s \notin cfg.dsn)
        BY <1>2, <1>3, <1>10, <1>13, <3>1
      <4> QED BY <1>1, <1>10, <3>1, <4>1, SweptOn
    <3>4. Reported' /\ Exact'
      BY <1>6, <3>1 DEF Reported, Exact, At, Rising1, Running, After
    <3>5. Replayed'
      <4>1. ReplayOK'
        BY <1>1, <3>1, SameReplay DEF Replayed
      <4> QED BY <1>1, <1>6, <3>1, <4>1 DEF Replayed, At, NotYet, Rising1, After
    <3>6. Rising'
      BY <1>1, <3>1 DEF Rising, At
    <3>7. Read'
      BY <1>1 DEF Read
    <3> QED BY <1>10, <3>2, <3>3, <3>4, <3>5, <3>6, <3>7
  <2> QED BY <2>1, <2>2
<1> QED BY <1>12, <1>13

-----------------------------------------------------------------------------
(* Activating the services *)

\* Tried(i, s): the invocation has tried to activate s as well.
Tried(i, j, p, q, s) ==
    /\ InvocationOK(j) /\ j.pc = p /\ j.todo = q /\ j.act = Append(i.act, s) /\ j.touched = i.touched \cup {s}
    /\ j.mode = i.mode /\ j.size = i.size /\ j.clean = i.clean /\ j.rest = i.rest
    /\ j.sql = i.sql /\ j.exact = i.exact /\ j.out = i.out

\* A service is among those to clean up from the moment its activation is tried.
LEMMA TriedOK ==
    ASSUME InvocationOK(inv), NEW s \in ServiceSet, NEW tried,
           tried = [inv EXCEPT !.act = Append(@, s), !.touched = @ \cup {s}]
    PROVE  /\ Tried(inv, [tried EXCEPT !.pc = "count"], "count", inv.todo, s)
           /\ Tried(inv, Partial(tried), "partial", Append(inv.act, s), s)
<1>1. "count" \in Pcs /\ "partial" \in Pcs
  BY PcsAre DEF Places
<1>2. PICK a \in Seq(ServiceSet), u \in SUBSET ServiceSet :
         a = Append(inv.act, s) /\ u = inv.touched \cup {s} /\ tried = [inv EXCEPT !.act = a, !.touched = u]
  BY ElemsAppend DEF InvocationOK
<1>3. /\ InvocationOK(tried) /\ tried.act = a /\ tried.touched = u /\ tried.todo = inv.todo
      /\ tried.mode = inv.mode /\ tried.size = inv.size /\ tried.clean = inv.clean /\ tried.rest = inv.rest
      /\ tried.sql = inv.sql /\ tried.exact = inv.exact /\ tried.out = inv.out
  BY <1>2 DEF InvocationOK
<1>4. Moved(tried, [tried EXCEPT !.pc = "count"], "count", tried.todo, tried.act)
  BY <1>1, <1>3, Moves DEF InvocationOK
<1>5. Moved(tried, Partial(tried), "partial", tried.act, tried.act)
  BY <1>1, <1>2, <1>3, Moves DEF Partial
<1> QED BY <1>2, <1>3, <1>4, <1>5 DEF Moved, Same, Tried

\* An activate plan as a step.
LEMMA ActivateDoes ==
    ASSUME Types, Beside, NEW s \in ServiceSet, NEW k \in Int, NEW next, InvocationOK(next),
           NEW err, InvocationOK(err), Exec(s, WriteActivateSQL(cfg, s, k), FALSE, next, err)
    PROVE  PlanRan(s, FALSE, 0..(k - 1), next, err)
<1>1. cfg.count[s] \in Int
  BY CountsAreInts
<1>2. PICK K : K = 0..(k - 1)
  OBVIOUS
<1>3. /\ PlanOver(WriteActivateSQL(cfg, s, k), cfg.count[s])
      /\ Activating(WriteActivateSQL(cfg, s, k), cfg.count[s], K)
  BY <1>1, <1>2, ActivatePlan
<1>4. K # Int
  <2>1. k \in Int /\ k \notin 0..(k - 1)
    OBVIOUS
  <2> QED BY <1>2, <2>1
<1>5. Executes(s, FALSE, K, next, err)
  BY <1>3, <1>4, ExecDoes
<1> QED BY <1>2, <1>5, PlanRuns

LEMMA ActivateStep ==
    ASSUME CapacityInv, Activate
    PROVE  CapacityInv'
<1> USE DEF CapacityInv
<1> DEFINE s == Head(inv.todo)
<1>1. PICK tried : tried = [inv EXCEPT !.act = Append(@, s), !.touched = @ \cup {s}]
  OBVIOUS
<1> DEFINE next == [tried EXCEPT !.pc = "count"]
           err == Partial(tried)
<1>2. /\ inv.pc = "activate" /\ UNCHANGED <<cfg, rp, failing, file, look>> /\ look.kind # "detect" /\ Types
      /\ rp.pc = "none" /\ m.replayed = FALSE /\ m' = [m EXCEPT !.life = "running"]
      /\ \/ Exec(s, WriteActivateSQL(cfg, s, inv.size), FALSE, next, err)
         \/ inv' = err /\ UNCHANGED <<db, faults, cancelled>>
  BY <1>1 DEF Activate, At, Read, Types, outside, Replayed, NotYet
<1>3. /\ s \in ServiceSet /\ InvocationOK(inv) /\ inv.todo # <<>>
      /\ Elems(inv.todo) = {s} \cup Elems(Tail(inv.todo)) /\ Validate(cfg)
      /\ inv.act \in Seq(ServiceSet) /\ inv.todo \in Seq(ServiceSet)
  BY <1>2, TodoOK DEF Visiting
<1>4. /\ Append(inv.act, s) # <<>> /\ Elems(Append(inv.act, s)) = Elems(inv.act) \cup {s}
      /\ \A i \in 1..(Len(Append(inv.act, s)) - 1) : Append(inv.act, s)[i] \in Elems(inv.act)
  BY <1>3, ElemsAppend
<1>5. /\ Elems(inv.act) \subseteq cfg.dsn /\ Elems(inv.act) \cup Elems(inv.todo) = ServiceSet
      /\ inv.mode \in Batch \cup {"activate"} /\ inv.out = "none"
  BY <1>2 DEF Control, At
<1>6. ManifestOK(m') /\ m'.replayed = FALSE
  <2>1. ManifestOK(m)
    BY <1>2 DEF Types
  <2> QED BY <1>2, <2>1 DEF ManifestOK
<1>7. Tried(inv, next, "count", inv.todo, s) /\ Tried(inv, err, "partial", Append(inv.act, s), s)
  BY <1>1, <1>3, TriedOK
<1> HIDE DEF s, next, err
\* What is left to do: the place, and the rows of the service just tried.
<1>8. ASSUME NEW t, NEW ok \in BOOLEAN, NEW hit \in BOOLEAN, Types', Ran(s, t),
             Follows(IF ok THEN next ELSE err, inv', hit),
             ok = TRUE => s \in cfg.dsn, ok = TRUE /\ hit = FALSE => t.active \subseteq 0..(inv.size - 1)
      PROVE  CapacityInv'
  <2>1. /\ inv'.act = Append(inv.act, s) /\ inv'.out = inv.out /\ inv'.touched = inv.touched \cup {s}
        /\ inv'.mode = inv.mode /\ inv'.size = inv.size /\ inv'.clean = inv.clean /\ inv'.rest = inv.rest
        /\ inv'.sql = 0 => inv.sql = 0 /\ hit = FALSE
        /\ ok = TRUE => inv'.pc = "count" /\ inv'.todo = inv.todo
        /\ ok = FALSE => inv'.pc = "partial" /\ inv'.todo = Append(inv.act, s)
    <3>1. CASE ok = TRUE
      <4>1. Follows(next, inv', hit)
        BY <1>8, <3>1
      <4> QED BY <1>7, <3>1, <4>1 DEF Follows, Tried
    <3>2. CASE ok = FALSE
      <4>1. Follows(err, inv', hit)
        BY <1>8, <3>2
      <4> QED BY <1>7, <3>2, <4>1 DEF Follows, Tried
    <3> QED BY <3>1, <3>2
  <2>2. Control'
    <3>1. CASE ok = TRUE
      <4>1. s \in Elems(Append(inv.act, s)) /\ Elems(Append(inv.act, s)) \subseteq cfg.dsn
            /\ Elems(Append(inv.act, s)) \cup Elems(inv.todo) = ServiceSet
        BY <1>3, <1>4, <1>5, <1>8, <3>1
      <4> QED BY <1>2, <1>3, <1>5, <2>1, <3>1, <4>1 DEF Control, At, Visiting, Up, Rising1, Running, After, s
    <3>2. CASE ok = FALSE
      <4>1. \A i \in 1..(Len(Append(inv.act, s)) - 1) : Append(inv.act, s)[i] \in cfg.dsn
        BY <1>4, <1>5
      <4> QED BY <1>2, <1>3, <1>4, <1>5, <2>1, <3>2, <4>1 DEF Control, At, Visiting, Up, Rising1, Running, After
    <3> QED BY <3>1, <3>2
  <2>3. Swept'
    <3> SUFFICES ASSUME inv'.mode \in Batch, inv'.sql = 0, NEW x \in (inv'.touched \cap cfg'.dsn) \ MayBeActive'
                 PROVE  db'[x].active = {}
      BY DEF Swept
    <3>1. MayBeActive' = Elems(inv.act) \cup {s} /\ MayBeActive = Elems(inv.act)
      BY <1>2, <1>4, <2>1 DEF MayBeActive
    <3>2. x \in inv.touched \cap cfg.dsn /\ x \in ServiceSet /\ x # s /\ x \notin MayBeActive
      BY <1>2, <1>3, <2>1, <3>1 DEF InvocationOK
    <3>3. db[x].active = {}
      BY <1>5, <2>1, <3>2 DEF Swept
    <3> QED BY <1>8, <3>2, <3>3 DEF Ran
  <2>4. Reported'
    BY <2>1 DEF Reported, At
  <2>5. Exact'
    <3>1. CASE ok = FALSE
      BY <2>1, <3>1 DEF Exact, At, Rising1, Running, After
    <3>2. CASE ok = TRUE
      <4> SUFFICES ASSUME inv'.sql = 0
                   PROVE  /\ \A x \in Elems(inv'.act) \ {Head(inv'.todo)} : Prefix(x, inv.size)'
                          /\ db'[Head(inv'.todo)].active \subseteq 0..(inv'.size - 1)
        BY <2>1, <3>2 DEF Exact, At, Rising1, Running, After
      <4>1. inv.sql = 0 /\ t.active \subseteq 0..(inv.size - 1) /\ Head(inv'.todo) = s
        BY <1>8, <2>1, <3>2 DEF s
      <4>2. \A x \in Elems(inv.act) : db[x].active = 0..(inv.size - 1) /\ x \in ServiceSet
        BY <1>2, <1>5, <4>1 DEF Exact, At, Prefix
      <4>3. \A x \in Elems(inv'.act) \ {s} : db'[x].active = 0..(inv.size - 1)
        BY <1>4, <1>8, <2>1, <4>2 DEF Ran
      <4> QED BY <1>8, <2>1, <4>1, <4>3 DEF Ran, Prefix
    <3> QED BY <3>1, <3>2
  <2>6. Replayed'
    <3>1. ReplayOK'
      BY <1>2, <2>1, SameReplay DEF Replayed
    <3> QED BY <1>2, <1>6, <2>1, <3>1 DEF Replayed, At, NotYet, Rising1, After
  <2>7. Rising'
    BY <1>2, <2>1 DEF Rising, At
  <2>8. Read'
    BY <1>2 DEF Read
  <2> QED BY <1>8, <2>2, <2>3, <2>4, <2>5, <2>6, <2>7, <2>8
<1>9. CASE Exec(s, WriteActivateSQL(cfg, s, inv.size), FALSE, next, err)
  <2>1. InvocationOK(next) /\ InvocationOK(err) /\ inv.size \in Int /\ Beside
    BY <1>2, <1>3, <1>6, <1>7 DEF Tried, InvocationOK, Beside
  <2>2. PlanRan(s, FALSE, 0..(inv.size - 1), next, err)
    BY <1>2, <1>3, <1>9, <2>1, ActivateDoes
  <2>3. PICK t : \E ok, hit \in BOOLEAN : Result(s, FALSE, 0..(inv.size - 1), next, err, t, ok, hit)
    BY <2>2 DEF PlanRan
  <2>4. PICK ok \in BOOLEAN, hit \in BOOLEAN : Result(s, FALSE, 0..(inv.size - 1), next, err, t, ok, hit)
    BY <2>3
  <2> QED BY <1>8, <2>4 DEF Result
<1>10. CASE inv' = err /\ UNCHANGED <<db, faults, cancelled>>
  <2>1. Types'
    BY <1>2, <1>6, <1>7, <1>10 DEF Types, Tried
  <2>2. Ran(s, db[s]) /\ Follows(IF FALSE THEN next ELSE err, inv', FALSE)
    BY <1>7, <1>10 DEF Ran, Follows, Tried
  <2> QED BY <1>8, <2>1, <2>2
<1> QED BY <1>2, <1>9, <1>10

\* As many rows of the first n as there are: all of them.
LEMMA CountIsPrefix ==
    ASSUME NEW n \in Int, NEW A \in SUBSET (0..(n - 1)), Cardinality(A) = n
    PROVE  A = 0..(n - 1)
<1> DEFINE I == 0..(n - 1)
<1>1. IsFiniteSet(I) /\ Cardinality(I) = IF 0 > n - 1 THEN 0 ELSE n - 1 - 0 + 1
  BY FS_Interval
<1>2. IsFiniteSet(A) /\ (Cardinality(I) = Cardinality(A) => I = A)
  <2> HIDE DEF I
  <2>1. A \in SUBSET I
    BY DEF I
  <2> QED BY <1>1, <2>1, FS_Subset
<1>3. n >= 0
  <2>1. Cardinality(A) \in Nat
    BY <1>2, FS_CardinalityType
  <2> QED BY <2>1
<1>4. Cardinality(I) = n
  BY <1>1, <1>3
<1> QED BY <1>2, <1>4

\* A count of 0 means that no row is active.
LEMMA NoneCounted ==
    ASSUME Types, NEW s \in ServiceSet, Active(s) = 0
    PROVE  db[s].active = {}
<1>1. cfg.count[s] \in Int
  BY CountsAreInts
<1>2. db[s].active \in SUBSET (0..(cfg.count[s] - 1))
  BY DEF Types, TableOK
<1>3. IsFiniteSet(0..(cfg.count[s] - 1))
  BY <1>1, FS_Interval
<1>4. IsFiniteSet(db[s].active)
  BY <1>2, <1>3, FS_Subset
<1> QED BY <1>4, FS_EmptySet DEF Active

\* The count that was asked for, over rows below it, is the rows below it.
LEMMA CountStep ==
    ASSUME CapacityInv, VerifyActiveCount
    PROVE  CapacityInv'
<1> USE DEF CapacityInv
<1> DEFINE s == Head(inv.todo)
           last == Len(inv.todo) = 1
<1>1. /\ inv.pc = "count" /\ Apart /\ m' = m /\ look' = look /\ look.kind # "detect" /\ Types /\ ManifestOK(m')
      /\ rp.pc = "none" /\ m.replayed = FALSE
  BY NoteCounts DEF VerifyActiveCount, At, Read, Types, outside, Replayed, NotYet, Apart
<1>2. /\ s \in ServiceSet /\ Tail(inv.todo) \in Seq(ServiceSet) /\ InvocationOK(inv)
      /\ Elems(inv.todo) = {s} \cup Elems(Tail(inv.todo)) /\ Validate(cfg)
      /\ ~last => Tail(inv.todo) # <<>>
      /\ last => Elems(inv.todo) = {s}
      /\ inv.act \in Seq(ServiceSet)
  BY <1>1, TodoOK DEF Visiting
<1>3. /\ Elems(inv.act) \subseteq cfg.dsn /\ Elems(inv.act) \cup Elems(inv.todo) = ServiceSet /\ s \in Elems(inv.act)
      /\ inv.mode \in Batch \cup {"activate"} /\ inv.out = "none" /\ inv.act # <<>>
  <2>1. /\ Elems(inv.act) \subseteq cfg.dsn /\ Elems(inv.act) \cup Elems(inv.todo) = ServiceSet /\ s \in Elems(inv.act)
        /\ inv.mode \in Batch \cup {"activate"} /\ inv.out = "none"
    BY <1>1 DEF Control, At
  <2> QED BY <1>2, <2>1, ElemsOf
<1>4. Still
  BY <1>1, ApartIsStill
<1>5. /\ Moved(inv, [inv EXCEPT !.pc = "activate", !.todo = Tail(inv.todo)], "activate", Tail(inv.todo), inv.act)
      /\ Moved(inv, [inv EXCEPT !.pc = "targets", !.todo = Services], "targets", Services, inv.act)
      /\ Moved(inv, Partial(inv), "partial", inv.act, inv.act)
      /\ Over(inv, Ended("ok"), "ok")
  <2>1. "activate" \in Pcs /\ "targets" \in Pcs /\ "partial" \in Pcs /\ Services \in Seq(ServiceSet)
    BY PcsAre, ServicesOK DEF Places
  <2> QED BY <1>2, <2>1, Moves, EndedOK DEF Partial
\* The places after this one: the replay has not begun.
<1>6. ASSUME inv'.pc \in {"activate", "targets", "partial"}, inv'.size = inv.size, inv'.mode = inv.mode,
             inv'.clean = inv.clean, inv'.rest = inv.rest, InvocationOK(inv')
      PROVE  Types' /\ Reported' /\ Replayed' /\ Rising' /\ Read'
  <2>1. Types'
    BY <1>1, <1>4, <1>6, StillTyped
  <2>2. ReplayOK'
    BY <1>1, <1>6, SameReplay DEF Apart, Replayed
  <2>3. Replayed'
    BY <1>1, <1>6, <2>2 DEF Replayed, Apart, At, NotYet, Rising1, After
  <2>4. Rising'
    BY <1>1, <1>6 DEF Rising, At
  <2> QED BY <1>1, <1>6, <2>1, <2>3, <2>4 DEF Reported, Read, At
<1>7. CASE Moved(inv, inv', "partial", inv.act, inv.act)
  <2>1. Types' /\ Reported' /\ Replayed' /\ Rising' /\ Read'
    BY <1>6, <1>7 DEF Moved, Same
  <2>2. Control'
    <3>1. \A i \in 1..(Len(inv.act) - 1) : inv.act[i] \in cfg.dsn
      BY <1>2, <1>3 DEF Elems
    <3> QED BY <1>1, <1>2, <1>3, <1>7, <3>1 DEF Control, Moved, Same, At, Visiting, Up, Rising1, Running, After, Apart
  <2>3. Swept'
    BY <1>1, <1>7 DEF Swept, Moved, Same, MayBeActive, Up, Rising1, Running, Apart
  <2>4. Exact'
    BY <1>7 DEF Exact, Moved, At, Rising1, Running, After
  <2> QED BY <2>1, <2>2, <2>3, <2>4
<1>8. CASE Active(s) = inv.size /\ ~last /\ Moved(inv, inv', "activate", Tail(inv.todo), inv.act)
  <2>1. Types' /\ Reported' /\ Replayed' /\ Rising' /\ Read'
    BY <1>6, <1>8 DEF Moved, Same
  <2>2. Control'
    BY <1>1, <1>2, <1>3, <1>8 DEF Control, Moved, Same, At, Visiting, Up, Rising1, Running, After, Apart
  <2>3. Swept'
    BY <1>1, <1>8 DEF Swept, Moved, Same, MayBeActive, Apart
  <2>4. Exact'
    <3> SUFFICES ASSUME inv'.sql = 0 PROVE \A x \in Elems(inv.act) : Prefix(x, inv.size)
      BY <1>1, <1>8 DEF Exact, Moved, Same, At, Rising1, Running, After, Apart, Prefix
    <3>1. /\ \A x \in Elems(inv.act) \ {s} : Prefix(x, inv.size)
          /\ db[s].active \subseteq 0..(inv.size - 1)
      BY <1>1, <1>8 DEF Exact, Moved, Same, At
    <3>2. Prefix(s, inv.size)
      BY <1>2, <1>8, <3>1, CountIsPrefix DEF Prefix, Active, InvocationOK
    <3> QED BY <3>1, <3>2
  <2> QED BY <2>1, <2>2, <2>3, <2>4
<1>9. CASE Active(s) = inv.size /\ last /\ inv.mode # "activate" /\ Moved(inv, inv', "targets", Services, inv.act)
  <2>1. Types' /\ Reported' /\ Replayed' /\ Rising' /\ Read'
    BY <1>6, <1>9 DEF Moved, Same
  <2>2. Elems(inv.act) = ServiceSet /\ cfg.dsn = ServiceSet /\ inv.mode \in Batch
    <3>1. cfg.dsn \subseteq ServiceSet
      BY <1>1, ConfigsAssumption DEF Types
    <3> QED BY <1>2, <1>3, <1>9, <3>1
  <2>3. Control'
    BY <1>1, <1>2, <1>3, <1>9, <2>2 DEF Control, Moved, Same, At, Visiting, Up, Rising1, Running, After, Apart
  <2>4. Swept'
    BY <1>1, <1>9 DEF Swept, Moved, Same, MayBeActive, Apart, Up, Rising1, Running
  <2>5. Exact'
    <3> SUFFICES ASSUME inv'.sql = 0 PROVE \A x \in ServiceSet : Prefix(x, inv.size)
      BY <1>1, <1>9 DEF Exact, Moved, Same, At, Rising1, Running, After, Apart, Prefix
    <3>1. /\ \A x \in ServiceSet \ {s} : Prefix(x, inv.size)
          /\ db[s].active \subseteq 0..(inv.size - 1)
      BY <1>1, <1>9, <2>2 DEF Exact, Moved, Same, At
    <3>2. Prefix(s, inv.size)
      BY <1>2, <1>9, <3>1, CountIsPrefix DEF Prefix, Active, InvocationOK
    <3> QED BY <3>1, <3>2
  <2> QED BY <2>1, <2>3, <2>4, <2>5
<1>10. CASE inv.mode = "activate" /\ Over(inv, inv', "ok")
  <2>1. Types'
    BY <1>1, <1>4, <1>10, StillTyped DEF Over
  <2>2. Swept'
    BY <1>10 DEF Swept, Over, Batch
  <2> QED BY <1>1, <1>10, <2>1, <2>2, IdleKeeps DEF Over, Apart
<1> QED
  <2>1. \/ inv' = Partial(inv)
        \/ Active(s) = inv.size /\ ~last /\ inv' = [inv EXCEPT !.pc = "activate", !.todo = Tail(inv.todo)]
        \/ Active(s) = inv.size /\ last /\ inv.mode # "activate" /\ inv' = [inv EXCEPT !.pc = "targets", !.todo = Services]
        \/ inv.mode = "activate" /\ inv' = Ended("ok")
    BY DEF VerifyActiveCount
  <2> QED BY <1>5, <1>7, <1>8, <1>9, <1>10, <2>1

-----------------------------------------------------------------------------
(* Before the services are activated, and after they are deactivated *)

LEMMA PreflightStep ==
    ASSUME CapacityInv, PreflightPrometheus
    PROVE  CapacityInv'
<1> USE DEF CapacityInv
<1>1. /\ inv.pc = "prom" /\ Apart /\ look' = look /\ look.kind # "detect" /\ Types /\ ManifestOK(m)
      /\ rp.pc = "none" /\ m.replayed = FALSE /\ InvocationOK(inv) /\ inv.act = <<>> /\ inv.mode \in Batch
      /\ Validate(cfg) /\ inv.out = "none"
  BY NoteCounts DEF PreflightPrometheus, At, Read, Types, outside, Replayed, NotYet, Apart, Control
<1>2. ASSUME NEW v, BatchFailed([m EXCEPT !.parts["prom"] = v])
      PROVE  CapacityInv'
  <2>1. PICK why : why = [m EXCEPT !.parts["prom"] = v]
    OBVIOUS
  <2>2. Marked(m, why, "prom", v)
    BY <1>1, <2>1, Marks, Zenon DEF Parts
  <2>3. BatchFailed(why)
    BY <1>2, <2>1
  <2> QED BY <1>1, <2>2, <2>3, FailureKeeps DEF Marked
<1>3. ASSUME inv' = [inv EXCEPT !.pc = "activate", !.todo = Services],
             m' = [m EXCEPT !.parts["prom"] = "preflight_pass"]
      PROVE  CapacityInv'
  <2>1. ManifestOK(m') /\ m'.replayed = FALSE
    <3>1. Marked(m, m', "prom", "preflight_pass")
      BY <1>1, <1>3, Marks, Zenon DEF Parts
    <3> QED BY <1>1, <3>1 DEF Marked
  <2>2. Moved(inv, inv', "activate", Services, <<>>)
    <3>1. "activate" \in Pcs /\ Services \in Seq(ServiceSet)
      BY PcsAre, ServicesOK DEF Places
    <3>2. Moved(inv, inv', "activate", Services, inv.act)
      BY <1>1, <1>3, <3>1, Moves DEF InvocationOK
    <3> QED BY <1>1, <3>2
  <2>3. Elems(<<>>) = {}
    BY DEF Elems
  <2>4. Types'
    BY <1>1, <2>1, <2>2, ApartIsStill, StillTyped DEF Moved
  <2>5. Control'
    BY <1>1, <2>2, <2>3, ServicesOK DEF Control, Moved, Same, At, Visiting, Up, Rising1, Running, After, Apart
  <2>6. Swept'
    <3>1. MayBeActive = {} /\ MayBeActive' = {}
      BY <1>1, <2>2, <2>3 DEF MayBeActive, Moved, Up, Rising1, Running
    <3> QED BY <1>1, <2>2, <3>1 DEF Swept, Moved, Same, Apart
  <2>7. Reported' /\ Exact'
    BY <2>2, <2>3 DEF Reported, Exact, Moved, At, Rising1, Running, After
  <2>8. Replayed'
    <3>1. ReplayOK'
      BY <1>1, <2>2, SameReplay DEF Apart, Replayed, Moved, Same
    <3> QED BY <1>1, <2>1, <2>2, <3>1 DEF Replayed, Moved, Apart, At, NotYet, Rising1, After
  <2>9. Rising'
    BY <1>1, <2>2 DEF Rising, Moved, Same, At
  <2>10. Read'
    BY <1>1 DEF Read
  <2> QED BY <2>4, <2>5, <2>6, <2>7, <2>8, <2>9, <2>10
<1> QED BY <1>2, <1>3 DEF PreflightPrometheus

\* On to the next check after the services are deactivated.
LEMMA LaterKeeps ==
    ASSUME CapacityInv, Apart, ManifestOK(m'), inv.pc \in {"prom2", "postverify", "judge"},
           NEW q \in {"postverify", "judge", "batchend"}, Goto(q),
           m'.parts["replay"] = m.parts["replay"], look' = look,
           q = "judge" => Inactive \/ \E h \in m'.got : h.status = "fail",
           q = "batchend" => m'.health = "fail" \/ Inactive
    PROVE  CapacityInv'
<1> USE DEF CapacityInv
<1>1. /\ look.kind # "detect" /\ Types /\ InvocationOK(inv) /\ inv.act = <<>> /\ inv.mode \in Batch
      /\ Validate(cfg) /\ inv.out = "none"
  BY DEF Read, Types, Control, At, After
<1>2. Moved(inv, inv', q, inv.todo, <<>>)
  <2>1. q \in Pcs /\ inv.todo \in Seq(ServiceSet) /\ inv.act \in Seq(ServiceSet)
    BY <1>1, PcsAre DEF Places, InvocationOK
  <2>2. Moved(inv, inv', q, inv.todo, inv.act)
    BY <1>1, <2>1, Moves DEF Goto
  <2> QED BY <1>1, <2>2
<1>3. Types'
  BY <1>1, <1>2, ApartIsStill, StillTyped DEF Moved
<1>4. Control'
  BY <1>1, <1>2 DEF Control, Moved, Same, At, Visiting, Up, Rising1, Running, After, Apart
<1>5. Swept'
  <2>1. MayBeActive = {} /\ MayBeActive' = {}
    BY <1>2 DEF MayBeActive, Moved, Up, Rising1, Running
  <2> QED BY <1>2, <2>1 DEF Swept, Moved, Same, Apart
<1>6. Reported'
  BY <1>2 DEF Reported, Moved, At, Inactive, Apart
<1>7. Exact'
  BY <1>2 DEF Exact, Moved, Same, At, Rising1, Running, After
<1>8. Replayed'
  <2>1. ReplayOK'
    BY <1>2, SameReplay DEF Apart, Replayed, Moved, Same
  <2> QED BY <1>2, <2>1 DEF Replayed, Moved, Apart, At, NotYet, Rising1, After
<1>9. Rising'
  BY <1>2 DEF Rising, Moved, Same, At
<1>10. Read'
  BY <1>1 DEF Read
<1> QED BY <1>3, <1>4, <1>5, <1>6, <1>7, <1>8, <1>9, <1>10

LEMMA PrometheusStep ==
    ASSUME CapacityInv, CollectPrometheus
    PROVE  CapacityInv'
<1>1. Apart /\ inv.pc = "prom2" /\ look' = look /\ ManifestOK(m) /\ Types /\ Goto("postverify")
  BY NoteCounts DEF CollectPrometheus, At, Apart, CapacityInv, Types, outside
<1>2. PICK v, w : m' = [m EXCEPT !.parts["prom"] = v, !.prom = w]
  BY DEF CollectPrometheus
<1>3. ManifestOK(m') /\ m'.parts["replay"] = m.parts["replay"]
  BY <1>1, <1>2 DEF ManifestOK, Parts
<1> QED BY <1>1, <1>3, LaterKeeps

\* What is still active when it is counted fails the health of its service.
LEMMA PostVerifyStep ==
    ASSUME CapacityInv, PostDeactivateVerify
    PROVE  CapacityInv'
<1>1. Apart /\ inv.pc = "postverify" /\ look' = look /\ ManifestOK(m) /\ Types
  BY NoteCounts DEF PostDeactivateVerify, At, Apart, CapacityInv, Types, outside
<1>2. CASE BatchFailed([m EXCEPT !.cleanup = "fail"])
  <2>1. PICK why : why = [m EXCEPT !.cleanup = "fail"]
    OBVIOUS
  <2>2. ManifestOK(why) /\ BatchFailed(why)
    BY <1>1, <1>2, <2>1 DEF ManifestOK
  <2> QED BY <1>1, <2>2, FailureKeeps
<1>3. CASE Goto("judge") /\ m' = [m EXCEPT !.got = @ \cup Healths("post-deactivate-verify", 0, FALSE)]
  <2>1. PICK H : H = Healths("post-deactivate-verify", 0, FALSE)
    OBVIOUS
  <2>2. ManifestOK(m') /\ m'.parts = m.parts /\ H \subseteq m'.got
    <3>1. m' = [m EXCEPT !.got = @ \cup H]
      BY <1>3, <2>1
    <3> QED BY <1>1, <3>1 DEF ManifestOK
  <2>3. \A s \in ServiceSet : Active(s) # 0 => \E h \in H : h.status = "fail"
    <3> TAKE s \in ServiceSet
    <3>1. PICK h : h = ServiceHealthFromVerify(s, "post-deactivate-verify", Active(s), IF FALSE THEN Active(s) ELSE 0, 0)
      OBVIOUS
    <3>2. h \in H
      BY <2>1, <3>1 DEF Healths
    <3>3. Active(s) # 0 => h.status = "fail"
      BY <3>1 DEF ServiceHealthFromVerify
    <3> QED BY <3>2, <3>3
  <2>4. Inactive \/ \E h \in m'.got : h.status = "fail"
    <3>1. CASE \A s \in ServiceSet : Active(s) = 0
      BY <1>1, <3>1, NoneCounted DEF Inactive
    <3>2. CASE \E s \in ServiceSet : Active(s) # 0
      BY <2>2, <2>3, <3>2
    <3> QED BY <3>1, <3>2
  <2> QED BY <1>1, <1>3, <2>2, <2>4, LaterKeeps
<1> QED BY <1>2, <1>3 DEF PostDeactivateVerify

LEMMA JudgeStep ==
    ASSUME CapacityInv, Judge
    PROVE  CapacityInv'
<1>1. Apart /\ inv.pc = "judge" /\ look' = look /\ ManifestOK(m) /\ Types /\ Goto("batchend")
  BY DEF Judge, At, Apart, CapacityInv, Types, outside
<1>2. PICK over, stop, missed :
         m' = [m EXCEPT !.cleanup = "pass", !.life = "pass", !.over = over,
                        !.health = IF missed \/ \E h \in m.got : h.status = "fail" THEN "fail" ELSE "pass",
                        !.stop = stop]
  BY DEF Judge
<1>3. PICK health : /\ health = IF missed \/ \E h \in m.got : h.status = "fail" THEN "fail" ELSE "pass"
                    /\ m' = [m EXCEPT !.cleanup = "pass", !.life = "pass", !.over = over, !.health = health, !.stop = stop]
  BY <1>2
<1>4. ManifestOK(m') /\ m'.parts = m.parts /\ m'.health = health
  BY <1>1, <1>3 DEF ManifestOK
<1>5. Inactive \/ \E h \in m.got : h.status = "fail"
  BY <1>1 DEF CapacityInv, Reported, At
<1>6. Inactive \/ m'.health = "fail"
  BY <1>3, <1>4, <1>5
<1> QED BY <1>1, <1>4, <1>6, LaterKeeps

\* The largest size of the suite so far is below the next.
LEMMA AscendingTail ==
    ASSUME NEW q \in Seq(Int), q # <<>>, Ascending(q)
    PROVE  /\ Head(q) \in Int /\ Head(q) > 0 /\ Tail(q) \in Seq(Int) /\ Ascending(Tail(q))
           /\ Tail(q) # <<>> => Head(q) < Head(Tail(q))
<1>1. /\ Head(q) \in Int /\ Head(q) = q[1] /\ Tail(q) \in Seq(Int) /\ Len(q) \in Nat /\ Len(q) > 0
      /\ Len(Tail(q)) = Len(q) - 1 /\ \A i \in 1..Len(Tail(q)) : Tail(q)[i] = q[i + 1]
  BY ElemsOf
<1>2. DOMAIN q = 1..Len(q) /\ DOMAIN Tail(q) = 1..Len(Tail(q))
  BY <1>1
<1>3. Head(q) > 0
  BY <1>1, <1>2 DEF Ascending
<1>4. Ascending(Tail(q))
  <2> SUFFICES ASSUME NEW i \in 1..Len(Tail(q))
               PROVE  Tail(q)[i] > 0 /\ (i > 1 => Tail(q)[i - 1] < Tail(q)[i])
    BY <1>2 DEF Ascending
  <2>1. i + 1 \in DOMAIN q /\ i \in Int /\ Tail(q)[i] = q[i + 1] /\ q[i + 1] > 0 /\ (i + 1 > 1 => q[(i + 1) - 1] < q[i + 1])
    BY <1>1, <1>2 DEF Ascending
  <2>2. i > 1 => Tail(q)[i - 1] = q[i]
    BY <1>1
  <2> QED BY <2>1, <2>2
<1>5. Tail(q) # <<>> => Head(q) < Head(Tail(q))
  <2> SUFFICES ASSUME Tail(q) # <<>> PROVE Head(q) < Head(Tail(q))
    OBVIOUS
  <2>1. Head(Tail(q)) = Tail(q)[1] /\ Len(Tail(q)) \in Nat /\ Len(Tail(q)) > 0
    BY <1>1, ElemsOf
  <2>2. Head(Tail(q)) = q[2] /\ 2 \in DOMAIN q
    BY <1>1, <1>2, <2>1
  <2>3. q[2 - 1] < q[2]
    BY <2>2 DEF Ascending
  <2> QED BY <1>1, <2>2, <2>3
<1> QED BY <1>1, <1>3, <1>4, <1>5

\* A suite takes the next batch.
LEMMA NextBatchOK ==
    ASSUME NEW i, InvocationOK(i), i.rest # <<>>, Ascending(i.rest), NEW j, j = NextBatch(i)
    PROVE  /\ InvocationOK(j) /\ j.pc = "prom" /\ j.act = i.act /\ j.mode = i.mode /\ j.out = i.out
           /\ j.sql = i.sql /\ j.touched = i.touched /\ j.clean = i.clean
           /\ j.size = Head(i.rest) /\ Ascending(j.rest) /\ (j.rest # <<>> => j.size < Head(j.rest))
<1>1. i.rest \in Seq(Int)
  BY DEF InvocationOK
<1>2. /\ Head(i.rest) \in Int /\ Tail(i.rest) \in Seq(Int) /\ Ascending(Tail(i.rest))
      /\ Tail(i.rest) # <<>> => Head(i.rest) < Head(Tail(i.rest))
  BY <1>1, AscendingTail
<1>3. PICK z \in Int, q \in Seq(Int) : z = Head(i.rest) /\ q = Tail(i.rest)
  BY <1>2
<1>4. j = [i EXCEPT !.size = z, !.rest = q, !.pc = "prom"] /\ "prom" \in Pcs
  BY <1>3, PcsAre DEF NextBatch, Places
<1>5. /\ InvocationOK(j) /\ j.pc = "prom" /\ j.act = i.act /\ j.mode = i.mode /\ j.out = i.out
      /\ j.sql = i.sql /\ j.touched = i.touched /\ j.clean = i.clean /\ j.size = z /\ j.rest = q
  BY <1>4 DEF InvocationOK
<1> QED BY <1>2, <1>3, <1>5

\* A batch begins with an empty manifest.
LEMMA NewManifestOK == ManifestOK(NewManifest) /\ NewManifest.replayed = FALSE
BY DEF ManifestOK, NewManifest, Parts

\* The beginning of a batch of a suite.
LEMMA PromKeeps ==
    ASSUME CapacityInv, Still, inv.pc \in {"suite", "cooldown"}, look' = look, rp' = rp, failing' = failing,
           m'.replayed = FALSE, NEW i, InvocationOK(i), i.rest = inv.rest, i.act = inv.act, i.mode = inv.mode,
           i.out = inv.out, i.sql = inv.sql, i.touched = inv.touched,
           i.clean < Head(i.rest), inv' = NextBatch(i)
    PROVE  CapacityInv'
<1> USE DEF CapacityInv
<1>1. /\ look.kind # "detect" /\ inv.act = <<>> /\ inv.mode = "run-suite" /\ Validate(cfg) /\ inv.out = "none"
      /\ rp.pc = "none" /\ inv.rest # <<>> /\ Ascending(inv.rest)
  BY DEF Read, Control, At, Replayed, NotYet, Rising
<1>2. /\ InvocationOK(inv') /\ inv'.pc = "prom" /\ inv'.act = <<>> /\ inv'.mode = "run-suite" /\ inv'.out = "none"
      /\ inv'.sql = inv.sql /\ inv'.touched = inv.touched /\ inv'.clean < inv'.size
      /\ Ascending(inv'.rest) /\ (inv'.rest # <<>> => inv'.size < Head(inv'.rest))
  BY <1>1, NextBatchOK
<1>3. Types'
  BY <1>2, StillTyped
<1>4. Control'
  BY <1>1, <1>2 DEF Control, At, Visiting, Up, Rising1, Running, After, Still, Batch
<1>5. Swept'
  <2>1. MayBeActive = {} /\ MayBeActive' = {}
    BY <1>2 DEF MayBeActive, Up, Rising1, Running
  <2> QED BY <1>1, <1>2, <2>1 DEF Swept, Still
<1>6. Reported' /\ Exact'
  BY <1>2 DEF Reported, Exact, At, Rising1, Running, After
<1>7. Replayed'
  BY <1>1, <1>2 DEF Replayed, ReplayOK, At, NotYet, Rising1, After
<1>8. Rising'
  BY <1>2 DEF Rising, At
<1>9. Read'
  BY <1>1 DEF Read
<1> QED BY <1>3, <1>4, <1>5, <1>6, <1>7, <1>8, <1>9

\* An invocation ends where nothing may be active.
LEMMA EndKeeps ==
    ASSUME CapacityInv, Still, inv.pc \in {"suite", "cooldown", "batchend", "seedcheck", "seed", "verify"},
           rp'.pc = "none", look' = look, NEW o \in {"ok", "err"}, inv' = Ended(o)
    PROVE  CapacityInv'
<1>1. look.kind # "detect" /\ InvocationOK(inv) /\ Types /\ inv.out = "none"
  BY DEF CapacityInv, Read, At, Types, Control
<1>2. Over(inv, inv', o)
  BY <1>1, EndedOK
<1>3. Types'
  BY <1>1, <1>2, StillTyped DEF Over
<1>4. Swept'
  <2>1. MayBeActive = {} /\ MayBeActive' = {}
    BY <1>2 DEF MayBeActive, Up, Rising1, Running, Over
  <2> QED BY <1>1, <1>2, <2>1 DEF CapacityInv, Swept, Still, Over
<1> QED BY <1>1, <1>2, <1>3, <1>4, IdleKeeps DEF Over

\* No replay is a replay record too.
LEMMA NoReplayIs == NoReplay.pc = "none" /\ NoReplay = [pc |-> NoReplay.pc, todo |-> NoReplay.todo, plan |-> NoReplay.plan, bad |-> NoReplay.bad,
                                                        hit |-> NoReplay.hit]
BY DEF NoReplay

LEMMA CooldownStep ==
    ASSUME CapacityInv, Cooldown
    PROVE  CapacityInv'
<1>1. /\ inv.pc = "cooldown" /\ UNCHANGED <<cfg, rp, failing, db, file, cancelled, faults, look>> /\ Types
      /\ rp.pc = "none" /\ ManifestOK(m) /\ InvocationOK(inv) /\ inv.clean < Head(inv.rest)
  BY DEF Cooldown, At, CapacityInv, Types, outside, Replayed, NotYet, Rising, Control
<1>2. CASE inv' = Ended("err") /\ m' = m
  <2>1. Still
    BY <1>1, <1>2 DEF Still, Types
  <2> QED BY <1>1, <1>2, <2>1, EndKeeps
<1>3. CASE inv' = NextBatch(inv) /\ m' = NewManifest
  <2>1. Still
    BY <1>1, <1>3, NewManifestOK DEF Still, Types
  <2> QED BY <1>1, <1>3, <2>1, NewManifestOK, PromKeeps
<1> QED BY <1>2, <1>3 DEF Cooldown

\* A clean batch raises the clean size to its own; the suite goes on or ends.
LEMMA BatchEndStep ==
    ASSUME CapacityInv, BatchEnd
    PROVE  CapacityInv'
<1> USE DEF CapacityInv
<1>1. /\ inv.pc = "batchend" /\ UNCHANGED <<cfg, failing, db, m, cancelled, look>> /\ Types
      /\ ManifestOK(m) /\ InvocationOK(inv) /\ FileOK(file) /\ faults \in Nat /\ cancelled \in BOOLEAN
      /\ look.kind # "detect" /\ inv.mode \in Batch /\ Validate(cfg) /\ inv.out = "none"
  BY DEF BatchEnd, At, Types, Control, Read
<1>2. ASSUME NEW o \in {"ok", "err"}, End(o), FileOK(file'), faults' \in Nat
      PROVE  CapacityInv'
  <2>1. inv' = Ended(o) /\ rp' = NoReplay
    BY <1>2 DEF End
  <2>2. Still /\ rp'.pc = "none"
    BY <1>1, <1>2, <2>1, NoReplayIs DEF Still
  <2> QED BY <1>1, <2>1, <2>2, EndKeeps
<1>3. FileOK(BatchState) /\ BatchState.clean \in {inv.size, inv.clean} /\ {BatchState.clean, BatchState.problem} \subseteq Int
  <2>1. inv.size \in Int /\ inv.clean \in Int /\ inv.problem \in Int
    BY <1>1 DEF InvocationOK
  <2>2. PICK c \in {inv.size, inv.clean}, p \in {inv.size, inv.problem} : BatchState = Saved(inv.size, c, p)
    BY DEF BatchState
  <2> QED BY <2>1, <2>2 DEF Saved, FileOK
<1>4. ASSUME inv.mode # "run-batch", file' = BatchState, rp' = NoReplay, faults' = faults, inv.rest # <<>>,
             inv' = [Closing(inv) EXCEPT !.pc = "cooldown", !.clean = file'.clean, !.problem = file'.problem]
      PROVE  CapacityInv'
  <2>1. PICK c \in Int, p \in Int : c = BatchState.clean /\ p = BatchState.problem
    BY <1>3
  <2>2. /\ InvocationOK(inv') /\ inv'.pc = "cooldown" /\ inv'.act = <<>> /\ inv'.mode = inv.mode /\ inv'.clean = c
        /\ inv'.rest = inv.rest /\ inv'.sql = inv.sql /\ inv'.touched = inv.touched /\ inv'.out = inv.out
    <3>1. inv' = [Closing(inv) EXCEPT !.pc = "cooldown", !.clean = c, !.problem = p]
      BY <1>4, <2>1
    <3>2. "cooldown" \in Pcs /\ <<>> \in Seq(ServiceSet)
      BY PcsAre DEF Places
    <3> QED BY <1>1, <3>1, <3>2 DEF Closing, InvocationOK
  <2>3. Still
    BY <1>1, <1>3, <1>4, NoReplayIs DEF Still
  <2>4. Types'
    BY <1>1, <2>2, <2>3, StillTyped
  <2>5. inv.mode = "run-suite"
    BY <1>1, <1>4 DEF Batch
  <2>6. Control'
    BY <1>1, <2>2, <2>5 DEF Control, At, Visiting, Up, Rising1, Running, After
  <2>7. Swept'
    <3>1. MayBeActive = {} /\ MayBeActive' = {}
      BY <1>1, <2>2 DEF MayBeActive, Up, Rising1, Running
    <3> QED BY <1>1, <2>2, <3>1 DEF Swept
  <2>8. Reported' /\ Exact'
    BY <2>2 DEF Reported, Exact, At, Rising1, Running, After
  <2>9. Replayed'
    BY <1>4, <2>2, NoReplayIs DEF Replayed, ReplayOK, At, NotYet, Rising1, After
  <2>10. Rising'
    <3>1. Ascending(inv.rest) /\ inv.clean < inv.size /\ inv.size < Head(inv.rest)
      BY <1>1, <1>4, <2>5 DEF Rising, At
    <3>2. inv.clean \in Int /\ inv.size \in Int /\ Head(inv.rest) \in Int
      BY <1>1, <1>4, ElemsOf DEF InvocationOK
    <3>3. c < Head(inv.rest)
      BY <1>3, <2>1, <3>1, <3>2
    <3> QED BY <1>4, <2>2, <3>1, <3>3 DEF Rising, At
  <2>11. Read'
    BY <1>1 DEF Read
  <2> QED BY <2>4, <2>6, <2>7, <2>8, <2>9, <2>10, <2>11
<1>5. CASE (inv.mode = "run-batch" \/ m.err) /\ End(IF m.err THEN "err" ELSE "ok") /\ file' = file /\ faults' = faults
  BY <1>1, <1>2, <1>5
<1>6. CASE End("err") /\ file' \in {file, Torn} /\ faults' = faults + 1
  BY <1>1, <1>2, <1>6 DEF FileOK
<1>7. CASE file' = BatchState /\ rp' = NoReplay /\ inv' = Ended("ok") /\ faults' = faults
  BY <1>1, <1>2, <1>3, <1>7 DEF End
<1> QED BY <1>4, <1>5, <1>6, <1>7 DEF BatchEnd

LEMMA SuiteStep ==
    ASSUME CapacityInv, RunSuite
    PROVE  CapacityInv'
<1> USE DEF CapacityInv
<1>1. /\ inv.pc = "suite" /\ UNCHANGED <<cfg, failing, db, file, m, cancelled, look>> /\ Types /\ faults' \in Nat
      /\ ManifestOK(m) /\ InvocationOK(inv) /\ FileOK(file) /\ cancelled \in BOOLEAN
      /\ rp.pc = "none" /\ m.replayed = FALSE /\ inv.rest # <<>> /\ Ascending(inv.rest)
  BY NoteCounts DEF RunSuite, At, Types, Control, Replayed, NotYet, Rising
<1>2. CASE End("err")
  <2>1. inv' = Ended("err") /\ rp' = NoReplay
    BY <1>2 DEF End
  <2>2. Still /\ rp'.pc = "none"
    BY <1>1, <2>1, NoReplayIs DEF Still
  <2> QED BY <1>1, <2>1, <2>2, EndKeeps
<1>3. ASSUME NEW kept, rp' = rp, inv' = NextBatch([inv EXCEPT !.clean = kept]),
             kept = IF file.kind = "saved" /\ file.clean > 0 /\ file.clean < Head(inv.rest) THEN file.clean ELSE 0
      PROVE  CapacityInv'
  <2>1. inv.rest \in Seq(Int)
    BY <1>1 DEF InvocationOK
  <2>2. Head(inv.rest) > 0
    BY <1>1, <2>1, AscendingTail
  <2>3. kept \in Int /\ kept < Head(inv.rest)
    <3>1. file.kind = "saved" => file.clean \in Int
      BY <1>1 DEF FileOK, None, Torn
    <3> QED BY <1>3, <2>2, <3>1
  <2>4. PICK i : i = [inv EXCEPT !.clean = kept]
    OBVIOUS
  <2>5. /\ InvocationOK(i) /\ i.rest = inv.rest /\ i.act = inv.act /\ i.mode = inv.mode /\ i.out = inv.out
        /\ i.sql = inv.sql /\ i.touched = inv.touched /\ i.clean = kept
    BY <1>1, <2>3, <2>4 DEF InvocationOK
  <2>6. Still /\ inv' = NextBatch(i)
    BY <1>1, <1>3, <2>4 DEF Still, Types
  <2> QED BY <1>1, <1>3, <2>3, <2>5, <2>6, PromKeeps
<1> QED BY <1>2, <1>3 DEF RunSuite

\* Seeding and verifying visit the services; nothing is activated.
LEMMA VisitKeeps ==
    ASSUME CapacityInv, Types', cfg' = cfg, rp' = rp, failing' = failing, look' = look,
           inv.pc \in {"seedcheck", "seed", "verify"}, inv'.size = inv.size, inv'.mode = inv.mode,
           inv'.todo # <<>>, inv'.out = inv.out,
           inv'.pc \in {"seedcheck", "seed", "verify"}, inv'.pc = "verify" <=> inv.pc = "verify"
    PROVE  CapacityInv'
<1> USE DEF CapacityInv
<1>1. /\ inv.mode = (IF inv.pc = "verify" THEN "verify" ELSE "seed") /\ rp.pc = "none" /\ Validate(cfg)
      /\ inv.out = "none" /\ look.kind # "detect"
  BY DEF Control, At, Replayed, NotYet, Read
<1>2. Control'
  BY <1>1 DEF Control, At, Visiting, Up, Rising1, Running, After
<1>3. Swept' /\ Reported' /\ Exact' /\ Rising' /\ Read'
  BY <1>1 DEF Swept, Reported, Exact, Rising, Read, At, Batch, Rising1, Running, After
<1>4. Replayed'
  BY <1>1 DEF Replayed, ReplayOK, At, NotYet, Rising1, After
<1> QED BY <1>2, <1>3, <1>4

\* The next service of a command that visits each, or its end.
LEMMA Next1Is ==
    ASSUME CapacityInv, inv.pc \in {"seedcheck", "seed", "verify"}
    PROVE  \/ Next1 = Ended("ok")
           \/ /\ InvocationOK(Next1) /\ Next1.size = inv.size /\ Next1.mode = inv.mode /\ Next1.out = inv.out
              /\ Next1.todo # <<>> /\ Next1.pc \in {"seedcheck", "seed", "verify"}
              /\ Next1.pc = "verify" <=> inv.pc = "verify"
<1>1. /\ InvocationOK(inv) /\ Tail(inv.todo) \in Seq(ServiceSet)
      /\ Len(inv.todo) # 1 => Tail(inv.todo) # <<>>
  BY TodoOK DEF Visiting
<1>2. inv.mode = IF inv.pc = "verify" THEN "verify" ELSE "seed"
  BY DEF CapacityInv, Control, At
<1>3. PICK p \in {"seedcheck", "seed", "verify"} :
         p = (IF inv.mode = "seed" THEN "seedcheck" ELSE inv.pc) /\ (p = "verify" <=> inv.pc = "verify")
  BY <1>2
<1>4. CASE Len(inv.todo) # 1
  <2>1. Next1 = [inv EXCEPT !.todo = Tail(inv.todo), !.pc = p] /\ p \in Pcs
    BY <1>3, <1>4, PcsAre DEF Next1, Places
  <2>2. Moved(inv, Next1, p, Tail(inv.todo), inv.act)
    BY <1>1, <2>1, Moves DEF InvocationOK
  <2> QED BY <1>1, <1>3, <1>4, <2>2 DEF Moved, Same
<1>5. CASE Len(inv.todo) = 1
  BY <1>5 DEF Next1
<1> QED BY <1>4, <1>5

LEMMA VerifyStep ==
    ASSUME CapacityInv, Verify
    PROVE  CapacityInv'
<1>1. /\ inv.pc = "verify" /\ Apart /\ m' = m /\ look' = look /\ Types /\ rp.pc = "none" /\ ManifestOK(m)
  BY NoteCounts DEF Verify, At, CapacityInv, Types, outside, Replayed, NotYet, Apart
<1>2. Still /\ rp' = rp /\ cfg' = cfg /\ failing' = failing
  BY <1>1, ApartIsStill DEF Apart
<1>3. inv' = Next1 \/ inv' = Ended("err")
  BY DEF Verify
<1>4. CASE inv' = Ended("err") \/ inv' = Ended("ok")
  BY <1>1, <1>2, <1>4, EndKeeps
<1>5. CASE inv' = Next1 /\ Next1 # Ended("ok")
  BY <1>1, <1>2, <1>5, Next1Is, StillTyped, VisitKeeps
<1> QED BY <1>3, <1>4, <1>5

LEMMA SeedCheckStep ==
    ASSUME CapacityInv, AssertSeedSafe
    PROVE  CapacityInv'
<1>1. /\ inv.pc = "seedcheck" /\ UNCHANGED <<cfg, failing, db, file, m, cancelled, look>> /\ Types /\ faults' \in Nat
      /\ ManifestOK(m) /\ InvocationOK(inv) /\ FileOK(file) /\ cancelled \in BOOLEAN /\ rp.pc = "none"
      /\ inv.todo # <<>>
  BY NoteCounts DEF AssertSeedSafe, At, CapacityInv, Types, Replayed, NotYet, Control, Visiting
<1>2. CASE End("err")
  <2>1. inv' = Ended("err") /\ rp' = NoReplay
    BY <1>2 DEF End
  <2>2. Still /\ rp'.pc = "none"
    BY <1>1, <2>1, NoReplayIs DEF Still
  <2> QED BY <1>1, <2>1, <2>2, EndKeeps
<1>3. CASE Goto("seed") /\ rp' = rp
  <2>1. Still
    BY <1>1, <1>3 DEF Still, Types
  <2>2. Moved(inv, inv', "seed", inv.todo, inv.act)
    <3>1. "seed" \in Pcs
      BY PcsAre DEF Places
    <3> QED BY <1>1, <1>3, <3>1, Moves DEF Goto, InvocationOK
  <2>3. Types'
    BY <1>1, <2>1, <2>2, StillTyped DEF Moved
  <2> QED BY <1>1, <1>3, <2>2, <2>3, VisitKeeps DEF Moved, Same
<1> QED BY <1>2, <1>3 DEF AssertSeedSafe

LEMMA SeedStep ==
    ASSUME CapacityInv, Seed
    PROVE  CapacityInv'
<1> DEFINE s == Head(inv.todo)
<1>1. /\ inv.pc = "seed" /\ UNCHANGED <<cfg, rp, failing, file, look>> /\ m' = m /\ Types /\ ManifestOK(m)
      /\ rp.pc = "none" /\ look.kind # "detect" /\ Beside /\ inv.mode = "seed"
      /\ Exec(s, WriteSeedSQL(cfg, s), FALSE, Next1, Ended("err"))
  BY DEF Seed, At, CapacityInv, Read, Types, outside, Replayed, NotYet, Beside, Control
<1>2. s \in ServiceSet /\ InvocationOK(inv) /\ Validate(cfg)
  BY <1>1, TodoOK DEF Visiting
<1>3. PlanOver(WriteSeedSQL(cfg, s), cfg.count[s])
  <2>1. cfg.count[s] \in Int /\ cfg.batch \in Int
    BY <1>1, <1>2, CountsAreInts
  <2>2. cfg.count[s] > 0 /\ cfg.batch > 0
    BY <1>2 DEF Validate, ServiceLifecycle, ConfigValid
  <2> HIDE DEF s
  <2> QED BY <2>1, <2>2, SeedPlan
<1> HIDE DEF s
<1>4. PICK next, err : next = Next1 /\ err = Ended("err")
  OBVIOUS
<1>5. Over(inv, err, "err") /\ Over(inv, Ended("ok"), "ok")
  BY <1>2, <1>4, EndedOK
<1>6. /\ InvocationOK(next) /\ next.mode = "seed"
      /\ \/ next.pc = "idle"
         \/ /\ next.size = inv.size /\ next.out = inv.out
            /\ next.todo # <<>> /\ next.pc \in {"seedcheck", "seed"}
  BY <1>1, <1>2, <1>4, <1>5, Next1Is DEF Over
<1>7. Executes(s, FALSE, Int, next, err)
  <2>1. Exec(s, WriteSeedSQL(cfg, s), FALSE, next, err) /\ InvocationOK(err)
    BY <1>1, <1>4, <1>5 DEF Over
  <2> QED BY <1>1, <1>2, <1>3, <1>6, <2>1, ExecDoes
<1>8. PlanRan(s, FALSE, Int, next, err)
  BY <1>1, <1>2, <1>5, <1>6, <1>7, PlanRuns DEF Over
<1>9. PICK t : \E ok, hit \in BOOLEAN : Result(s, FALSE, Int, next, err, t, ok, hit)
  BY <1>8 DEF PlanRan
<1>10. PICK ok \in BOOLEAN, hit \in BOOLEAN : Result(s, FALSE, Int, next, err, t, ok, hit)
  BY <1>9
<1>11. Types' /\ Follows(IF ok THEN next ELSE err, inv', hit)
  BY <1>10 DEF Result
<1>12. /\ inv'.mode = "seed"
       /\ \/ inv'.pc = "idle"
          \/ inv'.size = inv.size /\ inv'.out = inv.out /\ inv'.todo # <<>> /\ inv'.pc \in {"seedcheck", "seed"}
  <2>1. CASE ok = TRUE
    <3>1. Follows(next, inv', hit)
      BY <1>11, <2>1
    <3> QED BY <1>6, <3>1 DEF Follows
  <2>2. CASE ok = FALSE
    <3>1. Follows(err, inv', hit)
      BY <1>11, <2>2
    <3> QED BY <1>1, <1>5, <3>1 DEF Follows, Over
  <2> QED BY <2>1, <2>2
<1>13. CASE inv'.pc = "idle"
  <2>1. Swept'
    BY <1>12 DEF Swept, Batch
  <2> QED BY <1>1, <1>11, <1>13, <2>1, IdleKeeps
<1>14. CASE inv'.pc # "idle"
  BY <1>1, <1>11, <1>12, <1>14, VisitKeeps
<1> QED BY <1>13, <1>14

-----------------------------------------------------------------------------
(* The beginning of an invocation *)

\* The batches of a suite are an end of the configured ones.
LEMMA BatchesFrom ==
    ASSUME NEW sizes \in Seq(Int), Ascending(sizes), sizes # <<>>, NEW start
    PROVE  BatchSizesFrom(sizes, start) \in Seq(Int) /\ Ascending(BatchSizesFrom(sizes, start))
<1> DEFINE enough == {i \in DOMAIN sizes : sizes[i] >= start}
<1>1. /\ Len(sizes) \in Nat /\ Len(sizes) > 0 /\ DOMAIN sizes = 1..Len(sizes)
      /\ \A i \in 1..Len(sizes) : sizes[i] \in Int
  BY ElemsOf
<1>2. CASE enough = {}
  <2>1. PICK x \in Int : x = sizes[Len(sizes)] /\ x > 0
    BY <1>1 DEF Ascending
  <2>2. BatchSizesFrom(sizes, start) = <<x>>
    BY <1>2, <2>1 DEF BatchSizesFrom, Last
  <2> QED BY <2>1, <2>2 DEF Ascending
<1>3. CASE enough # {}
  <2>1. PICK a : a = Min(enough)
    OBVIOUS
  <2>2. a \in 1..Len(sizes)
    <3>1. enough \in SUBSET Nat /\ enough \subseteq 1..Len(sizes)
      BY <1>1
    <3> HIDE DEF enough
    <3>2. \E x \in enough : \A y \in enough : x <= y
      BY <1>3, <3>1, LeastNumber
    <3>3. Min(enough) \in enough
      BY <3>2 DEF Min
    <3> QED BY <2>1, <3>1, <3>3
  <2>3. BatchSizesFrom(sizes, start) = SubSeq(sizes, a, Len(sizes))
    BY <1>3, <2>1 DEF BatchSizesFrom
  <2>4. PICK q : q = SubSeq(sizes, a, Len(sizes))
    OBVIOUS
  <2>5. /\ q \in Seq(Int) /\ DOMAIN q = 1..(Len(sizes) - a + 1)
        /\ \A i \in 1..(Len(sizes) - a + 1) : q[i] = sizes[i + a - 1]
    BY <1>1, <2>2, <2>4
  <2>6. Ascending(q)
    <3> SUFFICES ASSUME NEW i \in 1..(Len(sizes) - a + 1) PROVE q[i] > 0 /\ (i > 1 => q[i - 1] < q[i])
      BY <2>5 DEF Ascending
    <3>1. i + a - 1 \in DOMAIN sizes /\ i \in Int /\ a \in Int /\ (i > 1 => i + a - 1 > 1)
      BY <1>1, <2>2
    <3>2. sizes[i + a - 1] > 0 /\ (i > 1 => sizes[(i + a - 1) - 1] < sizes[i + a - 1])
      BY <3>1 DEF Ascending
    <3>3. i > 1 => q[i - 1] = sizes[(i - 1) + a - 1] /\ (i - 1) + a - 1 = (i + a - 1) - 1
      BY <1>1, <2>2, <2>5
    <3> QED BY <2>5, <3>2, <3>3
  <2> QED BY <2>3, <2>4, <2>5, <2>6
<1> QED BY <1>2, <1>3

\* Whichever batch a suite resumes at, its batches are configured ones in order.
LEMMA SuiteBatches ==
    ASSUME NEW sizes \in Seq(Int), NEW f, NEW full, NEW start, NEW pick,
           pick = SelectSuiteBatches(sizes, f, full, start)
    PROVE  /\ pick.source \in {"error", "full_suite", "explicit", "state", "first_configured"}
           /\ Ascending(sizes) => pick.sizes \in Seq(Int) /\ Ascending(pick.sizes)
<1>1. PICK q, src : /\ pick = [sizes |-> q, source |-> src]
                    /\ src \in {"error", "full_suite", "explicit", "state", "first_configured"}
                    /\ \/ q = <<>>
                       \/ q = sizes
                       \/ sizes # <<>> /\ \E x : q = BatchSizesFrom(sizes, x)
  BY DEF SelectSuiteBatches
<1>2. <<>> \in Seq(Int) /\ Ascending(<<>>)
  BY DEF Ascending
<1>3. Ascending(sizes) => q \in Seq(Int) /\ Ascending(q)
  <2>1. CASE q \in {<<>>, sizes}
    BY <1>2, <2>1
  <2>2. ASSUME Ascending(sizes), sizes # <<>>, NEW x, q = BatchSizesFrom(sizes, x)
        PROVE  q \in Seq(Int) /\ Ascending(q)
    BY <2>2, BatchesFrom
  <2> QED BY <1>1, <2>1, <2>2
<1>4. pick.source = src /\ pick.sizes = q
  BY <1>1
<1> QED BY <1>1, <1>3, <1>4

\* Before the first invocation.
LEMMA NoInvocationOK ==
    /\ InvocationOK(NoInvocation) /\ NoInvocation.pc = "idle" /\ NoInvocation.act = <<>>
    /\ NoInvocation.touched = {} /\ NoInvocation.out = "none" /\ NoInvocation.sql = 0 /\ NoInvocation.clean = 0
<1>1. <<>> \in Seq(ServiceSet) /\ <<>> \in Seq(Int) /\ "idle" \in Pcs /\ "none" \in Modes
  BY PcsAre DEF Places, Modes
<1> QED BY <1>1 DEF NoInvocation, InvocationOK

LEMMA StartingStep ==
    ASSUME CapacityInv, Start
    PROVE  CapacityInv'
<1> USE DEF CapacityInv
<1>1. /\ inv.pc = "idle" /\ UNCHANGED <<cfg, rp, failing, db, file, faults>> /\ m' = NewManifest /\ cancelled' = FALSE
      /\ look' = NoLook /\ Types /\ rp.pc = "none" /\ cfg \in Configs /\ faults \in Nat /\ inv.n \in Nat
  BY DEF Start, At, Types, outside, Replayed, NotYet, InvocationOK
<1>2. Still /\ m'.replayed = FALSE /\ look'.kind # "detect"
  BY <1>1, NewManifestOK DEF Still, Types, NoLook
<1>3. PICK i \in Invocations :
        LET base == [NoInvocation EXCEPT !.n = inv.n + 1, !.mode = i.mode, !.apply = i.apply,
                                         !.force = i.force, !.size = i.size]
            pick == SelectSuiteBatches(cfg.sizes, file, i.full, i.start)
            refused ==
                \/ ~Validate(cfg) \/ (i.apply /\ i.mode = "plan")
                \/ i.mode \in {"activate", "run-batch"} /\ (i.size <= 0 \/ i.size > cfg.targets)
                \/ i.mode = "run-suite" /\ pick.sizes = <<>>
            sizes == IF i.mode = "run-suite" THEN pick.sizes
                     ELSE IF i.mode = "plan" THEN cfg.sizes ELSE <<i.size>>
            renders == i.mode \in {"plan", "activate", "run-batch", "run-suite"} =>
                          \A k \in DOMAIN sizes, s \in ServiceSet : PlanValid(cfg, s, "activate", sizes[k])
            first == [base EXCEPT !.todo = Services, !.source = pick.source,
                                  !.pc = CASE i.mode = "seed" -> "seedcheck"
                                           [] i.mode = "run-batch" -> "prom"
                                           [] i.mode = "run-suite" -> "suite"
                                           [] OTHER -> i.mode,
                                  !.rest = IF i.mode = "run-suite" THEN sizes ELSE <<>>]
        IN  inv' = IF refused THEN [base EXCEPT !.out = "err"]
                   ELSE IF ~i.apply THEN [base EXCEPT !.out = IF renders THEN "ok" ELSE "err"]
                   ELSE first
  BY DEF Start
<1>4. PICK base, pick : /\ base = [NoInvocation EXCEPT !.n = inv.n + 1, !.mode = i.mode, !.apply = i.apply,
                                                        !.force = i.force, !.size = i.size]
                        /\ pick = SelectSuiteBatches(cfg.sizes, file, i.full, i.start)
  OBVIOUS
<1>5. /\ i.mode \in {"plan", "seed", "verify", "activate", "deactivate", "run-batch", "run-suite"}
      /\ i.apply \in BOOLEAN /\ i.force \in BOOLEAN /\ i.size \in Int /\ cfg.sizes \in Seq(Int)
  BY <1>1, InvocationsAssumption, ConfigsAssumption
<1>6. /\ InvocationOK(base) /\ base.pc = "idle" /\ base.mode = i.mode /\ base.act = <<>> /\ base.touched = {}
      /\ base.out = "none" /\ base.sql = 0 /\ base.size = i.size /\ base.clean = 0
  <2>1. <<>> \in Seq(ServiceSet) /\ <<>> \in Seq(Int) /\ "idle" \in Pcs /\ inv.n + 1 \in Nat /\ i.mode \in Modes
    BY <1>1, <1>5, PcsAre DEF Places, Modes, Batch
  <2>2. /\ InvocationOK(NoInvocation) /\ NoInvocation.pc = "idle" /\ NoInvocation.act = <<>>
        /\ NoInvocation.touched = {} /\ NoInvocation.out = "none" /\ NoInvocation.sql = 0 /\ NoInvocation.clean = 0
    BY NoInvocationOK
  <2>3. PICK n \in Nat : n = inv.n + 1
    BY <2>1
  <2>4. base = [NoInvocation EXCEPT !.n = n, !.mode = i.mode, !.apply = i.apply, !.force = i.force, !.size = i.size]
    BY <1>4, <2>3
  <2> QED BY <1>5, <2>1, <2>2, <2>4 DEF InvocationOK
<1>7. /\ pick.source \in {"error", "full_suite", "explicit", "state", "first_configured"}
      /\ Ascending(cfg.sizes) => pick.sizes \in Seq(Int) /\ Ascending(pick.sizes)
  BY <1>4, <1>5, SuiteBatches
\* Refused, or only rendered.
<1>8. ASSUME NEW o \in {"ok", "err"}, inv' = [base EXCEPT !.out = o]
      PROVE  CapacityInv'
  <2>1. InvocationOK(inv') /\ inv'.pc = "idle" /\ inv'.touched = {}
    BY <1>6, <1>8 DEF InvocationOK
  <2>2. Types' /\ Swept'
    BY <1>1, <1>2, <2>1, StillTyped DEF Swept
  <2> QED BY <1>1, <1>2, <2>1, <2>2, IdleKeeps
\* Under way.
<1>9. ASSUME Validate(cfg), i.mode # "plan", i.mode = "run-suite" => pick.sizes # <<>>,
             inv' = [base EXCEPT !.todo = Services, !.source = pick.source,
                                 !.pc = CASE i.mode = "seed" -> "seedcheck"
                                          [] i.mode = "run-batch" -> "prom"
                                          [] i.mode = "run-suite" -> "suite"
                                          [] OTHER -> i.mode,
                                 !.rest = IF i.mode = "run-suite" THEN pick.sizes ELSE <<>>]
      PROVE  CapacityInv'
  <2>1. Ascending(cfg.sizes)
    BY <1>9 DEF Validate, ValidateBatchSizes, Ascending
  <2>2. PICK p \in Pcs, q \in Seq(Int) :
          /\ inv' = [base EXCEPT !.todo = Services, !.source = pick.source, !.pc = p, !.rest = q]
          /\ i.mode = "run-suite" => q # <<>> /\ Ascending(q)
          /\ \/ p = "seedcheck" /\ i.mode = "seed"
             \/ p = "prom" /\ i.mode = "run-batch"
             \/ p = "suite" /\ i.mode = "run-suite"
             \/ p = i.mode /\ i.mode \in {"verify", "activate", "deactivate"}
    <3>1. PICK p : p = CASE i.mode = "seed" -> "seedcheck"
                         [] i.mode = "run-batch" -> "prom"
                         [] i.mode = "run-suite" -> "suite"
                         [] OTHER -> i.mode
      OBVIOUS
    <3>2. PICK q : q = IF i.mode = "run-suite" THEN pick.sizes ELSE <<>>
      OBVIOUS
    <3>3. /\ p \in Pcs
          /\ \/ p = "seedcheck" /\ i.mode = "seed"
             \/ p = "prom" /\ i.mode = "run-batch"
             \/ p = "suite" /\ i.mode = "run-suite"
             \/ p = i.mode /\ i.mode \in {"verify", "activate", "deactivate"}
      <4>1. CASE i.mode = "seed"
        BY <3>1, <4>1, PcsAre DEF Places
      <4>2. CASE i.mode = "run-batch"
        BY <3>1, <4>2, PcsAre DEF Places
      <4>3. CASE i.mode = "run-suite"
        BY <3>1, <4>3, PcsAre DEF Places
      <4>4. CASE i.mode \in {"verify", "activate", "deactivate"}
        BY <3>1, <4>4, PcsAre DEF Places
      <4> QED BY <1>5, <1>9, <4>1, <4>2, <4>3, <4>4
    <3>4. q \in Seq(Int) /\ (i.mode = "run-suite" => q # <<>> /\ Ascending(q))
      BY <1>7, <1>9, <2>1, <3>2
    <3>5. inv' = [base EXCEPT !.todo = Services, !.source = pick.source, !.pc = p, !.rest = q]
      BY <1>9, <3>1, <3>2
    <3> QED BY <3>3, <3>4, <3>5
  <2>3. /\ InvocationOK(inv') /\ inv'.pc = p /\ inv'.mode = i.mode /\ inv'.todo = Services /\ inv'.act = <<>>
        /\ inv'.touched = {} /\ inv'.out = "none" /\ inv'.sql = 0 /\ inv'.rest = q /\ inv'.clean = 0 /\ inv'.size = i.size
    BY <1>6, <1>7, <2>2, ServicesOK DEF InvocationOK
  <2>4. Elems(<<>>) = {} /\ Elems(Services) = ServiceSet /\ Services # <<>>
    BY ServicesOK DEF Elems
  <2>5. Types' /\ Swept'
    BY <1>1, <1>2, <2>3, StillTyped DEF Swept
  <2>6. Control'
    BY <1>1, <1>9, <2>2, <2>3, <2>4 DEF Control, At, Visiting, Up, Rising1, Running, After, Batch
  <2>7. Reported' /\ Exact'
    BY <2>2, <2>3, <2>4 DEF Reported, Exact, At, Rising1, Running, After, Batch
  <2>8. Replayed'
    BY <1>1, <1>2, <2>2, <2>3 DEF Replayed, ReplayOK, At, NotYet, Rising1, After
  <2>9. Rising'
    BY <2>2, <2>3 DEF Rising, At
  <2>10. Read'
    BY <1>2 DEF Read
  <2> QED BY <2>5, <2>6, <2>7, <2>8, <2>9, <2>10
<1> QED BY <1>3, <1>4, <1>8, <1>9

-----------------------------------------------------------------------------
(* The replay goroutine, the target, the signal and the crash *)

\* The invocation has not moved.
LEMMA UnmovedKeeps ==
    ASSUME CapacityInv, UNCHANGED <<cfg, db, inv, m>>
    PROVE  Control' /\ Swept' /\ Reported' /\ Exact' /\ Rising'
<1> USE DEF CapacityInv
<1>1. Control'
  BY DEF Control, At
<1>2. Swept'
  BY DEF Swept, MayBeActive
<1>3. Reported'
  BY DEF Reported, Inactive, At
<1>4. Exact'
  BY DEF Exact, Prefix, At
<1>5. Rising'
  BY DEF Rising, At
<1> QED BY <1>1, <1>2, <1>3, <1>4, <1>5

\* Nothing but the target's failures, fewer, the faults and the context.
LEMMA QuietKeeps ==
    ASSUME CapacityInv, UNCHANGED <<cfg, db, file, inv, m, rp, look>>, failing' \subseteq failing,
           faults' \in Nat, cancelled' \in BOOLEAN
    PROVE  CapacityInv'
<1> USE DEF CapacityInv
<1>1. Types'
  BY DEF Types
<1>2. Control' /\ Swept' /\ Reported' /\ Exact' /\ Rising'
  BY UnmovedKeeps
<1>3. Replayed'
  <2>1. ReplayOK'
    BY SameReplay DEF Replayed
  <2> QED BY <2>1 DEF Replayed, At
<1>4. Read'
  BY DEF Read, At, DetectionHostsWereFailed
<1> QED BY <1>1, <1>2, <1>3, <1>4

\* The goroutine goes on.
LEMMA GoroutineKeeps ==
    ASSUME CapacityInv, UNCHANGED <<cfg, db, file, inv, m, look, cancelled>>, faults' \in Nat, ReplayOK',
           rp.pc \notin {"none", "done"}, rp'.pc # "none", rp'.plan = rp.plan,
           rp' = [pc |-> rp'.pc, todo |-> rp'.todo, plan |-> rp'.plan, bad |-> rp'.bad, hit |-> rp'.hit]
    PROVE  CapacityInv'
<1> USE DEF CapacityInv
<1>1. Types'
  BY DEF Types
<1>2. Control' /\ Swept' /\ Reported' /\ Exact' /\ Rising'
  BY UnmovedKeeps
<1>3. Replayed'
  BY DEF Replayed, At
<1>4. Read'
  BY DEF Read, At, DetectionHostsWereFailed
<1> QED BY <1>1, <1>2, <1>3, <1>4

LEMMA WakeStep ==
    ASSUME CapacityInv, ReplayWake
    PROVE  CapacityInv'
<1>1. /\ UNCHANGED <<cfg, db, file, inv, m, look, cancelled, failing>> /\ faults' \in Nat
      /\ rp = [pc |-> rp.pc, todo |-> rp.todo, plan |-> rp.plan, bad |-> rp.bad, hit |-> rp.hit] /\ ReplayOK
      /\ rp.pc \in {"wait", "on"}
  BY DEF ReplayWake, CapacityInv, Types, Replayed
<1>2. \/ rp' = [pc |-> "done", todo |-> rp.todo, plan |-> rp.plan, bad |-> TRUE, hit |-> rp.hit]
      \/ /\ rp' = [pc |-> "activate", todo |-> rp.todo, plan |-> rp.plan, bad |-> rp.bad, hit |-> rp.hit]
         /\ rp.pc = "wait"
      \/ /\ rp' = [pc |-> "off", todo |-> rp.plan.hosts, plan |-> rp.plan, bad |-> rp.bad, hit |-> rp.hit]
         /\ rp.pc = "on"
  <2>1. CASE rp' = [rp EXCEPT !.pc = "done", !.bad = TRUE]
    BY <1>1, <2>1
  <2>2. CASE rp' = [rp EXCEPT !.pc = "activate"] /\ rp.pc = "wait"
    BY <1>1, <2>2
  <2>3. CASE rp' = [rp EXCEPT !.pc = "off", !.todo = rp.plan.hosts] /\ rp.pc = "on"
    BY <1>1, <2>3
  <2> QED BY <1>1, <2>1, <2>2, <2>3 DEF ReplayWake
<1>3. /\ rp'.plan = rp.plan /\ rp'.pc \in {"done", "activate", "off"}
      /\ rp' = [pc |-> rp'.pc, todo |-> rp'.todo, plan |-> rp'.plan, bad |-> rp'.bad, hit |-> rp'.hit]
      /\ rp'.pc = "done" => rp'.bad = TRUE
      /\ rp'.pc = "off" => rp'.todo = rp.plan.hosts /\ rp.pc = "on" /\ rp'.bad = rp.bad
      /\ rp'.pc = "activate" => rp'.todo = rp.todo /\ rp.pc = "wait"
      /\ rp'.hit = rp.hit
  BY <1>2
<1>4. ReplayOK'
  <2>1. PlanOK(rp.plan, inv.size)'
    BY <1>1, <1>3 DEF ReplayOK, PlanOK
  <2> QED BY <1>1, <1>3, <2>1 DEF ReplayOK
<1> QED BY <1>1, <1>3, <1>4, GoroutineKeeps

\* Each host it has been through is failed, unless it is told otherwise.
LEMMA FailStep ==
    ASSUME CapacityInv, ReplayActivate
    PROVE  CapacityInv'
<1>1. /\ UNCHANGED <<cfg, db, file, inv, m, look, cancelled>> /\ Types
      /\ rp = [pc |-> rp.pc, todo |-> rp.todo, plan |-> rp.plan, bad |-> rp.bad, hit |-> rp.hit] /\ ReplayOK
      /\ rp.pc = "activate"
  BY DEF ReplayActivate, ReplayCall, CapacityInv, Types, Replayed
<1>2. faults' \in Nat
  BY <1>1, NoteCounts DEF ReplayActivate, ReplayCall, Types
<1>3. rp.bad # TRUE => rp.plan.hosts \ rp.todo \subseteq rp.hit
  BY <1>1 DEF ReplayOK
<1>4. CASE rp.todo = {} /\ rp' = [rp EXCEPT !.pc = "on"]
  <2>1. rp' = [pc |-> "on", todo |-> rp.todo, plan |-> rp.plan, bad |-> rp.bad, hit |-> rp.hit]
    BY <1>1, <1>4
  <2>2. PlanOK(rp.plan, inv.size)'
    BY <1>1, <2>1 DEF ReplayOK, PlanOK
  <2>3. ReplayOK'
    BY <1>1, <1>3, <1>4, <2>1, <2>2 DEF ReplayOK
  <2> QED BY <1>1, <1>2, <2>1, <2>3, GoroutineKeeps
<1>5. ASSUME NEW h, NEW o, rp' = [rp EXCEPT !.todo = @ \ {h}, !.bad = @ \/ o # "ok",
                                            !.hit = IF "activate" = "activate" /\ o # "refused" THEN @ \cup {h} ELSE @]
      PROVE  CapacityInv'
  <2>1. PICK bad : bad = (rp.bad \/ o # "ok")
    OBVIOUS
  <2>2. PICK hit : hit = IF o # "refused" THEN rp.hit \cup {h} ELSE rp.hit
    OBVIOUS
  <2>3. rp' = [pc |-> "activate", todo |-> rp.todo \ {h}, plan |-> rp.plan, bad |-> bad, hit |-> hit]
    BY <1>1, <1>5, <2>1, <2>2
  <2>4. bad # TRUE => rp.bad # TRUE /\ o = "ok"
    BY <2>1
  <2>5. bad # TRUE => rp.plan.hosts \ (rp.todo \ {h}) \subseteq hit
    BY <1>3, <2>2, <2>4
  <2>6. PlanOK(rp.plan, inv.size)'
    BY <1>1, <2>3 DEF ReplayOK, PlanOK
  <2>7. ReplayOK'
    BY <1>1, <2>3, <2>5, <2>6 DEF ReplayOK
  <2> QED BY <1>1, <1>2, <2>3, <2>7, GoroutineKeeps
<1> QED BY <1>4, <1>5 DEF ReplayActivate, ReplayCall

\* Each host it clears is failing no more, unless it is told otherwise.
LEMMA ClearStep ==
    ASSUME CapacityInv, ReplayDeactivate
    PROVE  CapacityInv'
<1>1. /\ UNCHANGED <<cfg, db, file, inv, m, look, cancelled>> /\ Types
      /\ rp = [pc |-> rp.pc, todo |-> rp.todo, plan |-> rp.plan, bad |-> rp.bad, hit |-> rp.hit] /\ ReplayOK
      /\ rp.pc = "off"
  BY DEF ReplayDeactivate, ReplayCall, CapacityInv, Types, Replayed
<1>2. faults' \in Nat
  BY <1>1, NoteCounts DEF ReplayDeactivate, ReplayCall, Types
<1>3. rp.bad # TRUE => failing \cap rp.plan.hosts \subseteq rp.todo
  BY <1>1 DEF ReplayOK
<1>4. CASE rp.todo = {} /\ rp' = [rp EXCEPT !.pc = "done"] /\ failing' = failing
  <2>1. rp' = [pc |-> "done", todo |-> rp.todo, plan |-> rp.plan, bad |-> rp.bad, hit |-> rp.hit]
    BY <1>1, <1>4
  <2>2. PlanOK(rp.plan, inv.size)'
    BY <1>1, <2>1 DEF ReplayOK, PlanOK
  <2>3. ReplayOK'
    BY <1>1, <1>3, <1>4, <2>1, <2>2 DEF ReplayOK
  <2> QED BY <1>1, <1>2, <2>1, <2>3, GoroutineKeeps
<1>5. ASSUME NEW h, NEW o, rp' = [rp EXCEPT !.todo = @ \ {h}, !.bad = @ \/ o # "ok",
                                            !.hit = IF "off" = "activate" /\ o # "refused" THEN @ \cup {h} ELSE @],
             failing' = IF o = "refused" THEN failing ELSE failing \ {h}
      PROVE  CapacityInv'
  <2>1. PICK bad : bad = (rp.bad \/ o # "ok")
    OBVIOUS
  <2>2. rp' = [pc |-> "off", todo |-> rp.todo \ {h}, plan |-> rp.plan, bad |-> bad, hit |-> rp.hit]
    BY <1>1, <1>5, <2>1
  <2>3. bad # TRUE => rp.bad # TRUE /\ o = "ok"
    BY <2>1
  <2>4. bad # TRUE => failing' \cap rp.plan.hosts \subseteq rp.todo \ {h}
    BY <1>3, <1>5, <2>3
  <2>5. PlanOK(rp.plan, inv.size)'
    BY <1>1, <2>2 DEF ReplayOK, PlanOK
  <2>6. ReplayOK'
    BY <1>1, <2>2, <2>3, <2>4, <2>5 DEF ReplayOK
  <2> QED BY <1>1, <1>2, <2>2, <2>6, GoroutineKeeps
<1> QED BY <1>4, <1>5 DEF ReplayDeactivate, ReplayCall

\* A crash ends the process; the tables stay as committed.
LEMMA CrashStep ==
    ASSUME CapacityInv, Crash
    PROVE  CapacityInv'
<1>1. /\ UNCHANGED <<cfg, db, m, failing, cancelled>> /\ file' \in {file, Torn} /\ faults' = faults + 1
      /\ inv' = Ended("crash") /\ rp' = NoReplay /\ look' = NoLook /\ Types
  BY DEF Crash, End, CapacityInv
<1>2. InvocationOK(inv) /\ FileOK(file') /\ ManifestOK(m') /\ faults' \in Nat /\ cancelled' \in BOOLEAN
  BY <1>1 DEF Types, FileOK
<1>3. Still /\ rp'.pc = "none" /\ look'.kind # "detect"
  BY <1>1, <1>2, NoReplayIs DEF Still, NoLook
<1>4. Over(inv, inv', "crash")
  BY <1>1, <1>2, EndedOK
<1>5. Types' /\ Swept'
  BY <1>1, <1>3, <1>4, StillTyped DEF Over, Swept
<1> QED BY <1>3, <1>4, <1>5, IdleKeeps DEF Over

-----------------------------------------------------------------------------
(* The theorems *)

\* Every initial state satisfies the invariant.
LEMMA CapacityInit == Init => CapacityInv
<1> SUFFICES ASSUME Init PROVE CapacityInv
  OBVIOUS
<1>1. /\ cfg \in Configs /\ file = None /\ inv = NoInvocation /\ m = NewManifest /\ rp = NoReplay
      /\ cancelled = FALSE /\ faults = 0 /\ look = NoLook
      /\ db \in [ServiceSet -> Tables]
      /\ \A s \in ServiceSet : db[s].rows \cup db[s].foreign \subseteq 0..(cfg.count[s] - 1)
  BY DEF Init
<1>2. \A s \in ServiceSet : TableOK(db[s], cfg.count[s])
  <2> TAKE s \in ServiceSet
  <2>1. /\ db[s] = Table(db[s].rows, db[s].foreign, db[s].active)
        /\ db[s].active \subseteq db[s].rows \cup db[s].foreign
    BY <1>1, TablesAssumption
  <2>2. PICK r, f, a : db[s] = [rows |-> r, foreign |-> f, active |-> a]
    BY <2>1 DEF Table
  <2>3. /\ r \subseteq 0..(cfg.count[s] - 1) /\ f \subseteq 0..(cfg.count[s] - 1)
        /\ a \subseteq 0..(cfg.count[s] - 1)
    BY <1>1, <2>1, <2>2
  <2> QED BY <2>2, <2>3 DEF TableOK
<1>3. Types
  <2>1. DOMAIN db = ServiceSet /\ db = [s \in ServiceSet |-> db[s]]
    BY <1>1
  <2>2. FileOK(file) /\ cancelled \in BOOLEAN /\ faults \in Nat
    BY <1>1 DEF FileOK
  <2> QED BY <1>1, <1>2, <2>1, <2>2, NoInvocationOK, NewManifestOK, NoReplayIs DEF Types
<1>4. inv.pc = "idle" /\ inv.touched = {} /\ rp.pc = "none" /\ look.kind # "detect"
  BY <1>1, NoInvocationOK, NoReplayIs DEF NoLook
<1>5. Control
  BY <1>4 DEF Control, At, Visiting, Up, Rising1, Running, After
<1>6. Swept
  BY <1>4 DEF Swept
<1>7. Reported /\ Exact /\ Rising /\ Read
  BY <1>4 DEF Reported, Exact, Rising, Read, At, Rising1, Running, After
<1>8. Replayed
  BY <1>4 DEF Replayed, ReplayOK, At, After, Rising1
<1> QED BY <1>3, <1>5, <1>6, <1>7, <1>8 DEF CapacityInv

\* Every step keeps it.
LEMMA CapacityNext == CapacityInv /\ [Next]_vars => CapacityInv'
<1> SUFFICES ASSUME CapacityInv, [Next]_vars PROVE CapacityInv'
  OBVIOUS
<1>1. CASE Start
  BY <1>1, StartingStep
<1>2. CASE AssertSeedSafe \/ Seed \/ Verify
  BY <1>2, SeedCheckStep, SeedStep, VerifyStep
<1>3. CASE RunSuite \/ PreflightPrometheus
  BY <1>3, SuiteStep, PreflightStep
<1>4. CASE Activate \/ VerifyActiveCount \/ PartialActivationCleanup
  BY <1>4, ActivateStep, CountStep, PartialStep
<1>5. CASE PreflightActivatedTargets \/ ResetTargetObserver \/ ResetNetworkBuckets \/ StartCaptures
  BY <1>5, TargetsStep, ObserverStep, NetworkStep, StartStep
<1>6. CASE StartCapacityReplay \/ SleepWindow \/ EndCaptures \/ FinishCapacityReplay
  BY <1>6, ReplayStep, WindowStep, EndStep, FinishStep
<1>7. CASE CollectReplayDetections \/ SnapshotTargetObserver \/ SnapshotNetworkBuckets \/ CollectStreamingTelemetry
  BY <1>7, DetectStep, ObserverSnapshotStep, NetworkSnapshotStep, StreamStep
<1>8. CASE WindowEndVerify \/ Deactivate \/ CollectPrometheus \/ PostDeactivateVerify \/ Judge
  BY <1>8, EndVerifyStep, DeactivateStep, PrometheusStep, PostVerifyStep, JudgeStep
<1>9. CASE DeferredCleanup \/ BatchEnd \/ Cooldown
  BY <1>9, CleanupStep, BatchEndStep, CooldownStep
<1>10. CASE ReplayWake \/ ReplayActivate \/ ReplayDeactivate
  BY <1>10, WakeStep, FailStep, ClearStep
<1>11. CASE Expire
  <2>1. UNCHANGED <<cfg, db, file, inv, m, rp, look>> /\ failing' \subseteq failing
    BY <1>11 DEF Expire
  <2>2. faults' \in Nat /\ cancelled' \in BOOLEAN
    BY <1>11 DEF Expire, CapacityInv, Types
  <2> QED BY <2>1, <2>2, QuietKeeps
<1>12. CASE Cancel
  <2>1. UNCHANGED <<cfg, db, file, inv, m, rp, look>> /\ failing' \subseteq failing
    BY <1>12 DEF Cancel
  <2>2. faults' \in Nat /\ cancelled' \in BOOLEAN
    BY <1>12 DEF Cancel, CapacityInv, Types
  <2> QED BY <2>1, <2>2, QuietKeeps
<1>13. CASE Crash
  BY <1>13, CrashStep
<1>14. CASE UNCHANGED vars
  <2>1. UNCHANGED <<cfg, db, file, inv, m, rp, look>> /\ failing' \subseteq failing
    BY <1>14 DEF vars
  <2>2. faults' \in Nat /\ cancelled' \in BOOLEAN
    BY <1>14 DEF vars, CapacityInv, Types
  <2> QED BY <2>1, <2>2, QuietKeeps
<1> QED BY <1>1, <1>2, <1>3, <1>4, <1>5, <1>6, <1>7, <1>8, <1>9, <1>10, <1>11, <1>12, <1>13, <1>14 DEF Next

\* The strengthening: where a row may be active, what was noticed of it, which
\* rows the window has, and what the replay leaves, in every reachable state.
THEOREM CapacityCorrect == Spec => []CapacityInv
BY CapacityInit, CapacityNext, PTL DEF Spec

\* Whatever the services, the configuration and the moment of the signal: a
\* batch or suite that has returned leaves no row active in a database it
\* tried to activate, if no statement failed (runner.go's deferred cleanup and
\* partial-activation cleanup).
THEOREM ReturnedMeansInactive == Spec => []InterruptedCleansUp
<1>1. CapacityInv => InterruptedCleansUp
  <2> SUFFICES ASSUME CapacityInv, At("idle"), inv.mode \in {"run-batch", "run-suite"}, inv.out \in {"ok", "err"},
                      inv.sql = 0, NEW s \in inv.touched \cap cfg.dsn
               PROVE  db[s].active = {}
    BY DEF InterruptedCleansUp
  <2>1. MayBeActive = {}
    BY DEF MayBeActive, At, Up, Rising1, Running
  <2> QED BY <2>1 DEF CapacityInv, Swept, Batch
<1> QED BY <1>1, CapacityCorrect, PTL

\* A batch that leaves rows active, even by a deadlock that undid its
\* deactivation, ends with an error or a failed health.
THEOREM LeftoversAreReported == Spec => []LeftActiveIsReported
<1>1. CapacityInv => LeftActiveIsReported
  <2> SUFFICES ASSUME CapacityInv, At("batchend"), NEW s \in inv.touched \cap cfg.dsn, db[s].active # {}
               PROVE  m.err \/ m.health = "fail"
    BY DEF LeftActiveIsReported
  <2>1. s \in ServiceSet
    BY DEF CapacityInv, Types, InvocationOK
  <2> QED BY <2>1 DEF CapacityInv, Reported, Inactive
<1> QED BY <1>1, CapacityCorrect, PTL

\* Replay detection reads the history of rows that are active and whose host
\* the target was made to fail, for every first URL number, host window and
\* sample: unless the replay is recorded as failed or a statement failed.
THEOREM DetectionReadsFailedHosts == Spec => []DetectionHostsWereFailed
<1>1. CapacityInv => DetectionHostsWereFailed
  BY DEF CapacityInv, Read, DetectionHostsWereFailed
<1> QED BY <1>1, CapacityCorrect, PTL

\* The suite-state file is written by the end of a batch alone.
LEMMA OnlyBatchEndSaves == [Next]_vars => file' = file \/ BatchEnd \/ file' = Torn
<1> SUFFICES ASSUME [Next]_vars, file' # file, ~BatchEnd PROVE file' = Torn
  OBVIOUS
<1>1. CASE Start \/ AssertSeedSafe \/ Seed \/ Verify \/ RunSuite \/ PreflightPrometheus
  BY <1>1 DEF Start, AssertSeedSafe, Seed, Verify, RunSuite, PreflightPrometheus
<1>2. CASE Activate \/ VerifyActiveCount \/ PartialActivationCleanup \/ Deactivate \/ DeferredCleanup
  BY <1>2 DEF Activate, VerifyActiveCount, PartialActivationCleanup, Deactivate, DeferredCleanup
<1>3. CASE PreflightActivatedTargets \/ ResetTargetObserver \/ ResetNetworkBuckets \/ StartCaptures
  BY <1>3 DEF PreflightActivatedTargets, ResetTargetObserver, ResetNetworkBuckets, StartCaptures
<1>4. CASE StartCapacityReplay \/ SleepWindow \/ EndCaptures \/ FinishCapacityReplay
  BY <1>4 DEF StartCapacityReplay, SleepWindow, EndCaptures, FinishCapacityReplay
<1>5. CASE CollectReplayDetections \/ SnapshotTargetObserver \/ SnapshotNetworkBuckets \/ CollectStreamingTelemetry
  BY <1>5 DEF CollectReplayDetections, SnapshotTargetObserver, SnapshotNetworkBuckets, CollectStreamingTelemetry
<1>6. CASE WindowEndVerify \/ CollectPrometheus \/ PostDeactivateVerify \/ Judge \/ Cooldown
  BY <1>6 DEF WindowEndVerify, CollectPrometheus, PostDeactivateVerify, Judge, Cooldown
<1>7. CASE ReplayWake \/ ReplayActivate \/ ReplayDeactivate \/ Expire \/ Cancel
  BY <1>7 DEF ReplayWake, ReplayActivate, ReplayDeactivate, ReplayCall, Expire, Cancel
<1>8. CASE Crash
  BY <1>8 DEF Crash
<1>9. CASE UNCHANGED vars
  BY <1>9 DEF vars
<1> QED BY <1>1, <1>2, <1>3, <1>4, <1>5, <1>6, <1>7, <1>8, <1>9 DEF Next

\* A suite that records a clean batch has withdrawn the replay's failures and
\* left no row active, and, if no statement failed, ran its window with
\* exactly the rows asked for.
THEOREM CleanMeansClean == Spec => CleanBatchWasClean
<1> DEFINE Clean == /\ inv.sql = 0 => inv.exact
                    /\ rp.pc # "none" => failing \cap rp.plan.hosts = {}
                    /\ \A s \in ServiceSet : db[s].active = {}
<1>1. CapacityInv /\ [Next]_vars => (file' # file /\ file'.kind = "saved" /\ file'.clean = inv.size => Clean)
  <2> SUFFICES ASSUME CapacityInv, [Next]_vars, file' # file, file'.kind = "saved", file'.clean = inv.size
               PROVE  Clean
    OBVIOUS
  <2>1. BatchEnd
    BY OnlyBatchEndSaves DEF Torn
  <2>2. inv.pc = "batchend" /\ inv.mode # "run-batch" /\ m.err # TRUE /\ file' = BatchState
    <3>1. file' # Torn
      BY DEF Torn
    <3> QED BY <2>1, <3>1 DEF BatchEnd, At
  <2>3. inv.mode = "run-suite" /\ inv.clean < inv.size /\ inv.clean \in Int /\ inv.size \in Int /\ ManifestOK(m)
    BY <2>2 DEF CapacityInv, Control, Rising, Types, InvocationOK, At, Batch
  <2>4. SuiteBatchStatus(m) = "pass"
    <3>1. CASE SuiteBatchStatus(m) # "pass"
      <4>1. file'.clean = inv.clean
        BY <2>2, <3>1 DEF BatchState, Saved
      <4> QED BY <2>3, <4>1
    <3> QED BY <3>1
  <2>5. m.health # "fail" /\ m.parts["replay"] # "fail"
    <3>1. "replay" \in DOMAIN m.parts
      BY <2>3 DEF ManifestOK, Parts
    <3> QED BY <2>4, <3>1 DEF SuiteBatchStatus
  <2>6. inv.sql = 0 => inv.exact
    BY <2>2 DEF CapacityInv, Exact, At
  <2>7. rp.pc = "none" \/ (rp.pc = "done" /\ rp.bad # TRUE)
    BY <2>2, <2>5 DEF CapacityInv, Replayed, At
  <2>8. rp.pc # "none" => failing \cap rp.plan.hosts = {}
    BY <2>7 DEF CapacityInv, Replayed, ReplayOK
  <2>9. \A s \in ServiceSet : db[s].active = {}
    BY <2>2, <2>5 DEF CapacityInv, Reported, Inactive, At
  <2> QED BY <2>6, <2>8, <2>9
<1> QED BY <1>1, CapacityCorrect, PTL DEF Spec, CleanBatchWasClean
=============================================================================
