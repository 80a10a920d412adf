--------------------------- MODULE CertMintProofs ---------------------------
(***************************************************************************)
(* Proofs about CertMint: whatever the manifest on disk names can be       *)
(* downloaded, and an entry leaves it only by the trim rule, for any       *)
(* processes, profiles, lifetimes and number of failures.                  *)
(*                                                                         *)
(* The argument is about the one process that holds the lock.  What it     *)
(* keeps in memory has its files; what the disk still names and its memory *)
(* does not was trimmed, so it belongs to a day that is over and can never *)
(* be archived, hence rewritten, again; and the slots it has still to      *)
(* handle are in neither.                                                  *)
(***************************************************************************)
EXTENDS CertMint, Integers, TLAPS

InPass == {"next", "issue", "archive", "copy", "save"}

\* A certificate is not dropped on the day of its slot.
OutlivesDay(s, t) == t + Retention >= (s.day + 1) * DayLen

\* e is very old and one of its group in m is at least as old.
Replaced(e, m) ==
    /\ VeryOld(e, now)
    /\ \E o \in m : o.slot.group = e.slot.group /\ o.notAfter <= e.notAfter

\* What holds of the process at work once it has loaded the manifest.
MemInv(p) ==
    /\ mem[p] \subseteq full
    /\ \A e \in mem[p] : OutlivesDay(e.slot, e.notAfter)
    /\ \A e \in manifest \ mem[p] : Replaced(e, mem[p])

\* The orders of a pass: begun, not in memory, not left behind on disk.
OrderInv(p) ==
    pc[p] \in InPass =>
        /\ \A s \in todo[p] : s.day * DayLen <= now /\ ~HasSlot(mem[p], s) /\ ~HasSlot(manifest \ mem[p], s)
        /\ pc[p] # "next" =>
             /\ order[p] \in Slots /\ order[p] \notin todo[p]
             /\ order[p].day * DayLen <= now /\ ~HasSlot(manifest \ mem[p], order[p])
        /\ pc[p] \in {"issue", "archive", "copy"} => ~HasSlot(mem[p], order[p])
        /\ pc[p] \in {"archive", "copy", "save"} => order[p] \in DOMAIN live
        /\ pc[p] = "copy" => EntryOf(order[p]) \in dirs

\* The trimmed entries are out of memory, and out of the manifest once files go.
TrimInv(p) ==
    /\ pc[p] \in {"trimsave", "remove"} => gone[p] \cap mem[p] = {}
    /\ pc[p] = "remove" => gone[p] \cap manifest = {}

Loaded(p) == Running(p) /\ pc[p] # "load"

IInv ==
    /\ TypeOK /\ ServableManifest
    /\ \A s \in DOMAIN live : OutlivesDay(s, live[s].notAfter)
    /\ \A e \in manifest : OutlivesDay(e.slot, e.notAfter)
    /\ \A p \in Procs : Loaded(p) => MemInv(p) /\ OrderInv(p) /\ TrimInv(p)

-----------------------------------------------------------------------------
(* Days *)

\* Day numbers are natural, and a day whose end has passed is not today.
LEMMA DayFacts ==
    ASSUME NEW t \in Nat
    PROVE  /\ Day(t) \in Nat
           /\ \A d \in Nat : (d + 1) * DayLen < t => d # Day(t)
<1>1. DayLen \in Nat /\ DayLen > 0
  BY MintAssumption
<1>2. Day(t) \in Nat
  BY <1>1 DEF Day
<1>3. t < (Day(t) + 1) * DayLen
  BY <1>1, <1>2 DEF Day
<1>4. QED
  BY <1>1, <1>2, <1>3

\* A slot has a day and a number; a slot that is due has begun.
LEMMA SlotFacts ==
    /\ \A s \in Slots : s.group \in Groups /\ s.day \in Nat /\ s.slot \in Nat
    /\ \A m, t : \A s \in Due(m, t) : s \in Slots /\ s.day = Day(t) /\ ~HasSlot(m, s)
    /\ \A m : \A t \in Nat : \A s \in Due(m, t) : s.day * DayLen <= t
<1>1. \A s \in Slots : s.group \in Groups /\ s.day \in Nat /\ s.slot \in Nat
  <2>1. Day(MaxTime) \in Nat /\ DayLen - 1 \in Int
    BY DayFacts, MintAssumption
  <2>2. QED
    BY <2>1 DEF Slots
<1>2. \A m, t : \A s \in Due(m, t) : s \in Slots /\ s.day = Day(t) /\ ~HasSlot(m, s) /\ SlotTime(s) <= t
  BY DEF Due
<1>3. ASSUME NEW t \in Nat, NEW s \in Slots, SlotTime(s) <= t
      PROVE  s.day * DayLen <= t
  <2>1. DayLen \in Nat /\ PerDay[s.group] \in 1..DayLen
    BY <1>1, MintAssumption
  <2>2. DayLen \div PerDay[s.group] \in Nat
    BY <2>1
  <2>3. s.slot * (DayLen \div PerDay[s.group]) \in Nat
    BY <1>1, <2>2
  <2>4. s.day * DayLen \in Nat
    BY <1>1, <2>1
  <2>5. QED
    BY <1>3, <2>3, <2>4 DEF SlotTime
<1>4. QED
  BY <1>1, <1>2, <1>3

-----------------------------------------------------------------------------
(* The inductive invariant *)

LEMMA InitInv == Init => IInv
<1> SUFFICES ASSUME Init PROVE IInv
  OBVIOUS
<1>1. TypeOK
  BY MintAssumption DEF Init, TypeOK, Running, Labels
<1>2. \A p \in Procs : ~Running(p)
  BY DEF Init, Running
<1>3. QED
  BY <1>1, <1>2 DEF Init, IInv, ServableManifest, Loaded

\* While one process runs, it is the only one.
LEMMA OnlyOne ==
    ASSUME TypeOK, NEW p \in Procs, Running(p), NEW q \in Procs, Running(q)
    PROVE  q = p
BY DEF TypeOK

\* A process that ends leaves the library as it is and no process at work.
LEMMA ExitInv ==
    ASSUME IInv, NEW p \in Procs, Running(p), Exit(p), faults' \in 0..MaxFaults,
           UNCHANGED <<now, live, manifest, dirs, full>>
    PROVE  IInv'
<1>0. TypeOK
  BY DEF IInv
<1>1. \A q \in Procs : ~Running(q)'
  <2>1. SUFFICES ASSUME NEW q \in Procs PROVE ~Running(q)'
    OBVIOUS
  <2>2. CASE q = p
    BY <1>0, <2>2 DEF Exit, Goto, Running, TypeOK
  <2>3. CASE q # p
    BY <1>0, <2>3, OnlyOne DEF Exit, Goto, Running, TypeOK
  <2>4. QED
    BY <2>2, <2>3
<1>2. TypeOK'
  <2>1. lock' = None
    BY <1>0 DEF TypeOK, Exit
  <2>2. pc' \in [Procs -> Labels]
    BY <1>0 DEF TypeOK, Exit, Goto, Labels
  <2>3. \A q \in Procs : (Running(q) <=> lock = q)'
    BY <1>1, <2>1, MintAssumption
  <2>4. /\ mem' \in [Procs -> SUBSET Entries] /\ gone' \in [Procs -> SUBSET Entries]
        /\ todo' \in [Procs -> SUBSET Slots] /\ order' \in [Procs -> Slots \cup {None}]
    BY <1>0 DEF TypeOK, Exit
  <2>5. stopping' \subseteq Daemons
    BY <1>0 DEF TypeOK, Exit
  <2>6. QED
    BY <1>0, <2>1, <2>2, <2>3, <2>4, <2>5 DEF TypeOK
<1>3. QED
  BY <1>1, <1>2 DEF IInv, ServableManifest, Loaded, OutlivesDay

LEMMA AcquireInv == ASSUME IInv, NEW p \in Procs, Acquire(p) PROVE IInv'
<1>0. TypeOK /\ pc[p] = "off" /\ UNCHANGED <<now, live, manifest, dirs, full, locals, stopping, faults>>
  BY DEF IInv, Acquire
<1>1. \A q \in Procs : (Running(q) <=> lock = q)'
  BY <1>0, MintAssumption DEF Acquire, TypeOK, Running, Goto
<1>2. pc' \in [Procs -> Labels] /\ lock' \in Procs \cup {None}
  BY <1>0 DEF Acquire, TypeOK, Goto, Labels
<1>3. TypeOK'
  BY <1>0, <1>1, <1>2 DEF TypeOK, locals
<1>4. ASSUME NEW q \in Procs, Loaded(q)' PROVE q # p /\ Loaded(q) /\ pc'[q] = pc[q]
  BY <1>0, <1>4 DEF Acquire, Loaded, Running, Goto, TypeOK
<1>5. QED
  BY <1>0, <1>3, <1>4 DEF IInv, ServableManifest, OutlivesDay, MemInv, OrderInv, TrimInv, Replaced,
     VeryOld, HasSlot, EntryOf, locals

\* The process at work takes a step and goes on: it is still the only one.
LEMMA GoesOn ==
    ASSUME TypeOK, NEW p \in Procs, Running(p), lock' = lock,
           NEW l \in Labels \ {"off", "done"}, Goto(p, l)
    PROVE  /\ pc' \in [Procs -> Labels] /\ pc'[p] = l
           /\ \A q \in Procs : (Running(q) <=> lock = q)'
           /\ \A q \in Procs : Loaded(q)' => q = p
<1>1. pc' \in [Procs -> Labels] /\ pc'[p] = l
  BY DEF TypeOK, Goto
<1>2. \A q \in Procs : (Running(q) <=> lock = q)'
  BY <1>1 DEF TypeOK, Goto, Running
<1>3. lock = p
  BY DEF TypeOK
<1>4. QED
  BY <1>1, <1>2, <1>3 DEF Loaded

LEMMA EndPassInv ==
    ASSUME IInv, NEW p \in Procs, Loaded(p), EndPass(p), faults' \in 0..MaxFaults,
           UNCHANGED <<now, live, manifest, dirs, full>>
    PROVE  IInv'
<1>0. TypeOK /\ Running(p)
  BY DEF IInv, Loaded
<1>1. CASE p \notin Daemons
  BY <1>0, <1>1, ExitInv DEF EndPass
<1>2. CASE p \in Daemons
  <2>1. Goto(p, "sleep") /\ UNCHANGED <<lock, locals, stopping>>
    BY <1>2 DEF EndPass
  <2>2. /\ pc' \in [Procs -> Labels] /\ pc'[p] = "sleep"
        /\ \A q \in Procs : (Running(q) <=> lock = q)'
        /\ \A q \in Procs : Loaded(q)' => q = p
    BY <1>0, <2>1, GoesOn DEF Labels
  <2>3. TypeOK'
    BY <1>0, <2>1, <2>2 DEF TypeOK, locals
  <2>4. MemInv(p)' /\ OrderInv(p)' /\ TrimInv(p)'
    BY <2>1, <2>2 DEF IInv, MemInv, OrderInv, TrimInv, InPass, OutlivesDay, Replaced, VeryOld, locals
  <2>5. QED
    BY <2>2, <2>3, <2>4 DEF IInv, ServableManifest, OutlivesDay
<1>3. QED
  BY <1>1, <1>2

LEMMA LoadInv == ASSUME IInv, NEW p \in Procs, Load(p) PROVE IInv'
<1>0. /\ TypeOK /\ Running(p) /\ Goto(p, "plan") /\ mem' = [mem EXCEPT ![p] = manifest]
      /\ UNCHANGED <<now, lock, live, manifest, dirs, full, todo, order, lastDone, gone, stopping, faults>>
  BY DEF IInv, Load, Running
<1>1. /\ pc' \in [Procs -> Labels] /\ pc'[p] = "plan"
      /\ \A q \in Procs : (Running(q) <=> lock = q)'
      /\ \A q \in Procs : Loaded(q)' => q = p
  BY <1>0, GoesOn DEF Labels
<1>2. TypeOK' /\ mem'[p] = manifest
  BY <1>0, <1>1 DEF TypeOK
<1>3. MemInv(p)' /\ OrderInv(p)' /\ TrimInv(p)'
  BY <1>0, <1>1, <1>2 DEF IInv, ServableManifest, MemInv, OrderInv, TrimInv, InPass, OutlivesDay
<1>4. QED
  BY <1>0, <1>1, <1>2, <1>3 DEF IInv, ServableManifest, OutlivesDay

\* What is on disk but no longer in memory belongs to a day that is over.
LEMMA PlanInv == ASSUME IInv, NEW p \in Procs, Plan(p) PROVE IInv'
<1> DEFINE due == Due(mem[p], now)
<1>0. /\ TypeOK /\ Running(p) /\ Loaded(p) /\ now \in Nat /\ faults' \in 0..MaxFaults
      /\ UNCHANGED <<now, live, manifest, dirs, full, faults>>
  BY MintAssumption DEF IInv, Plan, Loaded, Running, TypeOK
<1>1. CASE due = {}
  BY <1>0, <1>1, EndPassInv DEF Plan
<1>2. CASE due # {}
  <2>1. /\ Goto(p, "next") /\ UNCHANGED <<lock, mem, order, gone, stopping>>
        /\ todo' = [todo EXCEPT ![p] = IF p \in DryRuns THEN {} ELSE due]
    BY <1>2 DEF Plan
  <2>2. /\ pc' \in [Procs -> Labels] /\ pc'[p] = "next"
        /\ \A q \in Procs : (Running(q) <=> lock = q)'
        /\ \A q \in Procs : Loaded(q)' => q = p
    BY <1>0, <2>1, GoesOn DEF Labels
  <2>3. due \subseteq Slots /\ todo'[p] \subseteq due /\ todo' \in [Procs -> SUBSET Slots]
    BY <1>0, <2>1, SlotFacts DEF TypeOK
  <2>4. TypeOK'
    BY <1>0, <2>1, <2>2, <2>3 DEF TypeOK
  <2>5. MemInv(p)' /\ TrimInv(p)'
    BY <1>0, <2>1, <2>2 DEF IInv, MemInv, TrimInv, OutlivesDay, Replaced, VeryOld
  <2>6. ASSUME NEW s \in due PROVE s.day * DayLen <= now /\ ~HasSlot(mem[p], s)
    BY <1>0, <2>6, SlotFacts
  <2>7. ASSUME NEW s \in due PROVE ~HasSlot(manifest \ mem[p], s)
    <3>1. SUFFICES ASSUME NEW e \in manifest \ mem[p], e.slot = s PROVE FALSE
      BY DEF HasSlot
    <3>2. OutlivesDay(e.slot, e.notAfter) /\ VeryOld(e, now)
      BY <1>0 DEF IInv, MemInv, Replaced
    <3>3. e.notAfter \in Nat /\ s \in Slots /\ s.day \in Nat /\ s.day = Day(now)
      BY <1>0, <2>3, <3>1, SlotFacts DEF TypeOK, Entries
    <3>4. (s.day + 1) * DayLen < now
      <4>1. DayLen \in Nat /\ Retention \in Nat
        BY MintAssumption
      <4>2. (s.day + 1) * DayLen \in Nat
        BY <3>3, <4>1
      <4>3. QED
        BY <1>0, <3>1, <3>2, <3>3, <4>1, <4>2 DEF OutlivesDay, VeryOld
    <3>5. QED
      BY <1>0, <3>3, <3>4, DayFacts
  <2>8. OrderInv(p)'
    BY <1>0, <2>1, <2>2, <2>3, <2>6, <2>7 DEF OrderInv, HasSlot
  <2>9. QED
    BY <1>0, <2>2, <2>4, <2>5, <2>8 DEF IInv, ServableManifest, OutlivesDay
<1>3. QED
  BY <1>1, <1>2

LEMMA NextOfInv == ASSUME IInv, NEW p \in Procs, NextOf(p) PROVE IInv'
<1>0. /\ TypeOK /\ Running(p) /\ Loaded(p) /\ pc[p] = "next"
      /\ UNCHANGED <<now, lock, live, manifest, dirs, full, mem, lastDone, gone, stopping, faults>>
  BY DEF IInv, NextOf, Loaded, Running
<1>1. CASE todo[p] = {}
  <2>1. Goto(p, "trim") /\ UNCHANGED <<todo, order>>
    BY <1>1 DEF NextOf
  <2>2. /\ pc' \in [Procs -> Labels] /\ pc'[p] = "trim"
        /\ \A q \in Procs : (Running(q) <=> lock = q)'
        /\ \A q \in Procs : Loaded(q)' => q = p
    BY <1>0, <2>1, GoesOn DEF Labels
  <2>3. TypeOK'
    BY <1>0, <2>1, <2>2 DEF TypeOK
  <2>4. MemInv(p)' /\ OrderInv(p)' /\ TrimInv(p)'
    BY <1>0, <2>1, <2>2 DEF IInv, MemInv, OrderInv, TrimInv, InPass, OutlivesDay, Replaced, VeryOld
  <2>5. QED
    BY <1>0, <2>2, <2>3, <2>4 DEF IInv, ServableManifest, OutlivesDay
<1>2. CASE todo[p] # {}
  <2>1. PICK s \in todo[p] : /\ todo' = [todo EXCEPT ![p] = @ \ {s}]
                              /\ order' = [order EXCEPT ![p] = s]
                              /\ Goto(p, "issue")
    BY <1>2 DEF NextOf
  <2>2. /\ pc' \in [Procs -> Labels] /\ pc'[p] = "issue"
        /\ \A q \in Procs : (Running(q) <=> lock = q)'
        /\ \A q \in Procs : Loaded(q)' => q = p
    BY <1>0, <2>1, GoesOn DEF Labels
  <2>3. s \in Slots /\ todo'[p] = todo[p] \ {s} /\ order'[p] = s
    BY <1>0, <2>1 DEF TypeOK
  <2>4. TypeOK'
    BY <1>0, <2>1, <2>2, <2>3 DEF TypeOK
  <2>5. MemInv(p)' /\ TrimInv(p)'
    BY <1>0, <2>2 DEF IInv, MemInv, TrimInv, OutlivesDay, Replaced, VeryOld
  <2>6. OrderInv(p)'
    BY <1>0, <2>2, <2>3 DEF IInv, OrderInv, InPass, HasSlot
  <2>7. QED
    BY <1>0, <2>2, <2>4, <2>5, <2>6 DEF IInv, ServableManifest, OutlivesDay
<1>3. QED
  BY <1>1, <1>2

LEMMA InterruptedInv == ASSUME IInv, NEW p \in Procs, Interrupted(p) PROVE IInv'
<1>1. Loaded(p) /\ EndPass(p) /\ faults' = faults /\ UNCHANGED <<now, live, manifest, dirs, full>>
  BY DEF Interrupted, Loaded, Running
<1>2. QED
  BY <1>1, EndPassInv DEF IInv, TypeOK

\* An order that ended without touching the library.
LEMMA FailedOrderInv ==
    ASSUME IInv, NEW p \in Procs, pc[p] \in InPass, OrderDone(p), faults' \in 0..MaxFaults,
           UNCHANGED <<now, lock, live, manifest, dirs, full, mem, todo, gone, stopping>>
    PROVE  IInv'
<1>0. TypeOK /\ Running(p) /\ Loaded(p) /\ Goto(p, "next") /\ order' = [order EXCEPT ![p] = None]
  BY DEF IInv, OrderDone, Loaded, Running, InPass
<1>1. /\ pc' \in [Procs -> Labels] /\ pc'[p] = "next"
      /\ \A q \in Procs : (Running(q) <=> lock = q)'
      /\ \A q \in Procs : Loaded(q)' => q = p
  BY <1>0, GoesOn DEF Labels
<1>2. TypeOK'
  BY <1>0, <1>1 DEF TypeOK
<1>3. MemInv(p)' /\ TrimInv(p)'
  BY <1>0, <1>1 DEF IInv, MemInv, TrimInv, OutlivesDay, Replaced, VeryOld
<1>4. OrderInv(p)'
  BY <1>0, <1>1 DEF IInv, OrderInv, InPass, HasSlot
<1>5. QED
  BY <1>1, <1>2, <1>3, <1>4 DEF IInv, ServableManifest, OutlivesDay

LEMMA IssueInv == ASSUME IInv, NEW p \in Procs, Issue(p) PROVE IInv'
<1> DEFINE s == order[p]
<1>0. /\ TypeOK /\ Running(p) /\ Loaded(p) /\ pc[p] = "issue" /\ s \in Slots
      /\ s.day * DayLen <= now
      /\ UNCHANGED <<now, lock, manifest, dirs, full, mem, todo, gone, stopping>>
  BY DEF IInv, Issue, Loaded, Running, OrderInv, InPass
<1>1. CASE OrderDone(p) /\ UNCHANGED live /\ (faults' = faults \/ Fault)
  <2>1. faults' \in 0..MaxFaults
    BY <1>0, <1>1, MintAssumption DEF TypeOK, Fault
  <2>2. QED
    BY <1>0, <1>1, <2>1, FailedOrderInv DEF InPass
<1>2. ASSUME Goto(p, "archive"), faults' = faults, order' = order,
             DOMAIN live' \subseteq Slots, s \in DOMAIN live', DOMAIN live \subseteq DOMAIN live',
             \A t \in DOMAIN live' : live'[t] \in [notAfter : Nat, life : Nat]
                                     /\ OutlivesDay(t, live'[t].notAfter)
      PROVE  IInv'
  <2>1. /\ pc' \in [Procs -> Labels] /\ pc'[p] = "archive"
        /\ \A q \in Procs : (Running(q) <=> lock = q)'
        /\ \A q \in Procs : Loaded(q)' => q = p
    BY <1>0, <1>2, GoesOn DEF Labels
  <2>2. TypeOK'
    BY <1>0, <1>2, <2>1 DEF TypeOK
  <2>3. MemInv(p)' /\ TrimInv(p)'
    BY <1>0, <2>1 DEF IInv, MemInv, TrimInv, OutlivesDay, Replaced, VeryOld
  <2>4. OrderInv(p)'
    BY <1>0, <1>2, <2>1 DEF IInv, OrderInv, InPass, HasSlot
  <2>5. QED
    BY <1>0, <1>2, <2>1, <2>2, <2>3, <2>4 DEF IInv, ServableManifest, OutlivesDay
<1>3. CASE s \in DOMAIN live
  <2>1. Goto(p, "archive") /\ faults' = faults /\ UNCHANGED <<live, order>>
    BY <1>3 DEF Issue, NoFault
  <2>2. QED
    BY <1>0, <1>2, <1>3, <2>1 DEF IInv, TypeOK
<1>4. ASSUME s \notin DOMAIN live, NEW l \in Lifetimes,
             live' = [t \in DOMAIN live \cup {s} |->
                        IF t = s THEN [notAfter |-> now + l, life |-> l] ELSE live[t]],
             Goto(p, "archive"), faults' = faults, order' = order
      PROVE  IInv'
  <2>1. l \in Nat /\ now \in Nat /\ l + Retention >= DayLen /\ Retention \in Nat /\ DayLen \in Nat
    BY <1>0, MintAssumption DEF TypeOK
  <2>2. s.day \in Nat /\ s.day * DayLen \in Nat /\ (s.day + 1) * DayLen = s.day * DayLen + DayLen
    BY <1>0, <2>1, SlotFacts
  <2>3. OutlivesDay(s, now + l)
    BY <1>0, <2>1, <2>2 DEF OutlivesDay
  <2>4. ASSUME NEW t \in DOMAIN live'
        PROVE  live'[t] \in [notAfter : Nat, life : Nat] /\ OutlivesDay(t, live'[t].notAfter)
    BY <1>0, <1>4, <2>1, <2>3 DEF IInv, TypeOK
  <2>5. QED
    BY <1>0, <1>2, <1>4, <2>4 DEF TypeOK
<1>5. QED
  BY <1>0, <1>1, <1>3, <1>4 DEF Issue, NoFault

\* The directory that is written over belongs to no entry, in memory or on disk.
LEMMA FreshEntry ==
    ASSUME IInv, NEW p \in Procs, pc[p] \in {"archive", "copy"}
    PROVE  /\ order[p] \in Slots /\ EntryOf(order[p]) \in Entries
           /\ EntryOf(order[p]) \notin mem[p] /\ EntryOf(order[p]) \notin manifest
           /\ OutlivesDay(order[p], EntryOf(order[p]).notAfter)
<1>1. /\ TypeOK /\ order[p] \in Slots /\ order[p] \in DOMAIN live
      /\ ~HasSlot(mem[p], order[p]) /\ ~HasSlot(manifest \ mem[p], order[p])
  BY DEF IInv, OrderInv, Loaded, Running, InPass
<1>2. EntryOf(order[p]).slot = order[p] /\ EntryOf(order[p]).notAfter = live[order[p]].notAfter
  BY DEF EntryOf
<1>3. EntryOf(order[p]) \in Entries
  BY <1>1 DEF EntryOf, Entries, TypeOK
<1>4. QED
  BY <1>1, <1>2, <1>3 DEF IInv, HasSlot

LEMMA ArchiveInv == ASSUME IInv, NEW p \in Procs, Archive(p) PROVE IInv'
<1> DEFINE e == EntryOf(order[p])
<1>0. /\ TypeOK /\ Running(p) /\ Loaded(p) /\ pc[p] = "archive" /\ faults' = faults
      /\ UNCHANGED <<now, lock, live, manifest, mem, todo, gone, stopping>>
  BY DEF IInv, Archive, Loaded, Running, NoFault
<1>1. CASE OrderDone(p) /\ UNCHANGED <<dirs, full>>
  BY <1>0, <1>1, FailedOrderInv DEF InPass, TypeOK
<1>2. CASE /\ Goto(p, "copy") /\ order' = order
           /\ dirs' = dirs \cup {e} /\ full' = full \ {e}
  <2>1. /\ pc' \in [Procs -> Labels] /\ pc'[p] = "copy"
        /\ \A q \in Procs : (Running(q) <=> lock = q)'
        /\ \A q \in Procs : Loaded(q)' => q = p
    BY <1>0, <1>2, GoesOn DEF Labels
  <2>2. e \in Entries /\ e \notin mem[p] /\ e \notin manifest
    BY <1>0, FreshEntry
  <2>3. TypeOK'
    BY <1>0, <1>2, <2>1, <2>2 DEF TypeOK
  <2>4. MemInv(p)' /\ TrimInv(p)' /\ ServableManifest'
    BY <1>0, <1>2, <2>1, <2>2 DEF IInv, ServableManifest, MemInv, TrimInv, OutlivesDay, Replaced, VeryOld
  <2>5. OrderInv(p)'
    BY <1>0, <1>2, <2>1 DEF IInv, OrderInv, InPass, HasSlot, EntryOf
  <2>6. QED
    BY <1>0, <2>1, <2>3, <2>4, <2>5 DEF IInv, OutlivesDay
<1>3. QED
  BY <1>0, <1>1, <1>2 DEF Archive

LEMMA CopyInv == ASSUME IInv, NEW p \in Procs, Copy(p) PROVE IInv'
<1> DEFINE e == EntryOf(order[p])
<1>0. /\ TypeOK /\ Running(p) /\ Loaded(p) /\ pc[p] = "copy"
      /\ UNCHANGED <<now, lock, live, manifest, todo, gone, stopping>>
  BY DEF IInv, Copy, Loaded, Running
<1>1. /\ order[p] \in Slots /\ e \in Entries /\ e \notin mem[p] /\ e \notin manifest
      /\ OutlivesDay(order[p], e.notAfter) /\ e.slot = order[p]
  BY <1>0, FreshEntry DEF EntryOf
<1>2. CASE /\ full' = full \cup {e} /\ mem' = [mem EXCEPT ![p] = @ \cup {e}]
           /\ Goto(p, "save") /\ NoFault /\ UNCHANGED <<dirs, order, lastDone>>
  <2>1. /\ pc' \in [Procs -> Labels] /\ pc'[p] = "save"
        /\ \A q \in Procs : (Running(q) <=> lock = q)'
        /\ \A q \in Procs : Loaded(q)' => q = p
    BY <1>0, <1>2, GoesOn DEF Labels
  <2>2. mem'[p] = mem[p] \cup {e} /\ mem' \in [Procs -> SUBSET Entries]
    BY <1>0, <1>1, <1>2 DEF TypeOK
  <2>3. e \in dirs
    BY <1>0 DEF IInv, OrderInv, InPass
  <2>4. TypeOK'
    BY <1>0, <1>2, <2>1, <2>2, <2>3 DEF TypeOK, NoFault
  <2>5. MemInv(p)' /\ TrimInv(p)' /\ ServableManifest'
    <3>1. (mem[p] \subseteq full)' /\ ServableManifest' /\ TrimInv(p)'
      BY <1>0, <1>2, <2>1, <2>2 DEF IInv, ServableManifest, MemInv, TrimInv
    <3>2. \A f \in mem'[p] : OutlivesDay(f.slot, f.notAfter)
      BY <1>0, <1>1, <2>2 DEF IInv, MemInv
    <3>3. \A f \in manifest \ mem'[p] : Replaced(f, mem'[p])
      BY <1>0, <2>2 DEF IInv, MemInv, Replaced
    <3>4. QED
      BY <1>0, <3>1, <3>2, <3>3 DEF MemInv, OutlivesDay, Replaced, VeryOld
  <2>6. OrderInv(p)'
    BY <1>0, <1>1, <1>2, <2>1, <2>2 DEF IInv, OrderInv, InPass, HasSlot
  <2>7. QED
    BY <1>0, <2>1, <2>4, <2>5, <2>6 DEF IInv, OutlivesDay
<1>3. CASE /\ Fault /\ dirs' = dirs \ {e} /\ full' = full \ {e}
           /\ OrderDone(p) /\ UNCHANGED mem
  <2>1. Goto(p, "next") /\ order' = [order EXCEPT ![p] = None]
    BY <1>3 DEF OrderDone
  <2>2. /\ pc' \in [Procs -> Labels] /\ pc'[p] = "next"
        /\ \A q \in Procs : (Running(q) <=> lock = q)'
        /\ \A q \in Procs : Loaded(q)' => q = p
    BY <1>0, <2>1, GoesOn DEF Labels
  <2>3. faults' \in 0..MaxFaults
    BY <1>0, <1>3, MintAssumption DEF TypeOK, Fault
  <2>4. TypeOK'
    BY <1>0, <1>3, <2>1, <2>2, <2>3 DEF TypeOK
  <2>5. MemInv(p)' /\ TrimInv(p)' /\ ServableManifest'
    BY <1>0, <1>1, <1>3, <2>2 DEF IInv, ServableManifest, MemInv, TrimInv, OutlivesDay, Replaced, VeryOld
  <2>6. OrderInv(p)'
    BY <1>0, <1>3, <2>2 DEF IInv, OrderInv, InPass, HasSlot
  <2>7. QED
    BY <1>0, <2>2, <2>4, <2>5, <2>6 DEF IInv, OutlivesDay
<1>4. QED
  BY <1>0, <1>2, <1>3 DEF Copy

LEMMA SaveInv == ASSUME IInv, NEW p \in Procs, Save(p) PROVE IInv'
<1>0. /\ TypeOK /\ Running(p) /\ Loaded(p) /\ pc[p] = "save" /\ OrderDone(p)
      /\ UNCHANGED <<now, lock, live, dirs, full, mem, todo, gone, stopping>>
  BY DEF IInv, Save, Loaded, Running
<1>1. CASE Fault /\ UNCHANGED manifest
  <2>1. faults' \in 0..MaxFaults
    BY <1>0, <1>1, MintAssumption DEF TypeOK, Fault
  <2>2. QED
    BY <1>0, <1>1, <2>1, FailedOrderInv DEF InPass
<1>2. CASE manifest' = mem[p] /\ NoFault
  <2>1. Goto(p, "next") /\ order' = [order EXCEPT ![p] = None]
    BY <1>0 DEF OrderDone
  <2>2. /\ pc' \in [Procs -> Labels] /\ pc'[p] = "next"
        /\ \A q \in Procs : (Running(q) <=> lock = q)'
        /\ \A q \in Procs : Loaded(q)' => q = p
    BY <1>0, <2>1, GoesOn DEF Labels
  <2>3. TypeOK'
    BY <1>0, <1>2, <2>1, <2>2 DEF TypeOK, NoFault
  <2>4. MemInv(p)' /\ TrimInv(p)' /\ ServableManifest'
    BY <1>0, <1>2, <2>2 DEF IInv, ServableManifest, MemInv, TrimInv, OutlivesDay
  <2>5. OrderInv(p)'
    BY <1>0, <1>2, <2>2 DEF IInv, OrderInv, InPass, HasSlot
  <2>6. QED
    BY <1>0, <1>2, <2>2, <2>3, <2>4, <2>5 DEF IInv, MemInv, OutlivesDay
<1>3. QED
  BY <1>0, <1>1, <1>2 DEF Save

\* What Trim keeps: every dropped entry is very old and replaced by one that is kept.
LEMMA TrimmedFacts ==
    ASSUME NEW m, NEW K \in Trimmed(m, now)
    PROVE  K \subseteq m /\ \A e \in m \ K : Replaced(e, K)
BY DEF Trimmed, Replaced

LEMMA TrimStepInv == ASSUME IInv, NEW p \in Procs, Trim(p) PROVE IInv'
<1>0. /\ TypeOK /\ Running(p) /\ Loaded(p) /\ pc[p] = "trim" /\ faults' \in 0..MaxFaults
      /\ UNCHANGED <<now, live, manifest, dirs, full, faults>>
  BY DEF IInv, Trim, Loaded, Running, TypeOK
<1>1. PICK K \in Trimmed(mem[p], now) :
        IF K = mem[p] THEN EndPass(p)
        ELSE /\ mem' = [mem EXCEPT ![p] = K]
             /\ gone' = [gone EXCEPT ![p] = mem[p] \ K]
             /\ Goto(p, "trimsave")
             /\ UNCHANGED <<lock, todo, order, lastDone, stopping>>
  BY DEF Trim
<1>2. CASE K = mem[p]
  BY <1>0, <1>1, <1>2, EndPassInv
<1>3. CASE K # mem[p]
  <2>1. K \subseteq mem[p] /\ \A e \in mem[p] \ K : Replaced(e, K)
    BY TrimmedFacts
  <2>2. /\ pc' \in [Procs -> Labels] /\ pc'[p] = "trimsave"
        /\ \A q \in Procs : (Running(q) <=> lock = q)'
        /\ \A q \in Procs : Loaded(q)' => q = p
    BY <1>0, <1>1, <1>3, GoesOn DEF Labels
  <2>3. /\ mem' \in [Procs -> SUBSET Entries] /\ mem'[p] = K
        /\ gone' \in [Procs -> SUBSET Entries] /\ gone'[p] = mem[p] \ K
    <3>1. mem[p] \in SUBSET Entries /\ K \in SUBSET Entries /\ mem[p] \ K \in SUBSET Entries
      BY <1>0, <2>1 DEF TypeOK
    <3>2. QED
      BY <1>0, <1>1, <1>3, <3>1 DEF TypeOK
  <2>4. TypeOK'
    BY <1>0, <1>1, <1>3, <2>2, <2>3 DEF TypeOK
  <2>5. ASSUME NEW e \in manifest \ K PROVE Replaced(e, K)
    <3>1. CASE e \in mem[p]
      BY <2>1, <2>5, <3>1
    <3>2. CASE e \notin mem[p]
      <4>1. VeryOld(e, now)
        BY <1>0, <2>5, <3>2 DEF IInv, MemInv, Replaced
      <4>2. PICK o \in mem[p] : o.slot.group = e.slot.group /\ o.notAfter <= e.notAfter
        BY <1>0, <2>5, <3>2 DEF IInv, MemInv, Replaced
      <4>3. PICK k \in K : k.slot.group = o.slot.group /\ k.notAfter <= o.notAfter
        <5>1. CASE o \in K
          BY <1>0, <4>2, <5>1 DEF TypeOK, Entries
        <5>2. CASE o \notin K
          BY <2>1, <4>2, <5>2 DEF Replaced
        <5>3. QED
          BY <5>1, <5>2
      <4>4. k.notAfter \in Nat /\ o.notAfter \in Nat /\ e.notAfter \in Nat
        BY <1>0, <2>1, <2>5, <4>2, <4>3 DEF TypeOK, Entries
      <4>5. QED
        BY <4>1, <4>2, <4>3, <4>4 DEF Replaced
    <3>3. QED
      BY <3>1, <3>2
  <2>6. MemInv(p)'
    BY <1>0, <2>1, <2>3, <2>5 DEF IInv, MemInv, OutlivesDay, Replaced, VeryOld
  <2>7. TrimInv(p)' /\ OrderInv(p)'
    BY <2>2, <2>3 DEF TrimInv, OrderInv, InPass
  <2>8. QED
    BY <1>0, <2>2, <2>4, <2>6, <2>7 DEF IInv, ServableManifest, OutlivesDay
<1>4. QED
  BY <1>2, <1>3

LEMMA TrimSaveInv == ASSUME IInv, NEW p \in Procs, TrimSave(p) PROVE IInv'
<1>0. /\ TypeOK /\ Running(p) /\ Loaded(p) /\ pc[p] = "trimsave"
      /\ UNCHANGED <<now, live, dirs, full>>
  BY DEF IInv, TrimSave, Loaded, Running
<1>1. CASE /\ manifest' = mem[p] /\ NoFault
           /\ Goto(p, "remove") /\ UNCHANGED <<lock, locals, stopping>>
  <2>1. /\ pc' \in [Procs -> Labels] /\ pc'[p] = "remove"
        /\ \A q \in Procs : (Running(q) <=> lock = q)'
        /\ \A q \in Procs : Loaded(q)' => q = p
    BY <1>0, <1>1, GoesOn DEF Labels
  <2>2. TypeOK'
    BY <1>0, <1>1, <2>1 DEF TypeOK, NoFault, locals
  <2>3. MemInv(p)' /\ TrimInv(p)' /\ OrderInv(p)' /\ ServableManifest'
    BY <1>0, <1>1, <2>1 DEF IInv, ServableManifest, MemInv, TrimInv, OrderInv, InPass, OutlivesDay, locals
  <2>4. QED
    BY <1>0, <1>1, <2>1, <2>2, <2>3 DEF IInv, MemInv, OutlivesDay
<1>2. CASE Fault /\ UNCHANGED manifest /\ p \in Daemons
  <2>1. /\ Goto(p, "sleep") /\ gone' = [gone EXCEPT ![p] = {}]
        /\ UNCHANGED <<lock, mem, todo, order, lastDone, stopping>>
    BY <1>0, <1>2 DEF TrimSave, TypeOK, Fault, NoFault
  <2>2. /\ pc' \in [Procs -> Labels] /\ pc'[p] = "sleep"
        /\ \A q \in Procs : (Running(q) <=> lock = q)'
        /\ \A q \in Procs : Loaded(q)' => q = p
    BY <1>0, <2>1, GoesOn DEF Labels
  <2>3. faults' \in 0..MaxFaults
    BY <1>0, <1>2, MintAssumption DEF TypeOK, Fault
  <2>4. TypeOK'
    BY <1>0, <1>2, <2>1, <2>2, <2>3 DEF TypeOK
  <2>5. MemInv(p)' /\ TrimInv(p)' /\ OrderInv(p)' /\ ServableManifest'
    BY <1>0, <1>2, <2>1, <2>2
       DEF IInv, ServableManifest, MemInv, TrimInv, OrderInv, InPass, OutlivesDay, Replaced, VeryOld
  <2>6. QED
    BY <1>0, <1>2, <2>2, <2>4, <2>5 DEF IInv, OutlivesDay
<1>3. CASE Fault /\ UNCHANGED manifest /\ Exit(p)
  <2>1. faults' \in 0..MaxFaults
    BY <1>0, <1>3, MintAssumption DEF TypeOK, Fault
  <2>2. QED
    BY <1>0, <1>3, <2>1, ExitInv
<1>4. QED
  BY <1>0, <1>1, <1>2, <1>3 DEF TrimSave

LEMMA RemoveInv == ASSUME IInv, NEW p \in Procs, Remove(p) PROVE IInv'
<1>0. /\ TypeOK /\ Running(p) /\ Loaded(p) /\ pc[p] = "remove"
      /\ UNCHANGED <<now, live, manifest>>
  BY DEF IInv, Remove, Loaded, Running
<1>1. CASE gone[p] = {}
  <2>1. EndPass(p) /\ faults' = faults /\ UNCHANGED <<dirs, full>>
    BY <1>1 DEF Remove, NoFault
  <2>2. QED
    BY <1>0, <2>1, EndPassInv DEF TypeOK
<1>2. CASE gone[p] # {}
  <2>1. PICK e \in gone[p] :
          /\ gone' = [gone EXCEPT ![p] = @ \ {e}]
          /\ full' = full \ {e}
          /\ (dirs' = dirs \ {e} /\ NoFault) \/ (Fault /\ UNCHANGED dirs)
          /\ UNCHANGED <<pc, lock, mem, todo, order, lastDone, stopping>>
    BY <1>2 DEF Remove
  <2>2. e \notin mem[p] /\ e \notin manifest /\ gone'[p] = gone[p] \ {e}
    BY <1>0, <2>1 DEF IInv, TrimInv, TypeOK
  <2>3. faults' \in 0..MaxFaults
    BY <1>0, <2>1, MintAssumption DEF TypeOK, Fault, NoFault
  <2>4. TypeOK'
    BY <1>0, <2>1, <2>3 DEF TypeOK, Running
  <2>5. ASSUME NEW q \in Procs, Loaded(q)' PROVE q = p
    BY <1>0, <2>1, <2>5, OnlyOne DEF Loaded, Running
  <2>6. MemInv(p)' /\ TrimInv(p)' /\ OrderInv(p)' /\ ServableManifest'
    BY <1>0, <2>1, <2>2
       DEF IInv, ServableManifest, MemInv, TrimInv, OrderInv, InPass, OutlivesDay, Replaced, VeryOld
  <2>7. QED
    BY <1>0, <2>4, <2>5, <2>6 DEF IInv, OutlivesDay
<1>3. QED
  BY <1>1, <1>2

LEMMA WakeInv == ASSUME IInv, NEW p \in Procs, Wake(p) PROVE IInv'
<1>0. /\ TypeOK /\ Running(p) /\ Loaded(p) /\ pc[p] = "sleep"
      /\ UNCHANGED <<now, live, manifest, dirs, full, faults>>
  BY DEF IInv, Wake, Loaded, Running
<1>1. CASE p \in stopping
  BY <1>0, <1>1, ExitInv DEF Wake, TypeOK
<1>2. CASE p \notin stopping
  <2>1. Goto(p, "plan") /\ UNCHANGED <<lock, locals, stopping>>
    BY <1>2 DEF Wake
  <2>2. /\ pc' \in [Procs -> Labels] /\ pc'[p] = "plan"
        /\ \A q \in Procs : (Running(q) <=> lock = q)'
        /\ \A q \in Procs : Loaded(q)' => q = p
    BY <1>0, <2>1, GoesOn DEF Labels
  <2>3. TypeOK'
    BY <1>0, <2>1, <2>2 DEF TypeOK, locals
  <2>4. MemInv(p)' /\ OrderInv(p)' /\ TrimInv(p)'
    BY <1>0, <2>1, <2>2 DEF IInv, MemInv, OrderInv, TrimInv, InPass, OutlivesDay, Replaced, VeryOld, locals
  <2>5. QED
    BY <1>0, <2>2, <2>3, <2>4 DEF IInv, ServableManifest, OutlivesDay
<1>3. QED
  BY <1>1, <1>2

LEMMA SignalInv == ASSUME IInv, NEW p \in Procs, Signal(p) PROVE IInv'
<1>0. /\ TypeOK /\ Fault /\ p \in Daemons /\ stopping' = stopping \cup {p}
      /\ UNCHANGED <<now, lock, live, manifest, dirs, full, pc, locals>>
  BY DEF IInv, Signal
<1>1. faults' \in 0..MaxFaults
  BY <1>0, MintAssumption DEF TypeOK, Fault
<1>2. TypeOK'
  BY <1>0, <1>1 DEF TypeOK, Running, locals
<1>3. QED
  BY <1>0, <1>2 DEF IInv, ServableManifest, OutlivesDay, Loaded, Running, MemInv, OrderInv, TrimInv,
     Replaced, VeryOld, HasSlot, EntryOf, locals

LEMMA KillInv == ASSUME IInv, NEW p \in Procs, Kill(p) PROVE IInv'
<1>1. TypeOK /\ Running(p) /\ Fault /\ Exit(p) /\ UNCHANGED <<now, live, manifest, dirs, full>>
  BY DEF IInv, Kill
<1>2. faults' \in 0..MaxFaults
  BY <1>1, MintAssumption DEF TypeOK, Fault
<1>3. QED
  BY <1>1, <1>2, ExitInv

LEMMA TickInv == ASSUME IInv, Tick PROVE IInv'
<1>0. /\ TypeOK /\ now \in Nat /\ now' = now + 1 /\ now' \in 0..MaxTime
      /\ UNCHANGED <<lock, live, manifest, dirs, full, pc, locals, stopping, faults>>
  BY MintAssumption DEF IInv, Tick, TypeOK
<1>1. TypeOK'
  BY <1>0 DEF TypeOK, Running, locals
<1>2. ASSUME NEW p \in Procs, Loaded(p)' PROVE MemInv(p)' /\ OrderInv(p)' /\ TrimInv(p)'
  <2>1. Loaded(p) /\ MemInv(p) /\ OrderInv(p) /\ TrimInv(p)
    BY <1>0, <1>2 DEF IInv, Loaded, Running
  <2>2. ASSUME NEW e \in Entries, VeryOld(e, now) PROVE VeryOld(e, now')
    BY <1>0, <2>2, MintAssumption DEF VeryOld, Entries
  <2>3. MemInv(p)'
    BY <1>0, <2>1, <2>2 DEF TypeOK, MemInv, OutlivesDay, Replaced, VeryOld, locals
  <2>4. ASSUME NEW s \in Slots, s.day * DayLen <= now PROVE s.day * DayLen <= now'
    <3>1. s.day * DayLen \in Nat
      BY SlotFacts, MintAssumption
    <3>2. QED
      BY <1>0, <2>4, <3>1
  <2>5. OrderInv(p)'
    BY <1>0, <2>1, <2>4 DEF TypeOK, OrderInv, HasSlot, EntryOf, locals
  <2>6. TrimInv(p)'
    BY <1>0, <2>1 DEF TrimInv, locals
  <2>7. QED
    BY <2>3, <2>5, <2>6
<1>3. QED
  BY <1>0, <1>1, <1>2 DEF IInv, ServableManifest, OutlivesDay

LEMMA NextInv == IInv /\ [Next]_vars => IInv'
<1> SUFFICES ASSUME IInv, [Next]_vars PROVE IInv'
  OBVIOUS
<1>1. CASE Tick
  BY <1>1, TickInv
<1>2. ASSUME NEW p \in Procs, Step(p) PROVE IInv'
  BY <1>2, AcquireInv, LoadInv, PlanInv, NextOfInv, InterruptedInv, IssueInv, ArchiveInv, CopyInv,
     SaveInv, TrimStepInv, TrimSaveInv, RemoveInv, WakeInv DEF Step
<1>3. ASSUME NEW p \in Procs, Signal(p) \/ Kill(p) PROVE IInv'
  BY <1>3, SignalInv, KillInv
<1>4. CASE UNCHANGED vars
  <2>1. TypeOK'
    BY <1>4 DEF IInv, TypeOK, Running, vars
  <2>2. QED
    BY <1>4, <2>1 DEF IInv, ServableManifest, OutlivesDay, Loaded, Running, MemInv, OrderInv, TrimInv,
       Replaced, VeryOld, HasSlot, EntryOf, vars
<1>5. QED
  BY <1>1, <1>2, <1>3, <1>4 DEF Next

-----------------------------------------------------------------------------
(* Theorems *)

\* The mint's state keeps its types, and the lock is held by exactly the process that
\* runs.
THEOREM TypeCorrect == Spec => []TypeOK
<1>1. IInv => TypeOK
  BY DEF IInv
<1>2. QED
  BY <1>1, InitInv, NextInv, PTL DEF Spec

\* The files of every entry in manifest.json are complete, whatever step a process is
\* killed at and whichever saves and copies fail.
THEOREM ManifestServable == Spec => []ServableManifest
<1>1. IInv => ServableManifest
  BY DEF IInv
<1>2. QED
  BY <1>1, InitInv, NextInv, PTL DEF Spec

\* Only two steps write the manifest, and both write the memory of the process at
\* work.
LEMMA ManifestWrites ==
    ASSUME IInv, [Next]_vars, manifest' # manifest
    PROVE  \E p \in Procs : Loaded(p) /\ manifest' = mem[p]
<1>1. ASSUME NEW p \in Procs, Step(p) PROVE Loaded(p) /\ manifest' = mem[p]
  <2>1. Save(p) \/ TrimSave(p)
    BY <1>1 DEF Step, Acquire, Load, Plan, NextOf, Interrupted, Issue, Archive, Copy, Trim, Remove, Wake
  <2>2. QED
    BY <2>1 DEF Save, TrimSave, Loaded, Running
<1>2. ~Tick /\ ~UNCHANGED vars /\ \A p \in Procs : ~Signal(p) /\ ~Kill(p)
  BY DEF Tick, vars, Signal, Kill
<1>3. QED
  BY <1>1, <1>2 DEF Next

\* An entry leaves the manifest only when it is very old and an older one of its group
\* stays: no process undoes what another archived.
THEOREM ManifestTrimmed == Spec => [][OnlyTrimmed]_vars
<1>1. IInv /\ [Next]_vars => [OnlyTrimmed]_vars
  <2>1. SUFFICES ASSUME IInv, [Next]_vars, manifest' # manifest PROVE OnlyTrimmed
    BY DEF OnlyTrimmed
  <2>2. PICK p \in Procs : Loaded(p) /\ manifest' = mem[p]
    BY <2>1, ManifestWrites
  <2>3. QED
    BY <2>1, <2>2 DEF IInv, MemInv, Replaced, OnlyTrimmed
<1>2. QED
  BY <1>1, InitInv, NextInv, PTL DEF Spec

\* For any groups, lifetimes, retention and number of processes, killed or failing
\* at any step: what the manifest names can be downloaded, and an entry leaves it
\* only by the trim rule.
THEOREM ManifestCorrect == Spec => ManifestSound
BY ManifestServable, ManifestTrimmed, PTL DEF ManifestSound
=============================================================================
