------------------------------ MODULE CertMint ------------------------------
(***************************************************************************)
(* The certificate mint, cmd/certmint with internal/certmint.  A daemon,   *)
(* and the same binary run once by hand, plan the issuance slots that are  *)
(* due, have certbot issue them, archive the files into an immutable       *)
(* library and index the library in a manifest that targets poll.  Expired *)
(* certificates are trimmed, except for the oldest of each profile.        *)
(*                                                                         *)
(* One lock file, held for a process's whole life, protects the manifest,  *)
(* which every process keeps in memory and writes back as a whole.  A      *)
(* process may be killed between any two steps; the kernel then drops its  *)
(* lock, the files stay.  Time is a number of ticks.  A certificate is     *)
(* identified by its slot and the time it runs out, as in its entry's ID:  *)
(* certbot keeps one lineage per slot and the mint never renews it.        *)
(***************************************************************************)
EXTENDS Naturals

CONSTANTS
    Daemons,      \* processes started as "daemon", again whenever they end
    Onces,        \* invocations of "once"
    DryRuns,      \* those of either that were given -dry-run
    Groups,       \* the (domain, profile) pairs, numbered in the order of their names
    DomainOf,     \* the domain of each
    PerDay,       \* slots a day of each
    MaxLifetime,  \* the longest lifetime accepted for each, 0 for any
    Lifetimes,    \* lifetimes the authority may grant
    DayLen,       \* ticks in a day
    Quiet,        \* InterOrderQuiet
    Retention,    \* ExpiredRetention, 0 for none
    MaxTime,      \* the last tick
    MaxFaults,    \* how many operations may fail, kills included
    None

Procs == Daemons \cup Onces
Domains == {DomainOf[g] : g \in Groups}

\* Config.Validate asks for a positive number of slots a day.  A certificate is
\* kept for longer than the day it was issued on.
ASSUME MintAssumption ==
    /\ Daemons \cap Onces = {} /\ None \notin Procs /\ DryRuns \subseteq Procs
    /\ Groups \subseteq Nat /\ Lifetimes \subseteq Nat
    /\ DayLen \in Nat \ {0}
    /\ Quiet \in Nat /\ Retention \in Nat /\ MaxTime \in Nat /\ MaxFaults \in Nat
    /\ MaxLifetime \in [Groups -> Nat]
    /\ PerDay \in [Groups -> 1..DayLen]
    /\ \A l \in Lifetimes : l + Retention >= DayLen

VARIABLES
    now,
    lock,      \* the process that holds the lock file, or None
    live,      \* certbot's lineages: slot -> [notAfter, life], where there is one
    manifest,  \* manifest.json
    dirs,      \* archive directories that exist ...
    full,      \* ... and those whose four files are complete
    pc,
    mem,       \* the manifest in each process's memory
    todo,      \* its orders still to handle
    order,     \* the order in hand, or None
    lastDone,  \* when its last order for each domain ended, in this pass
    gone,      \* trimmed entries whose files it has still to delete
    stopping,  \* the daemons that were sent SIGTERM
    faults

locals == <<mem, todo, order, lastDone, gone>>
vars == <<now, lock, live, manifest, dirs, full, pc, mem, todo, order, lastDone, gone,
          stopping, faults>>

Day(t) == t \div DayLen

Slots == [group : Groups, day : 0..Day(MaxTime), slot : 0..(DayLen - 1)]
Entries == [slot : Slots, notAfter : Nat]
NoTimes == [d \in Domains |-> None]

Init ==
    /\ now = 0 /\ lock = None /\ live = [s \in {} |-> None]
    /\ manifest = {} /\ dirs = {} /\ full = {}
    /\ pc = [p \in Procs |-> "off"]
    /\ mem = [p \in Procs |-> {}] /\ todo = [p \in Procs |-> {}]
    /\ order = [p \in Procs |-> None]
    /\ lastDone = [p \in Procs |-> NoTimes] /\ gone = [p \in Procs |-> {}]
    /\ stopping = {} /\ faults = 0

Labels == {"off", "load", "plan", "next", "issue", "archive", "copy", "save",
           "trim", "trimsave", "remove", "sleep", "done"}

Goto(p, l) == pc' = [pc EXCEPT ![p] = l]

\* An operation outside the program fails; the bound keeps runs finite.
Fault == faults < MaxFaults /\ faults' = faults + 1
NoFault == UNCHANGED faults

-----------------------------------------------------------------------------
(* Planner and manifest *)

SlotTime(s) == s.day * DayLen + s.slot * (DayLen \div PerDay[s.group])

HasSlot(m, s) == \E e \in m : e.slot = s

\* Due: today's slots that have begun and are not in the manifest.  A slot of an
\* earlier day is never due again.
Due(m, t) ==
    {s \in Slots : /\ s.day = Day(t) /\ s.slot < PerDay[s.group]
                   /\ SlotTime(s) <= t
                   /\ ~HasSlot(m, s)}

\* Orders are sorted by domain and profile, then by slot.
IsFirst(s, S) ==
    \A t \in S \ {s} : s.group < t.group \/ (s.group = t.group /\ s.slot < t.slot)

\* An entry that ran out more than Retention ago.
VeryOld(e, t) == e.notAfter + Retention < t

\* What Trim may keep of m: all but the very old entries, and the oldest of the very
\* old in each group.  Of two that ran out together the sort may put either first.
Trimmed(m, t) ==
    IF Retention = 0 THEN {m}
    ELSE {K \in SUBSET m :
            /\ \A e \in m : ~VeryOld(e, t) => e \in K
            /\ \A e \in m : VeryOld(e, t) =>
                 \E o \in K : /\ VeryOld(o, t) /\ o.slot.group = e.slot.group
                              /\ o.notAfter <= e.notAfter
                              /\ \A f \in K : VeryOld(f, t) /\ f.slot.group = e.slot.group => f = o}

-----------------------------------------------------------------------------
(* A process *)

\* lockfile.Acquire does not wait: a process that finds the lock taken ends with an
\* error.  systemd starts a daemon again, nobody a command typed by hand.
Acquire(p) ==
    /\ pc[p] = "off"
    /\ IF lock = None THEN lock' = p /\ Goto(p, "load")
       ELSE p \in Onces /\ Goto(p, "done") /\ UNCHANGED lock
    /\ UNCHANGED <<now, live, manifest, dirs, full, locals, stopping, faults>>

\* The process ends: its deferred calls release the lock.
Exit(p) ==
    /\ Goto(p, IF p \in Daemons THEN "off" ELSE "done")
    /\ lock' = IF lock = p THEN None ELSE lock
    /\ mem' = [mem EXCEPT ![p] = {}] /\ todo' = [todo EXCEPT ![p] = {}]
    /\ order' = [order EXCEPT ![p] = None]
    /\ lastDone' = [lastDone EXCEPT ![p] = NoTimes] /\ gone' = [gone EXCEPT ![p] = {}]
    /\ stopping' = stopping \ {p}

\* manifest.Load, once for the life of the process.
Load(p) ==
    /\ pc[p] = "load"
    /\ mem' = [mem EXCEPT ![p] = manifest]
    /\ Goto(p, "plan")
    /\ UNCHANGED <<now, lock, live, manifest, dirs, full, todo, order, lastDone, gone, stopping, faults>>

\* A pass ends: the daemon sleeps until its next poll, "once" is done.
EndPass(p) ==
    IF p \in Daemons
      THEN Goto(p, "sleep") /\ UNCHANGED <<lock, locals, stopping>>
      ELSE Exit(p)

\* runOnce plans; with nothing due the pass ends here.  A dry run prints the orders
\* and goes on to the trim.
Plan(p) ==
    /\ pc[p] = "plan"
    /\ LET due == Due(mem[p], now)
       IN IF due = {} THEN EndPass(p)
          ELSE /\ todo' = [todo EXCEPT ![p] = IF p \in DryRuns THEN {} ELSE due]
               /\ lastDone' = [lastDone EXCEPT ![p] = NoTimes]
               /\ Goto(p, "next")
               /\ UNCHANGED <<lock, mem, order, gone, stopping>>
    /\ UNCHANGED <<now, live, manifest, dirs, full, faults>>

\* waitForQuietPeriod: the domain's last order of this pass ended too recently.  At
\* the last tick, where the clock stops, a wait is over.
Waiting(p, s) ==
    LET done == lastDone[p][DomainOf[s.group]]
    IN done # None /\ now < done + Quiet /\ now < MaxTime

\* The loop of runOnce: the next order starts once its domain has been quiet; when no
\* order is left the library is trimmed.
NextOf(p) ==
    /\ pc[p] = "next"
    /\ IF todo[p] = {} THEN Goto(p, "trim") /\ UNCHANGED <<todo, order>>
       ELSE \E s \in todo[p] :
              /\ IsFirst(s, todo[p]) /\ ~Waiting(p, s)
              /\ todo' = [todo EXCEPT ![p] = @ \ {s}]
              /\ order' = [order EXCEPT ![p] = s]
              /\ Goto(p, "issue")
    /\ UNCHANGED <<now, lock, live, manifest, dirs, full, mem, lastDone, gone, stopping, faults>>

\* A signal interrupts the wait, and runOnce returns before the trim.
Interrupted(p) ==
    /\ pc[p] = "next" /\ p \in stopping
    /\ \E s \in todo[p] : IsFirst(s, todo[p]) /\ Waiting(p, s)
    /\ EndPass(p)
    /\ UNCHANGED <<now, live, manifest, dirs, full, faults>>

\* The order is over, well or not: its time is noted and the loop goes on.
OrderDone(p) ==
    /\ lastDone' = [lastDone EXCEPT ![p][DomainOf[order[p].group]] = now]
    /\ order' = [order EXCEPT ![p] = None]
    /\ Goto(p, "next")

\* issueAndArchive: certbot runs unless the slot's lineage exists already.  It fails,
\* or is killed at the timeout or with a cancelled context, and leaves no lineage.
Issue(p) ==
    /\ pc[p] = "issue"
    /\ LET s == order[p]
       IN IF s \in DOMAIN live
            THEN Goto(p, "archive") /\ NoFault /\ UNCHANGED <<live, order, lastDone>>
            ELSE \/ /\ p \notin stopping
                    /\ \E l \in Lifetimes :
                         live' = [t \in DOMAIN live \cup {s} |->
                                    IF t = s THEN [notAfter |-> now + l, life |-> l] ELSE live[t]]
                    /\ Goto(p, "archive") /\ NoFault /\ UNCHANGED <<order, lastDone>>
                 \/ /\ IF p \in stopping THEN NoFault ELSE Fault
                    /\ OrderDone(p) /\ UNCHANGED live
    /\ UNCHANGED <<now, lock, manifest, dirs, full, mem, todo, gone, stopping>>

EntryOf(s) == [slot |-> s, notAfter |-> live[s].notAfter]

TooLong(s) == MaxLifetime[s.group] > 0 /\ live[s].life > MaxLifetime[s.group]

\* Archive reads the lineage and refuses one that lives too long; otherwise it makes
\* the directory and begins to write into it, over what an earlier try left there.
Archive(p) ==
    /\ pc[p] = "archive"
    /\ LET s == order[p]
       IN \/ /\ TooLong(s) /\ OrderDone(p) /\ NoFault /\ UNCHANGED <<dirs, full>>
          \/ /\ ~TooLong(s) /\ Goto(p, "copy") /\ NoFault
             /\ dirs' = dirs \cup {EntryOf(s)} /\ full' = full \ {EntryOf(s)}
             /\ UNCHANGED <<order, lastDone>>
    /\ UNCHANGED <<now, lock, live, manifest, mem, todo, gone, stopping>>

\* Faulty variant: the entry is appended whether or not its files were copied.
CopyAppendsFirst(p) ==
    /\ pc[p] = "copy"
    /\ LET e == EntryOf(order[p])
       IN /\ mem' = [mem EXCEPT ![p] = @ \cup {e}]
          /\ \/ /\ full' = full \cup {e}
                /\ Goto(p, "save") /\ NoFault /\ UNCHANGED <<dirs, order, lastDone>>
             \/ /\ Fault /\ dirs' = dirs \ {e} /\ full' = full \ {e}
                /\ OrderDone(p)
    /\ UNCHANGED <<now, lock, live, manifest, todo, gone, stopping>>

\* The copies end and Append puts the entry into the memory's manifest, or one fails
\* and the directory is removed.
Copy(p) ==
    /\ pc[p] = "copy"
    /\ LET e == EntryOf(order[p])
       IN \/ /\ full' = full \cup {e} /\ mem' = [mem EXCEPT ![p] = @ \cup {e}]
             /\ Goto(p, "save") /\ NoFault /\ UNCHANGED <<dirs, order, lastDone>>
          \/ /\ Fault /\ dirs' = dirs \ {e} /\ full' = full \ {e}
             /\ OrderDone(p) /\ UNCHANGED mem
    /\ UNCHANGED <<now, lock, live, manifest, todo, gone, stopping>>

\* manifest.Save writes a temporary file and renames it: the old manifest stays or
\* the new one is there.  After a failure the entry stays in memory.
Save(p) ==
    /\ pc[p] = "save"
    /\ \/ manifest' = mem[p] /\ NoFault
       \/ Fault /\ UNCHANGED manifest
    /\ OrderDone(p)
    /\ UNCHANGED <<now, lock, live, dirs, full, mem, todo, gone, stopping>>

\* trimLibrary: with nothing to drop the pass ends, otherwise the memory's manifest
\* is replaced.
Trim(p) ==
    /\ pc[p] = "trim"
    /\ \E K \in Trimmed(mem[p], now) :
         IF K = mem[p] THEN EndPass(p)
         ELSE /\ mem' = [mem EXCEPT ![p] = K]
              /\ gone' = [gone EXCEPT ![p] = mem[p] \ K]
              /\ Goto(p, "trimsave")
              /\ UNCHANGED <<lock, todo, order, lastDone, stopping>>
    /\ UNCHANGED <<now, live, manifest, dirs, full, faults>>

\* Faulty variant: the files are deleted before the manifest is saved.
TrimSaveLast(p) ==
    /\ pc[p] = "trimsave"
    /\ dirs' = dirs \ gone[p] /\ full' = full \ gone[p]
    /\ Goto(p, "remove")
    /\ UNCHANGED <<now, lock, live, manifest, locals, stopping, faults>>

\* The trimmed manifest is saved before any file goes.  When that fails the files
\* stay, and the list of them is lost.
TrimSave(p) ==
    /\ pc[p] = "trimsave"
    /\ \/ /\ manifest' = mem[p] /\ NoFault
          /\ Goto(p, "remove") /\ UNCHANGED <<lock, locals, stopping>>
       \/ /\ Fault /\ UNCHANGED manifest
          /\ IF p \in Daemons
               THEN /\ Goto(p, "sleep") /\ gone' = [gone EXCEPT ![p] = {}]
                    /\ UNCHANGED <<lock, mem, todo, order, lastDone, stopping>>
               ELSE Exit(p)
    /\ UNCHANGED <<now, live, dirs, full>>

\* RemoveArchivedFiles for each trimmed entry; an error stops nothing.
Remove(p) ==
    /\ pc[p] = "remove"
    /\ IF gone[p] = {} THEN EndPass(p) /\ NoFault /\ UNCHANGED <<dirs, full>>
       ELSE \E e \in gone[p] :
              /\ gone' = [gone EXCEPT ![p] = @ \ {e}]
              /\ full' = full \ {e}
              /\ \/ dirs' = dirs \ {e} /\ NoFault
                 \/ Fault /\ UNCHANGED dirs
              /\ UNCHANGED <<pc, lock, mem, todo, order, lastDone, stopping>>
    /\ UNCHANGED <<now, live, manifest>>

\* The poll timer of the daemon fires, or its signal arrives first.
Wake(p) ==
    /\ pc[p] = "sleep"
    /\ IF p \in stopping THEN Exit(p)
       ELSE Goto(p, "plan") /\ UNCHANGED <<lock, locals, stopping>>
    /\ UNCHANGED <<now, live, manifest, dirs, full, faults>>

Running(p) == pc[p] \notin {"off", "done"}

\* SIGTERM, which the daemon has asked to be told of once its manifest is loaded.
Signal(p) ==
    /\ p \in Daemons \ stopping /\ Running(p) /\ pc[p] # "load"
    /\ Fault /\ stopping' = stopping \cup {p}
    /\ UNCHANGED <<now, lock, live, manifest, dirs, full, pc, locals>>

\* The process is killed; the kernel releases its lock.
Kill(p) ==
    /\ Running(p) /\ Fault /\ Exit(p)
    /\ UNCHANGED <<now, live, manifest, dirs, full>>

Tick ==
    /\ now < MaxTime /\ now' = now + 1
    /\ UNCHANGED <<lock, live, manifest, dirs, full, pc, locals, stopping, faults>>

Step(p) ==
    \/ Acquire(p) \/ Load(p) \/ Plan(p) \/ NextOf(p) \/ Interrupted(p)
    \/ Issue(p) \/ Archive(p) \/ Copy(p) \/ Save(p)
    \/ Trim(p) \/ TrimSave(p) \/ Remove(p) \/ Wake(p)

Next == Tick \/ \E p \in Procs : Step(p) \/ Signal(p) \/ Kill(p)

\* Time passes, a process that runs goes on, and systemd restarts the daemon until it
\* finds the lock free (Restart=always).
Spec == Init /\ [][Next]_vars /\ WF_vars(Tick) /\ \A p \in Procs : WF_vars(Step(p))

-----------------------------------------------------------------------------
(* Properties *)

\* The library's state keeps its types; the complete directories exist, and the lock
\* is held by whoever runs.
TypeOK ==
    /\ now \in 0..MaxTime /\ faults \in 0..MaxFaults
    /\ lock \in Procs \cup {None} /\ stopping \subseteq Daemons
    /\ pc \in [Procs -> Labels] /\ \A p \in Procs : Running(p) <=> lock = p
    /\ DOMAIN live \subseteq Slots /\ \A s \in DOMAIN live : live[s] \in [notAfter : Nat, life : Nat]
    /\ manifest \subseteq Entries /\ full \subseteq dirs /\ dirs \subseteq Entries
    /\ mem \in [Procs -> SUBSET Entries] /\ gone \in [Procs -> SUBSET Entries]
    /\ todo \in [Procs -> SUBSET Slots] /\ order \in [Procs -> Slots \cup {None}]

\* Whatever the manifest on disk names can be downloaded: its files are complete,
\* although passes are killed, saves fail and trims stop halfway.
ServableManifest == manifest \subseteq full

\* An entry leaves the manifest on disk only by the trim rule: it ran out longer ago
\* than the retention, and one of its group that is at least as old stays.  No
\* process ever undoes what another one archived.
OnlyTrimmed ==
    \A e \in manifest \ manifest' :
        /\ VeryOld(e, now)
        /\ \E o \in manifest' : o.slot.group = e.slot.group /\ o.notAfter <= e.notAfter

\* Whatever step a process takes, the manifest on disk can be served after it, and
\* has lost nothing but what the trim rule takes out.
ManifestSound == [][ServableManifest' /\ OnlyTrimmed]_vars

\* Every slot still due when the clock stops is at last archived, however certbot,
\* copies, saves and processes failed before, unless its certificate was refused as
\* living too long.
DueArchived ==
    \A s \in Due({}, MaxTime) :
        <>((\E e \in full : e.slot = s) \/ (s \in DOMAIN live /\ TooLong(s)))
=============================================================================
