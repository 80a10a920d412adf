----------------------------- MODULE ActiveGuard -----------------------------
(***************************************************************************)
(* The active-run lock of the orchestrator host, internal/activeguard, and *)
(* the two commands that use it: uptime-bench-jetmon-capacity-run -apply   *)
(* takes the lock for as long as it works, uptime-bench-cleanup only looks *)
(* whether it is there.  Every system call on the lock file is a step.     *)
(***************************************************************************)
EXTENDS FiniteSets

CONSTANTS
    Runs,       \* invocations of capacity-run -apply
    Cleanups,   \* invocations of cleanup -dry-run=false
    Allow,      \* those given -allow-active-run
    Absent

Commands == Runs \cup Cleanups

ASSUME CommandsAssumption == Runs \cap Cleanups = {} /\ Allow \subseteq Commands /\ Absent \notin Runs

VARIABLES
    lockFile,  \* the run that created the lock file or replaced its content, or Absent
    pc         \* where each command is

guardVars == <<lockFile, pc>>

GuardInit == lockFile = Absent /\ pc = [c \in Commands |-> "start"]

Move(c, l) == pc' = [pc EXCEPT ![c] = l]

\* EnsureInactive: the lock file is read.  A cleanup asks nothing more.
EnsureInactive(c) ==
    /\ pc[c] = "start"
    /\ Move(c, IF lockFile # Absent /\ c \notin Allow THEN "refused"
               ELSE IF c \in Runs THEN "open" ELSE "work")
    /\ UNCHANGED lockFile

\* Faulty variant: the file is opened without O_EXCL.
OpenShared(c) ==
    /\ pc[c] = "open"
    /\ lockFile' = c /\ Move(c, "write")

\* The open of Acquire: O_TRUNC under the override, O_EXCL otherwise.
Open(c) ==
    /\ pc[c] = "open"
    /\ IF lockFile # Absent /\ c \notin Allow
         THEN Move(c, "refused") /\ UNCHANGED lockFile
         ELSE lockFile' = c /\ Move(c, "write")

\* The lock's content is written and the file closed; when that fails, Acquire
\* returns the error and leaves the file behind.
Write(c) ==
    /\ pc[c] = "write"
    /\ Move(c, "work") \/ Move(c, "failed")
    /\ UNCHANGED lockFile

\* The command's own work ends, well or with an error.
Work(c) ==
    /\ pc[c] = "work"
    /\ Move(c, IF c \in Runs THEN "release" ELSE "done")
    /\ UNCHANGED lockFile

\* The deferred Release removes the path, whoever wrote what is there now.
Release(c) ==
    /\ pc[c] = "release"
    /\ lockFile' = Absent /\ Move(c, "done")

Gone == {"done", "refused", "failed", "killed"}

\* A command that is killed leaves the file as it is.
Kill(c) ==
    /\ pc[c] \notin Gone
    /\ Move(c, "killed") /\ UNCHANGED lockFile

Terminated == (\A c \in Commands : pc[c] \in Gone) /\ UNCHANGED guardVars

GuardNext ==
    \/ \E c \in Commands :
         EnsureInactive(c) \/ Open(c) \/ Write(c) \/ Work(c) \/ Release(c) \/ Kill(c)
    \/ Terminated

GuardSpec == GuardInit /\ [][GuardNext]_guardVars

-----------------------------------------------------------------------------
(* Properties *)

\* The file is absent or a run's; every command is at one of its steps.
GuardTypeOK ==
    /\ lockFile \in Runs \cup {Absent}
    /\ pc \in [Commands -> {"start", "open", "write", "work", "release"} \cup Gone]

\* Two capacity runs never work at the same time, however their reads of the lock
\* and their attempts to create it interleave.
OneRunAtATime == \A c, d \in Runs : pc[c] = "work" /\ pc[d] = "work" => c = d

\* The lock is there for the duration of every run.
LockForDuration == (\E c \in Runs : pc[c] = "work") => lockFile # Absent

\* A lock left behind by nobody at work is the trace of a run that was killed or
\* could not write its lock: one that ran to its end leaves none.
NoStaleLock ==
    (lockFile # Absent /\ \A c \in Commands : pc[c] \in Gone) =>
        \E c \in Runs : pc[c] \in {"killed", "failed"}

\* The promise of Acquire and Release: one run at a time, under a lock that is
\* there as long as the run works and goes with it.
LockSound == OneRunAtATime /\ LockForDuration /\ NoStaleLock
=============================================================================
