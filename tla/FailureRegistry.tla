--------------------------- MODULE FailureRegistry ---------------------------
(***************************************************************************)
(* The failure registry of one fleet member (internal/control/registry.go) *)
(* behind its control server (internal/control/server.go).                 *)
(*                                                                         *)
(* The harness posts /activate and /deactivate; the data plane of the      *)
(* member asks Lookup and LookupForIP for every request or connection it   *)
(* serves.  Every method holds the registry's mutex for its whole body,    *)
(* with one exception: Set reads the clock BEFORE it takes the lock, so    *)
(* other calls run between the two halves.                                 *)
(*                                                                         *)
(* An entry past its expiry stays in the map until a call that walks over  *)
(* it deletes it: expiry is lazy.  FailureWindows is the promise (eager    *)
(* expiry) that this module is shown to keep.                              *)
(***************************************************************************)
EXTENDS FailureSpecs

CONSTANTS
    Handlers,       \* goroutines serving /activate
    Idle,           \* a handler that is not inside Set
    MaxTime         \* bound on the clock

ASSUME IdleAssumption == Idle \notin ActiveFailure
ASSUME MaxTimeAssumption == MaxTime \in Nat

VARIABLES
    failures,   \* the map: key -> activeFailure
    now,        \* the member's clock
    setting,    \* per handler: the entry it computed and waits to store
    reply       \* what the last step answered, if it was a query

vars == <<failures, now, setting, reply>>

Init ==
    /\ failures = [k \in {} |-> {}]
    /\ now = 0
    /\ setting = [h \in Handlers |-> Idle]
    /\ reply = NoReply

\* now.After(expires)
Expired(af) == now > af.expires

Stale == {k \in DOMAIN failures : Expired(failures[k])}

-----------------------------------------------------------------------------
(* The control server *)

\* POST /activate up to the lock: the handler turns away a request without a
\* positive duration, then Set computes the expiry from the clock.
SetBegin(h, spec) ==
    /\ setting[h] = Idle
    /\ spec.duration > 0
    /\ setting' = [setting EXCEPT ![h] = [spec |-> spec, expires |-> now + spec.duration]]
    /\ reply' = NoReply
    /\ UNCHANGED <<failures, now>>

\* Faulty variant: an activation extends the running failure.
SetCommitExtends(h) ==
    LET k    == failureKey(setting[h].spec)
        from == IF k \in DOMAIN failures THEN failures[k].expires ELSE now
    IN  /\ setting[h] # Idle
        /\ failures' = With(failures, k, [setting[h] EXCEPT !.expires = from + @ - now])
        /\ setting' = [setting EXCEPT ![h] = Idle]
        /\ reply' = NoReply
        /\ UNCHANGED now

\* The rest of Set: under the lock the entry overwrites what its key held.
SetCommit(h) ==
    /\ setting[h] # Idle
    /\ failures' = With(failures, failureKey(setting[h].spec), setting[h])
    /\ setting' = [setting EXCEPT ![h] = Idle]
    /\ reply' = NoReply
    /\ UNCHANGED now

\* POST /deactivate: deletes the key, whichever run activated it.
Remove(k) ==
    /\ failures' = Without(failures, {k})
    /\ reply' = NoReply
    /\ UNCHANGED <<now, setting>>

\* GET /status: lists the live entries and prunes the stale ones.
Active ==
    /\ failures' = Without(failures, Stale)
    /\ reply' = Listing({failures[k].spec : k \in DOMAIN failures \ Stale})
    /\ UNCHANGED <<now, setting>>

-----------------------------------------------------------------------------
(* The data plane *)

\* The keys Lookup tries, in order: exact, host wildcard, full wildcard.
candidates(t, h, p) == <<<<t, h, p>>, <<t, h, Any>>, <<t, Any, Any>>>>

\* An unexpired entry that is not restricted to source addresses.
Global(k) == k \in DOMAIN failures \ Stale /\ failures[k].spec.cidrs = {}

\* Lookup walks the candidates, deletes the stale ones it meets and stops at
\* the first global one; a rate miss there ends the call.
Lookup(t, h, p) ==
    LET c == candidates(t, h, p)
    IN  /\ \/ /\ \A i \in 1..3 : ~Global(c[i])
              /\ failures' = Without(failures, Stale \cap {c[i] : i \in 1..3})
              /\ reply' = Miss(<<t, h, p>>)
           \/ \E i \in 1..3 :
                /\ Global(c[i])
                /\ \A j \in 1..(i - 1) : ~Global(c[j])
                /\ failures' = Without(failures, Stale \cap {c[j] : j \in 1..i})
                /\ reply' \in Rated(<<t, h, p>>, failures[c[i]])
        /\ UNCHANGED <<now, setting>>

\* Faulty variant: the expiry check is missing.
LookupForIPStale(ip) ==
    /\ \/ /\ \A k \in DOMAIN failures : ~Contains(failures[k], ip)
          /\ reply' = Miss(ip)
       \/ \E k \in DOMAIN failures :
            /\ Contains(failures[k], ip)
            /\ reply' \in Rated(ip, failures[k])
    /\ UNCHANGED <<failures, now, setting>>

\* LookupForIP ranges over the map in an order Go leaves open and stops at the
\* first entry that covers ip: by then it has pruned some of the stale entries,
\* and all of them when nothing covers ip.
LookupForIP(ip) ==
    LET match == {k \in DOMAIN failures \ Stale : Contains(failures[k], ip)}
    IN  /\ \/ /\ match = {}
              /\ failures' = Without(failures, Stale)
              /\ reply' = Miss(ip)
           \/ \E k \in match, pruned \in SUBSET Stale :
                /\ failures' = Without(failures, pruned)
                /\ reply' \in Rated(ip, failures[k])
        /\ UNCHANGED <<now, setting>>

-----------------------------------------------------------------------------
Tick ==
    /\ now < MaxTime
    /\ now' = now + 1
    /\ reply' = NoReply
    /\ UNCHANGED <<failures, setting>>

Next ==
    \/ \E h \in Handlers, s \in FailureSpec : SetBegin(h, s)
    \/ \E h \in Handlers : SetCommit(h)
    \/ \E k \in Key : Remove(k)
    \/ Active
    \/ \E t \in Types, h \in Hosts \cup {Any}, p \in Paths \cup {Any} : Lookup(t, h, p)
    \/ \E ip \in IPs : LookupForIP(ip)
    \/ Tick

Spec == Init /\ [][Next]_vars

-----------------------------------------------------------------------------
(* Properties *)

\* The registry's map, clock and in-flight Set calls hold values of their
\* types, and every entry is filed under the key its own fields give.
TypeOK ==
    /\ DOMAIN failures \subseteq Key
    /\ \A k \in DOMAIN failures : /\ failures[k] \in ActiveFailure
                                  /\ k = failureKey(failures[k].spec)
    /\ now \in Nat
    /\ setting \in [Handlers -> ActiveFailure \cup {Idle}]

\* No failure outlives the duration it was requested with: whatever a handler
\* computed before it took the lock and however long it waited, an entry in the
\* map (or on its way there) ends within its duration from now.  This is the
\* "safety net even if the harness fails to send a deactivate command" of
\* control.go.
BoundedOutage ==
    /\ \A k \in DOMAIN failures :
         failures[k].expires <= now + failures[k].spec.duration
    /\ \A h \in Handlers :
         setting[h] # Idle => setting[h].expires <= now + setting[h].spec.duration

\* The entries in effect: those the next call would not prune.
live == Without(failures, Stale)

FW == INSTANCE FailureWindows WITH live <- live, now <- now, reply <- reply

\* Lazy expiry cannot be told from eager expiry: every answer the registry
\* gives, and every change it makes, is one FailureWindows allows.
ImplementsWindows == FW!Spec
=============================================================================
