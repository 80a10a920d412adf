---------------------------- MODULE FailureWindows ----------------------------
(***************************************************************************)
(* What a fleet member promises about injected failures: a failure is in   *)
(* effect from its activation until it is deactivated, overwritten, or its *)
(* duration has elapsed, whichever is first, and not one instant longer.   *)
(* Expiry is eager here: the tick that passes an entry's expiry closes it. *)
(***************************************************************************)
EXTENDS FailureSpecs

VARIABLES
    live,       \* failures in effect: key -> activeFailure
    now,        \* the member's clock
    reply       \* what the last step answered

vars == <<live, now, reply>>

Init ==
    /\ live = [k \in {} |-> {}]
    /\ now = 0
    /\ reply = NoReply

\* A failure comes into effect, replacing the one under its key, for at most
\* the duration it was requested with.  One whose request was held up until
\* after its expiry only removes what it replaces.
Open(spec, expires) ==
    /\ expires <= now + spec.duration
    /\ live' = IF expires < now
                 THEN Without(live, {failureKey(spec)})
                 ELSE With(live, failureKey(spec), [spec |-> spec, expires |-> expires])
    /\ reply' = NoReply
    /\ UNCHANGED now

\* A request has arrived; nothing is in effect before it is carried out.
Receive ==
    /\ reply' = NoReply
    /\ UNCHANGED <<live, now>>

Close(k) ==
    /\ live' = Without(live, {k})
    /\ reply' = NoReply
    /\ UNCHANGED now

List ==
    /\ reply' = Listing({live[k].spec : k \in DOMAIN live})
    /\ UNCHANGED <<live, now>>

\* The live failures of type t that apply to a request for path p on host h
\* from anywhere: declared for exactly that page, for the whole host, or for
\* every host.
Applies(t, h, p) ==
    {k \in DOMAIN live : /\ live[k].spec.cidrs = {}
                         /\ k[1] = t
                         /\ <<k[2], k[3]>> \in {<<h, p>>, <<h, Any>>, <<Any, Any>>}}

\* k is declared at least as precisely as j.
AsSpecific(k, j) ==
    /\ k[2] = Any => j[2] = Any
    /\ k[3] = Any => j[3] = Any

\* A request sees the most specific failure that applies to it.
Serve(t, h, p) ==
    /\ \/ /\ Applies(t, h, p) = {}
          /\ reply' = Miss(<<t, h, p>>)
       \/ \E k \in Applies(t, h, p) :
            /\ \A j \in Applies(t, h, p) : AsSpecific(k, j)
            /\ reply' \in Rated(<<t, h, p>>, live[k])
    /\ UNCHANGED <<live, now>>

\* A connection from ip sees some failure declared for a range it lies in.
ServeIP(ip) ==
    /\ \/ /\ \A k \in DOMAIN live : ~Contains(live[k], ip)
          /\ reply' = Miss(ip)
       \/ \E k \in DOMAIN live :
            /\ Contains(live[k], ip)
            /\ reply' \in Rated(ip, live[k])
    /\ UNCHANGED <<live, now>>

Tick ==
    /\ now' = now + 1
    /\ live' = Restrict(live, {k \in DOMAIN live : live[k].expires >= now + 1})
    /\ reply' = NoReply

Next ==
    \/ \E s \in FailureSpec : \E e \in 0..(now + s.duration) : Open(s, e)
    \/ Receive
    \/ \E k \in Key : Close(k)
    \/ List
    \/ \E t \in Types, h \in Hosts \cup {Any}, p \in Paths \cup {Any} : Serve(t, h, p)
    \/ \E ip \in IPs : ServeIP(ip)
    \/ Tick

Spec == Init /\ [][Next]_vars
=============================================================================
