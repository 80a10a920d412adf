----------------------------- MODULE CertLibrary -----------------------------
(***************************************************************************)
(* The target's copy of the certificate library: the controller that       *)
(* starts and cancels pollers (cert_library_control.go), the poller that   *)
(* mirrors a source's manifest to disk (certlibrary/poller.go), and the    *)
(* TLS handshakes that select a certificate from it (tls.go).              *)
(*                                                                         *)
(* The mint archives a certificate under an id of its own and never        *)
(* changes it, so an entry is its id; a source's manifest grows and is     *)
(* trimmed.  A poller is numbered by the Apply that started it.            *)
(***************************************************************************)
EXTENDS DataPlane

CONSTANTS Sources,      \* source -> the manifests (sequences of ids) it publishes in turn
          Validity,     \* id -> "valid", "expired" (what the clock says of it)
          None,
          MaxApplies,   \* bound on pollers
          MaxFaults     \* bound on failed exchanges and restarts

VARIABLES
    source,     \* c.current
    running,    \* c.cancel: the poller in charge, 0 for none
    pollers,    \* per poller: where its loop is
    disk,       \* per entry: the files of its cache directory
    library,    \* the selector's library: a manifest or None
    cache,      \* entries whose parsed pair is in memory
    persisted,  \* the state file
    edition,    \* per source: which of its manifests it publishes
    faults,     \* faults so far
    shake       \* per goroutine: the library a handshake read

libraryVars == <<source, running, pollers, disk, library, cache, persisted, edition, faults, shake>>
configVars == <<source, running, persisted>>

\* The leaf, then the chain and key that are served with it.
Files == <<"cert", "pair">>
Complete(id) == {Files[i] : i \in DOMAIN Files} \subseteq disk[id]
Unread == <<"unread">>
Off == [pc |-> "off"]

LibraryInit ==
    /\ source = None /\ running = 0 /\ persisted = None
    /\ pollers = [g \in 1..MaxApplies |-> [pc |-> "new"]]
    /\ disk = [id \in DOMAIN Validity |-> {}]
    /\ library = None /\ cache = {}
    /\ edition = [s \in DOMAIN Sources |-> 1]
    /\ faults = 0
    /\ shake = [w \in Workers |-> Unread]

Quiet == reply' = NoReply /\ UNCHANGED <<failures, now, setting>>
Faulty == faults < MaxFaults /\ faults' = faults + 1
Manifest(s) == Sources[s][edition[s]]
Ids(lib) == {lib[i] : i \in DOMAIN lib}

\* certmint archives or trims.
Publish(s) ==
    /\ edition[s] < Len(Sources[s])
    /\ edition' = [edition EXCEPT ![s] = @ + 1]
    /\ Quiet /\ UNCHANGED <<conn, configVars, pollers, disk, library, cache, faults, shake>>

(***************************************************************************)
(* The controller.                                                         *)
(***************************************************************************)
Unstarted == {g \in DOMAIN pollers : pollers[g].pc = "new"}
NextPoller == CHOOSE g \in Unstarted : \A h \in Unstarted : g <= h

\* Apply of a request that differs from the one in force: the old poller's
\* context is cancelled, a poller is started, the request is persisted.
Apply(s) ==
    /\ Unstarted # {} /\ ~(running # 0 /\ source = s)
    /\ source' = s /\ running' = NextPoller
    /\ pollers' = [g \in DOMAIN pollers |->
                     IF g = NextPoller THEN [pc |-> "fetch", src |-> s, cancelled |-> FALSE]
                     ELSE IF g = running THEN [pollers[g] EXCEPT !.cancelled = TRUE] ELSE pollers[g]]
    /\ \/ persisted' = s /\ UNCHANGED faults
       \/ Faulty /\ UNCHANGED persisted
    /\ Quiet /\ UNCHANGED <<conn, disk, library, cache, edition, shake>>

\* The process dies and starts again: RestoreState applies what the file
\* holds, before the listeners open.
RestoreState ==
    /\ persisted # None => Unstarted # {}
    /\ IF persisted = None THEN source' = None /\ running' = 0
       ELSE source' = persisted /\ running' = NextPoller
    /\ pollers' = [g \in DOMAIN pollers |->
                     IF pollers[g].pc = "new" /\ (persisted = None \/ g # NextPoller) THEN pollers[g]
                     ELSE IF pollers[g].pc = "new" THEN [pc |-> "fetch", src |-> persisted, cancelled |-> FALSE]
                     ELSE Off]
    /\ library' = None /\ cache' = {}
    /\ conn' = [w \in Workers |-> Free] /\ shake' = [w \in Workers |-> Unread]
    /\ failures' = [k \in {} |-> {}] /\ setting' = [h \in Handlers |-> Idle]
    /\ reply' = NoReply
    /\ Faulty
    /\ UNCHANGED <<now, persisted, disk, edition>>

(***************************************************************************)
(* runPoller and Poll.                                                     *)
(***************************************************************************)
At(g, pc) == pollers[g].pc = pc
Go(g, rec) == pollers' = [pollers EXCEPT ![g] = rec]
PollerQuiet == Quiet /\ UNCHANGED <<conn, configVars, edition, shake>>

\* The manifest, decoded and validated.
Poll(g) ==
    /\ At(g, "fetch") /\ ~pollers[g].cancelled
    /\ Go(g, [pc |-> "download", src |-> pollers[g].src, cancelled |-> FALSE,
              lib |-> Manifest(pollers[g].src), at |-> 1, file |-> 1])
    /\ PollerQuiet /\ UNCHANGED <<disk, library, cache, faults>>

\* fetchFile up to the rename: the source still has the entry's file.
\* MkdirAll precedes an entry's first file.
Download(g) ==
    LET p == pollers[g]
        id == p.lib[p.at]
    IN  /\ At(g, "download") /\ ~p.cancelled
        /\ id \in Ids(Manifest(p.src))
        /\ Go(g, [p EXCEPT !.pc = "rename"])
        /\ disk' = IF p.file = 1 THEN [disk EXCEPT ![id] = @ \cup {"dir"}] ELSE disk
        /\ PollerQuiet /\ UNCHANGED <<library, cache, faults>>

\* The rest: the context no longer matters, the directory must still be there.
\* After the last file the fingerprint is verified; a corrupt leaf takes the
\* whole directory with it.
AfterFile(p) ==
    IF p.file < Len(Files) THEN [p EXCEPT !.pc = "download", !.file = @ + 1]
    ELSE IF p.at < Len(p.lib) THEN [p EXCEPT !.pc = "download", !.file = 1, !.at = @ + 1]
    ELSE [p EXCEPT !.pc = "store"]

Sleeping(g) == [pc |-> "sleep", src |-> pollers[g].src, cancelled |-> pollers[g].cancelled]

Rename(g) ==
    LET p == pollers[g]
        id == p.lib[p.at]
    IN  /\ At(g, "rename") /\ "dir" \in disk[id]
        /\ disk' = [disk EXCEPT ![id] = @ \cup {Files[p.file]}]
        /\ Go(g, AfterFile(p))
        /\ PollerQuiet /\ UNCHANGED <<library, cache, faults>>

Corrupt(g) ==
    /\ At(g, "rename") /\ pollers[g].file = Len(Files) /\ Faulty
    /\ disk' = [disk EXCEPT ![pollers[g].lib[pollers[g].at]] = {}]
    /\ Go(g, Sleeping(g))
    /\ PollerQuiet /\ UNCHANGED <<library, cache>>

\* A source that takes the request and does not answer: http.DefaultClient has no
\* timeout and the poller's context no deadline, so only its cancellation or the
\* end of the process does.
Hang(g) ==
    /\ pollers[g].pc \in {"fetch", "download"} /\ ~pollers[g].cancelled
    /\ Go(g, [pc |-> "hung", src |-> pollers[g].src, cancelled |-> FALSE])
    /\ PollerQuiet /\ UNCHANGED <<disk, library, cache, faults>>

\* Faulty variant: the loop returns the error instead of waiting for the ticker.
ReturnsOnError(g) ==
    /\ pollers[g].pc \in {"fetch", "download", "hung", "rename"}
    /\ \/ /\ \/ pollers[g].pc \in {"fetch", "download", "hung"} /\ pollers[g].cancelled
             \/ At(g, "download") /\ pollers[g].lib[pollers[g].at] \notin Ids(Manifest(pollers[g].src))
             \/ At(g, "rename") /\ "dir" \notin disk[pollers[g].lib[pollers[g].at]]
          /\ UNCHANGED faults
       \/ Faulty
    /\ Go(g, Off)
    /\ PollerQuiet /\ UNCHANGED <<disk, library, cache>>

\* Any error of Poll: a cancelled context, an entry trimmed at the source, a
\* directory pruned by another poller, a failed exchange.
PollFails(g) ==
    /\ pollers[g].pc \in {"fetch", "download", "hung", "rename"}
    /\ \/ /\ \/ pollers[g].pc \in {"fetch", "download", "hung"} /\ pollers[g].cancelled
             \/ At(g, "download") /\ pollers[g].lib[pollers[g].at] \notin Ids(Manifest(pollers[g].src))
             \/ At(g, "rename") /\ "dir" \notin disk[pollers[g].lib[pollers[g].at]]
          /\ UNCHANGED faults
       \/ Faulty
    /\ Go(g, Sleeping(g))
    /\ PollerQuiet /\ UNCHANGED <<disk, library, cache>>

\* SetLibrary: the pointer, then the cache.  Nobody looks at the context.
SetLibrary(g) ==
    /\ \/ /\ At(g, "store")
          /\ library' = pollers[g].lib
          /\ Go(g, [pollers[g] EXCEPT !.pc = "clear"])
          /\ UNCHANGED cache
       \/ /\ At(g, "clear")
          /\ cache' = {}
          /\ Go(g, [pollers[g] EXCEPT !.pc = "prune"])
          /\ UNCHANGED library
    /\ PollerQuiet /\ UNCHANGED <<disk, faults>>

\* PruneCache lists the directories once and removes, one after the other,
\* those that are not the library's.
PruneCache(g) ==
    LET p == pollers[g]
    IN  /\ \/ /\ At(g, "prune")
              /\ Go(g, [pc |-> "remove", src |-> p.src, cancelled |-> p.cancelled,
                        doomed |-> {id \in DOMAIN disk \ Ids(p.lib) : "dir" \in disk[id]}])
              /\ UNCHANGED disk
           \/ /\ At(g, "remove")
              /\ \E id \in p.doomed : /\ disk' = [disk EXCEPT ![id] = {}]
                                     /\ Go(g, [p EXCEPT !.doomed = @ \ {id}])
           \/ /\ At(g, "remove") /\ p.doomed = {}
              /\ Go(g, Sleeping(g))
              /\ UNCHANGED disk
        /\ PollerQuiet /\ UNCHANGED <<library, cache, faults>>

\* The ticker, or the end of a cancelled poller.
Wake(g) ==
    /\ At(g, "sleep")
    /\ Go(g, IF pollers[g].cancelled THEN Off ELSE [pollers[g] EXCEPT !.pc = "fetch"])
    /\ PollerQuiet /\ UNCHANGED <<disk, library, cache, faults>>

PollerStep(g) ==
    \/ Poll(g) \/ Hang(g) \/ Download(g) \/ Rename(g) \/ Corrupt(g) \/ PollFails(g)
    \/ SetLibrary(g) \/ PruneCache(g) \/ Wake(g)

(***************************************************************************)
(* Handshakes.                                                             *)
(***************************************************************************)
ArriveTLS(w, r) ==
    /\ Arrive(w, r) /\ UNCHANGED libraryVars

ShakeQuiet == Quiet /\ UNCHANGED <<configVars, pollers, disk, library, edition, faults>>

\* failureCertificate reads the pointer between tls_invalid and tls_expired;
\* without a library the last two failures are not asked about.
ReadLibrary(w) ==
    /\ conn[w].pc = "ask" /\ Question(w).type = "tls_expired" /\ shake[w] = Unread
    /\ shake' = [shake EXCEPT ![w] = library]
    /\ conn' = IF library = None THEN [conn EXCEPT ![w] = [@ EXCEPT !.pc = "default", !.out = "nolib"]] ELSE conn
    /\ ShakeQuiet /\ UNCHANGED cache

AskTLS(w) ==
    /\ conn[w].pc = "ask" /\ (Question(w).type = "tls_expired" => shake[w] # Unread)
    /\ Ask(w) /\ UNCHANGED libraryVars

\* SelectExpired, SelectExpiring, SelectDefault: an entry of the right kind.
Select(lib, kind) == {id \in Ids(lib) : Validity[id] = IF kind = "tls_expired" THEN "expired" ELSE "valid"}

Answer(w, out) == conn' = [conn EXCEPT ![w] = [@ EXCEPT !.pc = "done", !.out = out]]

\* cachedCertificate, under the selector's mutex: from memory, or the pair
\* and the leaf from disk.
Serve(w, id) ==
    \/ /\ id \in cache /\ Answer(w, id) /\ UNCHANGED cache
    \/ /\ id \notin cache /\ Complete(id)
       /\ Answer(w, id) /\ cache' = cache \cup {id}
    \/ /\ id \notin cache /\ ~Complete(id)
       /\ Answer(w, "error") /\ UNCHANGED cache

\* GetCertificate after failureCertificate's questions.
FailureCertificate(w) ==
    /\ conn[w].pc = "end"
    /\ \/ /\ conn[w].out \in {"tls_expired", "tls_expiring"}
          /\ \/ \E id \in Select(shake[w], conn[w].out) : Serve(w, id)
             \/ Select(shake[w], conn[w].out) = {} /\ Answer(w, "error") /\ UNCHANGED cache
          /\ UNCHANGED shake
       \/ /\ conn[w].out \in {"tls_handshake", "tls_invalid"}
          /\ Answer(w, conn[w].out) /\ UNCHANGED <<cache, shake>>
       \/ /\ conn[w].out = "ok"
          /\ conn' = [conn EXCEPT ![w].pc = "default"] /\ UNCHANGED <<cache, shake>>
    /\ ShakeQuiet

\* defaultCertificate reads the pointer again, then loads.
DefaultCertificate(w) ==
    /\ conn[w].pc = "default"
    /\ conn' = [conn EXCEPT ![w].pc = "load"]
    /\ shake' = [shake EXCEPT ![w] = library]
    /\ ShakeQuiet /\ UNCHANGED cache

LoadCertificate(w) ==
    /\ conn[w].pc = "load"
    /\ IF shake[w] = None \/ Select(shake[w], "default") = {} THEN Answer(w, "fallback") /\ UNCHANGED cache
       ELSE \E id \in Select(shake[w], "default") : Serve(w, id)
    /\ ShakeQuiet /\ UNCHANGED shake

LeaveTLS(w) ==
    /\ Leave(w)
    /\ shake' = [shake EXCEPT ![w] = Unread]
    /\ UNCHANGED <<configVars, pollers, disk, library, cache, edition, faults>>

LibraryNext(hellos, crew) ==
    \/ \E s \in DOMAIN Sources : Publish(s) \/ Apply(s)
    \/ RestoreState
    \/ \E g \in DOMAIN pollers : PollerStep(g)
    \/ \E w \in crew, r \in hellos : ArriveTLS(w, r)
    \/ \E w \in crew : ReadLibrary(w) \/ AskTLS(w) \/ FailureCertificate(w)
                          \/ DefaultCertificate(w) \/ LoadCertificate(w) \/ LeaveTLS(w)

(***************************************************************************)
(* Properties                                                              *)
(***************************************************************************)
\* The library the target serves from comes to be, and stays, the one the
\* source in force publishes, complete on disk, whatever cancelled pollers
\* still did, whichever exchanges failed and however often it restarted; unless
\* the poller in charge hangs at a source that never answers it.
LibraryCatchesUp ==
    <>[](source # None => \/ pollers[running].pc = "hung"
                          \/ library = Manifest(source) /\ \A id \in Ids(library) : Complete(id))

=============================================================================
