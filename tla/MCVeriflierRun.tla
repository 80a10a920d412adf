---------------------------- MODULE MCVeriflierRun ----------------------------
(***************************************************************************)
(* An instance of VeriflierRun for TLC: sites of three hosts, two batches  *)
(* that have the same hosts in opposite orders, one that a repeated host   *)
(* cuts short, a URL that two rows have, and rows that are not selected; a *)
(* fixture and a tier with a check left behind by an earlier execution.    *)
(***************************************************************************)
EXTENDS VeriflierRun

Row(url, host, hash) == [active |-> TRUE, url |-> url, host |-> host, scheme |-> "https", hash |-> hash]

\* Selected in the order of their hashes: hosts 1, 2, 2, 1, 3, and 1, 1, 2.
MCDump ==
    <<Row(1, 1, 7), [Row(9, 1, 1) EXCEPT !.active = FALSE], Row(1, 1, 2), [Row(8, 2, 1) EXCEPT !.scheme = "ftp"],
      Row(3, 2, 5), Row(2, 2, 5), Row(7, 0, 3), Row(5, 3, 8), Row(6, 3, 9)>>
MCSmallDump == <<Row(2, 1, 7), Row(1, 1, 2), Row(3, 2, 9)>>

MCAllModes == <<"v1-legacy", "v2-head-legacy">>
MCFirstID == [m \in {"v1-legacy", "v2-head-legacy"} |-> IF m = "v1-legacy" THEN 10 ELSE 20]
MCEndpoint == [m \in {"v1-legacy", "v2-head-legacy"} |-> IF m = "v1-legacy" THEN "v1" ELSE "v2"]

Runs(name, modes, buffered) ==
    [name |-> name, modes |-> modes, dump |-> <<>>, maxURLs |-> 0, attempts |-> 1, buffered |-> buffered, stale |-> {}]
Sites(mode, dump, urls, attempts) ==
    [Runs("real", <<mode>>, TRUE) EXCEPT !.dump = dump, !.maxURLs = urls, !.attempts = attempts]
MCPrograms ==
    {[Sites("v1-legacy", MCSmallDump, 1, 2) EXCEPT !.modes = <<>>], Sites("v1-legacy", MCSmallDump, 0, 1),
     Sites("v2-head-legacy", MCDump, 5, 1), Sites("v1-legacy", MCSmallDump, 2, 2),
     Runs("fixture", <<>>, TRUE), [Runs("fixture", <<"v1-legacy">>, TRUE) EXCEPT !.stale = {11}],
     Runs("fixture", <<"v2-head-legacy", "v2-head-legacy">>, FALSE),
     Runs("tier", <<"v1-legacy">>, TRUE), [Runs("tier", <<"v1-legacy">>, TRUE) EXCEPT !.stale = {10}],
     Runs("tier", <<"v2-head-legacy">>, TRUE)}
=============================================================================
