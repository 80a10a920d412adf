-------------------------- MODULE MCFailureRegistry --------------------------
(***************************************************************************)
(* An instance of FailureRegistry for TLC: exact, host, path and full      *)
(* wildcard entries, with and without a source range that covers one of    *)
(* two addresses.                                                          *)
(***************************************************************************)
EXTENDS FailureRegistry, FiniteSets

MCDurations == {0, 1}

CONSTANTS cidr, ip1, ip2

MCCovers == [c \in CIDRs |-> {ip1}]

\* Two entries at a time: every pair competes for every query.
MCFewEntries == Cardinality(DOMAIN failures) <= 2
=============================================================================
