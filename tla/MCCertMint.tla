----------------------------- MODULE MCCertMint -----------------------------
(***************************************************************************)
(* An instance of CertMint for TLC: one profile with two slots a day and a *)
(* limit on the lifetime, on days of two ticks.                            *)
(***************************************************************************)
EXTENDS CertMint

MCGroups == {1}
MCDomainOf == [g \in MCGroups |-> "a"]
MCPerDay == [g \in MCGroups |-> 2]
MCMaxLifetime == [g \in MCGroups |-> 1]
=============================================================================
