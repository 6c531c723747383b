-------------------------- MODULE MCTaskController --------------------------
(* Values for TLC: small instances of TaskController. *)
EXTENDS TaskProperties

\* With a domain and removed on failure, without and with either.
FullSpec == [domain |-> TRUE, tof |-> TRUE]
BareSpec == [domain |-> FALSE, tof |-> TRUE]
KeptSpec == [domain |-> FALSE, tof |-> FALSE]
TwoSpecs == {FullSpec, KeptSpec}
OneSpec == {FullSpec}
NoDomain == {BareSpec}
=============================================================================
