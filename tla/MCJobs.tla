------------------------------- MODULE MCJobs -------------------------------
(***************************************************************************)
(* Values of the constants of Jobs for TLC: one job of each kind.          *)
(***************************************************************************)
EXTENDS Jobs

EveryKind == {"export", "bulk_migrate", "dghs_push", "bulk_enroll"}
TwoKinds == {"bulk_migrate", "dghs_push"}
FileAndExport == {"export", "bulk_enroll"}
NoKind == {}
OwnKind == [j \in Jobs |-> j]
=============================================================================
