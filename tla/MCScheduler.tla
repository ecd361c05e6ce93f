----------------------------- MODULE MCScheduler -----------------------------
(***************************************************************************)
(* Values of the constants of Scheduler for TLC.                           *)
(***************************************************************************)
EXTENDS Scheduler

CONSTANTS host, recv, j1, j2, j3

HostThenRecv == <<host, recv>>
ThreeJobs == {j1, j2, j3}
OneJob == {j1}
=============================================================================
