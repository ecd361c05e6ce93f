---------------------------- MODULE MCFaceLookup ----------------------------
(***************************************************************************)
(* Values of the constants of FaceLookup for TLC.                          *)
(***************************************************************************)
EXTENDS FaceLookup

CONSTANTS host, recv, n0, n1, m1, m2, p, f, r1

HostAndRecv == {host, recv}
OneReader == {r1}
TwoMovers == {m1, m2}
OneProfile == {p}
OneFace == {f}
TwoNumbers == {n0, n1}
=============================================================================
