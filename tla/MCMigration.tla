---------------------------- MODULE MCMigration ----------------------------
(***************************************************************************)
(* Values of the constants of Migration for TLC.                           *)
(***************************************************************************)
EXTENDS Migration

CONSTANTS d1, d2, m1, m2, p, q, f, g

TwoDevices == {d1, d2}
OneMover == {m1}
TwoMovers == {m1, m2}
OneProfile == {p}
TwoProfiles == {p, q}
OneFace == {f}
TwoFaces == {f, g}
=============================================================================
