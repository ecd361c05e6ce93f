---------------------------- MODULE MCBulkEnroll ----------------------------
(***************************************************************************)
(* Values of the constants of BulkEnroll for TLC.                          *)
(***************************************************************************)
EXTENDS BulkEnroll

CONSTANTS a, b, p, q, f, g

TwoIds == {a, b}
TwoProfiles == {p, q}
TwoFaces == {f, g}
OfEach == [x \in TwoFaces |-> IF x = f THEN p ELSE q]

R(id, profile, flaws) == [id |-> id, profile |-> profile, flaws |-> flaws]

Good == {R(a, p, {}), R(a, q, {}), R(b, q, {})}
Bad ==
  {R(a, q, {"name too long", "must be integers"}), R(a, q, {"too many bytes"}),
   R(b, q, {"no such date"})}

\* The empty file, a row, two rows, a bad row before a good one, and three rows
\* of one user.
SmallFiles ==
  {<<>>} \cup {<<r>> : r \in Good \cup Bad} \cup {<<r, s>> : r, s \in Good}
    \cup {<<r, R(a, p, {})>> : r \in Bad}
    \cup {<<R(a, p, {}), R(a, q, {}), R(a, p, {})>>}
=============================================================================
