----------------------------- MODULE MCDghsPush -----------------------------
(***************************************************************************)
(* Values of the constants of DghsPush for TLC.                            *)
(***************************************************************************)
EXTENDS DghsPush

CONSTANTS u1, u2, sched, manual

MCUsers == {u1, u2}
OneUser == {u1}
Both == {sched, manual}
JustSched == {sched}
JustManual == {manual}
Nobody == {}

\* Everything, from a given time, without touching the marker, and for one user
\* only, further back than the default.
MCRequests ==
  {PlainRequest,
   [PlainRequest EXCEPT !.since = 1],
   [PlainRequest EXCEPT !.ignore = TRUE],
   [PlainRequest EXCEPT !.users = {u1}, !.days = 2]}

\* Successful entries only, from the marker on or from a given time.
FewRequests == {[PlainRequest EXCEPT !.since = 1, !.okOnly = TRUE],
                [PlainRequest EXCEPT !.okOnly = TRUE]}
=============================================================================
