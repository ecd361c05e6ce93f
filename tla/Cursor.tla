------------------------------- MODULE Cursor -------------------------------
(***************************************************************************)
(* What the attendance pusher promises: a cursor over a growing log.  What *)
(* the log holds is done with in any order and any number of times, but    *)
(* the cursor is only ever put on something that is done with, when all    *)
(* that is older is done with too, and nothing is logged behind it.  So    *)
(* whoever starts from the cursor leaves nothing out.                      *)
(***************************************************************************)
EXTENDS Integers

CONSTANTS
  Time(_),  \* when an entry was logged
  Nowhere   \* where the cursor is at first

VARIABLES
  entries,  \* what there is
  done,     \* what needs no more work
  cursor

vars == <<entries, done, cursor>>

Init == entries = {} /\ done = {} /\ cursor = Nowhere

\* Something is logged, not behind the cursor; it may need no work.
Log ==
  /\ entries \subseteq entries' /\ done \subseteq done'
  /\ \A e \in entries' \ entries : cursor # Nowhere => cursor <= Time(e)
  /\ done' \ done \subseteq entries' \ entries
  /\ UNCHANGED cursor

Work ==
  /\ done \subseteq done' /\ done' \subseteq entries
  /\ UNCHANGED <<entries, cursor>>

\* The cursor moves, forward or back.
Move ==
  /\ \E e \in done :
       /\ cursor' = Time(e)
       /\ \A older \in entries : Time(older) < Time(e) => older \in done
  /\ UNCHANGED <<entries, done>>

Next == Log \/ Work \/ Move

Spec == Init /\ [][Next]_vars
=============================================================================
