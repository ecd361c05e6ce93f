----------------------------- MODULE DahuaClient -----------------------------
(***************************************************************************)
(* The user and face calls of the device client (app/core/dahua_client.py),*)
(* for one user id on one device: each as the set of what can come of it.  *)
(* A call that fails reports so, with or without having had its effect,    *)
(* and none of them raises for an id that fits its field.                  *)
(***************************************************************************)

CONSTANTS
  Profiles,  \* what a device can know of a user
  Faces,     \* what photos it can have
  None,      \* no profile, no face
  PutsFail,  \* can insert and remove calls fail?
  GetsFail   \* can get calls fail?

ASSUME ClientAssumption ==
  /\ None \notin Profiles \cup Faces
  /\ {PutsFail, GetsFail} \subseteq BOOLEAN

\* What a device holds under a user id.
Entry == [user: Profiles \cup {None}, face: Faces \cup {None}]

Empty == [user |-> None, face |-> None]

\* What can come of a call that turns e into done: the entry it leaves and
\* whether it reports success.
Outcomes(e, done) ==
  {[left |-> done, ok |-> TRUE]}
    \cup (IF PutsFail THEN {[left |-> e, ok |-> FALSE], [left |-> done, ok |-> FALSE]}
                      ELSE {})

InsertUser(e, u) == Outcomes(e, [user |-> u, face |-> e.face])
RemoveUser(e)    == Outcomes(e, [user |-> None, face |-> e.face])
InsertFace(e, f) == Outcomes(e, [user |-> e.user, face |-> f])
RemoveFace(e)    == Outcomes(e, [user |-> e.user, face |-> None])

\* get_user and get_face_bytes return nothing also when the call fails.
Got(v) == {v} \cup (IF GetsFail THEN {None} ELSE {})

-----------------------------------------------------------------------------
(* Sequences of calls that several operations make under the lock.         *)

\* remove_face on a user who has been found, whose result nobody looks at, and
\* insert_face.
NewFace(e, f, found) ==
  UNION {InsertFace(r.left, f) : r \in IF found # None THEN RemoveFace(e)
                                       ELSE {[left |-> e, ok |-> TRUE]}}

\* remove_face, whose result nobody looks at, and remove_user.
Deletes(e) == UNION {RemoveUser(r.left) : r \in RemoveFace(e)}
=============================================================================
