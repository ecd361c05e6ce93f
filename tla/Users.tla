-------------------------------- MODULE Users --------------------------------
(***************************************************************************)
(* The requests that enroll and delete users of one device                 *)
(* (app/services/user_service.py, app/routers/users.py).  Each runs under  *)
(* the lock of the device from its first SDK call to its last, so requests *)
(* follow each other; the calls of one can fail between others that do     *)
(* not, and nothing is undone.                                             *)
(***************************************************************************)
EXTENDS DahuaClient

CONSTANTS
  Ids,   \* user ids
  Owner  \* the profile of the person on each photo

ASSUME UsersAssumption == Owner \in [Faces -> Profiles]

VARIABLES
  users,    \* what the device holds under each id
  doubtful  \* history: ids whose photo the code itself may have left behind

usersVars == <<users, doubtful>>

\* A photo is on the device only with the profile of its person.
Matches(e) == e.face # None => e.user = Owner[e.face]

UsersInit ==
  /\ users \in [Ids -> {e \in Entry : Matches(e)}]
  /\ doubtful = {}

-----------------------------------------------------------------------------
\* insert_user and, for a user who was found, remove_face before insert_face.
Enrolled(e, f, found) ==
  LET inserted == InsertUser(e, Owner[f])
  IN  {r \in inserted : ~r.ok}
        \cup UNION {NewFace(r.left, f, found) : r \in {i \in inserted : i.ok}}

\* Broken: the photo is sent before the user is looked for.
EnrollsFaceFirst(e, f, over) ==
  UNION {UNION {IF u # None /\ ~over THEN {[left |-> r.left, ok |-> FALSE]}
                ELSE InsertUser(r.left, Owner[f]) : u \in Got(e.user)} :
           r \in InsertFace(e, f)}

\* enroll_user.
Enrolls(e, f, over) ==
  UNION {IF u # None /\ ~over THEN {[left |-> e, ok |-> FALSE]}
                              ELSE Enrolled(e, f, u) : u \in Got(e.user)}

\* The device keeps what r leaves under id.  A photo without a profile, and
\* whatever is under an id when the code has been careless, is doubtful.
Leave(id, r, careless) ==
  /\ users' = [users EXCEPT ![id] = r.left]
  /\ doubtful' = IF careless \/ (r.left.user = None /\ r.left.face # None)
                 THEN doubtful \cup {id} ELSE doubtful

\* A request to enroll the person of photo f.  One that is to overwrite and fails
\* half way leaves the new profile with the old photo.
EnrollUser(id) ==
  \E f \in Faces, over \in BOOLEAN :
    \E r \in Enrolls(users[id], f, over) : Leave(id, r, over /\ ~r.ok)

\* delete_user.  Nobody is told when the photo stays.
DeleteUser(id) ==
  \E u \in Got(users[id].user) :
    /\ u # None
    /\ \E r \in Deletes(users[id]) : Leave(id, r, FALSE)

-----------------------------------------------------------------------------
(* Properties.                                                             *)

UsersTypeOK ==
  /\ users \in [Ids -> Entry]
  /\ doubtful \subseteq Ids

\* Nobody's photo is on the device with the profile of somebody else - the door
\* would open for a face and log another name - unless it got there by a delete
\* whose remove_face failed, by a request to overwrite that was answered with an
\* error, or by a file that is to overwrite.
FaceBelongs ==
  \A id \in Ids \ doubtful : users[id].user # None => Matches(users[id])

\* With the reason: no photo is without a profile either.
UsersInv == \A id \in Ids \ doubtful : Matches(users[id])
=============================================================================
