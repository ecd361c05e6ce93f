------------------------------ MODULE Migration ------------------------------
(***************************************************************************)
(* Moving a user from one device to another                                *)
(* (app/services/migration_service.py): read the profile and the face on   *)
(* the source, write them on the target, delete them on the source.  Each  *)
(* of the three runs under the lock of its device and nothing is locked in *)
(* between, so moves interleave; each SDK call can fail, with or without   *)
(* having had its effect, and the process can die after any of the three   *)
(* (in the middle of one it leaves what a failing call leaves).            *)
(*                                                                         *)
(* One user id is modelled: SDK calls about different ids do not meet.  A  *)
(* bulk job is a mover that makes one move after the other.                *)
(***************************************************************************)
EXTENDS DahuaClient, Integers, FiniteSets

CONSTANTS
  Devices,
  Movers,        \* requests and jobs that move the user
  MayOverwrite   \* do requests ask for overwrite_target?

ASSUME MigrationAssumption ==
  /\ IsFiniteSet(Devices) /\ IsFiniteSet(Movers)
  /\ MayOverwrite \in BOOLEAN

Request == [from: Devices, to: Devices, keep: BOOLEAN,
            over: {o \in BOOLEAN : o => MayOverwrite}]

VARIABLES
  entry,   \* what each device holds under the user id
  pc,      \* where each mover is
  req,     \* its request
  copy     \* what it has read on the source

mover == <<pc, req, copy>>
vars  == <<entry, mover>>

Init ==
  /\ entry \in [Devices -> Entry]
  /\ \E d \in Devices : entry[d].user # None
  /\ pc = [m \in Movers |-> "idle"]
  /\ req \in [Movers -> Request]
  /\ copy = [m \in Movers |-> Empty]

-----------------------------------------------------------------------------
(* What runs under the lock of the target.  Each case is one way out.      *)

\* Broken: the result of insert_face is not looked at.
FacedAnyway(e, c, found) ==
  IF c.face = None THEN {[left |-> e, ok |-> TRUE]}
  ELSE {[r EXCEPT !.ok = TRUE] : r \in NewFace(e, c.face, found)}

\* _write, given whom get_user has found: insert_user_struct, for a user with
\* photos remove_face on an existing user and insert_face, and at last get_user
\* to verify.
Faced(e, c, found) ==
  IF c.face = None THEN {[left |-> e, ok |-> TRUE]} ELSE NewFace(e, c.face, found)

Verified(e) == {[left |-> e, ok |-> u # None] : u \in Got(e.user)}

Written(e, c, found) ==
  LET inserted == InsertUser(e, c.user)
      faced    == UNION {Faced(r.left, c, found) : r \in {i \in inserted : i.ok}}
      failures == {r \in inserted \cup faced : ~r.ok}
  IN  failures \cup UNION {Verified(r.left) : r \in {f \in faced : f.ok}}

\* Broken: a user who exists is replaced without being asked to.
WritesOver(e, c, over) == UNION {Written(e, c, u) : u \in Got(e.user)}

Writes(e, c, over) ==
  UNION {IF u # None /\ ~over THEN {[left |-> e, ok |-> FALSE]}
                              ELSE Written(e, c, u) : u \in Got(e.user)}

-----------------------------------------------------------------------------
Goto(m, label) == pc' = [pc EXCEPT ![m] = label]

\* A request with equal devices is refused; _read raises when it finds nobody.
Read(m) ==
  /\ pc[m] = "idle"
  /\ \E q \in Request :
       /\ q.from # q.to
       /\ req' = [req EXCEPT ![m] = q]
       /\ \E u \in Got(entry[q.from].user), f \in Got(entry[q.from].face) :
            /\ copy' = [copy EXCEPT ![m] = [user |-> u, face |-> f]]
            /\ Goto(m, IF u = None THEN "failed" ELSE "write")
  /\ UNCHANGED entry

\* Broken: the user is deleted on the source whether or not he was written.
WriteAndDelete(m) ==
  /\ pc[m] = "write"
  /\ \E r \in Writes(entry[req[m].to], copy[m], req[m].over) :
       /\ entry' = [entry EXCEPT ![req[m].to] = r.left]
       /\ Goto(m, IF req[m].keep THEN "done" ELSE "delete")
  /\ UNCHANGED <<req, copy>>

\* Broken: the result is taken for the entry.
WriteResult(m) ==
  /\ pc[m] = "write"
  /\ \E r \in Writes(entry[req[m].to], copy[m], req[m].over) :
       /\ entry' = [entry EXCEPT ![req[m].to] = r]
       /\ Goto(m, IF ~r.ok THEN "failed"
                  ELSE IF req[m].keep THEN "done" ELSE "delete")
  /\ UNCHANGED <<req, copy>>

Write(m) ==
  /\ pc[m] = "write"
  /\ \E r \in Writes(entry[req[m].to], copy[m], req[m].over) :
       /\ entry' = [entry EXCEPT ![req[m].to] = r.left]
       /\ Goto(m, IF ~r.ok THEN "failed"
                  ELSE IF req[m].keep THEN "done" ELSE "delete")
  /\ UNCHANGED <<req, copy>>

Delete(m) ==
  /\ pc[m] = "delete"
  /\ \E r \in Deletes(entry[req[m].from]) :  \* _del
       /\ entry' = [entry EXCEPT ![req[m].from] = r.left]
       /\ Goto(m, IF r.ok THEN "done" ELSE "failed")
  /\ UNCHANGED <<req, copy>>

\* pool.run raises before it comes to the function: no such device, no login.
Refuse(m) ==
  /\ pc[m] \in {"write", "delete"}
  /\ Goto(m, "failed")
  /\ UNCHANGED <<entry, req, copy>>

Again(m) ==
  /\ pc[m] \in {"done", "failed"}
  /\ Goto(m, "idle")
  /\ UNCHANGED <<entry, req, copy>>

\* The process dies.  No move is resumed.
Crash ==
  /\ pc' = [m \in Movers |-> "idle"]
  /\ UNCHANGED <<entry, req, copy>>

Move(m) == Read(m) \/ Write(m) \/ Delete(m) \/ Refuse(m) \/ Again(m)

Next == Crash \/ \E m \in Movers : Move(m)

Spec == Init /\ [][Next]_vars

-----------------------------------------------------------------------------
(* Properties.                                                             *)

TypeOK ==
  /\ entry \in [Devices -> Entry]
  /\ pc \in [Movers -> {"idle", "write", "delete", "done", "failed"}]
  /\ req \in [Movers -> Request]
  /\ copy \in [Movers -> Entry]

Holders == {d \in Devices : entry[d].user # None}

\* Moves never leave the user on no device at all, however they interleave and
\* fail - the least that "atomically move a user" (routers/migration.py) says.
NeverLost == Holders # {}

\* A profile disappears from a device only when another device has it.
DeletesOnlyCopied ==
  [][\A d \in Devices :
       entry[d].user # None /\ entry'[d].user = None
         => \E o \in Devices : entry'[o].user = entry[d].user]_vars

\* A move that reports success has put the profile and the face it read on the
\* target.
ArrivesAsRead ==
  \A m \in Movers :
    pc[m] = "done" =>
      /\ entry[req[m].to].user = copy[m].user
      /\ copy[m].face # None => entry[req[m].to].face = copy[m].face

-----------------------------------------------------------------------------
(* Why no user is lost without overwrite_target: every move that still has *)
(* to delete has made a copy on a device that had none.                    *)

Pending == {m \in Movers : pc[m] = "delete"}

\* Nobody writes a user he has not found.
CopyInv == \A m \in Movers : pc[m] = "write" => copy[m].user # None

CountInv == Cardinality(Holders) > Cardinality(Pending)

IInv == CopyInv /\ CountInv

-----------------------------------------------------------------------------
(* Why one move at a time does as it says: what it has read stays on the   *)
(* source until it is on the target.                                       *)

Alone == \A m, n \in Movers : m = n

SoloInv ==
  /\ Holders # {}
  /\ \A m \in Movers :
       LET source == entry[req[m].from]
           target == entry[req[m].to]
       IN  /\ pc[m] \in {"write", "delete"} =>
                /\ req[m].from # req[m].to
                /\ copy[m].user # None /\ source.user = copy[m].user
           /\ pc[m] \in {"delete", "done"} =>
                /\ target.user = copy[m].user
                /\ copy[m].face # None => target.face = copy[m].face
=============================================================================
