--------------------------- MODULE MigrationProofs ---------------------------
(***************************************************************************)
(* For any devices and any number of moves at once: without                *)
(* overwrite_target, and as long as a get call only fails to find a user   *)
(* who is not there, moves never lose the user, whichever insert and       *)
(* remove calls fail and wherever the process dies.                        *)
(***************************************************************************)
EXTENDS Migration, DahuaClientProofs, FiniteSetTheorems

-----------------------------------------------------------------------------
(* What can come of a write.                                               *)

\* insert_face and remove_face leave the profile alone, and the photo is there if
\* they report success.
LEMMA FacedTyped ==
  ASSUME NEW e \in Entry, NEW c \in Entry, NEW found,
         NEW r \in Faced(e, c, found)
  PROVE  /\ r \in Result /\ r.left.user = e.user
         /\ r.ok /\ c.face # None => r.left.face = c.face
<1>1. CASE c.face = None
  <2>1. r = [left |-> e, ok |-> TRUE]
    BY <1>1 DEF Faced
  <2> QED
    BY <1>1, <2>1 DEF Result
<1>2. CASE c.face # None
  <2>1. c.face \in Faces /\ r \in NewFace(e, c.face, found)
    BY <1>2 DEF Faced, Entry
  <2> QED
    BY <2>1, NewFaceTyped
<1> QED
  BY <1>1, <1>2

\* After _write the profile is the old one or the copied one, and profile and
\* photo are the copied ones if it reports success.
LEMMA WrittenTyped ==
  ASSUME NEW e \in Entry, NEW c \in Entry, NEW found,
         NEW r \in Written(e, c, found)
  PROVE  /\ r \in Result /\ r.left.user \in {e.user, c.user}
         /\ r.ok => r.left.user = c.user
         /\ r.ok /\ c.face # None => r.left.face = c.face
<1> DEFINE inserted == InsertUser(e, c.user)
           faced == UNION {Faced(i.left, c, found) : i \in {j \in inserted : j.ok}}
           failures == {i \in inserted \cup faced : ~i.ok}
           verified == UNION {Verified(i.left) : i \in {f \in faced : f.ok}}
<1>1. Written(e, c, found) = failures \cup verified
  BY DEF Written
<1>2. [user |-> c.user, face |-> e.face] \in Entry
        /\ [user |-> c.user, face |-> e.face].user = c.user
  BY DEF Entry
<1>3. ASSUME NEW i \in inserted
      PROVE  i \in Result /\ i.left.user \in {e.user, c.user}
               /\ (i.ok => i.left.user = c.user)
  <2>1. i \in Outcomes(e, [user |-> c.user, face |-> e.face])
    BY <1>3 DEF InsertUser
  <2> QED
    BY <1>2, <2>1, OutcomesTyped
<1>4. ASSUME NEW i \in faced
      PROVE  /\ i \in Result /\ i.left.user = c.user
             /\ i.ok /\ c.face # None => i.left.face = c.face
  <2>1. PICK j \in inserted : j.ok /\ i \in Faced(j.left, c, found)
    BY <1>4
  <2>2. j.left \in Entry /\ j.left.user = c.user
    BY <1>3, <2>1 DEF Result
  <2> QED
    BY <2>1, <2>2, FacedTyped
<1>5. CASE r \in failures
  BY <1>3, <1>4, <1>5
<1>6. CASE r \in verified
  <2>1. PICK i \in faced : i.ok /\ r \in Verified(i.left)
    BY <1>6
  <2>2. /\ i.left \in Entry /\ i.left.user = c.user
        /\ c.face # None => i.left.face = c.face
    BY <1>4, <2>1 DEF Result
  <2>3. PICK u \in Got(i.left.user) : r = [left |-> i.left, ok |-> u # None]
    BY <2>1 DEF Verified
  <2>4. r.left = i.left /\ r \in Result
    BY <2>2, <2>3 DEF Result
  <2> QED
    BY <2>2, <2>4
<1> QED
  BY <1>1, <1>5, <1>6

\* What the write phase can leave on the target, and that without
\* overwrite_target it succeeds on a free id only.
LEMMA WritesTyped ==
  ASSUME NEW e \in Entry, NEW c \in Entry, NEW over \in BOOLEAN,
         NEW r \in Writes(e, c, over)
  PROVE  /\ r \in Result
         /\ r.left.user \in {e.user, c.user}
         /\ (~GetsFail /\ ~over /\ r.ok)
              => (e.user = None /\ r.left.user = c.user)
         /\ r.ok => r.left.user = c.user
         /\ r.ok /\ c.face # None => r.left.face = c.face
<1>1. PICK u \in Got(e.user) :
        r \in IF u # None /\ ~over THEN {[left |-> e, ok |-> FALSE]}
                                   ELSE Written(e, c, u)
  BY DEF Writes
<1>2. CASE u # None /\ ~over
  <2>1. r = [left |-> e, ok |-> FALSE]
    BY <1>1, <1>2
  <2> QED
    BY <2>1 DEF Result
<1>3. CASE ~(u # None /\ ~over)
  <2>1. r \in Written(e, c, u)
    BY <1>1, <1>3
  <2>2. /\ r \in Result /\ r.left.user \in {e.user, c.user}
        /\ r.ok => r.left.user = c.user
        /\ r.ok /\ c.face # None => r.left.face = c.face
    BY <2>1, WrittenTyped
  <2>3. ~GetsFail => u = e.user
    BY <1>1 DEF Got
  <2>4. (~GetsFail /\ ~over) => e.user = None
    BY <1>3, <2>3
  <2> QED
    BY <2>2, <2>4
<1> QED
  BY <1>2, <1>3

-----------------------------------------------------------------------------
(* Type correctness.                                                       *)

\* Every variable keeps its type.
LEMMA StepTyped ==
  ASSUME TypeOK, [Next]_vars
  PROVE  TypeOK'
<1>1. CASE Crash
  BY <1>1 DEF TypeOK, Crash
<1>2. CASE UNCHANGED vars
  BY <1>2 DEF TypeOK, vars, mover
<1>3. ASSUME NEW m \in Movers, Read(m)
      PROVE  TypeOK'
  <2>1. PICK q \in Request :
          /\ req' = [req EXCEPT ![m] = q]
          /\ \E u \in Got(entry[q.from].user), f \in Got(entry[q.from].face) :
               /\ copy' = [copy EXCEPT ![m] = [user |-> u, face |-> f]]
               /\ Goto(m, IF u = None THEN "failed" ELSE "write")
    BY <1>3 DEF Read
  <2>2. PICK u \in Got(entry[q.from].user), f \in Got(entry[q.from].face) :
          /\ copy' = [copy EXCEPT ![m] = [user |-> u, face |-> f]]
          /\ Goto(m, IF u = None THEN "failed" ELSE "write")
    BY <2>1
  <2>3. entry[q.from] \in Entry /\ entry[q.to] \in Entry
    BY DEF TypeOK, Request
  <2>4. [user |-> u, face |-> f] \in Entry
    BY <2>3, GotTyped DEF Entry
  <2>5. req' \in [Movers -> Request]
    BY <2>1 DEF TypeOK
  <2>6. copy' \in [Movers -> Entry]
    BY <2>2, <2>4 DEF TypeOK
  <2>7. pc' \in [Movers -> {"idle", "write", "delete", "done", "failed"}]
    BY <2>2 DEF TypeOK, Goto
  <2> QED
    BY <1>3, <2>5, <2>6, <2>7 DEF TypeOK, Read
<1>4. ASSUME NEW m \in Movers, Write(m)
      PROVE  TypeOK'
  <2>1. req[m].to \in Devices /\ req[m].over \in BOOLEAN
    BY DEF TypeOK, Request
  <2>2. PICK r \in Writes(entry[req[m].to], copy[m], req[m].over) :
          entry' = [entry EXCEPT ![req[m].to] = r.left]
    BY <1>4 DEF Write
  <2>3. r.left \in Entry
    BY <2>1, <2>2, WritesTyped DEF TypeOK, Result
  <2>4. entry' \in [Devices -> Entry]
    BY <2>2, <2>3 DEF TypeOK
  <2>5. pc' \in [Movers -> {"idle", "write", "delete", "done", "failed"}]
    BY <1>4 DEF TypeOK, Write, Goto
  <2> QED
    BY <1>4, <2>4, <2>5 DEF TypeOK, Write
<1>5. ASSUME NEW m \in Movers, Delete(m)
      PROVE  TypeOK'
  <2>1. req[m].from \in Devices
    BY DEF TypeOK, Request
  <2>2. PICK r \in Deletes(entry[req[m].from]) :
          entry' = [entry EXCEPT ![req[m].from] = r.left]
    BY <1>5 DEF Delete
  <2>3. r.left \in Entry
    BY <2>1, <2>2, DeletesTyped DEF TypeOK, Result
  <2>4. entry' \in [Devices -> Entry]
    BY <2>2, <2>3 DEF TypeOK
  <2>5. pc' \in [Movers -> {"idle", "write", "delete", "done", "failed"}]
    BY <1>5 DEF TypeOK, Delete, Goto
  <2> QED
    BY <1>5, <2>4, <2>5 DEF TypeOK, Delete
<1>6. ASSUME NEW m \in Movers, Refuse(m) \/ Again(m)
      PROVE  TypeOK'
  BY <1>6 DEF TypeOK, Refuse, Again, Goto
<1> QED
  BY <1>1, <1>2, <1>3, <1>4, <1>5, <1>6 DEF Next, Move

\* The types hold at first.
LEMMA InitTyped == Init => TypeOK
<1>1. Empty \in Entry
  BY DEF Empty, Entry
<1> QED
  BY <1>1 DEF Init, TypeOK

\* Type correctness of devices and movers in every reachable state.
THEOREM TypeCorrect == Spec => []TypeOK
  BY InitTyped, StepTyped, PTL DEF Spec

-----------------------------------------------------------------------------
(* Nobody is lost.                                                         *)

\* The devices with the user and the movers about to delete it are finitely
\* many.
LEMMA Counted ==
  ASSUME TypeOK
  PROVE  /\ IsFiniteSet(Holders) /\ IsFiniteSet(Pending)
         /\ Cardinality(Holders) \in Nat /\ Cardinality(Pending) \in Nat
<1>1. IsFiniteSet(Holders)
  BY MigrationAssumption, FS_Subset DEF Holders
<1>2. IsFiniteSet(Pending)
  BY MigrationAssumption, FS_Subset DEF Pending
<1> QED
  BY <1>1, <1>2, FS_CardinalityType

\* A mover that is about to write has a profile in hand, after any step.
LEMMA StepCopy ==
  ASSUME TypeOK, CopyInv, [Next]_vars
  PROVE  CopyInv'
<1>1. ASSUME NEW m \in Movers, Read(m), NEW n \in Movers, pc'[n] = "write"
      PROVE  copy'[n].user # None
  <2>1. PICK u, f :
          /\ copy' = [copy EXCEPT ![m] = [user |-> u, face |-> f]]
          /\ Goto(m, IF u = None THEN "failed" ELSE "write")
    BY <1>1 DEF Read
  <2>2. CASE n = m
    BY <1>1, <2>1, <2>2 DEF TypeOK, Goto
  <2>3. CASE n # m
    BY <1>1, <2>1, <2>3 DEF TypeOK, Goto, CopyInv
  <2> QED
    BY <2>2, <2>3
<1>2. ASSUME NEW m \in Movers, Write(m) \/ Delete(m) \/ Refuse(m) \/ Again(m),
             NEW n \in Movers, pc'[n] = "write"
      PROVE  pc[n] = "write" /\ copy' = copy
  BY <1>2 DEF TypeOK, Write, Delete, Refuse, Again, Goto
<1>3. CASE Crash \/ UNCHANGED vars
  BY <1>3 DEF Crash, CopyInv, vars, mover
<1> QED
  BY <1>1, <1>2, <1>3 DEF Next, Move, CopyInv

\* A write that leads on to a delete has added a device that held nobody.
LEMMA WriteCounts ==
  ASSUME TypeOK, TypeOK', IInv, ~MayOverwrite, ~GetsFail,
         NEW m \in Movers, Write(m)
  PROVE  CountInv'
<1> DEFINE to == req[m].to
<1>1. to \in Devices /\ req[m].over = FALSE /\ entry[to] \in Entry
        /\ copy[m] \in Entry /\ copy[m].user # None
  BY DEF TypeOK, Request, Write, IInv, CopyInv
<1>2. PICK r \in Writes(entry[to], copy[m], req[m].over) :
        /\ entry' = [entry EXCEPT ![to] = r.left]
        /\ Goto(m, IF ~r.ok THEN "failed"
                   ELSE IF req[m].keep THEN "done" ELSE "delete")
  BY DEF Write
<1>3. /\ r \in Result
      /\ r.left.user \in {entry[to].user, copy[m].user}
      /\ r.ok => (entry[to].user = None /\ r.left.user = copy[m].user)
  <2>1. /\ r \in Result
        /\ r.left.user \in {entry[to].user, copy[m].user}
        /\ (~GetsFail /\ ~req[m].over /\ r.ok)
             => (entry[to].user = None /\ r.left.user = copy[m].user)
    <3> DEFINE over == req[m].over
               e == entry[to]
               c == copy[m]
    <3>1. e \in Entry /\ c \in Entry /\ over \in BOOLEAN /\ r \in Writes(e, c, over)
      BY <1>1, <1>2
    <3> HIDE DEF over, e, c
    <3>2. /\ r \in Result
          /\ r.left.user \in {e.user, c.user}
          /\ (~GetsFail /\ ~over /\ r.ok)
               => (e.user = None /\ r.left.user = c.user)
      BY <3>1, WritesTyped
    <3> QED
      BY <3>2 DEF over, e, c
  <2> QED
    BY <1>1, <2>1
<1>4. entry'[to] = r.left /\ \A d \in Devices : d # to => entry'[d] = entry[d]
  BY <1>1, <1>2 DEF TypeOK
<1>5. Holders \subseteq Holders'
  BY <1>1, <1>3, <1>4 DEF Holders
<1>6. /\ IsFiniteSet(Holders) /\ IsFiniteSet(Holders')
      /\ IsFiniteSet(Pending) /\ IsFiniteSet(Pending')
      /\ Cardinality(Holders) \in Nat /\ Cardinality(Holders') \in Nat
      /\ Cardinality(Pending) \in Nat /\ Cardinality(Pending') \in Nat
  <2>1. IsFiniteSet(Holders') /\ IsFiniteSet(Pending')
    BY MigrationAssumption, FS_Subset DEF Holders, Pending
  <2> QED
    BY <2>1, Counted, FS_CardinalityType
<1>7. Cardinality(Holders) <= Cardinality(Holders')
  BY <1>5, <1>6, FS_Subset
<1>8. CASE pc'[m] # "delete"
  <2>1. Pending' = Pending
    BY <1>2, <1>8 DEF TypeOK, Pending, Goto, Write
  <2> QED
    BY <1>6, <1>7, <2>1 DEF IInv, CountInv
<1>9. CASE pc'[m] = "delete"
  <2>1. r.ok
    BY <1>2, <1>9 DEF TypeOK, Goto
  <2>2. Holders' = Holders \cup {to} /\ to \notin Holders
    BY <1>1, <1>3, <1>4, <2>1 DEF Holders
  <2>3. Pending' = Pending \cup {m} /\ m \notin Pending
    BY <1>2, <1>9 DEF TypeOK, Pending, Goto, Write
  <2>4. Cardinality(Holders') = Cardinality(Holders) + 1
    BY <1>6, <2>2, FS_AddElement
  <2>5. Cardinality(Pending') = Cardinality(Pending) + 1
    BY <1>6, <2>3, FS_AddElement
  <2> QED
    BY <1>6, <2>4, <2>5 DEF IInv, CountInv
<1> QED
  BY <1>8, <1>9

\* A delete takes one device at most, and one delete off the list.
LEMMA DeleteCounts ==
  ASSUME TypeOK, TypeOK', IInv, NEW m \in Movers, Delete(m)
  PROVE  CountInv'
<1> DEFINE from == req[m].from
<1>1. from \in Devices
  BY DEF TypeOK, Request
<1>2. PICK r \in Deletes(entry[from]) : entry' = [entry EXCEPT ![from] = r.left]
  BY DEF Delete
<1>3. \A d \in Devices : d # from => entry'[d] = entry[d]
  BY <1>1, <1>2 DEF TypeOK
<1>4. Holders \ {from} \subseteq Holders'
  BY <1>3 DEF Holders
<1>5. Pending' = Pending \ {m} /\ m \in Pending
  BY DEF TypeOK, Pending, Goto, Delete
<1>6. /\ IsFiniteSet(Holders) /\ IsFiniteSet(Holders')
      /\ IsFiniteSet(Pending) /\ IsFiniteSet(Holders \ {from})
      /\ Cardinality(Holders) \in Nat /\ Cardinality(Holders') \in Nat
      /\ Cardinality(Pending) \in Nat /\ Cardinality(Holders \ {from}) \in Nat
  <2>1. IsFiniteSet(Holders') /\ IsFiniteSet(Holders \ {from})
    BY MigrationAssumption, FS_Subset DEF Holders
  <2> QED
    BY <2>1, Counted, FS_CardinalityType
<1>7. Cardinality(Pending') = Cardinality(Pending) - 1
  BY <1>5, <1>6, FS_RemoveElement
<1>8. Cardinality(Holders \ {from}) >= Cardinality(Holders) - 1
  <2>1. CASE from \in Holders
    BY <1>6, <2>1, FS_RemoveElement
  <2>2. CASE from \notin Holders
    <3>1. Cardinality(Holders \ {from}) = Cardinality(Holders)
      <4>1. Holders \ {from} = Holders
        BY <2>2
      <4> QED
        BY <4>1, Zenon
    <3> HIDE DEF from
    <3> QED
      BY <1>6, <3>1
  <2> QED
    BY <2>1, <2>2
<1>9. Cardinality(Holders \ {from}) <= Cardinality(Holders')
  BY <1>4, <1>6, FS_Subset
<1> QED
  BY <1>6, <1>7, <1>8, <1>9 DEF IInv, CountInv

\* There are more devices with the user than movers about to delete it, after
\* any step.
LEMMA StepCounts ==
  ASSUME TypeOK, IInv, [Next]_vars, ~MayOverwrite, ~GetsFail
  PROVE  CountInv'
<1>1. TypeOK'
  BY StepTyped
<1>2. ASSUME NEW m \in Movers, Read(m) \/ Refuse(m) \/ Again(m)
      PROVE  CountInv'
  <2>1. Holders' = Holders
    BY <1>2 DEF Holders, Read, Refuse, Again
  <2>2. Pending' \subseteq Pending
    BY <1>2 DEF TypeOK, Pending, Read, Refuse, Again, Goto
  <2>3. Cardinality(Pending') <= Cardinality(Pending)
          /\ Cardinality(Pending') \in Nat
    BY <2>2, Counted, FS_Subset, FS_CardinalityType
  <2> QED
    BY <2>1, <2>3, Counted DEF IInv, CountInv
<1>3. CASE Crash
  <2>1. Holders' = Holders /\ Pending' = {}
    BY <1>3 DEF Holders, Pending, Crash
  <2>2. Cardinality(Pending') = 0
    BY <2>1, FS_EmptySet
  <2>3. Cardinality(Holders) > 0
    BY Counted DEF IInv, CountInv
  <2> QED
    BY <2>1, <2>2, <2>3 DEF CountInv
<1>4. CASE UNCHANGED vars
  BY <1>4 DEF IInv, CountInv, Holders, Pending, vars, mover
<1> QED
  BY <1>1, <1>2, <1>3, <1>4, WriteCounts, DeleteCounts DEF Next, Move

\* There are more at first.
LEMMA InitCounts == Init => IInv
<1>1. SUFFICES ASSUME Init PROVE IInv
  OBVIOUS
<1>2. Pending = {} /\ Holders # {} /\ TypeOK
  BY <1>1, InitTyped DEF Init, Pending, Holders
<1>3. Cardinality(Pending) = 0
  BY <1>2, FS_EmptySet
<1>4. Cardinality(Holders) # 0
  BY <1>2, Counted, FS_EmptySet
<1>5. Cardinality(Holders) > Cardinality(Pending)
  BY <1>2, <1>3, <1>4, Counted
<1> QED
  BY <1>1, <1>5 DEF IInv, CountInv, CopyInv, Init

\* Without overwrite_target and with get calls that find who is there, moves
\* that interleave, fail half way and die never leave the user on no device.
THEOREM UserSurvives ==
  ASSUME ~MayOverwrite, ~GetsFail
  PROVE  Spec => []NeverLost
<1>1. Init => TypeOK /\ IInv
  BY InitTyped, InitCounts
<1>2. TypeOK /\ IInv /\ [Next]_vars => TypeOK' /\ IInv'
  BY StepTyped, StepCopy, StepCounts DEF IInv
<1>3. TypeOK /\ IInv => NeverLost
  <2>1. SUFFICES ASSUME TypeOK, IInv PROVE Holders # {}
    BY DEF NeverLost
  <2>2. Cardinality(Holders) > 0
    BY <2>1, Counted DEF IInv, CountInv
  <2> QED
    BY <2>2, FS_EmptySet
<1> QED
  BY <1>1, <1>2, <1>3, PTL DEF Spec

-----------------------------------------------------------------------------
(* One move at a time.                                                     *)

\* What a write does to a target: a failure keeps or replaces the profile, and a
\* success leaves what was read.
LEMMA WriteData ==
  ASSUME TypeOK, NEW m \in Movers, Write(m)
  PROVE  \E r \in Result :
           /\ entry'[req[m].to] = r.left
           /\ r.left.user \in {entry[req[m].to].user, copy[m].user}
           /\ r.ok => r.left.user = copy[m].user
           /\ r.ok /\ copy[m].face # None => r.left.face = copy[m].face
           /\ pc[m] = "write" /\ pc'[m] \in {"failed", "done", "delete"}
           /\ pc'[m] # "failed" => r.ok
           /\ \A d \in Devices \ {req[m].to} : entry'[d] = entry[d]
           /\ UNCHANGED <<req, copy>>
<1>1. req[m].to \in Devices /\ req[m].over \in BOOLEAN /\ copy[m] \in Entry
  BY DEF TypeOK, Request
<1>2. PICK r \in Writes(entry[req[m].to], copy[m], req[m].over) :
        /\ entry' = [entry EXCEPT ![req[m].to] = r.left]
        /\ Goto(m, IF ~r.ok THEN "failed"
                   ELSE IF req[m].keep THEN "done" ELSE "delete")
  BY DEF Write
<1>3. entry[req[m].to] \in Entry
  BY <1>1 DEF TypeOK
<1>4. /\ r \in Result
      /\ r.left.user \in {entry[req[m].to].user, copy[m].user}
      /\ r.ok => r.left.user = copy[m].user
      /\ r.ok /\ copy[m].face # None => r.left.face = copy[m].face
  BY <1>1, <1>2, <1>3, WritesTyped
<1>5. /\ entry'[req[m].to] = r.left
      /\ \A d \in Devices \ {req[m].to} : entry'[d] = entry[d]
  BY <1>1, <1>2 DEF TypeOK
<1>6. /\ pc[m] = "write" /\ pc'[m] \in {"failed", "done", "delete"}
      /\ pc'[m] # "failed" => r.ok
      /\ UNCHANGED <<req, copy>>
  <2>1. r.ok \in BOOLEAN
    BY <1>4 DEF Result
  <2> QED
    BY <1>2, <2>1 DEF TypeOK, Write, Goto
<1> QED
  BY <1>4, <1>5, <1>6

\* What a delete does to the source.
LEMMA DeleteData ==
  ASSUME TypeOK, NEW m \in Movers, Delete(m)
  PROVE  /\ pc[m] = "delete" /\ pc'[m] \in {"failed", "done"}
         /\ \A d \in Devices \ {req[m].from} : entry'[d] = entry[d]
         /\ UNCHANGED <<req, copy>>
  BY DEF TypeOK, Request, Delete, Goto

\* A read takes over what it finds, and finding nobody is a failure.
LEMMA ReadData ==
  ASSUME TypeOK, NEW m \in Movers, Read(m)
  PROVE  /\ req'[m].from # req'[m].to /\ UNCHANGED entry
         /\ pc'[m] \in {"failed", "write"}
         /\ pc'[m] = "write" =>
              copy'[m].user # None /\ copy'[m].user = entry[req'[m].from].user
<1>1. PICK q \in Request :
        /\ q.from # q.to
        /\ req' = [req EXCEPT ![m] = q]
        /\ \E u \in Got(entry[q.from].user), f \in Got(entry[q.from].face) :
             /\ copy' = [copy EXCEPT ![m] = [user |-> u, face |-> f]]
             /\ Goto(m, IF u = None THEN "failed" ELSE "write")
  BY DEF Read
<1>2. PICK u \in Got(entry[q.from].user), f \in Got(entry[q.from].face) :
        /\ copy' = [copy EXCEPT ![m] = [user |-> u, face |-> f]]
        /\ Goto(m, IF u = None THEN "failed" ELSE "write")
  BY <1>1
<1>3. req'[m] = q
  BY <1>1 DEF TypeOK
<1>4. copy'[m].user = u /\ pc'[m] = IF u = None THEN "failed" ELSE "write"
  BY <1>2 DEF TypeOK, Goto
<1>5. u \in {entry[q.from].user, None}
  BY <1>2, GotTyped
<1> QED
  BY <1>1, <1>3, <1>4, <1>5 DEF Read

\* The only move under way keeps what it has read in place.
LEMMA StepSolo ==
  ASSUME TypeOK, SoloInv, [Next]_vars, Alone
  PROVE  SoloInv'
<1>1. ASSUME NEW m \in Movers, Read(m)
      PROVE  SoloInv'
  BY <1>1, ReadData DEF SoloInv, Holders, Alone
<1>2. ASSUME NEW m \in Movers, Write(m)
      PROVE  SoloInv'
  <2>1. PICK r \in Result :
          /\ entry'[req[m].to] = r.left
          /\ r.left.user \in {entry[req[m].to].user, copy[m].user}
          /\ r.ok => r.left.user = copy[m].user
          /\ r.ok /\ copy[m].face # None => r.left.face = copy[m].face
          /\ pc[m] = "write" /\ pc'[m] \in {"failed", "done", "delete"}
          /\ pc'[m] # "failed" => r.ok
          /\ \A d \in Devices \ {req[m].to} : entry'[d] = entry[d]
          /\ UNCHANGED <<req, copy>>
    BY <1>2, WriteData
  <2>2. /\ req[m].from # req[m].to /\ req[m].from \in Devices
        /\ copy[m].user # None /\ entry[req[m].from].user = copy[m].user
    BY <2>1 DEF SoloInv, TypeOK, Request
  <2>3. entry'[req[m].from] = entry[req[m].from]
    BY <2>1, <2>2
  <2>4. Holders' # {}
    BY <2>2, <2>3 DEF Holders
  <2> QED
    BY <2>1, <2>2, <2>3, <2>4 DEF SoloInv, Alone
<1>3. ASSUME NEW m \in Movers, Delete(m)
      PROVE  SoloInv'
  <2>1. /\ req[m].from # req[m].to /\ req[m].to \in Devices
        /\ copy[m].user # None /\ entry[req[m].to].user = copy[m].user
        /\ copy[m].face # None => entry[req[m].to].face = copy[m].face
    BY <1>3, DeleteData DEF SoloInv, TypeOK, Request
  <2>2. entry'[req[m].to] = entry[req[m].to]
    BY <1>3, <2>1, DeleteData
  <2>3. Holders' # {}
    BY <2>1, <2>2 DEF Holders
  <2> QED
    BY <1>3, <2>1, <2>2, <2>3, DeleteData DEF SoloInv, Alone
<1>4. ASSUME NEW m \in Movers, Refuse(m) \/ Again(m)
      PROVE  SoloInv'
  <2>1. pc'[m] \in {"idle", "failed"} /\ UNCHANGED <<entry, req, copy>>
    BY <1>4 DEF TypeOK, Refuse, Again, Goto
  <2> QED
    BY <2>1 DEF SoloInv, Holders, Alone
<1>5. CASE Crash
  BY <1>5 DEF SoloInv, Holders, Crash
<1>6. CASE UNCHANGED vars
  BY <1>6 DEF SoloInv, Holders, vars, mover
<1> QED
  BY <1>1, <1>2, <1>3, <1>4, <1>5, <1>6 DEF Next, Move

\* It does so all along.
LEMMA AlwaysSolo ==
  ASSUME Alone
  PROVE  Spec => [](TypeOK /\ SoloInv)
<1>1. Init => TypeOK /\ SoloInv
  BY InitTyped DEF Init, SoloInv, Holders
<1>2. TypeOK /\ SoloInv /\ [Next]_vars => (TypeOK /\ SoloInv)'
  BY StepTyped, StepSolo
<1> QED
  BY <1>1, <1>2, PTL DEF Spec

\* One move at a time never loses the user, with every option and every failure:
\* also when it overwrites, when get calls miss a user who is there, and when it
\* dies half way.
THEOREM SoloSurvives ==
  ASSUME Alone
  PROVE  Spec => []NeverLost
<1>1. SoloInv => NeverLost
  BY DEF SoloInv, NeverLost
<1> QED
  BY <1>1, AlwaysSolo, PTL

\* One move at a time that reports success has put on the target the profile and
\* the face that it read, whichever calls before the last one went wrong.
THEOREM SoloArrives ==
  ASSUME Alone
  PROVE  Spec => []ArrivesAsRead
<1>1. SoloInv => ArrivesAsRead
  BY DEF SoloInv, ArrivesAsRead
<1> QED
  BY <1>1, AlwaysSolo, PTL

\* One move at a time deletes a profile only when another device has the same one,
\* also when get calls miss it.
THEOREM SoloDeletesCopied ==
  ASSUME Alone
  PROVE  Spec => DeletesOnlyCopied
<1>1. ASSUME TypeOK, SoloInv, Next, NEW d \in Devices,
             entry[d].user # None, entry'[d].user = None
      PROVE  \E o \in Devices : entry'[o].user = entry[d].user
  <2>1. CASE \E m \in Movers : Write(m)
    <3>1. PICK m \in Movers : Write(m)
      BY <2>1
    <3>2. PICK r \in Result :
            /\ entry'[req[m].to] = r.left
            /\ r.left.user \in {entry[req[m].to].user, copy[m].user}
            /\ pc[m] = "write"
            /\ \A e \in Devices \ {req[m].to} : entry'[e] = entry[e]
      BY <1>1, <3>1, WriteData
    <3>3. copy[m].user # None
      BY <1>1, <3>2 DEF SoloInv
    <3> QED
      BY <1>1, <3>2, <3>3
  <2>2. CASE \E m \in Movers : Delete(m)
    <3>1. PICK m \in Movers : Delete(m)
      BY <2>2
    <3>2. /\ pc[m] = "delete"
          /\ \A e \in Devices \ {req[m].from} : entry'[e] = entry[e]
      BY <1>1, <3>1, DeleteData
    <3>3. /\ req[m].from # req[m].to /\ req[m].to \in Devices
          /\ entry[req[m].from].user = copy[m].user
          /\ entry[req[m].to].user = copy[m].user
      BY <1>1, <3>2 DEF SoloInv, TypeOK, Request
    <3>4. d = req[m].from
      BY <1>1, <3>2
    <3> QED
      BY <3>2, <3>3, <3>4
  <2>3. CASE ~(\E m \in Movers : Write(m) \/ Delete(m))
    <3>1. UNCHANGED entry
      BY <1>1, <2>3 DEF Next, Move, Read, Refuse, Again, Crash
    <3> QED
      BY <1>1, <3>1
  <2> QED
    BY <2>1, <2>2, <2>3
<1>2. (TypeOK /\ SoloInv) /\ [Next]_vars =>
        [\A d \in Devices :
           entry[d].user # None /\ entry'[d].user = None
             => \E o \in Devices : entry'[o].user = entry[d].user]_vars
  BY <1>1
<1> QED
  BY <1>2, AlwaysSolo, PTL DEF Spec, DeletesOnlyCopied
=============================================================================
