------------------------- MODULE DahuaClientProofs -------------------------
(***************************************************************************)
(* What the calls of the device client can leave and report.               *)
(***************************************************************************)
EXTENDS DahuaClient, TLAPS

\* A result is an entry and a flag.
Result == [left: Entry, ok: BOOLEAN]

\* A call leaves the device as it was or as it should be.
LEMMA OutcomesTyped ==
  ASSUME NEW e \in Entry, NEW done \in Entry
  PROVE  /\ Outcomes(e, done) \subseteq Result
         /\ \A r \in Outcomes(e, done) :
              r.left \in {e, done} /\ (r.ok => r.left = done)
<1>1. SUFFICES ASSUME NEW r \in Outcomes(e, done)
               PROVE  r \in Result /\ r.left \in {e, done}
                        /\ (r.ok => r.left = done)
  OBVIOUS
<1>2. \/ r = [left |-> done, ok |-> TRUE]
      \/ r = [left |-> e, ok |-> FALSE]
      \/ r = [left |-> done, ok |-> FALSE]
  BY DEF Outcomes
<1>3. CASE r = [left |-> done, ok |-> TRUE]
  BY <1>3 DEF Result
<1>4. CASE r = [left |-> e, ok |-> FALSE]
  BY <1>4 DEF Result
<1>5. CASE r = [left |-> done, ok |-> FALSE]
  BY <1>5 DEF Result
<1> QED
  BY <1>2, <1>3, <1>4, <1>5

\* A read finds what is there or nothing.
LEMMA GotTyped ==
  ASSUME NEW v
  PROVE  \A u \in Got(v) : u \in {v, None}
  BY DEF Got

\* A new photo leaves the profile alone, and is there if the calls report
\* success.
LEMMA NewFaceTyped ==
  ASSUME NEW e \in Entry, NEW f \in Faces, NEW found,
         NEW r \in NewFace(e, f, found)
  PROVE  /\ r \in Result /\ r.left.user = e.user
         /\ r.left.face \in {e.face, None, f}
         /\ r.ok => r.left.face = f
<1> DEFINE kept == IF found # None THEN RemoveFace(e)
                                 ELSE {[left |-> e, ok |-> TRUE]}
<1>1. PICK s \in kept : r \in InsertFace(s.left, f)
  BY DEF NewFace
<1>2. s.left \in Entry /\ s.left.user = e.user /\ s.left.face \in {e.face, None}
  <2>1. [user |-> e.user, face |-> None] \in Entry
    BY DEF Entry
  <2>2. CASE found # None
    <3>1. s \in Outcomes(e, [user |-> e.user, face |-> None])
      BY <1>1, <2>2 DEF RemoveFace
    <3>2. s.left \in {e, [user |-> e.user, face |-> None]}
      BY <2>1, <3>1, OutcomesTyped
    <3> QED
      BY <2>1, <3>2 DEF Entry
  <2>3. CASE found = None
    BY <1>1, <2>3
  <2> QED
    BY <2>2, <2>3
<1>3. [user |-> s.left.user, face |-> f] \in Entry
  BY <1>2 DEF Entry
<1>4. r \in Outcomes(s.left, [user |-> s.left.user, face |-> f])
  BY <1>1 DEF InsertFace
<1>5. r \in Result /\ r.left \in {s.left, [user |-> s.left.user, face |-> f]}
        /\ (r.ok => r.left = [user |-> s.left.user, face |-> f])
  BY <1>2, <1>3, <1>4, OutcomesTyped
<1> QED
  BY <1>2, <1>3, <1>5

\* A delete takes away the profile, the photo, both or neither.
LEMMA DeletesTyped ==
  ASSUME NEW e \in Entry, NEW r \in Deletes(e)
  PROVE  /\ r \in Result
         /\ r.left.user \in {e.user, None} /\ r.left.face \in {e.face, None}
<1>1. PICK s \in RemoveFace(e) : r \in RemoveUser(s.left)
  BY DEF Deletes
<1>2. [user |-> e.user, face |-> None] \in Entry
  BY DEF Entry
<1>3. s.left \in Entry /\ s.left \in {e, [user |-> e.user, face |-> None]}
  BY <1>1, <1>2, OutcomesTyped DEF RemoveFace, Result
<1>4. [user |-> None, face |-> s.left.face] \in Entry
  BY <1>3 DEF Entry
<1>5. r \in Result /\ r.left \in {s.left, [user |-> None, face |-> s.left.face]}
  BY <1>1, <1>3, <1>4, OutcomesTyped DEF RemoveUser
<1>6. s.left.user = e.user /\ s.left.face \in {e.face, None}
  BY <1>2, <1>3 DEF Entry
<1> QED
  BY <1>3, <1>4, <1>5, <1>6 DEF Entry
=============================================================================
