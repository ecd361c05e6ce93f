-------------------------- MODULE BulkEnrollProofs --------------------------
(***************************************************************************)
(* For any user ids, photos, files and any number of other requests: photos*)
(* stay with their people, the report of a file is true of the device, and *)
(* a file job is a job.                                                    *)
(***************************************************************************)
EXTENDS BulkEnroll, DahuaClientProofs

-----------------------------------------------------------------------------
(* What can come of a request.                                             *)

\* Enrolling one person leaves the device typed, and photo and profile together
\* unless it was to overwrite and failed.
LEMMA EnrollsTyped ==
  ASSUME NEW e \in Entry, NEW f \in Faces, NEW o \in BOOLEAN,
         NEW r \in Enrolls(e, f, o)
  PROVE  /\ r.left \in Entry
         /\ ~GetsFail /\ Matches(e) => (o /\ ~r.ok) \/ Matches(r.left)
<1>1. PICK u \in Got(e.user) :
        r \in IF u # None /\ ~o THEN {[left |-> e, ok |-> FALSE]}
                                ELSE Enrolled(e, f, u)
  BY DEF Enrolls
<1>2. CASE u # None /\ ~o
  <2>1. r = [left |-> e, ok |-> FALSE]
    BY <1>1, <1>2
  <2> QED
    BY <2>1
<1>3. CASE ~(u # None /\ ~o)
  <2> DEFINE put == [user |-> Owner[f], face |-> e.face]
             inserted == InsertUser(e, Owner[f])
  <2>1. Owner[f] \in Profiles
    BY UsersAssumption
  <2>2. put \in Entry /\ put.user = Owner[f] /\ put.face = e.face
    BY <2>1 DEF Entry
  <2>3. ASSUME NEW i \in inserted
        PROVE  i \in Result /\ i.left \in {e, put} /\ (i.ok => i.left = put)
    BY <2>2, OutcomesTyped DEF InsertUser
  <2>4. r \in {i \in inserted : ~i.ok}
            \cup UNION {NewFace(i.left, f, u) : i \in {k \in inserted : k.ok}}
    BY <1>1, <1>3 DEF Enrolled
  <2>5. ~GetsFail /\ Matches(e) /\ ~o => e.user = None /\ e.face = None
    <3>1. ~GetsFail => u = e.user
      BY <1>1 DEF Got
    <3>2. Matches(e) /\ e.user = None => e.face = None
      BY UsersAssumption, ClientAssumption DEF Matches, Entry
    <3> QED
      BY <1>3, <3>1, <3>2
  <2>6. CASE r \in inserted /\ ~r.ok
    <3>1. r.left \in {e, put}
      BY <2>3, <2>6
    <3> QED
      BY <2>2, <2>5, <2>6, <3>1 DEF Matches
  <2>7. CASE \E i \in inserted : i.ok /\ r \in NewFace(i.left, f, u)
    <3>1. PICK i \in inserted : i.ok /\ r \in NewFace(i.left, f, u)
      BY <2>7
    <3>2. i.left = put
      BY <2>3, <3>1
    <3>3. /\ r \in Result /\ r.left.user = Owner[f]
          /\ r.left.face \in {e.face, None, f}
          /\ r.ok => r.left.face = f
      BY <2>2, <3>1, <3>2, NewFaceTyped
    <3> QED
      BY <2>5, <3>3 DEF Matches, Result
  <2> QED
    BY <2>4, <2>6, <2>7
<1> QED
  BY <1>2, <1>3

\* The verdict on a row is one of the checks.
LEMMA VerdictTyped ==
  ASSUME NEW row
  PROVE  Verdict(row) \in {Checks[n] : n \in 1..Len(Checks)} \cup {"OK"}
<1> DEFINE failed == {n \in 1..Len(Checks) : Checks[n] \in row.flaws}
<1>1. 1..Len(Checks) = {1, 2, 3, 4, 5}
  BY DEF Checks
<1>2. failed # {} => \E n \in failed : \A k \in failed : n <= k
  <2>1. failed \subseteq {1, 2, 3, 4, 5}
    BY <1>1
  <2> HIDE DEF failed
  <2>2. \A k \in failed : k \in {1, 2, 3, 4, 5}
    BY <2>1
  <2>3. CASE 1 \in failed
    BY <2>2, <2>3
  <2>4. CASE 1 \notin failed /\ 2 \in failed
    BY <2>2, <2>4
  <2>5. CASE 1 \notin failed /\ 2 \notin failed /\ 3 \in failed
    BY <2>2, <2>5
  <2>6. CASE 1 \notin failed /\ 2 \notin failed /\ 3 \notin failed /\ 4 \in failed
    BY <2>2, <2>6
  <2>7. CASE \A k \in failed : k = 5
    BY <2>7
  <2> QED
    BY <2>2, <2>3, <2>4, <2>5, <2>6, <2>7
<1>3. failed # {} => (CHOOSE n \in failed : \A k \in failed : n <= k) \in 1..Len(Checks)
  BY <1>2
<1> HIDE DEF failed
<1>4. CASE failed = {}
  BY <1>4 DEF Verdict, failed
<1>5. CASE failed # {}
  <2>1. Verdict(row) = Checks[CHOOSE n \in failed : \A k \in failed : n <= k]
    BY <1>5 DEF Verdict, failed
  <2> QED
    BY <1>3, <1>5, <2>1
<1> QED
  BY <1>4, <1>5

\* What a row leaves and reports.
RowFacts(e, row, o, left, says) ==
  /\ left \in Entry /\ left.face = e.face
  /\ says \in Said
  /\ says \in {"created", "overwritten"} => left.user = row.profile
  /\ says = "insert_user failed" => left.user \in {e.user, row.profile}
  /\ says \notin {"created", "overwritten", "insert_user failed"} => left = e
  /\ ~GetsFail /\ ~o /\ e.user # None => left = e

LEMMA RowTyped ==
  ASSUME NEW e \in Entry, NEW row \in Row, NEW o \in BOOLEAN,
         NEW r \in EnrollsRow(e, row, o)
  PROVE  RowFacts(e, row, o, r.left, r.says)
<1>1. {Checks[n] : n \in 1..Len(Checks)} \subseteq
        {"user_id is missing", "name is missing", "invalid user_id",
         "name too long", "must be integers"}
  <2>1. 1..Len(Checks) = {1, 2, 3, 4, 5}
    BY DEF Checks
  <2>2. /\ Checks[1] = "user_id is missing" /\ Checks[2] = "name is missing"
        /\ Checks[3] = "invalid user_id" /\ Checks[4] = "name too long"
        /\ Checks[5] = "must be integers"
    BY DEF Checks
  <2> QED
    BY <2>1, <2>2
<1>2. CASE Verdict(row) # "OK"
  <2>1. r = [left |-> e, says |-> Verdict(row)]
    BY <1>2 DEF EnrollsRow
  <2>2. Verdict(row) \in {Checks[n] : n \in 1..Len(Checks)}
    BY <1>2, VerdictTyped
  <2>3. Verdict(row) \in Said
    BY <2>2 DEF Said
  <2>4. Verdict(row) \notin {"created", "overwritten", "insert_user failed"}
    BY <1>1, <2>2
  <2>5. r.left = e /\ r.says = Verdict(row)
    BY <2>1
  <2> QED
    BY <2>3, <2>4, <2>5, VerdictTyped DEF RowFacts
<1>3. CASE Verdict(row) = "OK" /\ "too many bytes" \in row.flaws
  <2>1. r = [left |-> e, says |-> "error"]
    BY <1>3 DEF EnrollsRow
  <2> QED
    BY <1>1, <1>3, <2>1, VerdictTyped DEF RowFacts, Said
<1>4. CASE Verdict(row) = "OK" /\ "too many bytes" \notin row.flaws
  <2>1. PICK u \in Got(e.user) :
          r \in IF u # None /\ ~o THEN {[left |-> e, says |-> "already exists"]}
                ELSE IF "no such date" \in row.flaws
                     THEN {[left |-> e, says |-> "error"]}
                ELSE {[left |-> i.left, says |-> IF ~i.ok THEN "insert_user failed"
                                                 ELSE IF u # None THEN "overwritten"
                                                 ELSE "created"] :
                        i \in InsertUser(e, row.profile)}
    BY <1>4 DEF EnrollsRow
  <2>2. CASE u # None /\ ~o
    <3>1. r = [left |-> e, says |-> "already exists"]
      BY <2>1, <2>2
    <3> QED
      BY <1>1, <1>4, <3>1, VerdictTyped DEF RowFacts, Said
  <2>3. CASE ~(u # None /\ ~o) /\ "no such date" \in row.flaws
    <3>1. r = [left |-> e, says |-> "error"]
      BY <2>1, <2>3
    <3> QED
      BY <1>1, <1>4, <3>1, VerdictTyped DEF RowFacts, Said
  <2>4. CASE ~(u # None /\ ~o) /\ "no such date" \notin row.flaws
    <3> DEFINE put == [user |-> row.profile, face |-> e.face]
    <3>1. PICK i \in InsertUser(e, row.profile) :
            r = [left |-> i.left, says |-> IF ~i.ok THEN "insert_user failed"
                                           ELSE IF u # None THEN "overwritten"
                                           ELSE "created"]
      BY <2>1, <2>4
    <3>2. put \in Entry /\ put.user = row.profile /\ put.face = e.face
      BY DEF Entry, Row
    <3>3. i.left \in {e, put} /\ (i.ok => i.left = put)
      <4>1. i \in Outcomes(e, put)
        BY <3>1 DEF InsertUser
      <4> HIDE DEF put
      <4> QED
        BY <3>2, <4>1, OutcomesTyped
    <3>4. r.left = i.left
            /\ r.says \in {"insert_user failed", "overwritten", "created"}
            /\ (r.says # "insert_user failed" => i.ok)
      BY <3>1
    <3>5. ~GetsFail /\ ~o => e.user = None
      BY <2>1, <2>4 DEF Got
    <3> HIDE DEF put
    <3> QED
      BY <1>1, <1>4, <3>2, <3>3, <3>4, <3>5, VerdictTyped DEF RowFacts, Said
  <2> QED
    BY <2>2, <2>3, <2>4
<1> QED
  BY <1>2, <1>3, <1>4

-----------------------------------------------------------------------------
(* Steps.                                                                  *)

\* Nothing has been reported when the runner starts.
Fresh == at \in {"none", "start"} => results = <<>>

\* A row that is worked on: what it leaves is under its id, what is said of it is
\* at the end of the report.
RowStepFacts(row, left, says) ==
  /\ RowFacts(users[row.id], row, over, left, says)
  /\ users' = [users EXCEPT ![row.id] = left]
  /\ results' = Append(results, says)
  /\ doubtful \subseteq doubtful' /\ doubtful' \subseteq doubtful \cup {row.id}
  /\ row.id \notin doubtful' =>
       \/ left = users[row.id]
       \/ ~over /\ (left.user # None \/ left.face = None)

LEMMA RowStep ==
  ASSUME BulkTypeOK, EnrollRow, NEW row, row = file[Len(results) + 1]
  PROVE  /\ Len(results) \in Nat /\ Len(results) + 1 \in 1..Len(file) /\ row \in Row
         /\ \E left, says : RowStepFacts(row, left, says)
<1>1. Len(results) \in Nat /\ Len(results) + 1 \in 1..Len(file) /\ row \in Row
  <2>1. /\ file \in Seq(Row) /\ results \in Seq(Said)
        /\ Len(results) < Len(file)
    BY DEF BulkTypeOK, EnrollRow
  <2>2. /\ Len(results) \in Nat /\ Len(file) \in Nat
        /\ \A n \in 1..Len(file) : file[n] \in Row
    BY <2>1
  <2>3. Len(results) + 1 \in 1..Len(file)
    BY <2>1, <2>2
  <2> QED
    BY <2>2, <2>3
<1>2. users[row.id] \in Entry /\ row.id \in Ids
  BY <1>1 DEF BulkTypeOK, UsersTypeOK, Row
<1>3. over \in BOOLEAN /\ users \in [Ids -> Entry]
  BY DEF BulkTypeOK, UsersTypeOK
<1>4. CASE results' = Append(results, "pool error") /\ UNCHANGED usersVars
  <2>1. RowFacts(users[row.id], row, over, users[row.id], "pool error")
    BY <1>2 DEF RowFacts, Said
  <2>2. users' = [users EXCEPT ![row.id] = users[row.id]] /\ doubtful' = doubtful
    BY <1>2, <1>3, <1>4 DEF usersVars
  <2>3. RowStepFacts(row, users[row.id], "pool error")
    BY <1>4, <2>1, <2>2 DEF RowStepFacts
  <2> QED
    BY <1>1, <2>3
<1>5. CASE \E r \in EnrollsRow(users[row.id], row, over) :
             Leave(row.id, r, over) /\ results' = Append(results, r.says)
  <2>1. PICK r \in EnrollsRow(users[row.id], row, over) :
          Leave(row.id, r, over) /\ results' = Append(results, r.says)
    BY <1>5
  <2>2. RowFacts(users[row.id], row, over, r.left, r.says)
    BY <1>1, <1>2, <1>3, RowTyped
  <2>3. RowStepFacts(row, r.left, r.says)
    BY <2>1, <2>2 DEF RowStepFacts, Leave
  <2> QED
    BY <1>1, <2>3
<1> QED
  BY <1>1, <1>4, <1>5 DEF EnrollRow

\* Another request leaves an entry under one id, with photo and profile together
\* unless it says otherwise.
LEMMA OtherStep ==
  ASSUME BulkTypeOK, Other
  PROVE  /\ UNCHANGED <<job, before>> /\ requests' \in Nat
         /\ \E id \in Ids, left \in Entry :
              /\ touched' = touched \cup {id}
              /\ users' = [users EXCEPT ![id] = left]
              /\ doubtful \subseteq doubtful' /\ doubtful' \subseteq doubtful \cup {id}
              /\ ~GetsFail /\ id \notin doubtful' /\ Matches(users[id]) => Matches(left)
<1>1. requests' \in Nat /\ UNCHANGED <<job, before>>
  BY DEF Other, BulkTypeOK
<1>2. PICK id \in Ids : (EnrollUser(id) \/ DeleteUser(id)) /\ touched' = touched \cup {id}
  BY DEF Other
<1>3. users[id] \in Entry
  BY DEF BulkTypeOK, UsersTypeOK
<1> DEFINE Left(left) ==
      /\ left \in Entry
      /\ users' = [users EXCEPT ![id] = left]
      /\ doubtful \subseteq doubtful' /\ doubtful' \subseteq doubtful \cup {id}
      /\ ~GetsFail /\ id \notin doubtful' /\ Matches(users[id]) => Matches(left)
<1>4. CASE EnrollUser(id)
  <2>0. PICK f \in Faces, o \in BOOLEAN :
          \E r \in Enrolls(users[id], f, o) : Leave(id, r, o /\ ~r.ok)
    BY <1>4 DEF EnrollUser
  <2>1. PICK r \in Enrolls(users[id], f, o) : Leave(id, r, o /\ ~r.ok)
    BY <2>0
  <2>2. /\ r.left \in Entry
        /\ ~GetsFail /\ Matches(users[id]) => (o /\ ~r.ok) \/ Matches(r.left)
    BY <1>3, EnrollsTyped
  <2>3. Left(r.left)
    BY <2>1, <2>2 DEF Leave
  <2> QED
    BY <1>1, <1>2, <2>3
<1>5. CASE DeleteUser(id)
  <2>1. PICK r \in Deletes(users[id]) : Leave(id, r, FALSE)
    BY <1>5 DEF DeleteUser
  <2>2. /\ r.left \in Entry
        /\ r.left.user \in {users[id].user, None} /\ r.left.face \in {users[id].face, None}
    BY <1>3, DeletesTyped DEF Result
  <2>3. Left(r.left)
    BY <2>1, <2>2 DEF Leave, Matches
  <2> QED
    BY <1>1, <1>2, <2>3
<1> QED
  BY <1>2, <1>4, <1>5

-----------------------------------------------------------------------------
(* Types.                                                                  *)

TypeInv == BulkTypeOK /\ Fresh

\* Where the runner goes when n rows are done is where it can be then.
LEMMA AheadTyped ==
  ASSUME NEW n
  PROVE  /\ Ahead(n) \in {"finish", "progress", "row"}
         /\ Ahead(n) \in {"progress", "row"} => n # Len(file)
  BY DEF Ahead

LEMMA InitTyped == BulkInit => TypeInv
<1> SUFFICES ASSUME BulkInit PROVE TypeInv
  OBVIOUS
<1>1. users \in [Ids -> Entry] /\ doubtful = {} /\ before = users
  BY DEF BulkInit, UsersInit
<1>2. <<>> \in Seq(Row) /\ <<>> \in Seq(Said) /\ Len(<<>>) = 0
  OBVIOUS
<1>3. /\ status = "none" /\ at = "none" /\ file = <<>> /\ over = FALSE
      /\ results = <<>> /\ touched = {} /\ requests = 0
  BY DEF BulkInit
<1>4. /\ file \in Seq(Row) /\ results \in Seq(Said)
      /\ Len(results) = 0 /\ Len(file) = 0
  BY <1>2, <1>3
<1>5. UsersTypeOK /\ before \in [Ids -> Entry] /\ touched \subseteq Ids
  BY <1>1, <1>3 DEF UsersTypeOK
<1>6. /\ status \in {"none", "queued", "running", "done", "failed"}
      /\ at \in {"none", "rejected", "refused", "returned", "raised", "lost"} \cup Live
      /\ over \in BOOLEAN /\ at \notin {"progress", "row"} /\ requests \in Nat
  BY <1>3
<1>7. Len(results) <= Len(file)
  BY <1>4
<1> QED
  BY <1>3, <1>4, <1>5, <1>6, <1>7 DEF TypeInv, Fresh, BulkTypeOK

LEMMA NextTyped == TypeInv /\ [BulkNext]_bulkVars => TypeInv'
<1> SUFFICES ASSUME TypeInv, [BulkNext]_bulkVars PROVE TypeInv'
  OBVIOUS
<1>1. /\ UsersTypeOK /\ Fresh
      /\ status \in {"none", "queued", "running", "done", "failed"}
      /\ at \in {"none", "rejected", "refused", "returned", "raised", "lost"} \cup Live
      /\ file \in Seq(Row) /\ over \in BOOLEAN
      /\ results \in Seq(Said) /\ Len(results) <= Len(file)
      /\ at \in {"progress", "row"} => Len(results) < Len(file)
      /\ before \in [Ids -> Entry] /\ touched \subseteq Ids /\ requests \in Nat
  BY DEF TypeInv, BulkTypeOK
<1>2. Len(results) \in Nat /\ Len(file) \in Nat
  BY <1>1
<1>3. CASE Submit
  <2>1. /\ file' \in Files /\ over' \in BOOLEAN /\ results = <<>> /\ results' = results
        /\ before' = users /\ touched' = {} /\ requests' = requests
        /\ UNCHANGED <<users, doubtful>>
    BY <1>1, <1>3 DEF Submit, Fresh, usersVars
  <2>2. file' \in Seq(Row)
    BY <2>1, BulkEnrollAssumption
  <2>3. Len(results') = 0 /\ Len(file') \in Nat
    BY <2>1, <2>2
  <2>4. /\ status' \in {"none", "queued", "running", "done", "failed"}
        /\ at' \in {"start", "refused", "rejected"}
    BY <1>1, <1>3 DEF Submit, Put
  <2>5. users' \in [Ids -> Entry] /\ doubtful' \subseteq Ids /\ before' \in [Ids -> Entry]
    BY <1>1, <2>1 DEF UsersTypeOK
  <2>6. results' \in Seq(Said) /\ Len(results') <= Len(file') /\ touched' \subseteq Ids
        /\ requests' \in Nat
    BY <1>1, <2>1, <2>3
  <2> QED
    BY <2>1, <2>2, <2>4, <2>5, <2>6 DEF TypeInv, Fresh, BulkTypeOK, UsersTypeOK, Live
<1>4. CASE Start \/ Progress \/ Finish \/ Fail \/ Crash \/ UNCHANGED bulkVars
  <2>1. UNCHANGED <<users, doubtful, file, over, results, before, touched, requests>>
    BY <1>4 DEF Start, Progress, Finish, Fail, Crash, bulkVars, usersVars, job, history
  <2>2. status' \in {"none", "queued", "running", "done", "failed"}
    BY <1>1, <1>4 DEF Start, Progress, Finish, Fail, Crash, bulkVars, job, Put
  <2>3. /\ at' \in {"none", "rejected", "refused", "returned", "raised", "lost"} \cup Live
        /\ at' \in {"none", "start"} => at' = at
        /\ at' \in {"progress", "row"} => Len(results) < Len(file)
    <3>1. CASE Start
      <4>1. at' \in {Ahead(0), "raised"} /\ Len(results) = 0
        BY <1>1, <3>1 DEF Start, Put, Fresh
      <4>2. Ahead(0) \in {"finish", "progress", "row"}
            /\ (Ahead(0) \in {"progress", "row"} => 0 # Len(file))
        BY AheadTyped
      <4> QED
        BY <1>2, <4>1, <4>2 DEF Live
    <3>2. CASE Progress
      BY <1>1, <3>2 DEF Progress, Live
    <3>3. CASE Finish \/ Fail \/ Crash
      BY <3>3 DEF Finish, Fail, Crash, Put, Live
    <3>4. CASE UNCHANGED bulkVars
      BY <1>1, <3>4 DEF bulkVars, job
    <3> QED
      BY <1>4, <3>1, <3>2, <3>3, <3>4
  <2> QED
    BY <1>1, <2>1, <2>2, <2>3 DEF TypeInv, Fresh, BulkTypeOK, UsersTypeOK
<1>5. CASE EnrollRow
  <2> DEFINE row == file[Len(results) + 1]
  <2>1. /\ Len(results) + 1 \in 1..Len(file) /\ row \in Row
        /\ \E left, says : RowStepFacts(row, left, says)
    BY <1>5, RowStep DEF TypeInv
  <2>2. PICK left, says : RowStepFacts(row, left, says)
    BY <2>1
  <2>3. row.id \in Ids /\ left \in Entry /\ says \in Said
    BY <2>1, <2>2 DEF RowStepFacts, RowFacts, Row
  <2>4. users' \in [Ids -> Entry] /\ doubtful' \subseteq Ids
    BY <1>1, <2>2, <2>3 DEF RowStepFacts, UsersTypeOK
  <2>5. results' \in Seq(Said) /\ Len(results') = Len(results) + 1
    BY <1>1, <2>2, <2>3 DEF RowStepFacts
  <2>6. /\ UNCHANGED <<status, file, over, before, touched, requests>>
        /\ at' = Ahead(Len(results'))
    BY <1>5 DEF EnrollRow, history
  <2>7. at' \in {"finish", "progress", "row"}
        /\ (at' \in {"progress", "row"} => Len(results') # Len(file))
    BY <2>6, AheadTyped
  <2>8. Len(results') <= Len(file) /\ (Len(results') # Len(file) => Len(results') < Len(file))
    BY <1>2, <2>1, <2>5
  <2> QED
    BY <1>1, <2>4, <2>5, <2>6, <2>7, <2>8 DEF TypeInv, Fresh, BulkTypeOK, UsersTypeOK, Live
<1>6. CASE Other
  <2>1. UNCHANGED <<status, at, file, over, results, before>> /\ requests' \in Nat
    BY <1>6, OtherStep DEF TypeInv, job
  <2>2. touched' \subseteq Ids /\ users' \in [Ids -> Entry] /\ doubtful' \subseteq Ids
    BY <1>1, <1>6, OtherStep DEF TypeInv, UsersTypeOK
  <2> QED
    BY <1>1, <2>1, <2>2 DEF TypeInv, Fresh, BulkTypeOK, UsersTypeOK
<1> QED
  BY <1>3, <1>4, <1>5, <1>6 DEF BulkNext, Runner

LEMMA AlwaysTyped == BulkSpec => []TypeInv
<1>1. BulkInit => TypeInv
  BY InitTyped
<1>2. TypeInv /\ [BulkNext]_bulkVars => TypeInv'
  BY NextTyped
<1> QED
  BY <1>1, <1>2, PTL DEF BulkSpec

\* BulkTypeOK holds of any file on any device: in particular the runner never asks
\* for a row that is not there, and reports each row once.
THEOREM BulkTypeCorrect == BulkSpec => []BulkTypeOK
<1>1. TypeInv => BulkTypeOK
  BY DEF TypeInv
<1> QED
  BY <1>1, AlwaysTyped, PTL

-----------------------------------------------------------------------------
(* Photos and people.                                                      *)

LEMMA FacesStay ==
  ASSUME ~GetsFail
  PROVE  TypeInv /\ UsersInv /\ [BulkNext]_bulkVars => UsersInv'
<1> SUFFICES ASSUME TypeInv, UsersInv, [BulkNext]_bulkVars PROVE UsersInv'
  OBVIOUS
<1>1. users \in [Ids -> Entry]
  BY DEF TypeInv, BulkTypeOK, UsersTypeOK
<1>2. CASE UNCHANGED <<users, doubtful>>
  BY <1>2 DEF UsersInv, Matches
<1>3. CASE EnrollRow
  <2> DEFINE row == file[Len(results) + 1]
  <2>1. row \in Row /\ \E left, says : RowStepFacts(row, left, says)
    BY <1>3, RowStep DEF TypeInv
  <2>2. PICK left, says : RowStepFacts(row, left, says)
    BY <2>1
  <2> HIDE DEF row
  <2>3. row.id \in Ids
    BY <2>1 DEF Row
  <2>4. /\ users' = [users EXCEPT ![row.id] = left] /\ doubtful \subseteq doubtful'
        /\ RowFacts(users[row.id], row, over, left, says)
        /\ row.id \notin doubtful' =>
             left = users[row.id] \/ (~over /\ (left.user # None \/ left.face = None))
    BY <2>2 DEF RowStepFacts
  <2>5. ASSUME row.id \notin doubtful' PROVE Matches(left)
    <3>1. Matches(users[row.id])
      BY <2>3, <2>4, <2>5 DEF UsersInv
    <3>2. CASE left = users[row.id]
      BY <3>1, <3>2
    <3>3. CASE ~over /\ users[row.id].user # None
      BY <2>4, <3>1, <3>3 DEF RowFacts
    <3>4. CASE ~over /\ users[row.id].user = None
      <4>1. users[row.id].face = None
        <5>1. users[row.id].face \in Faces \cup {None}
          BY <1>1, <2>3 DEF Entry
        <5>2. users[row.id].face \in Faces => Owner[users[row.id].face] # None
          BY UsersAssumption, ClientAssumption
        <5> QED
          BY <3>1, <3>4, <5>1, <5>2 DEF Matches
      <4> QED
        BY <2>4, <4>1 DEF RowFacts, Matches
    <3> QED
      BY <2>4, <2>5, <3>2, <3>3, <3>4
  <2>6. ASSUME NEW id \in Ids \ doubtful' PROVE Matches(users'[id])
    <3>1. CASE id = row.id
      BY <1>1, <2>3, <2>4, <2>5, <2>6, <3>1
    <3>2. CASE id # row.id
      BY <1>1, <2>4, <2>6, <3>2 DEF UsersInv
    <3> QED
      BY <3>1, <3>2
  <2> QED
    BY <2>6 DEF UsersInv, Matches
<1>4. CASE Other
  <2>1. PICK id \in Ids, left \in Entry :
          /\ users' = [users EXCEPT ![id] = left]
          /\ doubtful \subseteq doubtful'
          /\ ~GetsFail /\ id \notin doubtful' /\ Matches(users[id]) => Matches(left)
    BY <1>4, OtherStep DEF TypeInv
  <2>2. ASSUME NEW k \in Ids \ doubtful' PROVE Matches(users'[k])
    <3>1. Matches(users[k])
      BY <2>1, <2>2 DEF UsersInv
    <3> QED
      BY <1>1, <2>1, <2>2, <3>1
  <2> QED
    BY <2>2 DEF UsersInv, Matches
<1> QED
  BY <1>2, <1>3, <1>4
  DEF BulkNext, Runner, Submit, Start, Progress, Finish, Fail, Crash, bulkVars, usersVars

\* Nobody's photo comes to be with the profile of somebody else, while get_user
\* calls do not fail: enrolled one at a time or from a file, deleted, in any order
\* and with any insert or remove call failing.  The invariant also says that there
\* is no photo without a profile for the next person to inherit.
THEOREM FaceStaysWithPerson ==
  ASSUME ~GetsFail
  PROVE  BulkSpec => []FaceBelongs
<1>1. BulkInit => UsersInv
  BY DEF BulkInit, UsersInit, UsersInv
<1>2. TypeInv /\ UsersInv /\ [BulkNext]_bulkVars => UsersInv'
  BY FacesStay
<1>3. UsersInv => FaceBelongs
  BY DEF UsersInv, FaceBelongs
<1> QED
  BY <1>1, <1>2, <1>3, AlwaysTyped, PTL DEF BulkSpec

-----------------------------------------------------------------------------
(* Users who are there.                                                    *)

LEMMA ExistingStay ==
  ASSUME ~GetsFail
  PROVE  TypeInv /\ KeepsExisting /\ [BulkNext]_bulkVars => KeepsExisting'
<1> SUFFICES ASSUME TypeInv, KeepsExisting, [BulkNext]_bulkVars PROVE KeepsExisting'
  OBVIOUS
<1>1. users \in [Ids -> Entry]
  BY DEF TypeInv, BulkTypeOK, UsersTypeOK
<1>2. CASE Submit
  BY <1>2 DEF Submit, KeepsExisting, usersVars
<1>3. CASE EnrollRow
  <2> DEFINE row == file[Len(results) + 1]
  <2>1. row \in Row /\ \E left, says : RowStepFacts(row, left, says)
    BY <1>3, RowStep DEF TypeInv
  <2>2. PICK left, says : RowStepFacts(row, left, says)
    BY <2>1
  <2> HIDE DEF row
  <2>3. row.id \in Ids
    BY <2>1 DEF Row
  <2>4. /\ users' = [users EXCEPT ![row.id] = left]
        /\ RowFacts(users[row.id], row, over, left, says)
    BY <2>2 DEF RowStepFacts
  <2>5. UNCHANGED <<over, before, touched>>
    BY <1>3 DEF EnrollRow, history
  <2>6. ASSUME ~over, NEW id \in Ids \ touched, before[id].user # None
        PROVE  users'[id] = before[id]
    <3>1. users[id] = before[id]
      BY <2>6 DEF KeepsExisting
    <3>2. CASE id = row.id
      BY <1>1, <2>3, <2>4, <2>6, <3>1, <3>2 DEF RowFacts
    <3>3. CASE id # row.id
      BY <1>1, <2>4, <3>1, <3>3
    <3> QED
      BY <3>2, <3>3
  <2> QED
    BY <2>5, <2>6 DEF KeepsExisting
<1>4. CASE Other
  <2>1. PICK id \in Ids, left \in Entry :
          touched' = touched \cup {id} /\ users' = [users EXCEPT ![id] = left]
    BY <1>4, OtherStep DEF TypeInv
  <2>2. UNCHANGED <<over, before>>
    BY <1>4 DEF Other, job
  <2> QED
    BY <1>1, <2>1, <2>2 DEF KeepsExisting
<1>5. CASE UNCHANGED <<users, over, before, touched>>
  BY <1>5 DEF KeepsExisting
<1> QED
  BY <1>2, <1>3, <1>4, <1>5
  DEF BulkNext, Runner, Start, Progress, Finish, Fail, Crash, bulkVars, usersVars, job,
      history

\* A file that is not to overwrite leaves the users who were there as they were,
\* whatever it says of them and however often, while get_user calls do not fail.
THEOREM ExistingAreKept ==
  ASSUME ~GetsFail
  PROVE  BulkSpec => []KeepsExisting
<1>1. BulkInit => KeepsExisting
  BY DEF BulkInit, KeepsExisting
<1>2. TypeInv /\ KeepsExisting /\ [BulkNext]_bulkVars => KeepsExisting'
  BY ExistingStay
<1> QED
  BY <1>1, <1>2, AlwaysTyped, PTL DEF BulkSpec

-----------------------------------------------------------------------------
(* The report.                                                             *)

\* The report grows by what is said of the row the runner is at.
LEMMA ReportGrows ==
  ASSUME TypeInv, EnrollRow, NEW left, NEW says,
         RowStepFacts(file[Len(results) + 1], left, says)
  PROVE  /\ Len(results) \in Nat /\ Len(results') = Len(results) + 1
         /\ Len(results) + 1 \in 1..Len(file)
         /\ results'[Len(results) + 1] = says
         /\ \A n \in 1..Len(results) : results'[n] = results[n]
         /\ 1..Len(results') = 1..Len(results) \cup {Len(results) + 1}
<1>1. Len(results) \in Nat /\ Len(results) + 1 \in 1..Len(file)
  BY RowStep DEF TypeInv
<1>2. results \in Seq(Said) /\ says \in Said /\ results' = Append(results, says)
  BY DEF TypeInv, BulkTypeOK, RowStepFacts, RowFacts
<1>3. /\ Len(results') = Len(results) + 1
      /\ results'[Len(results) + 1] = says
      /\ \A n \in 1..Len(results) : results'[n] = results[n]
  BY <1>2
<1>4. 1..(Len(results) + 1) = 1..Len(results) \cup {Len(results) + 1}
  BY <1>1
<1> QED
  BY <1>1, <1>3, <1>4

\* One id in the report.
Explained(id, u) ==
  \/ EnrolledOf(id) = {} /\ u = before[id].user
  \/ \E n \in EnrolledOf(id) \cup UnsureOf(id) :
       (\A l \in EnrolledOf(id) : l <= n) /\ u = file[n].profile

LEMMA ReportRow ==
  ASSUME TypeInv, ReportTrue, EnrollRow
  PROVE  ReportTrue'
<1> DEFINE k == Len(results) + 1
<1>1. PICK left, says : RowStepFacts(file[k], left, says)
  BY RowStep DEF TypeInv
<1>2. /\ Len(results) \in Nat /\ k \in 1..Len(file) /\ file[k] \in Row
      /\ 1..Len(results') = 1..Len(results) \cup {k}
      /\ results'[k] = says /\ \A n \in 1..Len(results) : results'[n] = results[n]
  BY <1>1, ReportGrows, RowStep DEF TypeInv
<1>3. k \in Nat /\ \A n \in 1..Len(results) : n \in Nat /\ n < k
  BY <1>2
<1>4. /\ UNCHANGED <<file, before, touched>>
      /\ users' = [users EXCEPT ![file[k].id] = left] /\ users \in [Ids -> Entry]
      /\ RowFacts(users[file[k].id], file[k], over, left, says)
  BY <1>1 DEF EnrollRow, history, RowStepFacts, TypeInv, BulkTypeOK, UsersTypeOK
<1> HIDE DEF k
<1>5. ASSUME NEW id \in Ids \ touched
      PROVE  \/ EnrolledOf(id)' = {} /\ users'[id].user = before[id].user
             \/ \E n \in (EnrolledOf(id) \cup UnsureOf(id))' :
                  (\A l \in EnrolledOf(id)' : l <= n) /\ users'[id].user = file[n].profile
  <2>1. Explained(id, users[id].user)
    BY DEF ReportTrue, Explained
  <2>2. \A n \in EnrolledOf(id) \cup UnsureOf(id) : n \in Nat /\ n < k
    BY <1>3 DEF EnrolledOf, UnsureOf, RowsOf
  <2>3. /\ EnrolledOf(id)' = EnrolledOf(id) \cup
             (IF file[k].id = id /\ says \in {"created", "overwritten"} THEN {k} ELSE {})
        /\ UnsureOf(id)' = UnsureOf(id) \cup
             (IF file[k].id = id /\ says = "insert_user failed" THEN {k} ELSE {})
    <3>1. RowsOf(id)' = RowsOf(id) \cup (IF file[k].id = id THEN {k} ELSE {})
      BY <1>2, <1>4 DEF RowsOf
    <3>2. k \notin RowsOf(id) /\ \A n \in RowsOf(id) : results'[n] = results[n]
      BY <1>2, <1>3 DEF RowsOf
    <3> QED
      BY <1>2, <3>1, <3>2 DEF EnrolledOf, UnsureOf
  <2>4. CASE file[k].id # id
    BY <1>4, <2>1, <2>3, <2>4 DEF Explained
  <2>5. CASE file[k].id = id /\ says \in {"created", "overwritten"}
    <3>1. users'[id].user = file[k].profile
      BY <1>4, <2>5 DEF RowFacts
    <3>2. EnrolledOf(id)' = EnrolledOf(id) \cup {k}
      BY <2>3, <2>5
    <3>3. \A l \in EnrolledOf(id) \cup {k} : l <= k
      BY <1>3, <2>2
    <3> QED
      BY <3>1, <3>2, <3>3
  <2>6. CASE file[k].id = id /\ says = "insert_user failed"
    <3>1. /\ EnrolledOf(id)' = EnrolledOf(id) \cup {}
          /\ UnsureOf(id)' = UnsureOf(id) \cup {k}
      BY <2>3, <2>6
    <3>2. users'[id].user \in {users[id].user, file[k].profile}
      BY <1>4, <2>6 DEF RowFacts
    <3>3. \A l \in EnrolledOf(id) : l <= k
      BY <1>3, <2>2
    <3> QED
      BY <2>1, <3>1, <3>2, <3>3 DEF Explained
  <2>7. CASE file[k].id = id /\ says \notin {"created", "overwritten", "insert_user failed"}
    <3>1. users'[id] = users[id]
      BY <1>4, <2>7 DEF RowFacts
    <3>2. EnrolledOf(id)' = EnrolledOf(id) /\ UnsureOf(id)' = UnsureOf(id)
      BY <2>3, <2>7
    <3> QED
      BY <2>1, <3>1, <3>2 DEF Explained
  <2> QED
    BY <2>4, <2>5, <2>6, <2>7
<1> QED
  BY <1>4, <1>5 DEF ReportTrue

\* Without a row, the report says of an id what it said.
LEMMA ReportStays ==
  ASSUME UNCHANGED <<file, results>>
  PROVE  \A id : EnrolledOf(id)' = EnrolledOf(id) /\ UnsureOf(id)' = UnsureOf(id)
  BY DEF EnrolledOf, UnsureOf, RowsOf

LEMMA ReportStep == TypeInv /\ ReportTrue /\ [BulkNext]_bulkVars => ReportTrue'
<1> SUFFICES ASSUME TypeInv, ReportTrue, [BulkNext]_bulkVars PROVE ReportTrue'
  OBVIOUS
<1>1. CASE EnrollRow
  BY <1>1, ReportRow
<1>2. CASE Submit
  <2>1. results' = <<>> /\ before' = users /\ users' = users
    BY <1>2 DEF Submit, TypeInv, Fresh, usersVars
  <2>2. Len(results') = 0
    BY <2>1
  <2>3. 1..Len(results') = {}
    BY <2>2
  <2>4. \A id : EnrolledOf(id)' = {}
    BY <2>3 DEF EnrolledOf, RowsOf
  <2> QED
    BY <2>1, <2>4 DEF ReportTrue
<1>3. CASE Other
  <2>1. PICK id \in Ids, left \in Entry :
          touched' = touched \cup {id} /\ users' = [users EXCEPT ![id] = left]
    BY <1>3, OtherStep DEF TypeInv
  <2>2. UNCHANGED <<file, results, before>> /\ users \in [Ids -> Entry]
    BY <1>3 DEF Other, job, TypeInv, BulkTypeOK, UsersTypeOK
  <2>3. \A i \in Ids \ touched' : i \in Ids \ touched /\ users'[i] = users[i]
    BY <2>1, <2>2
  <2>4. \A i : EnrolledOf(i)' = EnrolledOf(i) /\ UnsureOf(i)' = UnsureOf(i)
    BY <2>2, ReportStays
  <2> QED
    BY <2>2, <2>3, <2>4 DEF ReportTrue
<1>4. CASE UNCHANGED <<users, file, results, before, touched>>
  <2>1. \A i : EnrolledOf(i)' = EnrolledOf(i) /\ UnsureOf(i)' = UnsureOf(i)
    BY <1>4, ReportStays
  <2> QED
    BY <1>4, <2>1 DEF ReportTrue
<1> QED
  BY <1>1, <1>2, <1>3, <1>4
  DEF BulkNext, Runner, Start, Progress, Finish, Fail, Crash, bulkVars, usersVars, job,
      history

\* What the report of a file says of an id is what the device holds, unless another
\* request was about that id: for files of any length, with an id in them any number
\* of times, and whichever calls fail.
THEOREM ReportIsTrue == BulkSpec => []ReportTrue
<1>1. BulkInit => ReportTrue
  <2> SUFFICES ASSUME BulkInit PROVE ReportTrue
    OBVIOUS
  <2>1. Len(results) = 0 /\ before = users
    BY DEF BulkInit
  <2>2. 1..Len(results) = {}
    BY <2>1
  <2> QED
    BY <2>1, <2>2 DEF ReportTrue, EnrolledOf, RowsOf
<1>2. TypeInv /\ ReportTrue /\ [BulkNext]_bulkVars => ReportTrue'
  BY ReportStep
<1> QED
  BY <1>1, <1>2, AlwaysTyped, PTL DEF BulkSpec

-----------------------------------------------------------------------------
(* A file job is a job.                                                    *)

\* A job that is about to start has rows.
HasRows == at = "start" => Len(file) # 0

LEMMA RowsStay == HasRows /\ [BulkNext]_bulkVars => HasRows'
<1> SUFFICES ASSUME HasRows, [BulkNext]_bulkVars PROVE HasRows'
  OBVIOUS
<1>1. CASE Submit
  <2>1. file' \in Seq(Row) /\ (at' = "start" => file' # <<>>)
    BY <1>1, BulkEnrollAssumption DEF Submit, Put
  <2> QED
    BY <2>1 DEF HasRows
<1>2. CASE EnrollRow
  BY <1>2, AheadTyped DEF EnrollRow, HasRows
<1>3. CASE Start
  BY <1>3, AheadTyped DEF Start, Put, HasRows
<1>4. CASE Progress \/ Finish \/ Fail \/ Crash
  BY <1>4 DEF Progress, Finish, Fail, Crash, Put, HasRows
<1>5. CASE UNCHANGED job
  BY <1>5 DEF HasRows, job
<1> QED
  BY <1>1, <1>2, <1>3, <1>4, <1>5 DEF BulkNext, Runner, Other, bulkVars

\* The row and the runner of the one job.
One(s) == [j \in {"enroll"} |-> s]

LEMMA OneChanges ==
  ASSUME NEW s, NEW t
  PROVE  [One(s) EXCEPT !["enroll"] = t] = One(t) /\ One(s)["enroll"] = s
  BY DEF One

\* What the file job writes is what a job writes.
LEMMA PutIsPut ==
  ASSUME NEW s, NEW label, NEW handler, NEW jLabel, NEW jHandler,
         Put(s, label, handler),
         at' = label => Phase' = jLabel, at' = handler => Phase' = jHandler
  PROVE  J!Put("enroll", s, jLabel, jHandler)
<1> DEFINE r == One(status)
           k == One(Phase)
<1>1. /\ [r EXCEPT !["enroll"] = s] = One(s)
      /\ [k EXCEPT !["enroll"] = jLabel] = One(jLabel)
      /\ [k EXCEPT !["enroll"] = jHandler] = One(jHandler)
  BY OneChanges
<1>2. CASE status' = s /\ at' = label
  <2>1. One(status') = [r EXCEPT !["enroll"] = s] /\ One(Phase') = [k EXCEPT !["enroll"] = jLabel]
    BY <1>1, <1>2
  <2> QED
    BY <2>1 DEF J!Put, One
<1>3. CASE DbFails /\ status' \in {status, s} /\ at' = handler
  <2>1. /\ One(status') \in {r, [r EXCEPT !["enroll"] = s]}
        /\ One(Phase') = [k EXCEPT !["enroll"] = jHandler]
        /\ "enroll" \in IF DbFails THEN {"enroll"} ELSE {}
    BY <1>1, <1>3
  <2> QED
    BY <2>1 DEF J!Put, One
<1> QED
  BY <1>2, <1>3 DEF Put

\* Every step of the file job is a step of a job or none.
LEMMA JobStep == HasRows /\ [BulkNext]_bulkVars => [J!Next]_(J!vars)
<1> SUFFICES ASSUME HasRows, [BulkNext]_bulkVars PROVE J!Next \/ UNCHANGED J!vars
  OBVIOUS
<1>1. One(Phase)["enroll"] = Phase
  BY OneChanges
<1>2. ASSUME UNCHANGED <<status, Phase>> PROVE UNCHANGED J!vars
  BY <1>2 DEF J!vars
<1>3. CASE Submit
  <2>1. CASE Put("queued", "start", "refused")
    <3>1. J!Put("enroll", "queued", "start", "refused")
      BY <2>1, PutIsPut DEF Phase
    <3>2. J!Create("enroll")
      BY <1>1, <1>3, <3>1 DEF J!Create, Submit, Phase, One
    <3> QED
      BY <3>2 DEF J!Next
  <2>2. CASE at' = "rejected" /\ UNCHANGED status
    BY <1>2, <1>3, <2>2 DEF Submit, Phase
  <2> QED
    BY <1>3, <2>1, <2>2 DEF Submit
<1>4. CASE Start
  <2>1. Ahead(0) \in {"progress", "row"}
    <3>1. Len(file) # 0
      BY <1>4 DEF Start, HasRows
    <3> QED
      BY <3>1 DEF Ahead
  <2>2. J!Put("enroll", "running", "work", "raised")
    BY <1>4, <2>1, PutIsPut DEF Start, Phase
  <2>3. J!Start("enroll")
    BY <1>1, <1>4, <2>2 DEF J!Start, J!Guarded, Start, Phase, One
  <2> QED
    BY <2>3 DEF J!Next, J!Run
<1>5. CASE Progress
  <2>1. CASE at' = "row"
    BY <1>2, <1>5, <2>1 DEF Progress, Phase
  <2>2. CASE DbFails /\ at' = "fail"
    <3>1. /\ One(Phase)["enroll"] = "work" /\ One(Phase') = [One(Phase) EXCEPT !["enroll"] = "fail"]
          /\ One(status') = One(status)
          /\ "enroll" \in IF DbFails THEN {"enroll"} ELSE {}
      BY <1>1, <1>5, <2>2, OneChanges DEF Progress, Phase
    <3>2. J!Work("enroll")
      BY <3>1 DEF J!Work, One
    <3> QED
      BY <3>2 DEF J!Next, J!Run
  <2> QED
    BY <1>5, <2>1, <2>2 DEF Progress
<1>6. CASE EnrollRow
  <2>1. at = "row" /\ at' \in {"finish", "progress", "row"} /\ status' = status
    BY <1>6, AheadTyped DEF EnrollRow
  <2>2. CASE at' \in {"progress", "row"}
    BY <1>2, <2>1, <2>2 DEF Phase
  <2>3. CASE at' = "finish"
    <3>1. /\ One(Phase)["enroll"] = "work" /\ One(Phase') = [One(Phase) EXCEPT !["enroll"] = "finish"]
          /\ One(status') = One(status)
      BY <1>1, <2>1, <2>3, OneChanges DEF Phase
    <3>2. J!Work("enroll")
      BY <3>1 DEF J!Work, One
    <3> QED
      BY <3>2 DEF J!Next, J!Run
  <2> QED
    BY <2>1, <2>2, <2>3
<1>7. CASE Finish
  <2>1. J!AfterDone("enroll") = IF LogsInfo THEN "fail" ELSE "returned"
    BY DEF J!AfterDone
  <2>2. J!Put("enroll", "done", J!AfterDone("enroll"), "fail")
    BY <1>7, <2>1, PutIsPut DEF Finish, Phase
  <2>3. J!Finish("enroll")
    BY <1>1, <1>7, <2>2 DEF J!Finish, Finish, Phase, One
  <2> QED
    BY <2>3 DEF J!Next, J!Run
<1>8. CASE Fail
  <2>1. J!Put("enroll", "failed", "returned", "raised")
    BY <1>8, PutIsPut DEF Fail, Phase
  <2>2. J!Fail("enroll")
    BY <1>1, <1>8, <2>1 DEF J!Fail, Fail, Phase, One
  <2> QED
    BY <2>2 DEF J!Next, J!Run
<1>9. CASE Crash
  <2>1. Crashes /\ Phase \in {"start", "work", "finish", "fail"} /\ Phase' = "lost" /\ status' = status
    BY <1>9 DEF Crash, Live, Phase
  <2>2. J!Live = {"enroll"}
    BY <1>1, <2>1 DEF J!Live, One
  <2>3. One(Phase') = [j \in {"enroll"} |-> IF j \in J!Live THEN "lost" ELSE One(Phase)[j]]
    BY <2>1, <2>2 DEF One
  <2>4. J!Crash
    BY <2>1, <2>2, <2>3 DEF J!Crash, One
  <2> QED
    BY <2>4 DEF J!Next
<1>10. CASE Other \/ UNCHANGED bulkVars
  BY <1>2, <1>10 DEF Other, bulkVars, job, Phase
<1> QED
  BY <1>3, <1>4, <1>5, <1>6, <1>7, <1>8, <1>9, <1>10 DEF BulkNext, Runner

\* The job of a file does what Jobs says of a bulk_enroll job, its turn from done
\* to failed included, whatever the file, the device and the other requests do to
\* its rows.
THEOREM FileJobIsJob == BulkSpec => IsJob
<1>1. BulkInit => J!Init /\ HasRows
  BY DEF BulkInit, J!Init, Phase, HasRows
<1>2. HasRows /\ [BulkNext]_bulkVars => HasRows'
  BY RowsStay
<1>3. HasRows /\ [BulkNext]_bulkVars => [J!Next]_(J!vars)
  BY JobStep
<1> QED
  BY <1>1, <1>2, <1>3, PTL DEF BulkSpec, IsJob, J!Spec
=============================================================================
