----------------------------- MODULE BulkEnroll -----------------------------
(***************************************************************************)
(* Enrolling the users of a file as a background job                       *)
(* (app/services/bulk_enroll_service.py, app/routers/bulk_enroll.py).      *)
(* The rows are enrolled one after the other, profiles only, each under a  *)
(* lock of its own, so that other requests come in between; a row that     *)
(* fails is reported and the next one is tried.                            *)
(***************************************************************************)
EXTENDS Users, Naturals, Sequences

CONSTANTS
  Files,       \* sequences of rows that can be uploaded
  Every,       \* rows between two progress updates: 5
  DbFails,     \* can database calls raise?
  LogsInfo,    \* does LOG_LEVEL let INFO records through?
  Crashes,     \* can the process die?
  MaxRequests  \* bound on the other requests to the device

\* The checks a row passes before the device is asked, in their order.
Checks == <<"user_id is missing", "name is missing", "invalid user_id",
            "name too long", "must be integers">>

\* What else can be wrong with a row raises: an id too long in bytes in get_user,
\* an end of validity that is no date (29 February, the year 10000) after it.
Flaws == {Checks[n] : n \in 1..Len(Checks)} \cup {"too many bytes", "no such date"}

\* What the report says of a row.
Said == {Checks[n] : n \in 1..Len(Checks)}
          \cup {"pool error", "error", "already exists", "insert_user failed",
                "created", "overwritten"}

Row == [id: Ids, profile: Profiles, flaws: SUBSET Flaws]

ASSUME BulkEnrollAssumption ==
  /\ Files \subseteq Seq(Row)
  /\ Every \in Nat \ {0} /\ MaxRequests \in Nat
  /\ {DbFails, LogsInfo, Crashes} \subseteq BOOLEAN

VARIABLES
  status,    \* of the job, in its row
  at,        \* where the request, and then its runner, is
  file,      \* the rows
  over,      \* is it to overwrite?
  results,   \* of the rows so far
  before,    \* history: what the device held when the file was sent
  touched,   \* history: ids other requests have been about since
  requests   \* number of other requests

job     == <<status, at, file, over, results>>
history == <<before, touched, requests>>
bulkVars == <<usersVars, job, history>>

BulkInit ==
  /\ UsersInit
  /\ status = "none" /\ at = "none"
  /\ file = <<>> /\ over = FALSE /\ results = <<>>
  /\ before = users /\ touched = {} /\ requests = 0

-----------------------------------------------------------------------------
(* One row.                                                                *)

\* The first of the checks that a row does not pass.
Verdict(row) ==
  LET failed == {n \in 1..Len(Checks) : Checks[n] \in row.flaws}
  IN  IF failed = {} THEN "OK"
                     ELSE Checks[CHOOSE n \in failed : \A k \in failed : n <= k]

\* Broken: a user who exists is replaced without being asked to.
EnrollsRowAnyway(e, row, o) ==
  IF Verdict(row) # "OK" THEN {[left |-> e, says |-> Verdict(row)]}
  ELSE {[left |-> r.left, says |-> IF r.ok THEN "created" ELSE "insert_user failed"] :
          r \in InsertUser(e, row.profile)}

\* Broken: a row whose insert fails is reported like one that went well.
EnrollsRowGladly(e, row, o) ==
  IF Verdict(row) # "OK" THEN {[left |-> e, says |-> Verdict(row)]}
  ELSE UNION {IF u # None /\ ~o THEN {[left |-> e, says |-> "already exists"]}
              ELSE {[left |-> r.left, says |-> "created"] :
                      r \in InsertUser(e, row.profile)} : u \in Got(e.user)}

\* _enroll_one_row: what it can leave and report.
EnrollsRow(e, row, o) ==
  IF Verdict(row) # "OK" THEN {[left |-> e, says |-> Verdict(row)]}
  ELSE IF "too many bytes" \in row.flaws THEN {[left |-> e, says |-> "error"]}
  ELSE UNION {IF u # None /\ ~o THEN {[left |-> e, says |-> "already exists"]}
              ELSE IF "no such date" \in row.flaws THEN {[left |-> e, says |-> "error"]}
              ELSE {[left |-> r.left, says |-> IF ~r.ok THEN "insert_user failed"
                                               ELSE IF u # None THEN "overwritten"
                                               ELSE "created"] :
                      r \in InsertUser(e, row.profile)} : u \in Got(e.user)}

-----------------------------------------------------------------------------
(* The job.                                                                *)

Put(s, label, handler) ==
  \/ status' = s /\ at' = label
  \/ DbFails /\ status' \in {status, s} /\ at' = handler

\* Broken: one row too many.
AheadTooFar(n) ==
  IF n > Len(file) THEN "finish" ELSE IF n % Every = 0 THEN "progress" ELSE "row"

\* Where the runner goes when n rows are done.
Ahead(n) ==
  IF n = Len(file) THEN "finish" ELSE IF n % Every = 0 THEN "progress" ELSE "row"

\* enroll_async.  Without rows, or for an unknown device, the request is refused
\* before there is a job.
Submit ==
  /\ at = "none"
  /\ \E f \in Files, o \in BOOLEAN :
       /\ file' = f /\ over' = o
       /\ \/ f # <<>> /\ Put("queued", "start", "refused")
          \/ at' = "rejected" /\ UNCHANGED status
  /\ before' = users /\ touched' = {}
  /\ UNCHANGED <<usersVars, results, requests>>

Start ==
  /\ at = "start"
  /\ Put("running", Ahead(0), "raised")
  /\ UNCHANGED <<usersVars, file, over, results, history>>

\* Broken: a progress update that raises is left to the caller.
ProgressUnguarded ==
  /\ at = "progress"
  /\ at' = "row" \/ (DbFails /\ at' = "raised")
  /\ UNCHANGED <<usersVars, status, file, over, results, history>>

\* The progress update before each fifth row.
Progress ==
  /\ at = "progress"
  /\ at' = "row" \/ (DbFails /\ at' = "fail")
  /\ UNCHANGED <<usersVars, status, file, over, results, history>>

\* Broken: a row is tried again when the pool raises.
EnrollRowAgain ==
  /\ at = "row"
  /\ LET row == file[Len(results) + 1] IN
       \/ \E r \in EnrollsRow(users[row.id], row, over) :
            /\ Leave(row.id, r, over)
            /\ results' = Append(results, r.says)
            /\ at' = Ahead(Len(results'))
       \/ at' = "progress" /\ UNCHANGED <<usersVars, results>>
  /\ UNCHANGED <<status, file, over, history>>

\* A row, or the error of a pool that does not come to it.
EnrollRow ==
  /\ at = "row"
  /\ LET row == file[Len(results) + 1] IN
       \/ \E r \in EnrollsRow(users[row.id], row, over) :
            /\ Leave(row.id, r, over)
            /\ results' = Append(results, r.says)
       \/ results' = Append(results, "pool error") /\ UNCHANGED usersVars
  /\ at' = Ahead(Len(results'))
  /\ UNCHANGED <<status, file, over, history>>

\* The job is done; then its counts are logged inside the try block, and that
\* raises when there is a log record to make ("created" is a name of its own).
Finish ==
  /\ at = "finish"
  /\ Put("done", IF LogsInfo THEN "fail" ELSE "returned", "fail")
  /\ UNCHANGED <<usersVars, file, over, results, history>>

Fail ==
  /\ at = "fail"
  /\ Put("failed", "returned", "raised")
  /\ UNCHANGED <<usersVars, file, over, results, history>>

Runner == Start \/ Progress \/ EnrollRow \/ Finish \/ Fail

Live == {"start", "progress", "row", "finish", "fail"}

\* The process dies; a row it is at has had its effect before that, or none.
Crash ==
  /\ Crashes /\ at \in Live
  /\ at' = "lost"
  /\ UNCHANGED <<usersVars, status, file, over, results, history>>

\* Another request to the device.
Other ==
  /\ requests < MaxRequests
  /\ \E id \in Ids :
       /\ EnrollUser(id) \/ DeleteUser(id)
       /\ touched' = touched \cup {id}
  /\ requests' = requests + 1
  /\ UNCHANGED <<job, before>>

BulkNext == Submit \/ Runner \/ Crash \/ Other

BulkSpec == BulkInit /\ [][BulkNext]_bulkVars

\* The task is run once it is added, and SDK calls and the database come back.
BulkFairSpec == BulkSpec /\ WF_bulkVars(Runner)

-----------------------------------------------------------------------------
(* The job is a job.                                                       *)

\* Its rows are its work; a request refused before there is a job is none.
Phase ==
  CASE at \in {"progress", "row"} -> "work"
    [] at = "rejected"            -> "none"
    [] OTHER                      -> at

J == INSTANCE Jobs WITH
       Jobs  <- {"enroll"},
       Kind  <- [j \in {"enroll"} |-> "bulk_enroll"],
       Flaky <- IF DbFails THEN {"enroll"} ELSE {},
       row   <- [j \in {"enroll"} |-> status],
       pc    <- [j \in {"enroll"} |-> Phase]

-----------------------------------------------------------------------------
(* Properties.                                                             *)

BulkTypeOK ==
  /\ UsersTypeOK
  /\ status \in {"none", "queued", "running", "done", "failed"}
  /\ at \in {"none", "rejected", "refused", "returned", "raised", "lost"} \cup Live
  /\ file \in Seq(Row) /\ over \in BOOLEAN
  /\ results \in Seq(Said) /\ Len(results) <= Len(file)
  /\ at \in {"progress", "row"} => Len(results) < Len(file)
  /\ before \in [Ids -> Entry] /\ touched \subseteq Ids /\ requests \in Nat

\* The rows of an id that are reported as enrolled, and those whose insert_user
\* failed, with or without effect.
RowsOf(id)     == {n \in 1..Len(results) : file[n].id = id}
EnrolledOf(id) == {n \in RowsOf(id) : results[n] \in {"created", "overwritten"}}
UnsureOf(id)   == {n \in RowsOf(id) : results[n] = "insert_user failed"}

\* What the report says is what is on the device, however often an id is in the
\* file and whatever fails: the profile of the last row that is reported as
\* enrolled, or of a later one whose insert_user failed; without any, what was
\* there before.
ReportTrue ==
  \A id \in Ids \ touched :
    \/ EnrolledOf(id) = {} /\ users[id].user = before[id].user
    \/ \E n \in EnrolledOf(id) \cup UnsureOf(id) :
         /\ \A l \in EnrolledOf(id) : l <= n
         /\ users[id].user = file[n].profile

\* "pass overwrite=true to replace": a file that is not to overwrite leaves users
\* who are there as they are, photo and all.
KeepsExisting ==
  ~over => \A id \in Ids \ touched :
             before[id].user # None => users[id] = before[id]

\* Whatever a file job does is what Jobs lets a bulk_enroll job do.
IsJob == J!Spec

\* The runner comes to an end, however many rows fail.
RunnerEnds == at = "start" ~> at \in {"returned", "raised", "lost"}
=============================================================================
