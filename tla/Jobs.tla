-------------------------------- MODULE Jobs --------------------------------
(***************************************************************************)
(* Background jobs: the rows of the jobs table (app/core/db.py) and the    *)
(* runners that keep them up to date (app/services/job_service.py,         *)
(* dghs_service.py, bulk_enroll_service.py).  A request inserts its row    *)
(* and is answered with the job id; the runner starts afterwards and ends  *)
(* by writing the final status, which clients poll for.  Every database    *)
(* call can raise, with or without having committed, and the process can   *)
(* die; nothing is started again for the rows it leaves.                   *)
(***************************************************************************)
EXTENDS FiniteSets

CONSTANTS
  Jobs,     \* job ids
  Kind,     \* the kind of each job
  Flaky,    \* jobs whose database calls can raise
  LogsInfo, \* does LOG_LEVEL let INFO records through?  INFO does, WARNING not
  Crashes   \* can the process die?

\* Kinds whose runner writes "running" inside its try block.
Guarded == {"export", "bulk_migrate"}

\* Kinds whose runner reports the failure of an item and goes on.
Tolerant == {"bulk_migrate", "bulk_enroll"}

ASSUME JobsAssumption ==
  /\ Kind \in [Jobs -> Guarded \cup Tolerant \cup {"dghs_push"}]
  /\ Flaky \subseteq Jobs /\ {LogsInfo, Crashes} \subseteq BOOLEAN

VARIABLES
  row,  \* status in each job's row, "none" without a row
  pc    \* where its runner is

vars == <<row, pc>>

Init ==
  /\ row = [j \in Jobs |-> "none"]
  /\ pc = [j \in Jobs |-> "none"]

-----------------------------------------------------------------------------
\* insert_job and update_job: the status is committed and the runner goes on at
\* label, or the call raises, committed or not, and handler gets control.
Put(j, status, label, handler) ==
  \/ /\ row' = [row EXCEPT ![j] = status]
     /\ pc' = [pc EXCEPT ![j] = label]
  \/ /\ j \in Flaky
     /\ row' \in {row, [row EXCEPT ![j] = status]}
     /\ pc' = [pc EXCEPT ![j] = handler]

\* create_job.  When it raises, the request is refused and adds no task.
Create(j) == pc[j] = "none" /\ Put(j, "queued", "start", "refused")

\* Broken: the progress is written as the status.
StartWithProgress(j) == pc[j] = "start" /\ Put(j, "listing users", "work", "fail")

Start(j) ==
  /\ pc[j] = "start"
  /\ Put(j, "running", "work", IF Kind[j] \in Guarded THEN "fail" ELSE "raised")

\* Broken: whatever goes wrong is left to the caller.
WorkUnguarded(j) ==
  /\ pc[j] = "work"
  /\ \/ pc' = [pc EXCEPT ![j] = "finish"]
     \/ /\ Kind[j] \notin Tolerant \/ j \in Flaky
        /\ pc' = [pc EXCEPT ![j] = "raised"]
  /\ UNCHANGED row

\* The work itself and its progress updates.
Work(j) ==
  /\ pc[j] = "work"
  /\ \/ pc' = [pc EXCEPT ![j] = "finish"]
     \/ /\ Kind[j] \notin Tolerant \/ j \in Flaky
        /\ pc' = [pc EXCEPT ![j] = "fail"]
  /\ UNCHANGED row

\* Broken: every runner logs its counts as the runner of a file does.
AfterDoneOfAny(j) == IF LogsInfo THEN "fail" ELSE "returned"

\* Once "done" is committed the runner returns.  That of a file logs its counts
\* first, still inside its try block: one of them is called "created", a name
\* that a log record has for itself, and the call raises when it makes one.
AfterDone(j) == IF Kind[j] = "bulk_enroll" /\ LogsInfo THEN "fail" ELSE "returned"

Finish(j) == pc[j] = "finish" /\ Put(j, "done", AfterDone(j), "fail")

\* Broken: what the except clause itself raises is swallowed.
FailQuietly(j) == pc[j] = "fail" /\ Put(j, "failed", "returned", "returned")

\* The except clause of the runner.
Fail(j) == pc[j] = "fail" /\ Put(j, "failed", "returned", "raised")

Run(j) == Start(j) \/ Work(j) \/ Finish(j) \/ Fail(j)

Live == {j \in Jobs : pc[j] \in {"start", "work", "finish", "fail"}}

\* The process dies; the rows stay.
Crash ==
  /\ Crashes
  /\ Live # {}
  /\ pc' = [j \in Jobs |-> IF j \in Live THEN "lost" ELSE pc[j]]
  /\ UNCHANGED row

Next == Crash \/ \E j \in Jobs : Create(j) \/ Run(j)

Spec == Init /\ [][Next]_vars

\* A task that was added is run, and no SDK or HTTP call takes for ever.
FairSpec == Spec /\ \A j \in Jobs : WF_vars(Run(j))

-----------------------------------------------------------------------------
(* Properties.                                                             *)

Final == {"done", "failed"}

TypeOK ==
  /\ row \in [Jobs -> {"none", "queued", "running"} \cup Final]
  /\ pc \in [Jobs -> {"none", "refused", "start", "work", "finish", "fail",
                      "returned", "raised", "lost"}]

\* A client stops polling when it reads a final status: no status it can have
\* read changes, but for a "done" that becomes "failed", and that happens only
\* to a job whose commit of "done" raised and to a file whose counts are logged.
FinalStands ==
  [][\A j \in Jobs :
       row[j] \in Final /\ row'[j] # row[j] =>
         /\ row[j] = "done" /\ row'[j] = "failed"
         /\ j \in Flaky \/ (Kind[j] = "bulk_enroll" /\ LogsInfo)]_vars

\* "Poll GET /jobs/{job_id} for progress and final results"
\* (routers/bulk_enroll.py): a final status is final.
FinalStays ==
  [][\A j \in Jobs : row[j] \in Final => row'[j] = row[j]]_vars

\* A runner that comes to its own end has recorded it, whichever of its
\* database calls have raised on the way.
EndIsRecorded == \A j \in Jobs : pc[j] = "returned" => row[j] \in Final

\* "Poll GET /jobs/{job_id} for progress and final result": a job that was
\* answered with an id gets a final status and is over, whatever its work comes
\* to, unless its own database calls raise or the process dies.
JobsEnd ==
  \A j \in Jobs \ Flaky :
    pc[j] = "start" ~> (pc[j] = "returned" /\ row[j] \in Final) \/ pc[j] = "lost"

-----------------------------------------------------------------------------
(* Why they hold: an inductive invariant.                                  *)

\* No job is worked on once its row is final; only a "done" has its runner go
\* on to the except clause, and only with a reason.
OverInv ==
  \A j \in Jobs :
    row[j] \in Final =>
      /\ pc[j] \notin {"none", "start", "work", "finish"}
      /\ pc[j] = "fail" =>
           row[j] = "done" /\ (j \in Flaky \/ (Kind[j] = "bulk_enroll" /\ LogsInfo))

\* Only a database call of a job's own can keep its runner from its end.
RaisedInv == \A j \in Jobs : pc[j] \in {"refused", "raised"} => j \in Flaky

IInv == OverInv /\ EndIsRecorded /\ RaisedInv
=============================================================================
