------------------------------ MODULE Scheduler ------------------------------
(***************************************************************************)
(* The scheduler of the DGHS push (app/services/scheduler_service.py): an  *)
(* APScheduler job with an interval trigger that pushes the devices of     *)
(* SCHEDULER_DEVICES one after the other, each push a background job with  *)
(* a row of its own (Jobs), and the requests that trigger, pause and       *)
(* resume it.  APScheduler runs a job only when no earlier run of it is    *)
(* under way (max_instances = 1) and passes a due time over otherwise.     *)
(***************************************************************************)
EXTENDS Integers, Sequences, FiniteSets

CONSTANTS
  Order,    \* SCHEDULER_DEVICES
  Jobs,     \* ids of the jobs it can create
  None,     \* nothing yet
  Flaky,    \* jobs whose database calls can raise
  Crashes   \* can the process die?

Devices == {Order[n] : n \in 1..Len(Order)}

ASSUME SchedulerAssumption ==
  /\ Order \in Seq(Devices)
  /\ \A m, n \in 1..Len(Order) : m # n => Order[m] # Order[n]
  /\ None \notin Jobs \cup {"running", "done", "failed"}
  /\ Flaky \subseteq Jobs /\ Crashes \in BOOLEAN

VARIABLES
  row, pc,    \* the jobs: their rows and their runners
  connected,  \* devices with a logged-in client
  next,       \* next run time of the APScheduler job: paused, later or now
  at,         \* where scheduled_push is in the run that is under way
  i,          \* the device it has come to, as an index of Order
  job,        \* the job of this device
  last_run,   \* _last_run: what /scheduler/status reports of each device
  asked,      \* history: has it been triggered since the last pause?
  halted,     \* history: has it been paused and not been resumed?
  tried       \* history: devices the latest run has a result for

jobs    == <<row, pc>>
thread  == <<at, i, job, tried>>
control == <<next, asked, halted>>
vars    == <<jobs, connected, thread, control, last_run>>

\* Every scheduled push is a job, run like the push of a request.  Nothing that
\* is logged of a push raises, so the level does not matter.
J == INSTANCE Jobs WITH Kind <- [j \in Jobs |-> "dghs_push"], LogsInfo <- TRUE

NotRun == [status |-> None, job |-> None]

Init ==
  /\ J!Init
  /\ connected \in SUBSET Devices
  /\ next = "later"
  /\ at = "idle" /\ i = 0 /\ job = None /\ tried = {}
  /\ last_run = [d \in Devices |-> NotRun]
  /\ asked = FALSE /\ halted = FALSE

-----------------------------------------------------------------------------
(* APScheduler and the requests to it.                                     *)

IntervalElapses ==
  /\ next = "later"
  /\ next' = "now"
  /\ UNCHANGED <<jobs, connected, thread, asked, halted, last_run>>

\* A due time comes up.  While a run is under way it is passed over.
Fire ==
  /\ next = "now"
  /\ next' = "later"
  /\ IF at = "idle"
     THEN at' = "device" /\ i' = 1 /\ job' = None /\ tried' = {}
     ELSE UNCHANGED thread
  /\ UNCHANGED <<jobs, connected, asked, halted, last_run>>

\* trigger_now sets the next run time, also that of a paused job.
TriggerNow ==
  /\ next' = "now"
  /\ asked' = TRUE
  /\ UNCHANGED <<jobs, connected, thread, halted, last_run>>

\* Broken: a run that is due is let through.
PauseLater ==
  /\ next' = IF next = "now" THEN "now" ELSE "paused"
  /\ asked' = FALSE
  /\ halted' = TRUE
  /\ UNCHANGED <<jobs, connected, thread, last_run>>

\* pause_job takes the next run time away, due or not.
Pause ==
  /\ next' = "paused"
  /\ asked' = FALSE
  /\ halted' = TRUE
  /\ UNCHANGED <<jobs, connected, thread, last_run>>

\* resume_job computes the next run time from the interval, paused or not.
Resume ==
  /\ next' = "later"
  /\ halted' = FALSE
  /\ UNCHANGED <<jobs, connected, thread, asked, last_run>>

-----------------------------------------------------------------------------
(* scheduled_push.                                                         *)

Record(d, status, j) ==
  last_run' = [last_run EXCEPT ![d] = [status |-> status, job |-> j]]

\* Return, or an exception that nobody catches.
EndRun == at' = "idle" /\ i' = 0 /\ job' = None

RunIsOver ==
  /\ at = "device" /\ i > Len(Order)
  /\ EndRun
  /\ UNCHANGED <<jobs, connected, control, last_run, tried>>

SkipDevice ==
  /\ at = "device" /\ i <= Len(Order)
  /\ Order[i] \notin connected
  /\ Record(Order[i], "skipped", None)
  /\ tried' = tried \cup {Order[i]}
  /\ i' = i + 1
  /\ UNCHANGED <<jobs, connected, control, at, job>>

\* create_job and run_dghs_push, called one after the other.
StartPush ==
  /\ at = "device" /\ i <= Len(Order)
  /\ Order[i] \in connected
  /\ \E j \in Jobs :
       /\ J!Create(j)
       /\ IF pc'[j] = "start"
          THEN /\ Record(Order[i], "running", j)
               /\ at' = "push" /\ job' = j
               /\ UNCHANGED i
          ELSE EndRun /\ UNCHANGED last_run
  /\ UNCHANGED <<connected, control, tried>>

Push ==
  /\ at = "push"
  /\ J!Run(job)
  /\ UNCHANGED <<connected, thread, control, last_run>>

\* Broken: the result is read off the row at once.
ReadResultAtOnce ==
  /\ at = "push"
  /\ Record(Order[i], row[job], job)
  /\ tried' = tried \cup {Order[i]}
  /\ at' = "device" /\ i' = i + 1 /\ job' = None
  /\ UNCHANGED <<jobs, connected, control>>

\* Broken: a push that returns is taken for done.
ReadResultAsDone ==
  /\ at = "push" /\ pc[job] = "returned"
  /\ Record(Order[i], "done", job)
  /\ tried' = tried \cup {Order[i]}
  /\ at' = "device" /\ i' = i + 1 /\ job' = None
  /\ UNCHANGED <<jobs, connected, control>>

\* Broken: a push that failed ends the run.
ReadResultOrStop ==
  /\ at = "push" /\ pc[job] = "returned"
  /\ Record(Order[i], row[job], job)
  /\ tried' = tried \cup {Order[i]}
  /\ IF row[job] = "done" THEN at' = "device" /\ i' = i + 1 /\ job' = None
                          ELSE EndRun
  /\ UNCHANGED <<jobs, connected, control>>

\* Broken: no result is recorded.
ReadNoResult ==
  /\ at = "push" /\ pc[job] = "returned"
  /\ tried' = tried \cup {Order[i]}
  /\ at' = "device" /\ i' = i + 1 /\ job' = None
  /\ UNCHANGED <<jobs, connected, control, last_run>>

\* get_job, and the status it returns goes to _last_run.
ReadResult ==
  /\ at = "push" /\ pc[job] = "returned"
  /\ Record(Order[i], row[job], job)
  /\ tried' = tried \cup {Order[i]}
  /\ at' = "device" /\ i' = i + 1 /\ job' = None
  /\ UNCHANGED <<jobs, connected, control>>

\* Broken: only a call of its own that raises ends the run.
RaiseHere ==
  /\ at = "push" /\ pc[job] = "returned" /\ job \in Flaky
  /\ EndRun
  /\ UNCHANGED <<jobs, connected, control, last_run, tried>>

\* run_dghs_push or get_job raises.
Raise ==
  /\ at = "push"
  /\ pc[job] = "raised" \/ (pc[job] = "returned" /\ job \in Flaky)
  /\ EndRun
  /\ UNCHANGED <<jobs, connected, control, last_run, tried>>

\* Broken: the jobs that were lost are started again.
RestartJobs ==
  /\ Crashes
  /\ pc' = [j \in Jobs |-> IF j \in J!Live THEN "start" ELSE pc[j]]
  /\ connected' \in SUBSET Devices
  /\ next' = "later" /\ asked' = FALSE /\ halted' = FALSE
  /\ EndRun /\ tried' = {}
  /\ last_run' = [d \in Devices |-> NotRun]
  /\ UNCHANGED row

\* The process dies and starts again: all but the rows is as at first.
Restart ==
  /\ Crashes
  /\ pc' = [j \in Jobs |-> IF j \in J!Live THEN "lost" ELSE pc[j]]
  /\ connected' \in SUBSET Devices
  /\ next' = "later" /\ asked' = FALSE /\ halted' = FALSE
  /\ EndRun /\ tried' = {}
  /\ last_run' = [d \in Devices |-> NotRun]
  /\ UNCHANGED row

ScheduledPush ==
  RunIsOver \/ SkipDevice \/ StartPush \/ Push \/ ReadResult \/ Raise

Next ==
  \/ IntervalElapses \/ Fire \/ TriggerNow \/ Pause \/ Resume
  \/ ScheduledPush
  \/ Restart

Spec == Init /\ [][Next]_vars

\* The thread of a run goes on: SDK and HTTP calls time out.
FairSpec == Spec /\ WF_vars(ScheduledPush)

-----------------------------------------------------------------------------
(* Properties.                                                             *)

TypeOK ==
  /\ J!TypeOK
  /\ connected \subseteq Devices
  /\ next \in {"paused", "later", "now"}
  /\ at \in {"idle", "device", "push"}
  /\ i \in 0..Len(Order) + 1
  /\ job \in Jobs \cup {None}
  /\ last_run \in [Devices -> [status: {None, "skipped", "running"} \cup J!Final,
                               job: Jobs \cup {None}]]
  /\ asked \in BOOLEAN /\ halted \in BOOLEAN
  /\ tried \subseteq Devices

\* "Pushes host first, then recv. Sequential.": no two scheduled pushes are
\* ever under way together, however often the scheduler is triggered.
Sequential == \A j, k \in J!Live : j = k

\* What /scheduler/status gives as the result of a device's last run is what
\* its job says.
LastRunTrue ==
  \A d \in Devices :
    last_run[d].status \in J!Final => row[last_run[d].job] = last_run[d].status

\* Between two runs it reports no device as running, except one whose run was
\* ended by a database call that raised.
IdleShowsNoRun ==
  at = "idle" =>
    \A d \in Devices : last_run[d].status = "running" => last_run[d].job \in Flaky

\* A database call of the job that is being created or pushed can raise.
JobIsFlaky == job \in Flaky \/ \E j \in Flaky : pc[j] = "none" /\ pc'[j] = "refused"

\* A run ends only when every device has its result: a device whose push
\* fails, or that is not connected, costs no other device its push.  Only a
\* database call that raises and the end of the process cut a run short.
EveryDeviceTried ==
  [][at # "idle" /\ at' = "idle" => tried = Devices \/ JobIsFlaky \/ Restart]_vars

\* Every run ends, so that the next one can start, whatever the database does.
NoJobLeft == \A j \in Jobs : pc[j] # "none"
RunsEnd == at # "idle" ~> at = "idle" \/ NoJobLeft

\* The jobs of scheduled pushes are those of requests: whoever polls one sees it
\* created, run, ended and lost in the steps of Jobs and in no other way.
JobsImplemented == J!Spec

\* routers/scheduler.py: "Pause the scheduler (stops future automatic runs
\* until resumed)" - or, as trigger_now has it, until triggered: as long as it
\* is paused no run starts, due or passed over before as it may have been,
\* unless a trigger has come after the pause.
PauseHeeded == [][halted /\ at = "idle" /\ at' # "idle" => asked]_vars

-----------------------------------------------------------------------------
(* Why they hold: an inductive invariant.                                  *)

\* The only push under way is the one the run has come to.
PushInv ==
  /\ at = "push" => i \in 1..Len(Order) /\ job \in Jobs
  /\ at = "device" => i > 0
  /\ \A j \in J!Live : at = "push" /\ job = j

\* A result was read off the row of a push that had returned.
ResultInv ==
  \A d \in Devices :
    last_run[d].status \in J!Final =>
      /\ last_run[d].job \in Jobs
      /\ pc[last_run[d].job] = "returned"
      /\ row[last_run[d].job] = last_run[d].status

\* A device is shown as running while its push is under way, and after it only
\* when one of the push's own database calls can raise.
RunningInv ==
  \A d \in Devices :
    last_run[d].status = "running" =>
      \/ last_run[d].job \in Flaky
      \/ at = "push" /\ last_run[d].job = job /\ d = Order[i]

\* A run has a result for each device before the one it has come to.
TriedInv == at # "idle" => tried = {Order[n] : n \in 1..(i - 1)}

\* Only a trigger gives a paused scheduler a time to run.
PauseInv == halted /\ ~asked => next = "paused"

IInv ==
  PushInv /\ J!EndIsRecorded /\ J!RaisedInv /\ ResultInv /\ RunningInv /\ TriedInv
=============================================================================
