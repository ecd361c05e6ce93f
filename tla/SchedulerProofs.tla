--------------------------- MODULE SchedulerProofs ---------------------------
(***************************************************************************)
(* For any list of devices and any number of pushes: scheduled pushes are  *)
(* sequential and what is reported of them is what their jobs say, also    *)
(* when database calls raise and the process dies.                         *)
(***************************************************************************)
EXTENDS Scheduler, TLAPS

-----------------------------------------------------------------------------
(* The jobs.                                                               *)

\* A call to the jobs table changes the row and the runner of its job only.
LEMMA PutFrame ==
  ASSUME J!TypeOK, NEW j \in Jobs, NEW status, NEW label, NEW handler,
         J!Put(j, status, label, handler)
  PROVE  /\ row'[j] \in {row[j], status} /\ pc'[j] \in {label, handler}
         /\ (pc'[j] = label /\ label # handler => row'[j] = status)
         /\ \A k \in Jobs \ {j} : row'[k] = row[k] /\ pc'[k] = pc[k]
  BY DEF J!TypeOK, J!Put

\* Rows and runners keep their types.
LEMMA PutTyped ==
  ASSUME J!TypeOK, NEW j \in Jobs, NEW status \in {"queued", "running"} \cup J!Final,
         NEW label \in {"start", "work", "returned"},
         NEW handler \in {"refused", "fail", "raised"},
         J!Put(j, status, label, handler)
  PROVE  J!TypeOK'
  BY DEF J!TypeOK, J!Put, J!Final

\* A step of a runner is a step of a live one, and it stays in the type.
LEMMA RunStep ==
  ASSUME J!TypeOK, J!EndIsRecorded, J!RaisedInv, NEW j \in Jobs, J!Run(j)
  PROVE  /\ j \in J!Live /\ J!TypeOK' /\ J!EndIsRecorded' /\ J!RaisedInv'
         /\ \A k \in Jobs \ {j} : row'[k] = row[k] /\ pc'[k] = pc[k]
<1>1. CASE J!Start(j)
  BY <1>1 DEF J!Start, J!Put, J!TypeOK, J!Live, J!EndIsRecorded, J!RaisedInv, J!Final
<1>2. CASE J!Work(j)
  BY <1>2 DEF J!Work, J!TypeOK, J!Live, J!EndIsRecorded, J!RaisedInv, J!Final
<1>3. CASE J!Finish(j)
  BY <1>3 DEF J!Finish, J!AfterDone, J!Put, J!TypeOK, J!Live, J!EndIsRecorded, J!RaisedInv, J!Final
<1>4. CASE J!Fail(j)
  BY <1>4 DEF J!Fail, J!Put, J!TypeOK, J!Live, J!EndIsRecorded, J!RaisedInv, J!Final
<1> QED
  BY <1>1, <1>2, <1>3, <1>4 DEF J!Run

\* create_job touches a job nobody has used, and is refused only when the call
\* raises.
LEMMA CreateStep ==
  ASSUME J!TypeOK, J!EndIsRecorded, J!RaisedInv, NEW j \in Jobs, J!Create(j)
  PROVE  /\ pc[j] = "none" /\ pc'[j] \in {"start", "refused"}
         /\ pc'[j] = "refused" => j \in Flaky
         /\ J!TypeOK' /\ J!EndIsRecorded' /\ J!RaisedInv'
         /\ \A k \in Jobs \ {j} : row'[k] = row[k] /\ pc'[k] = pc[k]
  BY DEF J!Create, J!Put, J!TypeOK, J!EndIsRecorded, J!RaisedInv, J!Final

-----------------------------------------------------------------------------
(* One step of the scheduler.                                              *)

Inv == TypeOK /\ IInv

\* Nothing but the controls changes, and the run stays where it is.
LEMMA StepAside ==
  ASSUME Inv, IntervalElapses \/ TriggerNow \/ Pause \/ Resume \/ UNCHANGED vars
  PROVE  Inv'
<1>1. UNCHANGED <<row, pc, connected, at, i, job, tried, last_run>>
  BY DEF IntervalElapses, TriggerNow, Pause, Resume, vars, jobs, thread, control
<1>2. /\ next' \in {"paused", "later", "now"}
      /\ asked' \in BOOLEAN /\ halted' \in BOOLEAN
  BY DEF Inv, TypeOK, IntervalElapses, TriggerNow, Pause, Resume, vars, control
<1>3. TypeOK'
  BY <1>1, <1>2 DEF Inv, TypeOK, J!TypeOK, J!Final
<1>4. IInv'
  BY <1>1 DEF Inv, IInv, PushInv, ResultInv, RunningInv, TriedInv, J!Live,
              J!EndIsRecorded, J!RaisedInv, J!Final
<1> QED
  BY <1>3, <1>4 DEF Inv

\* The list of devices.
LEMMA OrderTyped ==
  Len(Order) \in Nat /\ \A n \in 1..Len(Order) : Order[n] \in Devices
  BY SchedulerAssumption DEF Devices

\* A run begins.
LEMMA StepFire ==
  ASSUME Inv, Fire
  PROVE  Inv'
<1>1. CASE at = "idle"
  <2>1. /\ UNCHANGED <<row, pc, connected, asked, halted, last_run>>
        /\ next' = "later"
        /\ at' = "device" /\ i' = 1 /\ job' = None /\ tried' = {}
    BY <1>1 DEF Fire, jobs
  <2>2. i' \in 0..Len(Order) + 1
    BY <2>1, OrderTyped
  <2>3. TypeOK'
    BY <2>1, <2>2 DEF Inv, TypeOK, J!TypeOK, J!Final
  <2>4. PushInv'
    BY <1>1, <2>1 DEF Inv, IInv, PushInv, J!Live
  <2>5. ResultInv' /\ J!EndIsRecorded' /\ J!RaisedInv'
    BY <2>1 DEF Inv, IInv, ResultInv, J!EndIsRecorded, J!RaisedInv, J!Final
  <2>6. RunningInv'
    BY <1>1, <2>1 DEF Inv, IInv, RunningInv
  <2>7. TriedInv'
    BY <2>1 DEF TriedInv
  <2> QED
    BY <2>3, <2>4, <2>5, <2>6, <2>7 DEF Inv, IInv
<1>2. CASE at # "idle"
  <2>1. /\ UNCHANGED <<row, pc, connected, at, i, job, tried, asked, halted, last_run>>
        /\ next' = "later"
    BY <1>2 DEF Fire, jobs, thread
  <2>2. TypeOK'
    BY <2>1 DEF Inv, TypeOK, J!TypeOK, J!Final
  <2>3. IInv'
    BY <2>1 DEF Inv, IInv, PushInv, ResultInv, RunningInv, TriedInv, J!Live,
                J!EndIsRecorded, J!RaisedInv, J!Final
  <2> QED
    BY <2>2, <2>3 DEF Inv
<1> QED
  BY <1>1, <1>2

\* A run ends.
LEMMA StepEnd ==
  ASSUME Inv, RunIsOver \/ Raise
  PROVE  Inv'
<1>1. UNCHANGED <<jobs, connected, control, last_run, tried>> /\ EndRun
  BY DEF RunIsOver, Raise
<1>2. TypeOK'
  BY <1>1, OrderTyped
     DEF Inv, TypeOK, EndRun, jobs, control, J!TypeOK, J!Final
<1>3. J!Live = {}
  BY DEF Inv, IInv, PushInv, RunIsOver, Raise, J!Live
<1>4. PushInv' /\ ResultInv' /\ J!EndIsRecorded' /\ J!RaisedInv' /\ TriedInv'
  BY <1>1, <1>3
     DEF Inv, IInv, PushInv, ResultInv, TriedInv, EndRun, jobs, J!Live,
         J!EndIsRecorded, J!RaisedInv, J!Final
<1>5. RunningInv'
  <2>1. at = "push" => job \in Flaky
    BY DEF RunIsOver, Raise, Inv, IInv, PushInv, J!RaisedInv
  <2> QED
    BY <1>1, <2>1 DEF Inv, IInv, RunningInv, EndRun
<1> QED
  BY <1>2, <1>4, <1>5 DEF Inv, IInv

\* A result that is not that of a push, or that of a push that has returned,
\* is recorded, and the run goes on to the next device.
LEMMA StepOn ==
  ASSUME Inv, SkipDevice \/ ReadResult
  PROVE  Inv'
<1>1. PICK status \in {"skipped"} \cup J!Final, j \in Jobs \cup {None} :
        /\ Record(Order[i], status, j)
        /\ status \in J!Final => j \in Jobs /\ pc[j] = "returned" /\ row[j] = status
  <2>1. CASE SkipDevice
    BY <2>1 DEF SkipDevice, J!Final
  <2>2. CASE ReadResult
    BY <2>2 DEF ReadResult, Inv, TypeOK, IInv, PushInv, J!EndIsRecorded
  <2> QED
    BY <2>1, <2>2
<1>2. i \in 1..Len(Order)
  BY OrderTyped DEF Inv, TypeOK, IInv, PushInv, SkipDevice, ReadResult
<1>3. /\ UNCHANGED <<row, pc, connected, next, asked, halted>>
      /\ at' = "device" /\ i' = i + 1 /\ job' \in {job, None}
      /\ tried' = tried \cup {Order[i]}
  BY DEF SkipDevice, ReadResult, jobs, control
<1>4. last_run' \in [Devices -> [status: {None, "skipped", "running"} \cup J!Final,
                                 job: Jobs \cup {None}]]
  <2>1. [status |-> status, job |-> j]
          \in [status: {None, "skipped", "running"} \cup J!Final,
               job: Jobs \cup {None}]
    OBVIOUS
  <2> QED
    BY <1>1, <2>1 DEF Inv, TypeOK, Record
<1>5. TypeOK'
  <2>1. i' \in 0..Len(Order) + 1
    BY <1>2, <1>3, OrderTyped
  <2>2. tried' \subseteq Devices
    BY <1>2, <1>3, OrderTyped DEF Inv, TypeOK
  <2> QED
    BY <1>3, <1>4, <2>1, <2>2 DEF Inv, TypeOK, J!TypeOK, J!Final
<1>6. J!Live = {}
  BY DEF Inv, IInv, PushInv, SkipDevice, ReadResult, J!Live
<1>7. PushInv'
  BY <1>2, <1>3, <1>6, OrderTyped DEF PushInv, J!Live
<1>8. ResultInv'
  BY <1>1, <1>2, <1>3, OrderTyped
     DEF Inv, TypeOK, IInv, ResultInv, Record, J!Final
<1>9. J!EndIsRecorded' /\ J!RaisedInv'
  BY <1>3 DEF Inv, IInv, J!EndIsRecorded, J!RaisedInv, J!Final
<1>10. RunningInv'
  <2>1. status # "running"
    BY DEF J!Final
  <2> QED
    BY <1>1, <1>2, <1>3, <2>1, OrderTyped DEF Inv, TypeOK, IInv, RunningInv, Record
<1>11. TriedInv'
  <2>1. tried = {Order[n] : n \in 1..(i - 1)}
    BY DEF Inv, IInv, TriedInv, SkipDevice, ReadResult
  <2>2. i \in Nat /\ 1..(i' - 1) = (1..(i - 1)) \cup {i}
    BY <1>2, <1>3, OrderTyped
  <2> QED
    BY <1>3, <2>1, <2>2 DEF TriedInv
<1> QED
  BY <1>5, <1>7, <1>8, <1>9, <1>10, <1>11 DEF Inv, IInv

\* A push starts, or its row cannot be inserted.
LEMMA StepStart ==
  ASSUME Inv, StartPush
  PROVE  Inv'
<1>1. PICK j \in Jobs :
        /\ J!Create(j)
        /\ IF pc'[j] = "start"
           THEN /\ Record(Order[i], "running", j)
                /\ at' = "push" /\ job' = j
                /\ UNCHANGED i
           ELSE EndRun /\ UNCHANGED last_run
  BY DEF StartPush
<1>2. /\ pc[j] = "none" /\ pc'[j] \in {"start", "refused"}
      /\ J!TypeOK' /\ J!EndIsRecorded' /\ J!RaisedInv'
      /\ \A k \in Jobs \ {j} : row'[k] = row[k] /\ pc'[k] = pc[k]
  BY <1>1, CreateStep DEF Inv, TypeOK, IInv
<1>3. i \in 1..Len(Order) /\ J!Live = {}
  BY OrderTyped DEF Inv, TypeOK, IInv, PushInv, StartPush, J!Live
<1>4. ASSUME NEW d \in Devices, last_run[d].status \in J!Final
      PROVE  /\ last_run[d].job \in Jobs
             /\ pc'[last_run[d].job] = "returned"
             /\ row'[last_run[d].job] = last_run[d].status
  BY <1>2, <1>4 DEF Inv, IInv, ResultInv
<1>5. J!Live' \subseteq {j}
  BY <1>2, <1>3 DEF J!Live
<1>6. CASE pc'[j] = "start"
  <2>1. Record(Order[i], "running", j) /\ at' = "push" /\ job' = j /\ i' = i
    BY <1>1, <1>6
  <2>2. last_run' \in [Devices -> [status: {None, "skipped", "running"} \cup J!Final,
                                   job: Jobs \cup {None}]]
    <3>1. [status |-> "running", job |-> j]
            \in [status: {None, "skipped", "running"} \cup J!Final,
                 job: Jobs \cup {None}]
      OBVIOUS
    <3> QED
      BY <2>1, <3>1 DEF Inv, TypeOK, Record
  <2>3. TypeOK'
    BY <1>2, <1>3, <2>1, <2>2 DEF Inv, TypeOK, StartPush, control
  <2>4. PushInv'
    BY <1>3, <1>5, <2>1 DEF PushInv
  <2>5. ResultInv'
    BY <1>3, <1>4, <2>1, OrderTyped DEF Inv, TypeOK, ResultInv, Record, J!Final
  <2>6. RunningInv'
    BY <1>3, <2>1, OrderTyped
       DEF Inv, TypeOK, IInv, RunningInv, Record, StartPush
  <2>7. TriedInv'
    BY <2>1 DEF Inv, IInv, TriedInv, StartPush
  <2> QED
    BY <1>2, <2>3, <2>4, <2>5, <2>6, <2>7 DEF Inv, IInv
<1>7. CASE pc'[j] # "start"
  <2>1. EndRun /\ last_run' = last_run
    BY <1>1, <1>7
  <2>2. J!Live' = {}
    BY <1>2, <1>5, <1>7 DEF J!Live
  <2>3. TypeOK'
    BY <1>2, <2>1, OrderTyped DEF Inv, TypeOK, StartPush, EndRun, control
  <2>4. PushInv'
    BY <2>1, <2>2 DEF PushInv, EndRun
  <2>5. ResultInv'
    BY <1>4, <2>1 DEF ResultInv, J!Final
  <2>6. RunningInv' /\ TriedInv'
    BY <2>1 DEF Inv, IInv, RunningInv, TriedInv, StartPush, EndRun
  <2> QED
    BY <1>2, <2>3, <2>4, <2>5, <2>6 DEF Inv, IInv
<1> QED
  BY <1>6, <1>7

\* The push goes on.
LEMMA StepPush ==
  ASSUME Inv, Push
  PROVE  Inv'
<1>1. job \in Jobs /\ J!Run(job)
  BY DEF Inv, IInv, PushInv, Push
<1>2. /\ job \in J!Live /\ J!TypeOK' /\ J!EndIsRecorded' /\ J!RaisedInv'
      /\ \A k \in Jobs \ {job} : row'[k] = row[k] /\ pc'[k] = pc[k]
  BY <1>1, RunStep DEF Inv, TypeOK, IInv
<1>3. UNCHANGED <<connected, at, i, job, tried, next, asked, halted, last_run>>
  BY DEF Push, thread, control
<1>4. TypeOK'
  BY <1>2, <1>3 DEF Inv, TypeOK, J!Final
<1>5. PushInv'
  BY <1>1, <1>2, <1>3 DEF Inv, IInv, PushInv, J!Live
<1>6. ResultInv'
  BY <1>2, <1>3 DEF Inv, IInv, ResultInv, J!Live, J!Final
<1>7. RunningInv' /\ TriedInv'
  BY <1>3 DEF Inv, IInv, RunningInv, TriedInv
<1> QED
  BY <1>2, <1>4, <1>5, <1>6, <1>7 DEF Inv, IInv

\* The process dies and starts again.
LEMMA StepRestart ==
  ASSUME Inv, Restart
  PROVE  Inv'
<1>1. J!TypeOK' /\ J!EndIsRecorded' /\ J!RaisedInv' /\ J!Live' = {}
  BY DEF Inv, TypeOK, IInv, Restart, J!TypeOK, J!EndIsRecorded, J!RaisedInv, J!Live,
         J!Final
<1>2. last_run' = [d \in Devices |-> NotRun] /\ EndRun
  BY DEF Restart
<1>3. last_run' \in [Devices -> [status: {None, "skipped", "running"} \cup J!Final,
                                 job: Jobs \cup {None}]]
  <2>1. [status |-> None, job |-> None]
          \in [status: {None, "skipped", "running"} \cup J!Final,
               job: Jobs \cup {None}]
    OBVIOUS
  <2> QED
    BY <1>2, <2>1 DEF NotRun
<1>4. TypeOK'
  <2>1. i' \in 0..Len(Order) + 1
    BY <1>2, OrderTyped DEF EndRun
  <2>2. connected' \subseteq Devices /\ tried' \subseteq Devices
    BY DEF Restart
  <2>3. next' = "later" /\ asked' = FALSE /\ halted' = FALSE
    BY DEF Restart
  <2> QED
    BY <1>1, <1>2, <1>3, <2>1, <2>2, <2>3 DEF EndRun, TypeOK
<1>5. PushInv'
  BY <1>1, <1>2 DEF PushInv, EndRun
<1>6. ResultInv'
  BY <1>2, SchedulerAssumption DEF ResultInv, NotRun, J!Final
<1>7. RunningInv' /\ TriedInv'
  BY <1>2, SchedulerAssumption DEF RunningInv, TriedInv, NotRun, EndRun
<1> QED
  BY <1>1, <1>4, <1>5, <1>6, <1>7 DEF Inv, IInv

-----------------------------------------------------------------------------
(* Theorems.                                                               *)

\* The inductive invariant holds at first.
LEMMA InitInv == Init => Inv
<1>1. SUFFICES ASSUME Init PROVE Inv
  OBVIOUS
<1>2. J!TypeOK /\ J!EndIsRecorded /\ J!RaisedInv /\ J!Live = {}
  BY <1>1 DEF Init, J!Init, J!TypeOK, J!EndIsRecorded, J!RaisedInv, J!Live, J!Final
<1>3. TypeOK
  <2>1. [status |-> None, job |-> None]
          \in [status: {None, "skipped", "running"} \cup J!Final,
               job: Jobs \cup {None}]
    OBVIOUS
  <2>2. last_run \in [Devices -> [status: {None, "skipped", "running"} \cup J!Final,
                                  job: Jobs \cup {None}]]
    BY <1>1, <2>1 DEF Init, NotRun
  <2>3. i \in 0..Len(Order) + 1
    BY <1>1, OrderTyped DEF Init
  <2>4. connected \subseteq Devices /\ tried \subseteq Devices
    BY <1>1 DEF Init
  <2> QED
    BY <1>1, <1>2, <2>2, <2>3, <2>4 DEF Init, TypeOK
<1>4. PushInv
  BY <1>1, <1>2 DEF Init, PushInv
<1>5. ResultInv
  BY <1>1, SchedulerAssumption DEF Init, ResultInv, NotRun, J!Final
<1>6. RunningInv /\ TriedInv
  BY <1>1, SchedulerAssumption DEF Init, RunningInv, TriedInv, NotRun
<1> QED
  BY <1>2, <1>3, <1>4, <1>5, <1>6 DEF Inv, IInv

\* And in every reachable state.
LEMMA InvInductive == Spec => []Inv
<1>1. Inv /\ [Next]_vars => Inv'
  BY StepAside, StepFire, StepEnd, StepOn, StepStart, StepPush, StepRestart
     DEF Next, ScheduledPush
<1> QED
  BY InitInv, <1>1, PTL DEF Spec

\* Type correctness of the scheduler and its jobs in every reachable state.
THEOREM TypeCorrect == Spec => []TypeOK
  BY InvInductive, PTL DEF Inv

\* No two scheduled pushes are under way together, whatever triggers, failing
\* database calls and restarts come in between.
THEOREM PushesSequential == Spec => []Sequential
<1>1. Inv => Sequential
  BY DEF Inv, IInv, PushInv, Sequential
<1> QED
  BY InvInductive, <1>1, PTL

\* The result that the status request reports is the one in the job's row.
THEOREM StatusTrue == Spec => []LastRunTrue
<1>1. Inv => LastRunTrue
  BY DEF Inv, IInv, ResultInv, LastRunTrue
<1> QED
  BY InvInductive, <1>1, PTL

\* Between two runs no device is reported as running, except one whose run was
\* ended by a database call that raised.
THEOREM NothingLeftRunning == Spec => []IdleShowsNoRun
<1>1. Inv => IdleShowsNoRun
  BY DEF Inv, IInv, RunningInv, IdleShowsNoRun
<1> QED
  BY InvInductive, <1>1, PTL

\* No device is passed over: a run that ends has a result for every device of the
\* list, unless a database call raised or the process died.
THEOREM NoDevicePassedOver == Spec => EveryDeviceTried
<1>1. ASSUME Inv, Next, at # "idle", at' = "idle"
      PROVE  tried = Devices \/ JobIsFlaky \/ Restart
  <2>1. CASE RunIsOver
    <3>1. i \in 0..Len(Order) + 1 /\ i > Len(Order)
      BY <1>1, <2>1 DEF Inv, TypeOK, RunIsOver
    <3>2. i - 1 = Len(Order)
      BY <3>1, OrderTyped
    <3> QED
      BY <1>1, <3>2 DEF Inv, IInv, TriedInv, Devices
  <2>2. CASE StartPush
    <3>1. PICK j \in Jobs : J!Create(j) /\ pc'[j] # "start"
      BY <1>1, <2>2 DEF StartPush
    <3>2. pc[j] = "none" /\ pc'[j] = "refused" /\ j \in Flaky
      BY <1>1, <3>1, CreateStep DEF Inv, TypeOK, IInv
    <3> QED
      BY <3>2 DEF JobIsFlaky
  <2>3. CASE Raise
    BY <1>1, <2>3 DEF Raise, Inv, IInv, PushInv, J!RaisedInv, JobIsFlaky
  <2>4. CASE SkipDevice \/ Push \/ ReadResult
    BY <1>1, <2>4 DEF SkipDevice, Push, ReadResult, thread
  <2>5. CASE IntervalElapses \/ Fire \/ TriggerNow \/ Pause \/ Resume
    BY <1>1, <2>5
       DEF IntervalElapses, Fire, TriggerNow, Pause, Resume, thread
  <2> QED
    BY <1>1, <2>1, <2>2, <2>3, <2>4, <2>5 DEF Next, ScheduledPush
<1>2. Inv /\ [Next]_vars =>
        [at # "idle" /\ at' = "idle" => tried = Devices \/ JobIsFlaky \/ Restart]_vars
  BY <1>1
<1> QED
  BY InvInductive, <1>2, PTL DEF Spec, EveryDeviceTried

\* A paused scheduler starts no run, whatever was due or passed over when it was
\* paused and however long it has been, until it is resumed, triggered or started
\* anew.
THEOREM PausedStays == Spec => PauseHeeded
<1>1. Init => PauseInv
  BY DEF Init, PauseInv
<1>2. PauseInv /\ [Next]_vars => PauseInv'
  <2>1. ASSUME PauseInv, IntervalElapses \/ Fire PROVE PauseInv'
    BY <2>1 DEF PauseInv, IntervalElapses, Fire
  <2>2. ASSUME TriggerNow \/ Pause \/ Resume \/ Restart PROVE PauseInv'
    BY <2>2 DEF PauseInv, TriggerNow, Pause, Resume, Restart
  <2>3. ASSUME PauseInv, ScheduledPush PROVE PauseInv'
    BY <2>3 DEF PauseInv, ScheduledPush, RunIsOver, SkipDevice, StartPush, Push,
                ReadResult, Raise, control
  <2> QED
    BY <2>1, <2>2, <2>3 DEF Next, PauseInv, vars, control
<1>3. PauseInv /\ [Next]_vars => [halted /\ at = "idle" /\ at' # "idle" => asked]_vars
  <2>1. SUFFICES ASSUME PauseInv, Next, halted, at = "idle", at' # "idle"
                 PROVE  asked
    OBVIOUS
  <2>2. Fire
    BY <2>1 DEF Next, IntervalElapses, TriggerNow, Pause, Resume, ScheduledPush,
                RunIsOver, SkipDevice, StartPush, Push, ReadResult, Raise, Restart,
                EndRun, thread
  <2> QED
    BY <2>1, <2>2 DEF Fire, PauseInv
<1> QED
  BY <1>1, <1>2, <1>3, PTL DEF Spec, PauseHeeded

\* The rows and runners of scheduled pushes change as those of any job: every step
\* of the scheduler is one of Jobs or leaves them alone.
THEOREM ImplementsJobs == Spec => JobsImplemented
<1>1. Init => J!Init
  BY DEF Init
<1>2. ASSUME Inv, Next
      PROVE  J!Next \/ UNCHANGED J!vars
  <2>1. CASE StartPush
    BY <2>1 DEF StartPush, J!Next
  <2>2. CASE Push
    BY <1>2, <2>2 DEF Push, Inv, IInv, PushInv, J!Next
  <2>3. CASE Restart
    <3>1. CASE J!Live = {}
      <4>1. pc' = pc
        BY <1>2, <2>3, <3>1 DEF Restart, Inv, TypeOK, J!TypeOK
      <4> QED
        BY <2>3, <4>1 DEF Restart, J!vars
    <3>2. CASE J!Live # {}
      BY <2>3, <3>2 DEF Restart, J!Next, J!Crash
    <3> QED
      BY <3>1, <3>2
  <2>4. CASE RunIsOver \/ SkipDevice \/ ReadResult \/ Raise
    BY <2>4 DEF RunIsOver, SkipDevice, ReadResult, Raise, jobs, J!vars
  <2>5. CASE IntervalElapses \/ Fire \/ TriggerNow \/ Pause \/ Resume
    BY <2>5 DEF IntervalElapses, Fire, TriggerNow, Pause, Resume, jobs, J!vars
  <2> QED
    BY <1>2, <2>1, <2>2, <2>3, <2>4, <2>5 DEF Next, ScheduledPush
<1>3. UNCHANGED vars => UNCHANGED J!vars
  BY DEF vars, jobs, J!vars
<1>4. Inv /\ [Next]_vars => [J!Next]_(J!vars)
  BY <1>2, <1>3
<1> QED
  BY InvInductive, <1>1, <1>4, PTL DEF Spec, J!Spec, JobsImplemented
=============================================================================
