# A verification development for the Dahua access control API

The repository is a FastAPI application in front of Dahua door controllers. It
keeps one logged-in SDK client per device, moves and enrolls users, and pushes
the attendance records of the devices to the DGHS API, on request and from a
scheduler. This directory holds TLA+ models of the parts that keep state and
run concurrently, the TLC runs that check them on small instances, and TLAPS
proofs of the main invariants for every value of the constants.

    tlc -config DghsPush_overlap.cfg MCDghsPush.tla     # a run
    tlapm DghsPushProofs.tla                            # a proof module

## Inventory

| Component | State | Operations | Correct when |
|---|---|---|---|
| DGHS push (`services/dghs_service.py`) | `dghs_state.last_pushed`, locals of a run | `run_dghs_push`: window, read, photos, batches, save; reset | every record reaches DGHS although runs overlap, calls fail and the process dies |
| Device pool (`core/device_pool.py`) | `_clients`, `_locks`, session ids | `register`, `run`, `run_sync`, `_ensure_login`, `shutdown` | calls on one device exclude each other, no session is opened beside one still in use, a shutdown closes what can be closed, every call returns |
| Device client (`core/dahua_client.py`) | session id | login, logout, user, face and record calls of the NetSDK | - (used by the others) |
| Migration (`services/migration_service.py`) | none of its own; users and faces on devices | read, write, delete | the user is somewhere, and what arrives is what was read |
| Background jobs (`services/job_service.py` and the runners) | rows of the table `jobs` | create, start, progress, done, failed | a polling client sees the truth and at last a final status, which stands |
| Scheduler (`services/scheduler_service.py`) | APScheduler's next run time, `_last_run` | interval, trigger, pause, resume, `scheduled_push` | pushes are sequential, every device gets its turn, the reported status is true |
| Database (`core/db.py`) | PostgreSQL tables `jobs`, `dghs_state` | one transaction per call | - (used by the others) |
| Start and stop (`main.py`) | - | `lifespan` | what is started is stopped |
| Users (`services/user_service.py`) | users and faces on a device | enroll, overwrite, delete | a photo is only ever with the profile of its person |
| Bulk enrollment (`services/bulk_enroll_service.py`, `routers/bulk_enroll.py`) | the job's row and its report; users on a device | `enroll_async`, `run_bulk_enroll_job` | the report is what the device holds, existing users are kept |
| Face look-up (`routers/face_lookup.py`) | - (reads while moves go on) | one look-up over several devices | "no photo" is said only when there is a reason |
| Attendance | - | reads | not modelled |
| Authentication, rate limit, configuration, schemas, logging, meta, scripts | - | stateless | not modelled |

How they interact. A request handler on the event loop calls a device through
`DevicePool.run`, which waits for the device's lock in a thread of the default
executor. A long operation inserts a row into `jobs`, is answered with its id,
and goes on in a background task that calls devices through `run_sync`. The
scheduler's thread does the same for its pushes, one device after the other.
Pushes of the scheduler and of requests share nothing but the device's lock and
the row in `dghs_state`. Moves, enrollments and look-ups share the devices.
Nothing is locked across two calls of the pool: a move can be passed between its
read, write and delete, a file between its rows, and a look-up between its
devices.

What is hard to test here: overlapping pushes and moves; failures between an
effect on the outside (a record posted, a user deleted) and the note made of it;
database calls that raise although they have committed; a process that dies with
jobs under way; a shutdown that overtakes the scheduler's thread; a device that
drops its session or breaks off an enumeration; a profile that is written while
the photo that belongs to it is not. The full list, line by line,
with the properties that cover it, is under `hazards` in `PROJECT.json`.

## Modules

| Module | Models | TLC module | Proofs |
|---|---|---|---|
| `Cursor` | abstract: what the pushes of a device promise | - | - |
| `DghsPush` | the pushes of one device and the marker; implements `Cursor` | `MCDghsPush` | `DghsPushProofs` |
| `DevicePool` | locks, executor, sessions, start and stop | `MCDevicePool` | `DevicePoolProofs` |
| `DahuaClient` | the SDK's user and face calls: what each can leave and report | - | `DahuaClientProofs` |
| `Migration` | moves of one user over any devices; extends `DahuaClient` | `MCMigration` | `MigrationProofs` |
| `FaceLookup` | look-ups beside moves; extends `Migration` | `MCFaceLookup` | `FaceLookupProofs` |
| `Users` | the requests that enroll and delete users of a device; extends `DahuaClient` | `MCBulkEnroll` | `BulkEnrollProofs` |
| `BulkEnroll` | a file job beside such requests; extends `Users`, implements `Jobs` | `MCBulkEnroll` | `BulkEnrollProofs` |
| `Jobs` | rows of jobs and their runners | `MCJobs` | `JobsProofs` |
| `Scheduler` | the scheduler, composed with `Jobs` by `INSTANCE`; implements `Jobs` | `MCScheduler` | `SchedulerProofs` |

Each definition that models code is listed in `PROJECT.json` with its lines.
Definitions under a comment that begins with "Broken:" are the code with a
plausible mistake in it. No specification uses them: each is put in the place
of the definition below it to see that a property notices.

### DghsPush

One device; devices share nothing here. A record is a time, a user and whether
access was granted. `Step(w)` follows `run_dghs_push` in the slot `w`:
`Begin`, `ResolveWindow` (the saved marker, `since`, or the look-back),
`ReadRecords` (one critical section; the filters of `_read`), `FetchFaces`,
then for every batch `PushBatch` or `PushBatchFails` and `SaveState`, then
`Finish`. `Raise` is an exception at any place: the run is over and nothing is
undone. An error or a timeout of the POST leaves any part of the batch with
DGHS. `Crash` ends all runs. The scheduled slot makes plain requests only,
since APScheduler runs one instance; the number of manual runs at a time is the
number of other slots.

Four time scales meet: the device's clock (`now`, and the time of a record),
the saved timestamp (`Stamp`, which adds six hours: `BstShift`), the server's
local clock (`LocalShift`) and the window of a search as the device compares it
(`QueryShift`). The shifts are constants so that the runs can differ.

`ReadRecords` that reads nothing ends the run as done (`dghs_service.py:345`). A
record without a timestamp, which `_read` skips, is not one of the model: the
device stamps what it logs.

`excuses` is a history variable. A request with a filter, or whose window does
not start at the marker (`LeavesOut`), may leave records behind on purpose and
still move the marker. `Handled(r)` means: no user, or DGHS has it, or left out
by such a request: it fails its filter or lies before its start, and lies before
the end of its window (`until`), so that what is logged later is not excused. The
properties are about records that are not excused this way. Note that the
look-back of a first push is such a window: what is older than
`DGHS_DEFAULT_DAYS` when the first push runs is never sent.

Assumed of the device, from how the code uses it: a search includes both ends
of its window; time goes on (a clock set back is not modelled); the enumeration
is in one of the two orders; a failed `FindRecord` or `FindNextRecord` yields
what came before it in that order. The reset request has no action: it uses an
interface of sqlite3 on a psycopg2 connection and raises before any SQL is sent.
A page shorter than asked for ends an enumeration as a failed call does; pages
themselves are left out.

`Cursor` is the promise without windows, filters, batches, runs or failures: a
log that only grows, what is done with, and a cursor that is only put on an entry
that is done with, when everything older is done with too. `IsCursor` is
`Cursor!Spec` with `entries <- log`, `done <-` the handled records and
`cursor <- last_pushed`: every step of a push is `Work`, `Move`, or a stutter,
and the device's is `Log`.

### DevicePool

`Register` to `ClearLocks` are `lifespan` and `shutdown`; `Step(t)` is one call
of a thread: `Submit` and `StartWorker` for `run`, `Check` and `LookUp` for
`run_sync` (two steps, since shutdown can come between them), then `Acquire`,
`EnsureLogin`, `Login`, `Call`. Three kinds of thread differ in who waits for
them: the server finishes requests and background tasks before the shutdown
part of `lifespan` runs, and nobody waits for the scheduler's thread
(`shutdown(wait=False)`). `sessions` counts what is open on the device;
`login_id` is what the client believes. `Drop` is the device ending a session.
`LogoutClient` has the three outcomes of `client.logout`: the session ends, it
stays open and the id is given up all the same (what the SDK answers is not
looked at), or the call raises and the id stays, in which case the session may
have ended or not; `shutdown` catches it and goes on to the next client
(`Logout`). `unclosed` and `reopened` are history: the devices whose session a
logout has left open, and those a call has logged in to after their logout. So
`OneSession` and `AllClosed` say which sessions may be left, and why.

### Migration

The entry of one user id on every device. A mover makes move after move, as a
request handler or a bulk job does; the request is chosen anew every time. The
three phases are atomic because each is one call of the pool under the device's
lock (MutualExclusion of `DevicePool` is what justifies this; for the thread
that shutdown overtakes it also holds).

The SDK calls themselves are in `DahuaClient`, shared with `Users`: an entry is
what a device holds under one id (a profile and a photo, each possibly `None`),
and a call is the set of what it can leave and report. A put call can fail with
or without having had its effect: `Outcomes`. A get call that fails is
indistinguishable from "nothing there": `Got`. No call raises for an id that fits
its field.

### FaceLookup

A look-up asks the devices of its route one after the other (`Ask`), each under
its own lock; a pool that raises counts as a device without the photo
(`AskInVain`). `Routes` are the three forms of the request: host then recv, both
of them always, or one device. The names are written into the code and are two
pairs: `Host` and `Recv` ("host", "recv") are those the first two forms ask,
`Single` ("2400130", "2400131") those the third takes, and only if they are
configured. A name that is not configured answers "nothing". With devices called
host and recv, as `.env.example` has it, the third form is always refused; with
those of `.env` the first two ask nobody. Moves are those of `Migration`.
`passed` is history: whether at some moment on the way no device the answer is
about had the photo (`Absent`: all there are, or the one that is named), and
whether the photo came to a device that had been asked. `unasked` keeps the
devices the pool raised for. `NotFoundIsTrue` says that one of the three explains
every "no photo". A move against the order of the look-up, from recv to host, can
overtake it.

### Users and BulkEnroll

One device and several ids. `EnrollUser` and `DeleteUser` are one critical
section each, with every SDK call they make failing in every way. `Owner` says
whose face is on a photo. `doubtful` is history: the ids whose photo the code
itself may have left with the wrong profile, in the three ways it has: a delete
whose `remove_face` failed unnoticed, a request to overwrite that fails between
the profile and the photo, and a file that overwrites profiles and never touches
photos. `FaceBelongs` is about all other ids.

`BulkEnroll` is `enroll_async` (`Submit`) and the runner: `Start`, `Progress`
before each fifth row, `EnrollRow`, `Finish`, `Fail`, with `Crash` at any
moment and `Other` requests between the rows. A row carries its id, its profile
and what is wrong with it; parsing has turned the file into rows before. `Checks`
are the job's own checks in their order; `Verdict` is the first that fails. What
passes them and still raises are an id of too many bytes and an end of validity
that is no date. `Finish` commits "done" and then, if INFO records are logged
(`LogsInfo`; the default), raises in the log call that follows it, so that the
runner goes on to `Fail`.
`before` and `touched` are history: what the device held when the file was sent,
and the ids other requests have been about since.

`ReportTrue` reads the report as a whole: the device holds, under each id no
other request has touched, the profile of the last row reported as enrolled or of
a later one whose `insert_user` failed, and otherwise what was there before.
`IsJob` is `Jobs!Spec` for the single job of the file: rows are its work, and a
request refused before there is a job is none.

### Jobs and Scheduler

`Jobs` has one runner per job. A database call commits, raises without having
committed, or raises after having committed (`Put`). `Flaky` says for which jobs it can raise. `Guarded` runners write
"running" inside their try block, the others before it. `Tolerant` ones report
a failing item and go on. `AfterDone` is where a runner is once "done" is
committed: back with its caller, or, for a file whose counts are logged, in its
except clause, because one of the counts is called "created" and a log record
has an attribute of that name (`bulk_enroll_service.py:220` and `254`). `Scheduler`
instantiates `Jobs`: a step of a scheduled push is a step of the job's runner in the scheduler's thread. `next` is the next
run time of the APScheduler job: paused, later or now. `TriggerNow` sets it,
paused or not, as `modify_job` does; `Fire` passes the time over while a run is
under way, as `max_instances = 1` does. `Restart` ends the process and starts it
again with whatever devices can be reached. `asked`, `halted` and `tried` are
history. `JobsImplemented` is `Jobs!Spec` for the jobs of scheduled pushes, which
`Restart` loses as `Crash` does. A device without DGHS mapping and a trigger without a scheduler do not
occur (both devices are mapped; the scheduler runs whenever requests are
served). A run that APScheduler starts too late and drops (misfire grace) is not
distinguished from one that is passed over.

## Runs

Deadlock is checked except where a bound of the model stops it: the clock and
the log of `DghsPush`, the job ids of `Jobs` and `Scheduler`, the one file and
the other requests of `BulkEnroll`.

| Run | Shows | Bounds |
|---|---|---|
| `DghsPush_overlap` | TypeOK, NoUnexplainedGap, MarkerIsAccepted, IsCursor (refinement), Delivered (liveness) | a scheduled push and a manual one with a filter or a start time, 2 ticks, 2 records, batches of 1, truncated enumerations |
| `DghsPush_single` | NoUnexplainedGap, CompleteRun, ResendsNothingOlder | one push at a time with filters, a start time and ignore_state, 2 ticks, 3 records, 2 users, batches of 2, shifted clocks |
| `DevicePool_calls` | TypeOK, MutualExclusion, OneSession, AllClosed, EveryCallReturns (liveness) | 2 devices, 4 calls of all kinds, 1 worker, every outcome of a login and a logout |
| `Migration_single` | TypeOK, NeverLost, ArrivesAsRead, DeletesOnlyCopied | 2 devices, 2 profiles, 2 faces, every failure |
| `FaceLookup_moves` | LookupTypeOK, NeverLost, NotFoundIsTrue | 2 devices with the names host and recv, 2 movers, 1 look-up, no overwrite, failing writes |
| `BulkEnroll_file` | BulkTypeOK, FaceBelongs, ReportTrue, KeepsExisting, IsJob (refinement), RunnerEnds (liveness) | 2 ids, 2 people with a profile and a photo each, files of up to 3 rows, progress every second row, 1 other request, every failure but that of a get call, crashes |
| `Jobs_faults` | TypeOK, FinalStands, EndIsRecorded, JobsEnd (liveness) | one job of each kind, two with database failures, crashes |
| `Scheduler_faults` | TypeOK, Sequential, LastRunTrue, IdleShowsNoRun, EveryDeviceTried, PauseHeeded, JobsImplemented (refinement), RunsEnd (liveness) | 2 devices, 3 jobs, one with database failures, every other fault |

Why the bounds are enough. Two records and two pushes are the least with which
a marker can pass a record, be moved back, and split a second over two batches;
three records add a full batch of two, one that is left over, and a second user.
Three jobs are a whole round of two devices and the first of the next. With two
devices and two movers every phase of a move meets every phase of an opposite
one, and the photo can pass a look-up. Two ids are one the file is about and one
it is not, or two; three rows are a user created, refused or overwritten, and
met again, with a progress update (`Every`, 5 in the code) in between. The run
starts from every content of the device. One other request before, between or
after the rows is enough, since the properties except the ids it is about, and
`FaceBelongs` compares one request's leavings with the next row. The main
invariants are proved for all sizes below.

The following runs find a violation on purpose: each checks what a document,
a comment or a message of the repository says and what the code does not do.

| Run | Statement | What happens |
|---|---|---|
| `DevicePool_relogin` | "Re-login if a previous call dropped the session" (`device_pool.py:36`) | nothing notices a dropped session |
| `Migration_overwrite` | "Atomically move a user" (`routers/migration.py:26`) | two opposite moves delete the user everywhere |
| `FaceLookup_env` | "no face photo on either device" (`face_lookup.py:160`) | with the names of `.env` no device is asked |
| `Jobs_final` | "final results" (`routers/bulk_enroll.py:138`) | logging the counts turns a job that is done into one that failed |

Other differences met while modelling, which the models reflect and no run is
spent on: the reset request always raises (`routers/dghs.py:96`); the marker
moves with every accepted batch and not only "on full success"
(`routers/dghs.py:35`); a run whose enumeration broke off is done without
failures although it has not read its window (`dahua_client.py:292`; CompleteRun
is checked without such breaks); shutdown logs out, without the lock, under a
call of the scheduler's thread (`device_pool.py:68`); a move that fails halfway
leaves the target changed, the face of an overwritten user stays when the new one
has none, and a face is lost when reading it fails (`migration_service.py:39-56`);
a row whose `get_user` fails overwrites the user who is there and is reported as
created (`bulk_enroll_service.py:110`, which is why GetsFail is FALSE in
`BulkEnroll_file`); a row the dry run finds ready to enroll fails on 29 February,
for most numbers of years, and when its id has too many bytes
(`bulk_enroll_service.py:119`); a job whose update to "running" raises outside the
try block stays queued (`dghs_service.py:290`), and after a restart rows say
"running" with nothing behind them, whereas the repository's README.md:14 says
"Persistent jobs ... survives restarts"; a trigger that comes due during a run is
answered and passed over, and one that comes during a pause ends the pause for
good, which should last "until resumed" (`scheduler_service.py:177`,
`routers/scheduler.py:34`); the documented `?device=host` and `?device=recv` of a face look-up are refused
(`face_lookup.py:108`); a photo can stay behind a deleted or overwritten user
(`user_service.py:56`); the handler of device errors logs with a reserved name,
too, and raises instead of answering (`exceptions.py:48`).

## Fairness

- `DevicePool`, `Jobs`: weak fairness of every thread. SDK calls take a timeout
  (`WAIT_MS`) and the HTTP calls `DGHS_HTTP_TIMEOUT_SEC`; a lock wakes one of
  those who wait. No fairness among those who wait for a lock is needed, since
  every thread makes a bounded number of calls. Logins may fail.
- `BulkEnroll`: weak fairness of the runner, for the same reason: the task is run
  once it is added, and every call it makes returns or raises.
- `Scheduler`: weak fairness of the run under way, for the same reason. Nothing
  is assumed of triggers, pauses and the interval.
- `DghsPush`: weak fairness of the scheduled slot, whose run the interval starts
  again and again, and `FaultsCease`: from some time on no call fails, no
  enumeration breaks off and the process stays up. Without it an API that is never back defeats any pusher.
  Manual pushes are not fair: they may hang anywhere, and move the marker.

## Proofs

Theorems are about the specification of their component without fairness, for
every value of the constants that satisfies the named ASSUME of the module. A
further hypothesis stands as an ASSUME in the theorem and is explained here.
Every proof follows the same line: an inductive invariant, stated at the end of
the component's module and checked with TLC first, with a lemma for each part
or for each action. Every safety invariant and action property of a passing run
is the statement of a theorem.

The push (`DghsPushProofs`), for any number of overlapping runs unless said
otherwise. The invariants build on each other:

- `MarkerAccepted`: MarkerIsAccepted, without hypotheses, whatever the clocks and
  enumerations do. `BaseInv`: what a run sent is with DGHS, batches go from old to
  new, and the timestamp about to be saved is that of an answered record.
- `MarkerSafe`: NoUnexplainedGap. Two hypotheses say what must be true of the
  device. `ClocksAgree`: a stored time plus what the device adds for a search is
  not behind the saved timestamp, or the next window would start after unsent
  records. `ListingSafe`: an enumeration that can break off goes from old to new.
  Without either TLC finds a gap. `IInv` adds for every run: what its window and
  filters leave out has an excuse or lies under a marker that was right when it
  was read (and stays so: nothing that is handled becomes owed, and no record
  comes in under a marker that is not ahead of the clock); what it did not read
  and is older than something it read is handled. That the argument never
  mentions other runs' progress is why pushes may overlap freely.
- `PushIsCursor`: IsCursor, under the same two hypotheses. Each step is mapped by
  a lemma of its own (`CursorStep`): the saved marker is the timestamp of a record
  of an accepted batch, and the invariant says that everything older is handled.
- `RunIsComplete`: CompleteRun, if the clocks agree, no enumeration breaks off
  (otherwise a broken one passes for a whole one) and `WindowReaches`: the scale of the
  device is at most one tick ahead of the server's clock, or a record of the
  window could lie past its end as the device sees it. `CompleteInv` adds
  that nothing can still come in from before the end of the window, that what
  was not read from before that end is handled, and that a run without a failed
  batch has sent all it read, which is a finite set cut into batches that are
  never empty.
- `NothingOlderResent`: ResendsNothingOlder, for one pusher, if the device does not
  compare on a scale ahead of the marker's (`MarkerReaches`). With two pushers it
  is false: one may save a marker while the other still has older records to
  send. `ResendInv`: what a resuming run has left to send is not before the
  marker, which only it can move. It is a bound from below: what DGHS took and no
  marker was saved for is newer and is posted again.

The other components:

- `DevicePoolProofs`, no hypotheses. `CallsExclude`: MutualExclusion; who is
  inside a critical section owns the lock of its device (`LockInv`).
  `SessionsSingle`: OneSession; a client without a session id has no session but
  the one its logout left, and who is about to log in has found it without one
  under the lock (`SessionInv`). `NothingLeftOpen`: AllClosed; while the pool
  serves, who has a session is registered (`RegisteredInv`), so the shutdown comes
  to it, and what is open while the pool closes still has its logout before it,
  or survived it, or was opened after it (`ClosedInv`).
- `MigrationProofs!UserSurvives`: NeverLost, if nobody asks for
  overwrite_target and get calls do not fail. The invariant counts: there are
  more devices that hold the user than movers about to delete him, because a
  mover reaches its delete only by making a new holder. `Migration_overwrite`
  shows the first hypothesis is needed: a mover that overwrites makes no new
  holder. So is the second: a failed get_user looks like a free id. `DahuaClientProofs`
  has the lemmas about what each SDK call leaves that this proof and
  those of `BulkEnroll` share.
- `MigrationProofs!SoloSurvives`, `SoloArrives`, `SoloDeletesCopied`: NeverLost,
  ArrivesAsRead and DeletesOnlyCopied for a single mover (`Alone`), with every
  option and with every call failing, get calls included. `SoloInv`: until the
  delete the source still holds what was read, and from the write on the target
  does, because `_write` ends by finding the user there. So one move at a time
  loses nobody, and the two hypotheses of UserSurvives are the price of several.
- `JobsProofs`, no hypotheses, for any jobs of any kinds. `FinalIsFinal`:
  FinalStands; the runner of a row that is final is over, or is in its except
  clause with "done" in the row and one of the two reasons for it (`OverInv`).
  `EndRecorded`: EndIsRecorded.
  `StuckIsExplained`: a job that is left queued or running with no runner behind
  it has had one of its own database calls raise, or was lost with the process.
- `SchedulerProofs`, no hypotheses, for any list of devices. `PushesSequential`,
  `StatusTrue`: the only live job is the one the run has come to, and a recorded
  result is that of a runner that has returned, whose row nobody writes any more.
  `PausedStays`: PauseHeeded, with an invariant of its own: a paused scheduler has
  no next run time unless triggered (`PauseInv`). `NothingLeftRunning`: IdleShowsNoRun; a device is shown as running while its push
  is under way, and after that only if the push raised (`RunningInv`, which needs
  `RaisedInv` of `Jobs`). `NoDevicePassedOver`: EveryDeviceTried; a run has a result
  for each device before the one it has come to (`TriedInv`). `ImplementsJobs`:
  JobsImplemented, step by step; a restart is a crash for the jobs, or nothing
  if none is live.
- `FaceLookupProofs!LooksOnly`: look-ups stutter for the moves, so that
  UserSurvives carries over (`UserSurvivesLookups`). `NotFoundExplained`:
  NotFoundIsTrue, if get calls do not fail and no device has a name but the two
  that are asked (`FaceLookup_env` is what happens otherwise). The invariant (`LookupInv`): of each
  device asked without success, the look-up knows that it still has no photo, or
  that it has been overtaken. When the last device has none either, either it has
  been overtaken or this is the moment at which no device has it.
- `BulkEnrollProofs`, for any file, ids and photos. `FaceStaysWithPerson`:
  FaceBelongs, if get calls do not fail; the invariant `UsersInv` adds that no
  photo without a profile goes unnoticed, or the next person who gets the id would
  inherit it. `ExistingAreKept`: KeepsExisting, under the same hypothesis.
  `ReportIsTrue` needs no hypothesis: whatever a get call says, a row is reported
  by what was done. `FileJobIsJob`: IsJob, by a step simulation, the turn from done
  to failed included; the invariant it needs (`HasRows`) is that there is a file where there is a job,
  since an empty one is refused.
- Type correctness of every component, by the theorem `TypeCorrect`,
  `LookupTypeCorrect` or `BulkTypeCorrect` of its proof module.

Only model-checked: the liveness properties - Delivered, EveryCallReturns,
JobsEnd, RunsEnd and RunnerEnds - since the proof system does no fairness or
ENABLED.

## Not modelled

Attendance requests, the list and export of users, job look-ups and the state
request of the push only read. Paging and the structures of the SDK, CSV and
Excel parsing, the checks of a photo and the formatting of reports turn data
into data. `run_bulk_enroll_sync` is reached by no route (its route is commented
out). The dry run of a file only computes, with its own copy of what `Checks`
models. Authentication, rate limits, configuration, logging and the exception
handlers keep no state of their own or leave it to a library.

Enrollments and moves of one user are not composed: the profile a move deletes on the
source may be newer than the one it wrote, and nothing in the code prevents
that, so no property about it would hold.

## Plan

Done: the push first, as it is what the application is for and where lost data
is lost silently, then the pool all else relies on, then migration, jobs and the
scheduler; after that users, bulk enrollment and the face look-up, and the
abstract cursor of the push.
Then proofs: of every safety invariant, action property and refinement that a
passing run checks.

Next:
1. An abstract per-device mutex and session that `DevicePool` implements, and the
   atomic phases of `Migration` and `Users` derived from it.
2. What `Scheduler` and `BulkEnroll` inherit from `Jobs` by refinement, stated for
   their own jobs (which final status of a pushed device or a file stands).
3. Paging of an enumeration and the matching of faces to records as functions.
