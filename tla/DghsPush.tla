------------------------------ MODULE DghsPush ------------------------------
(***************************************************************************)
(* The DGHS attendance pusher (app/services/dghs_service.py) for ONE       *)
(* device: a push reads the device's attendance records from the saved     *)
(* marker on, posts them to the DGHS API in batches, and saves the newest  *)
(* timestamp of every accepted batch in dghs_state.last_pushed, where the  *)
(* next push resumes.  Pushes of one device can overlap (the scheduler's   *)
(* and any number of manual ones), any database, device or HTTP call can   *)
(* fail, and the process can die between any two steps.  Devices share     *)
(* nothing but the process, so one is modelled.                            *)
(*                                                                         *)
(* A record is its time, its user and whether access was granted.  Times   *)
(* are ticks of the device's clock, which only moves forward; the three    *)
(* shifts say how the clocks of the system differ from it.                 *)
(***************************************************************************)
EXTENDS Integers, FiniteSets

CONSTANTS
  Users,        \* user ids that occur in attendance records
  NoUser,       \* the empty user id of a swipe the device did not recognise
  Pushers,      \* slots in which run_dghs_push executes, one run at a time
  Scheduled,    \* the slots of the APScheduler job (max_instances = 1)
  Requests,     \* what a manual push may be asked for
  None,         \* Python's None
  DefaultDays,  \* DGHS_DEFAULT_DAYS
  BatchSize,    \* DGHS_BATCH_SIZE
  BstShift,     \* what _format_record_time adds to a record's time
  LocalShift,   \* datetime.now() of the server minus the device's clock
  QueryShift,   \* what the device adds to a stored time to compare it
                \* with the window of a search
  NewestFirst,  \* does the device enumerate its newest records first?
  LossyListing, \* can an enumeration break off half way?
  MaxNow,       \* bound: last tick of the device's clock
  MaxLog        \* bound: attendance records on the device

Request == [since: Int \cup {None}, days: (Nat \ {0}) \cup {None},
            users: SUBSET Users, okOnly: BOOLEAN, ignore: BOOLEAN]

\* A request as the scheduler makes it: everything since the marker.
PlainRequest == [since |-> None, days |-> None, users |-> {},
                 okOnly |-> FALSE, ignore |-> FALSE]

ASSUME ConstantsAssumption ==
  /\ NoUser \notin Users
  /\ None \notin Int
  /\ Scheduled \subseteq Pushers
  /\ Requests \subseteq Request
  /\ DefaultDays \in Nat /\ BatchSize \in Nat \ {0}
  /\ BstShift \in Nat /\ LocalShift \in Int /\ QueryShift \in Int
  /\ NewestFirst \in BOOLEAN /\ LossyListing \in BOOLEAN
  /\ MaxNow \in Nat /\ MaxLog \in Nat

Record == [t: Nat, user: Users \cup {NoUser}, ok: BOOLEAN]

VARIABLES
  now,          \* the device's clock
  log,          \* attendance records stored on the device
  accepted,     \* records the DGHS API has taken, from whatever request
  last_pushed,  \* dghs_state.last_pushed, None without a row
  pc,           \* where each pusher is
  req,          \* the request it serves
  start, end,   \* its window
  records,      \* what it read from the device
  sent,         \* records of the batches that were answered with 2xx
  failed,       \* records of the batch that was not
  latest_ts,    \* newest timestamp of the last accepted batch
  excuses       \* history: what the pushes that may move the marker were
                \* asked to leave out, each until the end of its window

local == <<req, start, end, records, sent, failed, latest_ts>>
vars  == <<now, log, accepted, last_pushed, pc, local, excuses>>

-----------------------------------------------------------------------------
(* What a record looks like to the code.                                   *)

\* _format_record_time: the timestamp that is sent and saved.
Stamp(r) == r.t + BstShift

\* The filters of _read.  A record without a timestamp is left out like one without
\* a user, and counts as one.
Wanted(q, r) ==
  /\ r.user # NoUser
  /\ q.users # {} => r.user \in q.users
  /\ q.okOnly => r.ok

\* Records that FindRecord selects for a window: both ends are included.
Hits(from, to) ==
  {r \in log : from <= r.t + QueryShift /\ r.t + QueryShift <= to}

EnumeratedBefore(r, s) == IF NewestFirst THEN s.t <= r.t ELSE r.t <= s.t

\* What list_access_records yields: every hit, or, when FindRecord or a
\* FindNextRecord call reports failure or a page comes back short, only those
\* enumerated before it.
Listings(from, to) ==
  {got \in SUBSET Hits(from, to) :
     \/ got = Hits(from, to)
     \/ /\ LossyListing
        /\ \A r \in got, s \in Hits(from, to) \ got : EnumeratedBefore(r, s)}

\* Broken: the list is not sorted.
UnsortedBatches(S) ==
  {b \in SUBSET S : Cardinality(b) = IF Cardinality(S) < BatchSize
                                     THEN Cardinality(S) ELSE BatchSize}

\* The next slice of the list sorted by timestamp: the BatchSize oldest.
Batches(S) ==
  {b \in SUBSET S :
     /\ Cardinality(b) = IF Cardinality(S) < BatchSize THEN Cardinality(S)
                                                       ELSE BatchSize
     /\ \A r \in b, s \in S \ b : Stamp(r) <= Stamp(s)}

\* _push_batch: what the API can have taken of a batch and whether the answer is
\* 2xx.  An error, or no answer, says nothing about what was taken.
Answers(batch) ==
  {[taken |-> batch, ok |-> TRUE]}
    \cup {[taken |-> part, ok |-> FALSE] : part \in SUBSET batch}

\* days or DGHS_DEFAULT_DAYS
LookBack(q) == IF q.days = None THEN DefaultDays ELSE q.days

-----------------------------------------------------------------------------
Init ==
  /\ now = 0
  /\ log = {}
  /\ accepted = {}
  /\ last_pushed = None
  /\ pc = [w \in Pushers |-> "idle"]
  /\ req = [w \in Pushers |-> PlainRequest]
  /\ start = [w \in Pushers |-> 0]
  /\ end = [w \in Pushers |-> 0]
  /\ records = [w \in Pushers |-> {}]
  /\ sent = [w \in Pushers |-> {}]
  /\ failed = [w \in Pushers |-> {}]
  /\ latest_ts = [w \in Pushers |-> None]
  /\ excuses = {}

\* The run is over: its job row is written and its locals are gone.
Forget(w) ==
  /\ pc' = [pc EXCEPT ![w] = "idle"]
  /\ req' = [req EXCEPT ![w] = PlainRequest]
  /\ start' = [start EXCEPT ![w] = 0]
  /\ end' = [end EXCEPT ![w] = 0]
  /\ records' = [records EXCEPT ![w] = {}]
  /\ sent' = [sent EXCEPT ![w] = {}]
  /\ failed' = [failed EXCEPT ![w] = {}]
  /\ latest_ts' = [latest_ts EXCEPT ![w] = None]

Goto(w, label) == pc' = [pc EXCEPT ![w] = label]

-----------------------------------------------------------------------------
(* The world around a push.                                                *)

Tick ==
  /\ now < MaxNow
  /\ now' = now + 1
  /\ UNCHANGED <<log, accepted, last_pushed, pc, local, excuses>>

\* Somebody uses the device, which logs the record under its own clock; nobody
\* it does not recognise is let in.
Swipe ==
  /\ Cardinality(log) < MaxLog
  /\ \E u \in Users \cup {NoUser}, ok \in BOOLEAN :
       LET r == [t |-> now, user |-> u, ok |-> ok] IN
       /\ r \notin log
       /\ ok => u # NoUser
       /\ log' = log \cup {r}
  /\ UNCHANGED <<now, accepted, last_pushed, pc, local, excuses>>

-----------------------------------------------------------------------------
(* run_dghs_push.                                                          *)

\* The job row goes to "running".
Begin(w) ==
  /\ pc[w] = "idle"
  /\ \E q \in (IF w \in Scheduled THEN {PlainRequest} ELSE Requests) :
       req' = [req EXCEPT ![w] = q]
  /\ Goto(w, "resolve")
  /\ UNCHANGED <<now, log, accepted, last_pushed, start, end, records,
                 sent, failed, latest_ts, excuses>>

\* Does the run start from the saved marker?
Resumes(w) ==
  /\ req[w].since = None
  /\ ~req[w].ignore
  /\ last_pushed # None

\* Broken: a missing row is not told from a saved marker.
WindowStartWithoutRow(w) ==
  IF req[w].since # None THEN req[w].since
  ELSE IF ~req[w].ignore THEN last_pushed
  ELSE now + LocalShift - LookBack(req[w])

\* Broken: the second of the marker is taken for finished.
WindowStartAfterMarker(w) ==
  IF req[w].since # None THEN req[w].since
  ELSE IF Resumes(w) THEN last_pushed + 1
  ELSE now + LocalShift - LookBack(req[w])

\* Broken: the marker is never read.
WindowStartLookingBack(w) ==
  IF req[w].since # None THEN req[w].since
  ELSE now + LocalShift - LookBack(req[w])

WindowStart(w) ==
  IF req[w].since # None THEN req[w].since
  ELSE IF Resumes(w) THEN last_pushed
  ELSE now + LocalShift - LookBack(req[w])

Filters(w) == req[w].users # {} \/ req[w].okOnly

LeavesOut(w) == ~Resumes(w) \/ Filters(w)

\* What the resolved window and the filters leave out on request.  It excuses
\* nothing that is logged after the window.
Excuse(w) ==
  [users |-> req[w].users, okOnly |-> req[w].okOnly,
   floor |-> IF Resumes(w) THEN None ELSE WindowStart(w),
   until |-> now + LocalShift]

ResolveWindow(w) ==
  /\ pc[w] = "resolve"
  /\ start' = [start EXCEPT ![w] = WindowStart(w)]
  /\ end' = [end EXCEPT ![w] = now + LocalShift]
  /\ excuses' = IF req[w].ignore \/ ~LeavesOut(w) THEN excuses
                                                  ELSE excuses \cup {Excuse(w)}
  /\ Goto(w, "read")
  /\ UNCHANGED <<now, log, accepted, last_pushed, req, records, sent,
                 failed, latest_ts>>

\* Phase 1, one critical section on the device.  Without records the job is done
\* next ("No records in window").
ReadRecords(w) ==
  /\ pc[w] = "read"
  /\ \E got \in Listings(start[w], end[w]) :
       records' = [records EXCEPT ![w] = {r \in got : Wanted(req[w], r)}]
  /\ Goto(w, IF records'[w] = {} THEN "finish" ELSE "faces")
  /\ UNCHANGED <<now, log, accepted, last_pushed, req, start, end, sent, failed,
                 latest_ts, excuses>>

\* Phase 2: one locked device call per user; a failed one only means that
\* the records of this user go without a photo.
FetchFaces(w) ==
  /\ pc[w] = "faces"
  /\ Goto(w, "push")
  /\ UNCHANGED <<now, log, accepted, last_pushed, local, excuses>>

\* Phase 3: a batch is posted and answered with 2xx.
PushBatch(w) ==
  /\ pc[w] = "push"
  /\ \E batch \in Batches(records[w] \ sent[w]) :
       /\ \E a \in Answers(batch) : a.ok /\ accepted' = accepted \cup a.taken
       /\ sent' = [sent EXCEPT ![w] = @ \cup batch]
       /\ \E newest \in batch :
            /\ \A r \in batch : Stamp(r) <= Stamp(newest)
            /\ latest_ts' = [latest_ts EXCEPT ![w] = Stamp(newest)]
  /\ Goto(w, "save")
  /\ UNCHANGED <<now, log, last_pushed, req, start, end, records,
                 failed, excuses>>

\* A batch is posted and the answer is an error or never comes.  The run pushes
\* no further batch.
PushBatchFails(w) ==
  /\ pc[w] = "push"
  /\ \E batch \in Batches(records[w] \ sent[w]) :
       /\ \E a \in Answers(batch) : ~a.ok /\ accepted' = accepted \cup a.taken
       /\ failed' = [failed EXCEPT ![w] = batch]
  /\ Goto(w, "finish")
  /\ UNCHANGED <<now, log, last_pushed, req, start, end, records,
                 sent, latest_ts, excuses>>

\* Broken: the end of the window is saved.
SaveEnd(w) ==
  /\ pc[w] = "save"
  /\ last_pushed' = IF req[w].ignore THEN last_pushed ELSE end[w]
  /\ Goto(w, IF sent[w] = records[w] THEN "finish" ELSE "push")
  /\ UNCHANGED <<now, log, accepted, local, excuses>>

\* Broken: ignore_state is forgotten after the window is resolved.
SaveAlways(w) ==
  /\ pc[w] = "save"
  /\ last_pushed' = latest_ts[w]
  /\ Goto(w, IF sent[w] = records[w] THEN "finish" ELSE "push")
  /\ UNCHANGED <<now, log, accepted, local, excuses>>

\* upsert_dghs_state: what the row holds after ts is written to it.
Upserted(ts) == IF ts = None THEN last_pushed ELSE ts

\* upsert_state after every accepted batch, unless the request says not to.
SaveState(w) ==
  /\ pc[w] = "save"
  /\ last_pushed' = IF req[w].ignore THEN last_pushed ELSE Upserted(latest_ts[w])
  /\ Goto(w, IF sent[w] = records[w] THEN "finish" ELSE "push")
  /\ UNCHANGED <<now, log, accepted, local, excuses>>

\* The job row goes to "done" with the totals of the run.
Finish(w) ==
  /\ pc[w] = "finish"
  /\ Forget(w)
  /\ UNCHANGED <<now, log, accepted, last_pushed, excuses>>

\* A database or device call raises: the job row goes to "failed".
Raise(w) ==
  /\ pc[w] # "idle"
  /\ Forget(w)
  /\ UNCHANGED <<now, log, accepted, last_pushed, excuses>>

\* The process dies.  Nothing of a push survives; no push is resumed.
Crash ==
  /\ \E w \in Pushers : pc[w] # "idle"
  /\ pc' = [w \in Pushers |-> "idle"]
  /\ req' = [w \in Pushers |-> PlainRequest]
  /\ start' = [w \in Pushers |-> 0]
  /\ end' = [w \in Pushers |-> 0]
  /\ records' = [w \in Pushers |-> {}]
  /\ sent' = [w \in Pushers |-> {}]
  /\ failed' = [w \in Pushers |-> {}]
  /\ latest_ts' = [w \in Pushers |-> None]
  /\ UNCHANGED <<now, log, accepted, last_pushed, excuses>>

Regular(w) ==
  \/ Begin(w) \/ ResolveWindow(w) \/ ReadRecords(w) \/ FetchFaces(w)
  \/ PushBatch(w) \/ SaveState(w) \/ Finish(w)

Step(w) == Regular(w) \/ PushBatchFails(w) \/ Raise(w)

Next ==
  \/ Tick \/ Swipe \/ Crash
  \/ \E w \in Pushers : Step(w)

Spec == Init /\ [][Next]_vars

\* The records w keeps for its run.
Kept(w) == IF pc[w] = "faces" THEN records[w] ELSE {}

\* The scheduler keeps starting its job and a run that nothing disturbs goes
\* on.  From some time on no call fails, no enumeration breaks off and the
\* process stays up.
Undisturbed(w) ==
  /\ Regular(w)
  /\ pc[w] = "read" => Kept(w)' = {r \in Hits(start[w], end[w]) : Wanted(req[w], r)}

FaultsCease ==
  <>[][Tick \/ Swipe \/ \E w \in Pushers : Undisturbed(w)]_vars

FairSpec ==
  /\ Spec
  /\ \A w \in Scheduled : WF_vars(Regular(w))
  /\ FaultsCease

-----------------------------------------------------------------------------
(* Properties.                                                             *)

TypeOK ==
  /\ now \in Nat
  /\ log \subseteq Record /\ accepted \subseteq Record
  /\ last_pushed \in Int \cup {None}
  /\ pc \in [Pushers -> {"idle", "resolve", "read", "faces", "push", "save",
                         "finish"}]
  /\ req \in [Pushers -> Requests \cup {PlainRequest}]
  /\ start \in [Pushers -> Int] /\ end \in [Pushers -> Int]
  /\ records \in [Pushers -> SUBSET Record]
  /\ sent \in [Pushers -> SUBSET Record]
  /\ failed \in [Pushers -> SUBSET Record]
  /\ latest_ts \in [Pushers -> Int \cup {None}]
  /\ excuses \subseteq [users: SUBSET Users, okOnly: BOOLEAN,
                        floor: Int \cup {None}, until: Int]

\* Somebody asked for a push that moves the marker and leaves r out, although r is
\* not from after its window.
Excused(r) ==
  \E x \in excuses :
    /\ r.t + QueryShift <= x.until
    /\ \/ x.users # {} /\ r.user \notin x.users
       \/ x.okOnly /\ ~r.ok
       \/ x.floor # None /\ Stamp(r) < x.floor

\* Nothing more is owed for r: it has no user, or DGHS has it, or it was left
\* out on request.
Handled(r) == r.user = NoUser \/ r \in accepted \/ Excused(r)

\* Everything the device logged before the time m is handled.
Covered(m) == \A r \in log : Stamp(r) < m => Handled(r)

\* The next push reads from the marker on, so whatever is older is never read
\* again: it must have reached DGHS or have been left out by somebody's
\* explicit filter.  Overlapping pushes, failed batches, truncated
\* enumerations and crashes may move the marker back, never past a record.
NoUnexplainedGap == last_pushed # None => Covered(last_pushed)

\* The marker is "the last successfully-pushed timestamp": the timestamp of
\* some record DGHS has taken, whichever run saved it last.
MarkerIsAccepted ==
  last_pushed # None => \E r \in accepted : Stamp(r) = last_pushed

\* The push as a cursor over the records of the device: whatever overlaps and
\* fails, a step that saves the marker puts it on a record that is handled, when
\* all older ones are, no step takes back that a record is handled, and no record
\* comes in behind the marker.
C == INSTANCE Cursor WITH
       Time <- Stamp, Nowhere <- None, entries <- log,
       done <- {r \in log : Handled(r)}, cursor <- last_pushed

IsCursor == C!Spec

\* A run that reports done without a failed batch has left nothing behind: any
\* record from before the moment its window closed is handled, also those
\* older than its own window.
CompleteRun ==
  \A w \in Pushers :
    pc[w] = "finish" /\ failed[w] = {} /\ ~req[w].ignore
      => \A r \in log : r.t + LocalShift < end[w] => Handled(r)

\* While pushes do not overlap, one that resumes from the marker posts nothing
\* older than it, whatever failed in between.  That bounds what is posted twice
\* from below only: besides records of the marker's own second these are newer
\* ones that DGHS took although no marker was saved for them.
ResendsNothingOlder ==
  [][\A w \in Pushers :
       PushBatch(w) /\ last_pushed # None /\ req[w].since = None /\ ~req[w].ignore
         => \A r \in sent'[w] \ sent[w] : Stamp(r) >= last_pushed]_vars

\* Once faults cease, the scheduler's job sees to it that every record is
\* handled, whatever manual pushes do to the marker meanwhile.
Delivered == []<>(\A r \in log : Handled(r))

-----------------------------------------------------------------------------
(* Why the marker is never past a record that is owed: an inductive        *)
(* invariant.                                                              *)

\* What has to be true of the device.  A time it stores is compared with a
\* window on a scale not behind the one the marker is saved on, and an
\* enumeration that can break off goes from old to new.
ClocksAgree == QueryShift >= BstShift
ListingSafe == LossyListing => ~NewestFirst

\* DGHS only has what the device logged, and that under its own clock.
LogInv ==
  /\ accepted \subseteq log
  /\ \A r \in log : r.t <= now

Reading == {"read", "faces", "push", "save", "finish"}
HasRead == {"faces", "push", "save", "finish"}

\* What w sends is on the device, what was answered is with DGHS.
DataInv(w) ==
  IF pc[w] \in HasRead
  THEN /\ records[w] \subseteq log
       /\ sent[w] \subseteq records[w] \cap accepted
  ELSE sent[w] = {}

\* Batches go out from old to new, and the timestamp about to be saved is one
\* of those that were answered.
OrderInv(w) ==
  /\ pc[w] \in HasRead =>
       \A r \in sent[w], s \in records[w] \ sent[w] : Stamp(r) <= Stamp(s)
  /\ pc[w] = "save" => \E top \in sent[w] : latest_ts[w] = Stamp(top)

\* What holds whatever the clocks and the enumeration of the device.
BaseInv ==
  /\ LogInv /\ MarkerIsAccepted
  /\ \A w \in Pushers : DataInv(w) /\ OrderInv(w)

\* No record still to come can be stamped before m.
NotAhead(m) == m - BstShift <= now

\* Whatever the filters and the start of w's window leave out is on record as
\* an excuse, or is older than a marker that was right when w read it.
WindowInv(w) ==
  pc[w] \in Reading /\ ~req[w].ignore =>
    /\ Filters(w) =>
         \E x \in excuses :
           x.users = req[w].users /\ x.okOnly = req[w].okOnly /\ x.until = end[w]
    /\ \/ \E x \in excuses : x.floor = start[w] /\ x.until = end[w]
       \/ NotAhead(start[w]) /\ Covered(start[w])

\* No record w did not read is owed and older than one w did read.
ReadInv(w) ==
  pc[w] \in HasRead /\ ~req[w].ignore =>
    \A q \in records[w], r \in log \ records[w] :
      Stamp(r) < Stamp(q) => Handled(r)

RunInv(w) == WindowInv(w) /\ ReadInv(w)

IInv == BaseInv /\ NoUnexplainedGap /\ \A w \in Pushers : RunInv(w)

-----------------------------------------------------------------------------
(* Why a run that is done is complete.                                     *)

\* What has to be true besides, when no enumeration breaks off: the server's clock
\* is at most a tick behind the scale on which the device compares.
WindowReaches == QueryShift <= LocalShift + 1

\* Nothing can still come in from before the end of w's window.
EndInv(w) == pc[w] \in Reading => end[w] <= now + LocalShift

\* Whatever w did not read from before the end of its window is handled.
CloseInv(w) ==
  pc[w] \in HasRead /\ ~req[w].ignore =>
    \A r \in log \ records[w] : r.t + LocalShift < end[w] => Handled(r)

\* A batch is never empty, and without a failed one all records have been sent.
DoneInv(w) ==
  /\ pc[w] \in {"faces", "push"} => records[w] \ sent[w] # {}
  /\ pc[w] = "finish" => failed[w] # {} \/ sent[w] = records[w]

CompleteInv ==
  IsFiniteSet(log) /\ \A w \in Pushers : EndInv(w) /\ CloseInv(w) /\ DoneInv(w)

-----------------------------------------------------------------------------
(* Why nothing older than the marker is posted again.                      *)

\* What has to be true of the device: it does not compare on a scale ahead of the
\* one the marker is saved on.
MarkerReaches == QueryShift <= BstShift

Resuming(w) == last_pushed # None /\ req[w].since = None /\ ~req[w].ignore

\* Alone with the marker, a run has nothing before it left to send.
ResendInv(w) ==
  Resuming(w) =>
    /\ pc[w] = "read" => start[w] = last_pushed
    /\ pc[w] \in {"faces", "push"} =>
         \A r \in records[w] \ sent[w] : last_pushed <= Stamp(r)
=============================================================================
