--------------------------- MODULE DghsPushProofs ---------------------------
(***************************************************************************)
(* Type correctness of DghsPush and its main safety property, for every    *)
(* set of users, pushers and requests, every batch size and every bound:   *)
(* as long as the device compares window and record on a scale that is not *)
(* behind the saved one, and an enumeration that breaks off was going from *)
(* old to new, the marker is never past a record that is still owed.       *)
(***************************************************************************)
EXTENDS DghsPush, FiniteSetTheorems, TLAPS

USE ConstantsAssumption DEF Record, Request

\* What a push is asked for is a request.
LEMMA RequestsTyped == Requests \cup {PlainRequest} \subseteq Request
<1>1. PlainRequest \in Request
  BY DEF PlainRequest
<1> QED
  BY <1>1

-----------------------------------------------------------------------------
(* Type correctness.                                                       *)

\* The end of a run keeps the types.
LEMMA ForgetTyped ==
  ASSUME TypeOK, NEW w \in Pushers, Forget(w),
         UNCHANGED <<now, log, accepted, last_pushed, excuses>>
  PROVE  TypeOK'
  BY DEF TypeOK, Forget

\* The start of a window and the excuse it makes are typed.
LEMMA WindowTyped ==
  ASSUME TypeOK, NEW w \in Pushers
  PROVE  /\ WindowStart(w) \in Int
         /\ Excuse(w) \in [users: SUBSET Users, okOnly: BOOLEAN,
                           floor: Int \cup {None}, until: Int]
<1>1. req[w] \in Request
  BY RequestsTyped DEF TypeOK
<1>2. LookBack(req[w]) \in Int
  BY <1>1 DEF LookBack
<1>3. WindowStart(w) \in Int
  BY <1>1, <1>2 DEF TypeOK, WindowStart, Resumes
<1>4. now + LocalShift \in Int
  BY DEF TypeOK
<1> QED
  BY <1>1, <1>3, <1>4 DEF Excuse

\* An answer means that all of the batch was taken, anything else that some of it
\* may have been.
LEMMA AnswersTyped ==
  ASSUME NEW batch, NEW a \in Answers(batch)
  PROVE  a.taken \subseteq batch /\ (a.ok => a.taken = batch)
  BY DEF Answers

\* Every variable keeps the type the code gives it.
LEMMA StepTyped ==
  ASSUME TypeOK, [Next]_vars
  PROVE  TypeOK'
<1>1. CASE Tick
  BY <1>1 DEF TypeOK, Tick, local
<1>2. CASE Swipe
  BY <1>2 DEF TypeOK, Swipe, local
<1>3. CASE Crash
  BY <1>3 DEF TypeOK, Crash
<1>4. CASE UNCHANGED vars
  BY <1>4 DEF TypeOK, vars, local
<1>5. ASSUME NEW w \in Pushers, Step(w)
      PROVE  TypeOK'
  <2>1. CASE Begin(w)
    BY <2>1 DEF TypeOK, Begin, Goto
  <2>2. CASE ResolveWindow(w)
    <3>1. start' \in [Pushers -> Int] /\ end' \in [Pushers -> Int]
      BY <2>2, WindowTyped DEF TypeOK, ResolveWindow
    <3>2. excuses' \subseteq [users: SUBSET Users, okOnly: BOOLEAN,
                              floor: Int \cup {None}, until: Int]
      BY <2>2, WindowTyped DEF TypeOK, ResolveWindow
    <3> QED
      BY <2>2, <3>1, <3>2 DEF TypeOK, ResolveWindow, Goto
  <2>3. CASE ReadRecords(w)
    <3>1. PICK got \in Listings(start[w], end[w]) :
            records' = [records EXCEPT ![w] = {r \in got : Wanted(req[w], r)}]
      BY <2>3 DEF ReadRecords
    <3>2. {r \in got : Wanted(req[w], r)} \subseteq Record
      BY DEF TypeOK, Listings, Hits
    <3>3. records' \in [Pushers -> SUBSET Record]
      BY <3>1, <3>2 DEF TypeOK
    <3>4. pc' \in [Pushers -> {"idle", "resolve", "read", "faces", "push", "save",
                               "finish"}]
      BY <2>3 DEF TypeOK, ReadRecords, Goto
    <3> QED
      BY <2>3, <3>3, <3>4 DEF TypeOK, ReadRecords
  <2>4. CASE FetchFaces(w)
    BY <2>4 DEF TypeOK, FetchFaces, Goto, local
  <2>5. CASE PushBatch(w)
    <3>1. PICK batch \in Batches(records[w] \ sent[w]) :
            /\ accepted' = accepted \cup batch
            /\ sent' = [sent EXCEPT ![w] = @ \cup batch]
            /\ \E newest \in batch :
                 latest_ts' = [latest_ts EXCEPT ![w] = Stamp(newest)]
      BY <2>5, AnswersTyped DEF PushBatch
    <3>2. batch \subseteq Record
      BY DEF TypeOK, Batches
    <3>3. sent' \in [Pushers -> SUBSET Record] /\ accepted' \subseteq Record
      BY <3>1, <3>2 DEF TypeOK
    <3>4. latest_ts' \in [Pushers -> Int \cup {None}]
      BY <3>1, <3>2 DEF TypeOK, Stamp
    <3> QED
      BY <2>5, <3>3, <3>4 DEF TypeOK, PushBatch, Goto
  <2>6. CASE PushBatchFails(w)
    <3>1. PICK batch \in Batches(records[w] \ sent[w]) :
            /\ \E taken \in SUBSET batch : accepted' = accepted \cup taken
            /\ failed' = [failed EXCEPT ![w] = batch]
      BY <2>6, AnswersTyped DEF PushBatchFails
    <3>2. batch \subseteq Record
      BY DEF TypeOK, Batches
    <3>3. failed' \in [Pushers -> SUBSET Record] /\ accepted' \subseteq Record
      BY <3>1, <3>2 DEF TypeOK
    <3> QED
      BY <2>6, <3>3 DEF TypeOK, PushBatchFails, Goto
  <2>7. CASE SaveState(w)
    <3>1. pc' \in [Pushers -> {"idle", "resolve", "read", "faces", "push",
                               "save", "finish"}]
      BY <2>7 DEF TypeOK, SaveState, Goto
    <3> QED
      BY <2>7, <3>1 DEF TypeOK, SaveState, Upserted, local
  <2>8. CASE Finish(w)
    BY <2>8, ForgetTyped DEF Finish
  <2>9. CASE Raise(w)
    BY <2>9, ForgetTyped DEF Raise
  <2> QED
    BY <1>5, <2>1, <2>2, <2>3, <2>4, <2>5, <2>6, <2>7, <2>8, <2>9
       DEF Step, Regular
<1> QED
  BY <1>1, <1>2, <1>3, <1>4, <1>5 DEF Next

\* Type correctness of the pusher's state in every reachable state.
THEOREM TypeCorrect == Spec => []TypeOK
<1>1. Init => TypeOK
  BY DEF Init, TypeOK
<1>2. TypeOK /\ [Next]_vars => TypeOK'
  BY StepTyped
<1> QED
  BY <1>1, <1>2, PTL DEF Spec

-----------------------------------------------------------------------------
(* The marker is never past a record that is owed.                         *)

\* What no step of the system ever takes back.
Evolves ==
  /\ accepted \subseteq accepted' /\ excuses \subseteq excuses'
  /\ now <= now' /\ log \subseteq log'
  /\ \A r \in log' \ log : r.t = now

\* Every step lets the log, DGHS's records and the excuses only grow.
LEMMA StepEvolves ==
  ASSUME TypeOK, [Next]_vars
  PROVE  Evolves
<1>1. CASE Tick
  BY <1>1 DEF TypeOK, Tick, Evolves
<1>2. CASE Swipe
  BY <1>2 DEF TypeOK, Swipe, Evolves
<1>3. CASE Crash \/ UNCHANGED vars
  BY <1>3 DEF TypeOK, Crash, vars, Evolves
<1>4. ASSUME NEW w \in Pushers, Step(w)
      PROVE  Evolves
  <2>1. now' = now /\ log' = log /\ excuses \subseteq excuses'
    BY <1>4 DEF Step, Regular, Begin, ResolveWindow, ReadRecords, FetchFaces,
                PushBatch, PushBatchFails, SaveState, Finish, Raise
  <2>2. accepted \subseteq accepted'
    BY <1>4 DEF Step, Regular, Begin, ResolveWindow, ReadRecords, FetchFaces,
                PushBatch, PushBatchFails, SaveState, Finish, Raise
  <2> QED
    BY <2>1, <2>2 DEF TypeOK, Evolves
<1> QED
  BY <1>1, <1>2, <1>3, <1>4 DEF Next

\* A pusher's step changes the data of no other.
LEMMA OthersKept ==
  ASSUME TypeOK, NEW w \in Pushers, Step(w), NEW v \in Pushers, v # w
  PROVE  /\ pc'[v] = pc[v] /\ req'[v] = req[v] /\ start'[v] = start[v]
         /\ end'[v] = end[v] /\ records'[v] = records[v] /\ sent'[v] = sent[v]
         /\ failed'[v] = failed[v] /\ latest_ts'[v] = latest_ts[v]
<1>1. CASE Forget(w)
  BY <1>1 DEF TypeOK, Forget
<1>2. CASE ~Forget(w)
  BY <1>2 DEF TypeOK, Step, Regular, Begin, ResolveWindow, ReadRecords,
              FetchFaces, PushBatch, PushBatchFails, SaveState, Finish, Raise,
              Goto, local
<1> QED
  BY <1>1, <1>2

\* A run that is over has nothing left of it.
LEMMA ForgetData ==
  ASSUME TypeOK, NEW w \in Pushers, Forget(w)
  PROVE  /\ pc'[w] = "idle" /\ req'[w] = PlainRequest /\ records'[w] = {}
         /\ sent'[w] = {} /\ failed'[w] = {}
  BY DEF TypeOK, Forget

\* What a read takes over are records of the device that its filters let pass.
LEMMA ReadData ==
  ASSUME TypeOK, NEW w \in Pushers, ReadRecords(w)
  PROVE  \E got \in Listings(start[w], end[w]) :
           /\ records'[w] = {r \in got : Wanted(req[w], r)}
           /\ records'[w] \subseteq log
           /\ pc[w] = "read"
           /\ pc'[w] = IF records'[w] = {} THEN "finish" ELSE "faces"
           /\ UNCHANGED <<now, log, accepted, last_pushed, excuses, req, start, end,
                          sent, failed, latest_ts>>
<1>1. PICK got \in Listings(start[w], end[w]) :
        records' = [records EXCEPT ![w] = {r \in got : Wanted(req[w], r)}]
  BY DEF ReadRecords
<1> DEFINE recs == {r \in got : Wanted(req[w], r)}
<1>2. records'[w] = recs
  BY <1>1 DEF TypeOK
<1>3. recs \subseteq log
  BY DEF Listings, Hits
<1>4. pc'[w] = IF records'[w] = {} THEN "finish" ELSE "faces"
  BY DEF TypeOK, ReadRecords, Goto
<1> QED
  BY <1>2, <1>3, <1>4 DEF ReadRecords

\* A batch that is answered with 2xx is with DGHS.
LEMMA PushData ==
  ASSUME TypeOK, NEW w \in Pushers, PushBatch(w)
  PROVE  \E batch \in Batches(records[w] \ sent[w]) : \E newest \in batch :
           /\ accepted' = accepted \cup batch
           /\ sent'[w] = sent[w] \cup batch /\ latest_ts'[w] = Stamp(newest)
           /\ pc[w] = "push" /\ pc'[w] = "save"
           /\ UNCHANGED <<now, log, last_pushed, excuses, req, start, end,
                          records, failed>>
<1>1. PICK batch \in Batches(records[w] \ sent[w]) :
        /\ accepted' = accepted \cup batch
        /\ sent' = [sent EXCEPT ![w] = @ \cup batch]
        /\ \E newest \in batch :
             latest_ts' = [latest_ts EXCEPT ![w] = Stamp(newest)]
  BY AnswersTyped DEF PushBatch
<1>2. PICK newest \in batch : latest_ts' = [latest_ts EXCEPT ![w] = Stamp(newest)]
  BY <1>1
<1>3. sent'[w] = sent[w] \cup batch /\ latest_ts'[w] = Stamp(newest)
  BY <1>1, <1>2 DEF TypeOK
<1>4. /\ pc[w] = "push" /\ pc'[w] = "save"
      /\ UNCHANGED <<now, log, last_pushed, excuses, req, start, end, records, failed>>
  BY DEF TypeOK, PushBatch, Goto
<1> QED
  BY <1>1, <1>3, <1>4

\* A batch that is not may have reached DGHS in part.
LEMMA PushFailsData ==
  ASSUME TypeOK, NEW w \in Pushers, PushBatchFails(w)
  PROVE  \E batch \in Batches(records[w] \ sent[w]) :
           /\ accepted \subseteq accepted' /\ accepted' \subseteq accepted \cup batch
           /\ failed'[w] = batch
           /\ pc[w] = "push" /\ pc'[w] = "finish"
           /\ UNCHANGED <<now, log, last_pushed, excuses, req, start, end,
                          records, sent, latest_ts>>
<1>1. PICK batch \in Batches(records[w] \ sent[w]) :
        /\ \E taken \in SUBSET batch : accepted' = accepted \cup taken
        /\ failed' = [failed EXCEPT ![w] = batch]
  BY AnswersTyped DEF PushBatchFails
<1>2. failed'[w] = batch
  BY <1>1 DEF TypeOK
<1>3. /\ pc[w] = "push" /\ pc'[w] = "finish"
      /\ UNCHANGED <<now, log, last_pushed, excuses, req, start, end, records,
                     sent, latest_ts>>
  BY DEF TypeOK, PushBatchFails, Goto
<1> QED
  BY <1>1, <1>2, <1>3

\* The next label of a run that saves the marker.
LEMMA SaveData ==
  ASSUME TypeOK, NEW w \in Pushers, SaveState(w)
  PROVE  /\ pc[w] = "save"
         /\ pc'[w] = IF sent[w] = records[w] THEN "finish" ELSE "push"
         /\ last_pushed' = IF req[w].ignore THEN last_pushed ELSE Upserted(latest_ts[w])
         /\ UNCHANGED <<now, log, accepted, excuses, local>>
  BY DEF TypeOK, SaveState, Goto

-----------------------------------------------------------------------------
(* The marker is the time of a record DGHS has.                            *)

\* A step that moves no data of v's keeps what is known of v.
LEMMA BaseKept ==
  ASSUME TypeOK, Evolves, NEW v \in Pushers, DataInv(v), OrderInv(v),
         records'[v] = records[v], sent'[v] = sent[v], latest_ts'[v] = latest_ts[v],
         pc'[v] \in HasRead <=> pc[v] \in HasRead,
         pc'[v] = "save" => pc[v] = "save"
  PROVE  (DataInv(v) /\ OrderInv(v))'
  BY DEF Evolves, DataInv, OrderInv, Stamp, HasRead

\* A run that is over, or has yet to read, has sent nothing.
LEMMA BaseIdle ==
  ASSUME NEW v \in Pushers, pc'[v] \notin HasRead, sent'[v] = {}
  PROVE  (DataInv(v) /\ OrderInv(v))'
  BY DEF DataInv, OrderInv, HasRead

\* What a pusher has in hand stays right, whoever steps.
LEMMA BaseRun ==
  ASSUME TypeOK, BaseInv, [Next]_vars, NEW v \in Pushers
  PROVE  (DataInv(v) /\ OrderInv(v))'
<1>1. Evolves /\ DataInv(v) /\ OrderInv(v)
  BY StepEvolves DEF BaseInv
<1>2. CASE Tick \/ Swipe \/ UNCHANGED vars
  BY <1>1, <1>2, BaseKept DEF Tick, Swipe, vars, local
<1>3. CASE Crash
  BY <1>3, BaseIdle DEF Crash, HasRead
<1>4. ASSUME NEW w \in Pushers, Step(w)
      PROVE  (DataInv(v) /\ OrderInv(v))'
  <2>1. CASE v # w
    BY <1>1, <1>4, <2>1, OthersKept, BaseKept
  <2>2. CASE v = w /\ (Forget(v) \/ Begin(v) \/ ResolveWindow(v))
    <3>1. CASE Forget(v)
      BY <3>1, ForgetData, BaseIdle DEF HasRead
    <3>2. CASE Begin(v) \/ ResolveWindow(v)
      <4>1. pc[v] \notin HasRead /\ pc'[v] \notin HasRead /\ sent' = sent
        BY <3>2 DEF TypeOK, Begin, ResolveWindow, Goto, HasRead
      <4> QED
        BY <1>1, <4>1, BaseIdle DEF DataInv
    <3> QED
      BY <2>2, <3>1, <3>2
  <2>3. CASE v = w /\ ReadRecords(v)
    <3>1. /\ pc[v] = "read" /\ pc'[v] \in {"faces", "finish"}
          /\ records'[v] \subseteq log /\ log' = log /\ sent' = sent
      BY <2>3, ReadData
    <3> QED
      BY <1>1, <3>1 DEF DataInv, OrderInv, HasRead
  <2>4. CASE v = w /\ PushBatch(v)
    <3>1. PICK batch \in Batches(records[v] \ sent[v]) : \E newest \in batch :
            /\ accepted' = accepted \cup batch
            /\ sent'[v] = sent[v] \cup batch /\ latest_ts'[v] = Stamp(newest)
            /\ pc[v] = "push" /\ pc'[v] = "save"
            /\ UNCHANGED <<now, log, last_pushed, excuses, req, start, end,
                           records, failed>>
      BY <2>4, PushData
    <3>2. /\ batch \subseteq records[v]
          /\ \A r \in batch, s \in (records[v] \ sent[v]) \ batch :
               Stamp(r) <= Stamp(s)
      BY DEF Batches
    <3>3. DataInv(v)'
      BY <1>1, <3>1, <3>2 DEF DataInv, HasRead
    <3>4. \A r \in sent'[v], s \in records'[v] \ sent'[v] : Stamp(r) <= Stamp(s)
      BY <1>1, <3>1, <3>2 DEF OrderInv, HasRead
    <3>5. OrderInv(v)'
      BY <3>1, <3>4 DEF OrderInv, Stamp
    <3> QED
      BY <3>3, <3>5
  <2>5. CASE v = w /\ (FetchFaces(v) \/ PushBatchFails(v) \/ SaveState(v))
    <3>1. /\ pc[v] \in HasRead /\ pc'[v] \in HasRead \ {"save"}
          /\ UNCHANGED <<records, sent, latest_ts>>
      BY <2>5 DEF TypeOK, FetchFaces, PushBatchFails, SaveState, Goto, HasRead, local
    <3> QED
      BY <1>1, <3>1, BaseKept
  <2> QED
    BY <1>4, <2>1, <2>2, <2>3, <2>4, <2>5 DEF Step, Regular, Finish, Raise
<1> QED
  BY <1>2, <1>3, <1>4 DEF Next

\* DGHS has nothing the device did not log, after any step.
LEMMA BaseLog ==
  ASSUME TypeOK, BaseInv, [Next]_vars
  PROVE  LogInv'
<1>1. CASE Tick
  BY <1>1 DEF TypeOK, BaseInv, LogInv, Tick
<1>2. CASE Swipe
  BY <1>2 DEF TypeOK, BaseInv, LogInv, Swipe
<1>3. CASE Crash \/ UNCHANGED vars
  BY <1>3 DEF BaseInv, LogInv, Crash, vars
<1>4. ASSUME NEW w \in Pushers, Step(w)
      PROVE  LogInv'
  <2>1. CASE PushBatch(w) \/ PushBatchFails(w)
    <3>1. /\ pc[w] = "push" /\ log' = log /\ now' = now
          /\ \E batch \in Batches(records[w] \ sent[w]) :
               accepted' \subseteq accepted \cup batch
      BY <2>1, PushData, PushFailsData
    <3>2. records[w] \subseteq log
      BY <3>1 DEF BaseInv, DataInv, HasRead
    <3> QED
      BY <3>1, <3>2 DEF BaseInv, LogInv, Batches
  <2>2. CASE ~PushBatch(w) /\ ~PushBatchFails(w)
    BY <1>4, <2>2
       DEF BaseInv, LogInv, Step, Regular, Begin, ResolveWindow, ReadRecords,
           FetchFaces, SaveState, Finish, Raise
  <2> QED
    BY <2>1, <2>2
<1> QED
  BY <1>1, <1>2, <1>3, <1>4 DEF Next

\* What is saved is the stamp of a record that was answered.
LEMMA SavedStamp ==
  ASSUME TypeOK, BaseInv, NEW w \in Pushers, SaveState(w), ~req[w].ignore
  PROVE  \E top \in sent[w] : last_pushed' = Stamp(top) /\ latest_ts[w] = Stamp(top)
<1>1. pc[w] = "save"
  BY DEF SaveState
<1>2. PICK top \in sent[w] : latest_ts[w] = Stamp(top)
  BY <1>1 DEF BaseInv, OrderInv
<1>3. latest_ts[w] # None
  BY <1>2 DEF TypeOK, Stamp
<1> QED
  BY <1>2, <1>3 DEF SaveState, Upserted

\* What only a save writes.
LEMMA MarkerStays ==
  ASSUME [Next]_vars, ~\E w \in Pushers : SaveState(w)
  PROVE  UNCHANGED last_pushed
  BY DEF Next, Tick, Swipe, Crash, vars, Step, Regular, Begin, ResolveWindow,
         ReadRecords, FetchFaces, PushBatch, PushBatchFails, Finish, Raise

\* The part of the invariant that no clock and no enumeration can break.
LEMMA BaseStep ==
  ASSUME TypeOK, BaseInv, [Next]_vars
  PROVE  BaseInv'
<1>1. MarkerIsAccepted'
  <2>1. accepted \subseteq accepted'
    BY StepEvolves DEF Evolves
  <2>2. ASSUME NEW w \in Pushers, SaveState(w)
        PROVE  MarkerIsAccepted'
    <3>1. CASE req[w].ignore
      BY <2>2, <3>1 DEF BaseInv, MarkerIsAccepted, SaveState, Stamp
    <3>2. CASE ~req[w].ignore
      <4>1. PICK top \in sent[w] : last_pushed' = Stamp(top)
        BY <2>2, <3>2, SavedStamp
      <4>2. top \in accepted
        BY <2>2 DEF BaseInv, DataInv, HasRead, SaveState
      <4> QED
        BY <2>1, <4>1, <4>2 DEF MarkerIsAccepted, Stamp
    <3> QED
      BY <3>1, <3>2
  <2>3. CASE UNCHANGED last_pushed
    BY <2>1, <2>3 DEF BaseInv, MarkerIsAccepted, Stamp
  <2> QED
    BY <2>2, <2>3, MarkerStays
<1> QED
  BY <1>1, BaseLog, BaseRun DEF BaseInv

\* It holds all along.
LEMMA AlwaysBase == Spec => [](TypeOK /\ BaseInv)
<1>1. Init => TypeOK /\ BaseInv
  BY DEF Init, TypeOK, BaseInv, LogInv, MarkerIsAccepted, DataInv, OrderInv, HasRead
<1>2. TypeOK /\ BaseInv /\ [Next]_vars => (TypeOK /\ BaseInv)'
  BY StepTyped, BaseStep
<1> QED
  BY <1>1, <1>2, PTL DEF Spec

\* Whatever the device's clock and its enumerations do, and whichever runs overlap
\* and fail: the saved marker is the timestamp of a record DGHS has taken.
THEOREM MarkerAccepted == Spec => []MarkerIsAccepted
<1>1. BaseInv => MarkerIsAccepted
  BY DEF BaseInv
<1> QED
  BY <1>1, AlwaysBase, PTL

-----------------------------------------------------------------------------
(* The marker is never past a record that is owed.                         *)

\* A handled record stays handled.
LEMMA HandledStable ==
  ASSUME Evolves, NEW r, Handled(r)
  PROVE  Handled(r)'
  BY DEF Evolves, Handled, Excused, Stamp

\* A swipe cannot come in under a time that is not ahead of the marker scale.
LEMMA CoveredStable ==
  ASSUME TypeOK, TypeOK', Evolves,
         NEW m \in Int, NotAhead(m), Covered(m)
  PROVE  NotAhead(m)' /\ Covered(m)'
<1>1. NotAhead(m)'
  <2>1. now \in Int /\ now' \in Int /\ BstShift \in Int
    BY DEF TypeOK
  <2>2. now <= now'
    BY DEF Evolves
  <2> QED
    BY <2>1, <2>2 DEF NotAhead
<1>2. ASSUME NEW r \in log', Stamp(r) < m
      PROVE  Handled(r)'
  <2>1. now \in Int /\ BstShift \in Int /\ (r \notin log => r.t = now)
    BY <1>2 DEF TypeOK, Evolves
  <2>2. r \in log
    BY <1>2, <2>1 DEF NotAhead, Stamp
  <2> QED
    BY <1>2, <2>2, HandledStable DEF Covered
<1>3. Covered(m)'
  BY <1>2 DEF Covered, Stamp
<1> QED
  BY <1>1, <1>3

\* The marker is the stamp of a record, so no record can still come in under
\* it.
LEMMA MarkerNotAhead ==
  ASSUME TypeOK, BaseInv, last_pushed # None
  PROVE  NotAhead(last_pushed)
  BY DEF NotAhead, TypeOK, BaseInv, LogInv, MarkerIsAccepted, Stamp

\* A step that leaves the marker alone leaves it right.
LEMMA MarkerKept ==
  ASSUME TypeOK, TypeOK', IInv, Evolves, UNCHANGED last_pushed
  PROVE  NoUnexplainedGap'
<1>1. ASSUME last_pushed # None
      PROVE  Covered(last_pushed)'
  <2>1. PICK m \in Int : m = last_pushed
    BY <1>1 DEF TypeOK
  <2>2. NotAhead(m) /\ Covered(m)
    BY <1>1, <2>1, MarkerNotAhead
       DEF IInv, NoUnexplainedGap, NotAhead, Covered, Stamp
  <2>3. Covered(m)'
    BY <2>2, CoveredStable
  <2> QED
    BY <2>1, <2>3 DEF Covered, Stamp
<1> QED
  BY <1>1 DEF NoUnexplainedGap

\* What explains w's window goes on explaining it.
LEMMA WindowKept ==
  ASSUME TypeOK, TypeOK', Evolves, NEW v \in Pushers, WindowInv(v),
         req'[v] = req[v], start'[v] = start[v], end'[v] = end[v],
         pc'[v] \in Reading => pc[v] \in Reading
  PROVE  WindowInv(v)'
<1>1. SUFFICES ASSUME pc'[v] \in Reading, ~req[v].ignore
               PROVE  /\ Filters(v) =>
                           \E x \in excuses' :
                             /\ x.users = req[v].users /\ x.okOnly = req[v].okOnly
                             /\ x.until = end[v]
                      /\ \/ \E x \in excuses' : x.floor = start[v] /\ x.until = end[v]
                         \/ NotAhead(start[v])' /\ Covered(start[v])'
  BY DEF WindowInv, Filters, Covered, Stamp, NotAhead
<1>2. /\ Filters(v) =>
           \E x \in excuses :
             /\ x.users = req[v].users /\ x.okOnly = req[v].okOnly
             /\ x.until = end[v]
      /\ \/ \E x \in excuses : x.floor = start[v] /\ x.until = end[v]
         \/ NotAhead(start[v]) /\ Covered(start[v])
  BY <1>1 DEF WindowInv
<1>3. PICK m \in Int : m = start[v]
  BY DEF TypeOK
<1>4. ASSUME NotAhead(m), Covered(m)
      PROVE  NotAhead(start[v])' /\ Covered(start[v])'
  BY <1>3, <1>4, CoveredStable DEF Covered, Stamp, NotAhead
<1> QED
  BY <1>2, <1>3, <1>4 DEF Evolves

\* What w has read goes on being all that matters of its window: a record that
\* comes in later is not older.
LEMMA ReadKept ==
  ASSUME TypeOK, BaseInv, Evolves, NEW v \in Pushers, ReadInv(v),
         req'[v] = req[v], records'[v] = records[v],
         pc'[v] \in HasRead => pc[v] \in HasRead
  PROVE  ReadInv(v)'
<1>1. SUFFICES ASSUME pc'[v] \in HasRead, ~req'[v].ignore,
                      NEW q \in records[v], NEW r \in log' \ records[v],
                      Stamp(r) < Stamp(q)
               PROVE  Handled(r)'
  BY DEF ReadInv, Stamp
<1>2. q \in log /\ q.t <= now
  BY <1>1 DEF BaseInv, DataInv, LogInv
<1>3. r \in log
  BY <1>1, <1>2 DEF TypeOK, Evolves, Stamp
<1>4. Handled(r)
  BY <1>1, <1>3 DEF ReadInv
<1> QED
  BY <1>4, HandledStable

\* A step of anybody else, and one that does not read, keeps what is known of v.
LEMMA RunKept ==
  ASSUME TypeOK, TypeOK', IInv, Evolves, NEW v \in Pushers,
         req'[v] = req[v], start'[v] = start[v], end'[v] = end[v],
         records'[v] = records[v],
         pc'[v] \in Reading => pc[v] \in Reading,
         pc'[v] \in HasRead => pc[v] \in HasRead
  PROVE  RunInv(v)'
  BY WindowKept, ReadKept DEF IInv, RunInv

\* A run that is over owes nothing.
LEMMA ForgetRun ==
  ASSUME TypeOK, NEW w \in Pushers, Forget(w)
  PROVE  RunInv(w)'
  BY ForgetData DEF RunInv, WindowInv, ReadInv, Reading, HasRead

\* The excuse that ResolveWindow puts on record is the one w needs.
LEMMA ResolveRun ==
  ASSUME TypeOK, TypeOK', IInv, Evolves, NEW w \in Pushers, ResolveWindow(w)
  PROVE  RunInv(w)'
<1>1. /\ pc'[w] = "read" /\ req' = req
      /\ start'[w] = WindowStart(w) /\ end'[w] = now + LocalShift
  BY DEF TypeOK, ResolveWindow, Goto
<1>2. WindowInv(w)'
  <2>1. SUFFICES ASSUME ~req[w].ignore
                 PROVE  /\ Filters(w) =>
                             \E x \in excuses' :
                               /\ x.users = req[w].users /\ x.okOnly = req[w].okOnly
                               /\ x.until = end'[w]
                        /\ \/ \E x \in excuses' :
                                x.floor = start'[w] /\ x.until = end'[w]
                           \/ NotAhead(start[w])' /\ Covered(start[w])'
    BY <1>1 DEF WindowInv, Filters
  <2>2. LeavesOut(w) => Excuse(w) \in excuses'
    BY <2>1 DEF ResolveWindow
  <2>3. /\ Excuse(w).users = req[w].users /\ Excuse(w).okOnly = req[w].okOnly
        /\ Excuse(w).until = end'[w]
    BY <1>1 DEF Excuse
  <2>4. Filters(w) => LeavesOut(w)
    BY DEF LeavesOut
  <2>5. CASE Resumes(w)
    <3>1. last_pushed # None /\ start'[w] = last_pushed
      BY <1>1, <2>5 DEF Resumes, WindowStart
    <3>2. PICK m \in Int : m = last_pushed
      BY <3>1 DEF TypeOK
    <3>3. NotAhead(m) /\ Covered(m)
      BY <3>1, <3>2, MarkerNotAhead
         DEF IInv, NoUnexplainedGap, NotAhead, Covered, Stamp
    <3>4. NotAhead(m)' /\ Covered(m)'
      BY <3>3, CoveredStable
    <3>5. NotAhead(start[w])' /\ Covered(start[w])'
      BY <3>1, <3>2, <3>4 DEF NotAhead, Covered, Stamp
    <3> QED
      BY <2>2, <2>3, <2>4, <3>5
  <2>6. CASE ~Resumes(w)
    <3>1. Excuse(w).floor = start'[w] /\ LeavesOut(w)
      BY <1>1, <2>6 DEF Excuse, LeavesOut
    <3> QED
      BY <2>2, <2>3, <3>1
  <2> QED
    BY <2>5, <2>6
<1> QED
  BY <1>1, <1>2 DEF RunInv, ReadInv, HasRead

\* A record from before the window of w is handled: its start is an excuse on
\* record, or was the marker.
LEMMA BeforeWindow ==
  ASSUME TypeOK, ClocksAgree, NEW w \in Pushers, WindowInv(w), pc[w] \in Reading,
         ~req[w].ignore, NEW r \in log, r.t + QueryShift < start[w],
         r.t + QueryShift <= end[w]
  PROVE  Handled(r)
<1>1. \/ \E x \in excuses : x.floor = start[w] /\ x.until = end[w]
      \/ NotAhead(start[w]) /\ Covered(start[w])
  BY DEF WindowInv
<1>2. start[w] \in Int /\ r.t \in Int
  BY DEF TypeOK
<1>3. Stamp(r) < start[w]
  BY <1>2 DEF ClocksAgree, Stamp
<1>4. start[w] # None
  BY <1>2
<1> QED
  BY <1>1, <1>3, <1>4 DEF Covered, Handled, Excused

\* So is one that the filters of w do not let pass.
LEMMA NotWanted ==
  ASSUME NEW w \in Pushers, WindowInv(w), pc[w] \in Reading, ~req[w].ignore,
         NEW r \in log, ~Wanted(req[w], r), r.t + QueryShift <= end[w]
  PROVE  Handled(r)
<1>1. CASE Filters(w)
  <2>1. PICK x \in excuses :
          x.users = req[w].users /\ x.okOnly = req[w].okOnly /\ x.until = end[w]
    BY <1>1 DEF WindowInv
  <2> QED
    BY <2>1 DEF Wanted, Handled, Excused
<1>2. CASE ~Filters(w)
  BY <1>2 DEF Filters, Wanted, Handled
<1> QED
  BY <1>1, <1>2

\* What a read leaves out is handled as far back as anything it returns.
LEMMA ReadRun ==
  ASSUME TypeOK, TypeOK', IInv, Evolves, NEW w \in Pushers, ReadRecords(w),
         ClocksAgree, ListingSafe
  PROVE  RunInv(w)'
<1>1. PICK got \in Listings(start[w], end[w]) :
        /\ records'[w] = {r \in got : Wanted(req[w], r)}
        /\ pc[w] = "read"
        /\ UNCHANGED <<now, log, accepted, last_pushed, excuses, req, start, end,
                       sent, failed, latest_ts>>
  BY ReadData
<1>2. WindowInv(w) /\ pc[w] \in Reading
  BY <1>1 DEF IInv, RunInv, Reading
<1>3. WindowInv(w)'
  BY <1>1, <1>2, WindowKept
<1>4. ReadInv(w)'
  <2>1. SUFFICES ASSUME ~req[w].ignore, NEW q \in records'[w],
                        NEW r \in log \ records'[w], Stamp(r) < Stamp(q)
                 PROVE  Handled(r)
    BY <1>1 DEF ReadInv, Stamp, Handled, Excused
  <2>2. q \in got /\ q \in Hits(start[w], end[w])
    BY <1>1, <2>1 DEF Listings
  <2>3. r.t \in Int /\ q.t \in Int /\ r.t < q.t
    BY <2>1, <2>2 DEF TypeOK, Stamp, Hits
  <2>4. start[w] \in Int /\ end[w] \in Int
    BY DEF TypeOK
  <2>5. r.t + QueryShift <= end[w]
    BY <2>2, <2>3, <2>4 DEF Hits
  <2>6. CASE r \in got
    BY <1>1, <1>2, <2>1, <2>5, <2>6, NotWanted
  <2>7. CASE r \notin got /\ r \in Hits(start[w], end[w])
    <3>1. EnumeratedBefore(q, r) /\ ~NewestFirst
      BY <2>2, <2>7, ListingSafe DEF Listings, ListingSafe
    <3> QED
      BY <2>3, <3>1 DEF EnumeratedBefore
  <2>8. CASE r \notin Hits(start[w], end[w])
    <3>1. r.t + QueryShift < start[w]
      BY <2>1, <2>3, <2>4, <2>5, <2>8 DEF Hits
    <3> QED
      BY <1>2, <2>1, <2>5, <3>1, BeforeWindow
  <2> QED
    BY <2>6, <2>7, <2>8
<1> QED
  BY <1>3, <1>4 DEF RunInv

\* The timestamp that is saved covers everything before it.
LEMMA SaveMarker ==
  ASSUME TypeOK, IInv, NEW w \in Pushers, SaveState(w)
  PROVE  NoUnexplainedGap'
<1>1. pc[w] = "save" /\ UNCHANGED <<log, accepted, excuses>>
  BY DEF SaveState
<1>2. CASE req[w].ignore
  BY <1>1, <1>2 DEF SaveState, IInv, NoUnexplainedGap, Covered, Handled, Excused, Stamp
<1>3. CASE ~req[w].ignore
  <2>1. PICK top \in sent[w] : last_pushed' = Stamp(top)
    BY <1>3, SavedStamp DEF IInv
  <2>2. sent[w] \subseteq records[w] \cap accepted /\ accepted \subseteq Record
    BY <1>1 DEF IInv, BaseInv, DataInv, HasRead, TypeOK
  <2>3. ASSUME NEW r \in log, Stamp(r) < Stamp(top)
        PROVE  Handled(r)
    <3>1. CASE r \notin records[w]
      BY <1>1, <1>3, <2>2, <2>3, <3>1 DEF IInv, RunInv, ReadInv, HasRead
    <3>2. CASE r \in records[w] \ sent[w]
      <4>1. Stamp(top) <= Stamp(r)
        BY <1>1, <3>2 DEF IInv, BaseInv, OrderInv, HasRead
      <4>2. Stamp(top) \in Int /\ Stamp(r) \in Int
        BY <2>2, <2>3 DEF TypeOK, Stamp
      <4> QED
        BY <2>3, <4>1, <4>2
    <3>3. CASE r \in sent[w]
      BY <2>2, <3>3 DEF Handled
    <3> QED
      BY <3>1, <3>2, <3>3
  <2> QED
    BY <1>1, <2>1, <2>3 DEF NoUnexplainedGap, Covered, Handled, Excused, Stamp
<1> QED
  BY <1>2, <1>3

\* The marker is right after any step.
LEMMA StepKeepsMarker ==
  ASSUME TypeOK, IInv, [Next]_vars
  PROVE  NoUnexplainedGap'
<1>1. TypeOK' /\ Evolves
  BY StepTyped, StepEvolves
<1> QED
  BY <1>1, SaveMarker, MarkerStays, MarkerKept

\* Every run in progress keeps its invariant, whoever steps.
LEMMA StepKeepsRuns ==
  ASSUME TypeOK, IInv, [Next]_vars, ClocksAgree, ListingSafe,
         NEW v \in Pushers
  PROVE  RunInv(v)'
<1>1. TypeOK' /\ Evolves
  BY StepTyped, StepEvolves
<1>2. CASE Tick \/ Swipe \/ UNCHANGED vars
  BY <1>1, <1>2, RunKept DEF Tick, Swipe, vars, local
<1>3. CASE Crash
  BY <1>3 DEF Crash, RunInv, WindowInv, ReadInv, Reading, HasRead
<1>4. ASSUME NEW w \in Pushers, Step(w)
      PROVE  RunInv(v)'
  <2>1. CASE v # w
    BY <1>1, <1>4, <2>1, OthersKept, RunKept
  <2>2. CASE v = w
    <3>1. CASE Begin(w)
      <4>1. pc'[w] = "resolve"
        BY <3>1 DEF TypeOK, Begin, Goto
      <4> QED
        BY <2>2, <4>1 DEF RunInv, WindowInv, ReadInv, Reading, HasRead
    <3>2. CASE ResolveWindow(w)
      BY <1>1, <2>2, <3>2, ResolveRun
    <3>3. CASE ReadRecords(w)
      BY <1>1, <2>2, <3>3, ReadRun
    <3>4. CASE FetchFaces(w) \/ PushBatch(w) \/ PushBatchFails(w) \/ SaveState(w)
      <4>1. pc[w] \in HasRead /\ UNCHANGED <<req, start, end, records>>
        BY <3>4 DEF FetchFaces, PushBatch, PushBatchFails, SaveState, HasRead, local
      <4> QED
        BY <1>1, <2>2, <4>1, RunKept DEF Reading, HasRead
    <3>5. CASE Finish(w) \/ Raise(w)
      BY <2>2, <3>5, ForgetRun DEF Finish, Raise
    <3> QED
      BY <1>4, <3>1, <3>2, <3>3, <3>4, <3>5 DEF Step, Regular
  <2> QED
    BY <2>1, <2>2
<1> QED
  BY <1>2, <1>3, <1>4 DEF Next

\* The invariant and the types, all along.
LEMMA AlwaysSafe ==
  ASSUME ClocksAgree, ListingSafe
  PROVE  Spec => [](TypeOK /\ IInv)
<1>1. Init => TypeOK /\ IInv
  BY DEF Init, TypeOK, IInv, BaseInv, LogInv, NoUnexplainedGap, MarkerIsAccepted,
         RunInv, DataInv, OrderInv, WindowInv, ReadInv, Reading, HasRead
<1>2. TypeOK /\ IInv /\ [Next]_vars => (TypeOK /\ IInv)'
  <2>1. SUFFICES ASSUME TypeOK, IInv, [Next]_vars
                 PROVE  TypeOK' /\ IInv'
    OBVIOUS
  <2>2. TypeOK' /\ BaseInv' /\ NoUnexplainedGap'
    BY <2>1, StepTyped, BaseStep, StepKeepsMarker DEF IInv
  <2>3. ASSUME NEW v \in Pushers
        PROVE  RunInv(v)'
    BY <2>1, StepKeepsRuns
  <2> QED
    BY <2>2, <2>3 DEF IInv
<1> QED
  BY <1>1, <1>2, PTL DEF Spec

\* Whatever runs overlap, whatever they are asked for, whichever call fails and
\* wherever the process dies: a record older than the marker is with DGHS, or
\* has no user, or was left out on request.  The device has to compare times on
\* a scale that is not behind the marker's and to enumerate old records first if
\* an enumeration can break off.
THEOREM MarkerSafe ==
  ASSUME ClocksAgree, ListingSafe
  PROVE  Spec => []NoUnexplainedGap
<1>1. IInv => NoUnexplainedGap
  BY DEF IInv
<1> QED
  BY <1>1, AlwaysSafe, PTL

-----------------------------------------------------------------------------
(* The push implements a cursor.                                           *)

\* Every step of the push moves the cursor, does some of the work, adds to the
\* log, or does nothing a reader of the cursor can see.
LEMMA CursorStep ==
  ASSUME TypeOK, IInv, TypeOK', IInv', [Next]_vars
  PROVE  [C!Next]_(C!vars)
<1> DEFINE done == {r \in log : Handled(r)}
<1>1. Evolves
  BY StepEvolves
<1>2. done \subseteq done'
  BY <1>1, HandledStable DEF Evolves
<1>3. CASE Swipe
  <2>1. /\ UNCHANGED <<accepted, last_pushed, excuses>>
        /\ log \subseteq log' /\ \A r \in log' \ log : r.t = now
    BY <1>1, <1>3 DEF Swipe, Evolves
  <2>2. \A r : Handled(r)' <=> Handled(r)
    BY <2>1 DEF Handled, Excused, Stamp
  <2>3. ASSUME NEW r \in log' \ log, last_pushed # None PROVE last_pushed <= Stamp(r)
    <3>1. NotAhead(last_pushed)
      BY <2>3, MarkerNotAhead DEF IInv
    <3>2. r.t = now /\ now \in Int /\ BstShift \in Int /\ last_pushed \in Int
      BY <2>1, <2>3, ConstantsAssumption DEF TypeOK
    <3> QED
      BY <3>1, <3>2 DEF NotAhead, Stamp
  <2>4. done' \ done \subseteq log' \ log
    BY <2>1, <2>2
  <2>5. C!Log
    BY <1>2, <2>1, <2>3, <2>4 DEF C!Log
  <2> QED
    BY <2>5 DEF C!Next
<1>4. CASE \E w \in Pushers : SaveState(w)
  <2>1. PICK w \in Pushers : SaveState(w)
    BY <1>4
  <2>2. UNCHANGED <<log, accepted, excuses>>
    BY <2>1 DEF SaveState
  <2>3. \A r : Handled(r)' <=> Handled(r)
    BY <2>2 DEF Handled, Excused, Stamp
  <2>4. done' = done
    BY <2>2, <2>3
  <2>5. CASE last_pushed' = last_pushed
    BY <2>2, <2>4, <2>5 DEF C!vars
  <2>6. CASE last_pushed' # last_pushed
    <3>1. last_pushed' # None
      <4>1. last_pushed' \in {last_pushed, latest_ts[w]} /\ (latest_ts[w] = None => last_pushed' = last_pushed)
        BY <2>1 DEF SaveState, Upserted
      <4> QED
        BY <2>6, <4>1
    <3>2. PICK r \in accepted' : Stamp(r) = last_pushed'
      BY <3>1 DEF IInv, BaseInv, MarkerIsAccepted, Stamp
    <3>3. r \in done
      BY <2>2, <3>2 DEF IInv, BaseInv, LogInv, Handled
    <3>4. \A o \in log : Stamp(o) < Stamp(r) => o \in done
      <4>1. \A o \in log' : Stamp(o) < last_pushed' => Handled(o)'
        BY <3>1 DEF IInv, NoUnexplainedGap, Covered, Stamp
      <4> QED
        BY <2>2, <2>3, <3>2, <4>1
    <3>5. C!Move
      BY <2>2, <2>4, <3>2, <3>3, <3>4 DEF C!Move
    <3> QED
      BY <3>5 DEF C!Next
  <2> QED
    BY <2>5, <2>6
<1>5. CASE ~Swipe /\ ~\E w \in Pushers : SaveState(w)
  <2>1. log' = log /\ last_pushed' = last_pushed
    BY <1>5 DEF Next, vars, Tick, Crash, Step, Regular, Begin, ResolveWindow, ReadRecords,
                FetchFaces, PushBatch, PushBatchFails, Finish, Raise
  <2>2. C!Work
    BY <1>2, <2>1 DEF C!Work
  <2> QED
    BY <2>2 DEF C!Next
<1> QED
  BY <1>3, <1>4, <1>5

\* However many pushes overlap and whatever fails, the pushes of a device together
\* are a cursor over its records: the marker is only ever put on a handled record
\* with nothing owed before it, and no record is logged behind it.
THEOREM PushIsCursor ==
  ASSUME ClocksAgree, ListingSafe
  PROVE  Spec => IsCursor
<1>1. Init => C!Init
  BY DEF Init, C!Init
<1>2. (TypeOK /\ IInv) /\ (TypeOK /\ IInv)' /\ [Next]_vars => [C!Next]_(C!vars)
  BY CursorStep
<1> QED
  BY <1>1, <1>2, AlwaysSafe, PTL DEF Spec, IsCursor, C!Spec

-----------------------------------------------------------------------------
(* A run that is done is complete.                                         *)

\* There is always something in a batch.
LEMMA BatchNotEmpty ==
  ASSUME NEW S, IsFiniteSet(S), S # {}, NEW batch \in Batches(S)
  PROVE  batch # {}
<1>1. Cardinality(S) \in Nat /\ Cardinality(S) # 0
  BY FS_EmptySet, FS_CardinalityType
<1>2. Cardinality(batch) # 0
  BY <1>1 DEF Batches
<1> QED
  BY <1>2, FS_EmptySet

\* The device holds finitely many records.
LEMMA LogFinite ==
  ASSUME IsFiniteSet(log), [Next]_vars
  PROVE  IsFiniteSet(log')
<1>1. CASE Swipe
  BY <1>1, FS_AddElement DEF Swipe
<1>2. CASE ~Swipe
  <2>1. log' = log
    BY <1>2 DEF Next, vars, Tick, Crash, Step, Regular, Begin, ResolveWindow,
                ReadRecords, FetchFaces, PushBatch, PushBatchFails, SaveState,
                Finish, Raise
  <2> QED
    BY <2>1
<1> QED
  BY <1>1, <1>2

\* What is known of the end of v's window and of what v has not read goes on to
\* hold: what comes in later is not from before that end.
LEMMA EndKept ==
  ASSUME TypeOK, TypeOK', Evolves, NEW v \in Pushers, EndInv(v), CloseInv(v),
         req'[v] = req[v], end'[v] = end[v], records'[v] = records[v],
         pc'[v] \in Reading => pc[v] \in Reading,
         pc'[v] \in HasRead => pc[v] \in HasRead
  PROVE  (EndInv(v) /\ CloseInv(v))'
<1>1. EndInv(v)'
  <2>1. now \in Int /\ now' \in Int /\ end[v] \in Int /\ now <= now'
    BY DEF TypeOK, Evolves
  <2> QED
    BY <2>1 DEF EndInv
<1>2. CloseInv(v)'
  <2>1. SUFFICES ASSUME pc'[v] \in HasRead, ~req[v].ignore,
                        NEW r \in log' \ records[v], r.t + LocalShift < end[v]
                 PROVE  Handled(r)'
    BY DEF CloseInv
  <2>2. end[v] <= now + LocalShift /\ end[v] \in Int /\ now \in Int
    BY <2>1 DEF TypeOK, EndInv, Reading, HasRead
  <2>3. r \in log
    BY <2>1, <2>2 DEF Evolves
  <2> QED
    BY <2>1, <2>3, HandledStable DEF CloseInv
<1> QED
  BY <1>1, <1>2

\* Nothing is known, or needed, of a run that is over.
LEMMA EndIdle ==
  ASSUME NEW v \in Pushers, pc'[v] \notin Reading
  PROVE  (EndInv(v) /\ CloseInv(v))'
  BY DEF EndInv, CloseInv, Reading, HasRead

\* A read that is complete leaves out only what is handled.
LEMMA ReadComplete ==
  ASSUME TypeOK, IInv, NEW w \in Pushers, ReadRecords(w), EndInv(w),
         ClocksAgree, WindowReaches, ~LossyListing
  PROVE  (EndInv(w) /\ CloseInv(w))'
<1>1. PICK got \in Listings(start[w], end[w]) :
        /\ records'[w] = {r \in got : Wanted(req[w], r)}
        /\ pc[w] = "read"
        /\ UNCHANGED <<now, log, accepted, last_pushed, excuses, req, start, end,
                       sent, failed, latest_ts>>
  BY ReadData
<1>2. WindowInv(w) /\ pc[w] \in Reading
  BY <1>1 DEF IInv, RunInv, Reading
<1>3. CloseInv(w)'
  <2>1. SUFFICES ASSUME ~req[w].ignore, NEW r \in log \ records'[w],
                        r.t + LocalShift < end[w]
                 PROVE  Handled(r)
    BY <1>1 DEF CloseInv, Handled, Excused, Stamp
  <2>2. r.t \in Int /\ start[w] \in Int /\ end[w] \in Int
    BY DEF TypeOK
  <2>3. r.t + QueryShift <= end[w]
    BY <2>1, <2>2 DEF WindowReaches
  <2>4. CASE r \in got
    BY <1>1, <1>2, <2>1, <2>3, <2>4, NotWanted
  <2>5. CASE r \notin got
    <3>1. r \notin Hits(start[w], end[w])
      BY <2>5 DEF Listings
    <3>2. r.t + QueryShift < start[w]
      BY <2>1, <2>2, <2>3, <3>1 DEF Hits
    <3> QED
      BY <1>2, <2>1, <2>3, <3>2, BeforeWindow
  <2> QED
    BY <2>4, <2>5
<1> QED
  BY <1>1, <1>2, <1>3 DEF EndInv

\* The end of a window and what was not read of it, after any step.
LEMMA StepClose ==
  ASSUME TypeOK, IInv, CompleteInv, [Next]_vars, NEW v \in Pushers,
         ClocksAgree, WindowReaches, ~LossyListing
  PROVE  (EndInv(v) /\ CloseInv(v))'
<1>1. TypeOK' /\ Evolves /\ EndInv(v) /\ CloseInv(v)
  BY StepTyped, StepEvolves DEF CompleteInv
<1>2. CASE Tick \/ Swipe \/ UNCHANGED vars
  BY <1>1, <1>2, EndKept DEF Tick, Swipe, vars, local
<1>3. CASE Crash
  BY <1>3, EndIdle DEF Crash, Reading
<1>4. ASSUME NEW w \in Pushers, Step(w)
      PROVE  (EndInv(v) /\ CloseInv(v))'
  <2>1. CASE v # w
    BY <1>1, <1>4, <2>1, OthersKept, EndKept
  <2>2. CASE v = w
    <3>1. CASE Begin(v) \/ Finish(v) \/ Raise(v)
      <4>1. pc'[v] \in {"idle", "resolve"}
        BY <3>1, ForgetData DEF TypeOK, Begin, Finish, Raise, Goto
      <4> QED
        BY <4>1, EndIdle DEF Reading
    <3>2. CASE ResolveWindow(v)
      <4>1. pc'[v] = "read" /\ end'[v] = now + LocalShift /\ now' = now
        BY <3>2 DEF TypeOK, ResolveWindow, Goto
      <4> QED
        BY <4>1 DEF TypeOK, EndInv, CloseInv, HasRead
    <3>3. CASE ReadRecords(v)
      BY <1>1, <3>3, ReadComplete
    <3>4. CASE FetchFaces(v) \/ PushBatch(v) \/ PushBatchFails(v) \/ SaveState(v)
      <4>1. pc[v] \in HasRead /\ UNCHANGED <<req, end, records>>
        BY <3>4 DEF FetchFaces, PushBatch, PushBatchFails, SaveState, HasRead, local
      <4> QED
        BY <1>1, <4>1, EndKept DEF Reading, HasRead
    <3> QED
      BY <1>4, <2>2, <3>1, <3>2, <3>3, <3>4 DEF Step, Regular
  <2> QED
    BY <2>1, <2>2
<1> QED
  BY <1>2, <1>3, <1>4 DEF Next

\* A run comes to its end with a batch that failed or with everything sent.
LEMMA StepDone ==
  ASSUME TypeOK, IInv, CompleteInv, [Next]_vars, NEW v \in Pushers
  PROVE  DoneInv(v)'
<1>1. DoneInv(v) /\ DataInv(v) /\ IsFiniteSet(log)
  BY DEF CompleteInv, IInv, BaseInv
<1>2. CASE Tick \/ Swipe \/ UNCHANGED vars
  BY <1>1, <1>2 DEF DoneInv, Tick, Swipe, vars, local
<1>3. CASE Crash
  BY <1>3 DEF Crash, DoneInv
<1>4. ASSUME NEW w \in Pushers, Step(w)
      PROVE  DoneInv(v)'
  <2>1. CASE v # w
    BY <1>1, <1>4, <2>1, OthersKept DEF DoneInv
  <2>2. CASE v = w
    <3>1. CASE Begin(v) \/ ResolveWindow(v) \/ Finish(v) \/ Raise(v)
      <4>1. pc'[v] \in {"idle", "resolve", "read"}
        BY <3>1, ForgetData DEF TypeOK, Begin, ResolveWindow, Finish, Raise, Goto
      <4> QED
        BY <4>1 DEF DoneInv
    <3>2. CASE ReadRecords(v)
      <4>1. /\ pc[v] = "read" /\ sent' = sent
            /\ pc'[v] = IF records'[v] = {} THEN "finish" ELSE "faces"
        BY <3>2, ReadData
      <4>2. sent[v] = {}
        BY <1>1, <4>1 DEF DataInv, HasRead
      <4> QED
        BY <4>1, <4>2 DEF DoneInv
    <3>3. CASE FetchFaces(v)
      BY <1>1, <3>3 DEF TypeOK, FetchFaces, Goto, DoneInv, local
    <3>4. CASE PushBatch(v)
      BY <3>4, PushData DEF DoneInv
    <3>5. CASE PushBatchFails(v)
      <4>1. PICK batch \in Batches(records[v] \ sent[v]) :
              failed'[v] = batch /\ pc[v] = "push" /\ pc'[v] = "finish"
        BY <3>5, PushFailsData
      <4>2. records[v] \ sent[v] \subseteq log /\ records[v] \ sent[v] # {}
        BY <1>1, <4>1 DEF DataInv, DoneInv, HasRead
      <4>3. IsFiniteSet(records[v] \ sent[v])
        BY <1>1, <4>2, FS_Subset
      <4>4. batch # {}
        BY <4>2, <4>3, BatchNotEmpty
      <4> QED
        BY <4>1, <4>4 DEF DoneInv
    <3>6. CASE SaveState(v)
      <4>1. /\ pc[v] = "save"
            /\ pc'[v] = IF sent[v] = records[v] THEN "finish" ELSE "push"
            /\ UNCHANGED <<sent, records, failed>>
        BY <3>6, SaveData DEF local
      <4>2. sent[v] \subseteq records[v]
        BY <1>1, <4>1 DEF DataInv, HasRead
      <4>3. CASE sent[v] = records[v]
        BY <4>1, <4>3 DEF DoneInv
      <4>4. CASE sent[v] # records[v]
        <5>1. records[v] \ sent[v] # {} /\ pc'[v] = "push"
          BY <4>1, <4>2, <4>4
        <5> QED
          BY <4>1, <5>1 DEF DoneInv
      <4> QED
        BY <4>3, <4>4
    <3> QED
      BY <1>4, <2>2, <3>1, <3>2, <3>3, <3>4, <3>5, <3>6 DEF Step, Regular
  <2> QED
    BY <2>1, <2>2
<1> QED
  BY <1>2, <1>3, <1>4 DEF Next

\* A run that ends without a failed batch has left nothing behind, however many
\* others overlap with it: whatever the device logged before the end of its window
\* is handled.  Enumerations must not break off, and the scale on which the device
\* compares must not be behind the marker's nor far ahead of the server's clock.
THEOREM RunIsComplete ==
  ASSUME ClocksAgree, WindowReaches, ~LossyListing
  PROVE  Spec => []CompleteRun
<1>1. Init => CompleteInv
  BY FS_EmptySet DEF Init, CompleteInv, EndInv, CloseInv, DoneInv, Reading, HasRead
<1>2. CompleteInv /\ (TypeOK /\ IInv) /\ [Next]_vars => CompleteInv'
  BY LogFinite, StepClose, StepDone DEF CompleteInv
<1>3. (TypeOK /\ IInv) /\ CompleteInv => CompleteRun
  <2>1. SUFFICES ASSUME TypeOK, IInv, CompleteInv, NEW w \in Pushers,
                        pc[w] = "finish", failed[w] = {}, ~req[w].ignore,
                        NEW r \in log, r.t + LocalShift < end[w]
                 PROVE  Handled(r)
    BY DEF CompleteRun
  <2>2. CASE r \in records[w]
    BY <2>1, <2>2
       DEF CompleteInv, DoneInv, IInv, BaseInv, DataInv, HasRead, Handled
  <2>3. CASE r \notin records[w]
    BY <2>1, <2>3 DEF CompleteInv, CloseInv, HasRead
  <2> QED
    BY <2>2, <2>3
<1>4. ListingSafe
  BY DEF ListingSafe
<1> QED
  BY <1>1, <1>2, <1>3, <1>4, AlwaysSafe, PTL DEF Spec

-----------------------------------------------------------------------------
(* Nothing older than the marker is posted again.                          *)

\* A run that has the marker to itself has nothing before it left to send.
LEMMA StepResend ==
  ASSUME TypeOK, BaseInv, [Next]_vars, MarkerReaches,
         \A v, w \in Pushers : v = w, NEW v \in Pushers, ResendInv(v)
  PROVE  ResendInv(v)'
<1>1. CASE Tick \/ Swipe \/ UNCHANGED vars
  BY <1>1 DEF ResendInv, Resuming, Stamp, Tick, Swipe, vars, local
<1>2. CASE Crash
  BY <1>2 DEF Crash, ResendInv
<1>3. CASE Step(v)
  <2>1. CASE Begin(v) \/ Finish(v) \/ Raise(v)
    <3>1. pc'[v] \in {"idle", "resolve"}
      BY <2>1, ForgetData DEF TypeOK, Begin, Finish, Raise, Goto
    <3> QED
      BY <3>1 DEF ResendInv
  <2>2. CASE ResolveWindow(v)
    <3>1. /\ pc'[v] = "read" /\ start'[v] = WindowStart(v)
          /\ last_pushed' = last_pushed /\ req' = req
      BY <2>2 DEF TypeOK, ResolveWindow, Goto
    <3> QED
      BY <3>1 DEF ResendInv, Resuming, Resumes, WindowStart
  <2>3. CASE ReadRecords(v)
    <3>1. PICK got \in Listings(start[v], end[v]) :
            /\ records'[v] = {r \in got : Wanted(req[v], r)}
            /\ pc[v] = "read" /\ pc'[v] \in {"finish", "faces"}
            /\ UNCHANGED <<now, log, accepted, last_pushed, excuses, req, start,
                           end, sent, failed, latest_ts>>
      BY <2>3, ReadData
    <3>2. ASSUME NEW r \in records'[v] PROVE start[v] <= Stamp(r)
      <4>1. r \in log /\ start[v] <= r.t + QueryShift
        BY <3>1, <3>2 DEF Listings, Hits
      <4>2. r.t \in Int /\ start[v] \in Int
        BY <4>1 DEF TypeOK
      <4> QED
        BY <4>1, <4>2 DEF MarkerReaches, Stamp
    <3> QED
      BY <3>1, <3>2 DEF ResendInv, Resuming, Stamp
  <2>4. CASE FetchFaces(v)
    BY <2>4 DEF TypeOK, FetchFaces, Goto, ResendInv, Resuming, Stamp, local
  <2>5. CASE PushBatch(v) \/ PushBatchFails(v)
    <3>1. pc'[v] \in {"save", "finish"}
      BY <2>5, PushData, PushFailsData
    <3> QED
      BY <3>1 DEF ResendInv
  <2>6. CASE SaveState(v)
    <3>1. /\ pc[v] = "save" /\ pc'[v] \in {"push", "finish"}
          /\ UNCHANGED <<req, records, sent>>
      BY <2>6, SaveData DEF local
    <3>2. CASE req[v].ignore
      BY <3>1, <3>2 DEF ResendInv, Resuming
    <3>3. CASE ~req[v].ignore
      <4>1. PICK top \in sent[v] : last_pushed' = Stamp(top)
        BY <2>6, <3>3, SavedStamp
      <4>2. \A s \in records[v] \ sent[v] : Stamp(top) <= Stamp(s)
        BY <3>1 DEF BaseInv, OrderInv, HasRead
      <4> QED
        BY <3>1, <4>1, <4>2 DEF ResendInv, Stamp
    <3> QED
      BY <3>2, <3>3
  <2> QED
    BY <1>3, <2>1, <2>2, <2>3, <2>4, <2>5, <2>6 DEF Step, Regular
<1> QED
  BY <1>1, <1>2, <1>3 DEF Next

\* While pushes do not overlap, one that resumes from the marker posts nothing
\* older than it, whatever failed and died before.  What is posted again is of the
\* marker's own second or newer: DGHS took it and no marker was saved for it.  The
\* device must not compare on a scale ahead of the marker's.
THEOREM NothingOlderResent ==
  ASSUME MarkerReaches, \A v, w \in Pushers : v = w
  PROVE  Spec => ResendsNothingOlder
<1> DEFINE RI == \A w \in Pushers : ResendInv(w)
           Little == \A w \in Pushers :
             PushBatch(w) /\ last_pushed # None /\ req[w].since = None /\ ~req[w].ignore
               => \A r \in sent'[w] \ sent[w] : Stamp(r) >= last_pushed
<1>1. Init => RI
  BY DEF Init, ResendInv, Resuming
<1>2. RI /\ (TypeOK /\ BaseInv) /\ [Next]_vars => RI'
  BY StepResend
<1>3. RI /\ (TypeOK /\ BaseInv) => Little
  <2>1. SUFFICES ASSUME RI, TypeOK, BaseInv, NEW w \in Pushers, PushBatch(w),
                        Resuming(w), NEW r \in sent'[w] \ sent[w]
                 PROVE  Stamp(r) >= last_pushed
    BY DEF Resuming
  <2>2. PICK batch \in Batches(records[w] \ sent[w]) :
          sent'[w] = sent[w] \cup batch /\ pc[w] = "push"
    BY <2>1, PushData
  <2>3. r \in records[w] \ sent[w] /\ r \in Record
    BY <2>1, <2>2 DEF Batches, TypeOK
  <2>4. last_pushed <= Stamp(r)
    BY <2>1, <2>2, <2>3 DEF ResendInv
  <2>5. last_pushed \in Int /\ Stamp(r) \in Int
    BY <2>1, <2>3 DEF TypeOK, Resuming, Stamp
  <2> QED
    BY <2>4, <2>5
<1> QED
  BY <1>1, <1>2, <1>3, AlwaysBase, PTL DEF Spec, ResendsNothingOlder
=============================================================================
