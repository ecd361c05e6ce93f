----------------------------- MODULE JobsProofs -----------------------------
(***************************************************************************)
(* For any jobs of any kinds, whichever of their database calls raise and  *)
(* whenever the process dies: what the row of a job says of its end is so. *)
(***************************************************************************)
EXTENDS Jobs, TLAPS

Inv == TypeOK /\ IInv

\* A call to the jobs table changes the row and the runner of its job only: the
\* call returns with the new status in the row, or it raises.
LEMMA PutFrame ==
  ASSUME TypeOK, NEW j \in Jobs, NEW status, NEW label, NEW handler,
         Put(j, status, label, handler)
  PROVE  /\ \/ row'[j] = status /\ pc'[j] = label
            \/ j \in Flaky /\ row'[j] \in {row[j], status} /\ pc'[j] = handler
         /\ \A k \in Jobs \ {j} : row'[k] = row[k] /\ pc'[k] = pc[k]
  BY DEF TypeOK, Put

\* Rows and runners keep their types.
LEMMA PutTyped ==
  ASSUME TypeOK, NEW j \in Jobs, NEW status \in {"queued", "running"} \cup Final,
         NEW label \in {"start", "work", "returned", "fail"},
         NEW handler \in {"refused", "fail", "raised"},
         Put(j, status, label, handler)
  PROVE  TypeOK'
  BY DEF TypeOK, Put, Final

\* What is known of one job follows it through a step of its own.
LEMMA OwnStep ==
  ASSUME Inv, NEW j \in Jobs, Create(j) \/ Run(j)
  PROVE  Inv'
<1>1. CASE Create(j)
  <2>1. TypeOK'
    BY <1>1, PutTyped DEF Inv, Create
  <2> QED
    BY <1>1, <2>1, PutFrame
       DEF Inv, IInv, OverInv, EndIsRecorded, RaisedInv, Create, Final
<1>2. CASE Start(j)
  <2>1. TypeOK'
    BY <1>2, PutTyped DEF Inv, Start
  <2> QED
    BY <1>2, <2>1, PutFrame
       DEF Inv, IInv, OverInv, EndIsRecorded, RaisedInv, Start, Final
<1>3. CASE Work(j)
  BY <1>3 DEF Inv, TypeOK, IInv, OverInv, EndIsRecorded, RaisedInv, Work, Final
<1>4. CASE Finish(j)
  <2>1. TypeOK'
    BY <1>4, PutTyped DEF Inv, Finish, AfterDone, Final
  <2> QED
    BY <1>4, <2>1, PutFrame
       DEF Inv, IInv, OverInv, EndIsRecorded, RaisedInv, Finish, AfterDone, Final
<1>5. CASE Fail(j)
  <2>1. TypeOK'
    BY <1>5, PutTyped DEF Inv, Fail, Final
  <2> QED
    BY <1>5, <2>1, PutFrame
       DEF Inv, IInv, OverInv, EndIsRecorded, RaisedInv, Fail, Final
<1> QED
  BY <1>1, <1>2, <1>3, <1>4, <1>5 DEF Run

\* The death of the process takes the runners and leaves the rows.
LEMMA CrashStep ==
  ASSUME Inv, Crash
  PROVE  Inv'
  BY DEF Inv, TypeOK, IInv, OverInv, EndIsRecorded, RaisedInv, Crash, Live, Final

\* The inductive invariant holds in every reachable state.
LEMMA InvInductive == Spec => []Inv
<1>1. Init => Inv
  BY DEF Init, Inv, TypeOK, IInv, OverInv, EndIsRecorded, RaisedInv, Final
<1>2. Inv /\ UNCHANGED vars => Inv'
  BY DEF Inv, TypeOK, IInv, OverInv, EndIsRecorded, RaisedInv, Final, vars
<1>3. Inv /\ [Next]_vars => Inv'
  BY <1>2, OwnStep, CrashStep DEF Next
<1> QED
  BY <1>1, <1>3, PTL DEF Spec

-----------------------------------------------------------------------------
\* Rows and runners keep their types, whatever raises and dies.
THEOREM TypeCorrect == Spec => []TypeOK
  BY InvInductive, PTL DEF Inv

\* A final status is final, whatever raises and dies, but for one change: "done"
\* becomes "failed", for a job whose database calls can raise, and for a file
\* whose counts are logged.
THEOREM FinalIsFinal == Spec => FinalStands
<1>1. ASSUME Inv, [Next]_vars, NEW j \in Jobs, row[j] \in Final, row'[j] # row[j]
      PROVE  /\ row[j] = "done" /\ row'[j] = "failed"
             /\ j \in Flaky \/ (Kind[j] = "bulk_enroll" /\ LogsInfo)
  <2>1. PICK k \in Jobs : Create(k) \/ Run(k)
    BY <1>1 DEF Next, Crash, vars
  <2>2. k = j
    BY <1>1, <2>1 DEF Inv, TypeOK, Create, Run, Start, Work, Finish, Fail, Put
  <2>3. CASE Create(j)
    BY <1>1, <2>3 DEF Inv, IInv, OverInv, Create
  <2>4. CASE Fail(j)
    BY <1>1, <2>4, PutFrame DEF Inv, IInv, OverInv, Fail
  <2> QED
    BY <1>1, <2>1, <2>2, <2>3, <2>4
       DEF Inv, IInv, OverInv, Run, Start, Work, Finish
<1>2. Inv /\ [Next]_vars =>
        [\A j \in Jobs :
           row[j] \in Final /\ row'[j] # row[j] =>
             /\ row[j] = "done" /\ row'[j] = "failed"
             /\ j \in Flaky \/ (Kind[j] = "bulk_enroll" /\ LogsInfo)]_vars
  BY <1>1
<1> QED
  BY InvInductive, <1>2, PTL DEF Spec, FinalStands

\* A runner that returns has left a final status in the row, also when the call
\* that should have written it raised.
THEOREM EndRecorded == Spec => []EndIsRecorded
<1>1. Inv => EndIsRecorded
  BY DEF Inv, IInv
<1> QED
  BY InvInductive, <1>1, PTL

\* A runner whose own database calls work comes to a recorded end or dies with
\* the process: it is left neither queued nor running with nobody behind it.
THEOREM StuckIsExplained ==
  Spec => [](\A j \in Jobs \ Flaky :
               pc[j] \in {"none", "lost"} \/ j \in Live \/ row[j] \in Final)
<1>1. Inv => \A j \in Jobs \ Flaky :
               pc[j] \in {"none", "lost"} \/ j \in Live \/ row[j] \in Final
  BY DEF Inv, TypeOK, IInv, EndIsRecorded, RaisedInv, Live
<1> QED
  BY InvInductive, <1>1, PTL
=============================================================================
