-------------------------- MODULE DevicePoolProofs --------------------------
(***************************************************************************)
(* For any devices, any number of calls of every kind and any number of    *)
(* workers: one call at a time on a device, and one session with it.       *)
(***************************************************************************)
EXTENDS DevicePool, TLAPS

Inv == TypeOK /\ IInv

\* The owner of a free lock is no thread.
LEMMA NoneIsNobody == None \notin Threads
  BY PoolAssumption

-----------------------------------------------------------------------------
(* Type correctness.                                                       *)

\* Every variable of the pool keeps its type.
LEMMA StepTyped ==
  ASSUME Inv, [Next]_vars
  PROVE  TypeOK'
<1> USE DEF Inv, TypeOK, life, device, history
<1>1. ASSUME NEW d \in Devices, Register(d)
      PROVE  TypeOK'
  <2>1. \/ sessions' = [sessions EXCEPT ![d] = @ + 1]
        \/ sessions' = sessions
    BY <1>1 DEF Register
  <2>2. sessions' \in [Devices -> Nat]
    BY <2>1
  <2>3. login_id' \in [Devices -> BOOLEAN]
    BY <1>1 DEF Register
  <2> QED
    BY <1>1, <2>2, <2>3 DEF Register
<1>2. ASSUME NEW d \in Devices, Logout(d)
      PROVE  TypeOK'
  <2>1. sessions' \in [Devices -> Nat]
    BY <1>2 DEF Logout, LogoutClient
  <2>2. login_id' \in [Devices -> BOOLEAN] /\ unclosed' \subseteq Devices
    BY <1>2 DEF Logout, LogoutClient
  <2> QED
    BY <1>2, <2>1, <2>2 DEF Logout
<1>3. CASE Serve \/ BeginShutdown \/ ClearClients \/ ClearLocks
  BY <1>3 DEF Serve, BeginShutdown, ClearClients, ClearLocks
<1>4. ASSUME NEW d \in Devices, Drop(d)
      PROVE  TypeOK'
  BY <1>4 DEF Drop
<1>5. ASSUME NEW t \in Threads, Step(t)
      PROVE  TypeOK'
  <2>1. CASE Submit(t)
    BY <2>1 DEF Submit, Goto
  <2>2. CASE StartWorker(t)
    BY <2>2 DEF StartWorker, Goto
  <2>3. CASE Check(t)
    BY <2>3 DEF Check, Goto
  <2>4. CASE LookUp(t)
    BY <2>4 DEF LookUp, Goto
  <2>5. CASE Acquire(t)
    BY <2>5 DEF Acquire, Goto
  <2>6. CASE EnsureLogin(t)
    BY <2>6 DEF EnsureLogin, Release, Goto
  <2>7. CASE Login(t)
    <3>1. dev[t] \in Devices
      BY <2>7 DEF Login, IInv, DevInv
    <3>2. sessions' \in [Devices -> Nat]
      BY <2>7, <3>1 DEF Login, OpenSession
    <3>3. login_id' \in [Devices -> BOOLEAN] /\ reopened' \subseteq Devices
      BY <2>7, <3>1 DEF Login, OpenSession
    <3>4. pc' \in [Threads -> {"start", "queued", "lookup", "acquire",
                               "ensure", "login", "call", "done"}]
      BY <2>7 DEF Login, Release, Goto
    <3>5. owner' \in [Devices -> Threads \cup {None}]
      BY <2>7 DEF Login, Release
    <3> QED
      BY <2>7, <3>2, <3>3, <3>4, <3>5 DEF Login
  <2>8. CASE Call(t)
    BY <2>8 DEF Call, Release, Goto
  <2> QED
    BY <1>5, <2>1, <2>2, <2>3, <2>4, <2>5, <2>6, <2>7, <2>8 DEF Step
<1>6. CASE Terminated \/ UNCHANGED vars
  BY <1>6 DEF Terminated, vars
<1> QED
  BY <1>1, <1>2, <1>3, <1>4, <1>5, <1>6 DEF Next, Lifespan

-----------------------------------------------------------------------------
(* The inductive invariant.                                                *)

\* A step of t leaves every other call where it is.
LEMMA OthersKept ==
  ASSUME TypeOK, NEW t \in Threads, Step(t), NEW u \in Threads, u # t
  PROVE  pc'[u] = pc[u] /\ dev'[u] = dev[u]
  BY DEF TypeOK, Step, Submit, StartWorker, Check, LookUp, Acquire,
         EnsureLogin, Login, Call, Release, Goto, device

\* lifespan moves no call and takes no lock.
LEMMA LifespanKeeps ==
  ASSUME Lifespan \/ (\E d \in Devices : Drop(d)) \/ Terminated
           \/ UNCHANGED vars
  PROVE  UNCHANGED <<pc, dev, owner>>
  BY DEF Lifespan, Register, Logout, Serve, BeginShutdown, ClearClients,
         ClearLocks, Drop, Terminated, device, vars

\* A thread that is past its start has a device.
LEMMA StepDev ==
  ASSUME Inv, [Next]_vars
  PROVE  DevInv'
<1>1. CASE UNCHANGED <<pc, dev, owner>>
  BY <1>1 DEF Inv, IInv, DevInv
<1>2. ASSUME NEW t \in Threads, Step(t)
      PROVE  DevInv'
  <2>1. pc'[t] \notin {"start", "done"} => dev'[t] \in Devices
    BY <1>2 DEF Inv, IInv, DevInv, TypeOK, Step, Submit, StartWorker, Check,
                LookUp, Acquire, EnsureLogin, Login, Call, Release, Goto,
                device
  <2> QED
    BY <1>2, <2>1, OthersKept DEF Inv, IInv, DevInv
<1> QED
  BY <1>1, <1>2, LifespanKeeps DEF Next

\* A thread inside a critical section holds the lock of its device.
LEMMA StepLock ==
  ASSUME Inv, [Next]_vars
  PROVE  LockInv'
<1>1. CASE UNCHANGED <<pc, dev, owner>>
  BY <1>1 DEF Inv, IInv, LockInv, InSection
<1>2. ASSUME NEW t \in Threads, Step(t), NEW u \in Threads, InSection(u)'
      PROVE  dev'[u] \in Devices /\ owner'[dev'[u]] = u
  <2>1. t # None /\ u # None
    BY NoneIsNobody
  <2>2. CASE u = t
    BY <1>2, <2>2
       DEF Inv, IInv, LockInv, DevInv, InSection, TypeOK, Step, Submit,
           StartWorker, Check, LookUp, Acquire, EnsureLogin, Login, Call,
           Release, Goto, device
  <2>3. CASE u # t
    <3>1. pc'[u] = pc[u] /\ dev'[u] = dev[u]
      BY <1>2, <2>3, OthersKept DEF Inv
    <3>2. dev[u] \in Devices /\ owner[dev[u]] = u
      BY <1>2, <3>1 DEF Inv, IInv, LockInv, InSection
    <3>3. owner'[dev[u]] = owner[dev[u]]
      <4>1. CASE Acquire(t)
        BY <2>1, <3>2, <4>1 DEF Inv, TypeOK, Acquire
      <4>2. CASE Release(t) /\ InSection(t)
        <5>1. dev[t] # dev[u]
          BY <2>3, <3>2, <4>2 DEF Inv, IInv, LockInv
        <5> QED
          BY <3>2, <4>2, <5>1 DEF Inv, TypeOK, Release
      <4>3. CASE UNCHANGED owner
        BY <4>3
      <4> QED
        BY <1>2, <4>1, <4>2, <4>3
           DEF Step, Submit, StartWorker, Check, LookUp, EnsureLogin, Login,
               Call, InSection, device
    <3> QED
      BY <3>1, <3>2, <3>3
  <2> QED
    BY <2>2, <2>3
<1> QED
  BY <1>1, <1>2, LifespanKeeps DEF Next, LockInv

\* No thread runs before the devices are registered.
LEMMA StepStart ==
  ASSUME Inv, [Next]_vars
  PROVE  StartInv'
<1>1. ASSUME NEW t \in Threads, Step(t), phase = "starting"
      PROVE  FALSE
  BY <1>1 DEF Inv, IInv, StartInv, Step, Submit, StartWorker, Check, LookUp,
              Acquire, EnsureLogin, Login, Call
<1>2. ASSUME NEW t \in Threads, Step(t)
      PROVE  phase' = phase
  BY <1>2 DEF Step, Submit, StartWorker, Check, LookUp, Acquire, EnsureLogin,
              Login, Call, life
<1>3. ASSUME NEW d \in Devices, Register(d)
      PROVE  StartInv'
  BY <1>3 DEF Inv, IInv, StartInv, TypeOK, Register
<1>4. CASE (\E d \in Devices : Logout(d)) \/ Serve \/ BeginShutdown
             \/ ClearClients \/ ClearLocks
  BY <1>4 DEF Logout, Serve, BeginShutdown, ClearClients, ClearLocks, StartInv
<1>5. CASE (\E d \in Devices : Drop(d)) \/ Terminated \/ UNCHANGED vars
  BY <1>5 DEF Inv, IInv, StartInv, Drop, Terminated, life, device, vars
<1> QED
  BY <1>1, <1>2, <1>3, <1>4, <1>5 DEF Next, Lifespan, StartInv

\* A step that is not a login that succeeds leaves every session as it is.
LEMMA SessionsKept ==
  ASSUME TypeOK, NEW t \in Threads, Step(t), ~(Login(t) /\ OpenSession(dev[t]))
  PROVE  UNCHANGED <<login_id, sessions, history>>
  BY DEF TypeOK, Step, Submit, StartWorker, Check, LookUp, Acquire,
         EnsureLogin, Login, Call, device, history

\* What is known of the sessions a device has open outlives every step.
LEMMA StepSession ==
  ASSUME Inv, [Next]_vars
  PROVE  SessionInv'
<1>1. ASSUME NEW d \in Devices, Register(d)
      PROVE  SessionInv'
  <2>1. ~login_id[d] /\ \A t \in Threads : pc[t] = "start"
    BY <1>1 DEF Inv, IInv, StartInv, Register
  <2> QED
    BY <1>1, <2>1 DEF Inv, IInv, SessionInv, TypeOK, Register, history
<1>2. ASSUME NEW d \in Devices, Logout(d)
      PROVE  SessionInv'
  <2>1. d \notin unclosed
    BY <1>2 DEF Inv, IInv, ClosedInv, Logout
  <2>2. \A e \in Devices : sessions'[e] <= (IF login_id'[e] THEN 1 ELSE 0)
                                          + (IF e \in unclosed' THEN 1 ELSE 0)
    BY <1>2, <2>1 DEF Inv, IInv, SessionInv, TypeOK, Logout, LogoutClient
  <2>3. \A t \in Threads : pc'[t] = "login" => ~login_id'[dev'[t]]
    BY <1>2 DEF Inv, IInv, SessionInv, DevInv, TypeOK, Logout, LogoutClient
  <2> QED
    BY <2>2, <2>3 DEF SessionInv
<1>3. ASSUME NEW d \in Devices, Drop(d)
      PROVE  SessionInv'
  BY <1>3 DEF Inv, IInv, SessionInv, TypeOK, Drop, life, history
<1>4. CASE Serve \/ BeginShutdown \/ ClearClients \/ ClearLocks \/ Terminated
             \/ UNCHANGED vars
  BY <1>4 DEF Inv, IInv, SessionInv, Serve, BeginShutdown, ClearClients,
              ClearLocks, Terminated, device, history, vars
<1>5. ASSUME NEW t \in Threads, Step(t)
      PROVE  SessionInv'
  <2>1. CASE Login(t) /\ OpenSession(dev[t])
    <3>1. /\ login_id' = [login_id EXCEPT ![dev[t]] = TRUE]
          /\ sessions' = [sessions EXCEPT ![dev[t]] = @ + 1]
          /\ pc[t] = "login" /\ pc'[t] # "login" /\ dev' = dev /\ unclosed' = unclosed
      BY <2>1 DEF Login, OpenSession, Release, Goto, Inv, TypeOK
    <3>2. dev[t] \in Devices /\ ~login_id[dev[t]] /\ owner[dev[t]] = t
      BY <3>1 DEF Inv, IInv, DevInv, SessionInv, LockInv, InSection
    <3>3. \A d \in Devices : sessions'[d] <= (IF login_id'[d] THEN 1 ELSE 0)
                                            + (IF d \in unclosed' THEN 1 ELSE 0)
      BY <3>1, <3>2 DEF Inv, IInv, SessionInv, TypeOK
    <3>4. ASSUME NEW u \in Threads, pc'[u] = "login"
          PROVE  ~login_id'[dev'[u]]
      <4>1. u # t
        BY <3>1, <3>4
      <4>2. pc[u] = "login"
        BY <1>5, <3>4, <4>1, OthersKept DEF Inv
      <4>3. dev[u] \in Devices /\ dev[u] # dev[t] /\ ~login_id[dev[u]]
        BY <3>2, <4>1, <4>2 DEF Inv, IInv, LockInv, InSection, SessionInv
      <4> QED
        BY <3>1, <4>3 DEF Inv, TypeOK
    <3> QED
      BY <3>3, <3>4 DEF SessionInv
  <2>2. CASE ~(Login(t) /\ OpenSession(dev[t]))
    <3>1. UNCHANGED <<login_id, sessions, history>>
      BY <1>5, <2>2, SessionsKept DEF Inv
    <3>2. pc'[t] = "login" => ~login_id[dev[t]] /\ dev'[t] = dev[t]
      BY <1>5, <2>2
         DEF Inv, TypeOK, Step, Submit, StartWorker, Check, LookUp, Acquire,
             EnsureLogin, Login, Call, Release, Goto
    <3> QED
      BY <1>5, <3>1, <3>2, OthersKept DEF Inv, IInv, SessionInv, history
  <2> QED
    BY <2>1, <2>2
<1> QED
  BY <1>1, <1>2, <1>3, <1>4, <1>5 DEF Next, Lifespan

\* A step of a call is not a step of lifespan, and takes the call past its start.
LEMMA CallStep ==
  ASSUME TypeOK, NEW t \in Threads, Step(t)
  PROVE  UNCHANGED life /\ pc'[t] # "start"
  BY DEF TypeOK, Step, Submit, StartWorker, Check, LookUp, Acquire, EnsureLogin,
         Login, Call, Release, Goto, life

\* Sessions and calls stay with registered devices until the shutdown begins.
LEMMA StepRegistered ==
  ASSUME Inv, [Next]_vars
  PROVE  RegisteredInv'
<1>1. ASSUME NEW t \in Threads, Step(t)
      PROVE  RegisteredInv'
  <2>1. UNCHANGED <<phase, clients>>
    BY <1>1, CallStep DEF Inv, life
  <2>2. phase # "starting"
    BY <1>1 DEF Inv, IInv, StartInv, Step, Submit, StartWorker, Check, LookUp,
                Acquire, EnsureLogin, Login, Call
  <2>3. CASE phase = "serving"
    <3>1. pc'[t] \notin {"start", "done"} => dev'[t] \in clients
      BY <1>1, <2>3
         DEF Inv, TypeOK, IInv, RegisteredInv, Step, Submit, StartWorker, Check,
             LookUp, Acquire, EnsureLogin, Login, Call, Release, Goto, device
    <3>2. ASSUME NEW d \in Devices, login_id'[d]
          PROVE  d \in clients
      <4>1. login_id[d] \/ (Login(t) /\ d = dev[t])
        BY <1>1, <3>2
           DEF Inv, TypeOK, Step, Submit, StartWorker, Check, LookUp, Acquire,
               EnsureLogin, Login, OpenSession, Call, device
      <4> QED
        BY <2>3, <4>1 DEF Inv, IInv, RegisteredInv, Login, Closing
    <3> QED
      BY <1>1, <2>1, <2>3, <3>1, <3>2, OthersKept
         DEF Inv, IInv, RegisteredInv
  <2>4. CASE phase # "serving"
    BY <2>1, <2>2, <2>4 DEF Inv, TypeOK, RegisteredInv, Closing
  <2> QED
    BY <2>3, <2>4
<1>2. ASSUME NEW d \in Devices, Register(d)
      PROVE  RegisteredInv'
  BY <1>2 DEF Inv, TypeOK, IInv, RegisteredInv, Closing, Register
<1>3. CASE Serve
  BY <1>3 DEF Inv, IInv, StartInv, RegisteredInv, Closing, Serve, device
<1>4. CASE (\E d \in Devices : Logout(d)) \/ BeginShutdown \/ ClearClients
             \/ ClearLocks
  BY <1>4 DEF RegisteredInv, Closing, Logout, BeginShutdown, ClearClients, ClearLocks
<1>5. CASE (\E d \in Devices : Drop(d)) \/ Terminated \/ UNCHANGED vars
  BY <1>5 DEF Inv, IInv, RegisteredInv, Closing, Drop, Terminated, life, device, vars
<1> QED
  BY <1>1, <1>2, <1>3, <1>4, <1>5 DEF Next, Lifespan

\* The shutdown gets on with the sessions it has found.
LEMMA StepClosed ==
  ASSUME Inv, [Next]_vars
  PROVE  ClosedInv'
<1>1. ASSUME NEW t \in Threads, Step(t)
      PROVE  ClosedInv'
  <2>1. UNCHANGED life
    BY <1>1, CallStep DEF Inv
  <2>2. CASE Login(t) /\ OpenSession(dev[t])
    <3>1. /\ unclosed' = unclosed /\ reopened \subseteq reopened'
          /\ Closing => dev[t] \in todo \cup reopened'
      BY <2>2 DEF Login, OpenSession
    <3>2. ASSUME NEW d \in Devices, d # dev[t]
          PROVE  sessions'[d] = sessions[d]
      BY <2>2, <3>2 DEF OpenSession, Inv, TypeOK
    <3> QED
      BY <2>1, <3>1, <3>2 DEF Inv, IInv, ClosedInv, Closing, life
  <2>3. CASE ~(Login(t) /\ OpenSession(dev[t]))
    BY <1>1, <2>1, <2>3, SessionsKept
       DEF Inv, IInv, ClosedInv, Closing, life, history
  <2> QED
    BY <2>2, <2>3
<1>2. ASSUME NEW d \in Devices, Register(d)
      PROVE  ClosedInv'
  BY <1>2 DEF Inv, IInv, ClosedInv, Closing, Register, history
<1>3. ASSUME NEW d \in Devices, Logout(d)
      PROVE  ClosedInv'
  <2>1. phase' = phase /\ todo' = todo \ {d} /\ reopened' = reopened
    BY <1>3 DEF Logout, history
  <2>2. Closing /\ unclosed' \subseteq unclosed \cup {d} /\ d \notin unclosed
    BY <1>3 DEF Logout, LogoutClient, Closing, Inv, IInv, ClosedInv
  <2>3. sessions[d] \in Nat /\ sessions[d] <= IF login_id[d] THEN 1 ELSE 0
    BY <2>2 DEF Inv, IInv, SessionInv, TypeOK
  <2>4. sessions'[d] > 0 => d \in unclosed'
    BY <1>3, <2>3 DEF Logout, LogoutClient, Inv, TypeOK
  <2>5. ASSUME NEW e \in Devices, e # d
        PROVE  sessions'[e] = sessions[e] /\ (e \in unclosed' <=> e \in unclosed)
    BY <1>3, <2>5 DEF Logout, LogoutClient, Inv, TypeOK
  <2>6. todo' \cap unclosed' = {}
    BY <2>1, <2>2 DEF Inv, IInv, ClosedInv
  <2>7. \A e \in Devices : sessions'[e] > 0 => e \in todo' \cup unclosed' \cup reopened'
    BY <2>1, <2>2, <2>4, <2>5 DEF Inv, IInv, ClosedInv
  <2>8. phase' \notin {"cleared", "stopped"}
    BY <1>3 DEF Logout
  <2> QED
    BY <2>1, <2>2, <2>6, <2>7, <2>8 DEF ClosedInv, Closing
<1>4. CASE BeginShutdown
  <2>1. \A d \in Devices : sessions[d] > 0 => d \in clients
    BY <1>4 DEF Inv, TypeOK, IInv, SessionInv, RegisteredInv, ClosedInv, Closing,
                BeginShutdown
  <2> QED
    BY <1>4, <2>1 DEF Inv, IInv, ClosedInv, Closing, BeginShutdown, device, history
<1>5. CASE Serve \/ ClearClients \/ ClearLocks
  BY <1>5 DEF Inv, IInv, ClosedInv, Closing, Serve, ClearClients, ClearLocks, device,
              history
<1>6. CASE Terminated \/ UNCHANGED vars
  BY <1>6 DEF Inv, IInv, ClosedInv, Closing, Terminated, life, device, history, vars
<1>7. ASSUME NEW d \in Devices, Drop(d)
      PROVE  ClosedInv'
  <2>1. \A e \in Devices : sessions'[e] > 0 => sessions[e] > 0
    BY <1>7 DEF Drop, Inv, TypeOK
  <2> QED
    BY <1>7, <2>1 DEF Inv, IInv, ClosedInv, Closing, Drop, life, history
<1> QED
  BY <1>1, <1>2, <1>3, <1>4, <1>5, <1>6, <1>7 DEF Next, Lifespan

\* The inductive invariant holds in every reachable state.
LEMMA InvInductive == Spec => []Inv
<1>1. Init => Inv
  BY NoneIsNobody DEF Init, Inv, TypeOK, IInv, LockInv, DevInv, StartInv,
                      SessionInv, InSection, RegisteredInv, ClosedInv, Closing
<1>2. Inv /\ [Next]_vars => Inv'
  BY StepTyped, StepDev, StepLock, StepStart, StepSession, StepRegistered,
     StepClosed
     DEF Inv, IInv
<1> QED
  BY <1>1, <1>2, PTL DEF Spec

-----------------------------------------------------------------------------
\* Type correctness of the pool's state in every reachable state.
THEOREM TypeCorrect == Spec => []TypeOK
  BY InvInductive, PTL DEF Inv

\* Two calls are never under way on the same device, whichever kinds of
\* threads make them and however far the shutdown has come.
THEOREM CallsExclude == Spec => []MutualExclusion
<1>1. Inv => MutualExclusion
  BY DEF Inv, IInv, LockInv, MutualExclusion
<1> QED
  BY <1>1, InvInductive, PTL

\* A call never opens a session beside one its client still has, also behind
\* the shutdown's back: a second session of the process is there only where a
\* logout that failed has left the first.
THEOREM SessionsSingle == Spec => []OneSession
<1>1. Inv => OneSession
  BY DEF Inv, IInv, SessionInv, TypeOK, OneSession
<1> QED
  BY <1>1, InvInductive, PTL

\* However many logouts fail or raise and whatever the detached threads do
\* meanwhile, a shutdown leaves no session open but those whose own logout
\* failed and those opened after it.
THEOREM NothingLeftOpen == Spec => []AllClosed
<1>1. Inv => AllClosed
  BY DEF Inv, IInv, ClosedInv, Closing, AllClosed
<1> QED
  BY <1>1, InvInductive, PTL
=============================================================================
