----------------------------- MODULE DevicePool -----------------------------
(***************************************************************************)
(* The device pool (app/core/device_pool.py) with the session part of      *)
(* DahuaClient and the start and stop of the application (app/main.py).    *)
(*                                                                         *)
(* One client and one lock per device.  Every SDK call runs under the lock *)
(* of its device, from one of three kinds of thread: a request handler on  *)
(* the event loop, which hands the call to the default executor (run); the *)
(* background task of a request (run_sync); and the scheduler's job or     *)
(* its direct trigger (run_sync), which nobody waits for: the server ends  *)
(* the requests and their background tasks before it runs the shutdown     *)
(* part of lifespan, but scheduler_service.stop does not wait.             *)
(*                                                                         *)
(* A thread makes one call; a job that makes several is as many threads.   *)
(***************************************************************************)
EXTENDS Integers, FiniteSets

CONSTANTS
  Devices,     \* the devices of the configuration
  Async,       \* calls made by DevicePool.run
  Background,  \* calls made by DevicePool.run_sync in a background task
  Detached,    \* calls made by DevicePool.run_sync in the scheduler's threads
  Workers,     \* size of the default executor
  None         \* nobody

Threads == Async \cup Background \cup Detached

ASSUME PoolAssumption ==
  /\ Async \cap Background = {} /\ Async \cap Detached = {}
  /\ Background \cap Detached = {}
  /\ None \notin Threads /\ None \notin Devices
  /\ Workers \in Nat \ {0}

VARIABLES
  phase,     \* how far lifespan has come
  todo,      \* devices its current loop has not come to yet
  clients,   \* keys of _clients
  locks,     \* keys of _locks
  login_id,  \* does the client hold a session id?
  sessions,  \* sessions open on the device
  owner,     \* the thread that holds the device's lock
  pc, dev    \* where each call is, and its device

\* History, which the properties alone read.
VARIABLES
  unclosed,  \* devices whose logout left its session open
  reopened   \* devices a call has logged in to after their logout

life    == <<phase, todo, clients, locks>>
device  == <<login_id, sessions, owner>>
history == <<unclosed, reopened>>
vars    == <<life, device, pc, dev, history>>

Init ==
  /\ phase = "starting"
  /\ todo = Devices
  /\ clients = {}
  /\ locks = {}
  /\ login_id = [d \in Devices |-> FALSE]
  /\ sessions = [d \in Devices |-> 0]
  /\ owner = [d \in Devices |-> None]
  /\ pc = [t \in Threads |-> "start"]
  /\ dev = [t \in Threads |-> None]
  /\ unclosed = {}
  /\ reopened = {}

-----------------------------------------------------------------------------
(* lifespan.                                                               *)

Closing == phase \in {"stopping", "cleared", "stopped"}

\* register: login succeeds or raises.  lifespan logs the failure and goes on;
\* nothing registers the device later.
Register(d) ==
  /\ phase = "starting"
  /\ d \in todo
  /\ todo' = todo \ {d}
  /\ \/ /\ clients' = clients \cup {d}
        /\ locks' = locks \cup {d}
        /\ login_id' = [login_id EXCEPT ![d] = TRUE]
        /\ sessions' = [sessions EXCEPT ![d] = @ + 1]
     \/ UNCHANGED <<clients, locks, login_id, sessions>>
  /\ UNCHANGED <<phase, owner, pc, dev, history>>

Serve ==
  /\ phase = "starting"
  /\ todo = {}
  /\ phase' = "serving"
  /\ UNCHANGED <<todo, clients, locks, device, pc, dev, history>>

\* The server has ended every request and background task.
BeginShutdown ==
  /\ phase = "serving"
  /\ \A t \in Async \cup Background : pc[t] \in {"start", "done"}
  /\ phase' = "stopping"
  /\ todo' = clients
  /\ UNCHANGED <<clients, locks, device, pc, dev, history>>

\* Broken: a session the device has dropped is counted as closed again.
LogoutTwice(d) ==
  /\ phase = "stopping"
  /\ d \in todo
  /\ todo' = todo \ {d}
  /\ login_id' = [login_id EXCEPT ![d] = FALSE]
  /\ sessions' = [sessions EXCEPT ![d] = @ - 1]
  /\ UNCHANGED <<phase, clients, locks, owner, pc, dev, history>>

\* client.logout.  Without a session id it does nothing.  With one, what the
\* SDK answers is not looked at: the id goes whether or not the session has
\* ended; only a call that raises leaves it.
LogoutClient(d) ==
  \/ ~login_id[d] /\ UNCHANGED <<login_id, sessions, unclosed>>
  \/ /\ login_id[d]
     /\ \E ended, raised \in BOOLEAN :
          /\ login_id' = [login_id EXCEPT ![d] = raised]
          /\ sessions' = [sessions EXCEPT ![d] = IF ended /\ @ > 0 THEN @ - 1
                                                ELSE @]
          /\ unclosed' = IF ended \/ sessions[d] = 0 THEN unclosed
                         ELSE unclosed \cup {d}

\* Broken: a logout that raises ends the loop of shutdown.
LogoutUncaught(d) ==
  /\ phase = "stopping"
  /\ d \in todo
  /\ LogoutClient(d)
  /\ todo' = IF login_id'[d] THEN {} ELSE todo \ {d}
  /\ UNCHANGED <<phase, clients, locks, owner, pc, dev, reopened>>

\* shutdown logs every client out, without the device's lock, and goes on to
\* the next one also after a logout that raised.
Logout(d) ==
  /\ phase = "stopping"
  /\ d \in todo
  /\ LogoutClient(d)
  /\ todo' = todo \ {d}
  /\ UNCHANGED <<phase, clients, locks, owner, pc, dev, reopened>>

ClearClients ==
  /\ phase = "stopping"
  /\ todo = {}
  /\ phase' = "cleared"
  /\ clients' = {}
  /\ UNCHANGED <<todo, locks, device, pc, dev, history>>

ClearLocks ==
  /\ phase = "cleared"
  /\ phase' = "stopped"
  /\ locks' = {}
  /\ UNCHANGED <<todo, clients, device, pc, dev, history>>

\* The device ends the session by itself: a reboot, a lost connection.  The
\* client is not told.
Drop(d) ==
  /\ sessions[d] > 0
  /\ sessions' = [sessions EXCEPT ![d] = @ - 1]
  /\ UNCHANGED <<life, login_id, owner, pc, dev, history>>

-----------------------------------------------------------------------------
(* A call.                                                                 *)

Goto(t, label) == pc' = [pc EXCEPT ![t] = label]

\* run, up to the executor: nothing else of the event loop comes between the
\* check and the look-up of the lock.
Submit(t) ==
  /\ t \in Async
  /\ phase = "serving"
  /\ pc[t] = "start"
  /\ \E d \in Devices :
       /\ dev' = [dev EXCEPT ![t] = d]
       /\ Goto(t, IF d \in clients \cap locks THEN "queued" ELSE "done")
  /\ UNCHANGED <<life, device, history>>

InExecutor == {t \in Async : pc[t] \in {"acquire", "ensure", "login", "call"}}

StartWorker(t) ==
  /\ pc[t] = "queued"
  /\ Cardinality(InExecutor) < Workers
  /\ Goto(t, "acquire")
  /\ UNCHANGED <<life, device, dev, history>>

\* run_sync, which shutdown can overtake when its thread is detached.
Check(t) ==
  /\ t \in Background \cup Detached
  /\ pc[t] = "start"
  /\ phase # "starting"
  /\ t \in Background => phase = "serving"
  /\ \E d \in Devices :
       /\ dev' = [dev EXCEPT ![t] = d]
       /\ Goto(t, IF d \in clients THEN "lookup" ELSE "done")
  /\ UNCHANGED <<life, device, history>>

LookUp(t) ==
  /\ pc[t] = "lookup"
  /\ Goto(t, IF dev[t] \in locks THEN "acquire" ELSE "done")
  /\ UNCHANGED <<life, device, dev, history>>

\* Broken: the lock is not waited for.
AcquireAnyway(t) ==
  /\ pc[t] = "acquire"
  /\ owner' = [owner EXCEPT ![dev[t]] = t]
  /\ Goto(t, "ensure")
  /\ UNCHANGED <<life, login_id, sessions, dev, history>>

Acquire(t) ==
  /\ pc[t] = "acquire"
  /\ owner[dev[t]] = None
  /\ owner' = [owner EXCEPT ![dev[t]] = t]
  /\ Goto(t, "ensure")
  /\ UNCHANGED <<life, login_id, sessions, dev, history>>

\* The with statement ends, by a return or by an exception.
Release(t) ==
  /\ owner' = [owner EXCEPT ![dev[t]] = None]
  /\ Goto(t, "done")

\* Broken: every call logs in.
EnsureFreshLogin(t) ==
  /\ pc[t] = "ensure"
  /\ IF dev[t] \notin clients
     THEN Release(t)
     ELSE Goto(t, "login") /\ UNCHANGED owner
  /\ UNCHANGED <<life, login_id, sessions, dev, history>>

\* _ensure_login: the client is gone, has no session id, or has one.
EnsureLogin(t) ==
  /\ pc[t] = "ensure"
  /\ IF dev[t] \notin clients
     THEN Release(t)
     ELSE /\ Goto(t, IF login_id[dev[t]] THEN "call" ELSE "login")
          /\ UNCHANGED owner
  /\ UNCHANGED <<life, login_id, sessions, dev, history>>

\* client.login opens a session and keeps its id.
OpenSession(d) ==
  /\ login_id' = [login_id EXCEPT ![d] = TRUE]
  /\ sessions' = [sessions EXCEPT ![d] = @ + 1]
  /\ reopened' = IF Closing /\ d \notin todo THEN reopened \cup {d} ELSE reopened

\* Broken: a login that fails is tried again.
LoginAgain(t) ==
  /\ pc[t] = "login"
  /\ \/ OpenSession(dev[t]) /\ Goto(t, "call")
     \/ Goto(t, "ensure") /\ UNCHANGED <<login_id, sessions, reopened>>
  /\ UNCHANGED <<life, owner, dev, unclosed>>

\* client.login raises when LoginEx2 returns no session.
Login(t) ==
  /\ pc[t] = "login"
  /\ \/ OpenSession(dev[t]) /\ Goto(t, "call") /\ UNCHANGED owner
     \/ Release(t) /\ UNCHANGED <<login_id, sessions, reopened>>
  /\ UNCHANGED <<life, dev, unclosed>>

\* fn(client) returns or raises.
Call(t) ==
  /\ pc[t] = "call"
  /\ Release(t)
  /\ UNCHANGED <<life, login_id, sessions, dev, history>>

Step(t) ==
  \/ Submit(t) \/ StartWorker(t) \/ Check(t) \/ LookUp(t)
  \/ Acquire(t) \/ EnsureLogin(t) \/ Login(t) \/ Call(t)

Lifespan ==
  \/ \E d \in Devices : Register(d) \/ Logout(d)
  \/ Serve \/ BeginShutdown \/ ClearClients \/ ClearLocks

\* The process is over when it has shut down and no thread is under way.
Terminated ==
  /\ phase = "stopped"
  /\ \A t \in Threads : pc[t] = "done" \/ (t \notin Detached /\ pc[t] = "start")
  /\ UNCHANGED vars

Next ==
  \/ Lifespan
  \/ \E d \in Devices : Drop(d)
  \/ \E t \in Threads : Step(t)
  \/ Terminated

Spec == Init /\ [][Next]_vars

\* A thread that can run does run: SDK calls time out, and the lock of a
\* device wakes one of those who wait for it.
FairSpec == Spec /\ \A t \in Threads : WF_vars(Step(t))

-----------------------------------------------------------------------------
(* Properties.                                                             *)

TypeOK ==
  /\ phase \in {"starting", "serving", "stopping", "cleared", "stopped"}
  /\ todo \subseteq Devices
  /\ clients \subseteq Devices /\ locks \subseteq Devices
  /\ login_id \in [Devices -> BOOLEAN]
  /\ sessions \in [Devices -> Nat]
  /\ owner \in [Devices -> Threads \cup {None}]
  /\ pc \in [Threads -> {"start", "queued", "lookup", "acquire", "ensure",
                         "login", "call", "done"}]
  /\ dev \in [Threads -> Devices \cup {None}]
  /\ unclosed \subseteq Devices /\ reopened \subseteq Devices

InSection(t) == pc[t] \in {"ensure", "login", "call"}

\* "Different devices run in parallel; same device serializes": two calls are
\* never under way on the same device.
MutualExclusion ==
  \A t, u \in Threads :
    t # u /\ InSection(t) /\ InSection(u) => dev[t] # dev[u]

\* "Pool keeps one logged-in client per device": no call opens a session
\* beside one its client still has, and a device has a second session of this
\* process only beside one its logout left open.
OneSession == \A d \in Devices : sessions[d] <= IF d \in unclosed THEN 2 ELSE 1

\* After a shutdown the only sessions left open are those whose own logout
\* failed and those a detached thread has opened since: a logout that raises
\* costs no other device its logout.
AllClosed ==
  phase = "stopped" =>
    \A d \in Devices : sessions[d] > 0 => d \in unclosed \cup reopened

\* Every call comes back, whatever the others do: no thread waits for ever for
\* a lock or for a place in the executor.
EveryCallReturns ==
  \A t \in Threads : pc[t] \notin {"start", "done"} ~> pc[t] = "done"

\* _ensure_login: "Re-login if a previous call dropped the session" - when fn
\* starts, the client's session is open on the device.
CallsOnOpenSession ==
  [][\A t \in Threads : EnsureLogin(t) /\ pc'[t] = "call"
       => sessions[dev[t]] = 1]_vars

-----------------------------------------------------------------------------
(* Why they hold: an inductive invariant.                                  *)

\* A thread that works on a device holds its lock.
LockInv ==
  \A t \in Threads : InSection(t) => dev[t] \in Devices /\ owner[dev[t]] = t

\* A thread past its first step knows its device.
DevInv == \A t \in Threads : pc[t] \notin {"start", "done"} => dev[t] \in Devices

\* Nobody calls before the last device is registered, and a device is
\* registered once.
StartInv ==
  phase = "starting" =>
    /\ \A t \in Threads : pc[t] = "start"
    /\ \A d \in todo : ~login_id[d]

\* A client without a session id has no session but the one its logout left,
\* and who is about to log in has found it without one.
SessionInv ==
  /\ \A d \in Devices : sessions[d] <= (IF login_id[d] THEN 1 ELSE 0)
                                       + (IF d \in unclosed THEN 1 ELSE 0)
  /\ \A t \in Threads : pc[t] = "login" => ~login_id[dev[t]]

\* As long as the pool serves, who has a session or is to use one is registered.
RegisteredInv ==
  /\ ~Closing => \A d \in Devices : login_id[d] => d \in clients
  /\ phase = "serving" =>
       \A t \in Threads : pc[t] \notin {"start", "done"} => dev[t] \in clients

\* Nothing is left unclosed before its logout, and a session that is open
\* while the pool closes still has its logout before it, or has survived it.
ClosedInv ==
  /\ ~Closing => unclosed = {}
  /\ todo \cap unclosed = {}
  /\ Closing => \A d \in Devices : sessions[d] > 0 => d \in todo \cup unclosed \cup reopened
  /\ phase \in {"cleared", "stopped"} => todo = {}

IInv ==
  LockInv /\ DevInv /\ StartInv /\ SessionInv /\ RegisteredInv /\ ClosedInv
=============================================================================
