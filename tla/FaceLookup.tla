----------------------------- MODULE FaceLookup -----------------------------
(***************************************************************************)
(* Looking for the photo of a user on several devices                      *)
(* (app/routers/face_lookup.py) while moves of this user are under way.    *)
(* A look-up asks one device after the other, each under its own lock, so  *)
(* that a move can pass it; a device that cannot be asked counts as one    *)
(* without the photo.                                                      *)
(***************************************************************************)
EXTENDS Migration, Sequences

CONSTANTS
  Readers,     \* look-up requests
  Host, Recv,  \* the devices asked by default, in this order
  Single       \* the names that ?device= takes one at a time

VARIABLES
  answer,   \* of each look-up: "idle" or "asking" before it has one
  route,    \* the devices it asks, and whether it asks them all
  asked,    \* how many it has asked
  found,    \* which of them had a photo
  unasked,  \* history: for which of them the pool raised
  passed    \* history: what else explains that it finds none

lookup     == <<answer, route, asked, found, unasked>>
lookupVars == <<vars, lookup, passed>>

\* No ?device=, ?device=both, and ?device=<name>, which is refused (400) when
\* the name is not configured.
Routes ==
  {[devices |-> <<Host, Recv>>, every |-> e] : e \in BOOLEAN}
    \cup {[devices |-> <<d>>, every |-> FALSE] : d \in Single \cap Devices}

LookupInit ==
  /\ Init
  /\ answer = [r \in Readers |-> "idle"]
  /\ route = [r \in Readers |-> [devices |-> <<Host, Recv>>, every |-> FALSE]]
  /\ asked = [r \in Readers |-> 0]
  /\ found = [r \in Readers |-> {}]
  /\ unasked = [r \in Readers |-> {}]
  /\ passed = [r \in Readers |-> {}]

-----------------------------------------------------------------------------
\* Broken: what an earlier look-up found is kept.
StartWithFound(r) ==
  /\ answer[r] # "asking"
  /\ answer' = [answer EXCEPT ![r] = "asking"]
  /\ \E q \in Routes : route' = [route EXCEPT ![r] = q]
  /\ asked' = [asked EXCEPT ![r] = 0]
  /\ unasked' = [unasked EXCEPT ![r] = {}]
  /\ UNCHANGED <<vars, found>>

StartLookup(r) ==
  /\ answer[r] # "asking"
  /\ answer' = [answer EXCEPT ![r] = "asking"]
  /\ \E q \in Routes : route' = [route EXCEPT ![r] = q]
  /\ asked' = [asked EXCEPT ![r] = 0]
  /\ found' = [found EXCEPT ![r] = {}]
  /\ unasked' = [unasked EXCEPT ![r] = {}]
  /\ UNCHANGED vars

\* _fetch: nothing from a device that is not configured.
Fetched(d) == IF d \in Devices THEN Got(entry[d].face) ELSE {None}

NextDevice(r) == route[r].devices[asked[r] + 1]

\* Broken: a device without the photo ends the look-up.
AnswerAtOnce(r, n, f) == IF f # {} THEN "photo" ELSE "404"

\* The answer of look-up r, given the number of devices asked and those with a
\* photo.
Answer(r, n, f) ==
  IF f # {} /\ ~route[r].every THEN "photo"
  ELSE IF n < Len(route[r].devices) THEN "asking"
  ELSE IF f # {} THEN "photo" ELSE "404"

Ask(r) ==
  /\ answer[r] = "asking"
  /\ \E f \in Fetched(NextDevice(r)) :
       found' = [found EXCEPT ![r] = @ \cup (IF f = None THEN {} ELSE {NextDevice(r)})]
  /\ asked' = [asked EXCEPT ![r] = @ + 1]
  /\ answer' = [answer EXCEPT ![r] = Answer(r, asked'[r], found'[r])]
  /\ UNCHANGED <<vars, route, unasked>>

\* The pool raises, and _fetch returns nothing.
AskInVain(r) ==
  /\ answer[r] = "asking"
  /\ NextDevice(r) \in Devices
  /\ unasked' = [unasked EXCEPT ![r] = @ \cup {NextDevice(r)}]
  /\ asked' = [asked EXCEPT ![r] = @ + 1]
  /\ answer' = [answer EXCEPT ![r] = Answer(r, asked'[r], found[r])]
  /\ UNCHANGED <<vars, route, found>>

\* The process dies, and the requests with it.
CrashAll ==
  /\ Crash
  /\ answer' = [r \in Readers |-> IF answer[r] = "asking" THEN "idle" ELSE answer[r]]
  /\ UNCHANGED <<route, asked, found, unasked>>

-----------------------------------------------------------------------------
(* History: what a look-up on its way misses.                              *)

Asked(r) == {route[r].devices[n] : n \in 1..asked[r]}

\* The devices r speaks for: those there are, or the one that was named.
About(r) == IF route[r].devices = <<Host, Recv>> THEN Devices
                                                 ELSE {route[r].devices[1]}

\* No device that r speaks for has the photo.
Absent(r) == \A d \in About(r) : entry[d].face = None

\* The photo arrives on a device that r has already asked.
Overtaken(r) ==
  \E d \in Asked(r) \cap Devices : entry[d].face = None /\ entry'[d].face # None

Observe ==
  passed' = [r \in Readers |->
    IF answer'[r] # "asking" /\ answer[r] # "asking" THEN passed[r]
    ELSE (IF answer[r] = "asking" THEN passed[r] ELSE {})
           \cup (IF Absent(r)' THEN {"absent"} ELSE {})
           \cup (IF answer[r] = "asking" /\ Overtaken(r) THEN {"overtaken"} ELSE {})]

LookupNext ==
  /\ \/ CrashAll
     \/ \E m \in Movers : Move(m) /\ UNCHANGED lookup
     \/ \E r \in Readers : StartLookup(r) \/ Ask(r) \/ AskInVain(r)
  /\ Observe

LookupSpec == LookupInit /\ [][LookupNext]_lookupVars

-----------------------------------------------------------------------------
(* Properties.                                                             *)

Names == Devices \cup {Host, Recv}

LookupTypeOK ==
  /\ TypeOK
  /\ answer \in [Readers -> {"idle", "asking", "photo", "404"}]
  /\ route \in [Readers -> Routes]
  /\ asked \in [Readers -> Nat]
  /\ found \in [Readers -> SUBSET Names]
  /\ unasked \in [Readers -> SUBSET Names]
  /\ passed \in [Readers -> SUBSET {"absent", "overtaken"}]
  /\ \A r \in Readers :
       /\ asked[r] <= Len(route[r].devices)
       /\ answer[r] = "asking" => asked[r] < Len(route[r].devices)
       /\ found[r] \cup unasked[r] \subseteq Asked(r)

\* "User has no face photo on either device": a look-up says so only when at
\* some moment on its way no device there is (or not the one it names) had the
\* photo, when the photo came to a device it had asked before, as a move back
\* does, or when a device could not be asked.
NotFoundIsTrue ==
  \A r \in Readers :
    answer[r] = "404" => passed[r] # {} \/ unasked[r] # {}

-----------------------------------------------------------------------------
(* Why: a look-up on its way knows of each device it has asked and found   *)
(* without the photo that it still is without, or has been overtaken.      *)

LookupInv ==
  \A r \in Readers :
    answer[r] = "asking" =>
      \A d \in Asked(r) \cap Devices :
        \/ d \in found[r] \cup unasked[r]
        \/ entry[d].face = None
        \/ "overtaken" \in passed[r]
=============================================================================
