-------------------------- MODULE FaceLookupProofs --------------------------
(***************************************************************************)
(* Look-ups leave the moves alone, and a look-up that finds no photo has   *)
(* one of three reasons, for any moves and look-ups between devices with   *)
(* the names it asks, as long as a get call only fails to find what is not *)
(* there.                                                                  *)
(***************************************************************************)
EXTENDS FaceLookup, MigrationProofs

-----------------------------------------------------------------------------
(* The moves.                                                              *)

\* Every step of moves and look-ups together is a step of the moves or leaves
\* them where they are.
LEMMA StepMoves == [LookupNext]_lookupVars => [Next]_vars
<1>1. ASSUME NEW r \in Readers, StartLookup(r) \/ Ask(r) \/ AskInVain(r)
      PROVE  UNCHANGED vars
  BY <1>1 DEF StartLookup, Ask, AskInVain
<1>2. CrashAll => Next
  BY DEF CrashAll, Next
<1>3. ASSUME NEW m \in Movers, Move(m)
      PROVE  Next
  BY <1>3 DEF Next
<1>4. UNCHANGED lookupVars => UNCHANGED vars
  BY DEF lookupVars
<1> QED
  BY <1>1, <1>2, <1>3, <1>4 DEF LookupNext

\* Moves together with look-ups are moves: what holds of moves alone still holds.
THEOREM LooksOnly == LookupSpec => Spec
<1>1. LookupInit => Init
  BY DEF LookupInit
<1> QED
  BY <1>1, StepMoves, PTL DEF LookupSpec, Spec

\* So the user is on some device at every moment of a look-up, too.
THEOREM UserSurvivesLookups ==
  ASSUME ~MayOverwrite, ~GetsFail
  PROVE  LookupSpec => []NeverLost
  BY LooksOnly, UserSurvives, PTL

-----------------------------------------------------------------------------
(* The way of a look-up.                                                   *)

\* A route has one or two devices.
LEMMA RouteShape ==
  ASSUME NEW q \in Routes
  PROVE  /\ Len(q.devices) \in {1, 2}
         /\ \A n \in 1..Len(q.devices) : q.devices[n] \in Names
  BY DEF Routes, Names

\* The next device to ask is added to those asked, for the look-up that asks it.
LEMMA AskedGrows ==
  ASSUME LookupTypeOK, NEW r \in Readers, answer[r] = "asking",
         route' = route, asked' = [asked EXCEPT ![r] = @ + 1]
  PROVE  /\ NextDevice(r) \in Names
         /\ Asked(r)' = Asked(r) \cup {NextDevice(r)}
         /\ \A s \in Readers : s # r => Asked(s)' = Asked(s)
<1>1. asked[r] \in Nat /\ asked[r] + 1 \in 1..Len(route[r].devices)
        /\ route[r] \in Routes
  BY RouteShape DEF LookupTypeOK
<1>2. NextDevice(r) \in Names
  BY <1>1, RouteShape DEF NextDevice
<1>3. asked'[r] = asked[r] + 1 /\ \A s \in Readers : s # r => asked'[s] = asked[s]
  BY DEF LookupTypeOK
<1>4. 1..asked[r] + 1 = (1..asked[r]) \cup {asked[r] + 1}
  BY <1>1
<1>5. Asked(r)' = Asked(r) \cup {NextDevice(r)}
  BY <1>3, <1>4 DEF Asked, NextDevice
<1> QED
  BY <1>2, <1>3, <1>5 DEF Asked

\* A look-up is over when it has asked its last device, and finds nothing only
\* then.
LEMMA AnswerTyped ==
  ASSUME NEW r \in Readers, NEW n \in Nat, NEW f, route[r] \in Routes,
         n <= Len(route[r].devices)
  PROVE  /\ Answer(r, n, f) \in {"asking", "photo", "404"}
         /\ Answer(r, n, f) = "asking" => n < Len(route[r].devices)
         /\ Answer(r, n, f) = "404" => n = Len(route[r].devices) /\ f = {}
  BY RouteShape DEF Answer

\* What Observe records is one of the two reasons.
LEMMA ObserveTyped ==
  ASSUME passed \in [Readers -> SUBSET {"absent", "overtaken"}], Observe
  PROVE  passed' \in [Readers -> SUBSET {"absent", "overtaken"}]
  BY DEF Observe

\* A look-up under way keeps its reasons and gains those of the step.
LEMMA ObserveKeeps ==
  ASSUME Observe, NEW r \in Readers, answer[r] = "asking"
  PROVE  /\ passed[r] \subseteq passed'[r]
         /\ Overtaken(r) => "overtaken" \in passed'[r]
         /\ Absent(r)' => "absent" \in passed'[r]
  BY DEF Observe

-----------------------------------------------------------------------------
(* Type correctness.                                                       *)

\* Every variable keeps its type.
LEMMA LookupStepTyped ==
  ASSUME LookupTypeOK, [LookupNext]_lookupVars
  PROVE  LookupTypeOK'
<1>1. TypeOK'
  BY StepMoves, StepTyped DEF LookupTypeOK
<1>2. CASE UNCHANGED lookupVars
  BY <1>1, <1>2 DEF LookupTypeOK, lookupVars, lookup, Asked
<1>3. ASSUME NEW r \in Readers, StartLookup(r), Observe
      PROVE  LookupTypeOK'
  <2>1. PICK q \in Routes : route' = [route EXCEPT ![r] = q]
    BY <1>3 DEF StartLookup
  <2>2. /\ answer' \in [Readers -> {"idle", "asking", "photo", "404"}]
        /\ route' \in [Readers -> Routes]
        /\ asked' \in [Readers -> Nat]
        /\ found' \in [Readers -> SUBSET Names]
        /\ unasked' \in [Readers -> SUBSET Names]
    BY <1>3, <2>1 DEF LookupTypeOK, StartLookup
  <2>3. passed' \in [Readers -> SUBSET {"absent", "overtaken"}]
    BY <1>3, ObserveTyped DEF LookupTypeOK
  <2>4. ASSUME NEW s \in Readers
        PROVE  /\ asked'[s] <= Len(route'[s].devices)
               /\ answer'[s] = "asking" => asked'[s] < Len(route'[s].devices)
               /\ found'[s] \cup unasked'[s] \subseteq Asked(s)'
    <3>1. CASE s = r
      <4>1. asked'[s] = 0 /\ found'[s] = {} /\ unasked'[s] = {} /\ route'[s] = q
        BY <1>3, <2>1, <3>1 DEF LookupTypeOK, StartLookup
      <4> QED
        BY <4>1, RouteShape
    <3>2. CASE s # r
      <4>1. /\ asked'[s] = asked[s] /\ route'[s] = route[s]
            /\ answer'[s] = answer[s]
            /\ found'[s] = found[s] /\ unasked'[s] = unasked[s]
        BY <1>3, <2>1, <3>2 DEF LookupTypeOK, StartLookup
      <4> QED
        BY <4>1 DEF LookupTypeOK, Asked
    <3> QED
      BY <3>1, <3>2
  <2> QED
    BY <1>1, <2>2, <2>3, <2>4 DEF LookupTypeOK
<1>4. ASSUME NEW r \in Readers, Ask(r) \/ AskInVain(r), Observe
      PROVE  LookupTypeOK'
  <2>1. answer[r] = "asking" /\ route' = route
          /\ asked' = [asked EXCEPT ![r] = @ + 1]
    BY <1>4 DEF Ask, AskInVain
  <2>2. /\ NextDevice(r) \in Names
        /\ Asked(r)' = Asked(r) \cup {NextDevice(r)}
        /\ \A s \in Readers : s # r => Asked(s)' = Asked(s)
    BY <2>1, AskedGrows
  <2>3. PICK f : answer' = [answer EXCEPT ![r] = Answer(r, asked'[r], f)]
    BY <1>4 DEF Ask, AskInVain
  <2>4. asked'[r] \in Nat /\ asked'[r] <= Len(route[r].devices)
          /\ route[r] \in Routes
    BY <2>1, RouteShape DEF LookupTypeOK
  <2>5. /\ Answer(r, asked'[r], f) \in {"asking", "photo", "404"}
        /\ Answer(r, asked'[r], f) = "asking" => asked'[r] < Len(route[r].devices)
    BY <2>4, AnswerTyped
  <2>6. /\ answer' \in [Readers -> {"idle", "asking", "photo", "404"}]
        /\ route' \in [Readers -> Routes]
        /\ asked' \in [Readers -> Nat]
    BY <2>1, <2>3, <2>5 DEF LookupTypeOK
  <2>7. /\ found' \in [Readers -> SUBSET Names]
        /\ unasked' \in [Readers -> SUBSET Names]
        /\ found'[r] \cup unasked'[r]
             \subseteq found[r] \cup unasked[r] \cup {NextDevice(r)}
        /\ \A s \in Readers :
             s # r => found'[s] = found[s] /\ unasked'[s] = unasked[s]
    <3>1. CASE Ask(r)
      BY <2>2, <3>1 DEF LookupTypeOK, Ask
    <3>2. CASE AskInVain(r)
      BY <2>2, <3>2 DEF LookupTypeOK, AskInVain
    <3> QED
      BY <1>4, <3>1, <3>2
  <2>8. passed' \in [Readers -> SUBSET {"absent", "overtaken"}]
    BY <1>4, ObserveTyped DEF LookupTypeOK
  <2>9. ASSUME NEW s \in Readers
        PROVE  /\ asked'[s] <= Len(route'[s].devices)
               /\ answer'[s] = "asking" => asked'[s] < Len(route'[s].devices)
               /\ found'[s] \cup unasked'[s] \subseteq Asked(s)'
    <3>1. CASE s = r
      BY <2>1, <2>2, <2>3, <2>4, <2>5, <2>7, <3>1 DEF LookupTypeOK
    <3>2. CASE s # r
      BY <2>1, <2>2, <2>3, <2>7, <3>2 DEF LookupTypeOK
    <3> QED
      BY <3>1, <3>2
  <2> QED
    BY <1>1, <2>6, <2>7, <2>8, <2>9 DEF LookupTypeOK
<1>5. ASSUME CrashAll \/ UNCHANGED lookup, Observe
      PROVE  LookupTypeOK'
  <2>1. UNCHANGED <<route, asked, found, unasked>>
    BY <1>5 DEF CrashAll, lookup
  <2>2. /\ answer' \in [Readers -> {"idle", "asking", "photo", "404"}]
        /\ \A s \in Readers : answer'[s] = "asking" => answer[s] = "asking"
    BY <1>5 DEF LookupTypeOK, CrashAll, lookup
  <2>3. passed' \in [Readers -> SUBSET {"absent", "overtaken"}]
    BY <1>5, ObserveTyped DEF LookupTypeOK
  <2> QED
    BY <1>1, <2>1, <2>2, <2>3 DEF LookupTypeOK, Asked
<1> QED
  BY <1>2, <1>3, <1>4, <1>5 DEF LookupNext

\* The types hold at first.
LEMMA LookupInitTyped == LookupInit => LookupTypeOK /\ LookupInv /\ NotFoundIsTrue
<1>1. SUFFICES ASSUME LookupInit PROVE LookupTypeOK /\ LookupInv /\ NotFoundIsTrue
  OBVIOUS
<1>2. TypeOK
  BY <1>1, InitTyped DEF LookupInit
<1>3. [devices |-> <<Host, Recv>>, every |-> FALSE] \in Routes
  BY DEF Routes
<1>4. Len(<<Host, Recv>>) = 2
  OBVIOUS
<1>5. LookupTypeOK
  BY <1>1, <1>2, <1>3, <1>4 DEF LookupInit, LookupTypeOK
<1> QED
  BY <1>1, <1>5 DEF LookupInit, LookupInv, NotFoundIsTrue

\* Type correctness of moves and look-ups together.
THEOREM LookupTypeCorrect == LookupSpec => []LookupTypeOK
  BY LookupInitTyped, LookupStepTyped, PTL DEF LookupSpec

-----------------------------------------------------------------------------
(* A look-up that finds nothing.                                           *)

\* Whatever device a look-up has asked without being answered with the photo is
\* still without it, or the look-up has been overtaken.
LEMMA StepKnows ==
  ASSUME LookupTypeOK, LookupInv, ~GetsFail, LookupNext,
         NEW r \in Readers, answer[r] = "asking", answer'[r] # "idle"
  PROVE  /\ \A d \in Asked(r)' \cap Devices :
              \/ d \in found'[r] \cup unasked'[r]
              \/ entry'[d].face = None
              \/ "overtaken" \in passed'[r]
         /\ answer'[r] = "404" =>
              Asked(r)' = {route'[r].devices[n] : n \in 1..Len(route'[r].devices)}
                /\ found'[r] = {}
<1> DEFINE Known(s) == \A d \in Asked(s) \cap Devices :
                         \/ d \in found[s] \cup unasked[s]
                         \/ entry[d].face = None
                         \/ "overtaken" \in passed[s]
<1>1. Observe
  BY DEF LookupNext
<1>2. /\ passed[r] \subseteq passed'[r]
      /\ Overtaken(r) => "overtaken" \in passed'[r]
  BY <1>1, ObserveKeeps
<1>3. Known(r)
  BY DEF LookupInv
<1>4. ASSUME CrashAll \/ UNCHANGED lookup \/ \E s \in Readers :
               s # r /\ (StartLookup(s) \/ Ask(s) \/ AskInVain(s))
      PROVE  Known(r)' /\ answer'[r] = "asking"
  <2>1. /\ asked'[r] = asked[r] /\ route'[r] = route[r]
        /\ found'[r] = found[r] /\ unasked'[r] = unasked[r]
        /\ answer'[r] = "asking"
    BY <1>4 DEF LookupTypeOK, CrashAll, lookup, StartLookup, Ask, AskInVain
  <2>2. Asked(r)' = Asked(r)
    BY <2>1 DEF Asked
  <2> QED
    BY <1>2, <1>3, <2>1, <2>2 DEF Overtaken
<1>5. ~StartLookup(r)
  BY DEF StartLookup
<1>6. ASSUME Ask(r) \/ AskInVain(r)
      PROVE  /\ Known(r)'
             /\ answer'[r] = "404" =>
                  Asked(r)' = {route'[r].devices[n] : n \in 1..Len(route'[r].devices)}
                    /\ found'[r] = {}
  <2>1. route' = route /\ asked' = [asked EXCEPT ![r] = @ + 1] /\ entry' = entry
    BY <1>6 DEF Ask, AskInVain, vars
  <2>2. Asked(r)' = Asked(r) \cup {NextDevice(r)}
    BY <2>1, AskedGrows
  <2>3. found[r] \subseteq found'[r] /\ unasked[r] \subseteq unasked'[r]
    BY <1>6 DEF Ask, AskInVain, LookupTypeOK
  <2>4. NextDevice(r) \in Devices =>
          NextDevice(r) \in found'[r] \cup unasked'[r]
            \/ entry'[NextDevice(r)].face = None
    BY <1>6, <2>1 DEF Ask, AskInVain, Fetched, Got, LookupTypeOK
  <2>5. Known(r)'
    BY <1>2, <1>3, <2>1, <2>2, <2>3, <2>4
  <2>6. answer' = [answer EXCEPT ![r] = Answer(r, asked'[r], found'[r])]
    BY <1>6 DEF Ask, AskInVain
  <2>7. asked'[r] \in Nat /\ asked'[r] <= Len(route[r].devices)
          /\ route[r] \in Routes
    BY <2>1, RouteShape DEF LookupTypeOK
  <2>8. answer'[r] = "404" => asked'[r] = Len(route[r].devices) /\ found'[r] = {}
    BY <2>6, <2>7, AnswerTyped DEF LookupTypeOK
  <2> QED
    BY <2>1, <2>5, <2>8 DEF Asked
<1> QED
  BY <1>4, <1>5, <1>6 DEF LookupNext

\* The reasons are kept, and found, in every step.
LEMMA StepReasons ==
  ASSUME LookupTypeOK, LookupInv, NotFoundIsTrue, ~GetsFail,
         Devices \subseteq {Host, Recv}, [LookupNext]_lookupVars
  PROVE  LookupInv' /\ NotFoundIsTrue'
<1>1. CASE UNCHANGED lookupVars
  BY <1>1 DEF LookupInv, NotFoundIsTrue, lookupVars, lookup, vars, Asked
<1>2. ASSUME LookupNext, NEW r \in Readers, answer'[r] = "asking"
      PROVE  \A d \in Asked(r)' \cap Devices :
               \/ d \in found'[r] \cup unasked'[r]
               \/ entry'[d].face = None
               \/ "overtaken" \in passed'[r]
  <2>1. CASE answer[r] = "asking"
    BY <1>2, <2>1, StepKnows
  <2>2. CASE answer[r] # "asking"
    <3>1. StartLookup(r)
      BY <1>2, <2>2 DEF LookupNext, CrashAll, lookup, LookupTypeOK,
                        StartLookup, Ask, AskInVain
    <3>2. asked'[r] = 0
      BY <3>1 DEF StartLookup, LookupTypeOK
    <3> QED
      BY <3>2 DEF Asked
  <2> QED
    BY <2>1, <2>2
<1>3. ASSUME LookupNext, NEW r \in Readers, answer'[r] = "404"
      PROVE  passed'[r] # {} \/ unasked'[r] # {}
  <2>1. Observe
    BY <1>3 DEF LookupNext
  <2>2. CASE answer[r] = "asking"
    <3>1. /\ \A d \in Asked(r)' \cap Devices :
               \/ d \in found'[r] \cup unasked'[r]
               \/ entry'[d].face = None
               \/ "overtaken" \in passed'[r]
          /\ Asked(r)' = {route'[r].devices[n] : n \in 1..Len(route'[r].devices)}
          /\ found'[r] = {}
      BY <1>3, <2>2, StepKnows
    <3>2. CASE unasked'[r] = {} /\ "overtaken" \notin passed'[r]
      <4>1. Absent(r)'
        <5>1. route'[r] \in Routes
          BY <1>3, LookupStepTyped DEF LookupTypeOK
        <5>2. CASE route'[r].devices = <<Host, Recv>>
          <6>1. Asked(r)' = {Host, Recv}
            BY <3>1, <5>2
          <6> QED
            BY <3>1, <3>2, <5>2, <6>1 DEF Absent, About
        <5>3. CASE route'[r].devices # <<Host, Recv>>
          <6>1. PICK d \in Single \cap Devices : route'[r].devices = <<d>>
            BY <5>1, <5>3 DEF Routes
          <6>2. Asked(r)' = {d} /\ route'[r].devices[1] = d
            BY <3>1, <6>1
          <6> QED
            BY <3>1, <3>2, <5>3, <6>2 DEF Absent, About
        <5> QED
          BY <5>2, <5>3
      <4> QED
        BY <2>1, <2>2, <4>1, ObserveKeeps
    <3> QED
      BY <3>2
  <2>3. CASE answer[r] # "asking"
    <3>1. answer[r] = "404" /\ unasked'[r] = unasked[r]
      BY <1>3, <2>3 DEF LookupNext, CrashAll, lookup, LookupTypeOK,
                        StartLookup, Ask, AskInVain
    <3>2. passed'[r] = passed[r]
      BY <1>3, <2>1, <2>3 DEF Observe
    <3> QED
      BY <3>1, <3>2 DEF NotFoundIsTrue
  <2> QED
    BY <2>2, <2>3
<1> QED
  BY <1>1, <1>2, <1>3 DEF LookupInv, NotFoundIsTrue

\* Where the devices have the two names it asks, a look-up that answers 404 has
\* met a moment at which none of them (or not the one it names) had the photo, was
\* overtaken by it, or could not ask a device.
THEOREM NotFoundExplained ==
  ASSUME ~GetsFail, Devices \subseteq {Host, Recv}
  PROVE  LookupSpec => []NotFoundIsTrue
<1>1. LookupInit => LookupTypeOK /\ LookupInv /\ NotFoundIsTrue
  BY LookupInitTyped
<1>2. LookupTypeOK /\ LookupInv /\ NotFoundIsTrue /\ [LookupNext]_lookupVars
        => (LookupTypeOK /\ LookupInv /\ NotFoundIsTrue)'
  BY LookupStepTyped, StepReasons
<1> QED
  BY <1>1, <1>2, PTL DEF LookupSpec
=============================================================================
