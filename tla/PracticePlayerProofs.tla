------------------------ MODULE PracticePlayerProofs ------------------------
(***************************************************************************)
(* Theorems about PracticePlayer for every set of devices and assignments  *)
(* and every bound on seconds and faults.                                  *)
(***************************************************************************)
EXTENDS PracticePlayer, TLAPS

USE DEF RequestType

-----------------------------------------------------------------------------
(***************************************************************************)
(* Every reachable state is well typed.                                    *)
(***************************************************************************)
LEMMA InitType == ASSUME Init PROVE TypeOK
<1>1. CompletionsOK
  BY DEF Init, CompletionsOK, InitCompletions, Phases, Ops, Races, NoRequest
<1>2. TimerOK /\ CacheOK
  BY DEF Init, TimerOK, CacheOK, NoSave, NoFetch
<1>3. PageOK
  BY PlayerAssumption DEF Init, PageOK, Kinds
<1> QED
  BY <1>1, <1>2, <1>3 DEF TypeOK

\* The statements of complete and reopen, for whichever device.
LEMMA AnswerType ==
  ASSUME CompletionsOK, NEW c \in Clients, NEW ok \in BOOLEAN,
         \/ Answer(c, ok)
         \/ \E stage \in {"checked", "conflict"} : Advance(c, stage)
         \/ \E op \in Ops : Send(c, op)
  PROVE  requests' \in [Clients -> RequestType]
<1>1. CASE Answer(c, ok)
  BY <1>1 DEF CompletionsOK, Answer, Answered
<1>2. ASSUME NEW stage \in {"checked", "conflict"}, Advance(c, stage)
      PROVE  requests' \in [Clients -> RequestType]
  BY <1>2 DEF CompletionsOK, Advance
<1>3. ASSUME NEW op \in Ops, Send(c, op)
      PROVE  requests' \in [Clients -> RequestType]
  BY <1>3 DEF CompletionsOK, Send, NoRequest
<1> QED
  BY <1>1, <1>2, <1>3

\* What happens between the statements of a request leaves it a request.
LEMMA RacedType ==
  ASSUME CompletionsOK, NEW stage, NEW race \in Races
  PROVE  Raced(stage, race) \in [Clients -> RequestType]
  BY DEF CompletionsOK, Raced

LEMMA ServeType ==
  ASSUME CompletionsOK, NEW c \in Clients, Serve(c)
  PROVE  CompletionsOK'
<1>1. CASE Check(c)
  BY <1>1, AnswerType DEF Check, CompletionsOK
<1>2. CASE Insert(c)
  <2>1. \/ Answer(c, FALSE) /\ open' = open
        \/ Answer(c, TRUE) /\ open' = 1
        \/ Advance(c, "conflict") /\ open' = open
    BY <1>2 DEF Insert
  <2>2. open' \in Nat
    <3>1. open' = open \/ open' = 1
      BY <1>2 DEF Insert
    <3> QED
      BY <3>1 DEF CompletionsOK
  <2>3. (\E ok \in BOOLEAN : Answer(c, ok)) \/ (\E stage \in {"checked", "conflict"} : Advance(c, stage))
    BY <2>1
  <2> QED
    BY <1>2, <2>2, <2>3, AnswerType DEF Insert, CompletionsOK
<1>3. CASE Select(c)
  <2>1. Completed \in BOOLEAN
    BY DEF Completed
  <2> QED
    BY <1>3, <2>1, AnswerType DEF Select, CompletionsOK
<1>4. CASE Close(c)
  <2>1. Answered("reopen", TRUE) \in RequestType
    BY DEF Answered, Ops
  <2>2. Raced("conflict", "reopened") \in [Clients -> RequestType]
    BY RacedType DEF Races
  <2>3. requests' \in [Clients -> RequestType]
    BY <1>4, <2>1, <2>2 DEF Close
  <2> QED
    BY <1>4, <2>3 DEF Close, CompletionsOK
<1> QED
  BY <1>1, <1>2, <1>3, <1>4 DEF Serve

LEMMA SurroundingsType == ASSUME CompletionsOK, Surroundings PROVE CompletionsOK'
<1>1. CASE Restate
  <2>1. Raced("checked", "closed") \in [Clients -> RequestType]
    BY RacedType DEF Races
  <2> QED
    BY <1>1, <2>1 DEF CompletionsOK, Restate, Phases
<1>2. CASE ReplaceItem
  BY <1>2 DEF CompletionsOK, ReplaceItem, Phases
<1> QED
  BY <1>1, <1>2 DEF Surroundings

LEMMA CompletionsFrame ==
  ASSUME CompletionsOK, UNCHANGED completionVars
  PROVE  CompletionsOK'
  BY DEF CompletionsOK, completionVars

\* The requests of the page once a workspace has gone or an answer has come.
LEMMA LeavingType ==
  ASSUME CompletionsOK, UNCHANGED <<phase, present, open>>,
         \/ requests' = requests
         \/ \E c \in Clients : requests' = [requests EXCEPT ![c] = NoRequest]
         \/ requests' = [requests EXCEPT ![Left] = requests[Page], ![Page] = NoRequest]
  PROVE  CompletionsOK'
<1>1. NoRequest \in RequestType
  BY DEF NoRequest, Ops, Races
<1> QED
  BY <1>1, PlayerAssumption DEF CompletionsOK

LEMMA UnmountType ==
  ASSUME TypeOK, Unmount
  PROVE  CompletionsOK' /\ TimerOK' /\ CacheOK'
<1>1. CompletionsOK'
  BY LeavingType DEF TypeOK, Unmount
<1>2. TimerOK'
  BY DEF TypeOK, TimerOK, Unmount, NoSave
<1>3. CacheOK'
  BY DEF TypeOK, CacheOK, Unmount
<1> QED
  BY <1>1, <1>2, <1>3

LEMMA FaultType ==
  ASSUME faults \in Nat, Fault \/ UNCHANGED faults
  PROVE  faults' \in Nat
  BY DEF Fault

LEMMA NextType ==
  ASSUME TypeOK, [Next]_vars
  PROVE  TypeOK'
<1> USE DEF TypeOK
<1>1. CASE StartOrPause \/ Second \/ Reset \/ Finish \/ GoOnline
  <2>1. CompletionsOK' /\ CacheOK'
    BY <1>1, CompletionsFrame
    DEF StartOrPause, Second, Reset, Finish, GoOnline, cache, CacheOK
  <2>2. TimerOK'
    <3>1. CASE StartOrPause
      BY <3>1 DEF StartOrPause, TimerOK
    <3>5. CASE Second
      BY <3>5 DEF Second, TimerOK
    <3>2. CASE Reset
      BY <3>2 DEF Reset, TimerOK
    <3>3. CASE Finish
      BY <3>3 DEF Finish, TimerOK
    <3>4. CASE GoOnline
      BY <3>4 DEF GoOnline, timer, TimerOK
    <3> QED
      BY <1>1, <3>1, <3>2, <3>3, <3>4, <3>5
  <2>3. PageOK'
    BY <1>1 DEF StartOrPause, Second, Reset, Finish, GoOnline, PageOK
  <2> QED
    BY <2>1, <2>2, <2>3
<1>2. CASE SelectItem \/ GoOffline
  <2>1. CompletionsOK' /\ TimerOK' /\ CacheOK'
    BY <1>2, UnmountType DEF SelectItem, GoOffline
  <2>2. showing' \in Kinds /\ online' \in BOOLEAN
    BY <1>2, PlayerAssumption DEF SelectItem, GoOffline, PageOK
  <2>3. PageOK'
    BY <1>2, <2>2 DEF SelectItem, GoOffline, Unmount, PageOK
  <2> QED
    BY <2>1, <2>3
<1>3. CASE Toggle
  <2>1. CompletionsOK'
    BY <1>3, PlayerAssumption, AnswerType DEF Toggle, Ops, CompletionsOK
  <2>2. TimerOK' /\ CacheOK'
    BY <1>3 DEF Toggle, timer, cache, TimerOK, CacheOK
  <2>3. PageOK'
    BY <1>3 DEF Toggle, PageOK
  <2> QED
    BY <2>1, <2>2, <2>3
<1>4. ASSUME NEW c \in {Page, Left}, Toggling(c)
      PROVE  TypeOK'
  <2>1. c \in Clients
    BY PlayerAssumption
  <2>2. CASE ServeToggle(c)
    <3>1. CompletionsOK'
      BY <2>1, <2>2, ServeType DEF ServeToggle
    <3>2. TimerOK' /\ CacheOK'
      BY <2>2 DEF ServeToggle, page, timer, cache, TimerOK, CacheOK
    <3>3. PageOK'
      BY <2>2 DEF ServeToggle, page, PageOK
    <3> QED
      BY <3>1, <3>2, <3>3
  <2>3. CASE ToggleAnswered(c) \/ ToggleLost(c)
    <3>1. PICK text \in {"completed", "reopened", "not updated"} : Settle(c, text)
      BY <2>3 DEF ToggleAnswered, ToggleLost, Said
    <3>2. CompletionsOK'
      BY <2>1, <3>1, LeavingType DEF Settle
    <3>3. TimerOK' /\ CacheOK'
      BY <3>1 DEF Settle, timer, TimerOK, CacheOK
    <3>4. PageOK'
      <4>1. faults' \in Nat
        BY <2>3, FaultType DEF ToggleAnswered, ToggleLost, PageOK
      <4>2. message' \in {message, "completed", "reopened", "not updated"}
        BY <3>1 DEF Settle
      <4> QED
        BY <3>1, <4>1, <4>2 DEF Settle, PageOK
    <3> QED
      BY <3>2, <3>3, <3>4
  <2> QED
    BY <1>4, <2>2, <2>3 DEF Toggling
<1>5. CASE Saving \/ LeftBehind
  <2>1. CASE SaveStored
    <3>1. CompletionsOK'
      BY <2>1, CompletionsFrame DEF SaveStored
    <3>2. TimerOK'
      BY <2>1 DEF SaveStored, TimerOK
    <3>3. CacheOK'
      BY <2>1 DEF SaveStored, cache, CacheOK
    <3>4. PageOK'
      BY <2>1 DEF SaveStored, PageOK
    <3> QED
      BY <3>1, <3>2, <3>3, <3>4
  <2>2. CASE SaveAnswered
    <3>1. CompletionsOK'
      BY <2>2, CompletionsFrame DEF SaveAnswered
    <3>2. TimerOK'
      BY <2>2 DEF SaveAnswered, NoSave, TimerOK
    <3>3. CacheOK'
      BY <2>2 DEF SaveAnswered, CacheOK
    <3>4. PageOK'
      BY <2>2 DEF SaveAnswered, PageOK
    <3> QED
      BY <3>1, <3>2, <3>3, <3>4
  <2>3. CASE SaveFails
    <3>1. CompletionsOK'
      BY <2>3, CompletionsFrame DEF SaveFails
    <3>2. TimerOK'
      BY <2>3 DEF SaveFails, TimerOK
    <3>3. CacheOK'
      BY <2>3 DEF SaveFails, CacheOK
    <3>4. faults' \in Nat
      BY <2>3, FaultType DEF SaveFails, PageOK
    <3>5. PageOK'
      BY <2>3, <3>4 DEF SaveFails, PageOK
    <3> QED
      BY <3>1, <3>2, <3>3, <3>5
  <2>4. CASE OrphanStored
    <3>1. CompletionsOK'
      BY <2>4, CompletionsFrame DEF OrphanStored
    <3>2. TimerOK'
      BY <2>4 DEF OrphanStored, TimerOK
    <3>3. CacheOK'
      BY <2>4 DEF OrphanStored, CacheOK
    <3>4. PageOK'
      BY <2>4 DEF OrphanStored, PageOK
    <3> QED
      BY <3>1, <3>2, <3>3, <3>4
  <2>5. CASE OrphanFails
    <3>1. CompletionsOK'
      BY <2>5, CompletionsFrame DEF OrphanFails
    <3>2. TimerOK'
      BY <2>5 DEF OrphanFails, TimerOK
    <3>3. CacheOK'
      BY <2>5 DEF OrphanFails, CacheOK
    <3>4. faults' \in Nat
      BY <2>5, FaultType DEF OrphanFails, PageOK
    <3>5. PageOK'
      BY <2>5, <3>4 DEF OrphanFails, PageOK
    <3> QED
      BY <3>1, <3>2, <3>3, <3>5
  <2> QED
    BY <1>5, <2>1, <2>2, <2>3, <2>4, <2>5 DEF Saving, LeftBehind
<1>6. CASE Fetching
  <2>1. CASE Refetch
    <3>1. CompletionsOK'
      BY <2>1, CompletionsFrame DEF Refetch
    <3>2. TimerOK'
      BY <2>1 DEF Refetch, timer, TimerOK
    <3>3. CacheOK'
      BY <2>1 DEF Refetch, CacheOK
    <3>4. PageOK'
      BY <2>1 DEF Refetch, PageOK
    <3> QED
      BY <3>1, <3>2, <3>3, <3>4
  <2>2. CASE ReadSummary
    <3>1. CompletionsOK'
      BY <2>2, CompletionsFrame DEF ReadSummary
    <3>2. TimerOK'
      BY <2>2 DEF ReadSummary, timer, TimerOK
    <3>3. CacheOK'
      BY <2>2 DEF ReadSummary, Completed, CacheOK
    <3>4. PageOK'
      BY <2>2 DEF ReadSummary, PageOK
    <3> QED
      BY <3>1, <3>2, <3>3, <3>4
  <2>3. CASE SummaryArrives
    <3>1. CompletionsOK'
      BY <2>3, CompletionsFrame DEF SummaryArrives
    <3>2. TimerOK'
      BY <2>3 DEF SummaryArrives, timer, TimerOK
    <3>3. CacheOK'
      BY <2>3 DEF SummaryArrives, NoFetch, CacheOK
    <3>4. PageOK'
      BY <2>3 DEF SummaryArrives, PageOK
    <3> QED
      BY <3>1, <3>2, <3>3, <3>4
  <2>4. CASE SummaryFails
    <3>1. CompletionsOK'
      BY <2>4, CompletionsFrame DEF SummaryFails
    <3>2. TimerOK'
      BY <2>4 DEF SummaryFails, timer, TimerOK
    <3>3. CacheOK'
      BY <2>4 DEF SummaryFails, NoFetch, CacheOK
    <3>4. faults' \in Nat
      BY <2>4, FaultType DEF SummaryFails, PageOK
    <3>5. PageOK'
      BY <2>4, <3>4 DEF SummaryFails, PageOK
    <3> QED
      BY <3>1, <3>2, <3>3, <3>5
  <2> QED
    BY <1>6, <2>1, <2>2, <2>3, <2>4 DEF Fetching
<1>7. CASE Elsewhere
  <2>1. CompletionsOK'
    <3>1. CASE Surroundings
      BY <3>1, SurroundingsType
    <3>2. ASSUME NEW c \in week.devices, Serve(c)
          PROVE  CompletionsOK'
      <4>1. c \in Clients
        BY PlayerAssumption DEF PageOK
      <4> QED
        BY <3>2, <4>1, ServeType
    <3>3. ASSUME NEW c \in week.devices, NEW op \in Ops, Send(c, op),
                 UNCHANGED <<phase, present, open>>
          PROVE  CompletionsOK'
      <4>1. c \in Clients
        BY PlayerAssumption DEF PageOK
      <4> QED
        BY <3>3, <4>1, AnswerType DEF CompletionsOK
    <3> QED
      BY <1>7, <3>1, <3>2, <3>3 DEF Elsewhere
  <2>2. TimerOK' /\ CacheOK'
    BY <1>7 DEF Elsewhere, page, timer, cache, TimerOK, CacheOK
  <2>3. PageOK'
    BY <1>7 DEF Elsewhere, page, PageOK
  <2> QED
    BY <2>1, <2>2, <2>3
<1>8. CASE UNCHANGED vars
  <2>1. CompletionsOK' /\ TimerOK' /\ CacheOK'
    BY <1>8, CompletionsFrame DEF vars, timer, cache, TimerOK, CacheOK
  <2>2. PageOK'
    BY <1>8 DEF vars, PageOK
  <2> QED
    BY <2>1, <2>2
<1> QED
  BY <1>1, <1>2, <1>3, <1>4, <1>5, <1>6, <1>7, <1>8 DEF Next

\* The page, the table of completions and the requests between them keep their types.
THEOREM PlayerTyping == Spec => []TypeOK
<1>1. Init => TypeOK
  BY InitType
<1>2. TypeOK /\ [Next]_vars => TypeOK'
  BY NextType
<1> QED
  BY <1>1, <1>2, PTL DEF Spec

-----------------------------------------------------------------------------
(***************************************************************************)
(* The inductive forms of the safety properties.                           *)
(***************************************************************************)
\* Seconds on the timer that a save on its way has already been given.
Copied == IF save.stage = "none" \/ save.cleared THEN 0 ELSE save.seconds

\* What is recorded, on its way to be, or still only on the timer was practised once.
SecondsCounted ==
  /\ Copied <= elapsed
  /\ ~history.lost =>
       recorded + orphan + (IF save.stage = "sent" THEN save.seconds ELSE 0) + (elapsed - Copied)
         <= practised

\* Until something clears it, the timer shows what a save on its way has been given.
SecondsKept ==
  /\ save.stage # "none" => save.seconds > 0
  /\ ~history.reset /\ (save.stage # "none" \/ message = "failed") => save.seconds <= elapsed
  /\ ~history.reset /\ ~history.wiped /\ ~history.lost =>
       /\ orphan = 0
       /\ save.stage # "none" => save.seconds = elapsed
       /\ practised = recorded + elapsed - (IF save.stage = "stored" THEN save.seconds ELSE 0)

\* A toggle that has its answer is as good as said, and none is said while one is asked.
AnswersHold ==
  /\ "click" \notin history.others =>
       /\ message = "completed" => Completed
       /\ message = "reopened" => ~Completed
       /\ requests[Page].stage = "answered" /\ requests[Page].ok =>
            (requests[Page].op = "complete" <=> Completed)
  /\ requests[Page].stage # "none" => message \notin {"completed", "reopened"}
  /\ requests[Page].stage = "conflict" => requests[Page].op = "complete"

\* A request other than the fetch will invalidate the summary.
Asking ==
  \/ requests[Page].stage # "none" \/ requests[Left].stage # "none"
  \/ save.stage # "none" \/ orphan > 0

Excused == due \/ Asking \/ "read" \in history.others \/ history.missed

\* What is shown, or about to be, is what the server has, or will be fetched again.
CacheFollows ==
  /\ save.stage # "none" => save.seconds > 0
  /\ shown # Completed => fetch.stage # "none" \/ Excused
  /\ fetch.stage = "read" /\ fetch.value # Completed => Excused

-----------------------------------------------------------------------------
(***************************************************************************)
(* The seconds.  Toggles, fetches and other devices leave them alone.      *)
(***************************************************************************)
TimerStep ==
  \/ StartOrPause \/ Second \/ Reset \/ Finish \/ SelectItem \/ GoOffline
  \/ Saving \/ LeftBehind

SameCauses ==
  /\ history'.lost = history.lost /\ history'.reset = history.reset
  /\ history'.wiped = history.wiped

Elsewise == UNCHANGED timer /\ SameCauses /\ (message' = "failed" => message = "failed")

LEMMA OtherSteps ==
  ASSUME TypeOK, [Next]_vars
  PROVE  TimerStep \/ Elsewise
<1> USE DEF Elsewise, SameCauses
<1>1. history \in [reset : BOOLEAN, wiped : BOOLEAN, lost : BOOLEAN,
                  others : SUBSET {"read", "click"}, missed : BOOLEAN]
  BY DEF TypeOK, PageOK
<1>2. CASE GoOnline \/ Toggle
  BY <1>1, <1>2 DEF GoOnline, Toggle
<1>3. ASSUME NEW c \in {Page, Left}, Toggling(c)
      PROVE  Elsewise
  <2>1. CASE ServeToggle(c)
    BY <1>1, <2>1 DEF ServeToggle, page
  <2>2. CASE ToggleAnswered(c) \/ ToggleLost(c)
    <3>1. PICK text \in {"completed", "reopened", "not updated"} : Settle(c, text)
      BY <2>2 DEF ToggleAnswered, ToggleLost, Said
    <3> QED
      BY <3>1 DEF Settle
  <2> QED
    BY <1>3, <2>1, <2>2 DEF Toggling
<1>4. CASE Fetching
  BY <1>1, <1>4 DEF Fetching, Refetch, ReadSummary, SummaryArrives, SummaryFails
<1>5. CASE Elsewhere
  BY <1>1, <1>5 DEF Elsewhere, page
<1>6. CASE UNCHANGED vars
  BY <1>6 DEF vars
<1> QED
  BY <1>2, <1>3, <1>4, <1>5, <1>6 DEF Next, TimerStep

LEMMA CountedFrame ==
  ASSUME SecondsCounted, UNCHANGED timer, history'.lost = history.lost
  PROVE  SecondsCounted'
  BY DEF SecondsCounted, Copied, timer

LEMMA TimerFacts ==
  ASSUME TypeOK
  PROVE  /\ elapsed \in Nat /\ orphan \in Nat /\ practised \in Nat /\ recorded \in Nat
         /\ save.seconds \in Nat /\ save.stage \in {"none", "sent", "stored"}
         /\ save = [stage |-> save.stage, seconds |-> save.seconds, cleared |-> save.cleared]
  BY DEF TypeOK, TimerOK

\* A workspace takes its seconds with it, and leaves a save that is on its way.
LEMMA UnmountFacts ==
  ASSUME TypeOK, Unmount
  PROVE  /\ elapsed' = 0 /\ save' = NoSave /\ message' = "none"
         /\ practised' = practised /\ recorded' = recorded
         /\ (history'.lost <=> history.lost) /\ (history'.reset <=> history.reset)
         /\ history'.wiped <=> history.wiped \/ elapsed > 0
         /\ \/ save.stage = "sent" /\ orphan = 0 /\ orphan' = save.seconds
            \/ save.stage # "sent" /\ orphan' = orphan
  BY DEF Unmount, TypeOK, PageOK

LEMMA CountedUnmount ==
  ASSUME TypeOK, SecondsCounted, Unmount
  PROVE  SecondsCounted'
<1>1. Copied' = 0 /\ save'.stage = "none" /\ elapsed' = 0
  BY UnmountFacts DEF Copied, NoSave
<1>2. CASE history.lost
  <2>1. history'.lost /\ Copied' <= elapsed'
    BY <1>1, <1>2, UnmountFacts
  <2> QED
    BY <2>1 DEF SecondsCounted
<1>3. CASE ~history.lost
  <2>1. recorded + orphan + (IF save.stage = "sent" THEN save.seconds ELSE 0) + (elapsed - Copied)
          <= practised /\ Copied <= elapsed /\ Copied \in Nat
    BY <1>3, TimerFacts DEF SecondsCounted, Copied
  <2>2. recorded' + orphan' <= practised'
    BY <2>1, UnmountFacts, TimerFacts
  <2> QED
    BY <1>1, <2>2, TimerFacts, UnmountFacts DEF SecondsCounted
<1> QED
  BY <1>2, <1>3

LEMMA CountedNext ==
  ASSUME TypeOK, SecondsCounted, [Next]_vars
  PROVE  SecondsCounted'
<1> USE TimerFacts
<1>1. CASE StartOrPause
  BY <1>1, CountedFrame DEF StartOrPause, SecondsCounted, Copied
<1>2. CASE Second
  <2>1. /\ elapsed' = elapsed + 1 /\ practised' = practised + 1
        /\ save' = save /\ orphan' = orphan /\ recorded' = recorded
    BY <1>2 DEF Second
  <2>2. history'.lost = history.lost
    BY <1>2 DEF Second, TypeOK, PageOK
  <2> QED
    BY <2>1, <2>2 DEF SecondsCounted, Copied
<1>3. CASE Reset
  <2>1. /\ elapsed' = 0 /\ practised' = practised /\ orphan' = orphan /\ recorded' = recorded
        /\ save'.stage = save.stage /\ save'.seconds = save.seconds /\ save'.cleared
    BY <1>3 DEF Reset
  <2>2. history'.lost = history.lost
    BY <1>3 DEF Reset, TypeOK, PageOK
  <2> QED
    BY <2>1, <2>2 DEF SecondsCounted, Copied
<1>4. CASE Finish
  <2>1. /\ save.stage = "none" /\ save'.stage = "sent" /\ save'.seconds = elapsed /\ ~save'.cleared
        /\ UNCHANGED <<elapsed, practised, orphan, recorded, history>>
    BY <1>4 DEF Finish
  <2> QED
    BY <2>1 DEF SecondsCounted, Copied
<1>5. CASE SelectItem \/ GoOffline
  BY <1>5, CountedUnmount DEF SelectItem, GoOffline
<1>6. CASE SaveStored
  <2>1. /\ save.stage = "sent" /\ save'.stage = "stored" /\ save'.seconds = save.seconds
        /\ save'.cleared = save.cleared /\ recorded' = recorded + save.seconds
        /\ UNCHANGED <<elapsed, practised, orphan, history>>
    BY <1>6 DEF SaveStored
  <2> QED
    BY <2>1 DEF SecondsCounted, Copied
<1>7. CASE SaveAnswered
  <2>1. /\ elapsed' = 0 /\ save'.stage = "none"
        /\ UNCHANGED <<practised, orphan, recorded, history>>
    BY <1>7 DEF SaveAnswered, NoSave
  <2> QED
    BY <2>1 DEF SecondsCounted, Copied
<1>8. CASE SaveFails
  <2>1. /\ save.stage \in {"sent", "stored"} /\ save'.stage = "none"
        /\ UNCHANGED <<elapsed, practised, orphan, recorded>>
    BY <1>8 DEF SaveFails
  <2>2. (history'.lost <=> history.lost \/ save.stage = "stored") /\ Copied' = 0
    BY <1>8, <2>1 DEF SaveFails, TypeOK, PageOK, Copied
  <2>3. CASE save.stage = "stored"
    BY <2>1, <2>2, <2>3 DEF SecondsCounted, Copied
  <2>4. CASE save.stage = "sent"
    BY <2>1, <2>2, <2>4 DEF SecondsCounted, Copied
  <2> QED
    BY <2>1, <2>3, <2>4
<1>9. CASE LeftBehind
  <2>1. /\ orphan' = 0 /\ recorded' \in {recorded, recorded + orphan}
        /\ UNCHANGED <<elapsed, practised, save, history>>
    BY <1>9 DEF LeftBehind, OrphanStored, OrphanFails
  <2> QED
    BY <2>1 DEF SecondsCounted, Copied
<1>10. CASE Elsewise
  BY <1>10, CountedFrame DEF Elsewise, SameCauses
<1> QED
  BY <1>1, <1>2, <1>3, <1>4, <1>5, <1>6, <1>7, <1>8, <1>9, <1>10, OtherSteps DEF TimerStep, Saving

\* A second of practice is recorded once at most, however saves fail, workspaces go and
\* the timer is reset, unless an answer was lost.
THEOREM SecondsAreRecordedOnce == Spec => []NothingTwice
<1>1. Init => SecondsCounted
  BY DEF Init, SecondsCounted, Copied, NoSave
<1>2. TypeOK /\ SecondsCounted /\ [Next]_vars => SecondsCounted'
  BY CountedNext
<1>3. TypeOK /\ SecondsCounted => NothingTwice
  BY DEF TypeOK, TimerOK, SecondsCounted, Copied, NothingTwice
<1> QED
  BY <1>1, <1>2, <1>3, PlayerTyping, PTL DEF Spec

LEMMA KeptFrame ==
  ASSUME SecondsKept, UNCHANGED timer, SameCauses, message' = "failed" => message = "failed"
  PROVE  SecondsKept'
  BY DEF SecondsKept, timer, SameCauses

LEMMA KeptNext ==
  ASSUME TypeOK, SecondsKept, [Next]_vars
  PROVE  SecondsKept'
<1> USE TimerFacts
<1>0. history = [reset |-> history.reset, wiped |-> history.wiped, lost |-> history.lost,
                 others |-> history.others, missed |-> history.missed]
  BY DEF TypeOK, PageOK
<1>1. CASE StartOrPause
  BY <1>1 DEF StartOrPause, SecondsKept
<1>2. CASE Second
  <2>1. /\ elapsed' = elapsed + 1 /\ practised' = practised + 1
        /\ save' = save /\ orphan' = orphan /\ recorded' = recorded /\ message' = message
    BY <1>2 DEF Second
  <2>2. /\ history'.lost = history.lost /\ history'.reset = history.reset
        /\ ~history'.wiped => ~history.wiped /\ save.stage = "none"
    BY <1>0, <1>2 DEF Second
  <2> QED
    BY <2>1, <2>2 DEF SecondsKept
<1>3. CASE Reset
  <2>1. history'.reset /\ save'.stage = save.stage /\ save'.seconds = save.seconds
    BY <1>0, <1>3 DEF Reset
  <2> QED
    BY <2>1 DEF SecondsKept
<1>4. CASE Finish
  <2>1. /\ save.stage = "none" /\ save'.stage = "sent" /\ save'.seconds = elapsed /\ elapsed # 0
        /\ UNCHANGED <<elapsed, practised, orphan, recorded, history>>
    BY <1>4 DEF Finish
  <2> QED
    BY <2>1 DEF SecondsKept
<1>5. CASE SelectItem \/ GoOffline
  <2>1. Unmount
    BY <1>5 DEF SelectItem, GoOffline
  <2>2. save'.stage = "none" /\ save'.seconds = 0 /\ message' = "none"
    BY <2>1, UnmountFacts DEF NoSave
  <2>3. ASSUME ~history'.reset, ~history'.wiped, ~history'.lost
        PROVE  orphan' = 0 /\ practised' = recorded' + elapsed'
    <3>1. ~history.reset /\ ~history.wiped /\ ~history.lost /\ elapsed = 0
      BY <2>1, <2>3, UnmountFacts
    <3>2. save.stage = "none" /\ orphan = 0 /\ practised = recorded
      BY <3>1 DEF SecondsKept
    <3> QED
      BY <2>1, <3>2, UnmountFacts
  <2> QED
    BY <2>1, <2>2, <2>3, UnmountFacts DEF SecondsKept
<1>6. CASE SaveStored
  <2>1. /\ save.stage = "sent" /\ save'.stage = "stored" /\ save'.seconds = save.seconds
        /\ recorded' = recorded + save.seconds
        /\ UNCHANGED <<elapsed, practised, orphan, message, history>>
    BY <1>6 DEF SaveStored
  <2> QED
    BY <2>1 DEF SecondsKept
<1>7. CASE SaveAnswered
  <2>1. /\ save.stage = "stored" /\ elapsed' = 0 /\ save'.stage = "none" /\ message' = "recorded"
        /\ UNCHANGED <<practised, orphan, recorded, history>>
    BY <1>7 DEF SaveAnswered, NoSave
  <2> QED
    BY <2>1 DEF SecondsKept
<1>8. CASE SaveFails
  <2>1. /\ save.stage \in {"sent", "stored"} /\ save'.stage = "none" /\ save'.seconds = save.seconds
        /\ UNCHANGED <<elapsed, practised, orphan, recorded>>
    BY <1>8 DEF SaveFails
  <2>2. /\ history'.reset = history.reset /\ history'.wiped = history.wiped
        /\ ~history'.lost => ~history.lost /\ save.stage = "sent"
    BY <1>0, <1>8, <2>1 DEF SaveFails
  <2> QED
    BY <2>1, <2>2 DEF SecondsKept
<1>9. CASE LeftBehind
  <2>1. /\ orphan > 0 /\ orphan' = 0
        /\ UNCHANGED <<elapsed, practised, save, message, history>>
    BY <1>9 DEF LeftBehind, OrphanStored, OrphanFails
  <2> QED
    BY <2>1 DEF SecondsKept
<1>10. CASE Elsewise
  BY <1>10, KeptFrame DEF Elsewise
<1> QED
  BY <1>1, <1>2, <1>3, <1>4, <1>5, <1>6, <1>7, <1>8, <1>9, <1>10, OtherSteps DEF TimerStep, Saving

\* What was practised is recorded or on the timer, but for the causes the page has:
\* reset, leaving the workspace, practising on during a save, an answer that was lost.
THEOREM SecondsAreNotLost == Spec => []NothingLost
<1>1. Init => SecondsKept
  BY DEF Init, SecondsKept, NoSave
<1>2. TypeOK /\ SecondsKept /\ [Next]_vars => SecondsKept'
  BY KeptNext
<1>3. SecondsKept => NothingLost
  BY DEF SecondsKept, NothingLost
<1> QED
  BY <1>1, <1>2, <1>3, PlayerTyping, PTL DEF Spec

-----------------------------------------------------------------------------
(***************************************************************************)
(* The completion and what is said of it.                                  *)
(***************************************************************************)
\* What a request asks and where it stands.
Same(c) ==
  /\ requests'[c].stage = requests[c].stage
  /\ requests'[c].op = requests[c].op /\ requests'[c].ok = requests[c].ok

LEMMA RacedSame ==
  ASSUME CompletionsOK, NEW c \in Clients, NEW stage, NEW race,
         requests' = Raced(stage, race) \/ requests'[c] = Raced(stage, race)[c]
  PROVE  Same(c)
  BY DEF Same, Raced, CompletionsOK

\* A statement answers its device truly, and leaves the others where they are.
LEMMA ServeFacts ==
  ASSUME CompletionsOK, NEW c \in Clients, Serve(c),
         requests[c].stage = "conflict" => requests[c].op = "complete"
  PROVE  /\ requests[c].stage \in {"sent", "checked", "conflict"}
         /\ requests'[c].stage \in {"checked", "conflict", "answered"}
         /\ requests'[c].stage = "conflict" => requests'[c].op = "complete"
         /\ requests'[c].stage = "answered" /\ requests'[c].ok =>
              (requests'[c].op = "complete" <=> Completed')
<1> USE DEF CompletionsOK, Completed
<1>1. CASE Check(c) /\ Completable
  BY <1>1 DEF Check, Advance
<1>2. CASE Check(c) /\ ~Completable
  BY <1>2 DEF Check, Answer, Answered
<1>3. CASE Insert(c) /\ Answer(c, FALSE)
  BY <1>3 DEF Insert, Answer, Answered
<1>4. CASE Insert(c) /\ open' = 1 /\ Answer(c, TRUE)
  BY <1>4 DEF Insert, Answer, Answered
<1>5. CASE Insert(c) /\ Advance(c, "conflict")
  BY <1>5 DEF Insert, Advance
<1>6. CASE Select(c)
  BY <1>6 DEF Select, Answer, Answered
<1>7. CASE Close(c)
  BY <1>7 DEF Close, Raced, Answered
<1> QED
  BY <1>1, <1>2, <1>3, <1>4, <1>5, <1>6, <1>7 DEF Serve, Check, Insert

LEMMA SurroundingsFacts ==
  ASSUME CompletionsOK, Surroundings, NEW c \in Clients
  PROVE  Same(c)
<1>1. CASE requests' = requests
  BY <1>1 DEF Same
<1>2. CASE requests' = Raced("checked", "closed")
  BY <1>2, RacedSame
<1> QED
  BY <1>1, <1>2 DEF Surroundings, Restate, ReplaceItem

LEMMA ServeOthers ==
  ASSUME CompletionsOK, NEW c \in Clients, Serve(c)
  PROVE  requests'[c].stage # "none" /\ \A d \in Clients \ {c} : Same(d)
<1> USE DEF CompletionsOK, Same
<1>1. CASE Check(c)
  BY <1>1 DEF Check, Advance, Answer, Answered
<1>2. CASE Insert(c)
  BY <1>2 DEF Insert, Advance, Answer, Answered
<1>3. CASE Select(c)
  BY <1>3 DEF Select, Answer, Answered
<1>4. CASE Close(c)
  BY <1>4 DEF Close, Raced, Answered
<1> QED
  BY <1>1, <1>2, <1>3, <1>4 DEF Serve

\* What happens elsewhere leaves the page's requests where they are.
LEMMA ElsewhereOthers ==
  ASSUME TypeOK, Elsewhere
  PROVE  Same(Page) /\ Same(Left)
<1>1. CompletionsOK /\ \A c \in week.devices : c \in Clients \ {Page, Left}
  BY PlayerAssumption DEF TypeOK, PageOK
<1>2. CASE Surroundings
  BY <1>1, <1>2, SurroundingsFacts, PlayerAssumption
<1>3. ASSUME NEW c \in week.devices, Serve(c)
      PROVE  Same(Page) /\ Same(Left)
  BY <1>1, <1>3, ServeOthers, PlayerAssumption
<1>4. ASSUME NEW c \in week.devices, NEW op \in Ops, Send(c, op)
      PROVE  Same(Page) /\ Same(Left)
  BY <1>1, <1>4, PlayerAssumption DEF CompletionsOK, Send, Same
<1> QED
  BY <1>2, <1>3, <1>4 DEF Elsewhere

\* Of a request between two statements: where nothing has happened since the first, what
\* it found still holds.
Underway ==
  \A c \in Clients :
    /\ requests[c].stage = "conflict" =>
         /\ requests[c].op = "complete"
         /\ Completed \/ ~present \/ "reopened" \in requests[c].raced
    /\ requests[c].stage = "checked" /\ phase = "closed" => "closed" \in requests[c].raced

LEMMA ServeRaces ==
  ASSUME CompletionsOK, Underway, NEW c \in Clients, Serve(c)
  PROVE  Underway' /\ CausedStep
<1> USE DEF CompletionsOK, Underway, CausedStep, Refused, Completed
<1>1. CASE Check(c) /\ Completable
  BY <1>1 DEF Check, Advance, Completable
<1>2. CASE Check(c) /\ ~Completable
  BY <1>2 DEF Check, Answer, Answered
<1>3. CASE Insert(c) /\ ~present /\ Answer(c, FALSE)
  BY <1>3 DEF Insert, Answer, Answered, Completable
<1>4. CASE Insert(c) /\ open' = 1 /\ Answer(c, TRUE)
  BY <1>4 DEF Insert, Answer, Answered
<1>5. CASE Insert(c) /\ open > 0 /\ open' = open /\ Advance(c, "conflict")
  BY <1>5 DEF Insert, Advance
<1>6. CASE Select(c)
  <2>1. CASE open > 0
    BY <1>6, <2>1 DEF Select, Answer, Answered
  <2>2. CASE ~(open > 0)
    BY <1>6, <2>2 DEF Select, Answer, Answered, Completable
  <2> QED
    BY <2>1, <2>2
<1>7. CASE Close(c)
  BY <1>7 DEF Close, Raced, Answered
<1> QED
  BY <1>1, <1>2, <1>3, <1>4, <1>5, <1>6, <1>7 DEF Serve, Check, Insert

LEMMA SurroundingsRaces ==
  ASSUME CompletionsOK, Underway, Surroundings
  PROVE  Underway' /\ CausedStep
<1> USE DEF CompletionsOK, Underway, CausedStep, Refused, Completed
<1>1. CASE phase = "draft" /\ phase' = "issued" /\ UNCHANGED <<present, open, requests>>
  BY <1>1
<1>2. CASE Restate /\ phase' = "closed" /\ requests' = Raced("checked", "closed")
  BY <1>2 DEF Restate, Raced
<1>3. CASE ReplaceItem
  BY <1>3 DEF ReplaceItem
<1> QED
  BY <1>1, <1>2, <1>3 DEF Surroundings, Restate

\* The page asks, takes its answer or is left: nothing of the table changes.
LEMMA ClientRaces ==
  ASSUME CompletionsOK, Underway, UNCHANGED <<phase, present, open>>,
         \/ requests' = requests
         \/ \E c \in Clients : requests' = [requests EXCEPT ![c] = NoRequest]
         \/ \E c \in Clients, op \in Ops : Send(c, op)
         \/ /\ requests[Left].stage = "none"
            /\ requests' = [requests EXCEPT ![Left] = requests[Page], ![Page] = NoRequest]
  PROVE  Underway' /\ CausedStep
<1> USE DEF CompletionsOK, Underway, CausedStep, Refused, Completed, NoRequest
<1>1. CASE requests' = requests
  BY <1>1
<1>2. ASSUME NEW c \in Clients, requests' = [requests EXCEPT ![c] = NoRequest]
      PROVE  Underway' /\ CausedStep
  BY <1>2
<1>3. ASSUME NEW c \in Clients, NEW op \in Ops, Send(c, op)
      PROVE  Underway' /\ CausedStep
  BY <1>3 DEF Send
<1>4. CASE /\ requests[Left].stage = "none"
           /\ requests' = [requests EXCEPT ![Left] = requests[Page], ![Page] = NoRequest]
  BY <1>4, PlayerAssumption
<1> QED
  BY <1>1, <1>2, <1>3, <1>4

LEMMA RacesNext ==
  ASSUME TypeOK, Underway, [Next]_vars
  PROVE  Underway' /\ CausedStep
<1>1. CompletionsOK /\ Page \in Clients /\ Left \in Clients /\ week.devices \subseteq Clients
  BY PlayerAssumption DEF TypeOK, PageOK
<1>2. CASE StartOrPause \/ Second \/ Reset \/ Finish \/ GoOnline
  BY <1>1, <1>2, ClientRaces
  DEF StartOrPause, Second, Reset, Finish, GoOnline, completionVars
<1>3. CASE SelectItem \/ GoOffline
  <2>1. Unmount
    BY <1>3 DEF SelectItem, GoOffline
  <2> QED
    BY <1>1, <2>1, ClientRaces DEF Unmount
<1>4. CASE Toggle
  BY <1>1, <1>4, ClientRaces DEF Toggle, Ops
<1>5. ASSUME NEW c \in {Page, Left}, Toggling(c)
      PROVE  Underway' /\ CausedStep
  <2>1. CASE ServeToggle(c)
    BY <1>1, <2>1, ServeRaces DEF ServeToggle
  <2>2. CASE ToggleAnswered(c) \/ ToggleLost(c)
    BY <1>1, <2>2, ClientRaces DEF ToggleAnswered, ToggleLost, Settle
  <2> QED
    BY <1>5, <2>1, <2>2 DEF Toggling
<1>6. CASE Saving \/ LeftBehind
  BY <1>1, <1>6, ClientRaces
  DEF Saving, SaveStored, SaveAnswered, SaveFails, LeftBehind, OrphanStored, OrphanFails,
      completionVars
<1>7. CASE Fetching
  BY <1>1, <1>7, ClientRaces
  DEF Fetching, Refetch, ReadSummary, SummaryArrives, SummaryFails, completionVars
<1>8. CASE Elsewhere
  BY <1>1, <1>8, ServeRaces, SurroundingsRaces, ClientRaces DEF Elsewhere
<1>9. CASE UNCHANGED vars
  BY <1>1, <1>9, ClientRaces DEF vars, completionVars
<1> QED
  BY <1>2, <1>3, <1>4, <1>5, <1>6, <1>7, <1>8, <1>9 DEF Next

\* A toggle fails only for an item that has gone, a week that is closed, or a reopen
\* between the two statements of a complete; and only a request checked before the
\* closing changes the completion of a closed week.
THEOREM TogglesRace == Spec => OnlyRaces
<1>1. Init => Underway
  <2>1. ASSUME Init, NEW c \in Clients
        PROVE  requests[c].stage = "none"
    <3>1. InitCompletions
      BY <2>1 DEF Init
    <3>2. requests[c] = NoRequest
      BY <3>1 DEF InitCompletions
    <3> QED
      BY <3>2 DEF NoRequest
  <2> QED
    BY <2>1 DEF Underway
<1>2. TypeOK /\ Underway /\ [Next]_vars => Underway' /\ [CausedStep]_vars
  BY RacesNext
<1> QED
  BY <1>1, <1>2, PlayerTyping, PTL DEF Spec, OnlyRaces

\* Who asks, what is said and what others did, in a step of the page's timer or cache.
LEMMA QuietSteps ==
  ASSUME TypeOK,
         StartOrPause \/ Second \/ Reset \/ Finish \/ GoOnline \/ Saving \/ LeftBehind
           \/ Fetching \/ UNCHANGED vars
  PROVE  /\ UNCHANGED completionVars
         /\ message' \in {message, "none", "recorded", "failed"}
         /\ "click" \in history'.others <=> "click" \in history.others
<1>1. history = [reset |-> history.reset, wiped |-> history.wiped, lost |-> history.lost,
                 others |-> history.others, missed |-> history.missed]
  BY DEF TypeOK, PageOK
<1>2. CASE StartOrPause \/ Second \/ Reset \/ Finish \/ GoOnline
  BY <1>1, <1>2 DEF StartOrPause, Second, Reset, Finish, GoOnline
<1>3. CASE Saving
  BY <1>1, <1>3 DEF Saving, SaveStored, SaveAnswered, SaveFails
<1>4. CASE LeftBehind
  BY <1>4 DEF LeftBehind, OrphanStored, OrphanFails
<1>5. CASE Fetching
  BY <1>1, <1>5 DEF Fetching, Refetch, ReadSummary, SummaryArrives, SummaryFails
<1>6. CASE UNCHANGED vars
  BY <1>6 DEF vars
<1> QED
  BY <1>2, <1>3, <1>4, <1>5, <1>6

LEMMA AnswersNext ==
  ASSUME TypeOK, AnswersHold, [Next]_vars
  PROVE  AnswersHold'
<1>1. /\ Page \in Clients /\ Left \in Clients /\ Page # Left
      /\ CompletionsOK
      /\ requests \in [Clients -> RequestType]
      /\ history = [reset |-> history.reset, wiped |-> history.wiped, lost |-> history.lost,
                    others |-> history.others, missed |-> history.missed]
  BY PlayerAssumption DEF TypeOK, PageOK, CompletionsOK
<1>2. CASE StartOrPause \/ Second \/ Reset \/ Finish \/ GoOnline \/ Saving \/ LeftBehind
             \/ Fetching \/ UNCHANGED vars
  <2>1. /\ requests' = requests /\ open' = open
        /\ message' \in {message, "none", "recorded", "failed"}
        /\ "click" \in history'.others <=> "click" \in history.others
    BY <1>2, QuietSteps DEF completionVars
  <2> QED
    BY <2>1 DEF AnswersHold, Completed
<1>3. CASE SelectItem \/ GoOffline
  <2>1. Unmount
    BY <1>3 DEF SelectItem, GoOffline
  <2>2. requests'[Page].stage = "none" /\ message' = "none"
    BY <1>1, <2>1 DEF Unmount, NoRequest
  <2> QED
    BY <2>2 DEF AnswersHold
<1>4. CASE Toggle
  <2>1. requests'[Page].stage = "sent" /\ message' = "none"
    BY <1>1, <1>4 DEF Toggle, Send
  <2> QED
    BY <2>1 DEF AnswersHold
<1>5. ASSUME NEW c \in {Page, Left}, ServeToggle(c)
      PROVE  AnswersHold'
  <2>1. message' = message
    BY <1>5 DEF ServeToggle, page
  <2>2. CASE c = Page
    <3>1. /\ requests[Page].stage \in {"sent", "checked", "conflict"}
          /\ requests'[Page].stage = "conflict" => requests'[Page].op = "complete"
          /\ requests'[Page].stage = "answered" /\ requests'[Page].ok =>
               (requests'[Page].op = "complete" <=> Completed')
      BY <1>1, <1>5, <2>2, ServeFacts DEF ServeToggle, AnswersHold
    <3>2. message \notin {"completed", "reopened"}
      BY <3>1 DEF AnswersHold
    <3> QED
      BY <2>1, <3>1, <3>2 DEF AnswersHold
  <2>3. CASE c = Left
    <3>1. Same(Page)
      BY <1>1, <1>5, <2>3, ServeOthers DEF ServeToggle
    <3>2. "click" \notin history'.others => "click" \notin history.others /\ Completed' = Completed
      BY <1>1, <1>5, <2>3 DEF ServeToggle
    <3> QED
      BY <2>1, <3>1, <3>2 DEF AnswersHold, Same
  <2> QED
    BY <1>5, <2>2, <2>3
<1>6. ASSUME NEW c \in {Page, Left}, ToggleAnswered(c) \/ ToggleLost(c)
      PROVE  AnswersHold'
  <2>1. open' = open /\ history' = history
    BY <1>6 DEF ToggleAnswered, ToggleLost, Settle
  <2>2. CASE c = Page
    <3>1. requests'[Page].stage = "none"
      <4>1. requests' = [requests EXCEPT ![Page] = NoRequest]
        BY <1>6, <2>2 DEF ToggleAnswered, ToggleLost, Settle
      <4> QED
        BY <1>1, <4>1 DEF NoRequest
    <3>2. CASE ToggleLost(c) \/ ~requests[Page].ok
      <4>1. message' = "not updated"
        BY <1>6, <2>2, <3>2 DEF ToggleAnswered, ToggleLost, Settle
      <4> QED
        BY <3>1, <4>1 DEF AnswersHold
    <3>3. CASE ToggleAnswered(c) /\ requests[Page].ok
      <4>1. /\ requests[Page].stage = "answered" /\ requests[Page].op \in Ops
            /\ message' = Said(requests[Page].op)
        BY <1>1, <2>2, <3>3 DEF ToggleAnswered, Settle
      <4> QED
        BY <2>1, <3>1, <3>3, <4>1 DEF AnswersHold, Said, Ops, Completed
    <3> QED
      BY <1>6, <3>2, <3>3
  <2>3. CASE c = Left
    <3>1. requests'[Page] = requests[Page] /\ message' = message
      BY <1>1, <1>6, <2>3 DEF ToggleAnswered, ToggleLost, Settle
    <3> QED
      BY <2>1, <3>1 DEF AnswersHold, Completed
  <2> QED
    BY <1>6, <2>2, <2>3
<1>7. CASE Elsewhere
  <2>1. message' = message
    BY <1>7 DEF Elsewhere, page
  <2>2. "click" \notin history'.others => "click" \notin history.others /\ Completed' = Completed
    BY <1>1, <1>7 DEF Elsewhere
  <2>3. Same(Page)
    BY <1>1, <1>7, ElsewhereOthers
  <2> QED
    BY <2>1, <2>2, <2>3 DEF AnswersHold, Same
<1> QED
  BY <1>2, <1>3, <1>4, <1>5, <1>6, <1>7 DEF Next, Toggling

\* "Task completed." and "Task reopened." are true until another device, or a request of
\* an item left before, changes the completion.
THEOREM AnswersAreTrue == Spec => []AnswerHolds
<1>1. Init => AnswersHold
  BY PlayerAssumption DEF Init, InitCompletions, NoRequest, AnswersHold
<1>2. TypeOK /\ AnswersHold /\ [Next]_vars => AnswersHold'
  BY AnswersNext
<1>3. AnswersHold => AnswerHolds
  BY DEF AnswersHold, AnswerHolds
<1> QED
  BY <1>1, <1>2, <1>3, PlayerTyping, PTL DEF Spec

-----------------------------------------------------------------------------
(***************************************************************************)
(* The cache.                                                              *)
(***************************************************************************)
LEMMA FollowsFrame ==
  ASSUME CacheFollows, Completed' = Completed, UNCHANGED <<shown, fetch>>,
         save'.stage # "none" => save'.seconds > 0, Excused => Excused'
  PROVE  CacheFollows'
  BY DEF CacheFollows

LEMMA FollowsNext ==
  ASSUME TypeOK, CacheFollows, [Next]_vars
  PROVE  CacheFollows'
<1>1. /\ Page \in Clients /\ Left \in Clients /\ Page # Left
      /\ CompletionsOK
      /\ requests \in [Clients -> RequestType]
      /\ history = [reset |-> history.reset, wiped |-> history.wiped, lost |-> history.lost,
                    others |-> history.others, missed |-> history.missed]
  BY PlayerAssumption DEF TypeOK, PageOK, CompletionsOK
<1>2. CASE StartOrPause \/ Second \/ Reset \/ Finish \/ GoOnline
  <2>1. /\ UNCHANGED <<completionVars, cache, orphan>>
        /\ history'.others = history.others /\ history'.missed = history.missed
    BY <1>1, <1>2 DEF StartOrPause, Second, Reset, Finish, GoOnline, timer
  <2>2. (save.stage # "none" => save'.stage # "none") /\ (save'.stage # "none" => save'.seconds > 0)
    <3>1. CASE Finish
      BY <3>1, TimerFacts DEF Finish
    <3>2. CASE StartOrPause \/ Second \/ Reset \/ GoOnline
      BY <3>2, TimerFacts DEF StartOrPause, Second, Reset, GoOnline, timer, CacheFollows
    <3> QED
      BY <1>2, <3>1, <3>2
  <2>3. Excused => Excused'
    BY <2>1, <2>2 DEF Excused, Asking, completionVars, cache
  <2> QED
    BY <2>1, <2>2, <2>3, FollowsFrame DEF completionVars, cache, Completed
<1>3. CASE SelectItem \/ GoOffline
  <2>1. Unmount
    BY <1>3 DEF SelectItem, GoOffline
  <2>2. /\ open' = open /\ shown' = shown /\ fetch' = fetch /\ save'.stage = "none"
        /\ due' <=> due \/ save.stage = "stored"
        /\ history'.others = history.others /\ history'.missed = history.missed
    BY <1>1, <2>1 DEF Unmount, NoSave
  <2>3. orphan > 0 \/ save.stage = "sent" => orphan' > 0
    BY <2>1, UnmountFacts, TimerFacts DEF CacheFollows
  <2>4. requests[Page].stage # "none" \/ requests[Left].stage # "none" => requests'[Left].stage # "none"
    BY <1>1, <2>1 DEF Unmount
  <2>5. Excused => Excused'
    BY <2>2, <2>3, <2>4, TimerFacts DEF Excused, Asking
  <2> QED
    BY <2>2, <2>5, FollowsFrame DEF Completed
<1>4. CASE Toggle
  <2>1. requests'[Page].stage = "sent" /\ UNCHANGED <<open, shown, fetch, save>>
    BY <1>1, <1>4 DEF Toggle, Send, timer, cache
  <2> QED
    BY <2>1, FollowsFrame DEF Excused, Asking, Completed, CacheFollows
<1>5. ASSUME NEW c \in {Page, Left}, ServeToggle(c)
      PROVE  CacheFollows'
  <2>1. requests'[c].stage # "none"
    BY <1>1, <1>5, ServeOthers DEF ServeToggle
  <2>2. UNCHANGED save
    BY <1>5 DEF ServeToggle, page, timer
  <2>3. Excused'
    BY <1>5, <2>1 DEF Excused, Asking
  <2> QED
    BY <2>2, <2>3 DEF CacheFollows
<1>6. ASSUME NEW c \in {Page, Left}, ToggleAnswered(c) \/ ToggleLost(c)
      PROVE  CacheFollows'
  <2>1. due' /\ save' = save
    BY <1>6 DEF ToggleAnswered, ToggleLost, Settle, timer
  <2> QED
    BY <2>1 DEF CacheFollows, Excused
<1>7. CASE SaveStored
  <2>1. /\ save'.stage = "stored" /\ save'.seconds = save.seconds /\ save.stage = "sent"
        /\ UNCHANGED <<completionVars, cache>>
    BY <1>7, TimerFacts DEF SaveStored
  <2> QED
    BY <2>1 DEF CacheFollows, Excused, Asking, Completed, completionVars, cache
<1>8. CASE SaveAnswered \/ SaveFails \/ LeftBehind
  <2>1. due' /\ (save'.stage # "none" => save' = save)
    BY <1>8, TimerFacts DEF SaveAnswered, SaveFails, LeftBehind, OrphanStored, OrphanFails, NoSave
  <2> QED
    BY <2>1 DEF CacheFollows, Excused
<1>9. CASE Fetching
  <2>0. UNCHANGED <<completionVars, timer>>
    BY <1>9 DEF Fetching, Refetch, ReadSummary, SummaryArrives, SummaryFails
  <2>1. CASE Refetch
    BY <2>0, <2>1 DEF Refetch, CacheFollows, timer
  <2>2. CASE ReadSummary
    <3>1. fetch'.stage = "read" /\ fetch'.value = Completed /\ open' = open
      BY <2>0, <2>2 DEF ReadSummary, completionVars
    <3> QED
      BY <2>0, <3>1 DEF CacheFollows, Completed, timer
  <2>3. CASE SummaryArrives
    <3>1. /\ fetch.stage = "read" /\ shown' = fetch.value /\ fetch'.stage = "none"
          /\ UNCHANGED <<open, requests, due, history>>
      BY <2>0, <2>3 DEF SummaryArrives, NoFetch, completionVars
    <3> QED
      BY <2>0, <3>1 DEF CacheFollows, Excused, Asking, Completed, timer
  <2>4. CASE SummaryFails
    <3>1. history'.missed /\ fetch'.stage = "none"
      BY <1>1, <2>4 DEF SummaryFails, NoFetch
    <3> QED
      BY <2>0, <3>1 DEF CacheFollows, Excused, timer
  <2> QED
    BY <1>9, <2>1, <2>2, <2>3, <2>4 DEF Fetching
<1>10. CASE Elsewhere
  <2>1. UNCHANGED page
    BY <1>10 DEF Elsewhere
  <2>2. CASE Completed' # Completed
    <3>1. "read" \in history'.others
      BY <1>1, <1>10, <2>2 DEF Elsewhere
    <3> QED
      BY <2>1, <3>1 DEF CacheFollows, Excused, page, timer
  <2>3. CASE Completed' = Completed
    <3>1. history' = history
      BY <1>1, <1>10, <2>3 DEF Elsewhere
    <3>3. Same(Page) /\ Same(Left)
      BY <1>1, <1>10, ElsewhereOthers
    <3> QED
      BY <2>1, <2>3, <3>1, <3>3 DEF Same, CacheFollows, Excused, Asking, page, timer, cache
  <2> QED
    BY <2>2, <2>3
<1>11. CASE UNCHANGED vars
  BY <1>11 DEF vars, timer, cache, completionVars, CacheFollows, Excused, Asking, Completed
<1> QED
  BY <1>2, <1>3, <1>4, <1>5, <1>6, <1>7, <1>8, <1>9, <1>10, <1>11 DEF Next, Toggling, Saving

\* The summary on the page is behind the server's only while something will bring it up
\* to date, or for a change of another device or a failed fetch.
THEOREM CacheIsExcused == Spec => []StaleByOthers
<1>1. ASSUME Init
      PROVE  CacheFollows
  <2>1. save.stage = "none" /\ fetch.stage = "none"
    BY <1>1 DEF Init, NoSave, NoFetch
  <2>2. shown = FALSE /\ open = 0
    BY <1>1 DEF Init, InitCompletions
  <2>3. Completed = FALSE
    BY <2>2 DEF Completed
  <2>4. shown = Completed
    BY <2>2, <2>3, Zenon
  <2> QED
    BY <2>1, <2>4 DEF CacheFollows
<1>2. TypeOK /\ CacheFollows /\ [Next]_vars => CacheFollows'
  BY FollowsNext
<1>3. CacheFollows => StaleByOthers
  BY DEF CacheFollows, Excused, Asking, StaleByOthers, Pending
<1> QED
  BY <1>1, <1>2, <1>3, PlayerTyping, PTL DEF Spec
=============================================================================
