--------------------------- MODULE PracticePlayer ---------------------------
(***************************************************************************)
(* The practice page, PracticePlayerPage.tsx: a timer whose seconds are    *)
(* saved as a session, a one-time task whose completion is toggled, and    *)
(* the cached summary behind both, on one device; other devices toggle the *)
(* same task.                                                              *)
(*                                                                         *)
(* The note of a session is kept, sent and lost with its seconds and is    *)
(* left out.  The workspace of an item is mounted anew when another item   *)
(* is selected or the connection comes back; a request goes on without it. *)
(***************************************************************************)
EXTENDS ItemCompletions

CONSTANTS
  Page,        \* the client that is this page
  Left,        \* the client that stands for a toggle whose workspace has gone
  Weeks,       \* assignments: [kinds, seconds, devices], of which the last two
               \* bound the seconds practised and the devices that act
  MaxFaults    \* bound on failed requests and lost answers

Kinds == {"practice", "task"}

ASSUME PlayerAssumption ==
  /\ Page \in Clients /\ Left \in Clients \ {Page} /\ MaxFaults \in Nat
  /\ Weeks \subseteq [kinds : SUBSET Kinds, seconds : Nat, devices : SUBSET (Clients \ {Page, Left})]

VARIABLES
  week,       \* the assignment shown, one of Weeks
  online,     \* useOnlineStatus
  showing,    \* the selected item: "practice" or "task"
  running, elapsed, message,   \* the state of its workspace
  save,       \* [stage, seconds, cleared] of this workspace's createSession
  orphan,     \* seconds of a createSession whose workspace has gone, or 0
  practised,  \* seconds the timer has counted in all
  recorded,   \* seconds of the practice_sessions rows made of them
  shown,      \* the cached summary: is the task completed?
  due,        \* its tag is invalidated but requests are pending
  fetch,      \* [stage, value] of its request
  faults,
  history     \* [reset, wiped, lost, others, missed]: why seconds or the cache may be off

timer == <<running, elapsed, save, orphan, practised, recorded>>
cache == <<shown, due, fetch>>
vars == <<week, completionVars, timer, cache, online, showing, message, faults, history>>

NoSave == [stage |-> "none", seconds |-> 0, cleared |-> FALSE]
NoFetch == [stage |-> "none", value |-> FALSE]

Init ==
  /\ InitCompletions
  /\ week \in Weeks /\ online = TRUE /\ showing \in week.kinds /\ message = "none"
  /\ running = FALSE /\ elapsed = 0 /\ save = NoSave /\ orphan = 0
  /\ practised = 0 /\ recorded = 0
  /\ shown = FALSE /\ due = FALSE /\ fetch = NoFetch
  /\ faults = 0
  /\ history = [reset |-> FALSE, wiped |-> FALSE, lost |-> FALSE, others |-> {}, missed |-> FALSE]

Fault == faults < MaxFaults /\ faults' = faults + 1

-----------------------------------------------------------------------------
(***************************************************************************)
(* The cache.  A mutation invalidates the summary whether it succeeds or   *)
(* fails; the refetch waits until no request is pending and is then made   *)
(* before the next click is handled.                                       *)
(***************************************************************************)
Pending ==
  \/ \E c \in {Page, Left} : requests[c].stage # "none"
  \/ save.stage # "none" \/ orphan > 0
  \/ fetch.stage # "none"

ClickHandled == online /\ ~(due /\ ~Pending)

Refetch ==
  /\ due /\ ~Pending
  /\ due' = FALSE /\ fetch' = [stage |-> "sent", value |-> FALSE]
  /\ UNCHANGED <<week, completionVars, timer, shown, online, showing, message, faults, history>>

ReadSummary ==
  /\ fetch.stage = "sent"
  /\ fetch' = [stage |-> "read", value |-> Completed]
  /\ history' = [history EXCEPT !.others = @ \ {"read"}, !.missed = FALSE]
  /\ UNCHANGED <<week, completionVars, timer, shown, due, online, showing, message, faults>>

\* Mutant: what was invalidated during a fetch is taken to be up to date.
SummaryArrivesLast ==
  /\ fetch.stage = "read"
  /\ shown' = fetch.value /\ fetch' = NoFetch /\ due' = FALSE
  /\ UNCHANGED <<week, completionVars, timer, online, showing, message, faults, history>>

SummaryArrives ==
  /\ fetch.stage = "read"
  /\ shown' = fetch.value /\ fetch' = NoFetch
  /\ UNCHANGED <<week, completionVars, timer, due, online, showing, message, faults, history>>

SummaryFails ==
  /\ fetch.stage # "none" /\ Fault
  /\ fetch' = NoFetch
  /\ history' = [history EXCEPT !.missed = TRUE]
  /\ UNCHANGED <<week, completionVars, timer, shown, due, online, showing, message>>

-----------------------------------------------------------------------------
(***************************************************************************)
(* The timer and finishSession.                                            *)
(***************************************************************************)
AtTimer == ClickHandled /\ showing = "practice"

StartOrPause ==
  /\ AtTimer
  /\ running' = ~running
  /\ UNCHANGED <<week, completionVars, cache, elapsed, save, orphan, practised, recorded, online, showing,
                 message, faults, history>>

\* The interval; a second counted during a save is wiped out by its answer.
Second ==
  /\ running /\ practised < week.seconds
  /\ elapsed' = elapsed + 1 /\ practised' = practised + 1
  /\ history' = [history EXCEPT !.wiped = @ \/ save.stage # "none"]
  /\ UNCHANGED <<week, completionVars, cache, running, save, orphan, recorded, online, showing,
                 message, faults>>

Reset ==
  /\ AtTimer /\ ~running /\ elapsed # 0
  /\ elapsed' = 0 /\ save' = [save EXCEPT !.cleared = TRUE]
  /\ history' = [history EXCEPT !.reset = TRUE]
  /\ UNCHANGED <<week, completionVars, cache, running, orphan, practised, recorded, online, showing,
                 message, faults>>

\* Mutant: the seconds are reset at the click.
FinishOptimistic ==
  /\ AtTimer /\ save.stage = "none" /\ elapsed # 0
  /\ running' = FALSE /\ message' = "none" /\ elapsed' = 0
  /\ save' = [stage |-> "sent", seconds |-> elapsed, cleared |-> FALSE]
  /\ UNCHANGED <<week, completionVars, cache, orphan, practised, recorded, online, showing,
                 faults, history>>

Finish ==
  /\ AtTimer /\ save.stage = "none" /\ elapsed # 0
  /\ running' = FALSE /\ message' = "none"
  /\ save' = [stage |-> "sent", seconds |-> elapsed, cleared |-> FALSE]
  /\ UNCHANGED <<week, completionVars, cache, elapsed, orphan, practised, recorded, online, showing,
                 faults, history>>

\* create of practice-sessions.service.ts: the item and the student are checked.
Recordable == present /\ phase # "closed"

SaveStored ==
  /\ save.stage = "sent" /\ Recordable
  /\ recorded' = recorded + save.seconds
  /\ save' = [save EXCEPT !.stage = "stored"]
  /\ UNCHANGED <<week, completionVars, cache, running, elapsed, orphan, practised, online, showing,
                 message, faults, history>>

\* Mutant: the answer subtracts what was saved.
SaveAnsweredSubtracts ==
  /\ save.stage = "stored"
  /\ message' = "recorded" /\ elapsed' = elapsed - save.seconds /\ save' = NoSave /\ due' = TRUE
  /\ UNCHANGED <<week, completionVars, shown, fetch, running, orphan, practised, recorded, online,
                 showing, faults, history>>

\* Mutant: the seconds stay on the timer.
SaveAnsweredKeeps ==
  /\ save.stage = "stored"
  /\ message' = "recorded" /\ save' = NoSave /\ due' = TRUE
  /\ UNCHANGED <<week, completionVars, shown, fetch, running, elapsed, orphan, practised, recorded,
                 online, showing, faults, history>>

SaveAnswered ==
  /\ save.stage = "stored"
  /\ message' = "recorded" /\ elapsed' = 0 /\ save' = NoSave /\ due' = TRUE
  /\ UNCHANGED <<week, completionVars, shown, fetch, running, orphan, practised, recorded, online,
                 showing, faults, history>>

\* A refusal, a failure, or an answer lost after the row was stored.
SaveFails ==
  /\ \/ save.stage \in {"sent", "stored"} /\ Fault
     \/ save.stage = "sent" /\ ~Recordable /\ UNCHANGED faults
  /\ message' = "failed" /\ save' = [save EXCEPT !.stage = "none"] /\ due' = TRUE
  /\ history' = [history EXCEPT !.lost = @ \/ save.stage = "stored"]
  /\ UNCHANGED <<week, completionVars, shown, fetch, running, elapsed, orphan, practised, recorded,
                 online, showing>>

OrphanStored ==
  /\ orphan > 0 /\ Recordable
  /\ recorded' = recorded + orphan /\ orphan' = 0 /\ due' = TRUE
  /\ UNCHANGED <<week, completionVars, shown, fetch, running, elapsed, save, practised, online, showing,
                 message, faults, history>>

OrphanFails ==
  /\ orphan > 0
  /\ Fault \/ (~Recordable /\ UNCHANGED faults)
  /\ orphan' = 0 /\ due' = TRUE
  /\ UNCHANGED <<week, completionVars, shown, fetch, running, elapsed, save, practised, recorded, online,
                 showing, message, history>>

-----------------------------------------------------------------------------
(***************************************************************************)
(* A workspace goes with its seconds when another item is selected or the  *)
(* device goes offline; one save and one toggle at most are left behind (a *)
(* bound).  The items of a kind are alike.                                 *)
(***************************************************************************)
Unmount ==
  /\ save.stage = "sent" => orphan = 0
  /\ requests[Page].stage # "none" => requests[Left].stage = "none"
  /\ requests' = IF requests[Page].stage = "none" THEN requests
                 ELSE [requests EXCEPT ![Left] = requests[Page], ![Page] = NoRequest]
  /\ running' = FALSE /\ elapsed' = 0 /\ message' = "none"
  /\ save' = NoSave
  /\ orphan' = IF save.stage = "sent" THEN save.seconds ELSE orphan
  /\ due' = (due \/ save.stage = "stored")
  /\ history' = [history EXCEPT !.wiped = @ \/ elapsed > 0]
  /\ UNCHANGED <<week, phase, present, open, shown, fetch, practised, recorded, faults>>

SelectItem ==
  /\ ClickHandled
  /\ showing' \in week.kinds
  /\ Unmount /\ UNCHANGED online

GoOffline ==
  /\ online
  /\ online' = FALSE
  /\ Unmount /\ UNCHANGED showing

GoOnline ==
  /\ ~online
  /\ online' = TRUE
  /\ UNCHANGED <<week, completionVars, timer, cache, showing, message, faults, history>>

-----------------------------------------------------------------------------
(***************************************************************************)
(* toggleCompletion acts on the cached flag of the click.                  *)
(***************************************************************************)
Toggle ==
  /\ ClickHandled /\ showing = "task" /\ requests[Page].stage = "none"
  /\ Send(Page, IF shown THEN "reopen" ELSE "complete")
  /\ message' = "none"
  /\ history' = [history EXCEPT !.others = @ \ {"click"}]
  /\ UNCHANGED <<week, phase, present, open, timer, cache, online, showing, faults>>

Said(op) == IF op = "complete" THEN "completed" ELSE "reopened"

Settle(c, text) ==
  /\ requests' = [requests EXCEPT ![c] = NoRequest]
  /\ message' = IF c = Page THEN text ELSE message
  /\ due' = TRUE
  /\ UNCHANGED <<week, phase, present, open, timer, shown, fetch, online, showing, history>>

\* Mutant: the message is chosen by the flag as it is now.
ToggleAnsweredNow(c) ==
  /\ requests[c].stage = "answered"
  /\ Settle(c, IF requests[c].ok THEN Said(IF shown THEN "reopen" ELSE "complete") ELSE "not updated")
  /\ UNCHANGED faults

ToggleAnswered(c) ==
  /\ requests[c].stage = "answered"
  /\ Settle(c, IF requests[c].ok THEN Said(requests[c].op) ELSE "not updated")
  /\ UNCHANGED faults

\* Mutant: a request without an answer invalidates nothing.
ToggleLostQuietly(c) ==
  /\ requests[c].stage \in {"sent", "answered"} /\ Fault
  /\ requests' = [requests EXCEPT ![c] = NoRequest]
  /\ message' = IF c = Page THEN "not updated" ELSE message
  /\ UNCHANGED <<week, phase, present, open, timer, cache, online, showing, history>>

ToggleLost(c) ==
  /\ requests[c].stage \in {"sent", "answered"} /\ Fault
  /\ Settle(c, "not updated")

-----------------------------------------------------------------------------
(***************************************************************************)
(* The server and the other devices.                                       *)
(***************************************************************************)
page == <<week, timer, cache, online, showing, message, faults>>

ServeToggle(c) ==
  /\ Serve(c)
  /\ history' = [history EXCEPT !.others =
                   IF c = Page \/ Completed' = Completed THEN @ ELSE @ \cup {"click"}]
  /\ UNCHANGED page

Elsewhere ==
  /\ \/ \E c \in week.devices :
          \/ Serve(c)
          \/ /\ requests[c].stage \in {"none", "answered"} /\ \E op \in Ops : Send(c, op)
             /\ UNCHANGED <<phase, present, open>>
     \/ Surroundings
  /\ history' = [history EXCEPT !.others =
                   IF Completed' = Completed THEN @ ELSE {"read", "click"}]
  /\ UNCHANGED page

Toggling(c) == ServeToggle(c) \/ ToggleAnswered(c) \/ ToggleLost(c)

Saving == SaveStored \/ SaveAnswered \/ SaveFails

LeftBehind == OrphanStored \/ OrphanFails

Fetching == Refetch \/ ReadSummary \/ SummaryArrives \/ SummaryFails

Next ==
  \/ StartOrPause \/ Second \/ Reset \/ Finish
  \/ SelectItem \/ GoOffline \/ GoOnline \/ Toggle
  \/ (\E c \in {Page, Left} : Toggling(c)) \/ Saving \/ LeftBehind \/ Fetching \/ Elsewhere

Spec == Init /\ [][Next]_vars

\* Requests are answered or fail, and what they have invalidated is fetched.
FairSpec ==
  /\ Spec
  /\ \A c \in {Page, Left} : WF_vars(Toggling(c))
  /\ WF_vars(Saving) /\ WF_vars(LeftBehind) /\ WF_vars(Fetching)

-----------------------------------------------------------------------------
TimerOK ==
  /\ running \in BOOLEAN
  /\ elapsed \in Nat /\ orphan \in Nat /\ practised \in Nat /\ recorded \in Nat
  /\ save \in [stage : {"none", "sent", "stored"}, seconds : Nat, cleared : BOOLEAN]

CacheOK ==
  /\ shown \in BOOLEAN /\ due \in BOOLEAN
  /\ fetch \in [stage : {"none", "sent", "read"}, value : BOOLEAN]

PageOK ==
  /\ week \in Weeks /\ online \in BOOLEAN /\ showing \in Kinds /\ faults \in Nat
  /\ message \in {"none", "recorded", "failed", "completed", "reopened", "not updated"}
  /\ history \in [reset : BOOLEAN, wiped : BOOLEAN, lost : BOOLEAN,
                  others : SUBSET {"read", "click"}, missed : BOOLEAN]

\* Types of the page and of the rows behind it.
TypeOK == CompletionsOK /\ TimerOK /\ CacheOK /\ PageOK

Refused(c) == requests[c].stage = "answered" /\ ~requests[c].ok

\* A toggle is refused for a cause: its item has gone or its week is closed, or, of
\* complete, another request reopened the item between the INSERT that was skipped and
\* the SELECT.  And what a closed week says of its item is changed only by a request
\* checked before the closing.
CausedStep ==
  /\ \A c \in Clients :
       requests[c].stage \in {"sent", "checked", "conflict"} /\ Refused(c)' =>
         \/ ~Completable
         \/ requests[c].op = "complete" /\ "reopened" \in requests[c].raced
  /\ phase = "closed" /\ Completed' # Completed =>
       \E c \in Clients : requests[c].stage = "checked" /\ "closed" \in requests[c].raced

OnlyRaces == [][CausedStep]_vars

\* No second is recorded twice: not by saving again after a failure, leaving the
\* page during a save or resetting it, unless an answer was lost on its way.
NothingTwice == ~history.lost => recorded <= practised

\* Every second is recorded or still on the timer, unless the student reset it,
\* left its workspace (which going offline does) or went on during a save.  What "Your
\* elapsed time is preserved; try again" says is there, unless it was reset.
NothingLost ==
  /\ ~history.reset /\ ~history.wiped /\ ~history.lost =>
       practised = recorded + elapsed - (IF save.stage = "stored" THEN save.seconds ELSE 0)
  /\ message = "failed" => elapsed >= save.seconds \/ history.reset

\* "Task completed." and "Task reopened." are true although the button acts on a
\* cached flag: the calls set the state and do not flip it.  Only another device, or
\* a request sent before the item was selected anew, may have changed it since the
\* click.
AnswerHolds ==
  "click" \notin history.others =>
    /\ message = "completed" => Completed
    /\ message = "reopened" => ~Completed

\* The summary shown is the server's, unless a request of this page is pending
\* that will refetch it, another device has changed it, or a fetch has failed.
StaleByOthers ==
  shown # Completed =>
    due \/ Pending \/ "read" \in history.others \/ history.missed

\* The page always comes back to the state of the server, but for changes made on
\* other devices and failed fetches, which it learns of at its next request; and
\* unless toggles overlap without end, selecting the item anew in between, since a
\* refetch waits until no request is pending.
ShownSettles ==
  []<>(\/ shown = Completed
       \/ "read" \in history.others \/ history.missed
       \/ requests[Left].stage # "none")
=============================================================================
