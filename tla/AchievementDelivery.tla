-------------------------- MODULE AchievementDelivery --------------------------
(***************************************************************************)
(* How one browser learns of a student's unlocks: achievements.gateway.ts, *)
(* the hook use-achievement-socket.ts of the dashboard and the player, and *)
(* the cached list of RewardsPage.tsx, while the server may restart and    *)
(* the connection may go.                                                  *)
(*                                                                         *)
(* Rewards models how keys are earned and unlocked; here a session earns a *)
(* key at once and an evaluation unlocks all that is earned.               *)
(***************************************************************************)
EXTENDS Naturals, Sequences, FiniteSets

CONSTANTS
  Keys,       \* achievement keys
  Sockets,    \* connections opened by the hook, one after another
  NoSocket, NoKey,
  Attempts,   \* reconnectionAttempts
  MaxFaults   \* bound on restarts, drops, refusals, failed lookups and failed requests

ASSUME DeliveryAssumption ==
  /\ IsFiniteSet(Keys) /\ IsFiniteSet(Sockets)
  /\ NoSocket \notin Sockets /\ NoKey \notin Keys
  /\ Attempts \in Nat /\ MaxFaults \in Nat

VARIABLES
  earned,      \* keys whose facts are committed
  evaluating,  \* an evaluation follows the commit
  unlocked,    \* rows of student_achievements
  announcing,  \* unlocked, the event not yet emitted
  socket,      \* per connection: [stage, attempts]
  wire,        \* per connection: keys emitted to it and not yet received
  page,        \* "practice" (dashboard or player), "rewards" or "elsewhere"
  current,     \* the connection of the page
  toast, toasts,   \* the key shown, and how often each was
  list,        \* the cached list: [known, keys]
  fetch,       \* its request: [stage, keys]
  due,         \* the list is invalidated but requests are pending
  saving,      \* a createSession of this browser: "none", "sent", "stored"
  faults,
  told,        \* history: keys this browser was told of, or earned before it
               \* connected or saved
  failed       \* history: the list could not be fetched since

server == <<earned, evaluating, unlocked, announcing>>
connections == <<socket, wire, current>>
cache == <<list, fetch, due>>
vars == <<server, connections, page, toast, toasts, cache, saving, faults, told, failed>>

NoList == [known |-> FALSE, keys |-> {}]
NoFetch == [stage |-> "none", keys |-> {}]
Closed == [stage |-> "closed", attempts |-> 0]

Init ==
  /\ earned = {} /\ evaluating = FALSE /\ unlocked = {} /\ announcing = {}
  /\ socket = [s \in Sockets |-> Closed] /\ wire = [s \in Sockets |-> <<>>]
  /\ page = "elsewhere" /\ current = NoSocket
  /\ toast = NoKey /\ toasts = [k \in Keys |-> 0]
  /\ list = NoList /\ fetch = NoFetch /\ due = FALSE
  /\ saving = "none" /\ faults = 0 /\ told = {} /\ failed = FALSE

Fault == faults < MaxFaults /\ faults' = faults + 1

-----------------------------------------------------------------------------
(***************************************************************************)
(* The server.                                                             *)
(***************************************************************************)
EarnElsewhere ==
  /\ \E k \in Keys \ earned : earned' = earned \cup {k}
  /\ evaluating' = TRUE
  /\ UNCHANGED <<unlocked, announcing, connections, page, toast, toasts, cache, saving, faults,
                 told, failed>>

\* evaluateStudent: what is newly inserted is announced, by this evaluation alone.
Unlock ==
  /\ unlocked' = earned
  /\ announcing' = announcing \cup (earned \ unlocked)

Evaluate ==
  /\ evaluating
  /\ evaluating' = FALSE /\ Unlock
  /\ UNCHANGED <<earned, connections, page, toast, toasts, cache, saving, faults, told, failed>>

\* events$ to the room: whoever has not joined is not told.
Announce ==
  /\ \E k \in announcing :
       /\ announcing' = announcing \ {k}
       /\ wire' = [s \in Sockets |-> IF socket[s].stage = "joined" THEN Append(wire[s], k) ELSE wire[s]]
  /\ UNCHANGED <<earned, evaluating, unlocked, socket, current, page, toast, toasts, cache, saving,
                 faults, told, failed>>

Alive(s) == socket[s].stage \in {"connected", "subscribing", "checking", "joined", "unsubscribed"}

\* The manager's reconnect: out of attempts the socket stays silent until its page is
\* opened again.
Reconnect(left) ==
  IF left = 0 THEN [stage |-> "failed", attempts |-> 0] ELSE [stage |-> "waiting", attempts |-> left - 1]

Dropped(lost) ==
  /\ socket' = [s \in Sockets |-> IF s \in lost /\ Alive(s) THEN Reconnect(Attempts) ELSE socket[s]]
  /\ wire' = [s \in Sockets |-> IF s \in lost THEN <<>> ELSE wire[s]]

Restart ==
  /\ Fault
  /\ evaluating' = FALSE /\ announcing' = {}
  /\ Dropped(Sockets)
  /\ UNCHANGED <<earned, unlocked, current, page, toast, toasts, cache, saving, told, failed>>

-----------------------------------------------------------------------------
(***************************************************************************)
(* The connection.                                                         *)
(***************************************************************************)
At(s, stage) == socket[s].stage = stage

Goes(s, stage) == socket' = [socket EXCEPT ![s].stage = stage]

\* Everything earned until now is in the list once that is fetched again.
Invalidate == due' = TRUE /\ told' = earned

\* Mutant: a connection made again does not subscribe.
ConnectSilently(s) ==
  /\ At(s, "connecting") \/ At(s, "waiting")
  /\ socket' = [socket EXCEPT ![s] =
       [stage |-> IF At(s, "waiting") THEN "connected" ELSE "subscribing", attempts |-> Attempts]]
  /\ Invalidate
  /\ UNCHANGED <<server, wire, current, page, toast, toasts, list, fetch, saving, faults, failed>>

\* authenticate has passed; reconcile subscribes and invalidates, on every connection.
Connect(s) ==
  /\ At(s, "connecting") \/ At(s, "waiting")
  /\ socket' = [socket EXCEPT ![s] = [stage |-> "subscribing", attempts |-> Attempts]]
  /\ Invalidate
  /\ UNCHANGED <<server, wire, current, page, toast, toasts, list, fetch, saving, faults, failed>>

\* Mutant: attempts are counted down after the last one.
ConnectFailsAnyway(s) ==
  /\ At(s, "connecting") \/ At(s, "waiting")
  /\ Fault
  /\ socket' = [socket EXCEPT ![s] = [stage |-> "waiting", attempts |-> socket[s].attempts - 1]]
  /\ UNCHANGED <<server, wire, current, page, toast, toasts, cache, saving, told, failed>>

ConnectFails(s) ==
  /\ At(s, "connecting") \/ At(s, "waiting")
  /\ Fault
  /\ socket' = [socket EXCEPT ![s] = Reconnect(socket[s].attempts)]
  /\ UNCHANGED <<server, wire, current, page, toast, toasts, cache, saving, told, failed>>

\* The middleware's refusal is not tried again.
Refuse(s) ==
  /\ At(s, "connecting") \/ At(s, "waiting")
  /\ Fault
  /\ Goes(s, "failed")
  /\ UNCHANGED <<server, wire, current, page, toast, toasts, cache, saving, told, failed>>

\* subscribeToStudent: the student is looked up, then the room is joined or, for a
\* student not found or a lookup that failed, an exception is emitted.  The hook does not
\* listen for it: the socket stays connected, without the room, until it is dropped.
CheckOwner(s) ==
  /\ At(s, "subscribing")
  /\ Goes(s, "checking")
  /\ UNCHANGED <<server, wire, current, page, toast, toasts, cache, saving, faults, told, failed>>

Join(s) ==
  /\ At(s, "checking")
  /\ Goes(s, "joined")
  /\ UNCHANGED <<server, wire, current, page, toast, toasts, cache, saving, faults, told, failed>>

NotSubscribed(s) ==
  /\ At(s, "checking")
  /\ Fault
  /\ Goes(s, "unsubscribed")
  /\ UNCHANGED <<server, wire, current, page, toast, toasts, cache, saving, told, failed>>

Drop(s) ==
  /\ Alive(s) /\ Fault
  /\ Dropped({s})
  /\ UNCHANGED <<server, current, page, toast, toasts, cache, saving, told, failed>>

\* unlock: one slot, so that an earlier toast gives way at once.
Receive(s) ==
  /\ wire[s] # <<>>
  /\ toast' = Head(wire[s]) /\ toasts' = [toasts EXCEPT ![Head(wire[s])] = @ + 1]
  /\ wire' = [wire EXCEPT ![s] = Tail(@)]
  /\ due' = TRUE /\ told' = told \cup {Head(wire[s])}
  /\ UNCHANGED <<server, socket, current, page, list, fetch, saving, faults, failed>>

\* Six seconds, or the button.
ToastEnds ==
  /\ toast # NoKey
  /\ toast' = NoKey
  /\ UNCHANGED <<server, connections, page, toasts, cache, saving, faults, told, failed>>

-----------------------------------------------------------------------------
(***************************************************************************)
(* The cached list: see PracticePlayer for when an invalidation applies.   *)
(* Without a page that shows it, the entry is dropped instead.             *)
(***************************************************************************)
Pending == fetch.stage # "none" \/ saving # "none"

Applied ==
  /\ due /\ ~Pending
  /\ due' = FALSE
  /\ IF page = "rewards"
     THEN fetch' = [NoFetch EXCEPT !.stage = "sent"] /\ UNCHANGED list
     ELSE list' = NoList /\ UNCHANGED fetch
  /\ UNCHANGED <<server, connections, page, toast, toasts, saving, faults, told, failed>>

\* listForOwner evaluates before it reads.
ReadRewards ==
  /\ fetch.stage = "sent"
  /\ Unlock
  /\ fetch' = [stage |-> "read", keys |-> earned]
  /\ failed' = FALSE
  /\ UNCHANGED <<earned, evaluating, connections, page, toast, toasts, list, due, saving, faults, told>>

RewardsArrive ==
  /\ fetch.stage = "read"
  /\ list' = [known |-> TRUE, keys |-> fetch.keys] /\ fetch' = NoFetch
  /\ UNCHANGED <<server, connections, page, toast, toasts, due, saving, faults, told, failed>>

RewardsFail ==
  /\ fetch.stage # "none" /\ Fault
  /\ fetch' = NoFetch /\ failed' = TRUE
  /\ UNCHANGED <<server, connections, page, toast, toasts, list, due, saving, told>>

\* keepUnusedDataFor
Unused ==
  /\ page # "rewards" /\ list.known
  /\ list' = NoList
  /\ UNCHANGED <<server, connections, page, toast, toasts, fetch, due, saving, faults, told, failed>>

-----------------------------------------------------------------------------
(***************************************************************************)
(* The student's pages.                                                    *)
(***************************************************************************)
Opens == {s \in Sockets : socket[s] = Closed /\ wire[s] = <<>>}

\* Mutant: the effect's cleanup does not close the socket.
LeftOpen == socket

\* The effect's cleanup.
Left == [s \in Sockets |-> IF s = current THEN Closed ELSE socket[s]]

Unheard == wire' = [s \in Sockets |-> IF s = current THEN <<>> ELSE wire[s]]

\* A page opens, or the effect runs again: for the other page, which has its own toast,
\* or because the assignment has become known.
OpenPractice ==
  /\ page' = "practice"
  /\ \E s \in Opens :
       /\ current' = s
       /\ socket' = [Left EXCEPT ![s] = [stage |-> "connecting", attempts |-> Attempts]]
  /\ Unheard /\ toast' \in {toast, NoKey}
  /\ UNCHANGED <<server, toasts, cache, saving, faults, told, failed>>

OpenAnother ==
  /\ \E p \in {"rewards", "elsewhere"} \ {page} :
       /\ page' = p
       /\ fetch' = IF p = "rewards" /\ ~list.known /\ fetch.stage = "none"
                   THEN [NoFetch EXCEPT !.stage = "sent"] ELSE fetch
  /\ socket' = Left /\ Unheard /\ current' = NoSocket /\ toast' = NoKey
  /\ UNCHANGED <<server, toasts, list, due, saving, faults, told, failed>>

Save ==
  /\ page = "practice" /\ saving = "none"
  /\ saving' = "sent"
  /\ UNCHANGED <<server, connections, page, toast, toasts, cache, faults, told, failed>>

SaveStored ==
  /\ saving = "sent"
  /\ saving' = "stored"
  /\ \E k \in Keys : earned' = earned \cup {k}
  /\ evaluating' = TRUE
  /\ UNCHANGED <<unlocked, announcing, connections, page, toast, toasts, cache, faults, told, failed>>

\* Mutant: a saved session invalidates the progress only.
SaveAnsweredProgressOnly ==
  /\ saving = "stored" \/ (saving = "sent" /\ Fault)
  /\ saving = "stored" => UNCHANGED faults
  /\ saving' = "none"
  /\ told' = earned
  /\ UNCHANGED <<server, connections, page, toast, toasts, cache, failed>>

SaveAnswered ==
  /\ saving = "stored" \/ (saving = "sent" /\ Fault)
  /\ saving = "stored" => UNCHANGED faults
  /\ saving' = "none"
  /\ Invalidate
  /\ UNCHANGED <<server, connections, page, toast, toasts, list, fetch, failed>>

-----------------------------------------------------------------------------
Serving == Evaluate \/ Announce \/ SaveStored

Connecting(s) ==
  \/ Connect(s) \/ ConnectFails(s) \/ Refuse(s)
  \/ CheckOwner(s) \/ Join(s) \/ NotSubscribed(s) \/ Receive(s)

Fetching == Applied \/ ReadRewards \/ RewardsArrive \/ RewardsFail

Next ==
  \/ EarnElsewhere \/ Serving \/ Restart
  \/ \E s \in Sockets : Connecting(s) \/ Drop(s)
  \/ ToastEnds \/ Fetching \/ Unused
  \/ OpenPractice \/ OpenAnother \/ Save \/ SaveAnswered

Spec == Init /\ [][Next]_vars

\* Connections are made or fail, subscriptions and requests are served.
FairSpec ==
  /\ Spec /\ WF_vars(Serving) /\ WF_vars(SaveAnswered) /\ WF_vars(Fetching)
  /\ \A s \in Sockets : WF_vars(Connecting(s))

-----------------------------------------------------------------------------
\* Types, and the connections that are open: the page's, and no other.
TypeOK ==
  /\ earned \subseteq Keys /\ unlocked \subseteq Keys /\ announcing \subseteq Keys
  /\ evaluating \in BOOLEAN
  /\ socket \in [Sockets -> [stage : {"closed", "connecting", "waiting", "connected", "subscribing",
                                      "checking", "joined", "unsubscribed", "failed"},
                             attempts : 0 .. Attempts]]
  /\ wire \in [Sockets -> Seq(Keys)]
  /\ page \in {"practice", "rewards", "elsewhere"} /\ current \in Sockets \cup {NoSocket}
  /\ toast \in Keys \cup {NoKey} /\ toasts \in [Keys -> Nat]
  /\ list \in [known : BOOLEAN, keys : SUBSET Keys]
  /\ fetch \in [stage : {"none", "sent", "read"}, keys : SUBSET Keys]
  /\ due \in BOOLEAN /\ saving \in {"none", "sent", "stored"} /\ faults \in Nat
  /\ told \subseteq Keys /\ failed \in BOOLEAN

\* A cached list lacks nothing the browser was told of: by an event, or by having
\* connected or saved a session since it was earned, however the events, the fetch
\* and the save overlap, unless the fetch failed.
ListKnowsNews ==
  list.known /\ ~due /\ fetch.stage = "none" /\ ~failed => told \subseteq list.keys

\* An unlock is shown once at most, over restarts, reconnections and changes of page:
\* the client does not compare achievement ids, as docs/achievement-delivery.md asks;
\* it rests on one announcement per row and one open connection.
ToastOnce == \A k \in Keys : toasts[k] <= 1

\* A page with a socket joins the student's room, again after every drop, unless its
\* attempts are used up, the connection or the subscription was refused, or the page is
\* left.  A refused subscription is not tried again on that connection: the page then
\* shows no unlock although it is connected.
JoinsAgain ==
  \A s \in Sockets :
    current = s ~> At(s, "joined") \/ At(s, "unsubscribed") \/ At(s, "failed") \/ current # s
=============================================================================
