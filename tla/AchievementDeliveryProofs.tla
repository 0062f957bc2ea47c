---------------------- MODULE AchievementDeliveryProofs ----------------------
(***************************************************************************)
(* Proofs about AchievementDelivery.                                       *)
(***************************************************************************)
EXTENDS AchievementDelivery, TLAPS

ServerOK ==
  /\ earned \subseteq Keys /\ unlocked \subseteq Keys /\ announcing \subseteq Keys
  /\ evaluating \in BOOLEAN

Connection == [stage : {"closed", "connecting", "waiting", "connected", "subscribing",
                        "checking", "joined", "unsubscribed", "failed"},
               attempts : 0 .. Attempts]

ConnectionsOK ==
  /\ socket \in [Sockets -> Connection] /\ wire \in [Sockets -> Seq(Keys)]
  /\ current \in Sockets \cup {NoSocket}

BrowserOK ==
  /\ page \in {"practice", "rewards", "elsewhere"}
  /\ toast \in Keys \cup {NoKey} /\ toasts \in [Keys -> Nat]
  /\ list \in [known : BOOLEAN, keys : SUBSET Keys]
  /\ fetch \in [stage : {"none", "sent", "read"}, keys : SUBSET Keys]
  /\ due \in BOOLEAN /\ saving \in {"none", "sent", "stored"} /\ faults \in Nat
  /\ told \subseteq Keys /\ failed \in BOOLEAN

LEMMA TypeParts == TypeOK <=> ServerOK /\ ConnectionsOK /\ BrowserOK
  BY DEF TypeOK, ServerOK, ConnectionsOK, BrowserOK, Connection

LEMMA Constants ==
  /\ Closed \in Connection /\ Closed.stage = "closed"
  /\ Attempts \in 0 .. Attempts
  /\ NoList \in [known : BOOLEAN, keys : SUBSET Keys] /\ ~NoList.known
  /\ NoFetch \in [stage : {"none", "sent", "read"}, keys : SUBSET Keys] /\ NoFetch.stage = "none"
  BY DeliveryAssumption DEF Closed, Connection, NoList, NoFetch

LEMMA FaultCounted == ASSUME BrowserOK, Fault PROVE faults' \in Nat
  BY DEF Fault, BrowserOK

-----------------------------------------------------------------------------
(***************************************************************************)
(* Types, one part after the other.                                        *)
(***************************************************************************)
LEMMA ServerStep == ASSUME ServerOK, [Next]_vars PROVE ServerOK'
<1>1. CASE EarnElsewhere \/ Evaluate \/ Announce \/ SaveStored \/ Restart
  BY <1>1 DEF EarnElsewhere, Evaluate, Unlock, Announce, SaveStored, Restart, ServerOK
<1>2. CASE ReadRewards
  BY <1>2 DEF ReadRewards, Unlock, ServerOK
<1>3. CASE UNCHANGED server
  BY <1>3 DEF server, ServerOK
<1>4. ASSUME NEW s \in Sockets, Connecting(s) \/ Drop(s) PROVE UNCHANGED server
  BY <1>4 DEF Connecting, Connect, ConnectFails, Refuse, CheckOwner, Join, NotSubscribed, Receive, Drop
<1>5. ASSUME Applied \/ RewardsArrive \/ RewardsFail \/ ToastEnds \/ Unused \/ OpenPractice
             \/ OpenAnother \/ Save \/ SaveAnswered
      PROVE  UNCHANGED server
  BY <1>5 DEF Applied, RewardsArrive, RewardsFail, ToastEnds, Unused, OpenPractice, OpenAnother,
     Save, SaveAnswered
<1> QED
  BY <1>1, <1>2, <1>3, <1>4, <1>5 DEF Next, Serving, Fetching, vars

LEMMA GoesTyped ==
  ASSUME ConnectionsOK, NEW s \in Sockets,
         NEW stage \in {"connected", "subscribing", "checking", "joined", "unsubscribed", "failed"},
         Goes(s, stage), UNCHANGED <<wire, current>>
  PROVE  ConnectionsOK'
  BY DEF Goes, ConnectionsOK, Connection

LEMMA ReconnectTyped == ASSUME NEW left \in 0 .. Attempts PROVE Reconnect(left) \in Connection
<1>1. left # 0 => left - 1 \in 0 .. Attempts
  BY DeliveryAssumption
<1>2. 0 \in 0 .. Attempts
  BY DeliveryAssumption
<1> QED
  BY <1>1, <1>2 DEF Reconnect, Connection

LEMMA DroppedTyped ==
  ASSUME ConnectionsOK, NEW lost, Dropped(lost), UNCHANGED current
  PROVE  ConnectionsOK'
<1>1. Reconnect(Attempts) \in Connection
  BY ReconnectTyped, Constants
<1>2. socket' \in [Sockets -> Connection]
  BY <1>1 DEF Dropped, ConnectionsOK
<1>3. wire' \in [Sockets -> Seq(Keys)]
  BY DEF Dropped, ConnectionsOK
<1> QED
  BY <1>2, <1>3 DEF ConnectionsOK

LEMMA ConnectionsStep == ASSUME ServerOK, ConnectionsOK, [Next]_vars PROVE ConnectionsOK'
<1>1. CASE UNCHANGED connections
  BY <1>1 DEF connections, ConnectionsOK
<1>2. CASE Announce
  <2>1. PICK k \in announcing :
          wire' = [s \in Sockets |-> IF socket[s].stage = "joined" THEN Append(wire[s], k) ELSE wire[s]]
    BY <1>2 DEF Announce
  <2>2. wire' \in [Sockets -> Seq(Keys)]
    BY <2>1 DEF ServerOK, ConnectionsOK
  <2> QED
    BY <1>2, <2>2 DEF Announce, ConnectionsOK
<1>3. CASE Restart
  BY <1>3, DroppedTyped DEF Restart
<1>4. ASSUME NEW s \in Sockets, Drop(s) PROVE ConnectionsOK'
  BY <1>4, DroppedTyped DEF Drop
<1>5. ASSUME NEW s \in Sockets, Connect(s) PROVE ConnectionsOK'
  <2>1. [stage |-> "subscribing", attempts |-> Attempts] \in Connection
    BY Constants DEF Connection
  <2> QED
    BY <1>5, <2>1 DEF Connect, ConnectionsOK
<1>6. ASSUME NEW s \in Sockets, ConnectFails(s) PROVE ConnectionsOK'
  <2>1. socket[s].attempts \in 0 .. Attempts
    BY DEF ConnectionsOK, Connection
  <2>2. Reconnect(socket[s].attempts) \in Connection
    BY <2>1, ReconnectTyped
  <2>3. socket' \in [Sockets -> Connection]
    BY <1>6, <2>2 DEF ConnectFails, ConnectionsOK
  <2> QED
    BY <1>6, <2>3 DEF ConnectFails, ConnectionsOK
<1>7. ASSUME NEW s \in Sockets, Refuse(s) \/ CheckOwner(s) \/ Join(s) \/ NotSubscribed(s) PROVE ConnectionsOK'
  BY <1>7, GoesTyped DEF Refuse, CheckOwner, Join, NotSubscribed
<1>8. ASSUME NEW s \in Sockets, Receive(s) PROVE ConnectionsOK'
  <2>1. wire[s] \in Seq(Keys) /\ wire[s] # <<>>
    BY <1>8 DEF Receive, ConnectionsOK
  <2>2. Tail(wire[s]) \in Seq(Keys)
    BY <2>1
  <2> QED
    BY <1>8, <2>2 DEF Receive, ConnectionsOK
<1>9. CASE OpenPractice
  <2>1. PICK s \in Sockets :
          /\ current' = s
          /\ socket' = [Left EXCEPT ![s] = [stage |-> "connecting", attempts |-> Attempts]]
    BY <1>9 DEF OpenPractice, Opens
  <2>2. [stage |-> "connecting", attempts |-> Attempts] \in Connection
    BY Constants DEF Connection
  <2>3. Left \in [Sockets -> Connection]
    BY Constants DEF Left, ConnectionsOK
  <2>4. wire' \in [Sockets -> Seq(Keys)]
    BY <1>9 DEF OpenPractice, Unheard, ConnectionsOK
  <2> QED
    BY <2>1, <2>2, <2>3, <2>4 DEF ConnectionsOK
<1>10. CASE OpenAnother
  <2>1. Left \in [Sockets -> Connection]
    BY Constants DEF Left, ConnectionsOK
  <2>2. wire' \in [Sockets -> Seq(Keys)]
    BY <1>10 DEF OpenAnother, Unheard, ConnectionsOK
  <2> QED
    BY <1>10, <2>1, <2>2 DEF OpenAnother, ConnectionsOK
<1>11. ASSUME EarnElsewhere \/ Evaluate \/ SaveStored \/ ToastEnds \/ Fetching \/ Unused \/ Save
              \/ SaveAnswered
       PROVE  UNCHANGED connections
  BY <1>11 DEF EarnElsewhere, Evaluate, SaveStored, ToastEnds, Fetching, Applied, ReadRewards,
     RewardsArrive, RewardsFail, Unused, Save, SaveAnswered
<1> QED
  BY <1>1, <1>2, <1>3, <1>4, <1>5, <1>6, <1>7, <1>8, <1>9, <1>10, <1>11
  DEF Next, Serving, Connecting, vars

LEMMA BrowserStep == ASSUME ServerOK, ConnectionsOK, BrowserOK, [Next]_vars PROVE BrowserOK'
<1>1. CASE EarnElsewhere \/ Evaluate \/ Announce
  BY <1>1 DEF EarnElsewhere, Evaluate, Announce, cache, BrowserOK
<1>2. CASE SaveStored
  BY <1>2 DEF SaveStored, cache, BrowserOK
<1>3. CASE Restart
  BY <1>3, FaultCounted DEF Restart, cache, BrowserOK
<1>4. ASSUME NEW s \in Sockets, Drop(s) \/ ConnectFails(s) \/ Refuse(s) \/ NotSubscribed(s)
      PROVE  BrowserOK'
  BY <1>4, FaultCounted DEF Drop, ConnectFails, Refuse, NotSubscribed, cache, BrowserOK
<1>5. ASSUME NEW s \in Sockets, Connect(s) PROVE BrowserOK'
  BY <1>5 DEF Connect, Invalidate, ServerOK, BrowserOK
<1>6. ASSUME NEW s \in Sockets, CheckOwner(s) \/ Join(s) PROVE BrowserOK'
  BY <1>6 DEF CheckOwner, Join, NotSubscribed, cache, BrowserOK
<1>7. ASSUME NEW s \in Sockets, Receive(s) PROVE BrowserOK'
  <2>1. wire[s] \in Seq(Keys) /\ wire[s] # <<>>
    BY <1>7 DEF Receive, ConnectionsOK
  <2>2. Head(wire[s]) \in Keys
    BY <2>1
  <2>3. toasts' \in [Keys -> Nat]
    BY <1>7, <2>2 DEF Receive, BrowserOK
  <2> QED
    BY <1>7, <2>2, <2>3 DEF Receive, BrowserOK
<1>8. CASE ToastEnds \/ Unused \/ Applied
  BY <1>8, Constants DEF ToastEnds, Unused, Applied, cache, BrowserOK
<1>9. CASE ReadRewards
  BY <1>9 DEF ReadRewards, ServerOK, BrowserOK
<1>10. CASE RewardsArrive
  BY <1>10, Constants DEF RewardsArrive, BrowserOK
<1>11. CASE RewardsFail
  BY <1>11, Constants, FaultCounted DEF RewardsFail, BrowserOK
<1>12. CASE OpenPractice
  BY <1>12 DEF OpenPractice, cache, BrowserOK
<1>13. CASE OpenAnother
  <2>1. fetch' \in [stage : {"none", "sent", "read"}, keys : SUBSET Keys]
    BY <1>13, Constants DEF OpenAnother, BrowserOK
  <2> QED
    BY <1>13, <2>1 DEF OpenAnother, BrowserOK
<1>14. CASE Save
  BY <1>14 DEF Save, cache, BrowserOK
<1>15. CASE SaveAnswered
  <2>1. faults' \in Nat
    BY <1>15, FaultCounted DEF SaveAnswered, BrowserOK
  <2> QED
    BY <1>15, <2>1 DEF SaveAnswered, Invalidate, ServerOK, BrowserOK
<1>16. CASE UNCHANGED vars
  BY <1>16 DEF vars, cache, BrowserOK
<1> QED
  BY <1>1, <1>2, <1>3, <1>4, <1>5, <1>6, <1>7, <1>8, <1>9, <1>10, <1>11, <1>12, <1>13, <1>14, <1>15,
     <1>16 DEF Next, Serving, Connecting, Fetching

\* Server, connections and browser keep their types.
THEOREM DeliveryTyping == Spec => []TypeOK
<1>1. ASSUME Init PROVE TypeOK
  <2>1. ServerOK
    BY <1>1 DEF Init, ServerOK
  <2>2. ConnectionsOK
    BY <1>1, Constants DEF Init, ConnectionsOK
  <2>3. BrowserOK
    BY <1>1, Constants DEF Init, BrowserOK
  <2> QED
    BY <2>1, <2>2, <2>3, TypeParts
<1>2. Init => TypeOK
  BY <1>1
<1>3. TypeOK /\ [Next]_vars => TypeOK'
  BY TypeParts, ServerStep, ConnectionsStep, BrowserStep DEF TypeOK, ServerOK, ConnectionsOK, BrowserOK,
     Connection
<1> QED
  BY <1>2, <1>3, PTL DEF Spec

-----------------------------------------------------------------------------
(***************************************************************************)
(* What is announced and on its way has been unlocked and earned.          *)
(***************************************************************************)
LEMMA TailElements ==
  ASSUME NEW q \in Seq(Keys), q # <<>>
  PROVE  /\ Len(q) \in Nat \ {0} /\ Head(q) = q[1]
         /\ Len(Tail(q)) = Len(q) - 1
         /\ \A i \in 1 .. Len(q) - 1 : i + 1 \in 1 .. Len(q) /\ Tail(q)[i] = q[i + 1]
<1>1. Len(q) \in Nat \ {0}
  OBVIOUS
<1>2. Len(Tail(q)) = Len(q) - 1 /\ Head(q) = q[1]
  BY <1>1
<1>3. ASSUME NEW i \in 1 .. Len(q) - 1 PROVE i + 1 \in 1 .. Len(q) /\ Tail(q)[i] = q[i + 1]
  BY <1>1, <1>3
<1> QED
  BY <1>1, <1>2, <1>3

Sources ==
  /\ unlocked \subseteq earned /\ announcing \subseteq unlocked
  /\ \A s \in Sockets : \A i \in 1 .. Len(wire[s]) : wire[s][i] \in unlocked

LEMMA SourcesStep ==
  ASSUME TypeOK, Sources, [Next]_vars
  PROVE  Sources' /\ earned \subseteq earned' /\ unlocked \subseteq unlocked'
<1>0. ConnectionsOK /\ ServerOK /\ ConnectionsOK'
  BY TypeParts, ConnectionsStep
<1>1. CASE UNCHANGED <<server, wire>>
  BY <1>1 DEF server, Sources
<1>2. ASSUME EarnElsewhere \/ Evaluate \/ SaveStored \/ ReadRewards
      PROVE  Sources' /\ earned \subseteq earned' /\ unlocked \subseteq unlocked'
  <2>1. wire' = wire
    BY <1>2 DEF EarnElsewhere, Evaluate, SaveStored, ReadRewards, connections
  <2>2. earned \subseteq earned' /\ unlocked \subseteq unlocked' /\ unlocked' \subseteq earned'
        /\ announcing' \subseteq unlocked'
    BY <1>2 DEF EarnElsewhere, Evaluate, SaveStored, ReadRewards, Unlock, Sources
  <2> QED
    BY <2>1, <2>2 DEF Sources
<1>3. CASE Announce
  <2>1. PICK k \in announcing :
          /\ announcing' = announcing \ {k}
          /\ wire' = [s \in Sockets |-> IF socket[s].stage = "joined" THEN Append(wire[s], k) ELSE wire[s]]
    BY <1>3 DEF Announce
  <2>2. UNCHANGED <<earned, unlocked>> /\ k \in unlocked /\ k \in Keys
    BY <1>0, <1>3 DEF Announce, Sources, ServerOK
  <2>3. ASSUME NEW s \in Sockets, NEW i \in 1 .. Len(wire'[s]) PROVE wire'[s][i] \in unlocked
    <3>1. wire[s] \in Seq(Keys)
      BY <1>0 DEF ConnectionsOK
    <3>2. CASE wire'[s] = wire[s]
      BY <2>3, <3>2 DEF Sources
    <3>3. CASE wire'[s] = Append(wire[s], k)
      <4>1. i \in 1 .. Len(wire[s]) + 1
        BY <2>3, <3>1, <3>3, <2>2
      <4>2. wire'[s][i] = IF i = Len(wire[s]) + 1 THEN k ELSE wire[s][i]
        BY <3>1, <3>3, <4>1, <2>2
      <4>3. i # Len(wire[s]) + 1 => i \in 1 .. Len(wire[s])
        BY <3>1, <4>1
      <4> QED
        BY <2>2, <4>2, <4>3 DEF Sources
    <3> QED
      BY <2>1, <3>2, <3>3
  <2> QED
    BY <2>1, <2>2, <2>3 DEF Sources
<1>4. CASE Restart
  <2>1. announcing' = {} /\ UNCHANGED <<earned, unlocked>> /\ \A s \in Sockets : wire'[s] = <<>>
    BY <1>4 DEF Restart, Dropped
  <2> QED
    BY <2>1 DEF Sources
<1>5. ASSUME UNCHANGED server, \A s \in Sockets : wire'[s] \in {wire[s], <<>>}
      PROVE  Sources' /\ earned \subseteq earned' /\ unlocked \subseteq unlocked'
  <2>1. ASSUME NEW s \in Sockets, NEW i \in 1 .. Len(wire'[s]) PROVE wire'[s][i] \in unlocked
    <3>1. wire'[s] = wire[s]
      BY <1>5, <2>1
    <3> QED
      BY <2>1, <3>1 DEF Sources
  <2> QED
    BY <1>5, <2>1 DEF Sources, server
<1>6. ASSUME NEW s \in Sockets, Receive(s)
      PROVE  Sources' /\ earned \subseteq earned' /\ unlocked \subseteq unlocked'
  <2>1. UNCHANGED server /\ wire' = [wire EXCEPT ![s] = Tail(@)] /\ wire[s] \in Seq(Keys) /\ wire[s] # <<>>
    BY <1>0, <1>6 DEF Receive, ConnectionsOK
  <2>2. ASSUME NEW x \in Sockets, NEW i \in 1 .. Len(wire'[x]) PROVE wire'[x][i] \in unlocked
    <3>1. CASE x # s
      <4>1. wire'[x] = wire[x]
        BY <1>0, <2>1, <3>1 DEF ConnectionsOK
      <4> QED
        BY <2>2, <4>1 DEF Sources
    <3>2. CASE x = s
      <4>1. wire'[s] = Tail(wire[s])
        BY <1>0, <2>1 DEF ConnectionsOK
      <4>2. i + 1 \in 1 .. Len(wire[s]) /\ wire'[s][i] = wire[s][i + 1]
        BY <2>1, <2>2, <3>2, <4>1, TailElements
      <4> QED
        BY <3>2, <4>2 DEF Sources
    <3> QED
      BY <3>1, <3>2
  <2> QED
    BY <2>1, <2>2 DEF Sources, server
<1>7. ASSUME NEW s \in Sockets,
             Connect(s) \/ ConnectFails(s) \/ Refuse(s) \/ CheckOwner(s) \/ Join(s) \/ NotSubscribed(s)
      PROVE  UNCHANGED <<server, wire>>
  BY <1>7 DEF Connect, ConnectFails, Refuse, CheckOwner, Join, NotSubscribed
<1>8. ASSUME (\E s \in Sockets : Drop(s)) \/ OpenPractice \/ OpenAnother
      PROVE  UNCHANGED server /\ \A s \in Sockets : wire'[s] \in {wire[s], <<>>}
  BY <1>0, <1>8 DEF Drop, Dropped, OpenPractice, OpenAnother, Unheard, ConnectionsOK
<1>9. ASSUME ToastEnds \/ Applied \/ RewardsArrive \/ RewardsFail \/ Unused \/ Save \/ SaveAnswered
             \/ UNCHANGED vars
      PROVE  UNCHANGED <<server, wire>>
  BY <1>9 DEF ToastEnds, Applied, RewardsArrive, RewardsFail, Unused, Save, SaveAnswered, connections, vars
<1> QED
  BY <1>1, <1>2, <1>3, <1>4, <1>5, <1>6, <1>7, <1>8, <1>9 DEF Next, Serving, Connecting, Fetching

-----------------------------------------------------------------------------
(***************************************************************************)
(* A read that no invalidation follows has everything the browser was told *)
(* of, since that is earned.                                               *)
(***************************************************************************)
Informed ==
  /\ told \subseteq earned
  /\ fetch.stage = "read" /\ ~due => told \subseteq fetch.keys
  /\ ListKnowsNews

LEMMA InformedStep == ASSUME TypeOK, Sources, Informed, [Next]_vars PROVE Informed'
<1>0. earned \subseteq earned' /\ ConnectionsOK /\ BrowserOK
  BY SourcesStep, TypeParts
<1>1. CASE UNCHANGED <<told, fetch, due, list, failed>>
  BY <1>0, <1>1 DEF Informed, ListKnowsNews
<1>2. ASSUME EarnElsewhere \/ Evaluate \/ Announce \/ SaveStored \/ Restart \/ ToastEnds
             \/ OpenPractice \/ Save
      PROVE  UNCHANGED <<told, fetch, due, list, failed>>
  BY <1>2 DEF EarnElsewhere, Evaluate, Announce, SaveStored, Restart, ToastEnds, OpenPractice, Save, cache
<1>3. ASSUME NEW s \in Sockets,
             Drop(s) \/ ConnectFails(s) \/ Refuse(s) \/ CheckOwner(s) \/ Join(s) \/ NotSubscribed(s)
      PROVE  UNCHANGED <<told, fetch, due, list, failed>>
  BY <1>3 DEF Drop, ConnectFails, Refuse, CheckOwner, Join, NotSubscribed, cache
<1>4. ASSUME SaveAnswered \/ \E s \in Sockets : Connect(s) PROVE Informed'
  <2>1. due' = TRUE /\ told' = earned
    BY <1>4 DEF SaveAnswered, Connect, Invalidate
  <2> QED
    BY <1>0, <2>1 DEF Informed, ListKnowsNews
<1>5. ASSUME NEW s \in Sockets, Receive(s) PROVE Informed'
  <2>1. wire[s] \in Seq(Keys) /\ wire[s] # <<>> /\ due' = TRUE /\ earned' = earned
        /\ told' = told \cup {Head(wire[s])}
    BY <1>0, <1>5 DEF Receive, ConnectionsOK, server
  <2>2. Head(wire[s]) = wire[s][1] /\ 1 \in 1 .. Len(wire[s])
    BY <2>1, TailElements
  <2>3. Head(wire[s]) \in earned
    BY <2>2 DEF Sources
  <2> QED
    BY <2>1, <2>3 DEF Informed, ListKnowsNews
<1>6. CASE Applied
  <2>1. fetch'.stage = "sent" \/ (list' = NoList /\ fetch' = fetch /\ fetch.stage = "none")
    BY <1>6 DEF Applied, Pending, NoFetch
  <2>2. told' = told
    BY <1>6 DEF Applied
  <2> QED
    BY <1>0, <2>1, <2>2, Constants DEF Informed, ListKnowsNews
<1>7. CASE ReadRewards
  <2>1. fetch'.stage = "read" /\ fetch'.keys = earned /\ told' = told /\ earned' = earned
    BY <1>7 DEF ReadRewards
  <2> QED
    BY <2>1 DEF Informed, ListKnowsNews
<1>8. CASE RewardsArrive
  <2>1. /\ fetch.stage = "read" /\ list'.keys = fetch.keys /\ fetch' = NoFetch
        /\ told' = told /\ due' = due
    BY <1>8 DEF RewardsArrive
  <2> QED
    BY <1>0, <2>1, Constants DEF Informed, ListKnowsNews
<1>9. CASE RewardsFail
  <2>1. fetch' = NoFetch /\ failed' = TRUE /\ told' = told
    BY <1>9 DEF RewardsFail
  <2> QED
    BY <1>0, <2>1, Constants DEF Informed, ListKnowsNews
<1>10. CASE Unused
  <2>1. list' = NoList /\ UNCHANGED <<told, fetch, due>>
    BY <1>10 DEF Unused
  <2> QED
    BY <1>0, <2>1, Constants DEF Informed, ListKnowsNews
<1>11. CASE OpenAnother
  <2>1. UNCHANGED <<told, list, due, failed>>
    BY <1>11 DEF OpenAnother
  <2>2. fetch' = fetch \/ fetch'.stage = "sent"
    BY <1>11 DEF OpenAnother, NoFetch
  <2> QED
    BY <1>0, <2>1, <2>2 DEF Informed, ListKnowsNews
<1>12. CASE UNCHANGED vars
  BY <1>1, <1>12 DEF vars, cache
<1> QED
  BY <1>1, <1>2, <1>3, <1>4, <1>5, <1>6, <1>7, <1>8, <1>9, <1>10, <1>11, <1>12
  DEF Next, Serving, Connecting, Fetching

LEMMA InitSources == Init => Sources
  BY DEF Init, Sources

\* The cached list lacks nothing the browser was told of, unless a fetch failed.
THEOREM ListIsInformed == Spec => []ListKnowsNews
<1>1. Init => Informed
  BY Constants DEF Init, Informed, ListKnowsNews
<1>2. TypeOK /\ Sources /\ Informed /\ [Next]_vars => Sources' /\ Informed'
  BY SourcesStep, InformedStep
<1>3. Informed => ListKnowsNews
  BY DEF Informed
<1> QED
  BY <1>1, <1>2, <1>3, InitSources, DeliveryTyping, PTL DEF Spec

-----------------------------------------------------------------------------
(***************************************************************************)
(* One toast.  Only the page's connection is open; what is on it has been  *)
(* announced and not shown, and is on it once.                             *)
(***************************************************************************)
Single == \A s \in Sockets : s # current => socket[s].stage = "closed" /\ wire[s] = <<>>

Unseen ==
  /\ \A s \in Sockets : \A i \in 1 .. Len(wire[s]) :
       wire[s][i] \notin announcing /\ toasts[wire[s][i]] = 0
  /\ \A s \in Sockets : \A i, j \in 1 .. Len(wire[s]) : wire[s][i] = wire[s][j] => i = j

Shown == \A k \in Keys : toasts[k] # 0 => toasts[k] = 1 /\ k \in unlocked \ announcing

LEMMA SingleStep == ASSUME TypeOK, Single, [Next]_vars PROVE Single'
<1>0. ConnectionsOK
  BY TypeParts
<1>1. CASE UNCHANGED connections
  BY <1>1 DEF connections, Single
<1>2. CASE Announce
  <2>1. \A s \in Sockets : socket[s].stage = "closed" => wire'[s] = wire[s]
    BY <1>2 DEF Announce
  <2> QED
    BY <1>2, <2>1 DEF Announce, Single
<1>3. ASSUME NEW lost, Dropped(lost), UNCHANGED current PROVE Single'
  BY <1>3 DEF Dropped, Alive, Single
<1>4. ASSUME NEW s \in Sockets,
             Connect(s) \/ ConnectFails(s) \/ Refuse(s) \/ CheckOwner(s) \/ Join(s) \/ NotSubscribed(s)
      PROVE  Single'
  <2>1. socket[s].stage # "closed"
    BY <1>4 DEF Connect, ConnectFails, Refuse, CheckOwner, Join, NotSubscribed, At
  <2>2. \A x \in Sockets : x # s => socket'[x] = socket[x]
    BY <1>0, <1>4 DEF Connect, ConnectFails, Refuse, CheckOwner, Join, NotSubscribed, Goes, ConnectionsOK
  <2>3. UNCHANGED <<wire, current>>
    BY <1>4 DEF Connect, ConnectFails, Refuse, CheckOwner, Join, NotSubscribed
  <2> QED
    BY <2>1, <2>2, <2>3 DEF Single
<1>5. ASSUME NEW s \in Sockets, Receive(s) PROVE Single'
  <2>1. s = current
    BY <1>5 DEF Receive, Single
  <2>2. \A x \in Sockets : x # s => wire'[x] = wire[x]
    BY <1>0, <1>5 DEF Receive, ConnectionsOK
  <2> QED
    BY <1>5, <2>1, <2>2 DEF Receive, Single
<1>6. CASE OpenPractice
  <2>1. PICK s \in Sockets :
          /\ current' = s
          /\ socket' = [Left EXCEPT ![s] = [stage |-> "connecting", attempts |-> Attempts]]
    BY <1>6 DEF OpenPractice, Opens
  <2>2. \A x \in Sockets : x # s => socket'[x].stage = "closed"
    BY <2>1, Constants DEF Left, Single
  <2>3. \A x \in Sockets : wire'[x] = <<>>
    BY <1>6 DEF OpenPractice, Unheard, Single
  <2> QED
    BY <2>1, <2>2, <2>3 DEF Single
<1>7. CASE OpenAnother
  <2>1. \A x \in Sockets : socket'[x].stage = "closed" /\ wire'[x] = <<>>
    BY <1>7, Constants DEF OpenAnother, Left, Unheard, Single
  <2> QED
    BY <2>1 DEF Single
<1>8. ASSUME EarnElsewhere \/ Evaluate \/ SaveStored \/ ToastEnds \/ Fetching \/ Unused \/ Save
             \/ SaveAnswered \/ UNCHANGED vars
      PROVE  UNCHANGED connections
  BY <1>8 DEF EarnElsewhere, Evaluate, SaveStored, ToastEnds, Fetching, Applied, ReadRewards,
     RewardsArrive, RewardsFail, Unused, Save, SaveAnswered, vars
<1> QED
  BY <1>1, <1>2, <1>3, <1>4, <1>5, <1>6, <1>7, <1>8 DEF Next, Serving, Connecting, Restart, Drop

\* Nobody unlocks what is on its way or shown, since that is unlocked.
LEMMA NothingAgain ==
  ASSUME ServerOK, [Next]_vars
  PROVE  announcing' \subseteq announcing \cup (Keys \ unlocked)
<1>1. CASE Evaluate \/ ReadRewards
  BY <1>1 DEF Evaluate, ReadRewards, Unlock, ServerOK
<1>2. CASE Announce \/ Restart
  BY <1>2 DEF Announce, Restart
<1>3. ASSUME EarnElsewhere \/ SaveStored \/ ToastEnds \/ Applied \/ RewardsArrive \/ RewardsFail \/ Unused
             \/ OpenPractice \/ OpenAnother \/ Save \/ SaveAnswered \/ UNCHANGED vars
      PROVE  announcing' = announcing
  BY <1>3 DEF EarnElsewhere, SaveStored, ToastEnds, Applied, RewardsArrive, RewardsFail, Unused,
     OpenPractice, OpenAnother, Save, SaveAnswered, vars, server
<1>4. ASSUME NEW s \in Sockets, Connecting(s) \/ Drop(s) PROVE announcing' = announcing
  BY <1>4 DEF Connecting, Connect, ConnectFails, Refuse, CheckOwner, Join, NotSubscribed, Receive, Drop, server
<1> QED
  BY <1>1, <1>2, <1>3, <1>4 DEF Next, Serving, Fetching

LEMMA OnceStep ==
  ASSUME TypeOK, Sources, Single, Unseen, Shown, [Next]_vars
  PROVE  Unseen' /\ Shown'
<1>0. /\ ServerOK /\ ConnectionsOK /\ BrowserOK
      /\ announcing' \subseteq announcing \cup (Keys \ unlocked) /\ unlocked \subseteq unlocked'
  BY TypeParts, NothingAgain, SourcesStep
<1>1. ASSUME UNCHANGED toasts, \A s \in Sockets : wire'[s] \in {wire[s], <<>>}
      PROVE  Unseen' /\ Shown'
  <2>1. ASSUME NEW s \in Sockets, NEW i \in 1 .. Len(wire'[s])
        PROVE  wire'[s] = wire[s] /\ wire[s][i] \notin announcing' /\ toasts'[wire[s][i]] = 0
    <3>1. wire'[s] = wire[s]
      BY <1>1, <2>1
    <3> QED
      BY <1>0, <1>1, <2>1, <3>1 DEF Unseen, Sources
  <2>2. Shown'
    BY <1>0, <1>1 DEF Shown
  <2> QED
    BY <2>1, <2>2 DEF Unseen
<1>2. CASE Announce
  <2>1. PICK k \in announcing :
          /\ announcing' = announcing \ {k}
          /\ wire' = [s \in Sockets |-> IF socket[s].stage = "joined" THEN Append(wire[s], k) ELSE wire[s]]
    BY <1>2 DEF Announce
  <2>2. k \in Keys /\ UNCHANGED <<unlocked, toasts>> /\ toasts[k] = 0
    BY <1>0, <1>2 DEF Announce, ServerOK, Shown
  <2>3. k \notin announcing' /\ announcing' \subseteq announcing
    BY <2>1
  <2>4. ASSUME NEW s \in Sockets
        PROVE  /\ \A i \in 1 .. Len(wire'[s]) : wire'[s][i] \notin announcing' /\ toasts[wire'[s][i]] = 0
               /\ \A i, j \in 1 .. Len(wire'[s]) : wire'[s][i] = wire'[s][j] => i = j
    <3>1. wire[s] \in Seq(Keys)
      BY <1>0 DEF ConnectionsOK
    <3>2. CASE wire'[s] = wire[s]
      BY <2>3, <3>2 DEF Unseen
    <3>3. CASE wire'[s] = Append(wire[s], k)
      <4>1. Len(wire'[s]) = Len(wire[s]) + 1 /\ Len(wire[s]) \in Nat
        BY <2>2, <3>1, <3>3
      <4>2. \A i \in 1 .. Len(wire'[s]) :
              wire'[s][i] = IF i = Len(wire[s]) + 1 THEN k ELSE wire[s][i]
        BY <2>2, <3>1, <3>3, <4>1
      <4>3. \A i \in 1 .. Len(wire'[s]) : i # Len(wire[s]) + 1 => i \in 1 .. Len(wire[s])
        BY <4>1
      <4>4. \A i \in 1 .. Len(wire[s]) : wire[s][i] # k
        BY DEF Unseen
      <4>5. \A i \in 1 .. Len(wire'[s]) : wire'[s][i] \notin announcing' /\ toasts[wire'[s][i]] = 0
        BY <2>2, <2>3, <4>2, <4>3 DEF Unseen
      <4>6. ASSUME NEW i \in 1 .. Len(wire'[s]), NEW j \in 1 .. Len(wire'[s]), wire'[s][i] = wire'[s][j]
            PROVE  i = j
        BY <4>2, <4>3, <4>4, <4>6 DEF Unseen
      <4> QED
        BY <4>5, <4>6
    <3> QED
      BY <2>1, <3>2, <3>3
  <2>5. Shown'
    BY <2>2, <2>3 DEF Shown
  <2> QED
    BY <2>2, <2>4, <2>5 DEF Unseen
<1>3. ASSUME NEW s \in Sockets, Receive(s) PROVE Unseen' /\ Shown'
  <2> DEFINE k == wire[s][1]
  <2>1. /\ wire[s] \in Seq(Keys) /\ wire[s] # <<>>
        /\ Head(wire[s]) = k /\ k \in Keys /\ Len(wire[s]) \in Nat \ {0}
    <3>1. wire[s] \in Seq(Keys) /\ wire[s] # <<>>
      BY <1>0, <1>3 DEF Receive, ConnectionsOK
    <3>2. Head(wire[s]) \in Keys
      BY <3>1
    <3> QED
      BY <3>1, <3>2, TailElements
  <2>2. /\ UNCHANGED <<announcing, unlocked, current>>
        /\ toasts' = [toasts EXCEPT ![k] = @ + 1]
        /\ wire' = [wire EXCEPT ![s] = Tail(@)]
    BY <1>3, <2>1 DEF Receive, server
  <2>3. k \in unlocked \ announcing /\ toasts[k] = 0
    BY <2>1 DEF Sources, Unseen
  <2>4. toasts'[k] = 1 /\ \A x \in Keys : x # k => toasts'[x] = toasts[x]
    BY <1>0, <2>1, <2>2, <2>3 DEF BrowserOK
  <2>5. Shown'
    BY <2>2, <2>3, <2>4 DEF Shown
  <2>6. wire'[s] = Tail(wire[s]) /\ \A x \in Sockets : x # s => wire'[x] = <<>>
    BY <1>0, <2>1, <2>2 DEF ConnectionsOK, Single
  <2>7. /\ Len(wire'[s]) = Len(wire[s]) - 1
        /\ \A i \in 1 .. Len(wire'[s]) : i + 1 \in 1 .. Len(wire[s]) /\ wire'[s][i] = wire[s][i + 1]
    BY <2>1, <2>6, TailElements
  <2>8. ASSUME NEW i \in 1 .. Len(wire'[s])
        PROVE  wire'[s][i] \notin announcing' /\ toasts'[wire'[s][i]] = 0
    <3>1. i + 1 \in 1 .. Len(wire[s]) /\ 1 \in 1 .. Len(wire[s]) /\ i + 1 # 1
      BY <2>1, <2>7, <2>8
    <3>2. wire[s][i + 1] # k
      BY <3>1 DEF Unseen
    <3>3. wire[s][i + 1] \in Keys
      BY <2>1, <3>1
    <3> QED
      BY <2>2, <2>4, <2>7, <3>1, <3>2, <3>3 DEF Unseen
  <2>9. ASSUME NEW i \in 1 .. Len(wire'[s]), NEW j \in 1 .. Len(wire'[s]), wire'[s][i] = wire'[s][j]
        PROVE  i = j
    <3>1. i + 1 = j + 1
      BY <2>7, <2>9 DEF Unseen
    <3> QED
      BY <2>1, <2>7, <3>1
  <2>10. ASSUME NEW x \in Sockets, x # s
         PROVE  Len(wire'[x]) = 0
    BY <2>6, <2>10
  <2>11. Unseen'
    BY <2>8, <2>9, <2>10 DEF Unseen
  <2> QED
    BY <2>5, <2>11
<1>4. ASSUME NEW s \in Sockets,
             Connect(s) \/ ConnectFails(s) \/ Refuse(s) \/ CheckOwner(s) \/ Join(s) \/ NotSubscribed(s) \/ Drop(s)
      PROVE  UNCHANGED toasts /\ \A x \in Sockets : wire'[x] \in {wire[x], <<>>}
  BY <1>4 DEF Connect, ConnectFails, Refuse, CheckOwner, Join, NotSubscribed, Drop, Dropped
<1>5. ASSUME EarnElsewhere \/ Evaluate \/ SaveStored \/ ToastEnds \/ Fetching \/ Unused \/ Save
             \/ SaveAnswered \/ UNCHANGED vars
      PROVE  UNCHANGED toasts /\ wire' = wire
  BY <1>5 DEF EarnElsewhere, Evaluate, SaveStored, ToastEnds, Fetching, Applied, ReadRewards,
     RewardsArrive, RewardsFail, Unused, Save, SaveAnswered, vars, connections
<1>6. ASSUME Restart \/ OpenPractice \/ OpenAnother
      PROVE  UNCHANGED toasts /\ \A x \in Sockets : wire'[x] \in {wire[x], <<>>}
  BY <1>6 DEF Restart, Dropped, OpenPractice, OpenAnother, Unheard
<1> QED
  BY <1>1, <1>2, <1>3, <1>4, <1>5, <1>6 DEF Next, Serving, Connecting

\* However the server restarts and the browser reconnects, an unlock is shown once at most.
THEOREM ToastsAreShownOnce == Spec => []ToastOnce
<1>1. Init => Single /\ Unseen /\ Shown
  BY Constants DEF Init, Single, Unseen, Shown
<1>2. TypeOK /\ Sources /\ Single /\ Unseen /\ Shown /\ [Next]_vars
        => Sources' /\ Single' /\ Unseen' /\ Shown'
  BY SourcesStep, SingleStep, OnceStep
<1>3. TypeOK /\ Shown => ToastOnce
  BY DEF TypeOK, Shown, ToastOnce
<1> QED
  BY <1>1, <1>2, <1>3, InitSources, DeliveryTyping, PTL DEF Spec
=============================================================================
