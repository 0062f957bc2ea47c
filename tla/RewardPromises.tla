--------------------------- MODULE RewardPromises ---------------------------
(***************************************************************************)
(* What Rewards promises without another request: awards, unlocks and      *)
(* their announcements arrive, when no statement fails and no process      *)
(* stops.                                                                  *)
(***************************************************************************)
EXTENDS Rewards

VARIABLES
  untold  \* history: <<student, key>> satisfied by a change that publishes nothing,
          \* and without an event since

promiseVars == <<vars, untold>>

\* An event of the student waits to be published.
Told(s) == \E c \in Clients : requests[c].step = "committed" /\ requests[c].student = s

\* The changes that publish nothing and can satisfy a rule: of a student's zone, of the
\* date (where a move to the west has dated a session ahead), of the weeks.
Silent == <<now, zone, planned>>' # <<now, zone, planned>>

Tell ==
  untold' = {u \in Students \X AchievementKey :
               /\ ~Told(u[1])' /\ u[2] \in QualifiedNow(u[1])'
               /\ u \in untold \/ (Silent /\ u[2] \notin QualifiedNow(u[1]))}

PromiseInit == Init /\ untold = {}

PromiseNext == Next /\ Tell

(***************************************************************************)
(* The event loop keeps running: what was committed is published, and the  *)
(* statements in flight are answered.  No client has to send anything.     *)
(* Publication is strongly fair because only the model's bound on          *)
(* evaluations can make it wait.                                           *)
(***************************************************************************)
Dates == {LocalDate(t, z) : t \in 0..LastInstant, z \in Zones}

Fairness ==
  /\ \A c \in Clients : /\ SF_vars(\E e \in Evaluators : Publish(c, e))
                        /\ WF_vars(ReadSummary(c))
  /\ \A t \in Students \X Dates : WF_vars(Award(t))
  /\ \A e \in Evaluators : /\ WF_vars(ReadFacts(e))
                           /\ WF_vars(InsertUnlocks(e))
                           /\ WF_vars(Announce(e))

FairSpec == PromiseInit /\ [][PromiseNext]_promiseVars /\ Fairness

-----------------------------------------------------------------------------
\* Every date that was ever recorded is paid in the end, even when the session
\* is corrected or deleted at once and nobody opens a summary.
AwardsArrive ==
  \A t \in Students \X Dates : t \in Practised ~> t \in awards

\* A rule that stays satisfied is rewarded although nobody lists achievements, unless it
\* became so by one of the changes without an event, and no event has followed.
RewardsArrive ==
  \A s \in Students, k \in AchievementKey :
    <>[](k \in QualifiedNow(s) /\ <<s, k>> \notin untold) => <>(<<s, k>> \in unlocked)

\* Every unlock is announced.
NoticesArrive ==
  \A n \in Students \X AchievementKey : n \in unlocked ~> notices[n] = 1

\* What a commit has promised happens without another request: awards, unlocks and
\* their announcements arrive.
PromisesArrive == AwardsArrive /\ RewardsArrive /\ NoticesArrive
=============================================================================
