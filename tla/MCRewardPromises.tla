-------------------------- MODULE MCRewardPromises --------------------------
(***************************************************************************)
(* An instance of RewardPromises for TLC.                                  *)
(*                                                                         *)
(* The behaviours liveness is checked on: one session, corrected or        *)
(* deleted, while zone and week change; or a session day after day.        *)
(***************************************************************************)
EXTENDS RewardPromises, MCRewards

Undisturbed ==
  /\ planned = drafts /\ planned = everPlanned /\ active = Students
  /\ \A c \in Clients : requests[c].step # "repaired"
  /\ \A p \in ledger : p.item = NoItem

OneRow ==
  /\ Cardinality({p.id : p \in ledger}) <= 1 /\ Cardinality(ledger) <= 2
  /\ {p.at : p \in ledger} \in {{}, {0}, {0, 1}}
  /\ everDone = {}

DayAfterDay ==
  /\ \A s \in Students : zone[s] = HomeZone
  /\ \A p \in ledger : p.zone = HomeZone
  /\ {p.at : p \in ledger} = 0 .. Cardinality(ledger) - 1
  /\ sessions = ledger /\ done = everDone

Calm == Undisturbed /\ (OneRow \/ DayAfterDay)

CalmSpec == PromiseInit /\ [][PromiseNext /\ Calm']_promiseVars /\ Fairness
=============================================================================
