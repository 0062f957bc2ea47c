---------------------------- MODULE RewardLedger ----------------------------
(***************************************************************************)
(* What the server promises about rewards, without requests, tasks,        *)
(* crashes or clocks: dates are practised, practised dates may be paid,    *)
(* achievements may be unlocked, and an unlock may be announced once.      *)
(* Nothing is ever taken back.                                             *)
(***************************************************************************)
EXTENDS Naturals

CONSTANTS Students, Keys

VARIABLES
  practised,  \* <<student, date>> that had a session at some time
  awards,     \* <<student, date>> paid with daily XP
  unlocked,   \* <<student, key>> in student_achievements
  notices     \* how often each <<student, key>> was announced

ledgerVars == <<practised, awards, unlocked, notices>>

Init ==
  /\ practised = {} /\ awards = {} /\ unlocked = {}
  /\ notices = [n \in Students \X Keys |-> 0]

Practise ==
  /\ \E n \in practised' : practised' = practised \cup {n}
  /\ UNCHANGED <<awards, unlocked, notices>>

Pay ==
  /\ \E paid \in SUBSET practised : awards' = awards \cup paid
  /\ UNCHANGED <<practised, unlocked, notices>>

Unlock ==
  /\ \E new \in SUBSET (Students \X Keys) : unlocked' = unlocked \cup new
  /\ UNCHANGED <<practised, awards, notices>>

Announce ==
  /\ \E fresh \in SUBSET unlocked :
       /\ \A n \in fresh : notices[n] = 0
       /\ notices' = [n \in Students \X Keys |->
                        IF n \in fresh THEN 1 ELSE notices[n]]
  /\ UNCHANGED <<practised, awards, unlocked>>

Next == Practise \/ Pay \/ Unlock \/ Announce

Spec == Init /\ [][Next]_ledgerVars
=============================================================================
