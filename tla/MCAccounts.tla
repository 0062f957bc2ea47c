----------------------------- MODULE MCAccounts -----------------------------
(***************************************************************************)
(* Instances of Accounts for TLC: two tabs editing the student of one      *)
(* account; a tab and a caller of the API, where one request may fail; and *)
(* two accounts in two tabs, with a save or with a failure.                *)
(***************************************************************************)
EXTENDS Accounts

CONSTANTS ann, ben, left, right, caller

World(accounts, tabs, callers, signing, saves, failures) ==
  [enrolled |-> <<ann, NoUser>>, accounts |-> accounts, tabs |-> tabs, callers |-> callers, signing |-> signing, calls |-> saves,
   faults |-> failures]

MCWorlds ==
  {World({ann}, {left, right}, {}, FALSE, 2, 0),
   World({ann}, {left}, {caller}, FALSE, 2, 1),
   World({ann, ben}, {left, right}, {}, TRUE, 1, 0),
   World({ann, ben}, {left, right}, {}, TRUE, 0, 1)}
=============================================================================
