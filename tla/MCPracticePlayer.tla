---------------------------- MODULE MCPracticePlayer ----------------------------
(***************************************************************************)
(* Instances of PracticePlayer for TLC: a page of practice items, a page   *)
(* of tasks which another device completes as well, and a page of both.    *)
(***************************************************************************)
EXTENDS PracticePlayer

CONSTANTS self, left, other

MCClients == {self, left, other}

MCWeeks ==
  {[kinds |-> {"practice"}, seconds |-> 2, devices |-> {}],
   [kinds |-> {"task"}, seconds |-> 0, devices |-> {other}],
   [kinds |-> {"practice", "task"}, seconds |-> 1, devices |-> {}]}
=============================================================================
