------------------------- MODULE MCAchievementDelivery -------------------------
(***************************************************************************)
(* An instance of AchievementDelivery for TLC: two keys, two connections.  *)
(***************************************************************************)
EXTENDS AchievementDelivery
=============================================================================
