--------------------------- MODULE MCResourceAssets ---------------------------
(***************************************************************************)
(* Instances of ResourceAssets for TLC.                                    *)
(***************************************************************************)
EXTENDS ResourceAssets, TLC

Symmetric == Permutations(Clients) \cup Permutations(Keys)
=============================================================================
