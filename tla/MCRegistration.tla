--------------------------- MODULE MCRegistration ----------------------------
(* Small instances of Registration for TLC. *)
EXTENDS Registration, TLC

CONSTANTS trader, strategy

Symmetric == Permutations(App)
=============================================================================
