---------------------------- MODULE MCBanStore ----------------------------
(* Small instances of BanStore for TLC. *)
EXTENDS BanStore, TLC

CONSTANTS a, b, p

Symmetry == Permutations({a, b})
============================================================================
