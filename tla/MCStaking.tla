----------------------------- MODULE MCStaking ------------------------------
(* Instances of Staking for TLC.                                           *)
EXTENDS Staking

CONSTANTS a1, a2

MCAccount == {a1, a2}

Interchangeable == Permutations(MCAccount)
=============================================================================
