------------------------------- MODULE MCNode -------------------------------
(* Instances of Node for TLC.                                              *)
EXTENDS Node

CONSTANTS s1, s2, garbage

MkTx(s, n, tip, gas, salt) ==
  [sender |-> s, nonce |-> n, tip |-> tip, gas |-> gas, size |-> 1, salt |-> salt]

MCSender == {s1, s2}

\* A run of three nonces of one sender, the first also in another version,
\* and a second sender competing for the block's gas.
A0 == MkTx(s1, 0, 10, 2, 0)
B0 == MkTx(s1, 0, 11, 1, 1)
A1 == MkTx(s1, 1, 10, 2, 0)
A2 == MkTx(s1, 2, 10, 1, 0)
C0 == MkTx(s2, 0, 10, 2, 0)

MCTx == {A0, B0, A1, A2, C0}

\* Blocks of other proposers: a competing transaction, two nonces of one
\* sender between which something does not decode, and one over the limit.
MCForeignBlocks == {<<B0>>, <<A0, garbage, A1>>, <<C0, A0>>}
=============================================================================
