----------------------------- MODULE MCEvmState -----------------------------
(* Instances of EvmState for TLC.                                          *)
EXTENDS EvmState, TLC

CONSTANTS n1, n2, alice, token, fresh, other

MCAccount == {alice, token, fresh, other}

Interchangeable == Permutations(Node)

Alloc(balance, code) == [nonce |-> 0, balance |-> balance, code |-> code, slot |-> 0]

\* One funded account, one account that a block gives code to.
MCGenesis == [a \in {alice, token} |-> Alloc(3, NoCode)]

\* A payment to an account the chain has not seen, a deployment, and a
\* contract call that writes storage.
MCBlocks ==
  {[a \in {alice, fresh} |-> "pay"],
   [a \in {alice, token} |-> IF a = alice THEN "pay" ELSE "deploy"],
   [a \in {alice, token} |-> IF a = alice THEN "read" ELSE "sstore"]}
=============================================================================
