------------------------------ MODULE MCReads ------------------------------
(* Instances of RpcReads for TLC.                                          *)
EXTENDS RpcReads

CONSTANTS s1, s2

MkTx(s, n) ==
  [sender |-> s, nonce |-> n, tip |-> 10, gas |-> 1, size |-> 1, salt |-> 0]

MCSender == {s1, s2}

\* Two nonces of one sender and one of another.
A0 == MkTx(s1, 0)
A1 == MkTx(s1, 1)
C0 == MkTx(s2, 0)

MCTx == {A0, A1, C0}

\* Other proposers decide a block of two and a block of one.
MCForeignBlocks == {<<A0, C0>>, <<A1>>}

\* The first sender's transactions emit two logs, the other's one.
MCLogsOf ==
  [t \in MCTx |->
    IF t.sender = s1 THEN <<[address |-> "a", topics |-> {"x"}],
                            [address |-> "b", topics |-> {"x", "y"}]>>
                     ELSE <<[address |-> "b", topics |-> {"y"}]>>]

MCFilter == {[address |-> {}, topic |-> {"x"}], [address |-> {"b"}, topic |-> {}]}
=============================================================================
