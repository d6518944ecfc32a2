------------------------------ MODULE MCTxPool ------------------------------
(* Instances of TxPool for TLC.                                            *)
EXTENDS TxPoolRefinement

CONSTANTS s1, s2

MkTx(s, n, tip, gas, size, salt) ==
  [sender |-> s, nonce |-> n, tip |-> tip, gas |-> gas, size |-> size,
   salt |-> salt]

MCSender == {s1, s2}

\* One sender with a run of four nonces and replacements at nonce 1, one of
\* them underpriced; a second sender that competes for the payload.
MCTx ==
  {MkTx(s1, 0, 10, 2, 1, 0),
   MkTx(s1, 1, 10, 2, 1, 0), MkTx(s1, 1, 11, 2, 1, 1), MkTx(s1, 1, 10, 2, 1, 2),
   MkTx(s1, 2, 10, 3, 1, 0),
   MkTx(s1, 3, 10, 1, 1, 0),
   MkTx(s2, 0, 10, 2, 1, 0), MkTx(s2, 1, 20, 1, 6, 0)}

=============================================================================
