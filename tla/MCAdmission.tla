----------------------------- MODULE MCAdmission -----------------------------
(* Instances of Admission for TLC.                                         *)
EXTENDS Admission

CONSTANTS s1, s2

MCSender == {s1, s2}

MkEnvelope(s, n, gas, max_fee, max_priority, salt) ==
  [sender |-> s, nonce |-> n, chain_id |-> {1}, gas_limit |-> gas, to |-> {s2},
   zeros |-> 0, nonzeros |-> 0, max_fee |-> max_fee, max_priority |-> max_priority,
   value |-> 0, size |-> 1, salt |-> salt]

\* Gas is counted in units of a transfer's.  One sender has a transfer, a
\* creation that pays too little gas and a transaction that fills more than a
\* payload; the other a transfer whose priority fee is far below its maximum,
\* a transaction over the block's gas limit and one for another chain whose
\* fee does not fit a u64.  The transfers fit one block together, the first
\* and the one for another chain do not.
Transfer == MkEnvelope(s1, 0, 2, 12, {2}, 0)
Creation == [MkEnvelope(s1, 1, 2, 11, {}, 0) EXCEPT !.to = {}]
Bulky == [MkEnvelope(s1, 0, 1, 13, {3}, 1) EXCEPT !.size = 97]
Modest == MkEnvelope(s2, 0, 1, 14, {1}, 0)
OverLimit == MkEnvelope(s2, 1, 4, 14, {3}, 0)
Foreign == [MkEnvelope(s2, 0, 2, 256, {2}, 1) EXCEPT !.chain_id = {2}]

MCEnvelope == {Transfer, Creation, Bulky, Modest, OverLimit, Foreign}
MCTx == {PoolEntry(e) : e \in MCEnvelope}
MCRpcTx == {PoolEntry(e) : e \in {Transfer, OverLimit, Foreign}}
MCBalances == {[s \in MCSender |-> 60], [s \in MCSender |-> IF s = s1 THEN 0 ELSE 60]}
=============================================================================
