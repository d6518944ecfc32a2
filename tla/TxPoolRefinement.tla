-------------------------- MODULE TxPoolRefinement --------------------------
(***************************************************************************)
(* EvmTxPool implements the abstract pool of module Mempool: the hash      *)
(* index is the pool, and a payload is what the proposal takes.            *)
(***************************************************************************)
EXTENDS TxPool

\* The replacement threshold does not saturate: tips stay below
\* u64::MAX / (100 + replacement_bump_pct).
TipsFit == \A t \in Tx : t.tip * (100 + BumpPct) <= U64Max

M == INSTANCE Mempool
       WITH pool <- by_hash, nonce <- accountNonce, taken <- Range(payload)

\* Nothing leaves the pool silently.  Whatever the order of submissions,
\* proposals and commits, a transaction goes only into a payload, with one
\* transaction per sender, or because the account's nonce has passed it, or
\* for a transaction of the same sender and nonce that pays at least as much
\* (submit_tx, collect_payload, on_commit).
ImplementsMempool == M!Spec
=============================================================================
