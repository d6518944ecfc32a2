-------------------------------- MODULE Node --------------------------------
(***************************************************************************)
(* One node: the transaction pool of module TxPool and the block executor  *)
(* (crates/execution/src/executor.rs), driven by the consensus engine and  *)
(* by RPC and gossip tasks.                                                *)
(*                                                                         *)
(* The engine is external.  It asks for payloads, and for each block it    *)
(* decides, own or foreign, it calls execute_block and then on_commit.     *)
(* A proposal may never be decided, or be decided late.  What revm does    *)
(* with a transaction is a free choice of gas used, 0 meaning that revm    *)
(* refuses the transaction.                                                *)
(***************************************************************************)
EXTENDS TxPool

CONSTANTS
  ForeignBlocks,  \* payloads other proposers may get decided
  MaxHeight,      \* bound on the number of blocks
  MaxProposals    \* bound on the payloads this node proposes

\* A block is a list of entries, whatever they are.
ASSUME BlockAssumption ==
  /\ \A b \in ForeignBlocks : b \in Seq(Range(b))
  /\ MaxHeight \in Nat

VARIABLES
  receipts,      \* EvmExecutor.receipts: per executed block, its receipts
  block_height,  \* EvmExecutor.block_height
  engine,        \* where the engine is between execute_block and on_commit
  proposals,     \* the payloads this node has proposed
  proposed       \* the transactions those payloads held

nodeVars == <<receipts, block_height, engine, proposals, proposed>>
allVars == <<vars, nodeVars>>

-----------------------------------------------------------------------------
(* execute_block                                                           *)

\* Slip: a nonce ahead of the account's is let through.
NonceNotTooLow(acc, t) == t.nonce >= acc.nonce[t.sender]

\* A transaction whose nonce is not its account's is skipped.
NonceMatches(acc, t) == t.nonce = acc.nonce[t.sender]

\* Slip: the transaction's own gas limit is left out.
BlockGasSpent(acc, t) == acc.gas > MaxGas

\* Slip: a block may not be filled to its limit.
ReachesBlockGas(acc, t) == acc.gas + t.gas >= MaxGas

\* A transaction that might exceed the block's gas ends the block.  The
\* code's saturating_add gives the same verdict: MaxGas is a u64.
ExceedsBlockGas(acc, t) == acc.gas + t.gas > MaxGas

\* Slip: the gas of the block is counted down.
ExecuteTxCountingDown(acc, t, used) ==
  IF acc.cut \/ ~NonceMatches(acc, t) THEN acc
  ELSE IF ExceedsBlockGas(acc, t) THEN [acc EXCEPT !.cut = TRUE]
  ELSE IF used = 0 THEN acc
  ELSE [acc EXCEPT !.nonce[t.sender] = @ + 1,
                   !.gas = @ - used,
                   !.receipts = Append(@, [tx |-> t, block_number |-> Len(receipts) + 1,
                                           cumulative_gas_used |-> acc.gas - used])]

\* One transaction of the block, with `used` its gas as revm reports it.
\* A transaction revm refuses leaves no receipt and no nonce.
ExecuteTx(acc, t, used) ==
  IF acc.cut \/ ~NonceMatches(acc, t) THEN acc
  ELSE IF ExceedsBlockGas(acc, t) THEN [acc EXCEPT !.cut = TRUE]
  ELSE IF used = 0 THEN acc
  ELSE [acc EXCEPT !.nonce[t.sender] = @ + 1,
                   !.gas = @ + used,
                   !.receipts = Append(@, [tx |-> t, block_number |-> Len(receipts) + 1,
                                           cumulative_gas_used |-> acc.gas + used])]

\* Slip: the block runs on the state of genesis.
BlockStartGenesis == [nonce |-> [s \in Sender |-> 0], gas |-> 0, receipts |-> <<>>, cut |-> FALSE]

\* The loop starts on the state that the last block left.
BlockStart == [nonce |-> accountNonce, gas |-> 0, receipts |-> <<>>, cut |-> FALSE]

\* The block's state after each of its first i entries.  An entry that does
\* not decode is skipped.
BlockRun(txs, gasUsed) ==
  LET after[i \in 0..Len(txs)] ==
        IF i = 0 THEN BlockStart
        ELSE IF txs[i] \in Tx THEN ExecuteTx(after[i - 1], txs[i], gasUsed[i])
        ELSE after[i - 1]
  IN  after

RunBlock(txs, gasUsed) == BlockRun(txs, gasUsed)[Len(txs)]

\* What revm may report for the entries of a block: a transaction uses at
\* most its gas limit.
GasUsed(txs) ==
  LET upto(i) == 0..(IF txs[i] \in Tx THEN txs[i].gas ELSE 0)
  IN  {g \in [DOMAIN txs -> UNION {upto(i) : i \in DOMAIN txs}] :
         \A i \in DOMAIN txs : g[i] \in upto(i)}

ExecuteBlock(txs) ==
  /\ engine = "idle"
  /\ Len(receipts) < MaxHeight
  /\ \E g \in GasUsed(txs) :
       LET run == RunBlock(txs, g)
       IN  /\ accountNonce' = run.nonce
           /\ receipts' = Append(receipts, run.receipts)
  /\ engine' = "executed"
  /\ payload' = <<>>
  /\ UNCHANGED <<poolVars, block_height, proposals, proposed>>

-----------------------------------------------------------------------------
(* create_payload, on_commit                                               *)

CreatePayload ==
  /\ engine = "idle"
  /\ Cardinality(proposals) < MaxProposals
  /\ CollectPayload
  /\ proposals' = proposals \cup {payload'}
  /\ proposed' = proposed \cup Range(payload')
  /\ UNCHANGED <<receipts, block_height, engine>>

\* on_commit stores the height before it takes the state and the pool.
StoreHeight ==
  /\ engine = "executed"
  /\ block_height' = Len(receipts)
  /\ engine' = "stored"
  /\ payload' = <<>>
  /\ UNCHANGED <<poolVars, accountNonce, receipts, proposals, proposed>>

CommitPool ==
  /\ engine = "stored"
  /\ OnCommit
  /\ engine' = "idle"
  /\ UNCHANGED <<receipts, block_height, proposals, proposed>>

\* submit_raw_tx from an RPC task, or add_tx from the gossip loop, at any
\* point of the engine's work.
Submit(t) == SubmitTx(t) /\ UNCHANGED nodeVars

-----------------------------------------------------------------------------
(* Reads of the RPC server                                                 *)

\* get_receipts: by index from 0, nothing beyond the end.
get_receipts(i) == IF i + 1 \in DOMAIN receipts THEN receipts[i + 1] ELSE <<>>

\* get_receipt_by_tx_hash searches the newest block first.
get_receipt_by_tx_hash(t) ==
  LET holds == {b \in DOMAIN receipts : \E i \in DOMAIN receipts[b] : receipts[b][i].tx = t}
      newest == receipts[Max(holds)]
  IN  IF holds = {} THEN {}
      ELSE {newest[Min({i \in DOMAIN newest : newest[i].tx = t})]}

-----------------------------------------------------------------------------
NodeInit ==
  /\ Init
  /\ receipts = <<>>
  /\ block_height = 0
  /\ engine = "idle"
  /\ proposals = {}
  /\ proposed = {}

NodeNext ==
  \/ \E t \in Tx : Submit(t)
  \/ CreatePayload
  \/ \E txs \in proposals \cup ForeignBlocks : ExecuteBlock(txs)
  \/ StoreHeight
  \/ CommitPool

NodeSpec == NodeInit /\ [][NodeNext]_allVars
-----------------------------------------------------------------------------
(* Properties                                                              *)

NodeTypeOK ==
  /\ TypeOK
  /\ receipts \in Seq(Seq([tx : Tx, block_number : Nat, cumulative_gas_used : Nat]))
  /\ block_height \in Nat
  /\ engine \in {"idle", "executed", "stored"}
  /\ proposals \subseteq Seq(Tx)
  /\ proposed \subseteq Tx

\* Where the receipts of sender s stand: block and index in it.
ReceiptsOf(s) ==
  {p \in UNION {{b} \X DOMAIN receipts[b] : b \in DOMAIN receipts} :
     receipts[p[1]][p[2]].tx.sender = s}

\* The nonce that the transaction of a receipt carries.
NonceAt(p) == receipts[p[1]][p[2]].tx.nonce

\* The order of execution.
Earlier(p, q) == p[1] < q[1] \/ (p[1] = q[1] /\ p[2] < q[2])

\* Every account's transactions execute once each and in nonce order: its
\* receipts carry the nonces 0, 1, ... up to its nonce, whatever blocks
\* were decided, twice or late, and whatever revm refused (execute_block).
ExecutedOnceInOrder ==
  \A s \in Sender :
    /\ {NonceAt(p) : p \in ReceiptsOf(s)} = 0..(accountNonce[s] - 1)
    /\ \A p, q \in ReceiptsOf(s) : Earlier(p, q) => NonceAt(p) < NonceAt(q)

\* A receipt is found under its transaction's hash, with the number of the
\* block that executed it, and no block's gas exceeds the limit
\* (execute_block, get_receipt_by_tx_hash).
ReceiptsFound ==
  \A b \in DOMAIN receipts : \A i \in DOMAIN receipts[b] :
    /\ get_receipt_by_tx_hash(receipts[b][i].tx) = {receipts[b][i]}
    /\ receipts[b][i].block_number = b
    /\ receipts[b][i].cumulative_gas_used <= MaxGas

\* Between blocks the pool holds nothing that the chain has passed, although
\* submissions run between execute_block and on_commit (on_commit).
IdlePoolIsFresh ==
  engine = "idle" => \A t \in by_hash : t.nonce >= accountNonce[t.sender]

\* A gap among a sender's pending nonces, from the account's nonce up, only
\* comes from this node's own proposals: the transaction missing there is
\* one that collect_payload took away.
GapsWereProposed ==
  \A s \in Sender : \A t \in pending[s] : \A n \in accountNonce[s]..t.nonce :
    n \in Nonces(pending[s]) \/ \E u \in proposed : u.sender = s /\ u.nonce = n

\* What collect_payload admits under the block gas limit, execute_block
\* never cuts short, whatever gas the transactions use and whenever the
\* proposal is decided.  It holds while GasFits: total_gas wraps beyond it.
ProposalsNeverCut ==
  \A txs \in proposals : \A g \in GasUsed(txs) : ~RunBlock(txs, g).cut

\* The bound on account nonces in module TxPool is beyond every transaction.
NoncesFit == \A t \in Tx : t.nonce < MaxNonce

\* The pool's steps within the node are steps of module TxPool, as long as
\* NoncesFit: what a block does to the account nonces is what the pool's
\* environment may do (execute_block, create_payload, on_commit).
PoolStepsOnly == [][Next]_vars

=============================================================================
