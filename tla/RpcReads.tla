------------------------------ MODULE RpcReads ------------------------------
(***************************************************************************)
(* The reads of the JSON-RPC server (crates/rpc/src/lib.rs) on a node that *)
(* goes on executing blocks.  A method that takes the executor's locks     *)
(* more than once is one step per critical section, and the node's steps   *)
(* of module Node come in between.                                         *)
(*                                                                         *)
(* One call is in progress at a time: reads do not disturb each other.     *)
(* A transaction's logs are given; whether it reverts is not modelled.     *)
(***************************************************************************)
EXTENDS Node, Concatenation

CONSTANTS
  LogsOf,   \* per transaction, the logs it emits: address and topics
  Filter    \* eth_getLogs filters: address and topic, each an option

ASSUME LogsAssumption == \A t \in Tx : LogsOf[t] \in Seq(Range(LogsOf[t]))

VARIABLE
  call      \* the call in progress, with what it has read so far

readVars == <<allVars, call>>

NoCall == [method |-> "none"]

Begin(c) == call = NoCall /\ call' = c /\ UNCHANGED allVars

-----------------------------------------------------------------------------
(* Executor::query: an account's nonce, then the height, under the state's *)
(* mutex.  The height is an atomic that on_commit stores without it.       *)

\* Slip: the mutex is released once the nonce is read.
StateNeverHeld == FALSE

\* The mutex of the state is held between the two reads.
StateHeld == call.method = "query" /\ ~call.done

BeginQuery(s) ==
  Begin([method |-> "query", sender |-> s, data |-> accountNonce[s], height |-> 0,
         done |-> FALSE])

EndQuery ==
  /\ call.method = "query" /\ ~call.done
  /\ call' = [call EXCEPT !.height = block_height, !.done = TRUE]
  /\ UNCHANGED allVars

-----------------------------------------------------------------------------
(* eth_getLogs: the height, then the receipts of one block after another   *)

Matches(f, log) ==
  /\ f.address \subseteq {log.address}
  /\ f.topic \subseteq log.topics

\* The logs of receipt r that the filter lets through, each with its index,
\* its transaction and its block.
ReceiptLogs(r, f) ==
  LET logs == LogsOf[r.tx]
  IN  Concat([k \in DOMAIN logs |->
        IF Matches(f, logs[k])
        THEN <<[log |-> logs[k], log_idx |-> k - 1, tx |-> r.tx,
                block_number |-> r.block_number]>>
        ELSE <<>>])

LogsIn(block, f) == Concat([i \in DOMAIN block |-> ReceiptLogs(block[i], f)])

\* Slip: blocks are numbered from 1, so the loop starts there.
FirstIndexOne == 1

FirstIndex == 0

BeginLogs(f) ==
  Begin([method |-> "logs", filter |-> f, height |-> block_height, h |-> FirstIndex,
         logs |-> <<>>])

\* Slip: the loop runs one index too far.
IndexLeftOneMore == call.method = "logs" /\ call.h <= call.height + 1

\* for h in 0..=height
IndexLeft == call.method = "logs" /\ call.h <= call.height

ReadBlock ==
  /\ IndexLeft
  /\ call' = [call EXCEPT !.logs = @ \o LogsIn(get_receipts(call.h), call.filter),
                          !.h = @ + 1]
  /\ UNCHANGED allVars

-----------------------------------------------------------------------------
(* eth_getBlockByNumber: the height by a query, then the receipts at that  *)
(* index                                                                   *)

BeginBlock == Begin([method |-> "block", number |-> block_height, transactions |-> {}])

CountTransactions ==
  /\ call.method = "block" /\ call.transactions = {}
  /\ call' = [call EXCEPT !.transactions = {Len(get_receipts(call.number))}]
  /\ UNCHANGED allVars

-----------------------------------------------------------------------------
\* The call has its answer.
Answered ==
  \/ call.method = "query" /\ call.done
  \/ call.method = "logs" /\ ~IndexLeft
  \/ call.method = "block" /\ call.transactions # {}

Reply == Answered /\ call' = NoCall /\ UNCHANGED allVars

\* Every step of the node but the store of the height takes the state's
\* mutex, submit_tx through nonce_fn.
NodeStep ==
  /\ \/ StoreHeight
     \/ /\ ~StateHeld
        /\ \/ \E t \in Tx : Submit(t)
           \/ CreatePayload
           \/ \E txs \in proposals \cup ForeignBlocks : ExecuteBlock(txs)
           \/ CommitPool
  /\ UNCHANGED call

ReadsInit == NodeInit /\ call = NoCall

ReadsNext ==
  \/ NodeStep
  \/ \E s \in Sender : BeginQuery(s)
  \/ EndQuery
  \/ \E f \in Filter : BeginLogs(f)
  \/ ReadBlock
  \/ BeginBlock
  \/ CountTransactions
  \/ Reply

ReadsSpec == ReadsInit /\ [][ReadsNext]_readVars
-----------------------------------------------------------------------------
(* Properties                                                              *)

\* The type invariant; a call has at most read one block past its height.
ReadsTypeOK ==
  /\ NodeTypeOK
  /\ \/ call = NoCall
     \/ /\ call.method = "query" /\ call.sender \in Sender
        /\ call.data \in Nat /\ call.height \in 0..MaxHeight
     \/ /\ call.method = "logs" /\ call.filter \in Filter
        /\ call.h \in 0..(call.height + 1) /\ call.height \in 0..MaxHeight
     \/ /\ call.method = "block" /\ call.number \in 0..MaxHeight
        /\ call.transactions \subseteq Nat

\* The nonce of sender s after block b: how many of its transactions the
\* blocks up to b have executed.
NonceAfter(s, b) == Cardinality({p \in ReceiptsOf(s) : p[1] <= b})

\* A query never answers with a state older than the height it names: its
\* nonce is the one after that block, or after the next when the answer was
\* read between execute_block and on_commit (Executor::query).
QueryNotStale ==
  call.method = "query" /\ call.done =>
    call.data \in {NonceAfter(call.sender, call.height), NonceAfter(call.sender, call.height + 1)}

\* eth_getLogs answers with every matching log of the blocks up to its
\* height, in the order of execution, and perhaps with those of the block
\* that is not committed yet, although it reads block by block while blocks
\* are executed (eth_getLogs, get_receipts).
LogsComplete ==
  call.method = "logs" /\ Answered =>
    \E b \in {call.height, call.height + 1} :
      /\ b <= Len(receipts)
      /\ call.logs = LogsIn(Concat(SubSeq(receipts, 1, b)), call.filter)

=============================================================================
