------------------------------ MODULE Admission ------------------------------
(***************************************************************************)
(* How transactions come into the pool of module TxPool: the rules of      *)
(* crates/types/src/tx.rs, the RPC method eth_sendRawTransaction, which    *)
(* submits without them, and the gossip task of crates/node/src/main.rs,   *)
(* which first validates a transaction and then, in a second step, adds    *)
(* it.  Blocks may execute between the two.                                *)
(*                                                                         *)
(* An envelope is a decoded transaction; the pool's transaction is what    *)
(* the pool keeps of it.  An Option is a set of at most one element.       *)
(***************************************************************************)
EXTENDS TxPool

CONSTANTS
  Envelope,      \* the signed transactions that may arrive
  CHAIN_ID,      \* config.chain_id
  BaseFee,       \* config.base_fee_per_gas
  CallGas,       \* the 21_000 of intrinsic_gas
  CreateGas,     \* its 53_000
  ZeroGas,       \* its 4 for a zero byte
  NonzeroGas,    \* its 16 for any other
  U256Max,       \* the largest U256
  Balances,      \* the account balances that may occur together
  RpcTx,         \* the transactions that clients send to this node
  MaxHeard       \* bound on how many transactions gossip delivers

VARIABLES
  balance,       \* the executor's account balances
  checked,       \* what the gossip task has validated and not yet added
  heard,         \* how many transactions the gossip task has received
  raw            \* what eth_sendRawTransaction has submitted

admissionVars == <<balance, checked, heard, raw>>
allVars == <<vars, admissionVars>>

-----------------------------------------------------------------------------
(* The rules of tx.rs                                                      *)

Lesser(a, b) == IF a <= b THEN a ELSE b

Greater(a, b) == IF a >= b THEN a ELSE b

SaturatingSub(a, b) == IF a >= b THEN a - b ELSE 0

\* unwrap_or(0)
OrZero(option) == IF option = {} THEN 0 ELSE CHOOSE x \in option : TRUE

\* A sum of u64, saturating; so is the fold over the input's bytes.
intrinsic_gas(e) ==
  Lesser((IF e.to = {} THEN CreateGas ELSE CallGas)
           + ZeroGas * e.zeros + NonzeroGas * e.nonzeros, U64Max)

\* Slip: the cap on the priority fee is forgotten.
effective_gas_tip_uncapped(e) ==
  SaturatingSub(e.max_fee % (U64Max + 1), BaseFee)

\* Both fees are u128 and cut to a u64.
effective_gas_tip(e) ==
  Lesser(SaturatingSub(e.max_fee % (U64Max + 1), BaseFee),
         OrZero(e.max_priority) % (U64Max + 1))

\* execute_block's own computation, for the receipt, in u128.
effective_gas_price(e) ==
  BaseFee + Lesser(SaturatingSub(e.max_fee, BaseFee), OrZero(e.max_priority))

\* The most a transaction may cost: a U256 product and sum, which wrap.
Upfront(e) ==
  (e.gas_limit * Greater(e.max_fee, BaseFee) + e.value) % (U256Max + 1)

\* Slip: the intrinsic gas is not asked for.
WellFormedAnyIntrinsic(e) ==
  e.chain_id \subseteq {CHAIN_ID} /\ e.gas_limit <= MaxGas

\* The checks of validate_tx that no block can change.
WellFormed(e) ==
  /\ e.chain_id \subseteq {CHAIN_ID}
  /\ e.gas_limit <= MaxGas
  /\ e.gas_limit >= intrinsic_gas(e)

validate_tx(e, account_nonce, account_balance) ==
  /\ WellFormed(e)
  /\ e.nonce >= account_nonce
  /\ Upfront(e) <= account_balance

\* What submit_tx keeps of an envelope.
PoolEntry(e) ==
  [sender |-> e.sender, nonce |-> e.nonce, tip |-> effective_gas_tip(e),
   gas |-> e.gas_limit, size |-> e.size, salt |-> e.salt]

EnvelopeOf(t) == CHOOSE e \in Envelope : PoolEntry(e) = t

ASSUME EnvelopeAssumption ==
  /\ Tx = {PoolEntry(e) : e \in Envelope}
  /\ \A e, f \in Envelope : PoolEntry(e) = PoolEntry(f) => e = f
  /\ \A e \in Envelope : e.max_fee \in Nat /\ OrZero(e.max_priority) \in Nat
  /\ BaseFee \in Nat /\ RpcTx \subseteq Tx /\ MaxHeard \in Nat

-----------------------------------------------------------------------------
(* The ways into the pool                                                  *)

\* eth_sendRawTransaction; the broadcast to other nodes is theirs to hear.  A
\* transaction that has left the pool may be sent again.
SendRawTransaction(t) ==
  /\ SubmitTx(t)
  /\ raw' = raw \cup {t}
  /\ UNCHANGED <<balance, checked, heard>>

\* Slip: the task does not wait for add_tx.
GossipReadyAlways == TRUE

\* The task takes a transaction when it is done with the last.
GossipReady == checked = {}

\* recv and validate_tx, which locks the executor's state for its reads.
\* The network loses, repeats and reorders transactions, so any of them may
\* be the next one received.
GossipValidate(t) ==
  /\ GossipReady
  /\ heard < MaxHeard
  /\ heard' = heard + 1
  /\ \/ /\ validate_tx(EnvelopeOf(t), accountNonce[t.sender], balance[t.sender])
        /\ checked' = checked \cup {t}
     \/ /\ ~validate_tx(EnvelopeOf(t), accountNonce[t.sender], balance[t.sender])
        /\ UNCHANGED checked
  /\ payload' = <<>>
  /\ UNCHANGED <<poolVars, accountNonce, balance, raw>>

\* add_tx: submit_tx, whose answer the task ignores.
GossipAdd ==
  \E t \in checked :
    /\ \/ SubmitTx(t)
       \/ /\ t \in by_hash \/ t.nonce < accountNonce[t.sender]
          /\ payload' = <<>>
          /\ UNCHANGED <<poolVars, accountNonce>>
    /\ checked' = checked \ {t}
    /\ UNCHANGED <<balance, heard, raw>>

-----------------------------------------------------------------------------
(* The engine's steps                                                      *)

CreatePayload == CollectPayload /\ UNCHANGED admissionVars

CommitPool == OnCommit /\ UNCHANGED admissionVars

\* A block moves nonces forward and balances either way.
ExecuteBlock ==
  /\ AdvanceNonces
  /\ balance' \in Balances
  /\ UNCHANGED <<checked, heard, raw>>

AdmissionInit ==
  /\ Init
  /\ balance \in Balances
  /\ checked = {}
  /\ heard = 0
  /\ raw = {}

AdmissionNext ==
  \/ \E t \in RpcTx : SendRawTransaction(t)
  \/ \E t \in Tx : GossipValidate(t)
  \/ GossipAdd
  \/ CreatePayload
  \/ ExecuteBlock
  \/ CommitPool

AdmissionSpec == AdmissionInit /\ [][AdmissionNext]_allVars

\* The node is a validator: leadership rotates, and the engine asks it for a
\* payload again and again.  A full node is never asked.
FairAdmissionSpec == AdmissionSpec /\ WF_allVars(CreatePayload)
-----------------------------------------------------------------------------
(* Properties                                                              *)

\* The type invariant; the gossip task has one transaction in hand at most.
AdmissionTypeOK ==
  /\ TypeOK
  /\ balance \in Balances
  /\ checked \in {{}} \cup {{t} : t \in Tx}
  /\ heard \in 0..MaxHeard
  /\ raw \subseteq Tx

\* A pooled transaction that did not come in over RPC is of this chain and
\* its gas limit lies between its intrinsic gas and the block's limit,
\* although the gossip task's add_tx, which submits to the pool, checks
\* none of that again (validate_tx, submit_tx, promote_queued_static).
GossipKeepsRules ==
  \A t \in by_hash \ raw :
    LET e == EnvelopeOf(t)
    IN  /\ e.chain_id \subseteq {CHAIN_ID}
        /\ intrinsic_gas(e) <= e.gas_limit /\ e.gas_limit <= MaxGas

\* No fee of the envelope is cut in effective_gas_tip.
FeesFit(e) == e.max_fee <= U64Max /\ OrZero(e.max_priority) <= U64Max

\* The order in which collect_payload offers transactions is that of the
\* prices their receipts will show, which execute_block computes on its own
\* and in another width: among fees that fit a u64 the dearer comes first.
PayloadByPrice ==
  \A i, j \in DOMAIN payload :
    LET e == EnvelopeOf(payload[i])
        f == EnvelopeOf(payload[j])
    IN  i < j /\ FeesFit(e) /\ FeesFit(f)
          => effective_gas_price(e) >= effective_gas_price(f)

\* What keeps pending transaction t from being proposed for as long as it is
\* there: the first of its sender, if no block can hold it, which only RPC
\* lets in; or a candidate with no lower tip that is larger than a payload,
\* which nothing refuses and at which collect_payload ends its loop.
Blocked(t) ==
  LET first == First(pending[t.sender])
  IN  \/ first \in raw /\ MaxGas > 0 /\ first.gas > MaxGas
      \/ \E u \in Candidates : u.tip >= first.tip /\ 4 + u.size > MaxBytes

\* A step that may put a transaction into the pool.
Submission == (\E t \in RpcTx : SendRawTransaction(t)) \/ GossipAdd

\* Once nothing more is submitted, a validator's pending transaction does not
\* stay pending: it is proposed, replaced or overtaken by the chain, though
\* collect_payload takes only the first of each sender and passes over those
\* that do not fit after others with higher tips.  The exceptions are those
\* of Blocked.  While submissions go on, higher tips may starve it for ever.
PendingLeaves ==
  <>[][~Submission]_allVars =>
    \A t \in Tx : t \in pending[t.sender] ~> (t \notin pending[t.sender] \/ Blocked(t))

=============================================================================
