------------------------------- MODULE TxPool -------------------------------
(***************************************************************************)
(* The EVM transaction pool (crates/txpool/src/lib.rs).                    *)
(*                                                                         *)
(* Every public operation of EvmTxPool runs under one mutex (`inner`), so  *)
(* each is one atomic action here.  The lock order between that mutex and  *)
(* the executor's is the subject of module NodeLocks.                      *)
(*                                                                         *)
(* A transaction is a record of what the pool looks at: its sender, nonce, *)
(* effective tip, gas limit and raw length; `salt` stands for everything   *)
(* else a signer can vary.  The record doubles as the transaction's hash.  *)
(* A BTreeMap<nonce, PoolEntry> is the set of its entries, whose keys are  *)
(* the entries' nonces.                                                    *)
(***************************************************************************)
EXTENDS Integers, Sequences, FiniteSetsExt

CONSTANTS
  Sender,      \* addresses that sign transactions
  Tx,          \* the transactions that may be submitted
  MaxPending,  \* config.max_pending_per_sender
  MaxQueued,   \* config.max_queued_per_sender
  BumpPct,     \* config.replacement_bump_pct
  MaxBytes,    \* collect_payload's max_bytes
  MaxGas,      \* collect_payload's max_gas, 0 meaning no limit
  U64Max,      \* the largest u64
  MaxNonce     \* bound on the account nonces of the chain

ASSUME TxAssumption ==
  Tx \subseteq [sender : Sender, nonce : Nat, tip : Nat, gas : Nat,
                size : Nat, salt : Nat]

ASSUME LimitAssumption ==
  /\ MaxPending \in Nat /\ MaxQueued \in Nat /\ BumpPct \in Nat
  /\ MaxBytes \in Nat /\ MaxGas \in Nat /\ U64Max \in Nat /\ MaxNonce \in Nat

VARIABLES
  senders,      \* the keys of PoolInner.senders
  pending,      \* per sender, SenderQueue.pending
  queued,       \* per sender, SenderQueue.queued
  by_hash,      \* the keys of PoolInner.by_hash
  accountNonce, \* what nonce_fn answers: the executor's account nonces
  payload       \* what collect_payload returned, <<>> after any other step

poolVars == <<senders, pending, queued, by_hash>>
vars == <<poolVars, accountNonce, payload>>

-----------------------------------------------------------------------------
(* Maps from nonces to entries.                                            *)

Nonces(S) == {t.nonce : t \in S}

At(S, n) == {t \in S : t.nonce = n}

KeyedByNonce(S) == \A t, u \in S : t.nonce = u.nonce => t = u

\* BTreeMap::insert: the entry takes the place of the one with its nonce.
Insert(S, t) == (S \ At(S, t.nonce)) \cup {t}

\* Slip: the range that on_commit cleans ends one nonce early.
StaleButLast(S, n) == {t \in S : t.nonce + 1 < n}

Stale(S, n) == {t \in S : t.nonce < n}

\* BTreeMap::iter().next(): the entry with the smallest nonce.
First(S) == CHOOSE t \in S : \A u \in S : t.nonce <= u.nonce

-----------------------------------------------------------------------------
(* promote_queued_static                                                   *)

\* Slip: promotion starts at the last pending nonce, not past it.
NextNonceAtLast(p, n) == IF p = {} THEN n ELSE Max(Nonces(p))

\* The nonce promotion starts from: one past the last pending one, or the
\* account's nonce when nothing is pending.
NextNonce(p, n) == IF p = {} THEN n ELSE Max(Nonces(p)) + 1

\* Slip: one entry is promoted, not the whole run.
PromotedOnce(p, q, n) == At(q, NextNonce(p, n))

\* The queued entries whose nonces run on from there without a gap.
Promoted(p, q, n) ==
  {t \in q : /\ t.nonce >= NextNonce(p, n)
             /\ \A m \in NextNonce(p, n)..t.nonce : m \in Nonces(q)}

-----------------------------------------------------------------------------
(* submit_tx                                                               *)

SaturatingSub1(n) == IF n = 0 THEN 0 ELSE n - 1

SaturatingMul(a, b) == IF a * b > U64Max THEN U64Max ELSE a * b

\* Slip: a queued predecessor counts as well as a pending one.
IsPendingAfterAny(t) ==
  \/ t.nonce = accountNonce[t.sender]
  \/ SaturatingSub1(t.nonce) \in Nonces(pending[t.sender] \cup queued[t.sender])

\* Whether the transaction goes to the pending map: it has the account's
\* nonce, or the pending map holds its predecessor.
IsPending(t) ==
  \/ t.nonce = accountNonce[t.sender]
  \/ SaturatingSub1(t.nonce) \in Nonces(pending[t.sender])

\* Slip: the bump divides where it should multiply.
MinTipSwapped(old) == SaturatingMul(old.tip, 100) \div (100 + BumpPct)

\* The least tip that replaces an entry.
MinTip(old) == SaturatingMul(old.tip, 100 + BumpPct) \div 100

\* Slip: the capacity check lets one entry too many in.
AcceptsOneMore(target, limit, t) ==
  /\ \A old \in At(target, t.nonce) : t.tip >= MinTip(old)
  /\ At(target, t.nonce) # {} \/ Cardinality(target) <= limit

\* The replacement check, then the capacity check, on the target map.
Accepts(target, limit, t) ==
  /\ \A old \in At(target, t.nonce) : t.tip >= MinTip(old)
  /\ At(target, t.nonce) # {} \/ Cardinality(target) < limit

\* The new maps p and q of the sender, promotion included.
Place(t, p, q) ==
  LET moved == Promoted(p, q, accountNonce[t.sender])
  IN  /\ pending' = [pending EXCEPT ![t.sender] = p \cup moved]
      /\ queued' = [queued EXCEPT ![t.sender] = q \ moved]

\* A transaction that passes the duplicate and the nonce check gets a queue
\* for its sender, even when the checks on that queue then reject it.
SubmitTx(t) ==
  LET p == pending[t.sender]
      q == queued[t.sender]
      target == IF IsPending(t) THEN p ELSE q
      limit == IF IsPending(t) THEN MaxPending ELSE MaxQueued
  IN  /\ t \notin by_hash
      /\ t.nonce >= accountNonce[t.sender]
      /\ senders' = senders \cup {t.sender}
      /\ \/ /\ Accepts(target, limit, t)
            /\ IF IsPending(t) THEN Place(t, Insert(p, t), q)
                               ELSE Place(t, p, Insert(q, t))
            /\ by_hash' = (by_hash \ At(target, t.nonce)) \cup {t}
         \/ /\ ~Accepts(target, limit, t)
            /\ UNCHANGED <<pending, queued, by_hash>>
      /\ payload' = <<>>
      /\ UNCHANGED accountNonce

-----------------------------------------------------------------------------
(* collect_payload                                                         *)

\* The first pending transaction of every sender.
Candidates == {First(pending[s]) : s \in {x \in senders : pending[x] # {}}}

\* The sequences that hold every element of S once.
Listings(S) == Injection(1..Cardinality(S), S)

\* The candidates by decreasing tip; the hash map's iteration order decides
\* between equal tips.
Orders == {o \in Listings(Candidates) :
             \A i, j \in DOMAIN o : i < j => o[i].tip >= o[j].tip}

\* The candidates of inc that stand before position i of the order.
Before(ord, inc, i) == {ord[j] : j \in 1..(i - 1)} \cap inc

\* payload.len(), every entry after a four-byte length.
Bytes(S) == MapThenSumSet(LAMBDA t : 4 + t.size, S)

\* total_gas, a wrapping sum of u64.
Gas(S) == MapThenSumSet(LAMBDA t : t.gas, S) % (U64Max + 1)

\* Slip: the gas check forgets the candidate's own gas.
IncludesUntilFull(ord, inc) ==
  \A i \in DOMAIN ord :
    ord[i] \in inc <=>
      /\ \A j \in 1..i :
           Bytes(Before(ord, inc, j)) + 4 + ord[j].size <= MaxBytes
      /\ MaxGas = 0 \/ Gas(Before(ord, inc, i)) <= MaxGas

\* Slip: the loop ends at a candidate that overflows the gas, too.
IncludesToFirstMisfit(ord, inc) ==
  \A i \in DOMAIN ord :
    ord[i] \in inc <=>
      \A j \in 1..i :
        /\ Bytes(Before(ord, inc, j)) + 4 + ord[j].size <= MaxBytes
        /\ \/ MaxGas = 0
           \/ (Gas(Before(ord, inc, j)) + ord[j].gas) % (U64Max + 1) <= MaxGas

\* inc is what the loop over the order includes: it ends at the first
\* candidate that overflows the bytes and skips one that overflows the gas.
Includes(ord, inc) ==
  \A i \in DOMAIN ord :
    ord[i] \in inc <=>
      /\ \A j \in 1..i :
           Bytes(Before(ord, inc, j)) + 4 + ord[j].size <= MaxBytes
      /\ \/ MaxGas = 0
         \/ (Gas(Before(ord, inc, i)) + ord[i].gas) % (U64Max + 1) <= MaxGas

\* Slip: the four-byte length counts itself, so the entries decode longer.
EncodedLonger(ord, inc) ==
  {[i \in DOMAIN p |-> [p[i] EXCEPT !.size = @ + 4]] : p \in Listings(inc)}

\* The included candidates, in the order's order.
Encoded(ord, inc) ==
  {p \in Listings(inc) : \A i, j \in DOMAIN p : \A k, l \in DOMAIN ord :
                            i < j /\ p[i] = ord[k] /\ p[j] = ord[l] => k < l}

\* The included transactions leave the pool with the proposal.
CollectPayload ==
  \E ord \in Orders, inc \in SUBSET Candidates :
    /\ Includes(ord, inc)
    /\ payload' \in Encoded(ord, inc)
    /\ pending' = [s \in Sender |-> pending[s] \ inc]
    /\ by_hash' = by_hash \ inc
    /\ UNCHANGED <<senders, queued, accountNonce>>

-----------------------------------------------------------------------------
(* on_commit                                                               *)

\* Slip: the loop over the queued map forgets to collect the hashes.
StaleHashesPending(s) == Stale(pending[s], accountNonce[s])

\* hashes_to_remove, as far as the sender's two maps contribute to it.
StaleHashes(s) == Stale(pending[s] \cup queued[s], accountNonce[s])

\* For every known sender: drop what the account's nonce has passed, promote
\* what it has reached, and forget a sender whose maps are empty.
OnCommit ==
  LET p(s) == pending[s] \ Stale(pending[s], accountNonce[s])
      q(s) == queued[s] \ Stale(queued[s], accountNonce[s])
      moved(s) == Promoted(p(s), q(s), accountNonce[s])
  IN  /\ pending' = [s \in Sender |-> IF s \in senders THEN p(s) \cup moved(s)
                                                       ELSE pending[s]]
      /\ queued' = [s \in Sender |-> IF s \in senders THEN q(s) \ moved(s)
                                                      ELSE queued[s]]
      /\ by_hash' = by_hash \ UNION {StaleHashes(s) : s \in senders}
      /\ senders' = {s \in senders : pending'[s] \cup queued'[s] # {}}
      /\ payload' = <<>>
      /\ UNCHANGED accountNonce

-----------------------------------------------------------------------------
Init ==
  /\ senders = {}
  /\ pending = [s \in Sender |-> {}]
  /\ queued = [s \in Sender |-> {}]
  /\ by_hash = {}
  /\ accountNonce = [s \in Sender |-> 0]
  /\ payload = <<>>

\* The pool's environment: execute_block, on a block of any proposer, moves
\* account nonces forward while it holds the executor's state.
AdvanceNonces ==
  /\ accountNonce' \in [Sender -> 0..MaxNonce]
  /\ \A s \in Sender : accountNonce'[s] >= accountNonce[s]
  /\ payload' = <<>>
  /\ UNCHANGED poolVars

Next ==
  \/ \E t \in Tx : SubmitTx(t)
  \/ CollectPayload
  \/ OnCommit
  \/ AdvanceNonces

Spec == Init /\ [][Next]_vars
-----------------------------------------------------------------------------
(* Properties                                                              *)

\* The type invariant of the pool's maps, its index and its environment.
TypeOK ==
  /\ senders \subseteq Sender
  /\ pending \in [Sender -> SUBSET Tx]
  /\ queued \in [Sender -> SUBSET Tx]
  /\ by_hash \subseteq Tx
  /\ accountNonce \in [Sender -> Nat]
  /\ payload \in Seq(Tx)

\* The hash index and the per-sender maps never drift apart: a hash is known
\* exactly when one map of its own sender holds the transaction, never two,
\* and that sender's queue is registered, so collect_payload and on_commit
\* visit it.  submit_tx, collect_payload and on_commit maintain the index
\* by hand, apart from the maps.
HashIndexExact ==
  /\ by_hash = UNION {pending[s] \cup queued[s] : s \in Sender}
  /\ \A s \in Sender :
       /\ pending[s] \cap queued[s] = {}
       /\ \A t \in pending[s] \cup queued[s] : t.sender = s
       /\ pending[s] \cup queued[s] # {} => s \in senders

\* Promotion never lands on a nonce that is already pending: were it to, the
\* BTreeMap insert of promote_queued_static would drop an entry whose hash
\* stays known.
OneEntryPerNonce ==
  \A s \in Sender : KeyedByNonce(pending[s]) /\ KeyedByNonce(queued[s])

\* The successor of the last pending nonce is never queued, whatever order
\* submissions, proposals and commits come in: a run of nonces is promoted
\* as far as it goes when it forms.
NothingLeftToPromote ==
  \A s \in Sender :
    pending[s] # {} => Max(Nonces(pending[s])) + 1 \notin Nonces(queued[s])

\* What the per-sender limits really guarantee.  Promotion checks no limit,
\* so a queue of max_queued_per_sender can join max_pending_per_sender
\* pending transactions, but never more.
QueuesBounded ==
  \A s \in Sender :
    /\ Cardinality(queued[s]) <= MaxQueued
    /\ Cardinality(pending[s]) <= MaxPending + MaxQueued

\* No candidate's gas limit makes total_gas wrap while the block gas limit
\* has been kept so far.
GasFits == \A t \in Tx : MaxGas + t.gas <= U64Max

\* The gas limits of a payload's transactions add up to no more than the
\* block gas limit that create_payload asks for.  It holds while GasFits;
\* otherwise total_gas, a u64, wraps (collect_payload).
PayloadWithinBlockGas ==
  MaxGas > 0 => MapThenSumSet(LAMBDA t : t.gas, Range(payload)) <= MaxGas

=============================================================================
