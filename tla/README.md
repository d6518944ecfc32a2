# A TLA+ model of nbnet

nbnet runs the EVM as the application of the Hotmint consensus engine. This
directory models the parts of a node that hold state, checks them with TLC on
small instances, and proves the central invariants with TLAPS. Paths below are
relative to the repository.

## 1. The system

| Part | Source | State | Operations that change it |
| --- | --- | --- | --- |
| Transaction pool | `crates/txpool/src/lib.rs` | per sender a `pending` and a `queued` map by nonce, a hash index | `submit_tx`, `collect_payload`, `on_commit` |
| Block executor | `crates/execution/src/executor.rs` | receipts per block, height, four mutexes | `execute_block`, `create_payload`, `on_commit`, `eth_call` |
| World state | `crates/state/src/state.rs` | `CacheDB` in front of vsdb maps, trie, window of block hashes | `from_genesis`, revm's commits, `flush_cache_to_vsdb`, `set_nonce`, `set_balance`, `record_block_hash` |
| Precompiles | `crates/precompile/src/lib.rs` | delegations, beside revm's journal | `transfer`, `delegate`, `unbond` |
| JSON-RPC | `crates/rpc/src/lib.rs` | none of its own | `eth_sendRawTransaction`; the rest reads |
| Transaction rules | `crates/types/src/tx.rs` | none | pure: decode, `validate_tx`, `effective_gas_tip` |
| Node | `crates/node/src/main.rs` | tasks, restored consensus state, block store | start, exit, gossip loop, sync loop, sync responder |
| Engine, network, revm, vsdb | external crates | | appear as the calls they make and answer |

How they interact: the engine's task calls `create_payload`, and for every
decided block `execute_block` and then `on_commit`. RPC tasks and the gossip
loop call `submit_tx`, `validate_tx`, `eth_call` and the reads at any moment in
between. The pool asks the executor for account nonces while it holds its own
mutex; the executor calls the pool while it holds the state. Precompiles run
inside revm, inside `execute_block` or `eth_call`. Before its engine runs, a
node restores its consensus state and catches up from its peers' block stores,
while a task of its own already answers theirs.

What is hard about it, and hard to test: submissions between the two halves of
a commit; proposals that are never decided, or late; blocks with transactions
that are stale, duplicated or refused; mutexes taken in two orders; reads in
several critical sections while blocks execute; state outside revm's journal;
dry runs on the live cache of one replica; transactions that are checked now
and inserted later; stops at any time, peers that fail half-way through a sync,
and answers that arrive after their peer was given up; arithmetic at its
limits. `PROJECT.json` lists each of these at its line under `hazards`.

## 2. The modules

| Module | Models |
| --- | --- |
| `TxPool` | the pool; each operation is one action, as it runs under one mutex |
| `Mempool` | what a pool promises: nothing disappears silently |
| `TxPoolRefinement` | the mapping from the first to the second |
| `Node` | pool and executor together, with engine, RPC and gossip |
| `RpcReads` | the RPC methods that read in several steps, on a node that goes on |
| `Admission` | the transaction rules, and the two ways into the pool, RPC and gossip |
| `NodeStart` | start, sync, sync responder, exit and restart on several nodes |
| `NodeLocks` | the lock and unlock steps of every operation on the four mutexes |
| `Staking` | the precompiles within frames that succeed or revert |
| `EvmState` | cache, vsdb, trie and block hashes on several replicas |
| `Concatenation` | what nested loops that push onto one vector collect |
| `MC*` | the instances TLC checks |
| `FiniteNat`, `*_proofs` | lemmas and proofs |

**TxPool.** A transaction is a record of sender, nonce, effective tip, gas
limit, raw length and a salt for everything else; the record is its own hash. A
`BTreeMap` by nonce is the set of its entries. `SubmitTx` keeps the order of the
code's checks, including that a rejected submission leaves its sender registered.
Promotion is part of `SubmitTx` and `OnCommit`. `CollectPayload` picks any order
the sort by tip allows (the hash map's iteration order breaks ties), and its gas
sum wraps at `U64Max` as it does in a release build. `AdvanceNonces` is the
pool's environment.

**Node** extends `TxPool` and replaces that environment by `ExecuteBlock`, on
the node's own proposals or on `ForeignBlocks`, at any time and repeatedly. The
commit has two steps, as in the code: the height is stored before the state and
the pool are taken. What revm does is a choice of gas used up to the gas limit;
0 stands for a transaction that revm refuses. `BlockRun` is the state of the
loop after each entry of the block, from `BlockStart` on, with one such choice
per entry.

**RpcReads** extends `Node` by one RPC call at a time, with one step per
critical section: `query` (the state's mutex is held, but the height it adds is
an atomic that `on_commit` stores without it), the loop of `eth_getLogs`, and
`eth_getBlockByNumber`. All steps of the node come in between, as far as the
mutex that the call holds lets them. A transaction's logs are a constant; a
block's are the concatenation of its receipts' logs that the filter lets through.

**Admission** extends `TxPool` by decoded transactions (`Envelope`), the rules
of `tx.rs` in the code's widths (fees are cut to a u64 for the tip and not for
the receipt's price; the upfront cost wraps at a U256), and the two ways in.
`SendRawTransaction` applies no rule, and takes a transaction again once it has
left the pool. The gossip task is two steps, `GossipValidate` and `GossipAdd`,
with blocks in between that move nonces and balances. Gossip may lose a
transaction, repeat it and deliver in any order; the task hears `MaxHeard`
transactions in all.

**NodeStart.** `phase` is where `run_node` is: down, waiting for a peer, in the
loop over sync peers, or running the engine. Disk (`pcs`, `store`) survives
`Exit`, memory does not. Requests and answers are separate steps of the
requester and the responder, answers carry no mark of the attempt they belong
to (the channel `sync_resp_rx` is shared), and `SyncFails` may happen at any
point of an attempt: that is the timeout, the lost message and the answer that
does not fit. The engine and `sync_to_tip` are external: the engine decides
one chain, a block being the view it was decided in, commits it height by
height and persists view and height; `sync_to_tip` asks for the status and then
for batches, executes what starts at the next height and stores it.
`executed` is a history: the heights the executor has run since it was built.

**NodeLocks.** Each operation is its sequence of lock steps when it runs to the
end; `execute_block` and `eth_call` are the variants that reach the staking
precompile. The data is left out. Each thread makes at most `MaxCalls` calls;
the code's threads have no such bound (see the fairness below).

**Staking.** `frames` keeps what balances and delegations were when each open
frame began; a revert restores the balances, as revm's journal does, and leaves
the delegations, which the journal does not know. `diverged` records that this
made a difference. A transaction of a block has a sender who signed it, which
the staking address cannot; `eth_call` takes any address as its sender, that one
as well. `callers` are those in whose name a precompile may be called: the
sender and the contracts. The calls that only read are one step, `Query`.

**EvmState.** Replicas execute one decided chain at their own pace. A block is
a set of updates to accounts: read, read a slot, pay, deploy, write a slot. A
root is the trie's leaves, a code is named by its hash (`Codes` are the hashes
there are), each account has one storage slot. A cached account's code is an
option: revm gives an account without code its default bytecode, whose bytes,
`DefaultCode`, are a constant, and `get_code` falls back to vsdb only where the
cache has none. `EthCall` only loads into the cache; it has no other effect
there.

## 3. What TLC checks

| Run | Instance | States | Result |
| --- | --- | --- | --- |
| `txpool` | 2 senders, 8 transactions, limits 2 and 2 | 25,232 | 6 invariants, refinement of `Mempool` |
| `node` | 2 senders, 5 transactions, 3 foreign blocks, 2 blocks, 2 proposals | 58,778 | 6 invariants, one action property |
| `locks_read` | engine and 2 tasks, 3 calls each, no submissions | 92,936 | 2 invariants, one liveness property |
| `reads` | 2 senders, 3 transactions, 3 blocks, 2 filters | 167,821 | 3 invariants |
| `staking` | 2 accounts (symmetric), 1 validator, depth 2 | 182,784 | 2 invariants, one action property |
| `evmstate` | 2 replicas (symmetric), 4 accounts, 3 blocks | 132,909 | 5 invariants |
| `admission` | 2 senders, 6 envelopes, 2 balances, 4 heard over gossip | 17,600 | 3 invariants, one liveness property |
| `start` | a node, a peer that restarts, a peer that never answers; 3 blocks, 3 views | 103,186 | 3 invariants, one liveness property |

What they show:

- **Pool.** The index matches the maps exactly (`HashIndexExact`), promotion
  never overwrites (`OneEntryPerNonce`) and never stops short
  (`NothingLeftToPromote`), a sender is bounded by the two limits together
  (`QueuesBounded`), payloads fit the block's gas while the sum fits a u64
  (`PayloadWithinBlockGas`), and nothing leaves the pool but into a payload, by
  a commit that has passed it, or for a replacement that pays as much
  (`ImplementsMempool`).
- **Node.** Each account's receipts carry the nonces 0, 1, 2, ... once each
  (`ExecutedOnceInOrder`), receipts are found under their hash with the right
  block (`ReceiptsFound`), between blocks the pool holds nothing stale
  (`IdlePoolIsFresh`), gaps among pending nonces come from own proposals only
  (`GapsWereProposed`), own proposals are never cut (`ProposalsNeverCut`), and
  the pool inside the node takes only the steps of module `TxPool`
  (`PoolStepsOnly`), so what is proved there holds here.
- **RPC reads.** A query's nonce belongs to the height it names or to the next
  block, never to an older one (`QueryNotStale`); `eth_getLogs` answers every
  matching log of the blocks it covers once and in order (`LogsComplete`).
- **Admission.** A gossiped transaction in the pool keeps the rules that no
  block can change, though it is not checked again on insertion
  (`GossipKeepsRules`); payloads are in the order of the prices that
  `execute_block` writes into receipts, computed elsewhere and in another width,
  for fees that fit a u64 (`PayloadByPrice`). Once nothing more is submitted, a
  validator's pending transaction leaves the pending map (`PendingLeaves`), with
  two exceptions: the first of its sender came over RPC and no block can hold its
  gas, or a candidate with no lower tip is larger than a payload, where the loop
  of `collect_payload` ends. While submissions go on, higher tips can starve a
  transaction for ever: TLC shows that when the hypothesis is dropped.
- **Start.** From the restored height on every block is executed once and in
  order (`SyncedInOrder`), no node runs in a view below its persisted one or its
  last block's (`StartViewSafe`), and a start ends (`StartsComplete`).
- **Locks.** While no task submits, no threads wait in a circle
  (`NoCircularWait`), whoever holds the pool, the receipts or the staking state
  waits for nothing (`InnermostNeverWaits`: only the state's mutex is held
  across other locks), and every call returns (`CallsReturn`). With submissions
  and commits they fail (see 4).
- **Precompiles.** Delegations are covered by the staking address's balance
  (`Backed`) and a refused call changes nothing (`RefusedChangesNothing`), until
  a frame is undone across a staking call. A dry run in the name of the staking
  address is exempt while it lasts: it can move the locked tokens, after which an
  unbond fails half-way.
- **State.** A read answers the same from cache and vsdb (`CacheCoherent`; an
  account without code may answer revm's default code once it is cached), the
  trie holds what vsdb holds (`TrieMatchesStore`), replicas agree on app hashes
  (`RootsAgree`) while dry runs load existing accounts, the heights in the hash
  window are exact (`HashWindowExact`; the hashes themselves are a placeholder in
  the code). `set_nonce` and `set_balance`, which only tests
  call, run on an account of their own, whose leaf `RootsAgree` leaves out.

Bounds. `MaxPending`, `MaxQueued`: 2 is the least at which a map is full while
promotion moves more than one entry. `MaxNonce` 3 covers the four nonces of one
sender. `MaxBytes` 12 and `MaxGas` 4 make both limits bite. `U64Max` is 65535:
the arithmetic depends only on there being a largest value, and tips and gas
stay below it where no overflow is meant. `MaxHeight`, `MaxProposals`: two
proposals and two blocks give an undecided, a late and a repeated decision.
`MaxCalls` 3 lets the engine make one full round. `MaxDepth` 2 is a transaction
and a nested call. `MaxStake` 1 caps what undone frames let a delegation grow
to (2 holds as well, in 5,259,466 states). `HashWindow` 2 stands for 256 and is passed at height 3. `SetValue` is a
balance and nonce that no block produces. In `admission` gas is counted in units of
a transfer's intrinsic gas, a u64 ends at 255 and a U256 at 4095, so that the
envelopes include a fee that is cut, a gas limit above the block's and one below
the intrinsic gas, two that do not fit one block, and one larger than a payload.
`MaxHeard` 4 lets the task hear one transaction again after three others; RPC
submissions are not bounded. In `start` a
batch has 2 of 3 blocks, so a peer can fail between two batches; `MaxStarts` 2 for
the node and its peer gives restarts of both; the third node never starts, so
that its attempt fails or consumes late answers of the other. 3 views let a node
be behind, level and ahead of its tip's view.

Deadlock is checked everywhere but in `node`, `reads` and `start`, where the
bounds on blocks, proposals and starts end every behaviour, and in
`locks_submit`, whose subject is a deadlock. `NodeLocks` has a final step for
finished threads.

Fairness:

- `NodeLocks`: weak fairness of each thread's next step. An OS thread that can
  run does run. `std::sync::Mutex` promises no order, so no strong fairness of
  `Lock` is assumed; with a bounded number of calls per thread a waiting thread
  is not overtaken for ever.
- `Admission`: weak fairness of `CreatePayload` only, on a validator. Leadership
  rotates, so the engine asks every validator for a payload again and again; a
  full node is never asked, and `PendingLeaves` says nothing of it. Blocks,
  commits, gossip and clients owe nothing.
- `NodeStart`: weak fairness of what `run_node` does by itself until the engine
  runs. The wait has a deadline of 15 s and `sync_to_tip` its timeouts. Peers,
  network and engine owe nothing.

## 4. Where code and documentation disagree

Each is a run that TLC refutes, with a quotation in `PROJECT.json`.

| Run | What the code does |
| --- | --- |
| `locks_submit` | `submit_tx` and `on_commit` take two mutexes in opposite orders |
| `staking_revert` | a reverted frame keeps its delegations |
| `evmstate_call` | a dry run of an unknown account changes the replica's next app hash |
| `start_state` | the "persistent" world state is built from genesis on every start, while the height is restored |

The same modules show, without a run of its own:

- `submit_tx` looks for a competitor in one map only, so one (sender, nonce) can
  be both pending and queued; `docs/architecture.md:70` asks for "`(sender,
  nonce)` deduplication".
- After a proposal that is not decided, the next payload starts past the
  account's nonce; the pool's comment promises "nonce continuity per sender".
- `eth_getBlockByNumber` reads the receipts at index `height`, those of the next
  block (`CountTransactions`); `docs/architecture.md:116` says "Block with real
  height and transaction count".
- `from_genesis` sets a contract's code and not its code hash, so the code of a
  genesis allocation is not found (`GenesisInfo`, `db_get_code`).
- Nothing sends to the status channel after the start, so a responder offers
  the height it started with (`Answer`, `sync_status`), and peers sync no further.
- `add_tx` "does full decode + validate + insert" by its comment; `submit_tx`
  validates no rule of `tx.rs`, which is why `GossipKeepsRules` excepts RPC.
- Promotion takes a sender past `max_pending_per_sender` (`QueuesBounded` states
  the bound that holds); below a tip of 10 an equal tip replaces (`Mempool` asks
  for no less, not for more); the payload's gas sum wraps when it passes a u64.
- A staking call under `eth_call` stays recorded, like one in a reverted frame;
  `set_nonce` on a stored account that is not cached makes its balance read 0.

## 5. What is proved

For all values of the constants, under the named assumptions in the modules
and, where a theorem says so, a hypothesis on the constants. TLC checks each of
these properties on the instances of section 3, which satisfy the hypotheses.

| Hypothesis | Says | Why it is needed |
| --- | --- | --- |
| `GasFits` | `MaxGas` plus any gas limit fits a u64 | beyond it `total_gas` wraps, and a payload may exceed the block |
| `TipsFit` | a tip times (100 + bump) fits a u64 | beyond it the threshold saturates, and a lower tip may replace |
| `NoncesFit` | `MaxNonce` is above every nonce | `MaxNonce` is a bound of the model, not of the code |
| `FreshTargets` | `set_nonce`, `set_balance` work outside the genesis | section 4 says what happens otherwise |
| `Apart` | also: dry runs load genesis accounts, blocks leave the setters' accounts alone | run `evmstate_call` |

**Pool** (`TxPool_proofs`; assumptions `TxAssumption`, `LimitAssumption`).
`PoolInvariant`, and from it `PoolTypeOK`, `PoolIndexExact`, `PoolKeyed`,
`PoolPromoted`, `PoolBounded`. None of these invariants is inductive alone. The
bound on pending looks as if promotion could exceed it again and again. It
cannot, because of `NothingLeftToPromote`: with something pending, the next
nonce is never queued, so an operation promotes only right after it has added
the last pending entry, under the limit `MaxPending`, or onto an empty map. That
promotion overwrites nothing needs the maps keyed by nonce, and the maxima need
finite maps, which is why `IndInv` carries both. `PayloadFitsBlock`, under
`GasFits`, is by the last candidate included: the ones before it fit, by the
choice of a least counterexample, and it was admitted with their sum.
`PoolImplementsMempool`, under `TipsFit`, has one lemma per action; a threshold
of 100% or more of a tip, rounded down, is at least that tip.

**Pool and executor** (`Node_proofs`; also `BlockAssumption`). `NodeInvariant`:
`NodeInv` is the pool's invariant with a history, `Hist`: every nonce below an
account's has a receipt, and an account's receipts, in the order of blocks and
of positions, carry increasing nonces below it. A block keeps `Hist` entry by entry: what
holds of `BlockRun` at i - 1 holds at i (`ExecuteTx`), and there is no least
entry at which it fails. From it follow `NodeTypesHold`, `NodeExecutesOnce`,
`NodeFindsReceipts` (one receipt per transaction, so newest and first are the
same), `NodePoolFresh` and `NodeGapsProposed`. `NodeNeverCuts`, under `GasFits`
and for a block gas limit above 0, compares two sums at each position: the gas
used so far is at most the gas limits admitted so far, so an entry that
`collect_payload` admitted by the second is never cut by the first.
`NodePoolSteps`, under `NoncesFit`, shows that a block does to the nonces what
the pool's environment `AdvanceNonces` may do, and `NodeImplementsMempool`, under
`TipsFit`, that the node's pool implements the abstract one.

**RPC reads** (`Node_proofs`). `ReadsInv` adds to `NodeInv` that the height is
the number of executed blocks or one less while a commit is due, and that a
query's nonce is the one after the blocks executed when it took the state's
mutex. `QueriesAreFresh` follows because no block can execute before the
height is read; `ReadsTypesHold` because heights only grow up to the bound.
`LogsAreComplete` (also `LogsAssumption`) rests on `LogsOK`: the loop holds
exactly the logs of the blocks it has read, and only its last index can have been
empty when it was read and be a block since. Appending a block's logs to those
of the blocks before it gives the logs of all of them, because filtering and
concatenating distribute over concatenation (`LogsInTwo`, `OneBlockMore`).

**Precompiles** (`Staking_proofs`; assumption `StakingAssumption`: the staking
address neither signs transactions nor runs code). `StakeInv` says that, as long
as nothing was undone across a staking call, the state and every saved frame are
backed, or the transaction is a dry run in the staking address's name and its
first frame is: that is where its end leads back to, or `diverged` is set. Sums
are by `FiniteNat`'s lemmas on finite sets. From it `StakingTypesHold` (no subtraction
goes below zero), `StakeIsBacked` and `RevertedCallsKeepState`: `unbond` lowers
the delegation first, and the transfer that follows cannot fail.

**Locks** (`NodeLocks_proofs`; assumption `CallsAssumption`). `OwnsWhatItHolds`,
that the owner of a mutex is exactly the thread whose program has taken it, then
`InnermostHoldersRun`, which needs that no submission asks for the state under
the pool's mutex, and `NoDeadlockApart`: if submissions or commits are absent there
is a ranking of the mutexes that every program respects, so no circle of waits,
for any number of tasks and calls.

**Admission** (`Admission_proofs`; also `EnvelopeAssumption`).
`AdmissionTypesHold`, from the pool's invariant and the bound on gossip
(`AdmittedOK`); `GossipRulesHold`, from the invariant `RulesInv` that what has
been checked and not yet added keeps the rules too; and `PayloadPriceOrder`,
from the sort by tip and `TipIsPriceLessBase`, that for fees that fit a u64 the
price is the tip plus the base fee. `AdmissionImplementsMempool`, under `TipsFit`:
with both ways in, the pool still implements the abstract one, a gossiped
transaction that turns out known or passed when it is added being a rejection.

**Start** (`NodeStart_proofs`; assumption `StartAssumption`). `StartViewIsSafe`
and `SyncExecutesInOrder`, both from `StartInv`. Its per-node part says that
disk and answers on the way hold blocks of the chain only (`DiskOK`,
`AnswersOK`), that until the engine runs view and height are the restored ones
and sync stands at a stored block or where it began (`StartingOK`), and that
what was executed is the run of heights from the restored to the reached one
(`ExecutedOK`). `StartViewOK` is the heart: a height reached without a stored
block can only be the restored one, whose view the restored view covers.
`StartTypesHold` needs two more: what sync has reached is a height of the
chain, and a node that is down has executed nothing (`HeightsFit`); requests
name heights, and every answer on the way is a batch of at most `MaxBatch`
blocks (`BatchesFit`).

**World state** (`EvmState_proofs`; assumption `StateAssumption`), for any
replicas, blocks and length of the chain. `HashWindowHolds` needs nothing more.
`TrieFollowsStore` and `CacheIsCoherent`, under `FreshTargets`, follow from
`CacheInv`: a cached entry is what vsdb has, its code is the one its hash names or, for the
hash of no code, the default,
and what the setters stored is cached. `StateTypesHold` adds that the maps hold addresses only and
that no replica is ahead of the chain (`BoundsOK`). `RootsAlwaysAgree`, under `Apart`: its
invariant `RootInv` adds that nothing is cached that is not stored, so a flush
writes what the block changed and nothing else (`FlushIsAfter`), and each root
follows from the one before it and the block. Two replicas then cannot have a
first height at which they differ (`SameRoots`).

`FiniteNat` has what these share: least and greatest elements of sets of
naturals, sums over finite sets, and concatenations. Inductions over data (positions of a block,
heights, sizes of sets) are by a least counterexample (`LeastNat`).

Every invariant and every safety property that a passing run checks is proved.
Only model-checked: `CallsReturn`, `PendingLeaves` and `StartsComplete`, since
liveness under fairness is outside the prover's reach; and the four properties
of section 4, which are false.

## 6. What is not modelled

Signature recovery, decoding, parameter parsing and JSON; the RPC methods that
answer constants; the consensus protocol, the network and vsdb themselves; EVM
bytecode; self-destruct; epochs, certificates and snapshots in the node's start;
genesis and configuration types; cluster and benchmark tools. Nonces are
unbounded naturals.

## 7. Plan

`Backed` with a revert that undoes delegations as well, once the precompiles
write through revm's journal; and the transaction count of
`eth_getBlockByNumber` as an invariant of `RpcReads`, once its index is the
block's.
