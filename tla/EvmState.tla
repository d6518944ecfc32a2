------------------------------ MODULE EvmState ------------------------------
(***************************************************************************)
(* The world state of replicas that run the same chain                     *)
(* (crates/state/src/state.rs): revm's CacheDB in front of the vsdb maps,  *)
(* the trie whose root is the app hash, and the window of block hashes.    *)
(*                                                                         *)
(* Every operation runs under the executor's state mutex and is atomic.    *)
(* What revm does in a block is one update per account that the block      *)
(* loads; a dry run loads accounts and updates none.  A root is the trie   *)
(* itself.  A code is named by its hash; "" is the hash of no code.        *)
(***************************************************************************)
EXTENDS Integers, Sequences, FiniteSetsExt

CONSTANTS
  Node,         \* replicas
  Account,      \* addresses
  DefaultCode,  \* the bytes of revm's default Bytecode, which an account without
                \* code is loaded with: none, or a padding
  Genesis,      \* genesis.alloc: balance, nonce, code and slot per address
  Blocks,       \* the blocks that may be decided, see Apply
  CallTargets,  \* addresses that eth_call may load
  SetTargets,   \* addresses that set_nonce and set_balance may be called on
  SetValue,     \* what they set
  HashWindow,   \* how many block hashes stay in memory (256)
  MaxHeight     \* bound on the length of the chain

NoCode == ""

\* What a transaction may do to an account, see Apply.
Updates == {"read", "sload", "pay", "deploy", "sstore"}

ASSUME StateAssumption ==
  /\ DOMAIN Genesis \subseteq Account
  /\ \A a \in DOMAIN Genesis :
       Genesis[a].nonce \in Nat /\ Genesis[a].balance \in Nat /\ Genesis[a].slot \in Nat
  /\ CallTargets \subseteq Account /\ SetTargets \subseteq Account
  /\ \A b \in Blocks : DOMAIN b \subseteq Account /\ \A a \in DOMAIN b : b[a] \in Updates
  /\ SetValue \in Nat /\ HashWindow \in Nat \ {0} /\ MaxHeight \in Nat

VARIABLES
  chain,         \* the decided blocks
  height,        \* per node, how many of them it has executed
  cache,         \* per node, CacheDB.cache.accounts
  accounts,      \* per node, VsdbStateDb.accounts
  contracts,     \* per node, VsdbStateDb.contracts
  storage,       \* per node, VsdbStateDb.storage, one slot per address
  state_trie,    \* per node, EvmState.state_trie
  block_hashes,  \* per node, the keys of EvmState.block_hashes
  db_hashes,     \* per node, the keys of VsdbStateDb.block_hashes
  roots          \* per node, the app hashes execute_block has answered

store == <<accounts, contracts, storage>>
hashes == <<block_hashes, db_hashes>>
vars == <<chain, height, cache, store, state_trie, hashes, roots>>

-----------------------------------------------------------------------------
(* Maps                                                                    *)

\* f with g's entries written over it.
Overwrite(f, g) ==
  [x \in DOMAIN f \cup DOMAIN g |-> IF x \in DOMAIN g THEN g[x] ELSE f[x]]

Lookup(f, x, default) == IF x \in DOMAIN f THEN f[x] ELSE default

-----------------------------------------------------------------------------
(* VsdbStateDb                                                             *)

StoredAccount(nonce, balance, code_hash) ==
  [nonce |-> nonce, balance |-> balance, code_hash |-> code_hash]

from_info(info) == StoredAccount(info.nonce, info.balance, info.code_hash)

EmptyAccount == StoredAccount(0, 0, NoCode)

\* get_account, get_balance, get_nonce: an absent account reads as empty.
Stored(n, a) == Lookup(accounts[n], a, EmptyAccount)

code_by_hash(n, h) == Lookup(contracts[n], h, DefaultCode)

db_get_code(n, a) ==
  IF Stored(n, a).code_hash = NoCode THEN NoCode
  ELSE Lookup(contracts[n], Stored(n, a).code_hash, NoCode)

\* get_storage and storage_ref; the key joins the address and the slot.
db_get_storage(n, a) == Lookup(storage[n], a, 0)

\* insert_account over the entries of infos.  The code goes to contracts
\* under the account's code hash, if there is any.  Entries that share a hash
\* share the code, except under the hash of no code, where nothing looks.
AccountsOf(infos) == [a \in DOMAIN infos |-> from_info(infos[a])]

\* Slip: the code stays in the cache.
CodesNone(infos) == <<>>

CodesOf(infos) ==
  LET coded == {a \in DOMAIN infos : infos[a].code \notin {{}, {NoCode}}}
      CodeOf(a) == CHOOSE c \in infos[a].code : TRUE
  IN  [h \in {infos[a].code_hash : a \in coded} |->
         CodeOf(CHOOSE a \in coded : infos[a].code_hash = h)]

-----------------------------------------------------------------------------
(* CacheDB and EvmState's reads                                            *)

\* The default of revm's AccountInfo, with no slot loaded.  The code is an
\* Option: {} or a singleton.
DefaultEntry ==
  [nonce |-> 0, balance |-> 0, code_hash |-> NoCode, code |-> {DefaultCode}, slot |-> {}]

\* Database::basic: what CacheDB keeps of an account it misses.  An account
\* that vsdb does not have is kept too, as the default one.  to_info leaves
\* the code the default one.
basic(n, a) ==
  LET s == Stored(n, a)
      code == IF s.code_hash = NoCode THEN DefaultCode ELSE code_by_hash(n, s.code_hash)
  IN  [DefaultEntry EXCEPT !.nonce = s.nonce, !.balance = s.balance,
                           !.code_hash = s.code_hash, !.code = {code}]

get_balance(n, a) == Lookup(cache[n], a, Stored(n, a)).balance

get_nonce(n, a) == Lookup(cache[n], a, Stored(n, a)).nonce

get_code(n, a) ==
  IF a \in DOMAIN cache[n] /\ cache[n][a].code # {}
  THEN CHOOSE c \in cache[n][a].code : TRUE
  ELSE db_get_code(n, a)

\* The slots of an account are loaded one by one; slot is {} or a singleton.
get_storage(n, a) ==
  IF a \in DOMAIN cache[n] /\ cache[n][a].slot # {}
  THEN CHOOSE v \in cache[n][a].slot : TRUE
  ELSE db_get_storage(n, a)

-----------------------------------------------------------------------------
(* from_genesis                                                            *)

\* The AccountInfo of an allocation.  Its code is set, its code_hash stays
\* the default's.
GenesisInfo(a) ==
  [DefaultEntry EXCEPT !.nonce = Genesis[a].nonce, !.balance = Genesis[a].balance,
                       !.code = IF Genesis[a].code = NoCode THEN @ ELSE {Genesis[a].code}]

GenesisInfos == [a \in DOMAIN Genesis |-> GenesisInfo(a)]

from_genesis ==
  /\ cache = [n \in Node |-> <<>>]
  /\ accounts = [n \in Node |-> AccountsOf(GenesisInfos)]
  /\ contracts = [n \in Node |-> CodesOf(GenesisInfos)]
  /\ storage = [n \in Node |-> [a \in DOMAIN Genesis |-> Genesis[a].slot]]
  /\ state_trie = [n \in Node |-> AccountsOf(GenesisInfos)]
  /\ block_hashes = [n \in Node |-> {}]
  /\ db_hashes = [n \in Node |-> {}]

Init ==
  /\ from_genesis
  /\ chain = <<>>
  /\ height = [n \in Node |-> 0]
  /\ roots = [n \in Node |-> <<>>]

-----------------------------------------------------------------------------
(* execute_block, as far as it touches the state                           *)

\* Slip: a written slot joins the loaded one.
ApplyBeside(n, a, update) ==
  LET e == Lookup(cache[n], a, basic(n, a))
  IN  CASE update = "read"   -> e
        [] update = "sload"  -> [e EXCEPT !.slot = {get_storage(n, a)}]
        [] update = "pay"    -> [e EXCEPT !.nonce = @ + 1, !.balance = @ + 1]
        [] update = "deploy" -> [e EXCEPT !.code_hash = "code", !.code = {"code"}]
        [] update = "sstore" -> [e EXCEPT !.slot = @ \cup {get_storage(n, a) + 1}]

\* What a block's transactions do to an account they load: nothing, read its
\* slot, pay from it, give it code, write its slot.
Apply(n, a, update) ==
  LET e == Lookup(cache[n], a, basic(n, a))
  IN  CASE update = "read"   -> e
        [] update = "sload"  -> [e EXCEPT !.slot = {get_storage(n, a)}]
        [] update = "pay"    -> [e EXCEPT !.nonce = @ + 1, !.balance = @ + 1]
        [] update = "deploy" -> [e EXCEPT !.code_hash = "code", !.code = {"code"}]
        [] update = "sstore" -> [e EXCEPT !.slot = {get_storage(n, a) + 1}]

\* Slip: the oldest hash is dropped before the window is full.
HashesEarly(S, number) ==
  LET T == S \cup {number}
  IN  IF Cardinality(T) >= HashWindow THEN T \ {Min(T)} ELSE T

\* record_block_hash, in memory: the window of the most recent hashes.
record_block_hash(S, number) ==
  LET T == S \cup {number}
  IN  IF Cardinality(T) > HashWindow THEN T \ {Min(T)} ELSE T

\* vsdb keeps them all; BLOCKHASH is answered from there (block_hash_ref).
insert_block_hash(S, number) == S \cup {number}

\* The slots that insert_storage writes: every loaded one.
SlotsOf(entries) ==
  LET loaded == {a \in DOMAIN entries : entries[a].slot # {}}
  IN  [a \in loaded |-> CHOOSE v \in entries[a].slot : TRUE]

\* Slip: a leaf that is there already is kept.
insert_new(trie, entries) == Overwrite(AccountsOf(entries), trie)

\* MptCalc::insert over the entries; a leaf is the stored account.
insert(trie, entries) == Overwrite(trie, AccountsOf(entries))

\* flush_cache_to_vsdb: every cached account, loaded or written, goes to the
\* maps and to the trie.
Flush(n, entries) ==
  /\ accounts' = [accounts EXCEPT ![n] = Overwrite(@, AccountsOf(entries))]
  /\ contracts' = [contracts EXCEPT ![n] = Overwrite(@, CodesOf(entries))]
  /\ storage' = [storage EXCEPT ![n] = Overwrite(@, SlotsOf(entries))]
  /\ state_trie' = [state_trie EXCEPT ![n] = insert(@, entries)]

ExecuteBlock(n) ==
  /\ height[n] < Len(chain)
  /\ LET block == chain[height[n] + 1]
         entries == Overwrite(cache[n], [a \in DOMAIN block |-> Apply(n, a, block[a])])
     IN  /\ cache' = [cache EXCEPT ![n] = entries]
         /\ Flush(n, entries)
  /\ height' = [height EXCEPT ![n] = @ + 1]
  /\ block_hashes' = [block_hashes EXCEPT ![n] = record_block_hash(@, height[n])]
  /\ db_hashes' = [db_hashes EXCEPT ![n] = insert_block_hash(@, height[n])]
  /\ roots' = [roots EXCEPT ![n] = Append(@, state_trie'[n])]
  /\ UNCHANGED chain

\* The engine decides a block.
Decide ==
  /\ Len(chain) < MaxHeight
  /\ \E b \in Blocks : chain' = Append(chain, b)
  /\ UNCHANGED <<height, cache, store, state_trie, hashes, roots>>

-----------------------------------------------------------------------------
(* Operations between blocks                                               *)

\* Slip: the dry run commits.
EthCallCommits(n, a) ==
  /\ cache' = [cache EXCEPT ![n] = Overwrite(@, [x \in {a} |-> Apply(n, a, "pay")])]
  /\ UNCHANGED <<chain, height, store, state_trie, hashes, roots>>

\* eth_call runs on the live CacheDB: it commits nothing, but what it loads
\* stays.
EthCall(n, a) ==
  /\ \E update \in {"read", "sload"} :
       cache' = [cache EXCEPT ![n] = Overwrite(@, [x \in {a} |-> Apply(n, a, update)])]
  /\ UNCHANGED <<chain, height, store, state_trie, hashes, roots>>

\* set_nonce and set_balance: cache, vsdb and trie.  An account that is not
\* cached enters the cache as the default one.
SetAccount(n, a, entry, stored) ==
  /\ cache' = [cache EXCEPT ![n] = Overwrite(@, [x \in {a} |-> entry])]
  /\ accounts' = [accounts EXCEPT ![n] = Overwrite(@, [x \in {a} |-> stored])]
  /\ state_trie' = [state_trie EXCEPT ![n] = insert(@, [x \in {a} |-> entry])]
  /\ UNCHANGED <<chain, height, contracts, storage, hashes, roots>>

set_nonce(n, a, nonce) ==
  SetAccount(n, a, [Lookup(cache[n], a, DefaultEntry) EXCEPT !.nonce = nonce],
                   [Stored(n, a) EXCEPT !.nonce = nonce])

set_balance(n, a, balance) ==
  SetAccount(n, a, [Lookup(cache[n], a, DefaultEntry) EXCEPT !.balance = balance],
                   [Stored(n, a) EXCEPT !.balance = balance])

Next ==
  \/ Decide
  \/ \E n \in Node : ExecuteBlock(n)
  \/ \E n \in Node, a \in CallTargets : EthCall(n, a)
  \/ \E n \in Node, a \in SetTargets : set_nonce(n, a, SetValue) \/ set_balance(n, a, SetValue)

Spec == Init /\ [][Next]_vars
-----------------------------------------------------------------------------
(* Properties                                                              *)

\* No code, and the code that a block deploys.
Codes == {"", "code"}

Entry == [nonce : Nat, balance : Nat, code_hash : Codes,
          code : SUBSET (Codes \cup {DefaultCode}), slot : SUBSET Nat]
Leaf == [nonce : Nat, balance : Nat, code_hash : Codes]

TypeOK ==
  /\ \A n \in Node :
       /\ DOMAIN cache[n] \subseteq Account /\ DOMAIN accounts[n] \subseteq Account
       /\ \A a \in DOMAIN cache[n] :
            cache[n][a] \in Entry /\ Cardinality(cache[n][a].slot) <= 1
       /\ \A a \in DOMAIN accounts[n] : accounts[n][a] \in Leaf
       /\ \A a \in DOMAIN state_trie[n] : state_trie[n][a] \in Leaf
  /\ height \in [Node -> 0..MaxHeight]

\* Between operations a read answers the same through the cache and from
\* vsdb, for nonces, balances, code and storage: the flush after a block
\* leaves nothing behind, whatever dry runs have loaded in between.  An
\* account without code may answer revm's default code once it is cached.
CacheCoherent ==
  \A n \in Node, a \in Account :
    /\ get_nonce(n, a) = Stored(n, a).nonce
    /\ get_balance(n, a) = Stored(n, a).balance
    /\ \/ get_code(n, a) = db_get_code(n, a)
       \/ Stored(n, a).code_hash = NoCode /\ get_code(n, a) = DefaultCode
    /\ get_storage(n, a) = db_get_storage(n, a)

\* The trie, which is built leaf by leaf and never rebuilt, holds exactly the
\* accounts that vsdb holds (flush_cache_to_vsdb, set_nonce, set_balance).
TrieMatchesStore == state_trie = accounts

\* The leaves of a root, without those that set_nonce and set_balance may
\* have changed on one replica only.
ChainLeaves(root) == {<<a, root[a]>> : a \in DOMAIN root \ SetTargets}

\* Replicas that have executed the same blocks have answered the same app
\* hashes, though dry runs went to one of them only ("deterministic MPT root
\* computation after each block", README of the state).  It needs dry runs
\* that load existing accounts only.
RootsAgree ==
  \A n, m \in Node : \A h \in 1..height[n] :
    h <= height[m] => ChainLeaves(roots[n][h]) = ChainLeaves(roots[m][h])

\* The hashes of the most recent blocks stay in memory, no more than the
\* window of them, and vsdb has an entry for every block before the one that
\* executes, where BLOCKHASH looks (record_block_hash, block_hash_ref).  What
\* is recorded is not told apart: execute_block passes a placeholder.
HashWindowExact ==
  \A n \in Node :
    /\ block_hashes[n] = {h \in 0..(height[n] - 1) : h >= height[n] - HashWindow}
    /\ db_hashes[n] = 0..(height[n] - 1)

=============================================================================
