-------------------------- MODULE EvmState_proofs --------------------------
(***************************************************************************)
(* Proofs about the world state, for any replicas, accounts and blocks and *)
(* a chain of any length.                                                  *)
(***************************************************************************)
EXTENDS EvmState, FiniteNat, SequenceTheorems

-----------------------------------------------------------------------------
(* The window of block hashes                                              *)

Window(h) == {i \in 0..(h - 1) : i >= h - HashWindow}

LEMMA WindowMoves ==
  ASSUME NEW h \in Nat
  PROVE  record_block_hash(Window(h), h) = Window(h + 1)
<1> DEFINE T == Window(h) \cup {h}
           lo == IF h >= HashWindow THEN h - HashWindow ELSE 0
<1>1. HashWindow \in Nat \ {0}
  BY StateAssumption, Zenon
<1>2. lo \in Nat /\ lo <= h
  BY <1>1
<1>3. T = lo..h
  BY <1>1, <1>2 DEF Window
<1>4. Cardinality(T) = h - lo + 1
  <2>1. T = lo..h /\ lo \in Int /\ h \in Int /\ ~(lo > h)
    BY <1>2, <1>3
  <2> HIDE DEF T, lo
  <2> QED
    BY <2>1, FS_Interval, Zenon
<1> HIDE DEF T
<1>5. CASE h >= HashWindow
  <2>1. lo = h - HashWindow
    BY <1>5, Zenon
  <2>2. Min(T) = lo
    <3>1. lo \in T /\ \A y \in T : lo <= y
      BY <1>2, <1>3
    <3>2. \A x \in T : (\A y \in T : x <= y) => x = lo
      BY <1>2, <1>3
    <3> HIDE DEF lo
    <3> QED
      BY <3>1, <3>2, Zenon DEF Min
  <2>3. T \ {lo} = Window(h + 1)
    BY <1>1, <1>2, <1>3, <1>5 DEF Window
  <2> QED
    BY <1>1, <1>4, <2>1, <2>2, <2>3 DEF record_block_hash, T
<1>6. CASE ~(h >= HashWindow)
  <2>1. lo = 0 /\ Cardinality(T) <= HashWindow
    BY <1>1, <1>4, <1>6
  <2>2. T = Window(h + 1)
    BY <1>1, <1>3, <1>6 DEF Window
  <2> QED
    BY <1>1, <1>4, <2>1, <2>2 DEF record_block_hash, T
<1> QED
  BY <1>5, <1>6, Zenon

HashInv ==
  /\ DOMAIN height = Node /\ DOMAIN block_hashes = Node /\ DOMAIN db_hashes = Node
  /\ \A n \in Node :
       /\ height[n] \in Nat
       /\ block_hashes[n] = Window(height[n])
       /\ db_hashes[n] = 0..(height[n] - 1)

\* The window in memory is exact at every height, also when it is full, and
\* vsdb has the hash of every earlier block (record_block_hash,
\* insert_block_hash).
THEOREM HashWindowHolds == Spec => []HashWindowExact
<1>1. Init => HashInv
  BY DEF Init, from_genesis, HashInv, Window
<1>2. HashInv /\ [Next]_vars => HashInv'
  <2> SUFFICES ASSUME HashInv, [Next]_vars PROVE HashInv'
    BY Zenon
  <2>1. ASSUME NEW n \in Node, ExecuteBlock(n) PROVE HashInv'
    <3>1. /\ height' = [height EXCEPT ![n] = height[n] + 1]
          /\ block_hashes' = [block_hashes EXCEPT
                                ![n] = record_block_hash(block_hashes[n], height[n])]
          /\ db_hashes' = [db_hashes EXCEPT ![n] = db_hashes[n] \cup {height[n]}]
      BY <2>1, Zenon DEF ExecuteBlock, insert_block_hash
    <3>2. record_block_hash(block_hashes[n], height[n]) = Window(height[n] + 1)
      BY WindowMoves, Zenon DEF HashInv
    <3>3. db_hashes[n] \cup {height[n]} = 0..height[n]
      BY DEF HashInv
    <3>4. /\ height'[n] = height[n] + 1 /\ block_hashes'[n] = Window(height[n] + 1)
          /\ db_hashes'[n] = 0..height[n]
      BY <3>1, <3>2, <3>3, Zenon DEF HashInv
    <3>5. \A m \in Node \ {n} :
            /\ height'[m] = height[m] /\ block_hashes'[m] = block_hashes[m]
            /\ db_hashes'[m] = db_hashes[m]
      BY <3>1, Zenon DEF HashInv
    <3>6. /\ DOMAIN height' = Node /\ DOMAIN block_hashes' = Node
          /\ DOMAIN db_hashes' = Node
      BY <3>1, Zenon DEF HashInv
    <3>7. \A m \in Node :
            /\ height'[m] \in Nat
            /\ block_hashes'[m] = Window(height'[m])
            /\ db_hashes'[m] = 0..(height'[m] - 1)
      <4> SUFFICES ASSUME NEW m \in Node
                   PROVE  /\ height'[m] \in Nat /\ block_hashes'[m] = Window(height'[m])
                          /\ db_hashes'[m] = 0..(height'[m] - 1)
        BY Zenon
      <4>1. CASE m = n
        <5>1. height[n] \in Nat /\ height[n] + 1 - 1 = height[n]
          BY DEF HashInv
        <5> QED
          BY <3>4, <4>1, <5>1
      <4>2. CASE m # n
        BY <3>5, <4>2, Zenon DEF HashInv
      <4> QED
        BY <4>1, <4>2, Zenon
    <3> QED
      BY <3>6, <3>7, Zenon DEF HashInv, Window
  <2>2. CASE UNCHANGED <<height, hashes>>
    BY <2>2, Zenon DEF HashInv, hashes, Window
  <2>3. CASE UNCHANGED vars
    BY <2>2, <2>3, Zenon DEF vars
  <2> QED
    BY <2>1, <2>2, <2>3, Zenon DEF Next, Decide, EthCall, set_nonce, set_balance, SetAccount
<1>3. HashInv => HashWindowExact
  BY Zenon DEF HashInv, HashWindowExact, Window
<1> QED
  BY <1>1, <1>2, <1>3, PTL DEF Spec

-----------------------------------------------------------------------------
(* Cache, vsdb and trie                                                    *)

\* set_nonce and set_balance work on accounts that the genesis does not have:
\* on an account that vsdb has and the cache has not, they would cache the
\* default account.
FreshTargets == SetTargets \cap DOMAIN Genesis = {}

\* Every map has one part per replica.
Shapes ==
  /\ DOMAIN height = Node /\ DOMAIN cache = Node /\ DOMAIN accounts = Node
  /\ DOMAIN contracts = Node /\ DOMAIN storage = Node /\ DOMAIN state_trie = Node
  /\ DOMAIN roots = Node
  /\ accounts = [n \in Node |-> accounts[n]] /\ state_trie = [n \in Node |-> state_trie[n]]
  /\ chain \in Seq(Blocks) /\ \A n \in Node : height[n] \in Nat

\* The code that goes with a hash, as CacheDB has it.
CodeNamed(h) == {IF h = NoCode THEN DefaultCode ELSE h}

\* The code that blocks deploy is stored.
CodeKept(codes) == "code" \in DOMAIN codes /\ codes["code"] = "code"

\* A cached account is as vsdb has it: a cached code is named by its hash, a
\* loaded slot is the stored one.
EntryOK(n, a) ==
  /\ cache[n][a] \in Entry
  /\ cache[n][a].code = CodeNamed(cache[n][a].code_hash)
  /\ Stored(n, a) = from_info(cache[n][a])
  /\ cache[n][a].slot \in {{}, {db_get_storage(n, a)}}

\* What vsdb and trie hold.
StoreOK(n) ==
  /\ \A a \in DOMAIN accounts[n] : accounts[n][a] \in Leaf
  /\ \A a \in DOMAIN accounts[n] :
       accounts[n][a].code_hash = "code" => CodeKept(contracts[n])
  /\ \A a \in DOMAIN storage[n] : storage[n][a] \in Nat
  /\ state_trie[n] = accounts[n]

\* What set_nonce and set_balance have stored is cached.
CachesOK(n) ==
  /\ StoreOK(n)
  /\ SetTargets \cap DOMAIN accounts[n] \subseteq DOMAIN cache[n]
  /\ \A a \in DOMAIN cache[n] : EntryOK(n, a)

\* The leaf of an account after an update.
LeafAfter(leaf, update) ==
  CASE update = "pay"    -> StoredAccount(leaf.nonce + 1, leaf.balance + 1, leaf.code_hash)
    [] update = "deploy" -> StoredAccount(leaf.nonce, leaf.balance, "code")
    [] OTHER             -> leaf

LEMMA StoredOK ==
  ASSUME NEW n, NEW a, StoreOK(n)
  PROVE  /\ Stored(n, a) \in Leaf
         /\ db_get_storage(n, a) \in Nat
         /\ db_get_code(n, a) = Stored(n, a).code_hash
         /\ Stored(n, a).code_hash # NoCode
              => code_by_hash(n, Stored(n, a).code_hash) = Stored(n, a).code_hash
<1>1. EmptyAccount \in Leaf /\ EmptyAccount.code_hash = ""
  BY Zenon DEF EmptyAccount, StoredAccount, Leaf, Codes, NoCode
<1>2. Stored(n, a) \in Leaf
  BY <1>1, Zenon DEF StoreOK, Stored, Lookup
<1>3. db_get_storage(n, a) \in Nat
  BY Zenon DEF StoreOK, db_get_storage, Lookup
<1>4. CASE Stored(n, a).code_hash = ""
  BY <1>2, <1>3, <1>4, Zenon DEF db_get_code, NoCode
<1>5. CASE Stored(n, a).code_hash = "code"
  <2>1. a \in DOMAIN accounts[n] /\ accounts[n][a].code_hash = "code"
    BY <1>1, <1>5, Zenon DEF Stored, Lookup
  <2>2. CodeKept(contracts[n])
    BY <2>1, Zenon DEF StoreOK
  <2>3. db_get_code(n, a) = "code" /\ code_by_hash(n, "code") = "code"
    BY <1>5, <2>2, Zenon DEF db_get_code, code_by_hash, CodeKept, Lookup, NoCode
  <2> QED
    BY <1>2, <1>3, <1>5, <2>3, Zenon
<1>6. Stored(n, a).code_hash \in {"", "code"}
  BY <1>2, Zenon DEF Leaf, Codes
<1> QED
  BY <1>4, <1>5, <1>6, Zenon

\* Loading an account caches it as vsdb has it.
LEMMA LoadedOK ==
  ASSUME NEW n, NEW a, CachesOK(n)
  PROVE  LET e == Lookup(cache[n], a, basic(n, a))
         IN  /\ e \in Entry /\ e.code = CodeNamed(e.code_hash) /\ from_info(e) = Stored(n, a)
             /\ e.nonce = Stored(n, a).nonce /\ e.balance = Stored(n, a).balance
             /\ e.code_hash = Stored(n, a).code_hash
             /\ e.slot \in {{}, {db_get_storage(n, a)}}
             /\ get_storage(n, a) = db_get_storage(n, a)
<1> DEFINE s == Stored(n, a)
           c == IF s.code_hash = NoCode THEN DefaultCode ELSE code_by_hash(n, s.code_hash)
<1>1. /\ s \in Leaf /\ db_get_storage(n, a) \in Nat
      /\ s.code_hash # NoCode => code_by_hash(n, s.code_hash) = s.code_hash
  BY StoredOK, Zenon DEF CachesOK
<1>2. s.nonce \in Nat /\ s.balance \in Nat /\ s.code_hash \in Codes
      /\ s = [nonce |-> s.nonce, balance |-> s.balance, code_hash |-> s.code_hash]
  BY <1>1, Zenon DEF Leaf
<1>3. CASE a \in DOMAIN cache[n]
  <2> DEFINE e == cache[n][a]
  <2>1. Lookup(cache[n], a, basic(n, a)) = e
    BY <1>3, Zenon DEF Lookup
  <2>2. /\ e \in Entry /\ e.code = CodeNamed(e.code_hash) /\ s = from_info(e)
        /\ e.slot \in {{}, {db_get_storage(n, a)}}
    BY <1>3, Zenon DEF CachesOK, EntryOK
  <2>3. e.nonce = s.nonce /\ e.balance = s.balance /\ e.code_hash = s.code_hash
    BY <2>2 DEF from_info, StoredAccount
  <2>4. get_storage(n, a) = db_get_storage(n, a)
    BY <1>3, <2>2, Zenon DEF get_storage
  <2> QED
    BY <2>1, <2>2, <2>3, <2>4, Zenon
<1>4. CASE a \notin DOMAIN cache[n]
  <2> DEFINE e == basic(n, a)
  <2>1. Lookup(cache[n], a, basic(n, a)) = e
    BY <1>4, Zenon DEF Lookup
  <2>2. e = [DefaultEntry EXCEPT !.nonce = s.nonce, !.balance = s.balance,
                                 !.code_hash = s.code_hash, !.code = {c}]
    BY Zenon DEF basic
  <2>d. {c} = CodeNamed(s.code_hash) /\ {c} \in SUBSET (Codes \cup {DefaultCode})
    BY <1>1, <1>2, Zenon DEF CodeNamed
  <2> HIDE DEF s, e, c
  <2>a. DefaultEntry \in Entry /\ DefaultEntry.slot = {}
    BY Zenon DEF DefaultEntry, Entry, Codes, NoCode
  <2>b. /\ e.nonce = s.nonce /\ e.balance = s.balance /\ e.code_hash = s.code_hash
        /\ e.code = {c} /\ e.slot = {}
    BY <2>2, <2>a, Zenon DEF Entry
  <2>c. e \in Entry
    BY <1>2, <2>2, <2>a, <2>d, ZenonT(40) DEF Entry
  <2>3. /\ e \in Entry /\ e.code = CodeNamed(e.code_hash) /\ e.slot = {}
        /\ e.nonce = s.nonce /\ e.balance = s.balance /\ e.code_hash = s.code_hash
    BY <2>b, <2>c, <2>d, Zenon
  <2>4. from_info(e) = s
    BY <1>2, <2>3, Zenon DEF from_info, StoredAccount
  <2>5. get_storage(n, a) = db_get_storage(n, a)
    BY <1>4, Zenon DEF get_storage
  <2> QED
    BY <2>1, <2>3, <2>4, <2>5, Zenon DEF s
<1> QED
  BY <1>3, <1>4, Zenon

LEMMA ApplyOK ==
  ASSUME NEW n, NEW a, CachesOK(n), NEW u \in Updates
  PROVE  /\ Apply(n, a, u) \in Entry
         /\ Apply(n, a, u).code = CodeNamed(Apply(n, a, u).code_hash)
         /\ from_info(Apply(n, a, u)) = LeafAfter(Stored(n, a), u)
         /\ \E v \in Nat : Apply(n, a, u).slot \in {{}, {v}}
         /\ u \in {"read", "sload"} => /\ Apply(n, a, u).slot \in {{}, {db_get_storage(n, a)}}
                                       /\ LeafAfter(Stored(n, a), u) = Stored(n, a)
<1> DEFINE s == Stored(n, a)
           e == Lookup(cache[n], a, basic(n, a))
           g == db_get_storage(n, a)
<1>1. /\ e \in Entry /\ e.code = CodeNamed(e.code_hash) /\ from_info(e) = s
      /\ e.nonce = s.nonce /\ e.balance = s.balance /\ e.code_hash = s.code_hash
      /\ e.slot \in {{}, {g}} /\ get_storage(n, a) = g
  BY LoadedOK, Zenon
<1>2. s \in Leaf /\ g \in Nat
  BY StoredOK, Zenon DEF CachesOK
<1>3. /\ u = "read"   => Apply(n, a, u) = e
      /\ u = "sload"  => Apply(n, a, u) = [e EXCEPT !.slot = {g}]
      /\ u = "pay"    => Apply(n, a, u) = [e EXCEPT !.nonce = e.nonce + 1,
                                                    !.balance = e.balance + 1]
      /\ u = "deploy" => Apply(n, a, u) = [e EXCEPT !.code_hash = "code", !.code = {"code"}]
      /\ u = "sstore" => Apply(n, a, u) = [e EXCEPT !.slot = {g + 1}]
  BY <1>1, Zenon DEF Apply
<1>4. /\ u \in {"read", "sload", "sstore"} => LeafAfter(s, u) = s
      /\ u = "pay" => LeafAfter(s, u) = StoredAccount(s.nonce + 1, s.balance + 1, s.code_hash)
      /\ u = "deploy" => LeafAfter(s, u) = StoredAccount(s.nonce, s.balance, "code")
  BY Zenon DEF LeafAfter
<1> HIDE DEF s, e, g
<1>5. e.nonce \in Nat /\ e.balance \in Nat /\ e.code_hash \in Codes /\ e.code \in SUBSET (Codes \cup {DefaultCode})
      /\ e.slot \in SUBSET Nat
  BY <1>1, Zenon DEF Entry
<1>6. CASE u = "read"
  BY <1>1, <1>2, <1>3, <1>4, <1>6, Zenon DEF s, g
<1>7. CASE u = "sload"
  <2>1. Apply(n, a, u) = [e EXCEPT !.slot = {g}]
    BY <1>3, <1>7, Zenon
  <2>2. /\ Apply(n, a, u) \in Entry /\ Apply(n, a, u).slot = {g}
        /\ Apply(n, a, u).code = e.code /\ Apply(n, a, u).code_hash = e.code_hash
        /\ Apply(n, a, u).nonce = e.nonce /\ Apply(n, a, u).balance = e.balance
    BY <1>1, <1>2, <1>5, <2>1 DEF Entry
  <2>3. from_info(Apply(n, a, u)) = from_info(e)
    BY <2>2, Zenon DEF from_info
  <2> QED
    BY <1>1, <1>2, <1>4, <1>7, <2>2, <2>3, Zenon DEF s, g
<1>8. CASE u = "sstore"
  <2>1. Apply(n, a, u) = [e EXCEPT !.slot = {g + 1}]
    BY <1>3, <1>8, Zenon
  <2>2. /\ Apply(n, a, u) \in Entry /\ Apply(n, a, u).slot = {g + 1}
        /\ Apply(n, a, u).code = e.code /\ Apply(n, a, u).code_hash = e.code_hash
        /\ Apply(n, a, u).nonce = e.nonce /\ Apply(n, a, u).balance = e.balance
    BY <1>1, <1>2, <1>5, <2>1 DEF Entry
  <2>3. from_info(Apply(n, a, u)) = from_info(e) /\ g + 1 \in Nat
    BY <1>2, <2>2 DEF from_info
  <2> QED
    BY <1>1, <1>2, <1>4, <1>8, <2>2, <2>3, Zenon DEF s, g
<1>9. CASE u = "pay"
  <2>1. Apply(n, a, u) = [e EXCEPT !.nonce = e.nonce + 1, !.balance = e.balance + 1]
    BY <1>3, <1>9, Zenon
  <2>2. /\ Apply(n, a, u) \in Entry /\ Apply(n, a, u).slot = e.slot
        /\ Apply(n, a, u).code = e.code /\ Apply(n, a, u).code_hash = e.code_hash
        /\ Apply(n, a, u).nonce = e.nonce + 1 /\ Apply(n, a, u).balance = e.balance + 1
    <3>1. e.nonce + 1 \in Nat /\ e.balance + 1 \in Nat
      BY <1>5
    <3> DEFINE x == e.nonce + 1
               y == e.balance + 1
    <3>2. Apply(n, a, u) = [e EXCEPT !.nonce = x, !.balance = y] /\ x \in Nat /\ y \in Nat
      BY <2>1, <3>1, Zenon
    <3> HIDE DEF x, y
    <3>3. /\ Apply(n, a, u) \in Entry /\ Apply(n, a, u).slot = e.slot
          /\ Apply(n, a, u).code = e.code /\ Apply(n, a, u).code_hash = e.code_hash
          /\ Apply(n, a, u).nonce = x /\ Apply(n, a, u).balance = y
      BY <1>1, <3>2, Zenon DEF Entry
    <3> QED
      BY <3>3, Zenon DEF x, y
  <2>3. from_info(Apply(n, a, u)) = LeafAfter(s, u)
    BY <1>1, <1>4, <1>9, <2>2, Zenon DEF from_info
  <2> QED
    BY <1>1, <1>2, <1>9, <2>2, <2>3, Zenon DEF s, g
<1>10. CASE u = "deploy"
  <2>1. Apply(n, a, u) = [e EXCEPT !.code_hash = "code", !.code = {"code"}]
    BY <1>3, <1>10, Zenon
  <2>2. /\ Apply(n, a, u) \in Entry /\ Apply(n, a, u).slot = e.slot
        /\ Apply(n, a, u).code = {"code"} /\ Apply(n, a, u).code_hash = "code"
        /\ Apply(n, a, u).nonce = e.nonce /\ Apply(n, a, u).balance = e.balance
    BY <1>1, <1>5, <2>1, Zenon DEF Entry, Codes
  <2>3. from_info(Apply(n, a, u)) = LeafAfter(s, u)
    BY <1>1, <1>4, <1>10, <2>2, Zenon DEF from_info
  <2>4. CodeNamed("code") = {"code"}
    BY Zenon DEF CodeNamed, NoCode
  <2> QED
    BY <1>1, <1>2, <1>10, <2>2, <2>3, <2>4, Zenon DEF s, g
<1> QED
  BY <1>6, <1>7, <1>8, <1>9, <1>10, Zenon DEF Updates

-----------------------------------------------------------------------------
(* Steps of one replica                                                    *)

EntriesOK(entries) ==
  \A a \in DOMAIN entries :
    /\ entries[a] \in Entry /\ entries[a].code = CodeNamed(entries[a].code_hash)
    /\ \E v \in Nat : entries[a].slot \in {{}, {v}}

\* The codes of such entries are stored under their hash.
LEMMA CodesOfOK ==
  ASSUME NEW entries, EntriesOK(entries)
  PROVE  /\ \A a \in DOMAIN entries :
              entries[a].code_hash = "code" => "code" \in DOMAIN CodesOf(entries)
         /\ "code" \in DOMAIN CodesOf(entries) => CodesOf(entries)["code"] = "code"
<1> DEFINE coded == {a \in DOMAIN entries : entries[a].code \notin {{}, {NoCode}}}
           pick == CHOOSE a \in coded : entries[a].code_hash = "code"
<1>0. CodeNamed("code") = {"code"}
  BY Zenon DEF CodeNamed, NoCode
<1>1. DOMAIN CodesOf(entries) = {entries[a].code_hash : a \in coded}
  BY Zenon DEF CodesOf
<1>2. ASSUME NEW a \in DOMAIN entries, entries[a].code_hash = "code"
      PROVE  "code" \in DOMAIN CodesOf(entries)
  <2>1. entries[a].code = {"code"}
    BY <1>0, <1>2, Zenon DEF EntriesOK
  <2>2. a \in coded
    BY <2>1, Zenon DEF NoCode
  <2> QED
    BY <1>1, <1>2, <2>2, Zenon
<1>3. ASSUME "code" \in DOMAIN CodesOf(entries)
      PROVE  CodesOf(entries)["code"] = "code"
  <2>1. \E a \in coded : entries[a].code_hash = "code"
    BY <1>1, <1>3, Zenon
  <2>2. pick \in coded /\ entries[pick].code_hash = "code"
    BY <2>1, Zenon
  <2>3. CodesOf(entries)["code"] = CHOOSE c \in entries[pick].code : TRUE
    BY <1>1, <1>3, Zenon DEF CodesOf
  <2>4. entries[pick].code = {"code"}
    BY <1>0, <2>2, Zenon DEF EntriesOK
  <2> QED
    BY <2>3, <2>4, Zenon
<1> QED
  BY <1>2, <1>3, Zenon

\* What a flush of such entries leaves in the maps.
LEMMA FlushOK ==
  ASSUME NEW n, StoreOK(n), NEW entries, EntriesOK(entries)
  PROVE  LET A == Overwrite(accounts[n], AccountsOf(entries))
             C == Overwrite(contracts[n], CodesOf(entries))
             S == Overwrite(storage[n], SlotsOf(entries))
         IN  /\ \A a \in DOMAIN A : A[a] \in Leaf
             /\ \A a \in DOMAIN A : A[a].code_hash = "code" => CodeKept(C)
             /\ \A a \in DOMAIN S : S[a] \in Nat
             /\ \A a \in DOMAIN entries : Lookup(A, a, EmptyAccount) = from_info(entries[a])
             /\ \A a \in DOMAIN entries : entries[a].slot \in {{}, {Lookup(S, a, 0)}}
             /\ DOMAIN A = DOMAIN accounts[n] \cup DOMAIN entries
<1> DEFINE A == Overwrite(accounts[n], AccountsOf(entries))
           C == Overwrite(contracts[n], CodesOf(entries))
           S == Overwrite(storage[n], SlotsOf(entries))
           loaded == {a \in DOMAIN entries : entries[a].slot # {}}
<1>1. /\ DOMAIN A = DOMAIN accounts[n] \cup DOMAIN entries
      /\ \A a \in DOMAIN entries : A[a] = from_info(entries[a])
      /\ \A a \in DOMAIN A \ DOMAIN entries : A[a] = accounts[n][a] /\ a \in DOMAIN accounts[n]
  BY Zenon DEF Overwrite, AccountsOf
<1>2. ASSUME NEW a \in DOMAIN entries
      PROVE  from_info(entries[a]) \in Leaf
             /\ from_info(entries[a]).code_hash = entries[a].code_hash
  <2>1. entries[a].nonce \in Nat /\ entries[a].balance \in Nat /\ entries[a].code_hash \in Codes
    BY Zenon DEF EntriesOK, Entry
  <2> QED
    BY <2>1, Zenon DEF from_info, StoredAccount, Leaf
<1>3. \A a \in DOMAIN A : A[a] \in Leaf
  BY <1>1, <1>2, Zenon DEF StoreOK
<1>4. ASSUME NEW a \in DOMAIN A, A[a].code_hash = "code"
      PROVE  CodeKept(C)
  <2>1. /\ DOMAIN C = DOMAIN contracts[n] \cup DOMAIN CodesOf(entries)
        /\ "code" \in DOMAIN CodesOf(entries) => C["code"] = CodesOf(entries)["code"]
        /\ "code" \in DOMAIN C /\ "code" \notin DOMAIN CodesOf(entries)
             => C["code"] = contracts[n]["code"]
    BY Zenon DEF Overwrite
  <2>2. CASE "code" \in DOMAIN CodesOf(entries)
    BY <2>1, <2>2, CodesOfOK, Zenon DEF CodeKept
  <2>3. CASE "code" \notin DOMAIN CodesOf(entries)
    <3>1. a \notin DOMAIN entries
      BY <1>1, <1>2, <1>4, <2>3, CodesOfOK, Zenon
    <3>2. a \in DOMAIN accounts[n] /\ accounts[n][a].code_hash = "code"
      BY <1>1, <1>4, <3>1, Zenon
    <3>3. CodeKept(contracts[n])
      BY <3>2, Zenon DEF StoreOK
    <3> QED
      BY <2>1, <2>3, <3>3, Zenon DEF CodeKept
  <2> QED
    BY <2>2, <2>3, Zenon
<1>5. /\ DOMAIN S = DOMAIN storage[n] \cup loaded
      /\ \A a \in loaded : S[a] = CHOOSE v \in entries[a].slot : TRUE
      /\ \A a \in DOMAIN S \ loaded : S[a] = storage[n][a] /\ a \in DOMAIN storage[n]
  BY Zenon DEF Overwrite, SlotsOf
<1>6. ASSUME NEW a \in loaded
      PROVE  S[a] \in Nat /\ entries[a].slot = {S[a]}
  <2>1. PICK v \in Nat : entries[a].slot = {v}
    BY Zenon DEF EntriesOK
  <2> QED
    BY <1>5, <2>1, Zenon
<1>7. \A a \in DOMAIN S : S[a] \in Nat
  BY <1>5, <1>6, Zenon DEF StoreOK
<1>8. \A a \in DOMAIN entries : Lookup(A, a, EmptyAccount) = from_info(entries[a])
  BY <1>1, Zenon DEF Lookup
<1>9. \A a \in DOMAIN entries : entries[a].slot \in {{}, {Lookup(S, a, 0)}}
  BY <1>5, <1>6, Zenon DEF Lookup
<1> QED
  BY <1>1, <1>3, <1>4, <1>7, <1>8, <1>9, Zenon

LEMMA OthersOK ==
  ASSUME NEW m, CachesOK(m), cache'[m] = cache[m], accounts'[m] = accounts[m],
         contracts'[m] = contracts[m], storage'[m] = storage[m],
         state_trie'[m] = state_trie[m]
  PROVE  CachesOK(m)'
<1>1. /\ \A a : Stored(m, a)' = Stored(m, a)
      /\ \A a : db_get_storage(m, a)' = db_get_storage(m, a)
  BY Zenon DEF Stored, db_get_storage
<1>2. StoreOK(m)'
  BY <1>1, Zenon DEF CachesOK, StoreOK
<1>3. \A a \in DOMAIN cache[m] : EntryOK(m, a)'
  BY <1>1, Zenon DEF CachesOK, EntryOK
<1> QED
  BY <1>2, <1>3, Zenon DEF CachesOK

CacheInv == Shapes /\ \A n \in Node : CachesOK(n)

\* The entries that a block leaves in the cache.
LEMMA BlockEntriesOK ==
  ASSUME NEW n, CachesOK(n), NEW block, \A a \in DOMAIN block : block[a] \in Updates
  PROVE  EntriesOK(Overwrite(cache[n], [a \in DOMAIN block |-> Apply(n, a, block[a])]))
<1>0. ASSUME NEW a, NEW u \in Updates
      PROVE  /\ Apply(n, a, u) \in Entry
             /\ Apply(n, a, u).code = CodeNamed(Apply(n, a, u).code_hash)
             /\ \E v \in Nat : Apply(n, a, u).slot \in {{}, {v}}
  BY ApplyOK, Zenon
<1> DEFINE entries == Overwrite(cache[n], [a \in DOMAIN block |-> Apply(n, a, block[a])])
<1> SUFFICES ASSUME NEW a \in DOMAIN entries
             PROVE  /\ entries[a] \in Entry /\ entries[a].code = CodeNamed(entries[a].code_hash)
                    /\ \E v \in Nat : entries[a].slot \in {{}, {v}}
  BY Zenon DEF EntriesOK
<1>1. CASE a \in DOMAIN block
  <2>1. entries[a] = Apply(n, a, block[a])
    BY <1>1, Zenon DEF Overwrite
  <2>2. block[a] \in Updates
    BY <1>1, Zenon
  <2>3. /\ Apply(n, a, block[a]) \in Entry
        /\ Apply(n, a, block[a]).code = CodeNamed(Apply(n, a, block[a]).code_hash)
        /\ \E v \in Nat : Apply(n, a, block[a]).slot \in {{}, {v}}
    BY <1>0, <2>2, Zenon
  <2> QED
    BY <2>1, <2>3, Zenon
<1>2. CASE a \notin DOMAIN block
  <2>1. entries[a] = cache[n][a] /\ a \in DOMAIN cache[n]
    BY <1>2, Zenon DEF Overwrite
  <2>2. EntryOK(n, a) /\ db_get_storage(n, a) \in Nat
    BY <2>1, StoredOK, Zenon DEF CachesOK
  <2> QED
    BY <2>1, <2>2, Zenon DEF EntryOK
<1> QED
  BY <1>1, <1>2, Zenon

LEMMA ExecuteKeeps ==
  ASSUME CacheInv, NEW n \in Node, ExecuteBlock(n)
  PROVE  CacheInv'
<1> DEFINE block == chain[height[n] + 1]
           entries == Overwrite(cache[n], [a \in DOMAIN block |-> Apply(n, a, block[a])])
<1>1. block \in Blocks
  <2>1. height[n] \in Nat /\ chain \in Seq(Blocks) /\ height[n] < Len(chain)
    BY Zenon DEF CacheInv, Shapes, ExecuteBlock
  <2> QED
    BY <2>1
<1>2. \A a \in DOMAIN block : block[a] \in Updates
  BY <1>1, StateAssumption, Zenon
<1>3. CachesOK(n) /\ StoreOK(n)
  BY Zenon DEF CacheInv, CachesOK
<1>4. EntriesOK(entries)
  <2> HIDE DEF block
  <2> QED
    BY <1>2, <1>3, BlockEntriesOK, Zenon
<1>5. /\ cache' = [cache EXCEPT ![n] = entries]
      /\ accounts' = [accounts EXCEPT ![n] = Overwrite(accounts[n], AccountsOf(entries))]
      /\ contracts' = [contracts EXCEPT ![n] = Overwrite(contracts[n], CodesOf(entries))]
      /\ storage' = [storage EXCEPT ![n] = Overwrite(storage[n], SlotsOf(entries))]
      /\ state_trie' = [state_trie EXCEPT ![n] = Overwrite(state_trie[n], AccountsOf(entries))]
      /\ height' = [height EXCEPT ![n] = height[n] + 1]
      /\ chain' = chain
      /\ roots' = [roots EXCEPT ![n] = Append(roots[n], state_trie'[n])]
  BY Zenon DEF ExecuteBlock, Flush, insert
<1>6. DOMAIN cache[n] \subseteq DOMAIN entries
  BY Zenon DEF Overwrite
<1> HIDE DEF block, entries
<1>7. Shapes'
  <2> DEFINE A == Overwrite(accounts[n], AccountsOf(entries))
             T == Overwrite(state_trie[n], AccountsOf(entries))
  <2>1. accounts' = [accounts EXCEPT ![n] = A] /\ state_trie' = [state_trie EXCEPT ![n] = T]
    BY <1>5, Zenon
  <2> HIDE DEF A, T
  <2>2. /\ accounts' = [m \in Node |-> accounts'[m]]
        /\ state_trie' = [m \in Node |-> state_trie'[m]]
    BY <2>1, ZenonT(40) DEF CacheInv, Shapes
  <2>3. /\ DOMAIN height' = Node /\ DOMAIN cache' = Node /\ DOMAIN accounts' = Node
        /\ DOMAIN contracts' = Node /\ DOMAIN storage' = Node /\ DOMAIN state_trie' = Node
        /\ DOMAIN roots' = Node
    BY <1>5, Zenon DEF CacheInv, Shapes
  <2>4. chain' \in Seq(Blocks) /\ \A m \in Node : height'[m] \in Nat
    BY <1>5 DEF CacheInv, Shapes
  <2> QED
    BY <2>2, <2>3, <2>4, Zenon DEF Shapes
<1>8. CachesOK(n)'
  <2>1. /\ cache'[n] = entries
        /\ accounts'[n] = Overwrite(accounts[n], AccountsOf(entries))
        /\ contracts'[n] = Overwrite(contracts[n], CodesOf(entries))
        /\ storage'[n] = Overwrite(storage[n], SlotsOf(entries))
        /\ state_trie'[n] = accounts'[n]
    BY <1>3, <1>5, Zenon DEF CacheInv, Shapes, StoreOK
  <2> DEFINE A == Overwrite(accounts[n], AccountsOf(entries))
             C == Overwrite(contracts[n], CodesOf(entries))
             S == Overwrite(storage[n], SlotsOf(entries))
  <2>2. /\ \A a \in DOMAIN A : A[a] \in Leaf
        /\ \A a \in DOMAIN A : A[a].code_hash = "code" => CodeKept(C)
        /\ \A a \in DOMAIN S : S[a] \in Nat
        /\ \A a \in DOMAIN entries : Lookup(A, a, EmptyAccount) = from_info(entries[a])
        /\ \A a \in DOMAIN entries : entries[a].slot \in {{}, {Lookup(S, a, 0)}}
        /\ DOMAIN A = DOMAIN accounts[n] \cup DOMAIN entries
    BY <1>3, <1>4, FlushOK, Zenon
  <2>3. accounts'[n] = A /\ contracts'[n] = C /\ storage'[n] = S
    BY <2>1, Zenon
  <2> HIDE DEF A, C, S
  <2>4. StoreOK(n)'
    BY <2>1, <2>2, <2>3, Zenon DEF StoreOK, CodeKept
  <2>5. \A a \in DOMAIN entries : EntryOK(n, a)'
    BY <1>4, <2>1, <2>2, <2>3, Zenon DEF EntriesOK, EntryOK, Stored, db_get_storage
  <2>6. SetTargets \cap DOMAIN accounts'[n] \subseteq DOMAIN cache'[n]
    BY <1>3, <1>6, <2>1, <2>2, <2>3, Zenon DEF CachesOK
  <2> QED
    BY <2>1, <2>4, <2>5, <2>6, Zenon DEF CachesOK
<1>9. ASSUME NEW m \in Node, m # n PROVE CachesOK(m)'
  <2>1. /\ cache'[m] = cache[m] /\ accounts'[m] = accounts[m]
        /\ contracts'[m] = contracts[m] /\ storage'[m] = storage[m]
        /\ state_trie'[m] = state_trie[m]
    BY <1>5, <1>9, Zenon DEF CacheInv, Shapes
  <2> QED
    BY <2>1, OthersOK, Zenon DEF CacheInv
<1> QED
  BY <1>7, <1>8, <1>9, Zenon DEF CacheInv

LEMMA CallKeeps ==
  ASSUME CacheInv, NEW n \in Node, NEW c \in CallTargets, EthCall(n, c)
  PROVE  CacheInv'
<1>1. PICK u \in {"read", "sload"} :
        cache' = [cache EXCEPT ![n] = Overwrite(cache[n], [x \in {c} |-> Apply(n, c, u)])]
  BY Zenon DEF EthCall
<1>2. UNCHANGED <<chain, height, accounts, contracts, storage, state_trie, roots>>
  BY Zenon DEF EthCall, store
<1>3. CachesOK(n)
  BY Zenon DEF CacheInv
<1>4. /\ Apply(n, c, u) \in Entry /\ Apply(n, c, u).code = CodeNamed(Apply(n, c, u).code_hash)
      /\ from_info(Apply(n, c, u)) = Stored(n, c)
      /\ Apply(n, c, u).slot \in {{}, {db_get_storage(n, c)}}
  <2>1. u \in Updates
    BY Zenon DEF Updates
  <2> QED
    BY <1>3, <2>1, ApplyOK, Zenon
<1>5. Shapes'
  BY <1>1, <1>2, Zenon DEF CacheInv, Shapes
<1>6. /\ DOMAIN cache'[n] = DOMAIN cache[n] \cup {c}
      /\ cache'[n][c] = Apply(n, c, u)
      /\ \A a \in DOMAIN cache[n] \ {c} : cache'[n][a] = cache[n][a]
  BY <1>1, Zenon DEF CacheInv, Shapes, Overwrite
<1>7. /\ \A m, a : Stored(m, a)' = Stored(m, a)
      /\ \A m, a : db_get_storage(m, a)' = db_get_storage(m, a)
  BY <1>2, Zenon DEF Stored, db_get_storage
<1>8. CachesOK(n)'
  <2>1. StoreOK(n)'
    BY <1>2, <1>3, <1>7, Zenon DEF CachesOK, StoreOK
  <2>2. EntryOK(n, c)'
    BY <1>4, <1>6, <1>7, Zenon DEF EntryOK
  <2>3. \A a \in DOMAIN cache[n] \ {c} : EntryOK(n, a)'
    BY <1>3, <1>6, <1>7, Zenon DEF CachesOK, EntryOK
  <2> QED
    BY <1>2, <1>3, <1>6, <2>1, <2>2, <2>3, Zenon DEF CachesOK
<1>9. ASSUME NEW m \in Node, m # n PROVE CachesOK(m)'
  <2>1. cache'[m] = cache[m]
    BY <1>1, <1>9, Zenon DEF CacheInv, Shapes
  <2> QED
    BY <1>2, <2>1, OthersOK, Zenon DEF CacheInv
<1> QED
  BY <1>5, <1>8, <1>9, Zenon DEF CacheInv

LEMMA SetKeeps ==
  ASSUME CacheInv, NEW n \in Node, NEW c \in SetTargets, NEW entry, NEW stored,
         SetAccount(n, c, entry, stored),
         entry \in Entry, entry.code = CodeNamed(entry.code_hash), from_info(entry) = stored,
         entry.code_hash = Stored(n, c).code_hash,
         entry.slot \in {{}, {db_get_storage(n, c)}}
  PROVE  CacheInv'
<1>1. /\ cache' = [cache EXCEPT ![n] = Overwrite(cache[n], [x \in {c} |-> entry])]
      /\ accounts' = [accounts EXCEPT ![n] = Overwrite(accounts[n], [x \in {c} |-> stored])]
      /\ state_trie' = [state_trie EXCEPT
           ![n] = Overwrite(state_trie[n], AccountsOf([x \in {c} |-> entry]))]
      /\ UNCHANGED <<chain, height, contracts, storage, roots>>
  BY Zenon DEF SetAccount, insert
<1>2. AccountsOf([x \in {c} |-> entry]) = [x \in {c} |-> stored]
  BY Zenon DEF AccountsOf
<1>3. CachesOK(n) /\ StoreOK(n)
  BY Zenon DEF CacheInv, CachesOK
<1>4. /\ cache'[n] = Overwrite(cache[n], [x \in {c} |-> entry])
      /\ accounts'[n] = Overwrite(accounts[n], [x \in {c} |-> stored])
      /\ state_trie'[n] = accounts'[n]
  BY <1>1, <1>2, <1>3, Zenon DEF CacheInv, Shapes, StoreOK
<1>5. /\ DOMAIN cache'[n] = DOMAIN cache[n] \cup {c}
      /\ cache'[n][c] = entry
      /\ \A a \in DOMAIN cache[n] \ {c} : cache'[n][a] = cache[n][a]
      /\ DOMAIN accounts'[n] = DOMAIN accounts[n] \cup {c}
      /\ accounts'[n][c] = stored
      /\ \A a \in DOMAIN accounts[n] \ {c} : accounts'[n][a] = accounts[n][a]
  BY <1>4, Zenon DEF Overwrite
<1>6. Shapes'
  BY <1>1, Zenon DEF CacheInv, Shapes
<1>7. contracts'[n] = contracts[n] /\ \A a : db_get_storage(n, a)' = db_get_storage(n, a)
  BY <1>1, Zenon DEF db_get_storage
<1>8. Stored(n, c)' = stored /\ \A a : a # c => Stored(n, a)' = Stored(n, a)
  BY <1>5, Zenon DEF Stored, Lookup
<1>9. stored \in Leaf /\ stored.code_hash = Stored(n, c).code_hash
  <2>1. entry.nonce \in Nat /\ entry.balance \in Nat /\ entry.code_hash \in Codes
    BY Zenon DEF Entry
  <2> QED
    BY <2>1, Zenon DEF from_info, StoredAccount, Leaf
<1>10. StoreOK(n)'
  <2>1. stored.code_hash = "code" => CodeKept(contracts[n])
    BY <1>3, <1>9, ZenonT(40) DEF StoreOK, Stored, Lookup, EmptyAccount, StoredAccount, NoCode
  <2>2. \A a \in DOMAIN accounts'[n] : accounts'[n][a] \in Leaf
    BY <1>3, <1>5, <1>9, Zenon DEF StoreOK
  <2>3. \A a \in DOMAIN accounts'[n] :
          accounts'[n][a].code_hash = "code" => CodeKept(contracts[n])
    BY <1>3, <1>5, <2>1, Zenon DEF StoreOK
  <2> QED
    BY <1>1, <1>3, <1>4, <1>7, <2>2, <2>3, Zenon DEF StoreOK
<1>11. CachesOK(n)'
  <2>1. EntryOK(n, c)'
    BY <1>5, <1>7, <1>8, Zenon DEF EntryOK
  <2>2. \A a \in DOMAIN cache[n] \ {c} : EntryOK(n, a)'
    BY <1>3, <1>5, <1>7, <1>8, Zenon DEF CachesOK, EntryOK
  <2> QED
    BY <1>3, <1>5, <1>10, <2>1, <2>2, Zenon DEF CachesOK
<1>12. ASSUME NEW m \in Node, m # n PROVE CachesOK(m)'
  <2>1. /\ cache'[m] = cache[m] /\ accounts'[m] = accounts[m]
        /\ contracts'[m] = contracts[m] /\ storage'[m] = storage[m]
        /\ state_trie'[m] = state_trie[m]
    BY <1>1, <1>12, Zenon DEF CacheInv, Shapes
  <2> QED
    BY <2>1, OthersOK, Zenon DEF CacheInv
<1> QED
  BY <1>6, <1>11, <1>12, Zenon DEF CacheInv

\* The entry that set_nonce and set_balance start from.
LEMMA SetEntryOK ==
  ASSUME CacheInv, NEW n \in Node, NEW c \in SetTargets
  PROVE  LET e == Lookup(cache[n], c, DefaultEntry)
         IN  /\ e \in Entry /\ e.code = CodeNamed(e.code_hash)
             /\ Stored(n, c) = from_info(e) /\ Stored(n, c) \in Leaf
             /\ e.slot \in {{}, {db_get_storage(n, c)}}
<1>1. CachesOK(n) /\ StoreOK(n)
  BY Zenon DEF CacheInv, CachesOK
<1>2. Stored(n, c) \in Leaf
  BY <1>1, StoredOK, Zenon
<1>3. CASE c \in DOMAIN cache[n]
  BY <1>1, <1>2, <1>3, Zenon DEF CachesOK, EntryOK, Lookup
<1>4. CASE c \notin DOMAIN cache[n]
  <2>1. Stored(n, c) = EmptyAccount
    BY <1>1, <1>4, Zenon DEF CachesOK, Stored, Lookup
  <2>2. /\ DefaultEntry \in Entry /\ DefaultEntry.code = CodeNamed(DefaultEntry.code_hash)
        /\ from_info(DefaultEntry) = EmptyAccount /\ DefaultEntry.slot = {}
    BY Zenon DEF DefaultEntry, Entry, Codes, CodeNamed, NoCode, from_info, EmptyAccount
  <2> QED
    BY <1>2, <1>4, <2>1, <2>2, Zenon DEF Lookup
<1> QED
  BY <1>3, <1>4, Zenon

LEMMA SetNonceKeeps ==
  ASSUME CacheInv, NEW n \in Node, NEW c \in SetTargets, NEW v \in Nat, set_nonce(n, c, v)
  PROVE  CacheInv'
<1> DEFINE e == Lookup(cache[n], c, DefaultEntry)
           s == Stored(n, c)
           entry == [e EXCEPT !.nonce = v]
           stored == [s EXCEPT !.nonce = v]
<1>1. e \in Entry /\ e.code = CodeNamed(e.code_hash) /\ s = from_info(e) /\ s \in Leaf
      /\ e.slot \in {{}, {db_get_storage(n, c)}}
  BY SetEntryOK, Zenon
<1>2. SetAccount(n, c, entry, stored)
  BY Zenon DEF set_nonce
<1> HIDE DEF e, s
<1>3. /\ entry \in Entry /\ entry.code = e.code /\ entry.code_hash = e.code_hash
      /\ entry.slot = e.slot /\ entry.nonce = v /\ entry.balance = e.balance
  BY <1>1, Zenon DEF Entry
<1>4. s.code_hash = e.code_hash /\ s.balance = e.balance
  BY <1>1, Zenon DEF from_info, StoredAccount
<1>5. stored = [nonce |-> v, balance |-> s.balance, code_hash |-> s.code_hash]
  BY <1>1 DEF Leaf
<1> HIDE DEF entry, stored
<1>6. from_info(entry) = stored
  BY <1>3, <1>4, <1>5, Zenon DEF from_info, StoredAccount
<1>7. entry.code = CodeNamed(entry.code_hash) /\ entry.code_hash = Stored(n, c).code_hash
      /\ entry.slot \in {{}, {db_get_storage(n, c)}}
  BY <1>1, <1>3, <1>4, Zenon DEF s
<1> QED
  BY <1>2, <1>3, <1>6, <1>7, SetKeeps, Zenon

LEMMA SetBalanceKeeps ==
  ASSUME CacheInv, NEW n \in Node, NEW c \in SetTargets, NEW v \in Nat, set_balance(n, c, v)
  PROVE  CacheInv'
<1> DEFINE e == Lookup(cache[n], c, DefaultEntry)
           s == Stored(n, c)
           entry == [e EXCEPT !.balance = v]
           stored == [s EXCEPT !.balance = v]
<1>1. e \in Entry /\ e.code = CodeNamed(e.code_hash) /\ s = from_info(e) /\ s \in Leaf
      /\ e.slot \in {{}, {db_get_storage(n, c)}}
  BY SetEntryOK, Zenon
<1>2. SetAccount(n, c, entry, stored)
  BY Zenon DEF set_balance
<1> HIDE DEF e, s
<1>3. /\ entry \in Entry /\ entry.code = e.code /\ entry.code_hash = e.code_hash
      /\ entry.slot = e.slot /\ entry.nonce = e.nonce /\ entry.balance = v
  BY <1>1, Zenon DEF Entry
<1>4. s.code_hash = e.code_hash /\ s.nonce = e.nonce
  BY <1>1, Zenon DEF from_info, StoredAccount
<1>5. stored = [nonce |-> s.nonce, balance |-> v, code_hash |-> s.code_hash]
  BY <1>1 DEF Leaf
<1> HIDE DEF entry, stored
<1>6. from_info(entry) = stored
  BY <1>3, <1>4, <1>5, Zenon DEF from_info, StoredAccount
<1>7. entry.code = CodeNamed(entry.code_hash) /\ entry.code_hash = Stored(n, c).code_hash
      /\ entry.slot \in {{}, {db_get_storage(n, c)}}
  BY <1>1, <1>3, <1>4, Zenon DEF s
<1> QED
  BY <1>2, <1>3, <1>6, <1>7, SetKeeps, Zenon

LEMMA InitCacheInv ==
  ASSUME FreshTargets, Init
  PROVE  CacheInv
<1>1. /\ cache = [n \in Node |-> <<>>]
      /\ accounts = [n \in Node |-> AccountsOf(GenesisInfos)]
      /\ contracts = [n \in Node |-> CodesOf(GenesisInfos)]
      /\ storage = [n \in Node |-> [a \in DOMAIN Genesis |-> Genesis[a].slot]]
      /\ state_trie = [n \in Node |-> AccountsOf(GenesisInfos)]
      /\ chain = <<>> /\ height = [n \in Node |-> 0] /\ roots = [n \in Node |-> <<>>]
  BY Zenon DEF Init, from_genesis
<1>2. Shapes
  <2>1. chain \in Seq(Blocks)
    BY <1>1
  <2> QED
    BY <1>1, <2>1, Zenon DEF Shapes
<1> SUFFICES ASSUME NEW n \in Node PROVE CachesOK(n)
  BY <1>2, Zenon DEF CacheInv
<1>3. /\ cache[n] = <<>> /\ accounts[n] = AccountsOf(GenesisInfos)
      /\ storage[n] = [a \in DOMAIN Genesis |-> Genesis[a].slot]
      /\ state_trie[n] = accounts[n]
  BY <1>1, Zenon
<1>4. DOMAIN accounts[n] = DOMAIN Genesis
  BY <1>3, Zenon DEF AccountsOf, GenesisInfos
<1>5. ASSUME NEW a \in DOMAIN Genesis
      PROVE  accounts[n][a] \in Leaf /\ accounts[n][a].code_hash = ""
  <2>1. accounts[n][a] = from_info(GenesisInfo(a))
    BY <1>3, Zenon DEF AccountsOf, GenesisInfos
  <2>2. /\ GenesisInfo(a).nonce = Genesis[a].nonce
        /\ GenesisInfo(a).balance = Genesis[a].balance
        /\ GenesisInfo(a).code_hash = ""
    <3>1. DefaultEntry \in Entry /\ DefaultEntry.code_hash = ""
      BY Zenon DEF DefaultEntry, Entry, Codes, NoCode
    <3> QED
      BY <3>1, Zenon DEF GenesisInfo, Entry
  <2>3. Genesis[a].nonce \in Nat /\ Genesis[a].balance \in Nat
    BY StateAssumption, Zenon
  <2>4. accounts[n][a] = [nonce |-> Genesis[a].nonce, balance |-> Genesis[a].balance,
                          code_hash |-> ""]
    BY <2>1, <2>2, Zenon DEF from_info, StoredAccount
  <2> DEFINE x == Genesis[a].nonce
             y == Genesis[a].balance
  <2>5. x \in Nat /\ y \in Nat
        /\ accounts[n][a] = [nonce |-> x, balance |-> y, code_hash |-> ""]
    BY <2>3, <2>4, Zenon
  <2> HIDE DEF x, y
  <2>6. /\ [nonce |-> x, balance |-> y, code_hash |-> ""] \in Leaf
        /\ [nonce |-> x, balance |-> y, code_hash |-> ""].code_hash = ""
    BY <2>5, Zenon DEF Leaf, Codes
  <2> QED
    BY <2>5, <2>6, ZenonT(40)
<1>6. \A a \in DOMAIN storage[n] : storage[n][a] \in Nat
  BY <1>3, StateAssumption, Zenon
<1>7. StoreOK(n)
  BY <1>3, <1>4, <1>5, <1>6, Zenon DEF StoreOK
<1>8. DOMAIN cache[n] = {}
  BY <1>3
<1> QED
  BY <1>4, <1>7, <1>8, Zenon DEF CachesOK, FreshTargets

LEMMA StepCacheInv ==
  ASSUME CacheInv, [Next]_vars
  PROVE  CacheInv'
<1>1. ASSUME NEW n \in Node, ExecuteBlock(n) PROVE CacheInv'
  BY <1>1, ExecuteKeeps, Zenon
<1>2. ASSUME NEW n \in Node, NEW c \in CallTargets, EthCall(n, c) PROVE CacheInv'
  BY <1>2, CallKeeps, Zenon
<1>3. ASSUME NEW n \in Node, NEW c \in SetTargets, set_nonce(n, c, SetValue) PROVE CacheInv'
  BY <1>3, SetNonceKeeps, StateAssumption, Zenon
<1>4. ASSUME NEW n \in Node, NEW c \in SetTargets, set_balance(n, c, SetValue) PROVE CacheInv'
  BY <1>4, SetBalanceKeeps, StateAssumption, Zenon
<1>5. ASSUME chain' \in Seq(Blocks),
             UNCHANGED <<height, cache, accounts, contracts, storage, state_trie, roots>>
      PROVE  CacheInv'
  <2>1. Shapes'
    BY <1>5, Zenon DEF CacheInv, Shapes
  <2>2. \A m \in Node : CachesOK(m)'
    BY <1>5, OthersOK, Zenon DEF CacheInv
  <2> QED
    BY <2>1, <2>2, Zenon DEF CacheInv
<1>6. CASE Decide
  <2>1. PICK b \in Blocks : chain' = Append(chain, b)
    BY <1>6, Zenon DEF Decide
  <2>2. chain' \in Seq(Blocks)
    BY <2>1 DEF CacheInv, Shapes
  <2> QED
    BY <1>5, <1>6, <2>2, Zenon DEF Decide, store
<1>7. CASE UNCHANGED vars
  BY <1>5, <1>7, Zenon DEF vars, store, CacheInv, Shapes
<1> QED
  BY <1>1, <1>2, <1>3, <1>4, <1>6, <1>7, Zenon DEF Next

\* The trie, changed leaf by leaf in the flush and in set_nonce and
\* set_balance, holds the accounts of vsdb at every moment, whatever the
\* blocks and the dry runs.
THEOREM TrieFollowsStore == FreshTargets => (Spec => []TrieMatchesStore)
<1> SUFFICES ASSUME FreshTargets PROVE Spec => []TrieMatchesStore
  BY Zenon
<1>1. CacheInv => TrieMatchesStore
  <2> SUFFICES ASSUME CacheInv PROVE state_trie = accounts
    BY Zenon DEF TrieMatchesStore
  <2>1. \A n \in Node : state_trie[n] = accounts[n]
    BY Zenon DEF CacheInv, CachesOK, StoreOK
  <2> QED
    BY <2>1, Zenon DEF CacheInv, Shapes
<1>2. Init => CacheInv
  BY InitCacheInv, Zenon
<1>3. CacheInv /\ [Next]_vars => CacheInv'
  BY StepCacheInv, Zenon
<1> QED
  BY <1>1, <1>2, <1>3, PTL DEF Spec

\* A read answers the same through the cache and from vsdb: the flush leaves
\* nothing behind, a dry run loads what is stored, set_nonce and set_balance
\* write both.
THEOREM CacheIsCoherent == FreshTargets => (Spec => []CacheCoherent)
<1> SUFFICES ASSUME FreshTargets PROVE Spec => []CacheCoherent
  BY Zenon
<1>1. CacheInv => CacheCoherent
  <2> SUFFICES ASSUME CacheInv, NEW n \in Node, NEW a \in Account
               PROVE  /\ get_nonce(n, a) = Stored(n, a).nonce
                      /\ get_balance(n, a) = Stored(n, a).balance
                      /\ \/ get_code(n, a) = db_get_code(n, a)
                         \/ Stored(n, a).code_hash = NoCode /\ get_code(n, a) = DefaultCode
                      /\ get_storage(n, a) = db_get_storage(n, a)
    BY Zenon DEF CacheCoherent
  <2>1. CachesOK(n) /\ StoreOK(n)
    BY Zenon DEF CacheInv, CachesOK
  <2>2. get_storage(n, a) = db_get_storage(n, a)
    BY <2>1, LoadedOK, Zenon
  <2>3. db_get_code(n, a) = Stored(n, a).code_hash
    BY <2>1, StoredOK, Zenon
  <2>4. CASE a \in DOMAIN cache[n]
    <3>1. /\ cache[n][a].code = CodeNamed(cache[n][a].code_hash)
          /\ Stored(n, a) = from_info(cache[n][a])
      BY <2>1, <2>4, Zenon DEF CachesOK, EntryOK
    <3>2. /\ Stored(n, a).nonce = cache[n][a].nonce
          /\ Stored(n, a).balance = cache[n][a].balance
          /\ Stored(n, a).code_hash = cache[n][a].code_hash
      BY <3>1 DEF from_info, StoredAccount
    <3>3. get_code(n, a) = IF Stored(n, a).code_hash = NoCode THEN DefaultCode
                           ELSE Stored(n, a).code_hash
      BY <2>4, <3>1, <3>2, Zenon DEF get_code, CodeNamed
    <3> QED
      BY <2>2, <2>3, <2>4, <3>2, <3>3, Zenon DEF get_nonce, get_balance, Lookup
  <2>5. CASE a \notin DOMAIN cache[n]
    BY <2>2, <2>5, Zenon DEF get_nonce, get_balance, get_code, Lookup
  <2> QED
    BY <2>4, <2>5, Zenon
<1>2. Init => CacheInv
  BY InitCacheInv, Zenon
<1>3. CacheInv /\ [Next]_vars => CacheInv'
  BY StepCacheInv, Zenon
<1> QED
  BY <1>1, <1>2, <1>3, PTL DEF Spec

-----------------------------------------------------------------------------
(* The app hashes of replicas                                              *)

\* Dry runs load accounts of the genesis, and set_nonce and set_balance work
\* on accounts that neither the genesis nor a block has.
Apart ==
  /\ FreshTargets
  /\ CallTargets \subseteq DOMAIN Genesis
  /\ \A b \in Blocks : DOMAIN b \cap SetTargets = {}

\* The part of a trie that the chain alone determines.
ChainPart(f) == [a \in DOMAIN f \ SetTargets |-> f[a]]

\* The accounts after a block.
After(f, b) ==
  [a \in DOMAIN f \cup DOMAIN b |->
     IF a \in DOMAIN b THEN LeafAfter(Lookup(f, a, EmptyAccount), b[a]) ELSE f[a]]

\* The part after h blocks, as replica n has answered it.
PartAt(n, h) ==
  IF h = 0 THEN ChainPart(AccountsOf(GenesisInfos)) ELSE ChainPart(roots[n][h])

\* Dry runs add no account to the trie, and each answered root follows from
\* the one before it and the block.
RootOK(n) ==
  /\ DOMAIN Genesis \subseteq DOMAIN accounts[n]
  /\ DOMAIN cache[n] \subseteq DOMAIN accounts[n]
  /\ height[n] <= Len(chain)
  /\ \E S : roots[n] \in Seq(S)
  /\ Len(roots[n]) = height[n]
  /\ \A h \in 1..height[n] : ChainPart(roots[n][h]) = After(PartAt(n, h - 1), chain[h])
  /\ ChainPart(accounts[n]) = PartAt(n, height[n])

RootInv == CacheInv /\ \A n \in Node : RootOK(n)

LEMMA PartAfter ==
  ASSUME NEW f, NEW b, DOMAIN b \cap SetTargets = {}
  PROVE  ChainPart(After(f, b)) = After(ChainPart(f), b)
<1>1. DOMAIN ChainPart(After(f, b)) = DOMAIN After(ChainPart(f), b)
  BY Zenon DEF ChainPart, After
<1>2. ASSUME NEW a \in DOMAIN ChainPart(After(f, b))
      PROVE  ChainPart(After(f, b))[a] = After(ChainPart(f), b)[a]
  <2>1. a \notin SetTargets /\ a \in DOMAIN f \cup DOMAIN b
    BY Zenon DEF ChainPart, After
  <2>2. Lookup(ChainPart(f), a, EmptyAccount) = Lookup(f, a, EmptyAccount)
    BY <2>1, Zenon DEF ChainPart, Lookup
  <2>3. CASE a \in DOMAIN b
    BY <2>1, <2>2, <2>3, Zenon DEF ChainPart, After
  <2>4. CASE a \notin DOMAIN b
    BY <2>1, <2>4, Zenon DEF ChainPart, After
  <2> QED
    BY <2>3, <2>4, Zenon
<1> QED
  BY <1>1, <1>2, Zenon DEF ChainPart, After

\* What an update leaves in a slot's leaf depends on the stored leaf alone.
LEMMA ApplyLeaf ==
  ASSUME NEW n, NEW a, CachesOK(n), NEW u \in Updates
  PROVE  from_info(Apply(n, a, u)) = LeafAfter(Stored(n, a), u)
BY ApplyOK, Zenon

\* The same for every account that a block writes.
LEMMA ApplyLeaves ==
  ASSUME NEW n, CachesOK(n), NEW block, \A a \in DOMAIN block : block[a] \in Updates
  PROVE  \A a \in DOMAIN block : from_info(Apply(n, a, block[a])) = LeafAfter(Stored(n, a), block[a])
<1> SUFFICES ASSUME NEW a \in DOMAIN block
             PROVE  from_info(Apply(n, a, block[a])) = LeafAfter(Stored(n, a), block[a])
  BY Zenon
<1> DEFINE u == block[a]
<1>1. u \in Updates
  BY Zenon
<1> HIDE DEF u
<1>2. from_info(Apply(n, a, u)) = LeafAfter(Stored(n, a), u)
  BY <1>1, ApplyLeaf, Zenon
<1> QED
  BY <1>2, Zenon DEF u

\* The flush after a block writes what the block changed and nothing else.
LEMMA FlushIsAfter ==
  ASSUME NEW n, CachesOK(n), DOMAIN cache[n] \subseteq DOMAIN accounts[n],
         NEW block, \A a \in DOMAIN block : block[a] \in Updates
  PROVE  LET entries == Overwrite(cache[n], [a \in DOMAIN block |-> Apply(n, a, block[a])])
         IN  Overwrite(accounts[n], AccountsOf(entries)) = After(accounts[n], block)
<1> DEFINE entries == Overwrite(cache[n], [a \in DOMAIN block |-> Apply(n, a, block[a])])
           A == Overwrite(accounts[n], AccountsOf(entries))
<1>0. \A a \in DOMAIN block : from_info(Apply(n, a, block[a])) = LeafAfter(Stored(n, a), block[a])
  <2> HIDE DEF A, entries
  <2> QED
    BY ApplyLeaves, Zenon
<1>1. DOMAIN entries = DOMAIN cache[n] \cup DOMAIN block
  BY Zenon DEF Overwrite
<1>2. /\ DOMAIN A = DOMAIN accounts[n] \cup DOMAIN block
      /\ \A a \in DOMAIN entries : A[a] = from_info(entries[a])
      /\ \A a \in DOMAIN A \ DOMAIN entries : A[a] = accounts[n][a]
      /\ A = [a \in DOMAIN A |-> A[a]]
  <2> HIDE DEF entries
  <2> QED
    BY <1>1, Zenon DEF Overwrite, AccountsOf
<1>3. ASSUME NEW a \in DOMAIN A PROVE A[a] = After(accounts[n], block)[a]
  <2>1. CASE a \in DOMAIN block
    <3>1. entries[a] = Apply(n, a, block[a])
      BY <2>1, Zenon DEF Overwrite
    <3>2. from_info(Apply(n, a, block[a])) = LeafAfter(Stored(n, a), block[a])
      <4> HIDE DEF A, entries
      <4> QED
        BY <1>0, <2>1, Zenon
    <3>3. A[a] = LeafAfter(Lookup(accounts[n], a, EmptyAccount), block[a])
      <4> HIDE DEF A, entries
      <4> QED
        BY <1>1, <1>2, <2>1, <3>1, <3>2, Zenon DEF Stored
    <3> HIDE DEF A
    <3> QED
      BY <2>1, <3>3, Zenon DEF After
  <2>2. CASE a \in DOMAIN cache[n] \ DOMAIN block
    <3>1. entries[a] = cache[n][a]
      BY <2>2, Zenon DEF Overwrite
    <3>2. from_info(cache[n][a]) = accounts[n][a] /\ a \in DOMAIN accounts[n]
      BY <2>2, Zenon DEF CachesOK, EntryOK, Stored, Lookup
    <3>3. A[a] = accounts[n][a]
      <4> HIDE DEF A, entries
      <4> QED
        BY <1>1, <1>2, <2>2, <3>1, <3>2, Zenon
    <3> HIDE DEF A
    <3> QED
      BY <2>2, <3>2, <3>3, Zenon DEF After
  <2>3. CASE a \notin DOMAIN entries
    <3> HIDE DEF A, entries
    <3> QED
      BY <1>1, <1>2, <2>3, Zenon DEF After
  <2> HIDE DEF A, entries
  <2> QED
    BY <1>1, <2>1, <2>2, <2>3, Zenon
<1> HIDE DEF A
<1>4. A = After(accounts[n], block)
  BY <1>2, <1>3, ZenonT(40) DEF After
<1> QED
  BY <1>4, Zenon DEF A

\* Appending keeps what a sequence has.
LEMMA AppendRoot ==
  ASSUME NEW s, \E S : s \in Seq(S), NEW x
  PROVE  /\ \E S : Append(s, x) \in Seq(S)
         /\ Len(Append(s, x)) = Len(s) + 1 /\ Len(s) \in Nat
         /\ \A i \in 1..Len(s) : Append(s, x)[i] = s[i]
         /\ Append(s, x)[Len(s) + 1] = x
<1>1. PICK S : s \in Seq(S)
  BY Zenon
<1>2. s \in Seq(S \cup {x})
  <2>1. \A i \in 1..Len(s) : s[i] \in S \cup {x}
    BY <1>1
  <2> QED
    BY <1>1, <2>1, SeqDef
<1> QED
  BY <1>2

LEMMA ExecuteRoots ==
  ASSUME Apart, RootInv, NEW n \in Node, ExecuteBlock(n), CacheInv'
  PROVE  RootInv'
<1> DEFINE k == height[n]
           block == chain[k + 1]
           entries == Overwrite(cache[n], [a \in DOMAIN block |-> Apply(n, a, block[a])])
<1>1. /\ cache' = [cache EXCEPT ![n] = entries]
      /\ accounts' = [accounts EXCEPT ![n] = Overwrite(accounts[n], AccountsOf(entries))]
      /\ height' = [height EXCEPT ![n] = k + 1]
      /\ chain' = chain
      /\ roots' = [roots EXCEPT ![n] = Append(roots[n], state_trie'[n])]
      /\ k < Len(chain)
  BY Zenon DEF ExecuteBlock, Flush
<1>2. /\ k \in Nat /\ chain \in Seq(Blocks) /\ Len(chain) \in Nat
      /\ DOMAIN cache = Node /\ DOMAIN accounts = Node /\ DOMAIN height = Node
      /\ DOMAIN roots = Node
  BY DEF RootInv, CacheInv, Shapes
<1>3. block \in Blocks
  BY <1>1, <1>2
<1>4. (\A a \in DOMAIN block : block[a] \in Updates) /\ DOMAIN block \cap SetTargets = {}
  BY <1>3, StateAssumption, Zenon DEF Apart
<1>5. CachesOK(n) /\ RootOK(n)
  BY Zenon DEF RootInv, CacheInv
<1>6. accounts'[n] = After(accounts[n], block)
  <2>1. accounts'[n] = Overwrite(accounts[n], AccountsOf(entries))
    BY <1>1, <1>2, Zenon
  <2> HIDE DEF block
  <2>2. DOMAIN cache[n] \subseteq DOMAIN accounts[n]
    BY <1>5, Zenon DEF RootOK
  <2> QED
    BY <1>4, <1>5, <2>1, <2>2, FlushIsAfter, Zenon
<1>7. cache'[n] = entries /\ DOMAIN entries = DOMAIN cache[n] \cup DOMAIN block
  BY <1>1, <1>2, ZenonT(40) DEF Overwrite
<1>8. state_trie'[n] = accounts'[n]
  BY ZenonT(40) DEF CacheInv, CachesOK, StoreOK
<1>9. /\ height'[n] = k + 1 /\ roots'[n] = Append(roots[n], accounts'[n])
      /\ \A m \in Node \ {n} : /\ height'[m] = height[m] /\ roots'[m] = roots[m]
                               /\ cache'[m] = cache[m] /\ accounts'[m] = accounts[m]
  BY <1>1, <1>2, <1>8, ZenonT(40)
<1> HIDE DEF entries
<1>10. /\ \E S : roots'[n] \in Seq(S)
       /\ Len(roots'[n]) = k + 1
       /\ \A i \in 1..k : roots'[n][i] = roots[n][i]
       /\ roots'[n][k + 1] = accounts'[n]
  <2>1. (\E S : roots[n] \in Seq(S)) /\ Len(roots[n]) = k
    BY <1>5, Zenon DEF RootOK
  <2> DEFINE s == roots[n]
             x == accounts'[n]
  <2>2. roots'[n] = Append(s, x) /\ Len(s) = k /\ \E S : s \in Seq(S)
    BY <1>9, <2>1, Zenon
  <2> HIDE DEF k, s, x
  <2>3. /\ \E S : Append(s, x) \in Seq(S)
        /\ Len(Append(s, x)) = Len(s) + 1 /\ Len(s) \in Nat
        /\ \A i \in 1..Len(s) : Append(s, x)[i] = s[i]
        /\ Append(s, x)[Len(s) + 1] = x
    BY <2>2, AppendRoot, Zenon
  <2> QED
    BY <2>2, <2>3, Zenon DEF s, x
<1>11. \A h \in 0..k : PartAt(n, h)' = PartAt(n, h)
  BY <1>2, <1>10 DEF PartAt
<1>12. ChainPart(accounts'[n]) = After(PartAt(n, k), block)
  <2>1. ChainPart(accounts[n]) = PartAt(n, k)
    BY <1>5, Zenon DEF RootOK
  <2> HIDE DEF block, k
  <2> QED
    BY <1>4, <1>6, <2>1, PartAfter, Zenon
<1>13. ChainPart(accounts'[n]) = ChainPart(roots'[n][k + 1]) /\ k + 1 # 0
  BY <1>2, <1>10, SMTT(30)
<1>14. ASSUME NEW h \in 1..(k + 1)
       PROVE  ChainPart(roots'[n][h]) = After(PartAt(n, h - 1)', chain[h])
  <2>1. CASE h = k + 1
    <3>1. h - 1 = k /\ k \in 0..k /\ chain[h] = block
      BY <1>2, <2>1
    <3>2. PartAt(n, h - 1)' = PartAt(n, k)
      BY <1>11, <3>1, Zenon
    <3> QED
      BY <1>10, <1>12, <2>1, <3>1, <3>2, Zenon
  <2>2. CASE h \in 1..k
    <3>1. h - 1 \in 0..k
      BY <1>2, <2>2, SMTT(30)
    <3>2. ChainPart(roots[n][h]) = After(PartAt(n, h - 1), chain[h])
      BY <1>5, <2>2, Zenon DEF RootOK
    <3> QED
      BY <1>10, <1>11, <2>2, <3>1, <3>2, Zenon
  <2> QED
    BY <1>2, <2>1, <2>2, SMTT(30)
<1>15. RootOK(n)'
  <2>1. DOMAIN accounts'[n] = DOMAIN accounts[n] \cup DOMAIN block
    BY <1>6, Zenon DEF After
  <2>2. /\ DOMAIN Genesis \subseteq DOMAIN accounts'[n]
        /\ DOMAIN cache'[n] \subseteq DOMAIN accounts'[n]
    BY <1>5, <1>7, <2>1, Zenon DEF RootOK
  <2>3. height'[n] <= Len(chain')
    BY <1>1, <1>2, <1>9
  <2>4. Len(roots'[n]) = height'[n] /\ \E S : roots'[n] \in Seq(S)
    BY <1>9, <1>10, Zenon
  <2>5. \A h \in 1..height'[n] :
          ChainPart(roots'[n][h]) = After(PartAt(n, h - 1)', chain'[h])
    BY <1>1, <1>9, <1>14, Zenon
  <2>6. ChainPart(accounts'[n]) = PartAt(n, height[n])'
    <3> HIDE DEF k
    <3>1. height'[n] # 0 /\ ChainPart(accounts'[n]) = ChainPart(roots'[n][height'[n]])
      BY <1>9, <1>13, Zenon
    <3> QED
      BY <3>1, Zenon DEF PartAt
  <2> HIDE DEF k, block
  <2> QED
    BY <2>2, <2>3, <2>4, <2>5, <2>6, Zenon DEF RootOK
<1>16. ASSUME NEW m \in Node \ {n} PROVE RootOK(m)'
  <2>1. RootOK(m) /\ \A h : PartAt(m, h)' = PartAt(m, h)
    BY <1>9, Zenon DEF RootInv, PartAt
  <2> QED
    BY <1>1, <1>9, <2>1, ZenonT(40) DEF RootOK
<1> QED
  BY <1>15, <1>16, Zenon DEF RootInv

\* A step that answers no root and keeps the chain's part of the accounts.
LEMMA QuietRoots ==
  ASSUME NEW m, RootOK(m), height'[m] = height[m], roots'[m] = roots[m],
         height[m] \in Nat, Len(chain) \in Nat, Len(chain) <= Len(chain'), Len(chain') \in Nat,
         \A h \in 1..Len(chain) : chain'[h] = chain[h],
         DOMAIN accounts[m] \subseteq DOMAIN accounts'[m],
         DOMAIN cache'[m] \subseteq DOMAIN accounts'[m],
         ChainPart(accounts'[m]) = ChainPart(accounts[m])
  PROVE  RootOK(m)'
<1>1. \A h : PartAt(m, h)' = PartAt(m, h)
  BY Zenon DEF PartAt
<1>2. \A h \in 1..height[m] : ChainPart(roots[m][h]) = After(PartAt(m, h - 1), chain'[h])
  BY DEF RootOK
<1>3. height[m] <= Len(chain')
  BY DEF RootOK
<1> QED
  BY <1>1, <1>2, <1>3, Zenon DEF RootOK

LEMMA StillRoots ==
  ASSUME NEW m, RootOK(m), height'[m] = height[m], roots'[m] = roots[m], chain' = chain,
         height[m] \in Nat, Len(chain) \in Nat,
         DOMAIN accounts[m] \subseteq DOMAIN accounts'[m],
         DOMAIN cache'[m] \subseteq DOMAIN accounts'[m],
         ChainPart(accounts'[m]) = ChainPart(accounts[m])
  PROVE  RootOK(m)'
<1>1. /\ Len(chain) <= Len(chain') /\ Len(chain') \in Nat
      /\ \A h \in 1..Len(chain) : chain'[h] = chain[h]
  OBVIOUS
<1> QED
  BY <1>1, QuietRoots, Zenon

LEMMA CallRoots ==
  ASSUME Apart, RootInv, NEW n \in Node, NEW c \in CallTargets, EthCall(n, c), CacheInv'
  PROVE  RootInv'
<1>1. PICK u \in {"read", "sload"} :
        cache' = [cache EXCEPT ![n] = Overwrite(cache[n], [x \in {c} |-> Apply(n, c, u)])]
  BY Zenon DEF EthCall
<1>2. UNCHANGED <<chain, height, accounts, roots>>
  BY Zenon DEF EthCall, store
<1>3. DOMAIN cache = Node /\ Len(chain) \in Nat /\ \A m \in Node : height[m] \in Nat
  BY DEF RootInv, CacheInv, Shapes
<1>4. c \in DOMAIN Genesis
  BY Zenon DEF Apart
<1>5. DOMAIN cache'[n] \subseteq DOMAIN cache[n] \cup {c}
      /\ \A m \in Node \ {n} : cache'[m] = cache[m]
  BY <1>1, <1>3, Zenon DEF Overwrite
<1>6. ASSUME NEW m \in Node PROVE RootOK(m)'
  <2>1. RootOK(m)
    BY Zenon DEF RootInv
  <2>2. DOMAIN cache'[m] \subseteq DOMAIN accounts'[m]
    BY <1>2, <1>4, <1>5, <2>1, Zenon DEF RootOK
  <2>3. /\ height'[m] = height[m] /\ roots'[m] = roots[m] /\ height[m] \in Nat
        /\ accounts'[m] = accounts[m] /\ chain' = chain
    BY <1>2, <1>3, Zenon
  <2> QED
    BY <1>3, <2>1, <2>2, <2>3, StillRoots, Zenon
<1> QED
  BY <1>6, Zenon DEF RootInv

LEMMA SetRoots ==
  ASSUME RootInv, NEW n \in Node, NEW c \in SetTargets, NEW entry, NEW stored,
         SetAccount(n, c, entry, stored), CacheInv'
  PROVE  RootInv'
<1>1. /\ cache' = [cache EXCEPT ![n] = Overwrite(cache[n], [x \in {c} |-> entry])]
      /\ accounts' = [accounts EXCEPT ![n] = Overwrite(accounts[n], [x \in {c} |-> stored])]
      /\ UNCHANGED <<chain, height, roots>>
  BY Zenon DEF SetAccount
<1>2. /\ DOMAIN cache = Node /\ DOMAIN accounts = Node /\ Len(chain) \in Nat
      /\ \A m \in Node : height[m] \in Nat
  BY DEF RootInv, CacheInv, Shapes
<1>3. /\ DOMAIN cache'[n] = DOMAIN cache[n] \cup {c}
      /\ accounts'[n] = Overwrite(accounts[n], [x \in {c} |-> stored])
      /\ \A m \in Node \ {n} : cache'[m] = cache[m] /\ accounts'[m] = accounts[m]
  BY <1>1, <1>2, Zenon DEF Overwrite
<1>4. /\ DOMAIN accounts'[n] = DOMAIN accounts[n] \cup {c}
      /\ \A a \in DOMAIN accounts[n] \ {c} : accounts'[n][a] = accounts[n][a]
  BY <1>3, Zenon DEF Overwrite
<1>5. ChainPart(accounts'[n]) = ChainPart(accounts[n])
  <2> DEFINE f == accounts[n]
             g == accounts'[n]
  <2>1. DOMAIN g = DOMAIN f \cup {c} /\ \A a \in DOMAIN f \ {c} : g[a] = f[a]
    BY <1>4, Zenon
  <2> HIDE DEF f, g
  <2>2. DOMAIN f \ SetTargets = DOMAIN g \ SetTargets
    BY <2>1, Zenon
  <2>3. \A a \in DOMAIN f \ SetTargets : g[a] = f[a]
    BY <2>1, Zenon
  <2>4. ChainPart(g) = ChainPart(f)
    BY <2>2, <2>3, Zenon DEF ChainPart
  <2> QED
    BY <2>4, Zenon DEF f, g
<1>6. ASSUME NEW m \in Node PROVE RootOK(m)'
  <2>1. RootOK(m) /\ DOMAIN cache[m] \subseteq DOMAIN accounts[m]
    BY Zenon DEF RootInv, RootOK
  <2>2. /\ DOMAIN accounts[m] \subseteq DOMAIN accounts'[m]
        /\ DOMAIN cache'[m] \subseteq DOMAIN accounts'[m]
        /\ ChainPart(accounts'[m]) = ChainPart(accounts[m])
    BY <1>3, <1>4, <1>5, <2>1, ZenonT(40)
  <2>3. /\ height'[m] = height[m] /\ roots'[m] = roots[m] /\ height[m] \in Nat
        /\ chain' = chain
    BY <1>1, <1>2, Zenon
  <2> QED
    BY <1>2, <2>1, <2>2, <2>3, StillRoots, Zenon
<1> QED
  BY <1>6, Zenon DEF RootInv

LEMMA InitRoots ==
  ASSUME Apart, Init
  PROVE  RootInv
<1>1. CacheInv
  BY InitCacheInv, Zenon DEF Apart
<1>2. /\ cache = [n \in Node |-> <<>>]
      /\ accounts = [n \in Node |-> AccountsOf(GenesisInfos)]
      /\ chain = <<>> /\ height = [n \in Node |-> 0] /\ roots = [n \in Node |-> <<>>]
  BY Zenon DEF Init, from_genesis
<1>3. ASSUME NEW n \in Node PROVE RootOK(n)
  <2>1. DOMAIN cache[n] = {} /\ accounts[n] = AccountsOf(GenesisInfos) /\ height[n] = 0
    BY <1>2
  <2>2. DOMAIN AccountsOf(GenesisInfos) = DOMAIN Genesis
    BY Zenon DEF AccountsOf, GenesisInfos
  <2>3. roots[n] \in Seq({}) /\ Len(roots[n]) = 0 /\ Len(chain) = 0
    BY <1>2
  <2>4. ChainPart(accounts[n]) = PartAt(n, height[n])
    BY <2>1, Zenon DEF PartAt
  <2>5. 1..height[n] = {}
    BY <2>1
  <2> QED
    BY <2>1, <2>2, <2>3, <2>4, <2>5 DEF RootOK
<1> QED
  BY <1>1, <1>3, Zenon DEF RootInv

LEMMA StepRoots ==
  ASSUME Apart, RootInv, [Next]_vars
  PROVE  RootInv'
<1>1. CacheInv'
  BY StepCacheInv, Zenon DEF RootInv
<1>2. ASSUME NEW n \in Node, ExecuteBlock(n) PROVE RootInv'
  BY <1>1, <1>2, ExecuteRoots, Zenon
<1>3. ASSUME NEW n \in Node, NEW c \in CallTargets, EthCall(n, c) PROVE RootInv'
  BY <1>1, <1>3, CallRoots, Zenon
<1>4. ASSUME NEW n \in Node, NEW c \in SetTargets, set_nonce(n, c, SetValue) PROVE RootInv'
  BY <1>1, <1>4, SetRoots, Zenon DEF set_nonce
<1>5. ASSUME NEW n \in Node, NEW c \in SetTargets, set_balance(n, c, SetValue) PROVE RootInv'
  BY <1>1, <1>5, SetRoots, Zenon DEF set_balance
<1>6. chain \in Seq(Blocks) /\ Len(chain) \in Nat /\ \A m \in Node : height[m] \in Nat
  BY DEF RootInv, CacheInv, Shapes
<1>7. ASSUME Len(chain) <= Len(chain'), Len(chain') \in Nat,
             \A h \in 1..Len(chain) : chain'[h] = chain[h],
             UNCHANGED <<height, cache, accounts, roots>>
      PROVE  RootInv'
  <2> SUFFICES ASSUME NEW m \in Node PROVE RootOK(m)'
    BY <1>1, Zenon DEF RootInv
  <2>1. RootOK(m) /\ DOMAIN cache[m] \subseteq DOMAIN accounts[m]
    BY Zenon DEF RootInv, RootOK
  <2> QED
    BY <1>6, <1>7, <2>1, QuietRoots, Zenon
<1>8. CASE Decide
  <2>1. PICK b \in Blocks : chain' = Append(chain, b)
    BY <1>8, Zenon DEF Decide
  <2>2. /\ Len(chain) <= Len(chain') /\ Len(chain') \in Nat
        /\ \A h \in 1..Len(chain) : chain'[h] = chain[h]
    BY <1>6, <2>1
  <2> QED
    BY <1>7, <1>8, <2>2, Zenon DEF Decide, store
<1>9. CASE UNCHANGED vars
  BY <1>6, <1>7, <1>9 DEF vars, store
<1> QED
  BY <1>2, <1>3, <1>4, <1>5, <1>8, <1>9, Zenon DEF Next

\* Replicas with the same chain have answered the same roots: by the first
\* height at which two of them differ.
LEMMA SameRoots ==
  ASSUME RootInv, NEW n \in Node, NEW m \in Node, NEW h \in 1..height[n], h <= height[m]
  PROVE  ChainPart(roots[n][h]) = ChainPart(roots[m][h])
<1> DEFINE Bad == {i \in Nat : /\ 1 <= i /\ i <= height[n] /\ i <= height[m]
                               /\ ChainPart(roots[n][i]) # ChainPart(roots[m][i])}
<1>1. height[n] \in Nat /\ height[m] \in Nat
  BY Zenon DEF RootInv, CacheInv, Shapes
<1>2. Bad = {}
  <2> SUFFICES ASSUME Bad # {} PROVE FALSE
    BY Zenon
  <2>1. PICK i \in Bad : \A j \in Bad : i <= j
    BY LeastNat, ZenonT(40)
  <2>2. i \in Nat /\ 1 <= i /\ i <= height[n] /\ i <= height[m]
        /\ ChainPart(roots[n][i]) # ChainPart(roots[m][i])
    BY <2>1, Zenon
  <2>3. i - 1 \in Nat /\ i - 1 \notin Bad
    BY <2>1, <2>2, SMTT(30)
  <2>4. PartAt(n, i - 1) = PartAt(m, i - 1)
    <3>1. CASE i - 1 = 0
      BY <3>1, Zenon DEF PartAt
    <3>2. CASE i - 1 # 0
      <4>1. 1 <= i - 1 /\ i - 1 <= height[n] /\ i - 1 <= height[m]
        BY <1>1, <2>2, <2>3, <3>2, SMTT(30)
      <4>2. ChainPart(roots[n][i - 1]) = ChainPart(roots[m][i - 1])
        BY <2>3, <4>1, Zenon
      <4> QED
        BY <3>2, <4>2, Zenon DEF PartAt
    <3> QED
      BY <3>1, <3>2, Zenon
  <2>5. i \in 1..height[n] /\ i \in 1..height[m]
    BY <1>1, <2>2, SMTT(30)
  <2>6. /\ ChainPart(roots[n][i]) = After(PartAt(n, i - 1), chain[i])
        /\ ChainPart(roots[m][i]) = After(PartAt(m, i - 1), chain[i])
    BY <2>5, Zenon DEF RootInv, RootOK
  <2> QED
    BY <2>2, <2>4, <2>6, Zenon
<1> QED
  BY <1>1, <1>2

\* Replicas that have executed the same blocks have answered the same app
\* hashes, for any blocks and dry runs that meet Apart; evmstate_call shows
\* why dry runs of missing accounts must be kept out.
THEOREM RootsAlwaysAgree == Apart => (Spec => []RootsAgree)
<1> SUFFICES ASSUME Apart PROVE Spec => []RootsAgree
  BY Zenon
<1>1. RootInv => RootsAgree
  <2>1. \A f : ChainLeaves(f) = {<<a, ChainPart(f)[a]>> : a \in DOMAIN ChainPart(f)}
    BY Zenon DEF ChainLeaves, ChainPart
  <2>2. \A f, g : ChainPart(f) = ChainPart(g) => ChainLeaves(f) = ChainLeaves(g)
    BY <2>1, Zenon
  <2> QED
    BY <2>2, SameRoots, Zenon DEF RootsAgree
<1>2. Init => RootInv
  BY InitRoots, Zenon
<1>3. RootInv /\ [Next]_vars => RootInv'
  BY StepRoots, Zenon
<1> QED
  BY <1>1, <1>2, <1>3, PTL DEF Spec

-----------------------------------------------------------------------------
(* TypeOK                                                                  *)

\* The maps hold addresses only, and no replica is ahead of the chain.
BoundsOK ==
  /\ Len(chain) <= MaxHeight
  /\ height \in [Node -> Nat]
  /\ \A n \in Node :
       /\ height[n] <= Len(chain)
       /\ DOMAIN cache[n] \subseteq Account
       /\ DOMAIN accounts[n] \subseteq Account

LEMMA OverwriteDomain ==
  ASSUME NEW f, NEW g
  PROVE  DOMAIN Overwrite(f, g) = DOMAIN f \cup DOMAIN g
BY Zenon DEF Overwrite

LEMMA BoundsInit == Init => BoundsOK
<1> SUFFICES ASSUME Init PROVE BoundsOK
  BY Zenon
<1>1. \A n \in Node : cache[n] = <<>> /\ DOMAIN accounts[n] = DOMAIN Genesis /\ height[n] = 0
  BY Zenon DEF Init, from_genesis, AccountsOf, GenesisInfos
<1>2. chain = <<>> /\ Len(<<>>) = 0 /\ DOMAIN <<>> = {}
  BY DEF Init
<1> QED
  BY <1>1, <1>2, StateAssumption DEF BoundsOK, Init

LEMMA BoundsNext ==
  ASSUME CacheInv, BoundsOK, [Next]_vars
  PROVE  BoundsOK'
<1>0. /\ DOMAIN height = Node /\ DOMAIN cache = Node /\ DOMAIN accounts = Node
      /\ chain \in Seq(Blocks) /\ Len(chain) \in Nat /\ MaxHeight \in Nat
      /\ height \in [Node -> Nat]
      /\ \A n \in Node : DOMAIN cache[n] \subseteq Account /\ DOMAIN accounts[n] \subseteq Account
      /\ \A n \in Node : height[n] <= Len(chain)
      /\ Len(chain) <= MaxHeight
  BY StateAssumption DEF CacheInv, Shapes, BoundsOK
<1>1. CASE Decide
  <2>1. PICK b \in Blocks : chain' = Append(chain, b)
    BY <1>1, Zenon DEF Decide
  <2>2. Len(chain) < MaxHeight /\ UNCHANGED <<height, cache, accounts>>
    BY <1>1, Zenon DEF Decide, store
  <2>3. Len(chain') = Len(chain) + 1
    BY <1>0, <2>1
  <2> QED
    BY <1>0, <2>2, <2>3 DEF BoundsOK
<1>2. ASSUME NEW n \in Node, ExecuteBlock(n)
      PROVE  BoundsOK'
  <2> DEFINE block == chain[height[n] + 1]
             new == [a \in DOMAIN block |-> Apply(n, a, block[a])]
             entries == Overwrite(cache[n], new)
             infos == AccountsOf(entries)
  <2>1. /\ height[n] < Len(chain) /\ chain' = chain
        /\ cache' = [cache EXCEPT ![n] = entries]
        /\ accounts' = [accounts EXCEPT ![n] = Overwrite(accounts[n], infos)]
        /\ height' = [height EXCEPT ![n] = height[n] + 1]
    BY <1>2, Zenon DEF ExecuteBlock, Flush
  <2>2. block \in Blocks
    BY <1>0, <2>1
  <2>3. DOMAIN block \subseteq Account
    BY <2>2, StateAssumption, Zenon
  <2>4. DOMAIN entries = DOMAIN cache[n] \cup DOMAIN block
    BY OverwriteDomain, Zenon
  <2>5. DOMAIN infos = DOMAIN entries
    BY Zenon DEF AccountsOf
  <2> HIDE DEF block, new, entries, infos
  <2>6. DOMAIN Overwrite(accounts[n], infos) = DOMAIN accounts[n] \cup DOMAIN infos
    BY OverwriteDomain, Zenon
  <2>7. /\ DOMAIN entries \subseteq Account
        /\ DOMAIN Overwrite(accounts[n], infos) \subseteq Account
    BY <1>0, <2>3, <2>4, <2>5, <2>6, Zenon
  <2>8. /\ height' \in [Node -> Nat]
        /\ height'[n] <= Len(chain) /\ cache'[n] = entries
        /\ accounts'[n] = Overwrite(accounts[n], infos)
        /\ \A m \in Node \ {n} : /\ height'[m] = height[m] /\ cache'[m] = cache[m]
                                 /\ accounts'[m] = accounts[m]
    BY <1>0, <2>1
  <2> QED
    BY <1>0, <2>1, <2>7, <2>8, Zenon DEF BoundsOK
<1>3. ASSUME NEW n \in Node, NEW c \in CallTargets, EthCall(n, c)
      PROVE  BoundsOK'
  <2>1. PICK u : cache' = [cache EXCEPT ![n] = Overwrite(cache[n], [x \in {c} |-> Apply(n, c, u)])]
    BY <1>3, Zenon DEF EthCall
  <2>2. UNCHANGED <<chain, height, accounts>>
    BY <1>3, Zenon DEF EthCall, store
  <2>3. DOMAIN Overwrite(cache[n], [x \in {c} |-> Apply(n, c, u)]) = DOMAIN cache[n] \cup {c}
    BY OverwriteDomain, Zenon
  <2>4. \A m \in Node : DOMAIN cache'[m] \subseteq Account
    BY <1>0, <2>1, <2>3, StateAssumption, Zenon
  <2> QED
    BY <1>0, <2>2, <2>4, Zenon DEF BoundsOK
<1>4. ASSUME NEW n \in Node, NEW c \in SetTargets, NEW entry, NEW stored,
             SetAccount(n, c, entry, stored)
      PROVE  BoundsOK'
  <2>1. /\ cache' = [cache EXCEPT ![n] = Overwrite(cache[n], [x \in {c} |-> entry])]
        /\ accounts' = [accounts EXCEPT ![n] = Overwrite(accounts[n], [x \in {c} |-> stored])]
        /\ UNCHANGED <<chain, height>>
    BY <1>4, Zenon DEF SetAccount
  <2>2. /\ DOMAIN Overwrite(cache[n], [x \in {c} |-> entry]) = DOMAIN cache[n] \cup {c}
        /\ DOMAIN Overwrite(accounts[n], [x \in {c} |-> stored]) = DOMAIN accounts[n] \cup {c}
    BY OverwriteDomain, Zenon
  <2>3. \A m \in Node : DOMAIN cache'[m] \subseteq Account /\ DOMAIN accounts'[m] \subseteq Account
    BY <1>0, <2>1, <2>2, StateAssumption, Zenon
  <2> QED
    BY <1>0, <2>1, <2>3, Zenon DEF BoundsOK
<1>5. CASE UNCHANGED vars
  BY <1>5, Zenon DEF vars, store, BoundsOK
<1> QED
  BY <1>1, <1>2, <1>3, <1>4, <1>5, Zenon DEF Next, set_nonce, set_balance

\* Every cached account is a full record with at most one value for its
\* slot, every stored account and leaf is a full record, and no replica is
\* ahead of the chain, when set_nonce and set_balance are not called on an
\* address of the genesis file (crates/state).
THEOREM StateTypesHold == FreshTargets => (Spec => []TypeOK)
<1> SUFFICES ASSUME FreshTargets PROVE Spec => []TypeOK
  BY Zenon
<1>1. CacheInv /\ BoundsOK => TypeOK
  <2> SUFFICES ASSUME CacheInv, BoundsOK PROVE TypeOK
    BY Zenon
  <2>1. ASSUME NEW n \in Node, NEW a \in DOMAIN cache[n]
        PROVE  cache[n][a] \in Entry /\ Cardinality(cache[n][a].slot) <= 1
    <3>1. EntryOK(n, a)
      BY Zenon DEF CacheInv, CachesOK
    <3>2. cache[n][a] \in Entry
      BY <3>1, Zenon DEF EntryOK
    <3>3. \A x : Cardinality({x}) = 1 /\ Cardinality({}) = 0
      BY FS_Singleton, FS_EmptySet, Zenon
    <3>4. Cardinality(cache[n][a].slot) \in {0, 1}
      BY <3>1, <3>3, Zenon DEF EntryOK
    <3> QED
      BY <3>2, <3>4
  <2>2. ASSUME NEW n \in Node
        PROVE  /\ \A a \in DOMAIN accounts[n] : accounts[n][a] \in Leaf
               /\ \A a \in DOMAIN state_trie[n] : state_trie[n][a] \in Leaf
    <3>1. StoreOK(n)
      BY Zenon DEF CacheInv, CachesOK
    <3> QED
      BY <3>1, Zenon DEF StoreOK
  <2>3. height \in [Node -> 0..MaxHeight]
    <3>1. /\ \A n \in Node : height[n] \in Nat /\ height[n] <= Len(chain)
          /\ Len(chain) \in Nat /\ Len(chain) <= MaxHeight /\ MaxHeight \in Nat
          /\ height \in [Node -> Nat]
      BY StateAssumption DEF CacheInv, Shapes, BoundsOK
    <3> QED
      BY <3>1
  <2> QED
    BY <2>1, <2>2, <2>3, Zenon DEF TypeOK, BoundsOK
<1> QED
  BY <1>1, InitCacheInv, StepCacheInv, BoundsInit, BoundsNext, PTL DEF Spec
=============================================================================
