--------------------------- MODULE TxPool_proofs ----------------------------
(***************************************************************************)
(* Proofs about the transaction pool, for every set of senders and         *)
(* transactions and every value of the limits.                             *)
(***************************************************************************)
EXTENDS TxPoolRefinement, FiniteNat

-----------------------------------------------------------------------------
(* Maps keyed by nonce.                                                    *)

\* What a transaction's fields are.
LEMMA TxFields ==
  \A t \in Tx : /\ t.sender \in Sender
                /\ t.nonce \in Nat
                /\ t.tip \in Nat
                /\ t.gas \in Nat
BY TxAssumption

\* The nonces of a finite map.
LEMMA NoncesFinite ==
  ASSUME NEW S \in SUBSET Tx, IsFiniteSet(S)
  PROVE  /\ Nonces(S) \in SUBSET Nat
         /\ IsFiniteSet(Nonces(S))
         /\ S # {} => Nonces(S) # {}
<1> DEFINE f == [t \in S |-> t.nonce]
<1>1. f \in Surjection(S, Nonces(S))
  BY Zenon DEF Surjection, Nonces
<1>2. IsFiniteSet(Nonces(S))
  BY <1>1, FS_Surjection, Zenon
<1> QED
  BY <1>2, TxFields DEF Nonces

\* An upper bound that is a member is the maximum.
LEMMA MaxUnique ==
  ASSUME NEW S \in SUBSET Nat, NEW x \in S, \A y \in S : x >= y
  PROVE  Max(S) = x
<1>1. Max(S) \in S /\ \A y \in S : Max(S) >= y
  BY Zenon DEF Max
<1>2. x \in Nat /\ Max(S) \in Nat /\ x >= Max(S) /\ Max(S) >= x
  BY <1>1, Zenon
<1> QED
  BY <1>2

\* What BTreeMap::insert does to a map: one entry more, or one replaced.
LEMMA InsertProperties ==
  ASSUME NEW S \in SUBSET Tx, IsFiniteSet(S), KeyedByNonce(S), NEW t \in Tx
  PROVE  /\ Insert(S, t) \in SUBSET Tx
         /\ IsFiniteSet(Insert(S, t))
         /\ KeyedByNonce(Insert(S, t))
         /\ Nonces(Insert(S, t)) = Nonces(S) \cup {t.nonce}
         /\ Cardinality(S) \in Nat
         /\ Cardinality(Insert(S, t)) =
              IF At(S, t.nonce) = {} THEN Cardinality(S) + 1 ELSE Cardinality(S)
<1>1. Insert(S, t) \in SUBSET Tx /\ KeyedByNonce(Insert(S, t))
  BY Zenon DEF Insert, At, KeyedByNonce
<1>2. Nonces(Insert(S, t)) = Nonces(S) \cup {t.nonce}
  BY Zenon DEF Insert, At, Nonces
<1>3. Cardinality(S) \in Nat
  BY FS_CardinalityType, Zenon
<1>4. CASE At(S, t.nonce) = {}
  <2>1. t \notin S /\ Insert(S, t) = S \cup {t}
    BY <1>4, Zenon DEF At, Insert
  <2> QED
    BY <1>1, <1>2, <1>3, <1>4, <2>1, FS_AddElement
<1>5. CASE At(S, t.nonce) # {}
  <2>1. PICK u \in S : At(S, t.nonce) = {u} /\ u.nonce = t.nonce
    BY <1>5, Zenon DEF At, KeyedByNonce
  <2>2. IsFiniteSet(S \ {u}) /\ Cardinality(S \ {u}) = Cardinality(S) - 1
    BY <2>1, FS_RemoveElement, Zenon
  <2>3. t \notin S \ {u}
    BY <2>1, Zenon DEF KeyedByNonce
  <2>4. IsFiniteSet((S \ {u}) \cup {t}) /\ Cardinality((S \ {u}) \cup {t}) = Cardinality(S)
    BY <1>3, <2>2, <2>3, FS_AddElement
  <2> QED
    BY <1>1, <1>2, <1>3, <1>5, <2>1, <2>4, Zenon DEF Insert
<1> QED
  BY <1>4, <1>5, Zenon

\* promote_queued_static.  It moves entries of the queue only, to nonces
\* beyond the pending ones, and leaves nothing to promote; it moves nothing
\* when the successor of the last pending nonce is not queued.
LEMMA PromoteProperties ==
  ASSUME NEW p \in SUBSET Tx, IsFiniteSet(p), KeyedByNonce(p),
         NEW q \in SUBSET Tx, IsFiniteSet(q), KeyedByNonce(q),
         NEW n \in Nat
  PROVE  LET m == Promoted(p, q, n)
         IN  /\ m \subseteq q
             /\ KeyedByNonce(p \cup m)
             /\ KeyedByNonce(q \ m)
             /\ p \cup m # {} => Max(Nonces(p \cup m)) + 1 \notin Nonces(q \ m)
             /\ p # {} /\ Max(Nonces(p)) + 1 \notin Nonces(q) => m = {}
<1> DEFINE m == Promoted(p, q, n)
           next == NextNonce(p, n)
<1>1. m \subseteq q
  BY Zenon DEF Promoted
<1>2. p # {} => /\ Max(Nonces(p)) \in Nonces(p)
                /\ \A x \in Nonces(p) : Max(Nonces(p)) >= x
  BY NoncesFinite, MaxOfFinite, Zenon
<1>3. next \in Nat /\ \A t \in p : t.nonce < next
  <2>1. CASE p = {}
    BY <2>1, Zenon DEF NextNonce
  <2>2. CASE p # {}
    <3>1. Max(Nonces(p)) \in Nat /\ next = Max(Nonces(p)) + 1
      BY <1>2, <2>2, NoncesFinite DEF NextNonce
    <3>2. \A t \in p : t.nonce \in Nat /\ Max(Nonces(p)) >= t.nonce
      BY <1>2, <2>2, TxFields DEF Nonces
    <3> QED
      BY <3>1, <3>2
  <2> QED
    BY <2>1, <2>2, Zenon
<1>4. \A t \in m : t.nonce >= next /\ \A k \in next..t.nonce : k \in Nonces(q)
  BY Zenon DEF Promoted
<1>5. KeyedByNonce(p \cup m)
  BY <1>1, <1>3, <1>4, TxFields DEF KeyedByNonce
<1>6. KeyedByNonce(q \ m)
  BY Zenon DEF KeyedByNonce
<1>7. ASSUME p \cup m # {}
      PROVE  Max(Nonces(p \cup m)) + 1 \notin Nonces(q \ m)
  <2> DEFINE x == Max(Nonces(p \cup m))
  <2>1. IsFiniteSet(p \cup m) /\ p \cup m \in SUBSET Tx
    BY <1>1, FS_Subset, FS_Union, Zenon
  <2>2. x \in Nonces(p \cup m) /\ \A y \in Nonces(p \cup m) : x >= y
    BY <1>7, <2>1, NoncesFinite, MaxOfFinite
  <2>3. PICK t \in p \cup m : t.nonce = x
    BY <2>2, SMTT(30) DEF Nonces
  <2>4. x \in Nat
    BY <2>1, <2>3, TxFields, Zenon
  <2> SUFFICES ASSUME NEW u \in q \ m, u.nonce = x + 1
               PROVE  FALSE
    BY Zenon DEF Nonces
  <2>5. x + 1 \in Nonces(q)
    BY Zenon DEF Nonces
  <2>6. CASE m = {}
    <3>1. next = x + 1
      BY <1>7, <2>6, Zenon DEF NextNonce
    <3>2. \A k \in next..u.nonce : k = x + 1
      BY <2>4, <3>1
    <3>3. u.nonce >= next /\ \A k \in next..u.nonce : k \in Nonces(q)
      BY <2>4, <2>5, <3>1, <3>2, SMTT(30)
    <3>4. u \in m
      BY <3>3, Zenon DEF Promoted
    <3> QED
      BY <3>4, Zenon
  <2>7. CASE m # {}
    <3>1. t \in m
      <4>1. PICK v \in m : TRUE
        BY <2>7, Zenon
      <4>2. x >= v.nonce /\ v.nonce >= next /\ v.nonce \in Nat
        BY <1>1, <1>4, <2>2, <4>1, TxFields, SMTT(30) DEF Nonces
      <4> QED
        BY <1>3, <2>3, <2>4, <4>2, SMTT(30)
    <3>2. x >= next /\ \A k \in next..x : k \in Nonces(q)
      BY <1>4, <2>3, <3>1, ZenonT(40)
    <3>3. \A k \in next..(x + 1) : k \in Nonces(q)
      BY <1>3, <2>4, <2>5, <3>2
    <3>4. u \in m
      BY <1>3, <2>4, <3>2, <3>3 DEF Promoted
    <3> QED
      BY <3>4, Zenon
  <2> QED
    BY <2>6, <2>7, Zenon
<1>8. ASSUME p # {}, Max(Nonces(p)) + 1 \notin Nonces(q)
      PROVE  m = {}
  <2>1. next = Max(Nonces(p)) + 1
    BY <1>8, Zenon DEF NextNonce
  <2>2. \A t \in m : next \in next..t.nonce
    BY <1>1, <1>3, <1>4, TxFields, SMTT(30)
  <2> QED
    BY <1>4, <1>8, <2>1, <2>2, Zenon
<1> QED
  BY <1>1, <1>5, <1>6, <1>7, <1>8

-----------------------------------------------------------------------------
(* The inductive invariant.                                                *)

\* What holds of the two maps of sender s between operations.
QueueOK(s, p, q) ==
  /\ KeyedByNonce(p) /\ KeyedByNonce(q)
  /\ p \cap q = {}
  /\ \A t \in p \cup q : t.sender = s
  /\ p # {} => Max(Nonces(p)) + 1 \notin Nonces(q)
  /\ Cardinality(q) <= MaxQueued
  /\ Cardinality(p) <= MaxPending + MaxQueued

IndInv ==
  /\ TypeOK
  /\ IsFiniteSet(by_hash)
  /\ by_hash = UNION {pending[s] \cup queued[s] : s \in Sender}
  /\ \A s \in Sender : pending[s] \cup queued[s] # {} => s \in senders
  /\ \A s \in Sender : QueueOK(s, pending[s], queued[s])

\* The maps of a sender, under the invariant.
LEMMA QueueFinite ==
  ASSUME IndInv, NEW s \in Sender
  PROVE  /\ pending[s] \in SUBSET Tx /\ IsFiniteSet(pending[s])
         /\ queued[s] \in SUBSET Tx /\ IsFiniteSet(queued[s])
         /\ pending[s] \cup queued[s] \subseteq by_hash
<1>1. pending[s] \cup queued[s] \subseteq by_hash
  BY Zenon DEF IndInv
<1> QED
  BY <1>1, FS_Subset, Zenon DEF IndInv, TypeOK

\* Promotion restores the invariant of a sender's maps, from a pending map
\* that is within its own limit or that has nothing to receive.
LEMMA PromoteOK ==
  ASSUME NEW s \in Sender, NEW n \in Nat,
         NEW p \in SUBSET Tx, IsFiniteSet(p), KeyedByNonce(p),
         NEW q \in SUBSET Tx, IsFiniteSet(q), KeyedByNonce(q),
         p \cap q = {}, \A t \in p \cup q : t.sender = s,
         Cardinality(q) <= MaxQueued,
         \/ Cardinality(p) <= MaxPending
         \/ /\ p # {} /\ Max(Nonces(p)) + 1 \notin Nonces(q)
            /\ Cardinality(p) <= MaxPending + MaxQueued
  PROVE  QueueOK(s, p \cup Promoted(p, q, n), q \ Promoted(p, q, n))
<1> DEFINE m == Promoted(p, q, n)
<1>1. /\ m \subseteq q
      /\ KeyedByNonce(p \cup m) /\ KeyedByNonce(q \ m)
      /\ p \cup m # {} => Max(Nonces(p \cup m)) + 1 \notin Nonces(q \ m)
      /\ p # {} /\ Max(Nonces(p)) + 1 \notin Nonces(q) => m = {}
  BY PromoteProperties, Zenon
<1>2. /\ Cardinality(p) \in Nat /\ Cardinality(q) \in Nat
      /\ IsFiniteSet(m) /\ Cardinality(m) \in Nat
      /\ Cardinality(m) <= Cardinality(q)
      /\ Cardinality(q \ m) \in Nat /\ Cardinality(q \ m) <= Cardinality(q)
  <2>1. IsFiniteSet(m) /\ Cardinality(m) <= Cardinality(q)
    BY <1>1, FS_Subset, Zenon
  <2>2. q \ m \in SUBSET q
    BY Zenon
  <2>3. IsFiniteSet(q \ m) /\ Cardinality(q \ m) <= Cardinality(q)
    BY <2>2, FS_Subset, Zenon
  <2> QED
    BY <2>1, <2>3, FS_CardinalityType, Zenon
<1>3. Cardinality(q \ m) <= MaxQueued
  BY <1>2, LimitAssumption
<1>4. Cardinality(p \cup m) <= MaxPending + MaxQueued
  <2>1. CASE Cardinality(p) <= MaxPending
    <3>1. p \cap m = {}
      BY <1>1, Zenon
    <3>2. Cardinality(p \cup m) = Cardinality(p) + Cardinality(m) - Cardinality({})
      BY <1>2, <3>1, FS_Union, Zenon
    <3>3. Cardinality({}) = 0
      BY FS_EmptySet, Zenon
    <3> QED
      BY <1>2, <2>1, <3>2, <3>3, LimitAssumption, SMTT(30)
  <2>2. CASE /\ p # {} /\ Max(Nonces(p)) + 1 \notin Nonces(q)
             /\ Cardinality(p) <= MaxPending + MaxQueued
    <3>1. p \cup m = p
      BY <1>1, <2>2, Zenon
    <3> QED
      BY <2>2, <3>1, Zenon
  <2> QED
    BY <2>1, <2>2, Zenon
<1>5. (p \cup m) \cap (q \ m) = {} /\ \A t \in (p \cup m) \cup (q \ m) : t.sender = s
  BY <1>1, Zenon
<1> QED
  BY <1>1, <1>3, <1>4, <1>5, SMTT(30) DEF QueueOK

\* An empty pool satisfies the invariant.
LEMMA InitOK == Init => IndInv
<1> SUFFICES ASSUME Init PROVE IndInv
  BY Zenon
<1>1. TypeOK
  BY DEF Init, TypeOK
<1>2. IsFiniteSet({}) /\ Cardinality({}) = 0
  BY FS_EmptySet, Zenon
<1>3. by_hash = UNION {pending[s] \cup queued[s] : s \in Sender}
  BY Zenon DEF Init
<1>4. \A s \in Sender : pending[s] = {} /\ queued[s] = {}
  BY Zenon DEF Init
<1>5. \A s \in Sender : QueueOK(s, pending[s], queued[s])
  BY <1>2, <1>4, LimitAssumption, SMTT(30) DEF QueueOK, KeyedByNonce
<1> QED
  BY <1>1, <1>2, <1>3, <1>4, <1>5, SMTT(30) DEF IndInv, Init

\* An accepted submission: the sender's maps are P and Q before promotion,
\* the transaction in one of them in the place of the entries `old`.
LEMMA PlaceOK ==
  ASSUME IndInv, TypeOK', NEW t \in Tx, t \notin by_hash,
         NEW P \in SUBSET Tx, NEW Q \in SUBSET Tx, NEW old,
         P \cup Q = ((pending[t.sender] \cup queued[t.sender]) \ old) \cup {t},
         old \subseteq pending[t.sender] \cup queued[t.sender],
         QueueOK(t.sender, P \cup Promoted(P, Q, accountNonce[t.sender]),
                           Q \ Promoted(P, Q, accountNonce[t.sender])),
         Place(t, P, Q),
         by_hash' = (by_hash \ old) \cup {t},
         senders' = senders \cup {t.sender}
  PROVE  IndInv'
<1> DEFINE s == t.sender
           m == Promoted(P, Q, accountNonce[s])
<1>1. s \in Sender
  BY TxFields, Zenon
<1>2. /\ pending'[s] = P \cup m /\ queued'[s] = Q \ m
      /\ \A x \in Sender : x # s => pending'[x] = pending[x] /\ queued'[x] = queued[x]
  BY <1>1, Zenon DEF Place, IndInv, TypeOK
<1>3. m \subseteq Q
  BY Zenon DEF Promoted
<1>4. pending'[s] \cup queued'[s] = ((pending[s] \cup queued[s]) \ old) \cup {t}
  BY <1>2, <1>3
<1>5. IsFiniteSet(by_hash')
  <2>1. IsFiniteSet(by_hash \ old)
    BY FS_Difference, ZenonT(40) DEF IndInv
  <2> QED
    BY <2>1, FS_AddElement, Zenon
<1>6. by_hash' = UNION {pending'[x] \cup queued'[x] : x \in Sender}
  <2>1. \A x \in Sender : \A u \in pending[x] \cup queued[x] : u.sender = x
    BY Zenon DEF IndInv, QueueOK
  <2>2. ASSUME NEW u \in by_hash'
        PROVE  \E x \in Sender : u \in pending'[x] \cup queued'[x]
    <3>1. CASE u = t
      BY <1>1, <1>4, <3>1
    <3>2. CASE u \in by_hash \ old
      <4>1. PICK x \in Sender : u \in pending[x] \cup queued[x]
        BY <3>2 DEF IndInv
      <4> QED
        BY <1>2, <1>4, <3>2, <4>1, SMTT(30)
    <3> QED
      BY <3>1, <3>2
  <2>3. ASSUME NEW x \in Sender, NEW u \in pending'[x] \cup queued'[x]
        PROVE  u \in by_hash'
    <3>1. CASE x = s
      BY <1>1, <1>4, <3>1, SMTT(30) DEF IndInv
    <3>2. CASE x # s
      <4>1. u \in pending[x] \cup queued[x] /\ u.sender = x
        BY <1>2, <2>1, <3>2
      <4>2. u \notin old
        BY <1>1, <2>1, <3>2, <4>1, SMTT(30)
      <4> QED
        BY <4>1, <4>2 DEF IndInv
    <3> QED
      BY <3>1, <3>2, Zenon
  <2> QED
    BY <2>2, <2>3
<1>7. \A x \in Sender : pending'[x] \cup queued'[x] # {} => x \in senders'
  BY <1>1, <1>2, SMTT(30) DEF IndInv
<1>8. \A x \in Sender : QueueOK(x, pending'[x], queued'[x])
  BY <1>1, <1>2, ZenonT(40) DEF IndInv
<1>9. \A x \in Sender : QueueOK(x, pending[x], queued[x])'
  BY <1>8, Zenon DEF QueueOK
<1> QED
  BY <1>5, <1>6, <1>7, <1>9, Zenon DEF IndInv

\* submit_tx keeps the invariant.
LEMMA SubmitTxOK ==
  ASSUME IndInv, NEW t \in Tx, SubmitTx(t)
  PROVE  IndInv'
<1> DEFINE s == t.sender
           p == pending[s]
           q == queued[s]
           n == accountNonce[s]
<1>1. /\ s \in Sender /\ n \in Nat /\ t.nonce \in Nat
      /\ t \notin by_hash
      /\ senders' = senders \cup {s}
      /\ payload' = <<>> /\ accountNonce' = accountNonce
  BY TxFields, Zenon DEF SubmitTx, IndInv, TypeOK
<1>2. /\ p \in SUBSET Tx /\ IsFiniteSet(p) /\ Cardinality(p) \in Nat
      /\ q \in SUBSET Tx /\ IsFiniteSet(q) /\ Cardinality(q) \in Nat
      /\ p \cup q \subseteq by_hash
  BY <1>1, QueueFinite, FS_CardinalityType, SMTT(30)
<1>3. /\ KeyedByNonce(p) /\ KeyedByNonce(q)
      /\ p \cap q = {}
      /\ \A u \in p \cup q : u.sender = s
      /\ p # {} => Max(Nonces(p)) + 1 \notin Nonces(q)
      /\ Cardinality(q) <= MaxQueued
      /\ Cardinality(p) <= MaxPending + MaxQueued
  BY <1>1, SMTT(30) DEF IndInv, QueueOK
<1>4. CASE /\ IsPending(t) /\ Accepts(p, MaxPending, t)
           /\ Place(t, Insert(p, t), q)
           /\ by_hash' = (by_hash \ At(p, t.nonce)) \cup {t}
  <2> DEFINE P == Insert(p, t)
  <2>1. /\ P \in SUBSET Tx /\ IsFiniteSet(P) /\ KeyedByNonce(P)
        /\ Nonces(P) = Nonces(p) \cup {t.nonce}
        /\ Cardinality(P) = IF At(p, t.nonce) = {} THEN Cardinality(p) + 1
                                                   ELSE Cardinality(p)
    BY <1>2, <1>3, InsertProperties, Zenon
  <2>2. P \cap q = {} /\ \A u \in P \cup q : u.sender = s
    BY <1>1, <1>2, <1>3 DEF Insert
  <2>3. \/ Cardinality(P) <= MaxPending
        \/ /\ P # {} /\ Max(Nonces(P)) + 1 \notin Nonces(q)
           /\ Cardinality(P) <= MaxPending + MaxQueued
    <3>1. CASE At(p, t.nonce) = {}
      <4>1. Cardinality(p) < MaxPending
        BY <1>4, <3>1, Zenon DEF Accepts
      <4>2. Cardinality(P) = Cardinality(p) + 1
        BY <2>1, <3>1, SMTT(30)
      <4> HIDE DEF P, p
      <4> QED
        BY <1>2, <4>1, <4>2, LimitAssumption, SMTT(30)
    <3>2. CASE At(p, t.nonce) # {}
      <4>1. Nonces(P) = Nonces(p) /\ p # {} /\ P # {}
        BY <2>1, <3>2 DEF At, Nonces, Insert
      <4> QED
        BY <1>3, <2>1, <3>2, <4>1, Zenon
    <3> QED
      BY <3>1, <3>2, Zenon
  <2>4. QueueOK(s, P \cup Promoted(P, q, n), q \ Promoted(P, q, n))
    BY <1>1, <1>2, <1>3, <2>1, <2>2, <2>3, PromoteOK, ZenonT(40)
  <2>5. TypeOK'
    <3>1. Promoted(P, q, n) \subseteq q
      BY Zenon DEF Promoted
    <3>2. pending' \in [Sender -> SUBSET Tx] /\ queued' \in [Sender -> SUBSET Tx]
      <4> DEFINE m == Promoted(P, q, n)
      <4>1. P \cup m \in SUBSET Tx /\ q \ m \in SUBSET Tx
        BY <1>2, <2>1, <3>1
      <4>2. /\ pending' = [pending EXCEPT ![s] = P \cup m]
            /\ queued' = [queued EXCEPT ![s] = q \ m]
        BY <1>4, Zenon DEF Place
      <4>3. pending \in [Sender -> SUBSET Tx] /\ queued \in [Sender -> SUBSET Tx]
        BY Zenon DEF IndInv, TypeOK
      <4> HIDE DEF P, m, q, s
      <4> QED
        BY <4>1, <4>2, <4>3, Zenon
    <3>3. senders' \subseteq Sender /\ by_hash' \subseteq Tx
      BY <1>1, <1>4, Zenon DEF IndInv, TypeOK
    <3>4. accountNonce' \in [Sender -> Nat] /\ payload' \in Seq(Tx)
      BY <1>1 DEF IndInv, TypeOK
    <3> QED
      BY <3>2, <3>3, <3>4 DEF TypeOK
  <2>6. P \cup q = ((p \cup q) \ At(p, t.nonce)) \cup {t} /\ At(p, t.nonce) \subseteq p \cup q
    BY <1>3, Zenon DEF Insert, At
  <2> QED
    BY <1>1, <1>2, <1>4, <2>1, <2>4, <2>5, <2>6, PlaceOK, Zenon
<1>5. CASE /\ ~IsPending(t) /\ Accepts(q, MaxQueued, t)
           /\ Place(t, p, Insert(q, t))
           /\ by_hash' = (by_hash \ At(q, t.nonce)) \cup {t}
  <2> DEFINE Q == Insert(q, t)
  <2>1. /\ Q \in SUBSET Tx /\ IsFiniteSet(Q) /\ KeyedByNonce(Q)
        /\ Nonces(Q) = Nonces(q) \cup {t.nonce}
        /\ Cardinality(Q) = IF At(q, t.nonce) = {} THEN Cardinality(q) + 1
                                                   ELSE Cardinality(q)
    BY <1>2, <1>3, InsertProperties, SMTT(30)
  <2>2. p \cap Q = {} /\ \A u \in p \cup Q : u.sender = s
    BY <1>1, <1>2, <1>3, SMTT(30) DEF Insert
  <2>3. Cardinality(Q) <= MaxQueued
    <3>1. At(q, t.nonce) # {} \/ Cardinality(q) < MaxQueued
      BY <1>5, Zenon DEF Accepts
    <3>2. \/ Cardinality(Q) = Cardinality(q)
          \/ Cardinality(Q) = Cardinality(q) + 1 /\ Cardinality(q) < MaxQueued
      BY <2>1, <3>1, Zenon
    <3> HIDE DEF Q, q
    <3> QED
      BY <1>2, <1>3, <3>2, LimitAssumption, SMTT(30)
  <2>4. \/ Cardinality(p) <= MaxPending
        \/ /\ p # {} /\ Max(Nonces(p)) + 1 \notin Nonces(Q)
           /\ Cardinality(p) <= MaxPending + MaxQueued
    <3>1. CASE p = {}
      BY <3>1, FS_EmptySet, LimitAssumption, SMTT(30)
    <3>2. CASE p # {}
      <4>1. Max(Nonces(p)) \in Nonces(p) /\ Max(Nonces(p)) \in Nat
        BY <1>2, <3>2, NoncesFinite, MaxOfFinite, Zenon
      <4>2. t.nonce # Max(Nonces(p)) + 1
        BY <1>1, <1>5, <4>1, SMTT(30) DEF IsPending, SaturatingSub1
      <4> QED
        BY <1>3, <2>1, <3>2, <4>2, Zenon
    <3> QED
      BY <3>1, <3>2, Zenon
  <2>5. QueueOK(s, p \cup Promoted(p, Q, n), Q \ Promoted(p, Q, n))
    BY <1>1, <1>2, <1>3, <2>1, <2>2, <2>3, <2>4, PromoteOK, SMTT(30)
  <2>6. TypeOK'
    <3>1. Promoted(p, Q, n) \subseteq Q
      BY Zenon DEF Promoted
    <3>2. pending' \in [Sender -> SUBSET Tx] /\ queued' \in [Sender -> SUBSET Tx]
      <4> DEFINE m == Promoted(p, Q, n)
      <4>1. p \cup m \in SUBSET Tx /\ Q \ m \in SUBSET Tx
        BY <1>2, <2>1, <3>1
      <4>2. /\ pending' = [pending EXCEPT ![s] = p \cup m]
            /\ queued' = [queued EXCEPT ![s] = Q \ m]
        BY <1>5, Zenon DEF Place
      <4>3. pending \in [Sender -> SUBSET Tx] /\ queued \in [Sender -> SUBSET Tx]
        BY Zenon DEF IndInv, TypeOK
      <4> HIDE DEF Q, m, p, s
      <4> QED
        BY <4>1, <4>2, <4>3, ZenonT(40)
    <3>3. senders' \subseteq Sender /\ by_hash' \subseteq Tx
      BY <1>1, <1>5, SMTT(30) DEF IndInv, TypeOK
    <3>4. accountNonce' \in [Sender -> Nat] /\ payload' \in Seq(Tx)
      BY <1>1 DEF IndInv, TypeOK
    <3> QED
      BY <3>2, <3>3, <3>4, Zenon DEF TypeOK
  <2>7. p \cup Q = ((p \cup q) \ At(q, t.nonce)) \cup {t} /\ At(q, t.nonce) \subseteq p \cup q
    BY <1>3, Zenon DEF Insert, At
  <2> QED
    BY <1>1, <1>2, <1>5, <2>1, <2>5, <2>6, <2>7, PlaceOK, Zenon
<1>6. CASE UNCHANGED <<pending, queued, by_hash>>
  <2>1. TypeOK'
    BY <1>1, <1>6, SMTT(30) DEF IndInv, TypeOK
  <2>2. \A x \in Sender : QueueOK(x, pending[x], queued[x])'
    BY <1>6, Zenon DEF IndInv, QueueOK
  <2> QED
    BY <1>1, <1>6, <2>1, <2>2, SMTT(30) DEF IndInv
<1> QED
  BY <1>4, <1>5, <1>6 DEF SubmitTx

\* The first entry of a map.
LEMMA FirstProperties ==
  ASSUME NEW S \in SUBSET Tx, S # {}
  PROVE  First(S) \in S /\ \A u \in S : First(S).nonce <= u.nonce
<1>1. Nonces(S) \in SUBSET Nat /\ Nonces(S) # {}
  BY TxFields, Zenon DEF Nonces
<1>2. PICK x \in Nonces(S) : \A y \in Nonces(S) : x <= y
  BY <1>1, LeastNat, Zenon
<1>3. \E t \in S : \A u \in S : t.nonce <= u.nonce
  BY <1>2, Zenon DEF Nonces
<1> QED
  BY <1>3, Zenon DEF First

\* The candidates are pending, one per sender, each the first of its map.
LEMMA CandidateProperties ==
  ASSUME IndInv, NEW t \in Candidates
  PROVE  /\ t \in Tx /\ t.sender \in Sender
         /\ t \in pending[t.sender] /\ t \in by_hash
         /\ t = First(pending[t.sender])
         /\ \A u \in pending[t.sender] : t.nonce <= u.nonce
<1>1. PICK s \in senders : pending[s] # {} /\ t = First(pending[s])
  BY Zenon DEF Candidates
<1>2. s \in Sender /\ pending[s] \in SUBSET Tx /\ pending[s] \subseteq by_hash
  BY QueueFinite, Zenon DEF IndInv, TypeOK
<1>3. t \in pending[s] /\ \A u \in pending[s] : t.nonce <= u.nonce
  BY <1>1, <1>2, FirstProperties, Zenon
<1>4. t.sender = s
  BY <1>2, <1>3, Zenon DEF IndInv, QueueOK
<1> QED
  BY <1>1, <1>2, <1>3, <1>4

\* What a payload holds: the included candidates, each once.
LEMMA PayloadProperties ==
  ASSUME NEW ord, NEW inc \in SUBSET Tx, IsFiniteSet(inc), NEW f \in Encoded(ord, inc)
  PROVE  f \in Seq(Tx) /\ Range(f) = inc
<1>1. /\ Cardinality(inc) \in Nat
      /\ f \in [1..Cardinality(inc) -> inc]
      /\ \A i, j \in 1..Cardinality(inc) : i # j => f[i] # f[j]
  BY FS_CardinalityType, Zenon DEF Encoded, Listings, Injection, IsInjective
<1>2. f \in Seq(Tx)
  BY <1>1
<1>3. f \in Injection(1..Cardinality(inc), inc)
  BY <1>1, Zenon DEF Injection, IsInjective
<1>4. IsFiniteSet(1..Cardinality(inc)) /\ Cardinality(1..Cardinality(inc)) = Cardinality(inc)
  BY <1>1, FS_Interval
<1>5. f \in Surjection(1..Cardinality(inc), inc)
  BY <1>3, <1>4, FS_Injection, Zenon
<1> QED
  BY <1>1, <1>2, <1>5 DEF Range, Surjection

\* collect_payload keeps the invariant: it removes first entries, so the
\* last pending nonce of a sender with anything left is the one it had.
LEMMA CollectPayloadOK ==
  ASSUME IndInv, CollectPayload
  PROVE  IndInv'
<1>1. PICK ord \in Orders, inc \in SUBSET Candidates :
        /\ payload' \in Encoded(ord, inc)
        /\ pending' = [s \in Sender |-> pending[s] \ inc]
        /\ by_hash' = by_hash \ inc
        /\ UNCHANGED <<senders, queued, accountNonce>>
  BY Zenon DEF CollectPayload
<1>2. \A t \in inc : /\ t \in Tx /\ t.sender \in Sender
                     /\ t \in pending[t.sender] /\ t \in by_hash
                     /\ \A u \in pending[t.sender] : t.nonce <= u.nonce
  BY CandidateProperties, Zenon
<1>3. IsFiniteSet(inc) /\ inc \in SUBSET Tx
  BY <1>2, FS_Subset, Zenon DEF IndInv
<1>4. TypeOK'
  BY <1>1, <1>3, PayloadProperties, Zenon DEF IndInv, TypeOK
<1>5. IsFiniteSet(by_hash')
  BY <1>1, FS_Difference, Zenon DEF IndInv
<1>6. by_hash' = UNION {pending'[s] \cup queued'[s] : s \in Sender}
  <2>1. \A s \in Sender : queued[s] \cap inc = {}
    BY <1>2, Zenon DEF IndInv, QueueOK
  <2> QED
    BY <1>1, <2>1 DEF IndInv
<1>7. \A s \in Sender : pending'[s] \cup queued'[s] # {} => s \in senders'
  BY <1>1, Zenon DEF IndInv
<1>8. ASSUME NEW s \in Sender
      PROVE  QueueOK(s, pending'[s], queued'[s])
  <2> DEFINE p == pending[s]
             q == queued[s]
             r == p \ inc
  <2>1. pending'[s] = r /\ queued'[s] = q
    BY <1>1, Zenon
  <2>2. /\ p \in SUBSET Tx /\ IsFiniteSet(p) /\ QueueOK(s, p, q)
        /\ r \in SUBSET Tx /\ IsFiniteSet(r)
    BY QueueFinite, FS_Difference, Zenon DEF IndInv
  <2>3. Cardinality(r) \in Nat /\ Cardinality(p) \in Nat /\ Cardinality(r) <= Cardinality(p)
    BY <2>2, FS_Subset, FS_CardinalityType, Zenon
  <2>4. Cardinality(r) <= MaxPending + MaxQueued
    BY <2>2, <2>3, LimitAssumption DEF QueueOK
  <2>5. ASSUME r # {}
        PROVE  Max(Nonces(r)) = Max(Nonces(p))
    <3>1. Max(Nonces(p)) \in Nonces(p) /\ \A y \in Nonces(p) : Max(Nonces(p)) >= y
      BY <2>2, <2>5, NoncesFinite, MaxOfFinite, Zenon
    <3>2. PICK t \in p : t.nonce = Max(Nonces(p))
      BY <3>1, ZenonT(40) DEF Nonces
    <3>3. PICK u \in r : TRUE
      BY <2>5, Zenon
    <3>4. t \notin inc
      <4> SUFFICES ASSUME t \in inc PROVE FALSE
        BY Zenon
      <4>1. t.nonce <= u.nonce /\ t.nonce >= u.nonce
        BY <1>2, <2>2, <3>1, <3>2, <3>3 DEF Nonces, QueueOK
      <4>2. t = u
        BY <2>2, <3>2, <3>3, <4>1, TxFields, SMTT(30) DEF QueueOK, KeyedByNonce
      <4> QED
        BY <3>3, <4>2, Zenon
    <3>5. t.nonce \in Nonces(r) /\ \A y \in Nonces(r) : t.nonce >= y
      BY <3>1, <3>2, <3>4, Zenon DEF Nonces
    <3> QED
      BY <2>2, <3>2, <3>5, MaxUnique, NoncesFinite, Zenon
  <2> QED
    BY <2>1, <2>2, <2>4, <2>5 DEF QueueOK, KeyedByNonce
<1>9. \A s \in Sender : QueueOK(s, pending[s], queued[s])'
  BY <1>8, Zenon DEF QueueOK
<1> QED
  BY <1>4, <1>5, <1>6, <1>7, <1>9, SMTT(30) DEF IndInv

\* on_commit keeps the invariant: what it drops is stale, and what is left
\* pending ends where it did.
LEMMA OnCommitOK ==
  ASSUME IndInv, OnCommit
  PROVE  IndInv'
<1> DEFINE p(s) == pending[s] \ Stale(pending[s], accountNonce[s])
           q(s) == queued[s] \ Stale(queued[s], accountNonce[s])
           m(s) == Promoted(p(s), q(s), accountNonce[s])
           st(s) == Stale(pending[s] \cup queued[s], accountNonce[s])
<1>1. /\ pending' = [s \in Sender |-> IF s \in senders THEN p(s) \cup m(s) ELSE pending[s]]
      /\ queued' = [s \in Sender |-> IF s \in senders THEN q(s) \ m(s) ELSE queued[s]]
      /\ by_hash' = by_hash \ UNION {st(s) : s \in senders}
      /\ senders' = {s \in senders : pending'[s] \cup queued'[s] # {}}
      /\ payload' = <<>> /\ accountNonce' = accountNonce
  BY Zenon DEF OnCommit, StaleHashes
<1>2. \A s \in Sender : m(s) \subseteq q(s)
  BY Zenon DEF Promoted
<1>3. \A s \in senders : s \in Sender
  BY Zenon DEF IndInv, TypeOK
<1>4. TypeOK'
  <2>1. \A s \in Sender : /\ pending[s] \subseteq Tx /\ p(s) \cup m(s) \subseteq Tx
                         /\ queued[s] \subseteq Tx /\ q(s) \ m(s) \subseteq Tx
    BY <1>2, Zenon DEF IndInv, TypeOK
  <2>2. pending' \in [Sender -> SUBSET Tx] /\ queued' \in [Sender -> SUBSET Tx]
    <3> HIDE DEF p, q, m
    <3> QED
      BY <1>1, <2>1, Zenon
  <2>3. senders' \subseteq Sender /\ by_hash' \subseteq Tx
    BY <1>1, Zenon DEF IndInv, TypeOK
  <2>4. accountNonce' \in [Sender -> Nat] /\ payload' \in Seq(Tx)
    <3>1. accountNonce' = accountNonce /\ payload' = <<>>
      BY <1>1, Zenon
    <3> QED
      BY <3>1 DEF IndInv, TypeOK
  <2> HIDE DEF p, q, m, st
  <2> QED
    BY <2>2, <2>3, <2>4, Zenon DEF TypeOK
<1>5. \A s \in senders : pending'[s] \cup queued'[s] = (pending[s] \cup queued[s]) \ st(s)
  BY <1>1, <1>2, <1>3, Zenon DEF Stale
<1>6. \A s \in Sender \ senders : pending'[s] = {} /\ queued'[s] = {}
                                 /\ pending[s] = {} /\ queued[s] = {}
  BY <1>1, Zenon DEF IndInv
<1>7. IsFiniteSet(by_hash')
  BY <1>1, FS_Difference, Zenon DEF IndInv
<1>8. by_hash' = UNION {pending'[s] \cup queued'[s] : s \in Sender}
  <2>1. \A s \in Sender : \A t \in pending[s] \cup queued[s] : t.sender = s
    BY Zenon DEF IndInv, QueueOK
  <2>2. \A s \in Sender : st(s) \subseteq pending[s] \cup queued[s]
    BY Zenon DEF Stale
  <2>3. ASSUME NEW u \in by_hash'
        PROVE  \E s \in Sender : u \in pending'[s] \cup queued'[s]
    <3>1. PICK s \in Sender : u \in pending[s] \cup queued[s]
      BY <1>1, Zenon DEF IndInv
    <3>2. s \in senders
      BY <3>1, Zenon DEF IndInv
    <3>3. u \notin st(s)
      BY <1>1, <3>2, Zenon
    <3> QED
      BY <1>5, <3>1, <3>2, <3>3, Zenon
  <2>4. ASSUME NEW s \in Sender, NEW u \in pending'[s] \cup queued'[s]
        PROVE  u \in by_hash'
    <3>1. s \in senders
      BY <1>6, Zenon
    <3>2. u \in (pending[s] \cup queued[s]) \ st(s)
      BY <1>5, <3>1, Zenon
    <3>3. \A x \in senders : u \notin st(x)
      <4> SUFFICES ASSUME NEW x \in senders, u \in st(x) PROVE FALSE
        BY Zenon
      <4>1. u \in pending[x] \cup queued[x] /\ x \in Sender
        BY <1>3, <2>2, Zenon
      <4>2. u.sender = x /\ u.sender = s
        BY <2>1, <3>2, <4>1, Zenon
      <4> QED
        BY <3>2, <4>2, Zenon
    <3> QED
      BY <1>1, <3>2, <3>3, Zenon DEF IndInv
  <2> QED
    BY <2>3, <2>4, Zenon
<1>9. \A s \in Sender : pending'[s] \cup queued'[s] # {} => s \in senders'
  BY <1>1, <1>6, Zenon
<1>10. ASSUME NEW s \in Sender
       PROVE  QueueOK(s, pending'[s], queued'[s])
  <2>1. CASE s \notin senders
    BY <1>6, <2>1, Zenon DEF IndInv
  <2>2. CASE s \in senders
    <3>1. /\ pending[s] \in SUBSET Tx /\ IsFiniteSet(pending[s])
          /\ queued[s] \in SUBSET Tx /\ IsFiniteSet(queued[s])
          /\ QueueOK(s, pending[s], queued[s])
          /\ accountNonce[s] \in Nat
      BY QueueFinite, Zenon DEF IndInv, TypeOK
    <3>2. /\ p(s) \in SUBSET pending[s] /\ p(s) \in SUBSET Tx /\ IsFiniteSet(p(s))
          /\ q(s) \in SUBSET queued[s] /\ q(s) \in SUBSET Tx /\ IsFiniteSet(q(s))
      BY <3>1, FS_Difference, ZenonT(40)
    <3>3. /\ KeyedByNonce(p(s)) /\ KeyedByNonce(q(s)) /\ p(s) \cap q(s) = {}
          /\ \A t \in p(s) \cup q(s) : t.sender = s
      BY <3>1, <3>2, Zenon DEF QueueOK, KeyedByNonce
    <3>4. /\ Cardinality(p(s)) \in Nat /\ Cardinality(p(s)) <= Cardinality(pending[s])
          /\ Cardinality(q(s)) \in Nat /\ Cardinality(q(s)) <= Cardinality(queued[s])
          /\ Cardinality(pending[s]) \in Nat /\ Cardinality(queued[s]) \in Nat
      BY <3>1, <3>2, FS_Subset, FS_CardinalityType
    <3>5. /\ Cardinality(q(s)) <= MaxQueued
          /\ Cardinality(p(s)) <= MaxPending + MaxQueued
      <4>1. /\ Cardinality(queued[s]) <= MaxQueued
            /\ Cardinality(pending[s]) <= MaxPending + MaxQueued
        BY <3>1, Zenon DEF QueueOK
      <4> HIDE DEF p, q
      <4> QED
        BY <3>4, <4>1, LimitAssumption
    <3>6. \/ Cardinality(p(s)) <= MaxPending
          \/ /\ p(s) # {} /\ Max(Nonces(p(s))) + 1 \notin Nonces(q(s))
             /\ Cardinality(p(s)) <= MaxPending + MaxQueued
      <4>1. CASE p(s) = {}
        <5>1. Cardinality(p(s)) = 0
          BY <4>1, FS_EmptySet, Zenon
        <5> QED
          BY <5>1, LimitAssumption
      <4>2. CASE p(s) # {}
        <5>1. /\ Max(Nonces(pending[s])) \in Nonces(pending[s])
              /\ \A y \in Nonces(pending[s]) : Max(Nonces(pending[s])) >= y
          BY <3>1, <4>2, NoncesFinite, MaxOfFinite, SMTT(30)
        <5>2. PICK t \in pending[s] : t.nonce = Max(Nonces(pending[s]))
          BY <5>1, ZenonT(40) DEF Nonces
        <5>3. PICK u \in p(s) : TRUE
          BY <4>2, Zenon
        <5>4. /\ t.nonce \in Nat /\ u.nonce \in Nat /\ t.nonce >= u.nonce
              /\ ~(u.nonce < accountNonce[s])
          BY <3>1, <3>2, <5>1, <5>2, <5>3, TxFields DEF Nonces, Stale
        <5>5. t \in p(s)
          BY <3>1, <5>2, <5>4, SMTT(30) DEF Stale
        <5>6. t.nonce \in Nonces(p(s)) /\ \A y \in Nonces(p(s)) : t.nonce >= y
          BY <3>2, <5>1, <5>2, <5>5, Zenon DEF Nonces
        <5>7. Max(Nonces(p(s))) = Max(Nonces(pending[s]))
          BY <3>2, <5>2, <5>6, MaxUnique, NoncesFinite, Zenon
        <5>8. Max(Nonces(p(s))) + 1 \notin Nonces(q(s))
          BY <3>1, <3>2, <4>2, <5>7, ZenonT(40) DEF QueueOK, Nonces
        <5> HIDE DEF p, q
        <5> QED
          BY <3>5, <4>2, <5>8, Zenon
      <4> QED
        BY <4>1, <4>2, Zenon
    <3>7. QueueOK(s, p(s) \cup m(s), q(s) \ m(s))
      <4> HIDE DEF p, q
      <4> QED
        BY <3>1, <3>2, <3>3, <3>5, <3>6, PromoteOK
    <3> QED
      BY <1>1, <2>2, <3>7, Zenon
  <2> QED
    BY <2>1, <2>2, Zenon
<1>11. \A s \in Sender : QueueOK(s, pending[s], queued[s])'
  BY <1>10, Zenon DEF QueueOK
<1> QED
  BY <1>4, <1>7, <1>8, <1>9, <1>11, SMTT(30) DEF IndInv

\* Steps that leave the pool alone.
LEMMA PoolUnchangedOK ==
  ASSUME IndInv, UNCHANGED poolVars, TypeOK'
  PROVE  IndInv'
<1>1. \A s \in Sender : QueueOK(s, pending[s], queued[s])'
  BY Zenon DEF IndInv, QueueOK, poolVars
<1> QED
  BY <1>1, Zenon DEF IndInv, poolVars

\* Every step of the pool and of its environment keeps the invariant.
LEMMA NextOK == IndInv /\ [Next]_vars => IndInv'
<1> SUFFICES ASSUME IndInv, [Next]_vars PROVE IndInv'
  BY Zenon
<1>1. CASE \E t \in Tx : SubmitTx(t)
  BY <1>1, SubmitTxOK, Zenon
<1>2. CASE CollectPayload
  BY <1>2, CollectPayloadOK, Zenon
<1>3. CASE OnCommit
  BY <1>3, OnCommitOK, Zenon
<1>4. CASE AdvanceNonces
  <2>1. TypeOK'
    BY <1>4, LimitAssumption DEF AdvanceNonces, IndInv, TypeOK, poolVars
  <2> QED
    BY <1>4, <2>1, PoolUnchangedOK, Zenon DEF AdvanceNonces
<1>5. CASE UNCHANGED vars
  <2>1. TypeOK'
    BY <1>5, Zenon DEF IndInv, TypeOK, vars, poolVars
  <2> QED
    BY <1>5, <2>1, PoolUnchangedOK, Zenon DEF vars
<1> QED
  BY <1>1, <1>2, <1>3, <1>4, <1>5, Zenon DEF Next

-----------------------------------------------------------------------------
(* The theorems.                                                           *)

\* The inductive invariant holds in every state of the pool.
THEOREM PoolInvariant == Spec => []IndInv
BY InitOK, NextOK, PTL DEF Spec

\* The maps, the index and the payload keep their types (EvmTxPool).
THEOREM PoolTypeOK == Spec => []TypeOK
<1>1. IndInv => TypeOK
  BY Zenon DEF IndInv
<1> QED
  BY <1>1, PoolInvariant, PTL

\* The hash index is exact in every state, for every set of senders and
\* transactions and all limits: no operation of EvmTxPool leaks a hash,
\* loses one, or leaves an entry where no operation would visit it.
THEOREM PoolIndexExact == Spec => []HashIndexExact
<1>1. IndInv => HashIndexExact
  BY Zenon DEF IndInv, QueueOK, HashIndexExact
<1> QED
  BY <1>1, PoolInvariant, PTL

\* No promotion overwrites a pending entry (promote_queued_static).
THEOREM PoolKeyed == Spec => []OneEntryPerNonce
<1>1. IndInv => OneEntryPerNonce
  BY Zenon DEF IndInv, QueueOK, OneEntryPerNonce
<1> QED
  BY <1>1, PoolInvariant, PTL

\* Nothing promotable is ever left in the queue behind a pending run.
THEOREM PoolPromoted == Spec => []NothingLeftToPromote
<1>1. IndInv => NothingLeftToPromote
  BY Zenon DEF IndInv, QueueOK, NothingLeftToPromote
<1> QED
  BY <1>1, PoolInvariant, PTL

\* The memory one sender can occupy is bounded by the configured limits:
\* max_queued_per_sender queued transactions, and pending ones up to the
\* sum of the two limits, although promotion checks neither.
THEOREM PoolBounded == Spec => []QueuesBounded
<1>1. IndInv => QueuesBounded
  BY Zenon DEF IndInv, QueueOK, QueuesBounded
<1> QED
  BY <1>1, PoolInvariant, PTL

-----------------------------------------------------------------------------
(* The gas of a payload.                                                   *)

GasLimits == [t \in Tx |-> t.gas]

\* The sum that the property and the loop speak of.
LEMMA GasIsSum ==
  ASSUME NEW S \in SUBSET Tx, IsFiniteSet(S)
  PROVE  /\ MapThenSumSet(LAMBDA t : t.gas, S) = SumOf(GasLimits, S)
         /\ SumOf(GasLimits, S) \in Nat
<1> DEFINE h == GasLimits
           Is(g) == g = [s \in SUBSET S |->
                          IF s = {} THEN 0 ELSE AnyOf(s).gas + g[s \ {AnyOf(s)}]]
           it == CHOOSE g : Is(g)
<1>1. MapThenSumSet(LAMBDA t : t.gas, S) = it[S]
  BY Zenon DEF MapThenSumSet, MapThenFoldSet, AnyOf
<1>2. \A t \in S : h[t] \in Nat
  BY TxFields, Zenon DEF GasLimits
<1>3. ASSUME NEW g PROVE Is(g) <=> IsSum(g, h, S)
  <2>1. \A s \in SUBSET S : s # {} => h[AnyOf(s)] = AnyOf(s).gas
    BY AnyOfIn, Zenon DEF GasLimits
  <2> HIDE DEF h
  <2> QED
    BY <2>1, Zenon DEF IsSum
<1> HIDE DEF Is, h
<1>4. Is(it)
  <2>1. \E g : IsSum(g, h, S)
    BY SumExists, Zenon
  <2>2. \E g : Is(g)
    BY <1>3, <2>1, Zenon
  <2> QED
    BY <2>2, Zenon
<1> HIDE DEF it
<1>5. it[S] = SumOf(h, S) /\ SumOf(h, S) \in Nat
  BY <1>2, <1>3, <1>4, SumIs, SumType, Zenon
<1> QED
  BY <1>1, <1>5, Zenon DEF h

\* An order of the candidates names each of them once.
LEMMA OrderProperties ==
  ASSUME IndInv, NEW ord \in Orders
  PROVE  /\ IsFiniteSet(Candidates) /\ Candidates \in SUBSET Tx
         /\ \E N \in Nat : /\ ord \in [1..N -> Candidates]
                           /\ \A i, j \in 1..N : i # j => ord[i] # ord[j]
                           /\ \A t \in Candidates : \E i \in 1..N : ord[i] = t
<1> DEFINE N == Cardinality(Candidates)
<1>1. Candidates \in SUBSET by_hash /\ Candidates \in SUBSET Tx
  BY CandidateProperties, Zenon
<1>2. IsFiniteSet(Candidates)
  BY <1>1, FS_Subset, Zenon DEF IndInv
<1>3. N \in Nat /\ ord \in [1..N -> Candidates] /\ \A i, j \in 1..N : i # j => ord[i] # ord[j]
  BY <1>2, FS_CardinalityType, Zenon DEF Orders, Listings, Injection, IsInjective
<1>4. ord \in Injection(1..N, Candidates)
  BY <1>3, Zenon DEF Injection, IsInjective
<1>5. IsFiniteSet(1..N) /\ Cardinality(1..N) = N
  BY <1>3, FS_Interval
<1>6. ord \in Surjection(1..N, Candidates)
  BY <1>2, <1>4, <1>5, FS_Injection, Zenon
<1> QED
  BY <1>1, <1>2, <1>3, <1>6, Zenon DEF Surjection

\* What the loop has included never exceeds the limit: by induction on the
\* position in the order.
LEMMA IncludedGas ==
  ASSUME IndInv, GasFits, MaxGas > 0, NEW ord \in Orders, NEW inc \in SUBSET Candidates,
         Includes(ord, inc)
  PROVE  IsFiniteSet(inc) /\ inc \in SUBSET Tx /\ SumOf(GasLimits, inc) <= MaxGas
<1>0. IsFiniteSet(Candidates) /\ Candidates \in SUBSET Tx /\ IsFiniteSet(inc) /\ inc \in SUBSET Tx
  BY OrderProperties, FS_Subset, Zenon
<1>1. PICK N \in Nat : /\ ord \in [1..N -> Candidates]
                       /\ \A i, j \in 1..N : i # j => ord[i] # ord[j]
                       /\ \A t \in Candidates : \E i \in 1..N : ord[i] = t
  BY OrderProperties, Zenon
<1> DEFINE B(i) == Before(ord, inc, i)
           Bad == {i \in Nat : i <= N /\ ~(SumOf(GasLimits, B(i + 1)) <= MaxGas)}
<1>2. \A i : B(i) \in SUBSET Tx /\ IsFiniteSet(B(i))
  <2>1. \A i : B(i) \in SUBSET inc
    BY Zenon DEF Before
  <2> QED
    BY <1>0, <2>1, FS_Subset, Zenon
<1>3. \A i : SumOf(GasLimits, B(i)) \in Nat
  <2> HIDE DEF B
  <2> QED
    BY <1>2, GasIsSum, Zenon
<1>4. Bad = {}
  <2> SUFFICES ASSUME Bad # {} PROVE FALSE
    BY Zenon
  <2>0. Bad \in SUBSET Nat
    BY Zenon
  <2>1. PICK i \in Bad : \A m \in Bad : i <= m
    <3> HIDE DEF Bad
    <3> QED
      BY <2>0, LeastNat, Zenon
  <2>2. i \in Nat /\ i <= N /\ ~(SumOf(GasLimits, B(i + 1)) <= MaxGas)
    <3> HIDE DEF B
    <3> QED
      BY <2>1, Zenon
  <2>3. i # 0
    <3> SUFFICES ASSUME i = 0 PROVE FALSE
      BY Zenon
    <3>1. B(i + 1) = {}
      BY DEF Before
    <3> HIDE DEF B
    <3> QED
      <4>1. SumOf(GasLimits, B(i + 1)) = 0
        BY <3>1, SumEmpty, Zenon
      <4> QED
        BY <2>2, <4>1, LimitAssumption
  <2>4. SumOf(GasLimits, B(i)) <= MaxGas
    <3>1. i - 1 \in Nat /\ i - 1 <= N /\ (i - 1) + 1 = i /\ i - 1 \notin Bad
      <4> HIDE DEF Bad
      <4> QED
        BY <2>0, <2>1, <2>2, <2>3, SMTT(30)
    <3> HIDE DEF B
    <3> QED
      BY <3>1, Zenon
  <2>5. i \in 1..N /\ DOMAIN ord = 1..N /\ ord[i] \in Tx
    BY <1>0, <1>1, <2>2, <2>3, SMTT(30)
  <2>6. CASE ord[i] \notin inc
    <3>1. B(i + 1) = B(i)
      BY <2>2, <2>5, <2>6, SMTT(30) DEF Before
    <3> HIDE DEF B
    <3> QED
      BY <2>2, <2>4, <3>1, SMTT(30)
  <2>7. CASE ord[i] \in inc
    <3> DEFINE x == ord[i]
               b == SumOf(GasLimits, B(i))
    <3>1. B(i + 1) = B(i) \cup {x} /\ x \notin B(i)
      <4>1. 1..((i + 1) - 1) = (1..(i - 1)) \cup {i} /\ 1..(i - 1) \subseteq 1..N
        BY <2>2, <2>5, SMTT(30)
      <4>2. B(i + 1) = B(i) \cup {x}
        BY <2>7, <4>1, Zenon DEF Before
      <4>3. \A j \in 1..(i - 1) : ord[j] # x
        BY <1>1, <2>5, <4>1, SMTT(30)
      <4> QED
        BY <4>2, <4>3, Zenon DEF Before
    <3>2. (Gas(B(i)) + x.gas) % (U64Max + 1) <= MaxGas
      <4>1. MaxGas # 0
        BY LimitAssumption
      <4> QED
        BY <2>5, <2>7, <4>1, Zenon DEF Includes
    <3> HIDE DEF B
    <3>3. Gas(B(i)) = b % (U64Max + 1)
      BY <1>2, GasIsSum, Zenon DEF Gas
    <3>4. x.gas \in Nat /\ MaxGas + x.gas <= U64Max /\ GasLimits[x] = x.gas
      BY <2>5, TxFields, SMTT(30) DEF GasFits, GasLimits
    <3>5. SumOf(GasLimits, B(i + 1)) = x.gas + b
      <4>1. \A y \in B(i) \cup {x} : GasLimits[y] \in Nat
        BY <1>2, <2>5, TxFields, SMTT(30) DEF GasLimits
      <4> DEFINE S == B(i)
      <4>2. IsFiniteSet(S) /\ x \notin S /\ \A y \in S \cup {x} : GasLimits[y] \in Nat
        BY <1>2, <3>1, <4>1, SMTT(30)
      <4> HIDE DEF x, S
      <4>3. SumOf(GasLimits, S \cup {x}) = GasLimits[x] + SumOf(GasLimits, S)
        BY <4>2, SumAdd, Zenon
      <4> QED
        BY <3>1, <3>4, <4>3, Zenon DEF S
    <3>6. b \in Nat /\ b <= MaxGas
      BY <1>3, <2>4
    <3> HIDE DEF b, x
    <3>7. b % (U64Max + 1) = b /\ (b + x.gas) % (U64Max + 1) = b + x.gas
      BY <3>4, <3>6, LimitAssumption
    <3> QED
      BY <2>2, <3>2, <3>3, <3>4, <3>5, <3>6, <3>7, SMTT(30)
  <2> QED
    BY <2>6, <2>7, Zenon
<1>5. inc = B(N + 1)
  <2>1. 1..((N + 1) - 1) = 1..N
    BY <1>1
  <2> QED
    BY <1>1, <2>1 DEF Before
<1>6. SumOf(GasLimits, B(N + 1)) <= MaxGas
  <2>1. N \in Nat /\ N <= N
    BY <1>1
  <2>2. N \notin Bad
    <3> HIDE DEF Bad
    <3> QED
      BY <1>4, Zenon
  <2> HIDE DEF B
  <2> QED
    BY <2>1, <2>2, Zenon
<1> QED
  BY <1>0, <1>5, <1>6, Zenon

\* A sequence holds finitely many values.
LEMMA PayloadFinite ==
  ASSUME NEW f \in Seq(Tx)
  PROVE  Range(f) \in SUBSET Tx /\ IsFiniteSet(Range(f))
<1>1. Len(f) \in Nat /\ f \in [1..Len(f) -> Tx]
  OBVIOUS
<1>2. IsFiniteSet(1..Len(f))
  BY <1>1, FS_Interval
<1>3. f \in Surjection(1..Len(f), Range(f))
  BY <1>1, Zenon DEF Surjection, Range
<1>4. IsFiniteSet(Range(f))
  BY <1>2, <1>3, FS_Surjection, Zenon
<1> QED
  BY <1>1, <1>4, Zenon DEF Range

\* What a payload holds keeps the block's gas limit.
GasInv == MaxGas > 0 => SumOf(GasLimits, Range(payload)) <= MaxGas

\* Only collect_payload returns one.
LEMMA GasStep ==
  ASSUME GasFits, IndInv, GasInv, [Next]_vars
  PROVE  GasInv'
<1>1. CASE payload' = <<>>
  <2>1. Range(payload') = {}
    BY <1>1 DEF Range
  <2>2. SumOf(GasLimits, Range(payload')) = 0
    BY <2>1, SumEmpty, Zenon
  <2> QED
    BY <2>2, LimitAssumption DEF GasInv, GasLimits
<1>2. CASE CollectPayload
  <2> SUFFICES ASSUME MaxGas > 0 PROVE SumOf(GasLimits, Range(payload')) <= MaxGas
    BY Zenon DEF GasInv, GasLimits
  <2>1. PICK ord \in Orders, inc \in SUBSET Candidates :
          Includes(ord, inc) /\ payload' \in Encoded(ord, inc)
    BY <1>2, Zenon DEF CollectPayload
  <2>2. IsFiniteSet(inc) /\ inc \in SUBSET Tx /\ SumOf(GasLimits, inc) <= MaxGas
    BY <2>1, IncludedGas
  <2>3. Range(payload') = inc
    BY <2>1, <2>2, PayloadProperties, Zenon
  <2> QED
    BY <2>2, <2>3
<1>3. CASE UNCHANGED vars
  BY <1>3, Zenon DEF vars, GasInv
<1> QED
  BY <1>1, <1>2, <1>3, Zenon DEF Next, SubmitTx, OnCommit, AdvanceNonces

\* No payload exceeds the block's gas limit, in any state of the pool and for
\* any candidates, as long as the sum that collect_payload keeps cannot wrap.
THEOREM PayloadFitsBlock == GasFits => (Spec => []PayloadWithinBlockGas)
<1> SUFFICES ASSUME GasFits PROVE Spec => []PayloadWithinBlockGas
  BY Zenon
<1>1. Init => GasInv
  <2> SUFFICES ASSUME Init PROVE GasInv
    BY Zenon
  <2>1. Range(payload) = {}
    BY DEF Init, Range
  <2> QED
    BY <2>1, SumEmpty, LimitAssumption, SMTT(30) DEF GasInv
<1>2. IndInv /\ GasInv /\ [Next]_vars => GasInv'
  BY GasStep, Zenon
<1>3. IndInv /\ GasInv => PayloadWithinBlockGas
  <2> SUFFICES ASSUME IndInv, GasInv PROVE PayloadWithinBlockGas
    BY Zenon
  <2> DEFINE S == Range(payload)
  <2>1. S \in SUBSET Tx /\ IsFiniteSet(S)
    BY PayloadFinite, Zenon DEF IndInv, TypeOK
  <2> HIDE DEF S
  <2>2. MapThenSumSet(LAMBDA t : t.gas, S) = SumOf(GasLimits, S)
    BY <2>1, GasIsSum, Zenon
  <2> QED
    BY <2>2, Zenon DEF PayloadWithinBlockGas, GasInv, S
<1> QED
  BY <1>1, <1>2, <1>3, PoolInvariant, PTL DEF Spec

-----------------------------------------------------------------------------
(* The pool implements the abstract one                                    *)

\* A replacement pays at least what it replaces (the check of submit_tx),
\* as long as the threshold does not saturate.
LEMMA MinTipAtLeastTip ==
  ASSUME TipsFit, NEW t \in Tx
  PROVE  MinTip(t) \in Nat /\ MinTip(t) >= t.tip
<1>1. t.tip \in Nat /\ BumpPct \in Nat
  BY TxFields, LimitAssumption, Zenon
<1> DEFINE a == t.tip
           x == a * (100 + BumpPct)
<1>2. x \in Nat /\ x >= 100 * a
  <2>1. \A i, j \in Nat : i * j \in Nat /\ i * (100 + j) = 100 * i + i * j
    OBVIOUS
  <2>2. a * BumpPct \in Nat /\ x = 100 * a + a * BumpPct
    BY <1>1, <2>1, ZenonT(40)
  <2> QED
    BY <1>1, <2>1, <2>2
<1>3. MinTip(t) = x \div 100
  BY <1>2, LimitAssumption DEF MinTip, SaturatingMul, TipsFit
<1>4. \A y \in Nat : y >= 100 * a => y \div 100 \in Nat /\ y \div 100 >= a
  BY <1>1
<1> QED
  BY <1>2, <1>3, <1>4, Zenon

\* An empty payload takes nothing.
LEMMA RangeEmpty == Range(<<>>) = {}
BY DEF Range

\* submit_tx adds the transaction, pushing out one of its slot, or rejects it.
LEMMA SubmitTxImplements ==
  ASSUME TipsFit, IndInv, NEW t \in Tx, SubmitTx(t)
  PROVE  M!Add(t) \/ M!Reject
<1>1. /\ t \notin by_hash /\ t.nonce >= accountNonce[t.sender]
      /\ Range(payload') = {} /\ UNCHANGED accountNonce
  BY RangeEmpty, Zenon DEF SubmitTx
<1>2. CASE by_hash' = by_hash
  BY <1>1, <1>2, Zenon DEF M!Reject
<1>3. ASSUME NEW target \in {pending[t.sender], queued[t.sender]},
             \A old \in At(target, t.nonce) : t.tip >= MinTip(old),
             by_hash' = (by_hash \ At(target, t.nonce)) \cup {t}
      PROVE  M!Add(t)
  <2>1. t.sender \in Sender /\ t.tip \in Nat
    BY TxFields, Zenon
  <2>2. /\ target \subseteq by_hash /\ target \subseteq Tx
        /\ \A u \in target : u.sender = t.sender
    BY <2>1, QueueFinite, Zenon DEF IndInv, QueueOK
  <2>3. \A u \in At(target, t.nonce) :
          u \in by_hash /\ M!SameSlot(t, u) /\ u.tip <= t.tip
    <3> SUFFICES ASSUME NEW u \in At(target, t.nonce)
                 PROVE  u \in by_hash /\ M!SameSlot(t, u) /\ u.tip <= t.tip
      BY Zenon
    <3>1. u \in target /\ u.nonce = t.nonce /\ u \in Tx
      BY <2>2, SMTT(30) DEF At
    <3>2. u.tip \in Nat /\ MinTip(u) \in Nat /\ MinTip(u) >= u.tip /\ t.tip >= MinTip(u)
      BY <1>3, <3>1, MinTipAtLeastTip, TxFields, SMTT(30)
    <3> QED
      BY <2>1, <2>2, <3>1, <3>2, SMTT(30) DEF M!SameSlot
  <2> QED
    BY <1>1, <1>3, <2>3, Zenon DEF M!Add
<1> QED
  BY <1>2, <1>3, Zenon DEF SubmitTx, Accepts

\* collect_payload takes at most one transaction of each sender.
LEMMA CollectPayloadImplements ==
  ASSUME IndInv, CollectPayload
  PROVE  \E S \in SUBSET by_hash : M!Take(S)
<1>1. PICK ord \in Orders, inc \in SUBSET Candidates :
        /\ payload' \in Encoded(ord, inc)
        /\ by_hash' = by_hash \ inc
        /\ UNCHANGED accountNonce
  BY Zenon DEF CollectPayload
<1>2. \A t \in inc : t \in Tx /\ t \in by_hash /\ t = First(pending[t.sender])
  BY CandidateProperties, Zenon
<1>3. IsFiniteSet(inc)
  BY <1>2, FS_Subset, Zenon DEF IndInv
<1>4. Range(payload') = inc
  BY <1>1, <1>2, <1>3, PayloadProperties, SMTT(30)
<1>5. \A t, u \in inc : t.sender = u.sender => t = u
  BY <1>2, Zenon
<1> QED
  BY <1>1, <1>2, <1>4, <1>5, SMTT(30) DEF M!Take

\* on_commit prunes exactly what the account nonces have passed.
LEMMA OnCommitImplements ==
  ASSUME IndInv, OnCommit
  PROVE  M!Prune
<1>1. /\ by_hash' = by_hash \ UNION {Stale(pending[s] \cup queued[s], accountNonce[s]) :
                                      s \in senders}
      /\ Range(payload') = {} /\ UNCHANGED accountNonce
  BY RangeEmpty, Zenon DEF OnCommit, StaleHashes
<1>2. ASSUME NEW t \in by_hash
      PROVE  t \in by_hash' <=> t.nonce >= accountNonce[t.sender]
  <2>1. PICK s \in Sender : t \in pending[s] \cup queued[s]
    BY Zenon DEF IndInv
  <2>2. s \in senders /\ \A x \in senders : t \in pending[x] \cup queued[x] => x = s
    BY <2>1, Zenon DEF IndInv, QueueOK, TypeOK
  <2>3. t.sender = s /\ t.nonce \in Nat /\ accountNonce[s] \in Nat
    BY <2>1, TxFields, Zenon DEF IndInv, QueueOK, TypeOK
  <2> QED
    BY <1>1, <2>1, <2>2, <2>3, SMTT(30) DEF Stale
<1>3. by_hash' = {t \in by_hash : t.nonce >= accountNonce[t.sender]}
  BY <1>1, <1>2, Zenon
<1> QED
  BY <1>1, <1>3, Zenon DEF M!Prune

\* Every step of the pool is a step of the abstract one, or a stutter.
LEMMA NextImplements ==
  ASSUME TipsFit, IndInv, [Next]_vars
  PROVE  [M!Next]_M!mvars
<1>1. CASE \E t \in Tx : SubmitTx(t)
  BY <1>1, SubmitTxImplements DEF M!Next
<1>2. CASE CollectPayload
  BY <1>2, CollectPayloadImplements DEF M!Next
<1>3. CASE OnCommit
  BY <1>3, OnCommitImplements DEF M!Next
<1>4. CASE AdvanceNonces
  <2>1. accountNonce' \in [Sender -> Nat]
    BY <1>4, LimitAssumption DEF AdvanceNonces
  <2> QED
    BY <1>4, <2>1, RangeEmpty DEF AdvanceNonces, poolVars, M!Next, M!Advance
<1>5. CASE UNCHANGED vars
  BY <1>5, Zenon DEF vars, poolVars, M!mvars
<1> QED
  BY <1>1, <1>2, <1>3, <1>4, <1>5, SMTT(30) DEF Next

\* EvmTxPool implements the abstract pool, so nothing leaves it silently,
\* for every set of senders and transactions and all limits, as long as the
\* replacement threshold does not saturate.
THEOREM PoolImplementsMempool == TipsFit => (Spec => ImplementsMempool)
<1> SUFFICES ASSUME TipsFit PROVE Spec => ImplementsMempool
  BY Zenon
<1>1. Init => M!Init
  BY RangeEmpty DEF Init, M!Init
<1>2. IndInv /\ [Next]_vars => [M!Next]_M!mvars
  BY NextImplements, Zenon
<1> QED
  BY <1>1, <1>2, PoolInvariant, PTL DEF Spec, M!Spec, ImplementsMempool
=============================================================================
