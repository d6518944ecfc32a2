--------------------------- MODULE Admission_proofs ---------------------------
(***************************************************************************)
(* What holds of admission for every set of transactions, every limit and  *)
(* every width.                                                            *)
(***************************************************************************)
EXTENDS Admission, TxPool_proofs

-----------------------------------------------------------------------------
(* GossipKeepsRules                                                        *)

\* The pool holds nothing ill-formed but what came in over RPC, and the
\* gossip task has nothing ill-formed in hand.
RulesInv ==
  /\ \A t \in by_hash : t \in raw \/ WellFormed(EnvelopeOf(t))
  /\ \A t \in checked : WellFormed(EnvelopeOf(t))

LEMMA RulesInit == AdmissionInit => RulesInv
BY Zenon DEF AdmissionInit, Init, RulesInv

\* submit_tx adds the transaction it is given and no other.
LEMMA SubmitAddsOne ==
  ASSUME NEW t, SubmitTx(t)
  PROVE  by_hash' \subseteq by_hash \cup {t}
BY Zenon DEF SubmitTx

LEMMA RulesNext == RulesInv /\ [AdmissionNext]_allVars => RulesInv'
<1> SUFFICES ASSUME RulesInv, [AdmissionNext]_allVars
             PROVE  RulesInv'
  BY Zenon
<1>1. ASSUME NEW t \in RpcTx, SendRawTransaction(t)
      PROVE  RulesInv'
  <2>1. by_hash' \subseteq by_hash \cup {t}
    BY <1>1, SubmitAddsOne, Zenon DEF SendRawTransaction
  <2> QED
    BY <1>1, <2>1, Zenon DEF SendRawTransaction, RulesInv
<1>2. ASSUME NEW t \in Tx, GossipValidate(t)
      PROVE  RulesInv'
  <2>1. by_hash' = by_hash /\ raw' = raw
    BY <1>2, Zenon DEF GossipValidate, poolVars
  <2>2. \A u \in checked' : u \in checked \/ WellFormed(EnvelopeOf(u))
    BY <1>2, Zenon DEF GossipValidate, validate_tx
  <2> QED
    BY <2>1, <2>2, Zenon DEF RulesInv
<1>3. ASSUME GossipAdd
      PROVE  RulesInv'
  <2>1. PICK t \in checked :
          /\ SubmitTx(t) \/ UNCHANGED poolVars
          /\ checked' = checked \ {t}
          /\ raw' = raw
    BY <1>3, Zenon DEF GossipAdd
  <2>2. by_hash' \subseteq by_hash \cup {t}
    BY <2>1, SubmitAddsOne, Zenon DEF poolVars
  <2> QED
    BY <2>1, <2>2, Zenon DEF RulesInv
<1>4. ASSUME CreatePayload
      PROVE  RulesInv'
  <2>1. by_hash' \subseteq by_hash
    BY <1>4, Zenon DEF CreatePayload, CollectPayload
  <2> QED
    BY <1>4, <2>1, Zenon DEF CreatePayload, admissionVars, RulesInv
<1>5. ASSUME ExecuteBlock
      PROVE  RulesInv'
  BY <1>5 DEF ExecuteBlock, AdvanceNonces, poolVars, RulesInv
<1>6. ASSUME CommitPool
      PROVE  RulesInv'
  <2>1. by_hash' \subseteq by_hash
    BY <1>6, Zenon DEF CommitPool, OnCommit
  <2> QED
    BY <1>6, <2>1, Zenon DEF CommitPool, admissionVars, RulesInv
<1>7. CASE UNCHANGED allVars
  BY <1>7, Zenon DEF allVars, vars, poolVars, admissionVars, RulesInv
<1> QED
  BY <1>1, <1>2, <1>3, <1>4, <1>5, <1>6, <1>7 DEF AdmissionNext

\* Whatever arrives in whatever order, the pool holds nothing but what was
\* submitted over RPC that is of another chain, pays less than its intrinsic
\* gas or asks for more than the block's (the gossip task, validate_tx).
THEOREM GossipRulesHold == AdmissionSpec => []GossipKeepsRules
<1>1. RulesInv => GossipKeepsRules
  BY Zenon DEF RulesInv, GossipKeepsRules, WellFormed
<1> QED
  BY <1>1, RulesInit, RulesNext, PTL DEF AdmissionSpec

-----------------------------------------------------------------------------
(* PayloadByPrice                                                          *)

\* A transaction of the pool is the entry of its envelope.
LEMMA EnvelopeOfTx ==
  ASSUME NEW t \in Tx
  PROVE  /\ EnvelopeOf(t) \in Envelope
         /\ t.tip = effective_gas_tip(EnvelopeOf(t))
<1>1. PICK e \in Envelope : PoolEntry(e) = t
  BY EnvelopeAssumption, Zenon
<1>2. EnvelopeOf(t) \in Envelope /\ PoolEntry(EnvelopeOf(t)) = t
  BY <1>1, Zenon DEF EnvelopeOf
<1> QED
  BY <1>2 DEF PoolEntry

\* The tip, computed in u64, and the price, computed in u128, agree while
\* the fees fit a u64: the price is the base fee and the tip.
LEMMA TipIsPriceLessBase ==
  ASSUME NEW e \in Envelope, FeesFit(e)
  PROVE  /\ effective_gas_tip(e) \in Nat
         /\ effective_gas_price(e) = BaseFee + effective_gas_tip(e)
<1> DEFINE fee == e.max_fee
           priority == OrZero(e.max_priority)
<1>1. fee \in Nat /\ priority \in Nat /\ U64Max \in Nat /\ BaseFee \in Nat
  BY EnvelopeAssumption, LimitAssumption, Zenon
<1>2. fee <= U64Max /\ priority <= U64Max
  BY Zenon DEF FeesFit
<1>3. fee % (U64Max + 1) = fee /\ priority % (U64Max + 1) = priority
  <2> HIDE DEF fee, priority
  <2> QED
    BY <1>1, <1>2
<1>4. effective_gas_tip(e) = Lesser(SaturatingSub(fee, BaseFee), priority)
  BY <1>3, Zenon DEF effective_gas_tip
<1>5. Lesser(SaturatingSub(fee, BaseFee), priority) \in Nat
  <2> HIDE DEF fee, priority
  <2> QED
    BY <1>1 DEF Lesser, SaturatingSub
<1> QED
  BY <1>4, <1>5, Zenon DEF effective_gas_price

\* A payload is sorted by the pool's tips.
LEMMA PayloadSorted ==
  ASSUME IndInv, CollectPayload,
         NEW i \in DOMAIN payload', NEW j \in DOMAIN payload', i < j
  PROVE  payload'[i].tip >= payload'[j].tip
<1>1. PICK ord \in Orders, inc \in SUBSET Candidates : payload' \in Encoded(ord, inc)
  BY Zenon DEF CollectPayload
<1>2. Candidates \in SUBSET Tx /\ IsFiniteSet(Candidates)
  <2>1. \A t \in Candidates : t \in Tx /\ t \in by_hash
    BY CandidateProperties, Zenon
  <2> QED
    BY <2>1, FS_Subset DEF IndInv
<1>3. ord \in Surjection(1..Cardinality(Candidates), Candidates)
  <2>1. /\ Cardinality(Candidates) \in Nat
        /\ ord \in [1..Cardinality(Candidates) -> Candidates]
        /\ \A k, l \in 1..Cardinality(Candidates) : k # l => ord[k] # ord[l]
    BY <1>2, FS_CardinalityType, Zenon DEF Orders, Listings, Injection, IsInjective
  <2>2. ord \in Injection(1..Cardinality(Candidates), Candidates)
    BY <2>1 DEF Injection, IsInjective
  <2>3. /\ IsFiniteSet(1..Cardinality(Candidates))
        /\ Cardinality(1..Cardinality(Candidates)) = Cardinality(Candidates)
    BY <2>1, FS_Interval
  <2> QED
    BY <1>2, <2>2, <2>3, FS_Injection
<1>4. payload'[i] \in Candidates /\ payload'[j] \in Candidates
  BY <1>1, Zenon DEF Encoded, Listings, Injection, IsInjective
<1>5. PICK k \in DOMAIN ord, l \in DOMAIN ord : payload'[i] = ord[k] /\ payload'[j] = ord[l]
  BY <1>3, <1>4, Zenon DEF Surjection
<1>6. k < l
  BY <1>1, <1>5, Zenon DEF Encoded
<1> QED
  BY <1>5, <1>6 DEF Orders

\* The pool's invariant, the order of the payload by price, and that the
\* gossip task has nothing unknown in hand.
PriceInv == IndInv /\ PayloadByPrice /\ checked \subseteq Tx

LEMMA PriceInit == AdmissionInit => PriceInv
<1>1. AdmissionInit => Init /\ payload = <<>> /\ checked = {}
  BY DEF AdmissionInit, Init
<1> QED
  BY <1>1, InitOK DEF PriceInv, PayloadByPrice

\* A step that leaves the pool alone and no payload behind.
LEMMA PoolAlone ==
  ASSUME PriceInv, UNCHANGED poolVars, payload' = <<>>, accountNonce' \in [Sender -> Nat]
  PROVE  IndInv'
<1>1. TypeOK'
  BY DEF PriceInv, IndInv, TypeOK, poolVars
<1> QED
  BY <1>1, PoolUnchangedOK DEF PriceInv

\* A step that leaves no payload behind has nothing to sort.
LEMMA NoPayload ==
  ASSUME payload' = <<>>
  PROVE  PayloadByPrice'
BY DEF PayloadByPrice

\* A new payload is sorted by price.
LEMMA CollectByPrice ==
  ASSUME IndInv, CollectPayload
  PROVE  PayloadByPrice'
<1> SUFFICES ASSUME NEW i \in DOMAIN payload', NEW j \in DOMAIN payload', i < j,
                    FeesFit(EnvelopeOf(payload'[i])), FeesFit(EnvelopeOf(payload'[j]))
             PROVE  effective_gas_price(EnvelopeOf(payload'[i]))
                      >= effective_gas_price(EnvelopeOf(payload'[j]))
  BY Zenon DEF PayloadByPrice
<1> DEFINE t == payload'[i]
           u == payload'[j]
<1>1. t \in Tx /\ u \in Tx
  BY CollectPayloadOK DEF IndInv, TypeOK
<1>2. t.tip >= u.tip
  BY PayloadSorted
<1>3. /\ EnvelopeOf(t) \in Envelope /\ t.tip = effective_gas_tip(EnvelopeOf(t))
      /\ EnvelopeOf(u) \in Envelope /\ u.tip = effective_gas_tip(EnvelopeOf(u))
  BY <1>1, EnvelopeOfTx
<1>4. /\ t.tip \in Nat /\ effective_gas_price(EnvelopeOf(t)) = BaseFee + t.tip
      /\ u.tip \in Nat /\ effective_gas_price(EnvelopeOf(u)) = BaseFee + u.tip
  BY <1>3, TipIsPriceLessBase
<1> QED
  BY <1>2, <1>4, EnvelopeAssumption

LEMMA PriceNext == PriceInv /\ [AdmissionNext]_allVars => PriceInv'
<1> SUFFICES ASSUME PriceInv, [AdmissionNext]_allVars
             PROVE  PriceInv'
  BY Zenon
<1>0. accountNonce \in [Sender -> Nat]
  BY Zenon DEF PriceInv, IndInv, TypeOK
<1>1. ASSUME NEW t \in RpcTx, SendRawTransaction(t)
      PROVE  PriceInv'
  <2>1. t \in Tx /\ SubmitTx(t) /\ payload' = <<>> /\ checked' = checked
    BY <1>1, EnvelopeAssumption DEF SendRawTransaction, SubmitTx
  <2> QED
    BY <2>1, SubmitTxOK, NoPayload DEF PriceInv
<1>2. ASSUME NEW t \in Tx, GossipValidate(t)
      PROVE  PriceInv'
  <2>1. UNCHANGED poolVars /\ accountNonce' = accountNonce /\ payload' = <<>>
    BY <1>2, Zenon DEF GossipValidate
  <2>2. checked' \subseteq checked \cup {t}
    BY <1>2, Zenon DEF GossipValidate
  <2> QED
    BY <1>0, <2>1, <2>2, PoolAlone, NoPayload DEF PriceInv
<1>3. ASSUME GossipAdd
      PROVE  PriceInv'
  <2>1. PICK t \in checked :
          /\ \/ SubmitTx(t)
             \/ UNCHANGED <<poolVars, accountNonce>>
          /\ payload' = <<>>
          /\ checked' = checked \ {t}
    BY <1>3, Zenon DEF GossipAdd, SubmitTx
  <2>2. CASE SubmitTx(t)
    BY <2>1, <2>2, SubmitTxOK, NoPayload DEF PriceInv
  <2>3. CASE UNCHANGED <<poolVars, accountNonce>>
    BY <1>0, <2>1, <2>3, PoolAlone, NoPayload DEF PriceInv
  <2> QED
    BY <2>1, <2>2, <2>3
<1>4. ASSUME CreatePayload
      PROVE  PriceInv'
  <2>1. CollectPayload /\ checked' = checked
    BY <1>4, Zenon DEF CreatePayload, admissionVars
  <2> QED
    BY <2>1, CollectPayloadOK, CollectByPrice DEF PriceInv
<1>5. ASSUME ExecuteBlock
      PROVE  PriceInv'
  <2>1. /\ UNCHANGED poolVars /\ payload' = <<>> /\ checked' = checked
        /\ accountNonce' \in [Sender -> 0..MaxNonce]
    BY <1>5, Zenon DEF ExecuteBlock, AdvanceNonces
  <2>2. accountNonce' \in [Sender -> Nat]
    BY <2>1, LimitAssumption
  <2> QED
    BY <2>1, <2>2, PoolAlone, NoPayload DEF PriceInv
<1>6. ASSUME CommitPool
      PROVE  PriceInv'
  <2>1. OnCommit /\ payload' = <<>> /\ checked' = checked
    BY <1>6, Zenon DEF CommitPool, OnCommit, admissionVars
  <2> QED
    BY <2>1, OnCommitOK, NoPayload DEF PriceInv
<1>7. CASE UNCHANGED allVars
  <2>1. UNCHANGED <<poolVars, accountNonce, payload, checked>>
    BY <1>7, Zenon DEF allVars, vars, admissionVars
  <2>2. IndInv'
    BY <2>1, PoolUnchangedOK DEF PriceInv, IndInv, TypeOK, poolVars
  <2> QED
    BY <2>1, <2>2 DEF PriceInv, PayloadByPrice
<1> QED
  BY <1>1, <1>2, <1>3, <1>4, <1>5, <1>6, <1>7, Zenon DEF AdmissionNext

\* A payload comes in the order of the prices its receipts will show, for
\* every set of transactions whose fees fit a u64, whatever came in by RPC
\* or gossip (effective_gas_tip, collect_payload, execute_block).
THEOREM PayloadPriceOrder == AdmissionSpec => []PayloadByPrice
<1>1. PriceInv => PayloadByPrice
  BY Zenon DEF PriceInv
<1> QED
  BY <1>1, PriceInit, PriceNext, PTL DEF AdmissionSpec

-----------------------------------------------------------------------------
(* AdmissionTypeOK                                                         *)

\* The types of what admission adds to the pool.
AdmittedOK ==
  /\ balance \in Balances
  /\ checked \in {{}} \cup {{t} : t \in Tx}
  /\ heard \in 0..MaxHeard
  /\ raw \subseteq Tx

LEMMA AdmittedInit == AdmissionInit => AdmittedOK
BY EnvelopeAssumption DEF AdmissionInit, AdmittedOK

LEMMA AdmittedNext == AdmittedOK /\ [AdmissionNext]_allVars => AdmittedOK'
<1> SUFFICES ASSUME AdmittedOK, [AdmissionNext]_allVars
             PROVE  AdmittedOK'
  BY Zenon
<1>1. ASSUME NEW t \in RpcTx, SendRawTransaction(t)
      PROVE  AdmittedOK'
  BY <1>1, EnvelopeAssumption, Zenon DEF SendRawTransaction, AdmittedOK
<1>2. ASSUME NEW t \in Tx, GossipValidate(t)
      PROVE  AdmittedOK'
  <2>1. heard \in 0..MaxHeard /\ heard < MaxHeard /\ MaxHeard \in Nat
    BY <1>2, EnvelopeAssumption, Zenon DEF GossipValidate, AdmittedOK
  <2>2. heard + 1 \in 0..MaxHeard
    BY <2>1
  <2>3. heard' \in 0..MaxHeard
    BY <1>2, <2>2, Zenon DEF GossipValidate, AdmittedOK
  <2>4. checked = {} /\ (checked' = checked \cup {t} \/ checked' = checked)
    BY <1>2, Zenon DEF GossipValidate, GossipReady
  <2>5. checked' \in {{}} \cup {{u} : u \in Tx}
    BY <2>4, Zenon
  <2>6. balance' = balance /\ raw' = raw
    BY <1>2, Zenon DEF GossipValidate
  <2> QED
    BY <2>3, <2>5, <2>6 DEF AdmittedOK
<1>3. ASSUME GossipAdd
      PROVE  AdmittedOK'
  <2>1. PICK t \in checked :
          checked' = checked \ {t} /\ UNCHANGED <<balance, heard, raw>>
    BY <1>3, Zenon DEF GossipAdd
  <2>2. checked' = {}
    BY <2>1, Zenon DEF AdmittedOK
  <2> QED
    BY <2>1, <2>2, Zenon DEF AdmittedOK
<1>4. CASE UNCHANGED admissionVars
  BY <1>4, Zenon DEF admissionVars, AdmittedOK
<1>5. ASSUME ExecuteBlock
      PROVE  AdmittedOK'
  BY <1>5, Zenon DEF ExecuteBlock, AdmittedOK
<1> QED
  BY Zenon, <1>1, <1>2, <1>3, <1>4, <1>5
  DEF AdmissionNext, CreatePayload, CommitPool, allVars

\* The gossip task validates and adds one transaction at a time, although
\* RPC clients and blocks change the pool and the accounts in between.
THEOREM AdmissionTypesHold == AdmissionSpec => []AdmissionTypeOK
<1>1. PriceInv /\ AdmittedOK => AdmissionTypeOK
  BY Zenon DEF PriceInv, IndInv, AdmittedOK, AdmissionTypeOK
<1> QED
  BY <1>1, PriceInit, PriceNext, AdmittedInit, AdmittedNext, PTL DEF AdmissionSpec

-----------------------------------------------------------------------------
(* The abstract pool.                                                      *)

\* However transactions come in, over RPC or checked by the gossip task and
\* added after any number of blocks, nothing leaves the pool silently, as
\* long as the replacement threshold does not saturate (submit_tx,
\* collect_payload, on_commit).
THEOREM AdmissionImplementsMempool == TipsFit => (AdmissionSpec => ImplementsMempool)
<1> SUFFICES ASSUME TipsFit PROVE AdmissionSpec => ImplementsMempool
  BY Zenon
<1>1. AdmissionInit => M!Init
  BY RangeEmpty, Zenon DEF AdmissionInit, Init, M!Init
<1>2. PriceInv /\ [AdmissionNext]_allVars => [M!Next]_M!mvars
  <2> SUFFICES ASSUME PriceInv, [AdmissionNext]_allVars PROVE [M!Next]_M!mvars
    BY Zenon
  <2>0. IndInv /\ checked \subseteq Tx
    BY Zenon DEF PriceInv
  <2>1. ASSUME NEW t \in Tx, SubmitTx(t) PROVE M!Next
    BY <2>0, <2>1, SubmitTxImplements DEF M!Next
  <2>2. ASSUME UNCHANGED <<poolVars, accountNonce>>, payload' = <<>> PROVE M!Next
    <3>1. by_hash' = by_hash /\ accountNonce' = accountNonce /\ Range(payload') = {}
      BY <2>2, RangeEmpty, Zenon DEF poolVars
    <3> QED
      BY <3>1, Zenon DEF M!Next, M!Reject
  <2>3. CASE \E t \in RpcTx : SendRawTransaction(t)
    BY <2>1, <2>3, EnvelopeAssumption, Zenon DEF SendRawTransaction
  <2>4. CASE \E t \in Tx : GossipValidate(t)
    BY <2>2, <2>4, Zenon DEF GossipValidate
  <2>5. CASE GossipAdd
    BY <2>0, <2>1, <2>2, <2>5, Zenon DEF GossipAdd
  <2>6. CASE CreatePayload
    BY <2>0, <2>6, CollectPayloadImplements DEF CreatePayload, M!Next
  <2>7. CASE ExecuteBlock
    <3>1. /\ UNCHANGED poolVars /\ payload' = <<>>
          /\ accountNonce' \in [Sender -> 0..MaxNonce]
          /\ \A s \in Sender : accountNonce'[s] >= accountNonce[s]
      BY <2>7, Zenon DEF ExecuteBlock, AdvanceNonces
    <3>2. accountNonce' \in [Sender -> Nat]
      BY <3>1, LimitAssumption
    <3>3. by_hash' = by_hash /\ Range(payload') = {}
      BY <3>1, RangeEmpty, Zenon DEF poolVars
    <3> QED
      BY <3>1, <3>2, <3>3, Zenon DEF M!Next, M!Advance
  <2>8. CASE CommitPool
    BY <2>0, <2>8, OnCommitImplements DEF CommitPool, M!Next
  <2>9. CASE UNCHANGED allVars
    BY <2>9, Zenon DEF allVars, vars, poolVars, M!mvars
  <2> QED
    BY <2>3, <2>4, <2>5, <2>6, <2>7, <2>8, <2>9, Zenon DEF AdmissionNext
<1> QED
  BY <1>1, <1>2, PriceInit, PriceNext, PTL DEF AdmissionSpec, M!Spec, ImplementsMempool
=============================================================================
