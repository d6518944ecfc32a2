---------------------------- MODULE Node_proofs -----------------------------
(***************************************************************************)
(* Proofs about the node: execute_block on the blocks that the engine      *)
(* decides, interleaved with proposals, commits and submissions, and the   *)
(* reads of the RPC server in between.                                     *)
(***************************************************************************)
EXTENDS RpcReads, TxPool_proofs

-----------------------------------------------------------------------------
(* The loop of execute_block.                                              *)

\* r holds the block's state after each of the first n entries.
IsRun(r, txs, g, n) ==
  r = [i \in 0..n |-> IF i = 0 THEN BlockStart
                      ELSE IF txs[i] \in Tx THEN ExecuteTx(r[i - 1], txs[i], g[i])
                      ELSE r[i - 1]]

\* The loop has a state after every entry: by induction on their number.
LEMMA RunExists ==
  ASSUME NEW txs, NEW g, NEW N \in Nat
  PROVE  \E r : IsRun(r, txs, g, N)
<1> DEFINE Step(acc, i) == IF txs[i] \in Tx THEN ExecuteTx(acc, txs[i], g[i]) ELSE acc
           Is(r, n) == r = [i \in 0..n |-> IF i = 0 THEN BlockStart ELSE Step(r[i - 1], i)]
           Bad == {n \in Nat : ~ \E r : Is(r, n)}
<1>1. \A r, n : IsRun(r, txs, g, n) <=> Is(r, n)
  BY Zenon DEF IsRun
<1>2. Bad = {}
  <2> SUFFICES ASSUME Bad # {} PROVE FALSE
    BY Zenon
  <2>0. Bad \in SUBSET Nat
    BY Zenon
  <2>1. PICK n \in Bad : \A m \in Bad : n <= m
    <3> HIDE DEF Bad
    <3> QED
      BY <2>0, LeastNat, Zenon
  <2>2. n \in Nat /\ ~ \E r : Is(r, n)
    BY <2>1, Zenon
  <2> HIDE DEF Step
  <2>3. n # 0
    <3> SUFFICES ASSUME n = 0 PROVE FALSE
      BY Zenon
    <3>1. Is([i \in 0..0 |-> BlockStart], 0)
      OBVIOUS
    <3> QED
      BY <2>2, <3>1, Zenon
  <2>4. PICK q : Is(q, n - 1)
    <3>1. n - 1 \in Nat /\ ~(n <= n - 1)
      BY <2>2, <2>3, SMTT(30)
    <3>2. n - 1 \notin Bad
      BY <2>1, <3>1, Zenon
    <3> QED
      BY <3>1, <3>2, Zenon
  <2> DEFINE r == [i \in 0..n |-> IF i < n THEN q[i] ELSE Step(q[n - 1], n)]
  <2>5. \A i \in 0..(n - 1) : q[i] = IF i = 0 THEN BlockStart ELSE Step(q[i - 1], i)
    BY <2>4, Zenon
  <2>6. \A i \in 0..n : r[i] = IF i = 0 THEN BlockStart ELSE Step(r[i - 1], i)
    BY <2>2, <2>3, <2>5
  <2>7. Is(r, n)
    BY <2>6, Zenon
  <2> QED
    BY <2>2, <2>7, Zenon
<1>3. N \notin Bad
  <2> HIDE DEF Bad
  <2> QED
    BY <1>2, Zenon
<1>4. \E r : Is(r, N)
  BY <1>3, Zenon
<1> HIDE DEF Is
<1> QED
  BY <1>1, <1>4, Zenon

\* What the loop does, entry by entry.
LEMMA RunSteps ==
  ASSUME NEW txs, NEW g, Len(txs) \in Nat
  PROVE  LET r == BlockRun(txs, g)
         IN  /\ r[0] = BlockStart
             /\ \A i \in 1..Len(txs) :
                  r[i] = IF txs[i] \in Tx THEN ExecuteTx(r[i - 1], txs[i], g[i])
                                          ELSE r[i - 1]
<1> DEFINE r == BlockRun(txs, g)
<1>1. r = CHOOSE f : IsRun(f, txs, g, Len(txs))
  BY Zenon DEF BlockRun, IsRun
<1>2. IsRun(r, txs, g, Len(txs))
  BY <1>1, RunExists, Zenon
<1> HIDE DEF r
<1>3. \A i \in 0..Len(txs) :
        r[i] = IF i = 0 THEN BlockStart
               ELSE IF txs[i] \in Tx THEN ExecuteTx(r[i - 1], txs[i], g[i])
               ELSE r[i - 1]
  BY <1>2, Zenon DEF IsRun
<1> QED
  BY <1>3, SMTT(30) DEF r

Receipt == [tx : Tx, block_number : Nat, cumulative_gas_used : Nat]

\* The block's state within the loop.
RunState == [nonce : [Sender -> Nat], gas : Nat, receipts : Seq(Receipt), cut : BOOLEAN]

\* e is the block's state once t has executed in acc, using `used`.
Executed(acc, t, used, e) ==
  /\ e \in RunState
  /\ t.nonce = acc.nonce[t.sender] /\ acc.gas + t.gas <= MaxGas
  /\ e.nonce = [acc.nonce EXCEPT ![t.sender] = @ + 1]
  /\ e.gas = acc.gas + used
  /\ e.receipts = Append(acc.receipts, [tx |-> t, block_number |-> Len(receipts) + 1,
                                        cumulative_gas_used |-> acc.gas + used])
  /\ e.cut = acc.cut

\* One transaction is passed over, ends the block, or executes.
LEMMA ExecuteTxCases ==
  ASSUME NEW acc \in RunState, NEW t \in Tx, NEW used \in Nat, used <= t.gas,
         Len(receipts) \in Nat
  PROVE  \/ ExecuteTx(acc, t, used) = acc
         \/ /\ ExecuteTx(acc, t, used) = [acc EXCEPT !.cut = TRUE]
            /\ acc.gas + t.gas > MaxGas
         \/ Executed(acc, t, used, ExecuteTx(acc, t, used))
<1> DEFINE e == ExecuteTx(acc, t, used)
           rc == [tx |-> t, block_number |-> Len(receipts) + 1,
                  cumulative_gas_used |-> acc.gas + used]
           done == [acc EXCEPT !.nonce[t.sender] = @ + 1, !.gas = @ + used,
                               !.receipts = Append(@, rc)]
<1>0. t.sender \in Sender /\ t.nonce \in Nat /\ t.gas \in Nat /\ MaxGas \in Nat
  BY TxFields, LimitAssumption, Zenon
<1>1. \/ e = acc
      \/ e = [acc EXCEPT !.cut = TRUE] /\ ExceedsBlockGas(acc, t)
      \/ e = done /\ NonceMatches(acc, t) /\ ~ExceedsBlockGas(acc, t)
  BY Zenon DEF ExecuteTx
<1>2. ExceedsBlockGas(acc, t) <=> ~(acc.gas + t.gas <= MaxGas)
  BY <1>0, SMTT(30) DEF ExceedsBlockGas, RunState
<1>3. /\ done.nonce = [acc.nonce EXCEPT ![t.sender] = @ + 1] /\ done.gas = acc.gas + used
      /\ done.receipts = Append(acc.receipts, rc) /\ done.cut = acc.cut
  BY Zenon DEF RunState
<1>4. done \in RunState
  <2>1. rc \in Receipt
    BY <1>0 DEF Receipt, RunState
  <2>2. Append(acc.receipts, rc) \in Seq(Receipt)
    <3> HIDE DEF rc
    <3> QED
      BY <2>1, SMTT(30) DEF RunState
  <2>3. acc.gas + used \in Nat
    BY DEF RunState
  <2>4. [acc.nonce EXCEPT ![t.sender] = @ + 1] \in [Sender -> Nat]
    BY <1>0, SMTT(30) DEF RunState
  <2> HIDE DEF rc
  <2> QED
    BY <2>2, <2>3, <2>4, Zenon DEF RunState
<1>5. CASE e = done /\ NonceMatches(acc, t) /\ ~ExceedsBlockGas(acc, t)
  <2> HIDE DEF done, rc, e
  <2>1. Executed(acc, t, used, e)
    BY <1>2, <1>3, <1>4, <1>5, Zenon DEF NonceMatches, Executed, rc
  <2> QED
    BY <2>1, Zenon DEF e
<1> HIDE DEF done
<1> QED
  BY <1>1, <1>5, Zenon DEF ExceedsBlockGas

\* What holds of the block's state after any entry: the receipts carry the
\* block's number and gas within the limit, and for each sender exactly the
\* nonces from the account's nonce before the block up, in increasing order.
RunFacts(nonce, gas, rs) ==
  /\ gas <= MaxGas
  /\ \A s \in Sender : accountNonce[s] <= nonce[s]
  /\ \A i \in 1..Len(rs) :
       /\ rs[i].block_number = Len(receipts) + 1
       /\ rs[i].cumulative_gas_used <= MaxGas
       /\ accountNonce[rs[i].tx.sender] <= rs[i].tx.nonce
       /\ rs[i].tx.nonce < nonce[rs[i].tx.sender]
  /\ \A s \in Sender : \A n \in accountNonce[s]..(nonce[s] - 1) :
       \E i \in 1..Len(rs) : rs[i].tx.sender = s /\ rs[i].tx.nonce = n
  /\ \A i, j \in 1..Len(rs) :
       i < j /\ rs[i].tx.sender = rs[j].tx.sender => rs[i].tx.nonce < rs[j].tx.nonce

RunOK(acc) == acc \in RunState /\ RunFacts(acc.nonce, acc.gas, acc.receipts)

\* One transaction keeps it.
LEMMA ExecuteTxOK ==
  ASSUME NEW acc, RunOK(acc), NEW t \in Tx, NEW used \in Nat, used <= t.gas,
         Len(receipts) \in Nat, accountNonce \in [Sender -> Nat]
  PROVE  RunOK(ExecuteTx(acc, t, used))
<1> DEFINE e == ExecuteTx(acc, t, used)
<1> SUFFICES RunOK(e)
  BY Zenon
<1>0. acc \in RunState /\ t.sender \in Sender /\ t.nonce \in Nat /\ t.gas \in Nat /\ MaxGas \in Nat
  BY TxFields, LimitAssumption, Zenon DEF RunOK
<1>1. CASE e = acc
  BY <1>1, Zenon
<1>2. CASE e = [acc EXCEPT !.cut = TRUE]
  <2>1. /\ e \in RunState /\ e.nonce = acc.nonce /\ e.gas = acc.gas
        /\ e.receipts = acc.receipts
    BY <1>0, <1>2, Zenon DEF RunState
  <2> HIDE DEF e
  <2> QED
    BY <2>1, Zenon DEF RunOK
<1> DEFINE rc == [tx |-> t, block_number |-> Len(receipts) + 1,
                  cumulative_gas_used |-> acc.gas + used]
           R == acc.receipts
           Q == e.receipts
<1>3. CASE Executed(acc, t, used, e)
  <2>0. /\ e \in RunState
        /\ t.nonce = acc.nonce[t.sender] /\ acc.gas + t.gas <= MaxGas
        /\ e.nonce = [acc.nonce EXCEPT ![t.sender] = @ + 1]
        /\ e.gas = acc.gas + used
        /\ e.receipts = Append(acc.receipts, rc)
    BY <1>3, Zenon DEF Executed
  <2>1. R \in Seq(Receipt) /\ Len(R) \in Nat /\ acc.nonce \in [Sender -> Nat] /\ acc.gas \in Nat
    BY <1>0, SMTT(30) DEF RunState
  <2>2. /\ rc.tx = t /\ rc.block_number = Len(receipts) + 1
        /\ rc.cumulative_gas_used = acc.gas + used
    BY Zenon
  <2> HIDE DEF rc
  <2>3. /\ Len(Q) = Len(R) + 1 /\ Q[Len(R) + 1] = rc
        /\ \A i \in 1..Len(R) : Q[i] = R[i]
    BY <2>0, <2>1, SMTT(30)
  <2>4. \A i \in 1..Len(R) : R[i].tx \in Tx /\ R[i].tx.sender \in Sender /\ R[i].tx.nonce \in Nat
    <3>1. \A i \in 1..Len(R) : R[i] \in Receipt
      BY <2>1, SMTT(30)
    <3>2. \A i \in 1..Len(R) : R[i].tx \in Tx
      BY <3>1, Zenon DEF Receipt
    <3> QED
      BY <3>2, TxFields, Zenon
  <2>5. \A s \in Sender : e.nonce[s] = IF s = t.sender THEN acc.nonce[s] + 1 ELSE acc.nonce[s]
    BY <1>0, <2>0, <2>1, Zenon
  <2>6. e.gas <= MaxGas /\ acc.gas + used <= MaxGas
    BY <1>0, <2>0, <2>1, SMTT(30)
  <2>7. \A s \in Sender : accountNonce[s] <= e.nonce[s]
    <3>1. \A s \in Sender : accountNonce[s] <= acc.nonce[s]
      BY Zenon DEF RunOK, RunFacts
    <3> QED
      BY <2>1, <2>5, <3>1, SMTT(30)
  <2> HIDE DEF R, Q, e
  <2>8. /\ \A i \in 1..Len(R) :
             /\ R[i].block_number = Len(receipts) + 1
             /\ R[i].cumulative_gas_used <= MaxGas
             /\ accountNonce[R[i].tx.sender] <= R[i].tx.nonce
             /\ R[i].tx.nonce < acc.nonce[R[i].tx.sender]
        /\ \A s \in Sender : \A n \in accountNonce[s]..(acc.nonce[s] - 1) :
             \E i \in 1..Len(R) : R[i].tx.sender = s /\ R[i].tx.nonce = n
        /\ \A i, j \in 1..Len(R) :
             i < j /\ R[i].tx.sender = R[j].tx.sender => R[i].tx.nonce < R[j].tx.nonce
        /\ \A s \in Sender : accountNonce[s] <= acc.nonce[s]
    BY Zenon DEF RunOK, RunFacts, R
  <2>9. ASSUME NEW i \in 1..Len(Q)
        PROVE  /\ Q[i].block_number = Len(receipts) + 1
               /\ Q[i].cumulative_gas_used <= MaxGas
               /\ accountNonce[Q[i].tx.sender] <= Q[i].tx.nonce
               /\ Q[i].tx.nonce < e.nonce[Q[i].tx.sender]
    <3>1. CASE i \in 1..Len(R)
      <4>1. Q[i] = R[i] /\ R[i].tx.sender \in Sender /\ R[i].tx.nonce \in Nat
        BY <2>3, <2>4, <3>1, Zenon
      <4> DEFINE s == R[i].tx.sender
                 n == R[i].tx.nonce
      <4>2. n < acc.nonce[s]
        BY <2>8, <3>1, Zenon
      <4> HIDE DEF s, n
      <4>3. n \in Nat /\ acc.nonce[s] \in Nat /\ (e.nonce[s] = acc.nonce[s] + 1 \/ e.nonce[s] = acc.nonce[s])
        BY <2>1, <2>5, <4>1, Zenon DEF s, n
      <4>4. n < e.nonce[s]
        BY <4>2, <4>3
      <4> QED
        BY <2>8, <3>1, <4>1, <4>4, Zenon DEF s, n
    <3>2. CASE i = Len(R) + 1
      <4>1. acc.nonce[t.sender] \in Nat /\ e.nonce[t.sender] = acc.nonce[t.sender] + 1
        BY <1>0, <2>1, <2>5, Zenon
      <4>2. Q[i] = rc /\ accountNonce[t.sender] <= t.nonce /\ t.nonce < e.nonce[t.sender]
        BY <1>0, <2>0, <2>3, <2>8, <3>2, <4>1, SMTT(30)
      <4> QED
        BY <2>2, <2>6, <4>2, Zenon
    <3> QED
      BY <2>1, <2>3, <3>1, <3>2, SMTT(30)
  <2>10. ASSUME NEW s \in Sender, NEW n \in accountNonce[s]..(e.nonce[s] - 1)
         PROVE  \E i \in 1..Len(Q) : Q[i].tx.sender = s /\ Q[i].tx.nonce = n
    <3>1. CASE n \in accountNonce[s]..(acc.nonce[s] - 1)
      <4>1. PICK i \in 1..Len(R) : R[i].tx.sender = s /\ R[i].tx.nonce = n
        BY <2>8, <3>1, SMTT(30)
      <4> QED
        BY <2>1, <2>3, <4>1, SMTT(30)
    <3>2. CASE n \notin accountNonce[s]..(acc.nonce[s] - 1)
      <4>1. s = t.sender /\ n = acc.nonce[s]
        BY <2>1, <2>5, <3>2, SMTT(30)
      <4>2. Len(R) + 1 \in 1..Len(Q) /\ Q[Len(R) + 1].tx = t
        BY <2>1, <2>2, <2>3, SMTT(30)
      <4> QED
        BY <2>0, <4>1, <4>2, Zenon
    <3> QED
      BY <3>1, <3>2, Zenon
  <2>11. ASSUME NEW i \in 1..Len(Q), NEW j \in 1..Len(Q), i < j,
                Q[i].tx.sender = Q[j].tx.sender
         PROVE  Q[i].tx.nonce < Q[j].tx.nonce
    <3>1. i \in 1..Len(R) /\ Q[i] = R[i]
      BY <2>1, <2>3, <2>11, SMTT(30)
    <3>2. CASE j \in 1..Len(R)
      BY <2>3, <2>8, <2>11, <3>1, <3>2, Zenon
    <3>3. CASE j = Len(R) + 1
      <4>1. Q[j].tx = t
        BY <2>2, <2>3, <3>3, Zenon
      <4> QED
        BY <2>0, <2>8, <2>11, <3>1, <4>1, SMTT(30)
    <3> QED
      BY <2>1, <2>3, <3>2, <3>3, SMTT(30)
  <2> QED
    <3>1. RunFacts(e.nonce, e.gas, Q)
      BY <2>6, <2>7, <2>9, <2>10, <2>11, Zenon DEF RunFacts
    <3> QED
      BY <2>0, <3>1, Zenon DEF RunOK, Q
<1> HIDE DEF e
<1> QED
  BY <1>0, <1>1, <1>2, <1>3, ExecuteTxCases, Zenon DEF e

\* What revm may report for an entry.
LEMMA GasUsedType ==
  ASSUME NEW txs, DOMAIN txs = 1..Len(txs), NEW g \in GasUsed(txs), NEW i \in 1..Len(txs),
         txs[i] \in Tx
  PROVE  g[i] \in Nat /\ g[i] <= txs[i].gas
<1>1. txs[i].gas \in Nat
  BY TxFields, Zenon
<1>2. g[i] \in 0..txs[i].gas
  BY Zenon DEF GasUsed
<1> QED
  BY <1>1, <1>2, SMTT(30)

\* The block's state is in order after every entry, by induction.
LEMMA RunsOK ==
  ASSUME NEW txs, Len(txs) \in Nat, DOMAIN txs = 1..Len(txs), NEW g \in GasUsed(txs),
         receipts \in Seq(Seq(Receipt)), accountNonce \in [Sender -> Nat]
  PROVE  \A i \in 0..Len(txs) : RunOK(BlockRun(txs, g)[i])
<1> DEFINE r == BlockRun(txs, g)
           Bad == {i \in 0..Len(txs) : ~RunOK(r[i])}
<1>0. Len(receipts) \in Nat
  OBVIOUS
<1>1. /\ r[0] = BlockStart
      /\ \A i \in 1..Len(txs) :
           r[i] = IF txs[i] \in Tx THEN ExecuteTx(r[i - 1], txs[i], g[i]) ELSE r[i - 1]
  BY RunSteps, Zenon
<1>2. RunOK(BlockStart)
  <2>1. BlockStart \in RunState
    BY DEF BlockStart, RunState
  <2>2. RunFacts(accountNonce, 0, <<>>)
    <3>1. \A s \in Sender : accountNonce[s] \in Nat
      BY Zenon
    <3>2. 0 <= MaxGas /\ 1..Len(<<>>) = {}
      BY LimitAssumption, SMTT(30)
    <3>3. \A s \in Sender : accountNonce[s] <= accountNonce[s] /\ accountNonce[s]..(accountNonce[s] - 1) = {}
      BY <3>1, SMTT(30)
    <3> QED
      BY <3>2, <3>3, Zenon DEF RunFacts
  <2>3. BlockStart.nonce = accountNonce /\ BlockStart.gas = 0 /\ BlockStart.receipts = <<>>
    BY Zenon DEF BlockStart
  <2> QED
    BY <2>1, <2>2, <2>3, Zenon DEF RunOK
<1> HIDE DEF r
<1>3. Bad = {}
  <2> SUFFICES ASSUME Bad # {} PROVE FALSE
    BY Zenon
  <2>0. Bad \in SUBSET Nat
    OBVIOUS
  <2>1. PICK i \in Bad : \A m \in Bad : i <= m
    <3> HIDE DEF Bad
    <3> QED
      BY <2>0, LeastNat, Zenon
  <2>2. i \in 0..Len(txs) /\ ~RunOK(r[i]) /\ i # 0
    BY <1>1, <1>2, <2>1, Zenon
  <2>3. i \in 1..Len(txs) /\ i - 1 \in 0..Len(txs) /\ ~(i <= i - 1)
    BY <2>2, SMTT(30)
  <2>4. RunOK(r[i - 1])
    BY <2>1, <2>3, Zenon
  <2>5. CASE txs[i] \in Tx
    <3>1. g[i] \in Nat /\ g[i] <= txs[i].gas
      BY <2>3, <2>5, GasUsedType, Zenon
    <3>2. RunOK(ExecuteTx(r[i - 1], txs[i], g[i]))
      BY <1>0, <2>4, <2>5, <3>1, ExecuteTxOK, Zenon
    <3> QED
      BY <1>1, <2>2, <2>3, <2>5, <3>2, Zenon
  <2>6. CASE txs[i] \notin Tx
    BY <1>1, <2>2, <2>3, <2>4, <2>6, Zenon
  <2> QED
    BY <2>5, <2>6, Zenon
<1> QED
  BY <1>3, Zenon DEF r

-----------------------------------------------------------------------------
(* The history of executed blocks.                                         *)

\* Per sender, the receipts rs carry the nonces below an, each of them, in
\* the order of execution; and each its block's number and gas within the
\* limit.
Hist(rs, an) ==
  /\ \A b \in 1..Len(rs) : \A i \in 1..Len(rs[b]) :
       /\ rs[b][i].tx.nonce < an[rs[b][i].tx.sender]
       /\ rs[b][i].block_number = b
       /\ rs[b][i].cumulative_gas_used <= MaxGas
  /\ \A s \in Sender : \A n \in 0..(an[s] - 1) :
       \E b \in 1..Len(rs) : \E i \in 1..Len(rs[b]) :
         rs[b][i].tx.sender = s /\ rs[b][i].tx.nonce = n
  /\ \A b, c \in 1..Len(rs) : \A i \in 1..Len(rs[b]), j \in 1..Len(rs[c]) :
       /\ rs[b][i].tx.sender = rs[c][j].tx.sender
       /\ b < c \/ (b = c /\ i < j)
       => rs[b][i].tx.nonce < rs[c][j].tx.nonce

\* The fields of the receipts.
LEMMA ReceiptFields ==
  ASSUME NEW rs \in Seq(Seq(Receipt))
  PROVE  /\ Len(rs) \in Nat
         /\ \A b \in 1..Len(rs) :
              /\ rs[b] \in Seq(Receipt) /\ Len(rs[b]) \in Nat
              /\ \A i \in 1..Len(rs[b]) :
                   /\ rs[b][i] \in Receipt /\ rs[b][i].tx \in Tx
                   /\ rs[b][i].tx.sender \in Sender /\ rs[b][i].tx.nonce \in Nat
<1>1. Len(rs) \in Nat /\ \A b \in 1..Len(rs) : rs[b] \in Seq(Receipt)
  BY SMTT(30)
<1>2. ASSUME NEW f \in Seq(Receipt)
      PROVE  /\ Len(f) \in Nat
             /\ \A i \in 1..Len(f) : /\ f[i] \in Receipt /\ f[i].tx \in Tx
                                      /\ f[i].tx.sender \in Sender /\ f[i].tx.nonce \in Nat
  <2>1. Len(f) \in Nat /\ \A i \in 1..Len(f) : f[i] \in Receipt
    OBVIOUS
  <2>2. \A i \in 1..Len(f) : f[i].tx \in Tx
    BY <2>1, Zenon DEF Receipt
  <2> QED
    BY <2>1, <2>2, TxFields, Zenon
<1> QED
  BY <1>1, <1>2, Zenon

\* A block that execute_block ran extends the history.
LEMMA HistAppend ==
  ASSUME receipts \in Seq(Seq(Receipt)), accountNonce \in [Sender -> Nat],
         Hist(receipts, accountNonce), NEW run, RunOK(run)
  PROVE  Hist(Append(receipts, run.receipts), run.nonce)
<1> DEFINE N == Len(receipts)
           R == run.receipts
           rs == Append(receipts, R)
           an == run.nonce
<1>1. R \in Seq(Receipt) /\ an \in [Sender -> Nat] /\ RunFacts(an, run.gas, R)
  BY Zenon DEF RunOK, RunState
<1>2. /\ N \in Nat /\ Len(rs) = N + 1 /\ rs[N + 1] = R
      /\ \A b \in 1..N : rs[b] = receipts[b] /\ b \in 1..Len(rs)
  BY <1>1, SMTT(30)
<1>3. rs \in Seq(Seq(Receipt))
  BY <1>1, SMTT(30)
<1> HIDE DEF N, R, rs, an
<1>4. /\ \A s \in Sender : accountNonce[s] <= an[s]
      /\ \A i \in 1..Len(R) :
           /\ R[i].block_number = N + 1
           /\ R[i].cumulative_gas_used <= MaxGas
           /\ accountNonce[R[i].tx.sender] <= R[i].tx.nonce
           /\ R[i].tx.nonce < an[R[i].tx.sender]
      /\ \A s \in Sender : \A n \in accountNonce[s]..(an[s] - 1) :
           \E i \in 1..Len(R) : R[i].tx.sender = s /\ R[i].tx.nonce = n
      /\ \A i, j \in 1..Len(R) :
           i < j /\ R[i].tx.sender = R[j].tx.sender => R[i].tx.nonce < R[j].tx.nonce
  BY <1>1, Zenon DEF RunFacts, N
<1>5. /\ \A b \in 1..N : \A i \in 1..Len(receipts[b]) :
           /\ receipts[b][i].tx.nonce < accountNonce[receipts[b][i].tx.sender]
           /\ receipts[b][i].block_number = b
           /\ receipts[b][i].cumulative_gas_used <= MaxGas
      /\ \A s \in Sender : \A n \in 0..(accountNonce[s] - 1) :
           \E b \in 1..N : \E i \in 1..Len(receipts[b]) :
             receipts[b][i].tx.sender = s /\ receipts[b][i].tx.nonce = n
      /\ \A b, c \in 1..N : \A i \in 1..Len(receipts[b]), j \in 1..Len(receipts[c]) :
           /\ receipts[b][i].tx.sender = receipts[c][j].tx.sender
           /\ b < c \/ (b = c /\ i < j)
           => receipts[b][i].tx.nonce < receipts[c][j].tx.nonce
  BY Zenon DEF Hist, N
<1>6. \A b \in 1..Len(rs) : \A i \in 1..Len(rs[b]) :
        rs[b][i].tx.sender \in Sender /\ rs[b][i].tx.nonce \in Nat
  BY <1>3, ReceiptFields, Zenon
<1>7. \A s \in Sender : accountNonce[s] \in Nat /\ an[s] \in Nat
  BY <1>1, Zenon
<1>8. \A b \in 1..Len(rs) : b \in 1..N \/ b = N + 1
  BY <1>2, SMTT(30)
<1>9. ASSUME NEW b \in 1..Len(rs), NEW i \in 1..Len(rs[b])
      PROVE  /\ rs[b][i].tx.nonce < an[rs[b][i].tx.sender]
             /\ rs[b][i].block_number = b
             /\ rs[b][i].cumulative_gas_used <= MaxGas
  <2>1. CASE b \in 1..N
    <3>1. rs[b] = receipts[b]
      BY <1>2, <2>1, Zenon
    <3> DEFINE s == rs[b][i].tx.sender
               n == rs[b][i].tx.nonce
    <3>2. n < accountNonce[s] /\ rs[b][i].block_number = b /\ rs[b][i].cumulative_gas_used <= MaxGas
      BY <1>5, <2>1, <3>1, SMTT(30)
    <3>3. n \in Nat /\ s \in Sender
      BY <1>6, Zenon
    <3> HIDE DEF n, s
    <3>4. n < an[s]
      BY <1>4, <1>7, <3>2, <3>3, SMTT(30)
    <3> QED
      BY <3>2, <3>4, Zenon DEF n, s
  <2>2. CASE b = N + 1
    BY <1>2, <1>4, <2>2, Zenon
  <2> QED
    BY <1>8, <2>1, <2>2, Zenon
<1>10. ASSUME NEW s \in Sender, NEW n \in 0..(an[s] - 1)
       PROVE  \E b \in 1..Len(rs) : \E i \in 1..Len(rs[b]) :
                rs[b][i].tx.sender = s /\ rs[b][i].tx.nonce = n
  <2>1. CASE n \in 0..(accountNonce[s] - 1)
    <3>1. PICK b \in 1..N : \E i \in 1..Len(receipts[b]) :
             receipts[b][i].tx.sender = s /\ receipts[b][i].tx.nonce = n
      BY <1>5, <2>1, ZenonT(40)
    <3> QED
      BY <1>2, <3>1, Zenon
  <2>2. CASE n \in accountNonce[s]..(an[s] - 1)
    <3>1. PICK i \in 1..Len(R) : R[i].tx.sender = s /\ R[i].tx.nonce = n
      BY <1>4, <2>2
    <3>2. N + 1 \in 1..Len(rs)
      BY <1>2, SMTT(30)
    <3> QED
      BY <1>2, <3>1, <3>2, Zenon
  <2> QED
    <3>1. accountNonce[s] \in Nat /\ an[s] \in Nat
      BY <1>7, Zenon
    <3>2. n \in 0..(accountNonce[s] - 1) \/ n \in accountNonce[s]..(an[s] - 1)
      BY <3>1, SMTT(30)
    <3> QED
      BY <2>1, <2>2, <3>2, Zenon
<1>11. ASSUME NEW b \in 1..Len(rs), NEW c \in 1..Len(rs),
              NEW i \in 1..Len(rs[b]), NEW j \in 1..Len(rs[c]),
              rs[b][i].tx.sender = rs[c][j].tx.sender, b < c \/ (b = c /\ i < j)
       PROVE  rs[b][i].tx.nonce < rs[c][j].tx.nonce
  <2>1. CASE b \in 1..N /\ c \in 1..N
    <3>1. rs[b] = receipts[b] /\ rs[c] = receipts[c]
      BY <1>2, <2>1, Zenon
    <3>2. /\ i \in 1..Len(receipts[b]) /\ j \in 1..Len(receipts[c])
          /\ receipts[b][i].tx.sender = receipts[c][j].tx.sender
      BY <1>11, <3>1, Zenon
    <3>3. receipts[b][i].tx.nonce < receipts[c][j].tx.nonce
      BY <1>5, <1>11, <2>1, <3>2, Zenon
    <3> QED
      BY <3>1, <3>3, Zenon
  <2>2. CASE b = N + 1 /\ c = N + 1
    BY <1>2, <1>4, <1>11, <2>2, SMTT(30)
  <2>3. CASE b \in 1..N /\ c = N + 1
    <3> DEFINE s == rs[b][i].tx.sender
               n == rs[b][i].tx.nonce
               m == rs[c][j].tx.nonce
    <3>1. n < accountNonce[s]
      BY <1>2, <1>5, <2>3, Zenon
    <3>2. accountNonce[s] <= m
      BY <1>2, <1>4, <1>11, <2>3, Zenon
    <3>3. n \in Nat /\ m \in Nat /\ s \in Sender
      BY <1>6, Zenon
    <3> HIDE DEF n, s, m
    <3>4. n < m
      BY <1>7, <3>1, <3>2, <3>3
    <3> QED
      BY <3>4, Zenon DEF n, m
  <2>4. ~(b = N + 1 /\ c \in 1..N)
    BY <1>2, <1>11, SMTT(30)
  <2> QED
    BY <1>8, <2>1, <2>2, <2>3, <2>4, Zenon
<1>12. Hist(rs, an)
  BY <1>9, <1>10, <1>11, Zenon DEF Hist
<1> QED
  BY <1>12, Zenon DEF rs, an, R

\* Where the receipts rs of a sender stand.
Places(rs, s) ==
  {p \in UNION {{b} \X DOMAIN rs[b] : b \in DOMAIN rs} : rs[p[1]][p[2]].tx.sender = s}

LEMMA InPlaces ==
  ASSUME NEW rs \in Seq(Seq(Receipt)), NEW s
  PROVE  /\ \A p \in Places(rs, s) :
              /\ p = <<p[1], p[2]>>
              /\ p[1] \in 1..Len(rs) /\ p[2] \in 1..Len(rs[p[1]])
              /\ rs[p[1]][p[2]].tx.sender = s
         /\ \A b \in 1..Len(rs) : \A i \in 1..Len(rs[b]) :
              rs[b][i].tx.sender = s => <<b, i>> \in Places(rs, s)
<1>1. DOMAIN rs = 1..Len(rs)
  BY SMTT(30)
<1>2. \A b \in 1..Len(rs) : DOMAIN rs[b] = 1..Len(rs[b])
  <2>1. \A b \in 1..Len(rs) : rs[b] \in Seq(Receipt)
    OBVIOUS
  <2> QED
    BY <2>1, SMTT(30)
<1>3. ASSUME NEW p \in Places(rs, s)
      PROVE  /\ p = <<p[1], p[2]>>
             /\ p[1] \in 1..Len(rs) /\ p[2] \in 1..Len(rs[p[1]])
             /\ rs[p[1]][p[2]].tx.sender = s
  <2>1. PICK b \in 1..Len(rs) : p \in {b} \X DOMAIN rs[b]
    BY <1>1, Zenon DEF Places
  <2> QED
    BY <1>2, <2>1, SMTT(30) DEF Places
<1>4. ASSUME NEW b \in 1..Len(rs), NEW i \in 1..Len(rs[b]), rs[b][i].tx.sender = s
      PROVE  <<b, i>> \in Places(rs, s)
  <2>1. <<b, i>> \in {b} \X DOMAIN rs[b] /\ <<b, i>>[1] = b /\ <<b, i>>[2] = i
    BY <1>2, Zenon
  <2> QED
    BY <1>1, <1>4, <2>1, Zenon DEF Places
<1> QED
  BY <1>3, <1>4, Zenon

LEMMA InReceiptsOf ==
  ASSUME receipts \in Seq(Seq(Receipt)), NEW s
  PROVE  /\ \A p \in ReceiptsOf(s) :
              /\ p = <<p[1], p[2]>>
              /\ p[1] \in 1..Len(receipts) /\ p[2] \in 1..Len(receipts[p[1]])
              /\ receipts[p[1]][p[2]].tx.sender = s
         /\ \A b \in 1..Len(receipts) : \A i \in 1..Len(receipts[b]) :
              receipts[b][i].tx.sender = s => <<b, i>> \in ReceiptsOf(s)
<1>1. ReceiptsOf(s) = Places(receipts, s)
  BY Zenon DEF ReceiptsOf, Places
<1> QED
  BY <1>1, InPlaces, SMTT(30)

\* The history is what ExecutedOnceInOrder says of it.
LEMMA HistInOrder ==
  ASSUME receipts \in Seq(Seq(Receipt)), accountNonce \in [Sender -> Nat],
         Hist(receipts, accountNonce)
  PROVE  ExecutedOnceInOrder
<1> SUFFICES ASSUME NEW s \in Sender
             PROVE  /\ {NonceAt(p) : p \in ReceiptsOf(s)} = 0..(accountNonce[s] - 1)
                    /\ \A p, q \in ReceiptsOf(s) : Earlier(p, q) => NonceAt(p) < NonceAt(q)
  BY Zenon DEF ExecutedOnceInOrder
<1>1. ASSUME NEW p \in ReceiptsOf(s)
      PROVE  NonceAt(p) \in 0..(accountNonce[s] - 1)
  <2>1. /\ p[1] \in 1..Len(receipts) /\ p[2] \in 1..Len(receipts[p[1]])
        /\ receipts[p[1]][p[2]].tx.sender = s
    BY InReceiptsOf, Zenon
  <2>2. NonceAt(p) \in Nat
    BY <2>1, ReceiptFields, Zenon DEF NonceAt
  <2>3. NonceAt(p) < accountNonce[s]
    BY <2>1, Zenon DEF Hist, NonceAt
  <2>4. accountNonce[s] \in Nat
    BY Zenon
  <2> QED
    BY <2>2, <2>3, <2>4, SMTT(30)
<1>2. ASSUME NEW n \in 0..(accountNonce[s] - 1)
      PROVE  \E p \in ReceiptsOf(s) : NonceAt(p) = n
  <2>1. PICK b \in 1..Len(receipts) : \E i \in 1..Len(receipts[b]) :
               receipts[b][i].tx.sender = s /\ receipts[b][i].tx.nonce = n
    BY Zenon DEF Hist
  <2>2. PICK i \in 1..Len(receipts[b]) :
               receipts[b][i].tx.sender = s /\ receipts[b][i].tx.nonce = n
    BY <2>1, Zenon
  <2>3. <<b, i>> \in ReceiptsOf(s)
    BY <2>2, InReceiptsOf, Zenon
  <2>4. NonceAt(<<b, i>>) = n
    BY <2>2, Zenon DEF NonceAt
  <2> QED
    BY <2>3, <2>4, Zenon
<1>3. ASSUME NEW p \in ReceiptsOf(s), NEW q \in ReceiptsOf(s), Earlier(p, q)
      PROVE  NonceAt(p) < NonceAt(q)
  <2>1. /\ p[1] \in 1..Len(receipts) /\ p[2] \in 1..Len(receipts[p[1]])
        /\ q[1] \in 1..Len(receipts) /\ q[2] \in 1..Len(receipts[q[1]])
        /\ receipts[p[1]][p[2]].tx.sender = receipts[q[1]][q[2]].tx.sender
    BY InReceiptsOf, Zenon
  <2> QED
    BY <1>3, <2>1, Zenon DEF Hist, Earlier, NonceAt
<1> QED
  BY <1>1, <1>2, <1>3, Zenon

\* The least element of a singleton.
LEMMA MinOfOne ==
  ASSUME NEW i \in Nat
  PROVE  Min({i}) = i
<1>1. \E x \in {i} : \A y \in {i} : x <= y
  OBVIOUS
<1> QED
  BY <1>1, Zenon DEF Min

\* No transaction has two receipts, so a search finds the one it has.
LEMMA HistFound ==
  ASSUME receipts \in Seq(Seq(Receipt)), accountNonce \in [Sender -> Nat],
         Hist(receipts, accountNonce)
  PROVE  ReceiptsFound
<1>1. DOMAIN receipts = 1..Len(receipts)
  OBVIOUS
<1>2. \A b \in 1..Len(receipts) : DOMAIN receipts[b] = 1..Len(receipts[b])
  <2>1. \A b \in 1..Len(receipts) : receipts[b] \in Seq(Receipt)
    OBVIOUS
  <2> QED
    BY <2>1, SMTT(30)
<1> SUFFICES ASSUME NEW b \in 1..Len(receipts), NEW i \in 1..Len(receipts[b])
             PROVE  /\ get_receipt_by_tx_hash(receipts[b][i].tx) = {receipts[b][i]}
                    /\ receipts[b][i].block_number = b
                    /\ receipts[b][i].cumulative_gas_used <= MaxGas
  BY <1>1, <1>2, Zenon DEF ReceiptsFound
<1> DEFINE t == receipts[b][i].tx
           holds == {c \in DOMAIN receipts : \E j \in DOMAIN receipts[c] : receipts[c][j].tx = t}
<1>3. ASSUME NEW c \in 1..Len(receipts), NEW j \in 1..Len(receipts[c]), receipts[c][j].tx = t
      PROVE  c = b /\ j = i
  <2>1. t.nonce \in Nat /\ b \in Nat /\ c \in Nat /\ i \in Nat /\ j \in Nat
    BY ReceiptFields, SMTT(30)
  <2>2. ~(t.nonce < t.nonce)
    BY <2>1, SMTT(30)
  <2>3. ~(b < c) /\ ~(c < b) /\ ~(b = c /\ i < j) /\ ~(b = c /\ j < i)
    <3> HIDE DEF t
    <3>1. receipts[b][i].tx = t
      BY Zenon DEF t
    <3> QED
      <4>1. \A d, e \in 1..Len(receipts) : \A k \in 1..Len(receipts[d]), l \in 1..Len(receipts[e]) :
              /\ receipts[d][k].tx.sender = receipts[e][l].tx.sender
              /\ d < e \/ (d = e /\ k < l)
              => receipts[d][k].tx.nonce < receipts[e][l].tx.nonce
        BY Zenon DEF Hist
      <4>2. (b < c \/ (b = c /\ i < j)) => t.nonce < t.nonce
        BY <1>3, <3>1, <4>1, Zenon
      <4>3. (c < b \/ (c = b /\ j < i)) => t.nonce < t.nonce
        BY <1>3, <3>1, <4>1, Zenon
      <4> QED
        BY <2>2, <4>2, <4>3, Zenon
  <2> QED
    BY <2>1, <2>3
<1>4. holds = {b} /\ {j \in DOMAIN receipts[b] : receipts[b][j].tx = t} = {i}
  BY <1>1, <1>2, <1>3, Zenon
<1>5. b \in Nat /\ i \in Nat
  BY ReceiptFields
<1>6. Max({b}) = b
  <2>1. {b} \in SUBSET Nat /\ b \in {b} /\ \A y \in {b} : b >= y
    BY <1>5
  <2> QED
    BY <2>1, MaxUnique, ZenonT(40)
<1>7. Min({i}) = i
  BY <1>5, MinOfOne, Zenon
<1>8. get_receipt_by_tx_hash(t) = {receipts[b][i]}
  <2> HIDE DEF t
  <2>1. holds # {} /\ Max(holds) = b
    BY <1>4, <1>6, Zenon
  <2> QED
    BY <1>4, <1>7, <2>1, Zenon DEF get_receipt_by_tx_hash
<1>9. receipts[b][i].block_number = b /\ receipts[b][i].cumulative_gas_used <= MaxGas
  BY Zenon DEF Hist
<1> QED
  BY <1>8, <1>9, Zenon

-----------------------------------------------------------------------------
(* Gaps among the pending nonces.                                          *)

\* This node has proposed a transaction of sender s with nonce k.
WasProposed(s, k) == \E u \in proposed : u.sender = s /\ u.nonce = k

\* From the account's nonce n up, a nonce below a pending one is pending or
\* was proposed.
Known(s, p, n) ==
  \A t \in p : \A k \in n..t.nonce : k \in Nonces(p) \/ WasProposed(s, k)

\* Promotion leaves no new gap.
LEMMA PromoteKnown ==
  ASSUME NEW s, NEW n \in Nat, NEW p \in SUBSET Tx, IsFiniteSet(p), NEW q \in SUBSET Tx,
         Known(s, p, n)
  PROVE  Known(s, p \cup Promoted(p, q, n), n)
<1> DEFINE m == Promoted(p, q, n)
           NN == NextNonce(p, n)
<1> SUFFICES ASSUME NEW t \in p \cup m, NEW k \in n..t.nonce
             PROVE  k \in Nonces(p \cup m) \/ WasProposed(s, k)
  BY Zenon DEF Known
<1>0. Nonces(p \cup m) = Nonces(p) \cup Nonces(m)
  BY Zenon DEF Nonces
<1>1. CASE t \in p
  BY <1>0, <1>1, Zenon DEF Known
<1>2. CASE t \in m
  <2>1. t \in Tx /\ t.nonce \in Nat /\ k \in Nat /\ n <= k /\ k <= t.nonce
    <3>1. t \in Tx
      BY <1>2, Zenon DEF Promoted
    <3>2. t.nonce \in Nat
      BY <3>1, TxFields, Zenon
    <3> QED
      BY <3>1, <3>2, SMTT(30)
  <2>2. /\ Nonces(p) \in SUBSET Nat /\ IsFiniteSet(Nonces(p))
        /\ p # {} => Nonces(p) # {}
    BY NoncesFinite, Zenon
  <2>3. p # {} => Max(Nonces(p)) \in Nonces(p)
    BY <2>2, MaxOfFinite, Zenon
  <2>4. NN \in Nat
    BY <2>2, <2>3, SMTT(30) DEF NextNonce
  <2>5. CASE k >= NN
    <3>1. t.nonce >= NN /\ \A j \in NN..t.nonce : j \in Nonces(q)
      BY <1>2, Zenon DEF Promoted
    <3>2. PICK u \in q : u.nonce = k
      BY <2>1, <2>4, <2>5, <3>1, SMTT(30) DEF Nonces
    <3>3. \A j \in NN..u.nonce : j \in Nonces(q)
      BY <2>1, <2>4, <3>1, <3>2, SMTT(30)
    <3>4. u \in m
      BY <2>5, <3>2, <3>3, Zenon DEF Promoted
    <3> QED
      BY <1>0, <3>2, <3>4, Zenon DEF Nonces
  <2>6. CASE ~(k >= NN)
    <3>1. p # {} /\ NN = Max(Nonces(p)) + 1
      BY <2>1, <2>6, Zenon DEF NextNonce
    <3>2. PICK u \in p : u.nonce = Max(Nonces(p))
      BY <2>3, <3>1, Zenon DEF Nonces
    <3>3. u.nonce \in Nat
      BY <3>2, TxFields, Zenon
    <3>4. k \in n..u.nonce
      BY <2>1, <2>4, <2>6, <3>1, <3>2, <3>3, SMTT(30)
    <3> QED
      BY <1>0, <3>4, Zenon DEF Known
  <2> QED
    BY <2>5, <2>6, Zenon
<1> QED
  BY <1>1, <1>2, Zenon

\* A transaction goes to the pending map only next to one that is there, or
\* at the account's nonce.
LEMMA InsertKnown ==
  ASSUME IndInv, NEW t \in Tx, t.nonce >= accountNonce[t.sender], IsPending(t),
         Known(t.sender, pending[t.sender], accountNonce[t.sender])
  PROVE  Known(t.sender, Insert(pending[t.sender], t), accountNonce[t.sender])
<1> DEFINE s == t.sender
           p == pending[s]
           n == accountNonce[s]
           P == Insert(p, t)
<1>0. s \in Sender /\ t.nonce \in Nat
  BY TxFields, Zenon
<1>1. p \in SUBSET Tx /\ IsFiniteSet(p) /\ KeyedByNonce(p)
  BY <1>0, QueueFinite, Zenon DEF IndInv, QueueOK
<1>2. n \in Nat
  BY <1>0, Zenon DEF IndInv, TypeOK
<1>3. Nonces(P) = Nonces(p) \cup {t.nonce}
  BY <1>1, InsertProperties, Zenon
<1>4. \A u \in P : u \in p \/ u = t
  BY Zenon DEF Insert
<1>5. t.nonce = n \/ SaturatingSub1(t.nonce) \in Nonces(p)
  BY Zenon DEF IsPending
<1>6. t.nonce >= n /\ Known(s, p, n)
  BY Zenon
<1> HIDE DEF s, p, n, P
<1> SUFFICES ASSUME NEW u \in P, NEW k \in n..u.nonce
             PROVE  k \in Nonces(P) \/ WasProposed(s, k)
  BY Zenon DEF Known, s, p, n, P
<1>7. CASE u \in p
  BY <1>3, <1>6, <1>7, Zenon DEF Known
<1>8. CASE u = t /\ k = t.nonce
  BY <1>3, <1>8, Zenon
<1>9. CASE u = t /\ k # t.nonce
  <2>1. k \in Nat /\ n <= k /\ k <= t.nonce - 1 /\ t.nonce # 0
    BY <1>0, <1>2, <1>9, SMTT(30)
  <2>2. SaturatingSub1(t.nonce) = t.nonce - 1 /\ t.nonce # n
    BY <1>0, <1>2, <2>1, SMTT(30) DEF SaturatingSub1
  <2>3. PICK v \in p : v.nonce = t.nonce - 1
    BY <1>5, <2>2, Zenon DEF Nonces
  <2>4. k \in n..v.nonce
    BY <1>0, <1>2, <2>1, <2>3, SMTT(30)
  <2> QED
    BY <1>3, <1>6, <2>4, Zenon DEF Known
<1> QED
  BY <1>4, <1>7, <1>8, <1>9, Zenon

\* GapsWereProposed, sender by sender.
LEMMA GapsKnown ==
  GapsWereProposed <=> \A s \in Sender : Known(s, pending[s], accountNonce[s])
BY Zenon DEF GapsWereProposed, Known, WasProposed

\* submit_tx leaves no gap that was not there.
LEMMA SubmitKnown ==
  ASSUME IndInv, NEW t \in Tx, SubmitTx(t), UNCHANGED proposed, NEW s \in Sender,
         Known(s, pending[s], accountNonce[s])
  PROVE  Known(s, pending[s], accountNonce[s])'
<1>0. /\ t.sender \in Sender /\ pending \in [Sender -> SUBSET Tx]
      /\ t.nonce >= accountNonce[t.sender] /\ accountNonce' = accountNonce
      /\ \A k : WasProposed(s, k)' <=> WasProposed(s, k)
  BY TxFields, Zenon DEF SubmitTx, IndInv, TypeOK, WasProposed
<1> SUFFICES Known(s, pending'[s], accountNonce[s])
  BY <1>0, Zenon DEF Known
<1>1. CASE pending' = pending \/ s # t.sender
  <2>1. pending'[s] = pending[s]
    BY <1>0, <1>1, Zenon DEF SubmitTx, Place
  <2> QED
    BY <2>1, Zenon
<1>2. CASE pending' # pending /\ s = t.sender
  <2> DEFINE p == pending[s]
             q == queued[s]
             n == accountNonce[s]
  <2>1. /\ p \in SUBSET Tx /\ IsFiniteSet(p) /\ KeyedByNonce(p)
        /\ q \in SUBSET Tx /\ IsFiniteSet(q) /\ KeyedByNonce(q) /\ n \in Nat
    BY QueueFinite, Zenon DEF IndInv, QueueOK, TypeOK
  <2>2. /\ Insert(p, t) \in SUBSET Tx /\ IsFiniteSet(Insert(p, t))
        /\ Insert(q, t) \in SUBSET Tx
    BY <2>1, InsertProperties, Zenon
  <2>3. CASE IsPending(t) /\ Place(t, Insert(p, t), q)
    <3>1. Known(s, Insert(p, t), n)
      BY <1>0, <1>2, <2>3, InsertKnown, Zenon
    <3>2. pending'[s] = Insert(p, t) \cup Promoted(Insert(p, t), q, n)
      BY <1>0, <1>2, <2>3, Zenon DEF Place
    <3> HIDE DEF p, q, n
    <3>3. Known(s, Insert(p, t) \cup Promoted(Insert(p, t), q, n), n)
      BY <2>1, <2>2, <3>1, PromoteKnown, Zenon
    <3> QED
      BY <3>2, <3>3, Zenon DEF n
  <2>4. CASE Place(t, p, Insert(q, t))
    <3>1. pending'[s] = p \cup Promoted(p, Insert(q, t), n)
      BY <1>0, <1>2, <2>4, Zenon DEF Place
    <3>2. Known(s, p, n)
      BY Zenon
    <3> HIDE DEF p, q, n
    <3>3. Known(s, p \cup Promoted(p, Insert(q, t), n), n)
      BY <2>1, <2>2, <3>2, PromoteKnown, Zenon
    <3> QED
      BY <3>1, <3>3, Zenon DEF n
  <2> QED
    BY <1>2, <2>3, <2>4, ZenonT(40) DEF SubmitTx
<1> QED
  BY <1>1, <1>2, Zenon

\* on_commit removes only what the account's nonce has passed.
LEMMA CommitKnown ==
  ASSUME IndInv, OnCommit, UNCHANGED proposed, NEW s \in Sender,
         Known(s, pending[s], accountNonce[s])
  PROVE  Known(s, pending[s], accountNonce[s])'
<1> DEFINE n == accountNonce[s]
           p == pending[s] \ Stale(pending[s], n)
           q == queued[s] \ Stale(queued[s], n)
<1>0. accountNonce' = accountNonce /\ \A k : WasProposed(s, k)' <=> WasProposed(s, k)
  BY Zenon DEF OnCommit, WasProposed
<1> SUFFICES Known(s, pending'[s], n)
  BY <1>0, Zenon DEF Known
<1>1. /\ pending[s] \in SUBSET Tx /\ IsFiniteSet(pending[s]) /\ queued[s] \in SUBSET Tx
      /\ n \in Nat
  BY QueueFinite, Zenon DEF IndInv, TypeOK
<1>2. p \in SUBSET Tx /\ IsFiniteSet(p) /\ q \in SUBSET Tx
  BY <1>1, FS_Subset, Zenon
<1>3. pending'[s] = IF s \in senders THEN p \cup Promoted(p, q, n) ELSE pending[s]
  BY Zenon DEF OnCommit
<1>4. Known(s, p, n)
  <2> SUFFICES ASSUME NEW t \in p, NEW k \in n..t.nonce
               PROVE  k \in Nonces(p) \/ WasProposed(s, k)
    BY Zenon DEF Known
  <2>1. k \in Nonces(pending[s]) \/ WasProposed(s, k)
    BY Zenon DEF Known
  <2>2. ASSUME NEW u \in pending[s], u.nonce = k PROVE u \in p
    <3>1. t.nonce \in Nat /\ ~(k < n)
      BY <1>1, <1>2, TxFields, SMTT(30)
    <3> QED
      BY <2>2, <3>1, Zenon DEF Stale
  <2> QED
    BY <2>1, <2>2, Zenon DEF Nonces
<1>5. Known(s, pending[s], n)
  BY Zenon
<1> HIDE DEF p, q, n
<1>6. Known(s, p \cup Promoted(p, q, n), n)
  BY <1>1, <1>2, <1>4, PromoteKnown, Zenon
<1> QED
  BY <1>3, <1>5, <1>6, Zenon

\* What collect_payload takes away is proposed.
LEMMA CollectKnown ==
  ASSUME IndInv, CollectPayload, proposed' = proposed \cup Range(payload'), NEW s \in Sender,
         Known(s, pending[s], accountNonce[s])
  PROVE  Known(s, pending[s], accountNonce[s])'
<1>1. PICK ord \in Orders, inc \in SUBSET Candidates :
        /\ payload' \in Encoded(ord, inc)
        /\ pending' = [x \in Sender |-> pending[x] \ inc]
        /\ UNCHANGED accountNonce
  BY Zenon DEF CollectPayload
<1>2. IsFiniteSet(inc) /\ inc \in SUBSET Tx
  BY OrderProperties, FS_Subset, Zenon
<1>3. Range(payload') = inc
  BY <1>1, <1>2, PayloadProperties, Zenon
<1>4. pending'[s] = pending[s] \ inc /\ \A u \in pending[s] : u.sender = s
  BY <1>1, Zenon DEF IndInv, QueueOK
<1> SUFFICES ASSUME NEW t \in pending'[s], NEW k \in accountNonce[s]..t.nonce
             PROVE  k \in Nonces(pending'[s]) \/ WasProposed(s, k)'
  BY <1>1, Zenon DEF Known, Nonces
<1>5. CASE WasProposed(s, k)
  BY <1>3, <1>5, Zenon DEF WasProposed
<1>6. CASE k \in Nonces(pending[s])
  <2>1. PICK u \in pending[s] : u.nonce = k
    BY <1>6, Zenon DEF Nonces
  <2>2. CASE u \in inc
    BY <1>3, <1>4, <2>1, <2>2, Zenon DEF WasProposed
  <2>3. CASE u \notin inc
    BY <1>4, <2>1, <2>3, Zenon DEF Nonces
  <2> QED
    BY <2>2, <2>3, Zenon
<1> QED
  BY <1>4, <1>5, <1>6, Zenon DEF Known

\* As account nonces grow, less is asked of the pending nonces.
LEMMA AdvanceKnown ==
  ASSUME UNCHANGED <<pending, proposed>>, NEW s \in Sender,
         accountNonce[s] \in Nat, accountNonce'[s] \in Nat, accountNonce[s] <= accountNonce'[s],
         pending[s] \in SUBSET Tx, Known(s, pending[s], accountNonce[s])
  PROVE  Known(s, pending[s], accountNonce[s])'
<1>1. \A k : WasProposed(s, k)' <=> WasProposed(s, k)
  BY Zenon DEF WasProposed
<1>2. \A t \in pending[s] : \A k \in accountNonce'[s]..t.nonce : k \in accountNonce[s]..t.nonce
  BY TxFields, SMTT(30)
<1> QED
  BY <1>1, <1>2, Zenon DEF Known

-----------------------------------------------------------------------------
(* The node's invariant.                                                   *)

NodeInv ==
  /\ IndInv
  /\ NodeTypeOK
  /\ Hist(receipts, accountNonce)
  /\ IdlePoolIsFresh
  /\ GapsWereProposed

\* A decided block is a list of entries.
LEMMA BlockIsSeq ==
  ASSUME NodeTypeOK, NEW txs \in proposals \cup ForeignBlocks
  PROVE  Len(txs) \in Nat /\ DOMAIN txs = 1..Len(txs)
<1>1. CASE txs \in proposals
  <2>1. txs \in Seq(Tx)
    BY <1>1, Zenon DEF NodeTypeOK
  <2> QED
    BY <2>1, SMTT(30)
<1>2. CASE txs \in ForeignBlocks
  <2>1. txs \in Seq(Range(txs))
    BY <1>2, BlockAssumption, Zenon
  <2> HIDE DEF Range
  <2> QED
    BY <2>1, SMTT(30)
<1> QED
  BY <1>1, <1>2, Zenon

\* What a block leaves.
LEMMA BlockOK ==
  ASSUME NodeTypeOK, NEW txs \in proposals \cup ForeignBlocks, NEW g \in GasUsed(txs)
  PROVE  RunOK(RunBlock(txs, g))
<1>1. Len(txs) \in Nat /\ DOMAIN txs = 1..Len(txs)
  BY BlockIsSeq, Zenon
<1>2. receipts \in Seq(Seq(Receipt)) /\ accountNonce \in [Sender -> Nat]
  BY Zenon DEF NodeTypeOK, TypeOK, Receipt
<1>3. \A i \in 0..Len(txs) : RunOK(BlockRun(txs, g)[i])
  BY <1>1, <1>2, RunsOK, Zenon
<1> QED
  BY <1>1, <1>3, SMTT(30) DEF RunBlock

\* The start of the node.
LEMMA NodeInitOK == NodeInit => NodeInv
<1> SUFFICES ASSUME NodeInit PROVE NodeInv
  BY Zenon
<1>1. IndInv
  BY InitOK, Zenon DEF NodeInit
<1>2. NodeTypeOK
  <2>1. receipts \in Seq(Seq([tx : Tx, block_number : Nat, cumulative_gas_used : Nat]))
    BY DEF NodeInit
  <2> QED
    BY <1>1, <2>1, Zenon DEF NodeTypeOK, NodeInit, IndInv
<1>3. Hist(receipts, accountNonce)
  <2>1. Len(receipts) = 0 /\ 1..0 = {} /\ 0..(0 - 1) = {}
    BY SMTT(30) DEF NodeInit
  <2>2. \A s \in Sender : accountNonce[s] = 0
    BY Zenon DEF NodeInit, Init
  <2>3. 1..Len(receipts) = {} /\ \A s \in Sender : 0..(accountNonce[s] - 1) = {}
    BY <2>1, <2>2, Zenon
  <2> QED
    BY <2>3, Zenon DEF Hist
<1>4. IdlePoolIsFresh /\ GapsWereProposed
  <2>1. by_hash = {} /\ \A s \in Sender : pending[s] = {}
    BY Zenon DEF NodeInit, Init
  <2> QED
    BY <2>1, Zenon DEF IdlePoolIsFresh, GapsWereProposed
<1> QED
  BY <1>1, <1>2, <1>3, <1>4, Zenon DEF NodeInv

\* A submission, at any point of the engine's work.
LEMMA SubmitInv ==
  ASSUME NodeInv, NEW t \in Tx, Submit(t)
  PROVE  NodeInv'
<1>0. SubmitTx(t) /\ UNCHANGED nodeVars /\ IndInv /\ NodeTypeOK
  BY Zenon DEF Submit, NodeInv
<1>1. IndInv'
  BY <1>0, SubmitTxOK, Zenon
<1>2. NodeTypeOK'
  BY <1>0, <1>1, Zenon DEF NodeTypeOK, nodeVars, IndInv
<1>3. accountNonce' = accountNonce /\ receipts' = receipts /\ engine' = engine /\ proposed' = proposed
  BY <1>0, Zenon DEF SubmitTx, nodeVars
<1>4. Hist(receipts, accountNonce)'
  BY <1>3, Zenon DEF NodeInv
<1>5. IdlePoolIsFresh'
  <2>1. \A u \in by_hash' : u \in by_hash \/ u = t
    BY <1>0, Zenon DEF SubmitTx
  <2>2. t.nonce >= accountNonce[t.sender]
    BY <1>0, Zenon DEF SubmitTx
  <2> QED
    BY <1>3, <2>1, <2>2, Zenon DEF NodeInv, IdlePoolIsFresh
<1>6. GapsWereProposed'
  <2>1. \A s \in Sender : Known(s, pending[s], accountNonce[s])
    BY GapsKnown, Zenon DEF NodeInv
  <2>2. \A s \in Sender : Known(s, pending[s], accountNonce[s])'
    BY <1>0, <1>3, <2>1, SubmitKnown, Zenon
  <2> QED
    BY <2>2, Zenon DEF GapsWereProposed, Known, WasProposed
<1> QED
  BY <1>1, <1>2, <1>4, <1>5, <1>6, Zenon DEF NodeInv

\* A proposal.
LEMMA CreatePayloadInv ==
  ASSUME NodeInv, CreatePayload
  PROVE  NodeInv'
<1>0. /\ CollectPayload /\ IndInv /\ NodeTypeOK
      /\ proposals' = proposals \cup {payload'} /\ proposed' = proposed \cup Range(payload')
      /\ receipts' = receipts /\ block_height' = block_height /\ engine' = engine
  BY Zenon DEF CreatePayload, NodeInv
<1>1. IndInv'
  BY <1>0, CollectPayloadOK, Zenon
<1>2. NodeTypeOK'
  <2>1. payload' \in Seq(Tx) /\ TypeOK'
    BY <1>1, Zenon DEF IndInv, TypeOK
  <2>2. Range(payload') \in SUBSET Tx
    BY <2>1, PayloadFinite, Zenon
  <2> QED
    BY <1>0, <2>1, <2>2, Zenon DEF NodeTypeOK
<1>3. accountNonce' = accountNonce /\ by_hash' \subseteq by_hash
  BY <1>0, Zenon DEF CollectPayload
<1>4. Hist(receipts, accountNonce)'
  BY <1>0, <1>3, Zenon DEF NodeInv
<1>5. IdlePoolIsFresh'
  BY <1>0, <1>3, Zenon DEF NodeInv, IdlePoolIsFresh
<1>6. GapsWereProposed'
  <2>1. \A s \in Sender : Known(s, pending[s], accountNonce[s])
    BY GapsKnown, Zenon DEF NodeInv
  <2>2. \A s \in Sender : Known(s, pending[s], accountNonce[s])'
    BY <1>0, <2>1, CollectKnown, Zenon
  <2> QED
    BY <2>2, Zenon DEF GapsWereProposed, Known, WasProposed
<1> QED
  BY <1>1, <1>2, <1>4, <1>5, <1>6, Zenon DEF NodeInv

\* A block, own or foreign, once or again.
LEMMA ExecuteBlockInv ==
  ASSUME NodeInv, NEW txs \in proposals \cup ForeignBlocks, ExecuteBlock(txs)
  PROVE  NodeInv'
<1>0. /\ IndInv /\ NodeTypeOK /\ engine' = "executed" /\ payload' = <<>>
      /\ UNCHANGED <<poolVars, block_height, proposals, proposed>>
  BY Zenon DEF ExecuteBlock, NodeInv
<1>1. PICK g \in GasUsed(txs) :
        /\ accountNonce' = RunBlock(txs, g).nonce
        /\ receipts' = Append(receipts, RunBlock(txs, g).receipts)
  BY Zenon DEF ExecuteBlock
<1> DEFINE run == RunBlock(txs, g)
<1>2. RunOK(run)
  BY <1>0, BlockOK, Zenon
<1> HIDE DEF run
<1>3. run.nonce \in [Sender -> Nat] /\ run.receipts \in Seq(Receipt)
  BY <1>2, Zenon DEF RunOK, RunState
<1>4. receipts \in Seq(Seq(Receipt)) /\ accountNonce \in [Sender -> Nat]
  BY <1>0, Zenon DEF NodeTypeOK, TypeOK, Receipt
<1>5. TypeOK'
  BY <1>0, <1>1, <1>3, SMTT(30) DEF NodeTypeOK, TypeOK, poolVars, run
<1>6. IndInv'
  BY <1>0, <1>5, PoolUnchangedOK, Zenon
<1>7. NodeTypeOK'
  <2>1. receipts' \in Seq(Seq(Receipt))
    BY <1>1, <1>3, <1>4, SMTT(30) DEF run
  <2> QED
    BY <1>0, <1>5, <2>1, Zenon DEF NodeTypeOK, Receipt
<1>8. Hist(receipts, accountNonce)'
  <2>1. Hist(Append(receipts, run.receipts), run.nonce)
    BY <1>2, <1>4, HistAppend, Zenon DEF NodeInv
  <2> QED
    BY <1>1, <2>1, Zenon DEF run
<1>9. IdlePoolIsFresh'
  BY <1>0, Zenon DEF IdlePoolIsFresh
<1>10. GapsWereProposed'
  <2>1. \A s \in Sender : Known(s, pending[s], accountNonce[s])
    BY GapsKnown, Zenon DEF NodeInv
  <2>2. \A s \in Sender : accountNonce[s] <= run.nonce[s]
    BY <1>2, Zenon DEF RunOK, RunFacts
  <2>3. ASSUME NEW s \in Sender PROVE Known(s, pending[s], accountNonce[s])'
    <3>1. /\ UNCHANGED <<pending, proposed>> /\ pending[s] \in SUBSET Tx
          /\ accountNonce[s] \in Nat /\ accountNonce'[s] \in Nat
          /\ accountNonce[s] <= accountNonce'[s]
      BY <1>0, <1>1, <1>3, <1>4, <2>2, Zenon DEF poolVars, run, NodeTypeOK, TypeOK
    <3> QED
      BY <2>1, <3>1, AdvanceKnown, Zenon
  <2> QED
    BY <2>3, Zenon DEF GapsWereProposed, Known, WasProposed
<1> QED
  BY <1>6, <1>7, <1>8, <1>9, <1>10, Zenon DEF NodeInv

\* The two steps of on_commit.
LEMMA CommitInv ==
  ASSUME NodeInv, StoreHeight \/ CommitPool
  PROVE  NodeInv'
<1>0. IndInv /\ NodeTypeOK
  BY Zenon DEF NodeInv
<1>1. CASE StoreHeight
  <2>1. TypeOK'
    BY <1>0, <1>1, SMTT(30) DEF StoreHeight, TypeOK, NodeTypeOK, poolVars
  <2>2. IndInv'
    BY <1>0, <1>1, <2>1, PoolUnchangedOK, Zenon DEF StoreHeight
  <2>3. Len(receipts) \in Nat
    BY <1>0, SMTT(30) DEF NodeTypeOK
  <2>4. NodeTypeOK'
    BY <1>0, <1>1, <2>1, <2>3, Zenon DEF StoreHeight, NodeTypeOK
  <2>5. Hist(receipts, accountNonce)'
    BY <1>1, Zenon DEF StoreHeight, NodeInv
  <2>6. IdlePoolIsFresh'
    BY <1>1, Zenon DEF StoreHeight, IdlePoolIsFresh
  <2>7. GapsWereProposed'
    BY <1>1, SMTT(30) DEF StoreHeight, poolVars, GapsWereProposed, NodeInv
  <2> QED
    BY <2>2, <2>4, <2>5, <2>6, <2>7, Zenon DEF NodeInv
<1>2. CASE CommitPool
  <2>1. OnCommit /\ UNCHANGED <<receipts, block_height, proposals, proposed>> /\ engine' = "idle"
    BY <1>2, Zenon DEF CommitPool
  <2>2. IndInv'
    BY <1>0, <2>1, OnCommitOK, Zenon
  <2>3. NodeTypeOK'
    BY <1>0, <2>1, <2>2, Zenon DEF NodeTypeOK, IndInv
  <2>4. accountNonce' = accountNonce
    BY <2>1, Zenon DEF OnCommit
  <2>5. Hist(receipts, accountNonce)'
    BY <2>1, <2>4, Zenon DEF NodeInv
  <2>6. IdlePoolIsFresh'
    <3>1. M!Prune
      BY <1>0, <2>1, OnCommitImplements, Zenon
    <3>2. by_hash' = {t \in by_hash : t.nonce >= accountNonce[t.sender]}
      BY <3>1, Zenon DEF M!Prune
    <3> QED
      BY <2>4, <3>2, Zenon DEF IdlePoolIsFresh
  <2>7. GapsWereProposed'
    <3>1. \A s \in Sender : Known(s, pending[s], accountNonce[s])
      BY GapsKnown, Zenon DEF NodeInv
    <3>2. \A s \in Sender : Known(s, pending[s], accountNonce[s])'
      BY <1>0, <2>1, <3>1, CommitKnown, Zenon
    <3> QED
      BY <3>2, Zenon DEF GapsWereProposed, Known, WasProposed
  <2> QED
    BY <2>2, <2>3, <2>5, <2>6, <2>7, Zenon DEF NodeInv
<1> QED
  BY <1>1, <1>2, Zenon

\* Every step of the node keeps its invariant.
LEMMA NodeNextOK ==
  ASSUME NodeInv, [NodeNext]_allVars
  PROVE  NodeInv'
<1>1. CASE UNCHANGED allVars
  <2>1. UNCHANGED vars /\ UNCHANGED nodeVars
    BY <1>1, Zenon DEF allVars
  <2>2. IndInv'
    BY <2>1, NextOK, Zenon DEF NodeInv
  <2>3. /\ receipts' = receipts /\ accountNonce' = accountNonce /\ engine' = engine
        /\ by_hash' = by_hash /\ pending' = pending /\ proposed' = proposed
    BY <2>1, Zenon DEF vars, poolVars, nodeVars
  <2>4. NodeTypeOK'
    BY <2>1, <2>2, Zenon DEF NodeInv, NodeTypeOK, IndInv, nodeVars
  <2>5. Hist(receipts, accountNonce)' /\ IdlePoolIsFresh' /\ GapsWereProposed'
    BY <2>3, SMTT(30) DEF NodeInv, IdlePoolIsFresh, GapsWereProposed
  <2> QED
    BY <2>2, <2>4, <2>5, Zenon DEF NodeInv
<1> QED
  BY <1>1, SubmitInv, CreatePayloadInv, ExecuteBlockInv, CommitInv, Zenon DEF NodeNext

\* The node's steps keep the inductive invariant that its safety properties
\* follow from: the pool's, the receipts' history, and what was proposed.
THEOREM NodeInvariant == NodeSpec => []NodeInv
BY NodeInitOK, NodeNextOK, PTL DEF NodeSpec

\* The node's state keeps its types.
THEOREM NodeTypesHold == NodeSpec => []NodeTypeOK
<1>1. NodeInv => NodeTypeOK
  BY Zenon DEF NodeInv
<1> QED
  BY <1>1, NodeInvariant, PTL

\* Whatever blocks are decided, in whatever order, twice or late, and
\* whatever revm refuses, every account's transactions execute once each and
\* in nonce order (execute_block).
THEOREM NodeExecutesOnce == NodeSpec => []ExecutedOnceInOrder
<1>1. NodeInv => ExecutedOnceInOrder
  BY HistInOrder, Zenon DEF NodeInv, NodeTypeOK, TypeOK, Receipt
<1> QED
  BY <1>1, NodeInvariant, PTL

\* Every receipt is the one that a search by its transaction's hash finds,
\* and no block uses more gas than its limit (get_receipt_by_tx_hash).
THEOREM NodeFindsReceipts == NodeSpec => []ReceiptsFound
<1>1. NodeInv => ReceiptsFound
  BY HistFound, Zenon DEF NodeInv, NodeTypeOK, TypeOK, Receipt
<1> QED
  BY <1>1, NodeInvariant, PTL

\* Between blocks the pool holds nothing that the chain has passed.
THEOREM NodePoolFresh == NodeSpec => []IdlePoolIsFresh
<1>1. NodeInv => IdlePoolIsFresh
  BY Zenon DEF NodeInv
<1> QED
  BY <1>1, NodeInvariant, PTL

\* Only this node's own proposals leave gaps among pending nonces.
THEOREM NodeGapsProposed == NodeSpec => []GapsWereProposed
<1>1. NodeInv => GapsWereProposed
  BY Zenon DEF NodeInv
<1> QED
  BY <1>1, NodeInvariant, PTL

-----------------------------------------------------------------------------
(* Proposals and the block gas limit.                                      *)

\* A proposal holds no transaction twice and keeps the block's gas limit.
Fits(txs) ==
  /\ \A i, j \in 1..Len(txs) : i # j => txs[i] # txs[j]
  /\ SumOf(GasLimits, Range(txs)) <= MaxGas

\* collect_payload makes such a proposal.
LEMMA CollectFits ==
  ASSUME GasFits, MaxGas > 0, IndInv, CollectPayload
  PROVE  Fits(payload')
<1>1. PICK ord \in Orders, inc \in SUBSET Candidates :
        Includes(ord, inc) /\ payload' \in Encoded(ord, inc)
  BY Zenon DEF CollectPayload
<1>2. IsFiniteSet(inc) /\ inc \in SUBSET Tx /\ SumOf(GasLimits, inc) <= MaxGas
  BY <1>1, IncludedGas, Zenon
<1>3. Range(payload') = inc
  BY <1>1, <1>2, PayloadProperties, Zenon
<1>4. \A i, j \in 1..Len(payload') : i # j => payload'[i] # payload'[j]
  <2>1. /\ Cardinality(inc) \in Nat /\ payload' \in [1..Cardinality(inc) -> inc]
        /\ \A i, j \in 1..Cardinality(inc) : i # j => payload'[i] # payload'[j]
    BY <1>1, <1>2, FS_CardinalityType, SMTT(30) DEF Encoded, Listings, Injection, IsInjective
  <2>2. Len(payload') = Cardinality(inc)
    BY <2>1, SMTT(30)
  <2> QED
    BY <2>1, <2>2, Zenon
<1> QED
  BY <1>2, <1>3, <1>4, Zenon DEF Fits

\* The gas that the first entries of a proposal use stays below the sum of
\* their limits, so that none of them ends the block: by induction.
LEMMA FitsNotCut ==
  ASSUME NodeTypeOK, NEW txs \in Seq(Tx), Fits(txs), NEW g \in GasUsed(txs)
  PROVE  ~RunBlock(txs, g).cut
<1> DEFINE r == BlockRun(txs, g)
           N == Len(txs)
           Pre(i) == {txs[j] : j \in 1..i}
           Good(i) == ~r[i].cut /\ r[i].gas <= SumOf(GasLimits, Pre(i))
           Bad == {i \in 0..N : ~Good(i)}
<1>0. /\ N \in Nat /\ DOMAIN txs = 1..N /\ \A i \in 1..N : txs[i] \in Tx
      /\ receipts \in Seq(Seq(Receipt)) /\ Len(receipts) \in Nat
      /\ accountNonce \in [Sender -> Nat] /\ MaxGas \in Nat
  BY LimitAssumption, SMTT(30) DEF NodeTypeOK, TypeOK, Receipt
<1>1. r[0] = BlockStart /\ \A i \in 1..N : r[i] = ExecuteTx(r[i - 1], txs[i], g[i])
  BY <1>0, RunSteps, Zenon
<1>2. \A i \in 0..N : r[i] \in RunState
  BY <1>0, RunsOK, Zenon DEF RunOK
<1>3. Range(txs) \in SUBSET Tx /\ IsFiniteSet(Range(txs))
  BY PayloadFinite, Zenon
<1>4. \A i \in 0..N : /\ Pre(i) \in SUBSET Range(txs) /\ Pre(i) \in SUBSET Tx
                      /\ IsFiniteSet(Pre(i))
  <2>1. \A i \in 0..N : Pre(i) \in SUBSET Range(txs)
    BY <1>0, SMTT(30) DEF Range
  <2> HIDE DEF Pre
  <2> QED
    BY <1>3, <2>1, FS_Subset, Zenon
<1>5. \A x \in Tx : GasLimits[x] \in Nat /\ GasLimits[x] = x.gas /\ x.gas \in Nat
  BY TxFields, Zenon DEF GasLimits
<1>6. SumOf(GasLimits, Range(txs)) <= MaxGas /\ SumOf(GasLimits, Range(txs)) \in Nat
  BY <1>3, GasIsSum, Zenon DEF Fits
<1>7. \A i \in 0..N : /\ SumOf(GasLimits, Pre(i)) \in Nat
                      /\ SumOf(GasLimits, Pre(i)) <= MaxGas
  <2> SUFFICES ASSUME NEW i \in 0..N
               PROVE  SumOf(GasLimits, Pre(i)) \in Nat /\ SumOf(GasLimits, Pre(i)) <= MaxGas
    BY Zenon
  <2> DEFINE P == Pre(i)
             T == Range(txs)
  <2>1. P \in SUBSET T /\ P \in SUBSET Tx /\ IsFiniteSet(P) /\ \A x \in T : GasLimits[x] \in Nat
    BY <1>3, <1>4, <1>5, Zenon
  <2>2. IsFiniteSet(T)
    BY <1>3, Zenon
  <2> HIDE DEF P, T, Pre
  <2>3. SumOf(GasLimits, P) <= SumOf(GasLimits, T) /\ SumOf(GasLimits, P) \in Nat
    BY <2>1, <2>2, SumMono, GasIsSum, ZenonT(40)
  <2> QED
    BY <1>0, <1>6, <2>3, SMTT(30) DEF P, T
<1> HIDE DEF r
<1>8. Bad = {}
  <2> SUFFICES ASSUME Bad # {} PROVE FALSE
    BY Zenon
  <2>0. Bad \in SUBSET Nat
    BY <1>0
  <2>1. PICK i \in Bad : \A m \in Bad : i <= m
    <3> HIDE DEF Bad
    <3> QED
      BY <2>0, LeastNat, Zenon
  <2>2. i \in 0..N /\ ~Good(i) /\ i \in Nat
    BY <1>0, <2>1, SMTT(30)
  <2>3. i # 0
    <3>1. r[0].cut = FALSE /\ r[0].gas = 0
      BY <1>1 DEF BlockStart
    <3>2. 0 <= SumOf(GasLimits, Pre(0))
      <4> HIDE DEF Pre
      <4> QED
        BY <1>0, <1>7, SMTT(30)
    <3> QED
      BY <2>2, <3>1, <3>2, Zenon
  <2>4. i \in 1..N /\ i - 1 \in 0..N /\ ~(i <= i - 1)
    BY <1>0, <2>2, <2>3, SMTT(30)
  <2> DEFINE t == txs[i]
             a == r[i - 1]
             e == r[i]
             P == Pre(i - 1)
             Q == Pre(i)
             p == SumOf(GasLimits, P)
             q == SumOf(GasLimits, Q)
  <2>5. Good(i - 1)
    <3> HIDE DEF Good
    <3> QED
      BY <2>1, <2>4, Zenon
  <2>6. t \in Tx /\ e = ExecuteTx(a, t, g[i]) /\ a \in RunState
    BY <1>0, <1>1, <1>2, <2>4, Zenon
  <2>7. g[i] \in Nat /\ g[i] <= t.gas
    BY <1>0, <2>4, GasUsedType, Zenon
  <2>8. Q = P \cup {t} /\ t \notin P
    <3>1. 1..i = (1..(i - 1)) \cup {i} /\ 1..(i - 1) \subseteq 1..N /\ i \notin 1..(i - 1)
      BY <1>0, <2>4, SMTT(30)
    <3>2. \A j \in 1..(i - 1) : txs[j] # t
      BY <2>4, <3>1, Zenon DEF Fits
    <3> QED
      BY <3>1, <3>2, Zenon
  <2>9. p \in Nat /\ q \in Nat /\ q <= MaxGas /\ P \in SUBSET Tx /\ IsFiniteSet(P)
    <3> HIDE DEF Pre
    <3> QED
      BY <1>4, <1>7, <2>4, Zenon
  <2>10. ~a.cut /\ a.gas <= p /\ ~(~e.cut /\ e.gas <= q)
    BY <2>2, <2>5, Zenon
  <2> HIDE DEF t, a, e, P, Q, p, q
  <2>11. q = t.gas + p /\ t.gas \in Nat
    <3>1. \A y \in P \cup {t} : GasLimits[y] \in Nat
      BY <1>5, <2>6, <2>9, Zenon
    <3>2. SumOf(GasLimits, P \cup {t}) = GasLimits[t] + SumOf(GasLimits, P)
      BY <2>8, <2>9, <3>1, SumAdd, ZenonT(40)
    <3> QED
      BY <1>5, <2>6, <2>8, <3>2, Zenon DEF p, q
  <2>12. a.gas \in Nat
    BY <2>6, Zenon DEF RunState
  <2>13. ~(e = a)
    BY <2>9, <2>10, <2>11, <2>12, SMTT(30)
  <2>14. ~(a.gas + t.gas > MaxGas)
    BY <1>0, <2>9, <2>10, <2>11, <2>12, SMTT(30)
  <2>15. Executed(a, t, g[i], e)
    BY <1>0, <2>6, <2>7, <2>13, <2>14, ExecuteTxCases, Zenon
  <2>16. e.cut = a.cut /\ e.gas = a.gas + g[i]
    BY <2>15, Zenon DEF Executed
  <2>17. e.gas <= q
    BY <2>7, <2>9, <2>10, <2>11, <2>12, <2>16, SMTT(30)
  <2> QED
    BY <2>10, <2>16, <2>17, Zenon
<1>9. Good(N)
  <2>1. N \in 0..N /\ N \notin Bad
    <3> HIDE DEF Bad
    <3> QED
      BY <1>0, <1>8, SMTT(30)
  <2> HIDE DEF Good
  <2> QED
    BY <2>1, Zenon
<1> QED
  BY <1>9, Zenon DEF r, RunBlock

\* Every proposal fits a block.
LEMMA ProposalsFitStep ==
  ASSUME GasFits, MaxGas > 0, NodeInv, \A txs \in proposals : Fits(txs), [NodeNext]_allVars
  PROVE  (\A txs \in proposals : Fits(txs))'
<1>1. CASE CreatePayload
  <2>1. CollectPayload /\ proposals' = proposals \cup {payload'} /\ IndInv
    BY <1>1, Zenon DEF CreatePayload, NodeInv
  <2>2. Fits(payload')
    BY <2>1, CollectFits, Zenon
  <2>3. \A txs \in proposals' : Fits(txs)
    BY <2>1, <2>2, Zenon
  <2> QED
    BY <2>3, Zenon DEF Fits, GasLimits
<1>2. CASE proposals' = proposals
  BY <1>2, Zenon DEF Fits, GasLimits
<1>3. (CreatePayload \/ proposals' = proposals)
  BY Zenon DEF NodeNext, Submit, ExecuteBlock, StoreHeight, CommitPool, allVars, nodeVars
<1> QED
  BY <1>1, <1>2, <1>3, Zenon

\* What collect_payload admits under the block gas limit, execute_block
\* never cuts short: for every limit above 0, as long as the sum of gas
\* limits that collect_payload keeps cannot wrap.
THEOREM NodeNeverCuts == GasFits /\ MaxGas > 0 => (NodeSpec => []ProposalsNeverCut)
<1> SUFFICES ASSUME GasFits, MaxGas > 0 PROVE NodeSpec => []ProposalsNeverCut
  BY Zenon
<1> DEFINE AllFit == \A txs \in proposals : Fits(txs)
<1>1. NodeInit => AllFit
  BY Zenon DEF NodeInit
<1>2. NodeInv /\ AllFit /\ [NodeNext]_allVars => AllFit'
  BY ProposalsFitStep, Zenon
<1>3. NodeInv /\ AllFit => ProposalsNeverCut
  <2> SUFFICES ASSUME NodeInv, AllFit, NEW txs \in proposals, NEW g \in GasUsed(txs)
               PROVE  ~RunBlock(txs, g).cut
    BY Zenon DEF ProposalsNeverCut
  <2>1. NodeTypeOK /\ txs \in Seq(Tx) /\ Fits(txs)
    BY Zenon DEF NodeInv, NodeTypeOK
  <2> QED
    BY <2>1, FitsNotCut, Zenon
<1> HIDE DEF AllFit
<1> QED
  BY <1>1, <1>2, <1>3, NodeInvariant, PTL DEF NodeSpec

-----------------------------------------------------------------------------
(* The pool within the node.                                               *)

\* A block moves account nonces forward and leaves the pool alone.
LEMMA BlockAdvances ==
  ASSUME NodeInv, NEW txs \in proposals \cup ForeignBlocks, ExecuteBlock(txs)
  PROVE  /\ accountNonce' \in [Sender -> Nat] /\ payload' = <<>> /\ UNCHANGED poolVars
         /\ \A s \in Sender : accountNonce'[s] >= accountNonce[s]
<1>1. PICK g \in GasUsed(txs) : accountNonce' = RunBlock(txs, g).nonce
  BY Zenon DEF ExecuteBlock
<1> DEFINE run == RunBlock(txs, g)
<1>2. RunOK(run) /\ accountNonce \in [Sender -> Nat]
  BY BlockOK, Zenon DEF NodeInv, NodeTypeOK, TypeOK
<1> HIDE DEF run
<1>3. run.nonce \in [Sender -> Nat] /\ \A s \in Sender : accountNonce[s] <= run.nonce[s]
  BY <1>2, Zenon DEF RunOK, RunState, RunFacts
<1> QED
  BY <1>1, <1>2, <1>3, Zenon DEF ExecuteBlock, run

\* The executor's nonces are bounded by those of the transactions: the last
\* one of an account stands in a receipt.
LEMMA NoncesBounded ==
  ASSUME NoncesFit, NodeInv
  PROVE  accountNonce \in [Sender -> 0..MaxNonce]
<1>1. receipts \in Seq(Seq(Receipt)) /\ accountNonce \in [Sender -> Nat] /\ MaxNonce \in Nat
  BY LimitAssumption, Zenon DEF NodeInv, NodeTypeOK, TypeOK, Receipt
<1>2. ASSUME NEW s \in Sender PROVE accountNonce[s] <= MaxNonce
  <2>1. CASE accountNonce[s] = 0
    BY <1>1, <2>1, SMTT(30)
  <2>2. CASE accountNonce[s] # 0
    <3>1. accountNonce[s] \in Nat /\ accountNonce[s] - 1 \in 0..(accountNonce[s] - 1)
      BY <1>1, <2>2, SMTT(30)
    <3>2. PICK b \in 1..Len(receipts) : \E i \in 1..Len(receipts[b]) :
                 receipts[b][i].tx.nonce = accountNonce[s] - 1
      <4>1. \A n \in 0..(accountNonce[s] - 1) :
              \E b \in 1..Len(receipts) : \E i \in 1..Len(receipts[b]) :
                receipts[b][i].tx.sender = s /\ receipts[b][i].tx.nonce = n
        BY Zenon DEF NodeInv, Hist
      <4> QED
        BY <3>1, <4>1, Zenon
    <3>3. PICK i \in 1..Len(receipts[b]) : receipts[b][i].tx.nonce = accountNonce[s] - 1
      BY <3>2, Zenon
    <3>4. receipts[b][i].tx \in Tx
      BY <1>1, ReceiptFields, Zenon
    <3>5. accountNonce[s] - 1 < MaxNonce
      BY <3>3, <3>4, Zenon DEF NoncesFit
    <3> QED
      BY <1>1, <3>1, <3>5, SMTT(30)
  <2> QED
    BY <2>1, <2>2, Zenon
<1> QED
  BY <1>1, <1>2, SMTT(30)

\* The pool's part of every step of the node.
LEMMA PoolSteps ==
  ASSUME NodeInv, [NodeNext]_allVars
  PROVE  \/ \E t \in Tx : SubmitTx(t)
         \/ CollectPayload
         \/ OnCommit
         \/ /\ accountNonce' \in [Sender -> Nat] /\ payload' = <<>> /\ UNCHANGED poolVars
            /\ \A s \in Sender : accountNonce'[s] >= accountNonce[s]
         \/ UNCHANGED vars
<1>1. CASE \E txs \in proposals \cup ForeignBlocks : ExecuteBlock(txs)
  BY <1>1, BlockAdvances, Zenon
<1>2. CASE StoreHeight
  <2>1. accountNonce \in [Sender -> Nat]
    BY Zenon DEF NodeInv, NodeTypeOK, TypeOK
  <2> QED
    BY <1>2, <2>1, SMTT(30) DEF StoreHeight
<1>3. CASE UNCHANGED allVars
  BY <1>3, Zenon DEF allVars
<1> QED
  BY <1>1, <1>2, <1>3, Zenon DEF NodeNext, Submit, CreatePayload, CommitPool

\* Within the node the pool does what module TxPool says, so that what is
\* proved of the pool holds of the node's.
THEOREM NodePoolSteps == NoncesFit => (NodeSpec => PoolStepsOnly)
<1> SUFFICES ASSUME NoncesFit PROVE NodeSpec => PoolStepsOnly
  BY Zenon
<1>1. NodeInv /\ NodeInv' /\ [NodeNext]_allVars => [Next]_vars
  <2> SUFFICES ASSUME NodeInv, NodeInv', [NodeNext]_allVars PROVE [Next]_vars
    BY Zenon
  <2>1. accountNonce' \in [Sender -> 0..MaxNonce]
    <3>1. (accountNonce \in [Sender -> 0..MaxNonce])'
      BY NoncesBounded, PTL
    <3> QED
      BY <3>1, Zenon
  <2> QED
    BY <2>1, PoolSteps, Zenon DEF Next, AdvanceNonces
<1> QED
  BY <1>1, NodeInvariant, PTL DEF NodeSpec, PoolStepsOnly

\* The node's pool implements the abstract one: nothing leaves it silently,
\* whatever the engine decides, as long as the replacement threshold does
\* not saturate.
THEOREM NodeImplementsMempool == TipsFit => (NodeSpec => ImplementsMempool)
<1> SUFFICES ASSUME TipsFit PROVE NodeSpec => ImplementsMempool
  BY Zenon
<1>1. NodeInit => M!Init
  BY RangeEmpty, Zenon DEF NodeInit, Init, M!Init
<1>2. NodeInv /\ [NodeNext]_allVars => [M!Next]_M!mvars
  <2> SUFFICES ASSUME NodeInv, [NodeNext]_allVars PROVE [M!Next]_M!mvars
    BY Zenon
  <2>0. IndInv
    BY Zenon DEF NodeInv
  <2>1. CASE \E t \in Tx : SubmitTx(t)
    BY <2>0, <2>1, SubmitTxImplements, Zenon DEF M!Next
  <2>2. CASE CollectPayload
    BY <2>0, <2>2, CollectPayloadImplements, Zenon DEF M!Next
  <2>3. CASE OnCommit
    BY <2>0, <2>3, OnCommitImplements, Zenon DEF M!Next
  <2>4. CASE /\ accountNonce' \in [Sender -> Nat] /\ payload' = <<>> /\ UNCHANGED poolVars
             /\ \A s \in Sender : accountNonce'[s] >= accountNonce[s]
    BY <2>4, RangeEmpty, Zenon DEF poolVars, M!Next, M!Advance
  <2>5. CASE UNCHANGED vars
    BY <2>5, Zenon DEF vars, poolVars, M!mvars
  <2> QED
    BY <2>1, <2>2, <2>3, <2>4, <2>5, PoolSteps, Zenon
<1> QED
  BY <1>1, <1>2, NodeInvariant, PTL DEF NodeSpec, M!Spec, ImplementsMempool

-----------------------------------------------------------------------------
(* Reads of the RPC server.                                                *)

\* The nonce after the last block is the account's.
LEMMA NonceAfterLast ==
  ASSUME NodeInv, NEW s \in Sender
  PROVE  NonceAfter(s, Len(receipts)) = accountNonce[s]
<1> DEFINE R == ReceiptsOf(s)
           a == accountNonce[s]
           f == [p \in R |-> NonceAt(p)]
<1>0. receipts \in Seq(Seq(Receipt)) /\ accountNonce \in [Sender -> Nat]
  BY Zenon DEF NodeInv, NodeTypeOK, TypeOK, Receipt
<1>1. /\ {NonceAt(p) : p \in R} = 0..(a - 1)
      /\ \A p, q \in R : Earlier(p, q) => NonceAt(p) < NonceAt(q)
  BY <1>0, HistInOrder, ZenonT(40) DEF NodeInv, ExecutedOnceInOrder
<1>2. \A p \in R : /\ p = <<p[1], p[2]>> /\ p[1] \in Nat /\ p[2] \in Nat
                   /\ p[1] <= Len(receipts)
  BY <1>0, InReceiptsOf, ReceiptFields, SMTT(30)
<1>3. {p \in R : p[1] <= Len(receipts)} = R
  BY <1>2, Zenon
<1> HIDE DEF R
<1>4. a \in Nat
  BY <1>0, Zenon
<1>5. \A p, q \in R : NonceAt(p) = NonceAt(q) => p = q
  <2> SUFFICES ASSUME NEW p \in R, NEW q \in R, NonceAt(p) = NonceAt(q) PROVE p = q
    BY Zenon
  <2>1. NonceAt(p) \in Int /\ NonceAt(q) \in Int
    BY <1>1, <1>4, SMTT(30)
  <2>2. ~Earlier(p, q) /\ ~Earlier(q, p)
    BY <1>1, <2>1, SMTT(30)
  <2>3. p[1] = q[1] /\ p[2] = q[2]
    BY <1>2, <2>2, SMTT(30) DEF Earlier
  <2> QED
    BY <1>2, <2>3, Zenon
<1>6. f \in Bijection(R, 0..(a - 1))
  BY <1>1, <1>5, Zenon DEF Bijection, Injection, Surjection, IsInjective
<1>7. IsFiniteSet(0..(a - 1)) /\ Cardinality(0..(a - 1)) = a
  <2>1. 0 \in Int /\ a - 1 \in Int
    BY <1>4, SMTT(30)
  <2>2. IsFiniteSet(0..(a - 1)) /\ Cardinality(0..(a - 1)) = IF 0 > a - 1 THEN 0 ELSE (a - 1) - 0 + 1
    BY <2>1, FS_Interval, Zenon
  <2> QED
    BY <1>4, <2>2, SMTT(30)
<1>8. Cardinality(R) = a
  <2>1. f \in Injection(R, 0..(a - 1))
    BY <1>6, Zenon DEF Bijection
  <2> HIDE DEF f, a
  <2>2. IsFiniteSet(R)
    BY <1>7, <2>1, FS_Injection, Zenon
  <2> QED
    BY <1>6, <1>7, <2>2, FS_Bijection, Zenon DEF ExistsBijection
<1> QED
  BY <1>3, <1>8, Zenon DEF NonceAfter, R

\* A block that is appended changes nothing of the earlier ones.
LEMMA NonceAfterKept ==
  ASSUME receipts \in Seq(Seq(Receipt)), receipts' \in Seq(Seq(Receipt)),
         Len(receipts) <= Len(receipts'), \A b \in 1..Len(receipts) : receipts'[b] = receipts[b],
         NEW s, NEW c \in Nat, c <= Len(receipts)
  PROVE  NonceAfter(s, c)' = NonceAfter(s, c)
<1> DEFINE A == {p \in Places(receipts, s) : p[1] <= c}
           B == {p \in Places(receipts', s) : p[1] <= c}
<1>0. Len(receipts) \in Nat /\ Len(receipts') \in Nat
  OBVIOUS
<1>1. ASSUME NEW b \in 1..Len(receipts) PROVE receipts'[b] = receipts[b] /\ b \in 1..Len(receipts')
  BY <1>0
<1>3. ASSUME NEW p \in A PROVE p \in B
  <2>1. /\ p = <<p[1], p[2]>> /\ p[1] <= c
        /\ p[1] \in 1..Len(receipts) /\ p[2] \in 1..Len(receipts[p[1]])
        /\ receipts[p[1]][p[2]].tx.sender = s
    BY InPlaces
  <2>2. /\ p[1] \in 1..Len(receipts') /\ p[2] \in 1..Len(receipts'[p[1]])
        /\ receipts'[p[1]][p[2]].tx.sender = s
    BY <1>1, <2>1, Zenon
  <2>3. <<p[1], p[2]>> \in Places(receipts', s)
    BY <2>2, InPlaces, Zenon
  <2> QED
    BY <2>1, <2>3, Zenon
<1>4. ASSUME NEW p \in B PROVE p \in A
  <2>1. /\ p = <<p[1], p[2]>> /\ p[1] <= c
        /\ p[1] \in 1..Len(receipts') /\ p[2] \in 1..Len(receipts'[p[1]])
        /\ receipts'[p[1]][p[2]].tx.sender = s
    BY InPlaces
  <2>2. p[1] \in 1..Len(receipts)
    BY <1>0, <2>1, SMTT(30)
  <2>3. p[2] \in 1..Len(receipts[p[1]]) /\ receipts[p[1]][p[2]].tx.sender = s
    BY <1>1, <2>1, <2>2, Zenon
  <2>4. <<p[1], p[2]>> \in Places(receipts, s)
    BY <2>2, <2>3, InPlaces, Zenon
  <2> QED
    BY <2>1, <2>4, Zenon
<1>5. A = B
  BY <1>3, <1>4, Zenon
<1> QED
  BY <1>5, Zenon DEF NonceAfter, ReceiptsOf, Places

\* What the call in progress looks like.
QueryCall ==
  \E s \in Sender, d \in Nat, h \in 0..MaxHeight, done \in BOOLEAN :
    call = [method |-> "query", sender |-> s, data |-> d, height |-> h, done |-> done]

LogsCall ==
  \E f \in Filter, top \in 0..MaxHeight : \E h \in 0..(top + 1) : \E logs :
    call = [method |-> "logs", filter |-> f, height |-> top, h |-> h, logs |-> logs]

BlockCall ==
  \E n \in 0..MaxHeight, T \in SUBSET Nat :
    call = [method |-> "block", number |-> n, transactions |-> T]

CallOK == call = NoCall \/ QueryCall \/ LogsCall \/ BlockCall

\* The height trails the blocks by one between execute_block and on_commit.
HeightOK ==
  /\ Len(receipts) <= MaxHeight
  /\ engine = "executed" => Len(receipts) = block_height + 1
  /\ engine # "executed" => Len(receipts) = block_height

\* While the state's mutex is held, the nonce that was read is current; then
\* it is the one after a block that the answer's height allows.
QueryOK ==
  call.method = "query" =>
    /\ ~call.done => call.data = accountNonce[call.sender]
    /\ call.done => \E c \in {call.height, call.height + 1} :
                      c <= Len(receipts) /\ call.data = NonceAfter(call.sender, c)

ReadsInv == NodeInv /\ HeightOK /\ CallOK /\ QueryOK

\* The node's steps keep the height's distance.
LEMMA HeightStep ==
  ASSUME NodeInv, HeightOK, [NodeNext]_allVars
  PROVE  HeightOK'
<1>0. /\ Len(receipts) \in Nat /\ block_height \in Nat /\ MaxHeight \in Nat
      /\ receipts \in Seq(Seq(Receipt))
  BY BlockAssumption, SMTT(30) DEF NodeInv, NodeTypeOK, Receipt
<1>1. CASE \E txs \in proposals \cup ForeignBlocks : ExecuteBlock(txs)
  <2>1. PICK txs \in proposals \cup ForeignBlocks : ExecuteBlock(txs)
    BY <1>1, Zenon
  <2>2. /\ engine = "idle" /\ engine' = "executed" /\ Len(receipts) < MaxHeight
        /\ block_height' = block_height
        /\ \E x : receipts' = Append(receipts, x)
    BY <2>1, Zenon DEF ExecuteBlock
  <2>3. Len(receipts') = Len(receipts) + 1
    BY <1>0, <2>2, SMTT(30)
  <2> QED
    BY <1>0, <2>2, <2>3, SMTT(30) DEF HeightOK
<1>2. CASE StoreHeight
  BY <1>0, <1>2, Zenon DEF StoreHeight, HeightOK
<1>3. CASE CommitPool
  BY <1>3, Zenon DEF CommitPool, HeightOK
<1>4. CASE UNCHANGED nodeVars
  BY <1>4, Zenon DEF nodeVars, HeightOK
<1>5. CASE CreatePayload
  BY <1>5, Zenon DEF CreatePayload, HeightOK
<1> QED
  BY <1>1, <1>2, <1>3, <1>4, <1>5, Zenon DEF NodeNext, Submit, allVars

\* Blocks are only appended.
LEMMA ReceiptsKept ==
  ASSUME NodeInv, NodeInv', [NodeNext]_allVars
  PROVE  /\ receipts \in Seq(Seq(Receipt)) /\ receipts' \in Seq(Seq(Receipt))
         /\ Len(receipts) \in Nat /\ Len(receipts') \in Nat /\ Len(receipts) <= Len(receipts')
         /\ \A b \in 1..Len(receipts) : receipts'[b] = receipts[b]
<1>1. receipts \in Seq(Seq(Receipt)) /\ receipts' \in Seq(Seq(Receipt))
  BY Zenon DEF NodeInv, NodeTypeOK, Receipt
<1>2. CASE receipts' = receipts
  BY <1>1, <1>2, SMTT(30)
<1>3. CASE \E txs \in proposals \cup ForeignBlocks : ExecuteBlock(txs)
  <2>1. PICK txs \in proposals \cup ForeignBlocks : ExecuteBlock(txs)
    BY <1>3, Zenon
  <2>2. PICK g \in GasUsed(txs) : receipts' = Append(receipts, RunBlock(txs, g).receipts)
    BY <2>1, Zenon DEF ExecuteBlock
  <2>3. RunBlock(txs, g).receipts \in Seq(Receipt)
    BY BlockOK, Zenon DEF NodeInv, RunOK, RunState
  <2> QED
    BY <1>1, <2>2, <2>3, SMTT(30)
<1> QED
  BY Zenon, <1>2, <1>3
     DEF NodeNext, Submit, CreatePayload, StoreHeight, CommitPool, allVars, nodeVars

\* The method tells what the call looks like.
LEMMA CallIs ==
  ASSUME CallOK
  PROVE  /\ call.method = "query" => QueryCall
         /\ call.method = "logs" => LogsCall
         /\ call.method = "block" => BlockCall
<1>1. NoCall.method = "none"
  BY Zenon DEF NoCall
<1>2. QueryCall => call.method = "query"
  BY DEF QueryCall
<1>3. LogsCall => call.method = "logs"
  BY DEF LogsCall
<1>4. BlockCall => call.method = "block"
  BY DEF BlockCall
<1> QED
  BY <1>1, <1>2, <1>3, <1>4, Zenon DEF CallOK

\* The fields of a query in progress.
LEMMA QueryFields ==
  ASSUME CallOK, call.method = "query"
  PROVE  /\ call.sender \in Sender /\ call.data \in Nat /\ call.height \in 0..MaxHeight
         /\ call.height \in Nat /\ call.done \in BOOLEAN
<1>1. PICK s \in Sender, d \in Nat, h \in 0..MaxHeight, done \in BOOLEAN :
        call = [method |-> "query", sender |-> s, data |-> d, height |-> h, done |-> done]
  BY CallIs, Zenon DEF QueryCall
<1> QED
  BY <1>1, BlockAssumption, SMTT(30)

\* The node goes on while a call is in progress.
LEMMA NodeStepReads ==
  ASSUME ReadsInv, NodeStep
  PROVE  ReadsInv'
<1>0. [NodeNext]_allVars /\ call' = call /\ NodeInv /\ HeightOK /\ CallOK /\ QueryOK
  BY Zenon DEF NodeStep, NodeNext, ReadsInv
<1>1. NodeInv' /\ HeightOK'
  BY <1>0, NodeNextOK, HeightStep, Zenon
<1>2. CallOK'
  BY <1>0, SMTT(30) DEF CallOK, NoCall, QueryCall, LogsCall, BlockCall
<1>3. QueryOK'
  <2> SUFFICES ASSUME call.method = "query"
               PROVE  /\ ~call.done => call.data = accountNonce'[call.sender]
                      /\ call.done => \E c \in {call.height, call.height + 1} :
                           c <= Len(receipts') /\ call.data = NonceAfter(call.sender, c)'
    BY <1>0, Zenon DEF QueryOK
  <2>1. ASSUME ~call.done PROVE call.data = accountNonce'[call.sender]
    <3>1. StateHeld
      BY <2>1, Zenon DEF StateHeld
    <3>2. StoreHeight
      BY <3>1, Zenon DEF NodeStep
    <3> QED
      BY <1>0, <2>1, <3>2, Zenon DEF StoreHeight, QueryOK
  <2>2. ASSUME call.done
        PROVE  \E c \in {call.height, call.height + 1} :
                 c <= Len(receipts') /\ call.data = NonceAfter(call.sender, c)'
    <3>1. PICK c \in {call.height, call.height + 1} :
            c <= Len(receipts) /\ call.data = NonceAfter(call.sender, c)
      BY <1>0, <2>2, Zenon DEF QueryOK
    <3>2. c \in Nat
      BY <1>0, QueryFields, SMTT(30)
    <3>3. /\ receipts \in Seq(Seq(Receipt)) /\ receipts' \in Seq(Seq(Receipt))
          /\ Len(receipts) \in Nat /\ Len(receipts') \in Nat /\ Len(receipts) <= Len(receipts')
          /\ \A b \in 1..Len(receipts) : receipts'[b] = receipts[b]
      BY <1>0, <1>1, ReceiptsKept, Zenon
    <3> DEFINE s == call.sender
    <3>4. NonceAfter(s, c)' = NonceAfter(s, c)
      BY <1>0, <3>1, <3>2, <3>3, NonceAfterKept, Zenon
    <3> QED
      BY <1>0, <3>1, <3>2, <3>3, <3>4, SMTT(30)
  <2> QED
    BY <2>1, <2>2, Zenon
<1> QED
  BY <1>1, <1>2, <1>3, Zenon DEF ReadsInv

\* A read changes nothing of the node.
LEMMA ReadKeeps ==
  ASSUME ReadsInv, UNCHANGED allVars
  PROVE  /\ NodeInv' /\ HeightOK'
         /\ receipts' = receipts /\ accountNonce' = accountNonce /\ block_height' = block_height
         /\ \A s, c : NonceAfter(s, c)' = NonceAfter(s, c)
<1>1. NodeInv' /\ HeightOK'
  BY NodeNextOK, HeightStep, Zenon DEF ReadsInv
<1>2. receipts' = receipts /\ accountNonce' = accountNonce /\ block_height' = block_height
  BY Zenon DEF allVars, vars, nodeVars
<1> QED
  BY <1>1, <1>2, Zenon DEF NonceAfter, ReceiptsOf

\* Heights and counts are natural numbers within bounds.
LEMMA ReadValues ==
  ASSUME ReadsInv
  PROVE  /\ block_height \in 0..MaxHeight /\ MaxHeight \in Nat
         /\ \A s \in Sender : accountNonce[s] \in Nat
         /\ \A n \in Nat : Len(get_receipts(n)) \in Nat
<1>1. /\ receipts \in Seq(Seq(Receipt)) /\ accountNonce \in [Sender -> Nat]
      /\ block_height \in Nat /\ Len(receipts) \in Nat /\ MaxHeight \in Nat
  BY BlockAssumption, SMTT(30) DEF ReadsInv, NodeInv, NodeTypeOK, TypeOK, Receipt
<1>2. block_height \in 0..MaxHeight
  BY <1>1, SMTT(30) DEF ReadsInv, HeightOK
<1>3. \A n \in Nat : get_receipts(n) \in Seq(Receipt)
  BY <1>1, SMTT(30) DEF get_receipts
<1> QED
  BY <1>1, <1>2, <1>3, SMTT(30)

\* A query reads the nonce and then the height.
LEMMA QueryReads ==
  ASSUME ReadsInv, (\E s \in Sender : BeginQuery(s)) \/ EndQuery
  PROVE  ReadsInv'
<1>0. UNCHANGED allVars
  BY Zenon DEF BeginQuery, Begin, EndQuery
<1>1. /\ NodeInv' /\ HeightOK' /\ receipts' = receipts /\ accountNonce' = accountNonce
      /\ \A s, c : NonceAfter(s, c)' = NonceAfter(s, c)
  BY <1>0, ReadKeeps, Zenon
<1>2. CASE \E s \in Sender : BeginQuery(s)
  <2>1. PICK s \in Sender : BeginQuery(s)
    BY <1>2, Zenon
  <2>2. call' = [method |-> "query", sender |-> s, data |-> accountNonce[s], height |-> 0,
                 done |-> FALSE]
    BY <2>1, Zenon DEF BeginQuery, Begin
  <2>3. accountNonce[s] \in Nat /\ 0 \in 0..MaxHeight
    BY ReadValues, SMTT(30)
  <2>4. CallOK'
    BY <2>2, <2>3, ZenonT(40) DEF CallOK, QueryCall
  <2>5. QueryOK'
    BY <1>1, <2>2, Zenon DEF QueryOK
  <2> QED
    BY <1>1, <2>4, <2>5, Zenon DEF ReadsInv
<1>3. CASE EndQuery
  <2>0. call.method = "query" /\ ~call.done /\ CallOK /\ QueryOK /\ NodeInv /\ HeightOK
    BY <1>3, Zenon DEF EndQuery, ReadsInv
  <2>1. PICK s \in Sender, d \in Nat, h \in 0..MaxHeight, done \in BOOLEAN :
          call = [method |-> "query", sender |-> s, data |-> d, height |-> h, done |-> done]
    BY <2>0, CallIs, Zenon DEF QueryCall
  <2>2. d = accountNonce[s]
    BY <2>0, <2>1, Zenon DEF QueryOK
  <2>3. call' = [method |-> "query", sender |-> s, data |-> d, height |-> block_height,
                 done |-> TRUE]
    BY <1>3, <2>1, ZenonT(40) DEF EndQuery
  <2>4. CallOK'
    <3>1. block_height \in 0..MaxHeight
      BY ReadValues, Zenon
    <3> QED
      BY <2>1, <2>3, <3>1, Zenon DEF CallOK, QueryCall
  <2>5. Len(receipts) \in {block_height, block_height + 1} /\ Len(receipts) <= Len(receipts)
    <3>1. Len(receipts) \in Nat /\ block_height \in Nat
      BY <2>0, SMTT(30) DEF NodeInv, NodeTypeOK
    <3> QED
      BY <2>0, <3>1, SMTT(30) DEF HeightOK
  <2>6. d = NonceAfter(s, Len(receipts))
    BY <2>0, <2>1, <2>2, NonceAfterLast, Zenon
  <2>7. QueryOK'
    BY <1>1, <2>3, <2>5, <2>6, Zenon DEF QueryOK
  <2> QED
    BY <1>1, <2>4, <2>7, Zenon DEF ReadsInv
<1> QED
  BY <1>2, <1>3, Zenon

\* eth_getLogs and eth_getBlockByNumber read heights and receipts.
LEMMA OtherReads ==
  ASSUME ReadsInv,
         \/ \E f \in Filter : BeginLogs(f)
         \/ ReadBlock \/ BeginBlock \/ CountTransactions \/ Reply
  PROVE  ReadsInv'
<1>0. UNCHANGED allVars
  BY Zenon DEF BeginLogs, Begin, ReadBlock, BeginBlock, CountTransactions, Reply
<1>1. NodeInv' /\ HeightOK'
  BY <1>0, ReadKeeps, Zenon
<1>2. /\ block_height \in 0..MaxHeight /\ MaxHeight \in Nat
      /\ \A n \in Nat : Len(get_receipts(n)) \in Nat
  BY ReadValues, Zenon
<1>3. CallOK
  BY Zenon DEF ReadsInv
<1>4. CASE \E f \in Filter : BeginLogs(f)
  <2>1. PICK f \in Filter : BeginLogs(f)
    BY <1>4, Zenon
  <2>2. call' = [method |-> "logs", filter |-> f, height |-> block_height, h |-> 0,
                 logs |-> <<>>]
    BY <2>1, Zenon DEF BeginLogs, Begin, FirstIndex
  <2>3. 0 \in 0..(block_height + 1)
    BY <1>2, SMTT(30)
  <2>4. CallOK'
    BY <1>2, <2>2, <2>3, ZenonT(40) DEF CallOK, LogsCall
  <2>5. QueryOK'
    BY <2>2, Zenon DEF QueryOK
  <2> QED
    BY <1>1, <2>4, <2>5, Zenon DEF ReadsInv
<1>5. CASE ReadBlock
  <2>1. call.method = "logs" /\ call.h <= call.height
    BY <1>5, Zenon DEF ReadBlock, IndexLeft
  <2>2. PICK f \in Filter, top \in 0..MaxHeight : \E h \in 0..(top + 1) : \E logs :
          call = [method |-> "logs", filter |-> f, height |-> top, h |-> h, logs |-> logs]
    BY <1>3, <2>1, CallIs, Zenon DEF LogsCall
  <2>3. PICK h \in 0..(top + 1) : \E logs :
          call = [method |-> "logs", filter |-> f, height |-> top, h |-> h, logs |-> logs]
    BY <2>2, Zenon
  <2>8. PICK logs :
          call = [method |-> "logs", filter |-> f, height |-> top, h |-> h, logs |-> logs]
    BY <2>3, Zenon
  <2>4. \E new : call' = [method |-> "logs", filter |-> f, height |-> top, h |-> h + 1,
                          logs |-> new]
    <3> DEFINE more == LogsIn(get_receipts(call.h), call.filter)
    <3>1. call' = [call EXCEPT !.logs = @ \o more, !.h = @ + 1]
      BY <1>5, Zenon DEF ReadBlock
    <3> HIDE DEF more
    <3> QED
      BY <2>8, <3>1, Zenon
  <2>5. h + 1 \in 0..(top + 1)
    BY <1>2, <2>1, <2>8, SMTT(30)
  <2>6. CallOK'
    BY <2>4, <2>5, Zenon DEF CallOK, LogsCall
  <2>7. QueryOK'
    BY <2>4 DEF QueryOK
  <2> QED
    BY <1>1, <2>6, <2>7, Zenon DEF ReadsInv
<1>6. CASE BeginBlock
  <2>1. call' = [method |-> "block", number |-> block_height, transactions |-> {}]
    BY <1>6, Zenon DEF BeginBlock, Begin
  <2>2. CallOK'
    BY <1>2, <2>1, ZenonT(40) DEF CallOK, BlockCall
  <2>3. QueryOK'
    BY <2>1, Zenon DEF QueryOK
  <2> QED
    BY <1>1, <2>2, <2>3, Zenon DEF ReadsInv
<1>7. CASE CountTransactions
  <2>1. call.method = "block"
    BY <1>7, Zenon DEF CountTransactions
  <2>2. PICK n \in 0..MaxHeight, T \in SUBSET Nat :
          call = [method |-> "block", number |-> n, transactions |-> T]
    BY <1>3, <2>1, CallIs, Zenon DEF BlockCall
  <2> DEFINE k == Len(get_receipts(n))
  <2>3. k \in Nat
    BY <1>2, SMTT(30)
  <2>4. call' = [call EXCEPT !.transactions = {k}]
    BY <1>7, <2>2, Zenon DEF CountTransactions
  <2> HIDE DEF k
  <2>5. call' = [method |-> "block", number |-> n, transactions |-> {k}] /\ {k} \in SUBSET Nat
    BY <2>2, <2>3, <2>4, Zenon
  <2>6. CallOK'
    BY <2>5, Zenon DEF CallOK, BlockCall
  <2>7. QueryOK'
    BY <2>5, Zenon DEF QueryOK
  <2> QED
    BY <1>1, <2>6, <2>7, Zenon DEF ReadsInv
<1>8. CASE Reply
  <2>1. call' = NoCall
    BY <1>8, Zenon DEF Reply
  <2>2. CallOK'
    BY <2>1, Zenon DEF CallOK, NoCall
  <2>3. QueryOK'
    BY <2>1, Zenon DEF QueryOK, NoCall
  <2> QED
    BY <1>1, <2>2, <2>3, Zenon DEF ReadsInv
<1> QED
  BY <1>4, <1>5, <1>6, <1>7, <1>8, Zenon

LEMMA ReadsInitOK == ReadsInit => ReadsInv
<1> SUFFICES ASSUME ReadsInit PROVE ReadsInv
  BY Zenon
<1>1. NodeInv
  BY NodeInitOK, Zenon DEF ReadsInit
<1>2. HeightOK
  BY BlockAssumption, SMTT(30) DEF ReadsInit, NodeInit, HeightOK
<1>3. CallOK /\ QueryOK
  BY Zenon DEF ReadsInit, NoCall, CallOK, QueryOK
<1> QED
  BY <1>1, <1>2, <1>3, Zenon DEF ReadsInv

LEMMA ReadsNextOK ==
  ASSUME ReadsInv, [ReadsNext]_readVars
  PROVE  ReadsInv'
<1>1. CASE UNCHANGED readVars
  <2>1. UNCHANGED allVars /\ call' = call
    BY <1>1, Zenon DEF readVars
  <2>2. /\ NodeInv' /\ HeightOK' /\ receipts' = receipts /\ accountNonce' = accountNonce
        /\ \A s, c : NonceAfter(s, c)' = NonceAfter(s, c)
    BY <2>1, ReadKeeps, Zenon
  <2>3. CallOK' /\ QueryOK'
    BY <2>1, <2>2, ZenonT(40) DEF ReadsInv, CallOK, QueryCall, LogsCall, BlockCall, NoCall, QueryOK
  <2> QED
    BY <2>2, <2>3, Zenon DEF ReadsInv
<1>2. CASE ReadsNext
  BY <1>2, NodeStepReads, QueryReads, OtherReads, Zenon DEF ReadsNext
<1> QED
  BY <1>1, <1>2, Zenon

\* The reads of the JSON-RPC server and the steps of the node keep the
\* inductive invariant of the two together.
THEOREM ReadsInvariant == ReadsSpec => []ReadsInv
<1>1. ReadsInv /\ [ReadsNext]_readVars => ReadsInv'
  BY ReadsNextOK, Zenon
<1> QED
  BY ReadsInitOK, <1>1, PTL DEF ReadsSpec

\* A call in progress is well formed: eth_getLogs never reads further than
\* one index past its height, no height exceeds the bound (crates/rpc).
THEOREM ReadsTypesHold == ReadsSpec => []ReadsTypeOK
<1>1. ReadsInv => ReadsTypeOK
  <2> SUFFICES ASSUME ReadsInv PROVE ReadsTypeOK
    BY Zenon
  <2>1. NodeTypeOK /\ CallOK
    BY Zenon DEF ReadsInv, NodeInv
  <2>2. CASE call = NoCall
    BY <2>1, <2>2, Zenon DEF ReadsTypeOK
  <2>3. ASSUME NEW s \in Sender, NEW d \in Nat, NEW h \in 0..MaxHeight, NEW done \in BOOLEAN,
               call = [method |-> "query", sender |-> s, data |-> d, height |-> h, done |-> done]
        PROVE  ReadsTypeOK
    BY <2>1, <2>3, Zenon DEF ReadsTypeOK
  <2>4. ASSUME NEW f \in Filter, NEW top \in 0..MaxHeight, NEW h \in 0..(top + 1), NEW logs,
               call = [method |-> "logs", filter |-> f, height |-> top, h |-> h, logs |-> logs]
        PROVE  ReadsTypeOK
    BY <2>1, <2>4, Zenon DEF ReadsTypeOK
  <2>5. ASSUME NEW n \in 0..MaxHeight, NEW T \in SUBSET Nat,
               call = [method |-> "block", number |-> n, transactions |-> T]
        PROVE  ReadsTypeOK
    BY <2>1, <2>5, Zenon DEF ReadsTypeOK
  <2> QED
    BY <2>1, <2>2, <2>3, <2>4, <2>5, Zenon DEF CallOK, QueryCall, LogsCall, BlockCall
<1> QED
  BY <1>1, ReadsInvariant, PTL

\* A query never answers with a state older than the height it names,
\* although on_commit stores the height without the state's mutex
\* (Executor::query, on_commit).
THEOREM QueriesAreFresh == ReadsSpec => []QueryNotStale
<1>1. ReadsInv => QueryNotStale
  BY Zenon DEF ReadsInv, QueryOK, QueryNotStale
<1> QED
  BY <1>1, ReadsInvariant, PTL

-----------------------------------------------------------------------------
(* eth_getLogs: what the loop has collected so far.                        *)

\* The entries of the answers.
Entry ==
  [log : UNION {Range(LogsOf[t]) : t \in Tx}, log_idx : Int, tx : Tx, block_number : Nat]

\* The logs of one receipt are a sequence of entries.
LEMMA ReceiptLogsType ==
  ASSUME NEW r \in Receipt, NEW f
  PROVE  ReceiptLogs(r, f) \in Seq(Entry)
<1> DEFINE logs == LogsOf[r.tx]
           entry(k) == [log |-> logs[k], log_idx |-> k - 1, tx |-> r.tx,
                        block_number |-> r.block_number]
           ss == [k \in DOMAIN logs |-> IF Matches(f, logs[k]) THEN <<entry(k)>> ELSE <<>>]
<1>1. r.tx \in Tx /\ r.block_number \in Nat
  BY Zenon DEF Receipt
<1>2. logs \in Seq(Range(logs))
  BY <1>1, LogsAssumption, Zenon
<1> HIDE DEF logs
<1>3. Len(logs) \in Nat /\ DOMAIN logs = 1..Len(logs)
  BY <1>2
<1>4. \A k \in DOMAIN logs : entry(k) \in Entry
  <2> SUFFICES ASSUME NEW k \in DOMAIN logs PROVE entry(k) \in Entry
    BY Zenon
  <2>1. logs[k] \in UNION {Range(LogsOf[t]) : t \in Tx}
    <3>1. logs[k] \in Range(logs)
      BY Zenon DEF Range
    <3> QED
      BY <1>1, <3>1, Zenon DEF logs
  <2>2. k - 1 \in Int
    BY <1>3
  <2> QED
    BY <1>1, <2>1, <2>2, Zenon DEF Entry
<1> HIDE DEF entry
<1>5. \A k \in 1..Len(logs) : ss[k] \in Seq(Entry)
  BY <1>3, <1>4
<1>6. ss \in Seq(Seq(Entry))
  <2>1. ss \in [1..Len(logs) -> Seq(Entry)]
    BY <1>3, <1>5, Zenon
  <2> QED
    BY <1>3, <2>1
<1>7. ReceiptLogs(r, f) = Concat(ss)
  BY Zenon DEF ReceiptLogs, logs, entry
<1> HIDE DEF ss
<1> QED
  BY <1>6, <1>7, ConcatOfTwo, Zenon

\* The logs of two runs of receipts are the logs of the one and of the other.
LEMMA LogsInTwo ==
  ASSUME NEW a \in Seq(Receipt), NEW b \in Seq(Receipt), NEW f
  PROVE  /\ LogsIn(a, f) \in Seq(Entry)
         /\ LogsIn(a \o b, f) = LogsIn(a, f) \o LogsIn(b, f)
<1> DEFINE logs(r) == ReceiptLogs(r, f)
           aa == [i \in DOMAIN a |-> logs(a[i])]
           bb == [i \in DOMAIN b |-> logs(b[i])]
           both == [i \in DOMAIN (a \o b) |-> logs((a \o b)[i])]
<1>1. LogsIn(a, f) = Concat(aa) /\ LogsIn(b, f) = Concat(bb) /\ LogsIn(a \o b, f) = Concat(both)
  BY Zenon DEF LogsIn
<1>2. \A r \in Receipt : logs(r) \in Seq(Entry)
  BY ReceiptLogsType, Zenon
<1> HIDE DEF logs
<1>3. aa \in Seq(Seq(Entry)) /\ bb \in Seq(Seq(Entry))
  <2>1. \A i \in 1..Len(a) : a[i] \in Receipt
    OBVIOUS
  <2>2. \A i \in 1..Len(b) : b[i] \in Receipt
    OBVIOUS
  <2>3. DOMAIN a = 1..Len(a) /\ DOMAIN b = 1..Len(b) /\ Len(a) \in Nat /\ Len(b) \in Nat
    OBVIOUS
  <2>4. aa \in [1..Len(a) -> Seq(Entry)] /\ bb \in [1..Len(b) -> Seq(Entry)]
    BY <1>2, <2>1, <2>2, <2>3, Zenon
  <2> HIDE DEF aa, bb
  <2>5. aa \in Seq(Seq(Entry))
    BY <2>3, <2>4
  <2>6. bb \in Seq(Seq(Entry))
    BY <2>3, <2>4
  <2> QED
    BY <2>5, <2>6, Zenon
<1>4. both = aa \o bb
  <2> DEFINE k == Len(a)
             l == Len(b)
             ab == a \o b
             cc == aa \o bb
  <2>1. /\ k \in Nat /\ l \in Nat /\ DOMAIN a = 1..k /\ DOMAIN b = 1..l
        /\ ab \in Seq(Receipt) /\ DOMAIN ab = 1..(k + l)
        /\ \A i \in 1..(k + l) : ab[i] = IF i <= k THEN a[i] ELSE b[i - k]
    OBVIOUS
  <2>2. /\ \A i \in 1..k : aa[i] = logs(a[i])
        /\ \A i \in 1..l : bb[i] = logs(b[i])
        /\ DOMAIN aa = 1..k /\ DOMAIN bb = 1..l
    BY <2>1, Zenon
  <2>3. both = [i \in 1..(k + l) |-> logs(ab[i])]
    BY <2>1, Zenon
  <2> HIDE DEF aa, bb, both, ab
  <2>4. Len(aa) = k /\ Len(bb) = l
    BY <1>3, <2>1, <2>2
  <2> HIDE DEF k, l
  <2>5. /\ \A i \in 1..(k + l) : cc[i] = IF i <= k THEN aa[i] ELSE bb[i - k]
        /\ cc = [i \in 1..(k + l) |-> cc[i]]
    <3>1. \A i \in 1..(Len(aa) + Len(bb)) :
            cc[i] = IF i <= Len(aa) THEN aa[i] ELSE bb[i - Len(aa)]
      BY <1>3
    <3>2. DOMAIN cc = 1..(Len(aa) + Len(bb)) /\ cc \in Seq(Seq(Entry))
      BY <1>3
    <3>3. cc = [i \in DOMAIN cc |-> cc[i]]
      <4> HIDE DEF cc
      <4> QED
        BY <3>2
    <3> HIDE DEF cc
    <3> QED
      BY <2>4, <3>1, <3>2, <3>3, Zenon
  <2> HIDE DEF cc
  <2>6. \A i \in 1..(k + l) : cc[i] = logs(ab[i])
    <3> SUFFICES ASSUME NEW i \in 1..(k + l) PROVE cc[i] = logs(ab[i])
      BY Zenon
    <3>1. CASE i <= k
      <4>1. i \in 1..k
        BY <2>1, <3>1
      <4> QED
        BY <2>1, <2>2, <2>5, <3>1, <4>1, Zenon
    <3>2. CASE ~(i <= k)
      <4>1. i - k \in 1..l
        BY <2>1, <3>2
      <4> QED
        BY <2>1, <2>2, <2>5, <3>2, <4>1, Zenon
    <3> QED
      BY <3>1, <3>2, Zenon
  <2>7. both = [i \in 1..(k + l) |-> cc[i]]
    BY <2>3, <2>6, Zenon
  <2> QED
    BY <2>5, <2>7, Zenon DEF cc
<1> HIDE DEF aa, bb, both
<1>5. Concat(aa) \in Seq(Entry) /\ Concat(aa \o bb) = Concat(aa) \o Concat(bb)
  BY <1>3, ConcatOfTwo, Zenon
<1> QED
  BY <1>1, <1>4, <1>5, Zenon

\* No receipts, no logs.
LEMMA LogsInNone ==
  ASSUME NEW f
  PROVE  LogsIn(<<>>, f) = <<>>
<1>1. [i \in DOMAIN <<>> |-> ReceiptLogs(<<>>[i], f)] = <<>>
  OBVIOUS
<1> QED
  BY <1>1, ConcatEmpty, Zenon DEF LogsIn

\* The receipts of one block more.
LEMMA OneBlockMore ==
  ASSUME NEW rs \in Seq(Seq(Receipt)), NEW h \in Nat, h + 1 \in 1..Len(rs)
  PROVE  /\ Concat(SubSeq(rs, 1, h)) \in Seq(Receipt) /\ rs[h + 1] \in Seq(Receipt)
         /\ Concat(SubSeq(rs, 1, h + 1)) = Concat(SubSeq(rs, 1, h)) \o rs[h + 1]
<1> DEFINE p == SubSeq(rs, 1, h)
           s == rs[h + 1]
<1>1. p \in Seq(Seq(Receipt)) /\ s \in Seq(Receipt) /\ <<s>> \in Seq(Seq(Receipt))
  OBVIOUS
<1>2. SubSeq(rs, 1, h + 1) = p \o <<s>>
  OBVIOUS
<1> HIDE DEF p, s
<1>3. Concat(p \o <<s>>) = Concat(p) \o Concat(<<s>>) /\ Concat(p) \in Seq(Receipt)
  BY <1>1, ConcatOfTwo, Zenon
<1>4. Concat(<<s>>) = s
  BY <1>1, ConcatOne, Zenon
<1> QED
  BY <1>1, <1>2, <1>3, <1>4, Zenon DEF p, s

\* The logs of the first b blocks of rs.
LogsUpTo(rs, b, f) == LogsIn(Concat(SubSeq(rs, 1, b)), f)

\* eth_getLogs holds the logs of the blocks it has read; the index past the
\* last one was empty when it read it, or held the block executed since.
LogsOK ==
  call.method = "logs" =>
    /\ call.height <= Len(receipts)
    /\ \E b \in 0..Len(receipts) :
         /\ b = call.h \/ (b = call.height /\ call.h = call.height + 1)
         /\ call.logs = LogsUpTo(receipts, b, call.filter)

\* The node goes on while eth_getLogs reads: the blocks it has read stay.
LEMMA LogsKept ==
  ASSUME ReadsInv, ReadsInv', LogsOK, NodeStep
  PROVE  LogsOK'
<1>1. [NodeNext]_allVars /\ call' = call
  BY Zenon DEF NodeStep, NodeNext
<1>2. /\ receipts \in Seq(Seq(Receipt)) /\ receipts' \in Seq(Seq(Receipt))
      /\ Len(receipts) \in Nat /\ Len(receipts') \in Nat /\ Len(receipts) <= Len(receipts')
      /\ \A b \in 1..Len(receipts) : receipts'[b] = receipts[b]
  BY <1>1, ReceiptsKept, Zenon DEF ReadsInv
<1>3. \A b \in 0..Len(receipts) : b \in 0..Len(receipts')
  BY <1>2
<1>4. \A b \in 0..Len(receipts) : SubSeq(receipts', 1, b) = SubSeq(receipts, 1, b)
  BY <1>2
<1>5. \A b \in 0..Len(receipts) : \A f : LogsUpTo(receipts', b, f) = LogsUpTo(receipts, b, f)
  BY <1>4, Zenon DEF LogsUpTo
<1> SUFFICES ASSUME call.method = "logs"
             PROVE  /\ call.height <= Len(receipts')
                    /\ \E b \in 0..Len(receipts') :
                         /\ b = call.h \/ (b = call.height /\ call.h = call.height + 1)
                         /\ call.logs = LogsUpTo(receipts', b, call.filter)
  BY <1>1, Zenon DEF LogsOK
<1>6. PICK b \in 0..Len(receipts) :
        /\ b = call.h \/ (b = call.height /\ call.h = call.height + 1)
        /\ call.logs = LogsUpTo(receipts, b, call.filter)
  BY Zenon DEF LogsOK
<1>7. call.height <= Len(receipts')
  <2>1. PICK f \in Filter, top \in 0..MaxHeight : \E h \in 0..(top + 1) : \E logs :
          call = [method |-> "logs", filter |-> f, height |-> top, h |-> h, logs |-> logs]
    BY CallIs, Zenon DEF ReadsInv, LogsCall
  <2>2. call.height = top /\ top \in Nat
    BY <2>1, BlockAssumption
  <2> QED
    BY <1>2, <2>2 DEF LogsOK
<1> QED
  BY <1>3, <1>5, <1>6, <1>7, Zenon

\* One more index of the loop.
LEMMA LogsRead ==
  ASSUME ReadsInv, LogsOK, ReadBlock
  PROVE  LogsOK'
<1>0. receipts' = receipts /\ receipts \in Seq(Seq(Receipt)) /\ Len(receipts) \in Nat
  BY DEF ReadBlock, allVars, nodeVars, ReadsInv, NodeInv, NodeTypeOK, Receipt
<1>1. call.method = "logs" /\ call.h <= call.height
  BY Zenon DEF ReadBlock, IndexLeft
<1>2. PICK f \in Filter, top \in 0..MaxHeight : \E h \in 0..(top + 1) : \E logs :
        call = [method |-> "logs", filter |-> f, height |-> top, h |-> h, logs |-> logs]
  BY <1>1, CallIs, Zenon DEF ReadsInv, LogsCall
<1>3. PICK h \in 0..(top + 1) : \E logs :
        call = [method |-> "logs", filter |-> f, height |-> top, h |-> h, logs |-> logs]
  BY <1>2, Zenon
<1>4. PICK logs :
        call = [method |-> "logs", filter |-> f, height |-> top, h |-> h, logs |-> logs]
  BY <1>3, Zenon
<1>5. top \in Nat /\ h \in Nat /\ h <= top /\ top <= Len(receipts)
  BY <1>1, <1>4, BlockAssumption DEF LogsOK
<1> DEFINE more == LogsIn(get_receipts(h), f)
           new == logs \o more
<1>6. call' = [method |-> "logs", filter |-> f, height |-> top, h |-> h + 1, logs |-> new]
  BY <1>4, Zenon DEF ReadBlock
<1>7. logs = LogsUpTo(receipts, h, f)
  <2>1. PICK b \in 0..Len(receipts) :
          (b = h \/ (b = top /\ h = top + 1)) /\ logs = LogsUpTo(receipts, b, f)
    BY <1>1, <1>4, Zenon DEF LogsOK
  <2>2. b = h
    BY <1>5, <2>1
  <2> QED
    BY <2>1, <2>2, Zenon
<1>8. PICK b \in 0..Len(receipts) :
        (b = h + 1 \/ (b = top /\ h + 1 = top + 1)) /\ new = LogsUpTo(receipts, b, f)
  <2>1. CASE h + 1 \in 1..Len(receipts)
    <3> DEFINE p == Concat(SubSeq(receipts, 1, h))
               s == receipts[h + 1]
    <3>1. p \in Seq(Receipt) /\ s \in Seq(Receipt) /\ Concat(SubSeq(receipts, 1, h + 1)) = p \o s
      BY <1>0, <1>5, <2>1, OneBlockMore, Zenon
    <3>2. get_receipts(h) = s
      BY <1>0, <2>1 DEF get_receipts
    <3> HIDE DEF p, s
    <3>3. LogsIn(p \o s, f) = LogsIn(p, f) \o LogsIn(s, f)
      BY <3>1, LogsInTwo, Zenon
    <3>4. new = LogsUpTo(receipts, h + 1, f)
      BY <1>7, <3>1, <3>2, <3>3, Zenon DEF LogsUpTo, p
    <3>5. h + 1 \in 0..Len(receipts)
      BY <1>0, <2>1
    <3> QED
      BY <3>4, <3>5, Zenon
  <2>2. CASE h + 1 \notin 1..Len(receipts)
    <3>1. h = top /\ h + 1 = top + 1 /\ h \in 0..Len(receipts)
      BY <1>0, <1>5, <2>2
    <3>2. get_receipts(h) = <<>>
      BY <1>0, <2>2 DEF get_receipts
    <3>3. new = logs \o <<>>
      BY <3>2, LogsInNone, Zenon
    <3>4. logs \in Seq(Entry)
      <4> DEFINE ps == SubSeq(receipts, 1, h)
      <4>1. ps \in Seq(Seq(Receipt)) /\ <<>> \in Seq(Seq(Receipt)) /\ <<>> \in Seq(Receipt)
        BY <1>0, <3>1
      <4> HIDE DEF ps
      <4>2. Concat(ps) \in Seq(Receipt)
        BY <4>1, ConcatOfTwo, Zenon
      <4> QED
        BY <1>7, <4>1, <4>2, LogsInTwo, Zenon DEF LogsUpTo, ps
    <3>5. new = logs
      <4> HIDE DEF new
      <4> QED
        BY <3>3, <3>4
    <3> QED
      BY <1>7, <3>1, <3>5, Zenon
  <2> QED
    BY <2>1, <2>2, Zenon
<1> HIDE DEF new
<1> QED
  BY <1>0, <1>5, <1>6, <1>8, Zenon DEF LogsOK

\* eth_getLogs answers with every matching log of the blocks up to its
\* height, in the order of execution, and perhaps with those of the block
\* that is not committed yet, although execute_block appends blocks between
\* the reads of its loop (crates/rpc).
THEOREM LogsAreComplete == ReadsSpec => []LogsComplete
<1>1. ReadsInit => LogsOK
  BY DEF ReadsInit, NoCall, LogsOK
<1>2. ReadsInv /\ ReadsInv' /\ LogsOK /\ [ReadsNext]_readVars => LogsOK'
  <2> SUFFICES ASSUME ReadsInv, ReadsInv', LogsOK, [ReadsNext]_readVars PROVE LogsOK'
    BY Zenon
  <2>1. ASSUME NEW f \in Filter, BeginLogs(f) PROVE LogsOK'
    <3>1. /\ receipts' = receipts /\ receipts \in Seq(Seq(Receipt)) /\ Len(receipts) \in Nat
          /\ block_height \in Nat
      BY <2>1
         DEF BeginLogs, Begin, allVars, nodeVars, ReadsInv, NodeInv, NodeTypeOK, Receipt
    <3>2. call' = [method |-> "logs", filter |-> f, height |-> block_height, h |-> 0,
                   logs |-> <<>>]
      BY <2>1, Zenon DEF BeginLogs, Begin, FirstIndex
    <3>3. block_height <= Len(receipts) /\ 0 \in 0..Len(receipts)
      BY <3>1 DEF ReadsInv, HeightOK
    <3>4. SubSeq(receipts, 1, 0) = <<>>
      BY <3>1
    <3>5. <<>> = LogsUpTo(receipts, 0, f)
      BY <3>4, ConcatEmpty, LogsInNone, Zenon DEF LogsUpTo
    <3> QED
      BY <3>1, <3>2, <3>3, <3>5, Zenon DEF LogsOK
  <2>2. ASSUME call'.method # "logs" PROVE LogsOK'
    BY <2>2, Zenon DEF LogsOK
  <2>3. CASE UNCHANGED readVars
    BY <2>3, Zenon DEF readVars, allVars, nodeVars, LogsOK
  <2>4. ASSUME NEW s \in Sender, BeginQuery(s) PROVE call'.method # "logs"
    BY <2>4, Zenon DEF BeginQuery, Begin
  <2>5. CASE EndQuery
    <3>1. call.method = "query" /\ CallOK
      BY <2>5, Zenon DEF EndQuery, ReadsInv
    <3>2. PICK s \in Sender, d \in Nat, h \in 0..MaxHeight, done \in BOOLEAN :
            call = [method |-> "query", sender |-> s, data |-> d, height |-> h, done |-> done]
      BY <3>1, CallIs, Zenon DEF QueryCall
    <3>3. call'.method = "query"
      BY <2>5, <3>2, Zenon DEF EndQuery
    <3> QED
      BY <2>2, <3>3, Zenon
  <2>6. CASE BeginBlock
    BY <2>2, <2>6, Zenon DEF BeginBlock, Begin
  <2>7. CASE CountTransactions
    <3>1. call.method = "block" /\ CallOK
      BY <2>7, Zenon DEF CountTransactions, ReadsInv
    <3>2. PICK n \in 0..MaxHeight, T \in SUBSET Nat :
            call = [method |-> "block", number |-> n, transactions |-> T]
      BY <3>1, CallIs, Zenon DEF BlockCall
    <3> DEFINE k == Len(get_receipts(call.number))
    <3>3. call' = [call EXCEPT !.transactions = {k}]
      BY <2>7, Zenon DEF CountTransactions
    <3> HIDE DEF k
    <3>4. call'.method = "block"
      BY <3>2, <3>3, Zenon
    <3> QED
      BY <2>2, <3>4, Zenon
  <2>8. CASE Reply
    BY <2>2, <2>8, Zenon DEF Reply, NoCall
  <2> QED
    BY <2>1, <2>2, <2>3, <2>4, <2>5, <2>6, <2>7, <2>8, LogsKept, LogsRead, Zenon DEF ReadsNext
<1>3. ReadsInv /\ LogsOK => LogsComplete
  <2> SUFFICES ASSUME ReadsInv, LogsOK, call.method = "logs", ~IndexLeft
               PROVE  \E b \in {call.height, call.height + 1} :
                        /\ b <= Len(receipts)
                        /\ call.logs = LogsUpTo(receipts, b, call.filter)
    BY Zenon DEF LogsComplete, Answered, LogsUpTo
  <2>1. PICK f \in Filter, top \in 0..MaxHeight : \E h \in 0..(top + 1) : \E logs :
          call = [method |-> "logs", filter |-> f, height |-> top, h |-> h, logs |-> logs]
    BY CallIs, Zenon DEF ReadsInv, LogsCall
  <2>2. call.height \in Nat /\ call.h \in 0..(call.height + 1) /\ ~(call.h <= call.height)
    BY <2>1, BlockAssumption DEF IndexLeft
  <2>3. PICK b \in 0..Len(receipts) :
          /\ b = call.h \/ (b = call.height /\ call.h = call.height + 1)
          /\ call.logs = LogsUpTo(receipts, b, call.filter)
    BY Zenon DEF LogsOK
  <2>4. b \in {call.height, call.height + 1} /\ b <= Len(receipts)
    BY <2>2, <2>3
  <2> QED
    BY <2>3, <2>4, Zenon
<1> QED
  BY <1>1, <1>2, <1>3, ReadsInvariant, PTL DEF ReadsSpec
=============================================================================
