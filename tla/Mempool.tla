------------------------------ MODULE Mempool -------------------------------
(***************************************************************************)
(* What a transaction pool promises, without queues, limits or tips order: *)
(* a set of transactions from which nothing disappears silently.  Module   *)
(* TxPool implements it with two maps per sender and a hash index.         *)
(***************************************************************************)
EXTENDS Integers

CONSTANTS Sender, Tx

VARIABLES
  pool,   \* the transactions the pool knows
  nonce,  \* the account nonces of the chain
  taken   \* the transactions the last step handed to a proposal

mvars == <<pool, nonce, taken>>

SameSlot(t, u) == t.sender = u.sender /\ t.nonce = u.nonce

Init ==
  /\ pool = {}
  /\ nonce = [s \in Sender |-> 0]
  /\ taken = {}

\* A transaction enters unless the pool knows it or the account has passed
\* it.  It may push out transactions of its own slot that pay no more.
Add(t) ==
  /\ t \notin pool
  /\ t.nonce >= nonce[t.sender]
  /\ \E out \in SUBSET {u \in pool : SameSlot(t, u) /\ u.tip <= t.tip} :
       pool' = (pool \ out) \cup {t}
  /\ taken' = {}
  /\ UNCHANGED nonce

\* A proposal takes at most one transaction of each sender.
Take(S) ==
  /\ \A t, u \in S : t.sender = u.sender => t = u
  /\ pool' = pool \ S
  /\ taken' = S
  /\ UNCHANGED nonce

\* A commit drops exactly the transactions whose account has passed them.
Prune ==
  /\ pool' = {t \in pool : t.nonce >= nonce[t.sender]}
  /\ taken' = {}
  /\ UNCHANGED nonce

\* Blocks move account nonces forward only.
Advance ==
  /\ nonce' \in [Sender -> Nat]
  /\ \A s \in Sender : nonce'[s] >= nonce[s]
  /\ taken' = {}
  /\ UNCHANGED pool

\* A submission the pool rejects.
Reject == taken' = {} /\ UNCHANGED <<pool, nonce>>

Next ==
  \/ \E t \in Tx : Add(t)
  \/ \E S \in SUBSET pool : Take(S)
  \/ Prune
  \/ Advance
  \/ Reject

Spec == Init /\ [][Next]_mvars
=============================================================================
