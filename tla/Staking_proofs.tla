--------------------------- MODULE Staking_proofs ---------------------------
(***************************************************************************)
(* Proofs about Staking: what the precompiles and revm's journal together  *)
(* keep true of the stake, for any accounts, amounts and depth of calls.   *)
(***************************************************************************)
EXTENDS Staking, FiniteNat

-----------------------------------------------------------------------------
(* The sums of the model are the sums that FiniteNat speaks of.            *)

Delegations == [Holder \X Validator -> Nat]

\* What each address has staked with validator v, what is staked with each
\* validator, and all that is staked.
StakeWith(D, v) == [d \in Holder |-> D[<<d, v>>]]
Stakes(D) == [v \in Validator |-> SumOf(StakeWith(D, v), Holder)]
TotalOf(D) == SumOf(Stakes(D), Validator)

LEMMA HolderFinite == IsFiniteSet(Holder)
BY StakingAssumption, FS_AddElement, Zenon DEF Holder

LEMMA StakeIsSum ==
  ASSUME delegations \in Delegations, NEW v \in Validator
  PROVE  total_stake(v) = SumOf(StakeWith(delegations, v), Holder)
<1> DEFINE h == StakeWith(delegations, v)
           Is(g) == g = [s \in SUBSET Holder |->
                          IF s = {} THEN 0
                          ELSE delegations[<<AnyOf(s), v>>] + g[s \ {AnyOf(s)}]]
           it == CHOOSE g : Is(g)
<1>1. total_stake(v) = it[Holder]
  BY Zenon DEF total_stake, get_stake, MapThenSumSet, MapThenFoldSet, AnyOf
<1>2. h \in [Holder -> Nat]
  BY Zenon DEF StakeWith, Delegations
<1>3. ASSUME NEW g PROVE Is(g) <=> IsSum(g, h, Holder)
  <2>1. \A s \in SUBSET Holder : s # {} => h[AnyOf(s)] = delegations[<<AnyOf(s), v>>]
    BY AnyOfIn, Zenon DEF StakeWith
  <2> HIDE DEF h
  <2> QED
    BY <2>1, Zenon DEF IsSum
<1> HIDE DEF Is, h
<1>4. Is(it)
  <2>1. \E g : IsSum(g, h, Holder)
    BY SumExists, HolderFinite, StakingAssumption, Zenon
  <2>2. \E g : Is(g)
    BY <1>3, <2>1, Zenon
  <2> QED
    BY <2>2, Zenon
<1> HIDE DEF it
<1>5. it[Holder] = SumOf(h, Holder)
  BY <1>2, <1>3, <1>4, SumIs, HolderFinite, StakingAssumption, Zenon
<1> QED
  BY <1>1, <1>5, Zenon DEF h

LEMMA StakesType ==
  ASSUME NEW D \in Delegations
  PROVE  /\ \A v \in Validator : StakeWith(D, v) \in [Holder -> Nat]
         /\ Stakes(D) \in [Validator -> Nat]
         /\ TotalOf(D) \in Nat
<1>1. \A v \in Validator : StakeWith(D, v) \in [Holder -> Nat]
  BY Zenon DEF StakeWith, Delegations
<1>2. \A v \in Validator : SumOf(StakeWith(D, v), Holder) \in Nat
  BY <1>1, SumType, HolderFinite, StakingAssumption, Zenon
<1>3. Stakes(D) \in [Validator -> Nat]
  BY <1>2, Zenon DEF Stakes
<1> QED
  BY <1>1, <1>3, SumType, HolderFinite, StakingAssumption, Zenon DEF TotalOf

LEMMA TotalIsSum ==
  ASSUME delegations \in Delegations
  PROVE  TotalStake = TotalOf(delegations)
<1> DEFINE h == Stakes(delegations)
           Is(g) == g = [s \in SUBSET Validator |->
                          IF s = {} THEN 0 ELSE total_stake(AnyOf(s)) + g[s \ {AnyOf(s)}]]
           it == CHOOSE g : Is(g)
<1>1. TotalStake = it[Validator]
  BY Zenon DEF TotalStake, MapThenSumSet, MapThenFoldSet, AnyOf
<1>2. h \in [Validator -> Nat]
  BY StakesType, Zenon
<1>3. ASSUME NEW g PROVE Is(g) <=> IsSum(g, h, Validator)
  <2>1. \A s \in SUBSET Validator : s # {} => h[AnyOf(s)] = total_stake(AnyOf(s))
    <3> SUFFICES ASSUME NEW s \in SUBSET Validator, s # {}
                 PROVE  h[AnyOf(s)] = total_stake(AnyOf(s))
      BY Zenon
    <3>1. AnyOf(s) \in Validator
      BY AnyOfIn, Zenon
    <3>2. total_stake(AnyOf(s)) = SumOf(StakeWith(delegations, AnyOf(s)), Holder)
      BY <3>1, StakeIsSum, Zenon
    <3> QED
      BY <3>1, <3>2, Zenon DEF Stakes
  <2> HIDE DEF h
  <2> QED
    BY <2>1, Zenon DEF IsSum
<1> HIDE DEF Is, h
<1>4. Is(it)
  <2>1. \E g : IsSum(g, h, Validator)
    BY SumExists, HolderFinite, StakingAssumption, Zenon
  <2>2. \E g : Is(g)
    BY <1>3, <2>1, Zenon
  <2> QED
    BY <2>2, Zenon
<1> HIDE DEF it
<1>5. it[Validator] = SumOf(h, Validator)
  BY <1>2, <1>3, <1>4, SumIs, HolderFinite, StakingAssumption, Zenon
<1> QED
  BY <1>1, <1>5, Zenon DEF h, TotalOf

\* Changing one delegation changes the total by as much, and no delegation
\* exceeds the total.
LEMMA TotalChange ==
  ASSUME NEW D \in Delegations, NEW d \in Holder, NEW v \in Validator, NEW x \in Nat
  PROVE  /\ [D EXCEPT ![<<d, v>>] = x] \in Delegations
         /\ TotalOf(D) >= D[<<d, v>>]
         /\ TotalOf([D EXCEPT ![<<d, v>>] = x]) = (TotalOf(D) - D[<<d, v>>]) + x
<1> DEFINE E == [D EXCEPT ![<<d, v>>] = x]
           a == D[<<d, v>>]
           h == StakeWith(D, v)
           S == SumOf(h, Holder)
<1>1. E \in Delegations /\ a \in Nat
  BY Zenon DEF Delegations
<1>2. StakeWith(E, v) = [h EXCEPT ![d] = x] /\ h[d] = a
  BY Zenon DEF StakeWith, Delegations
<1>3. \A w \in Validator \ {v} : StakeWith(E, w) = StakeWith(D, w)
  BY Zenon DEF StakeWith, Delegations
<1>4. h \in [Holder -> Nat]
  BY StakesType, Zenon
<1>5. S >= a /\ SumOf(StakeWith(E, v), Holder) = (S - a) + x
  <2> DEFINE k == StakeWith(E, v)
  <2>1. k \in [Holder -> Nat] /\ k[d] = x /\ \A e \in Holder \ {d} : k[e] = h[e]
    BY <1>2, <1>4, Zenon
  <2> HIDE DEF h, k, E, a
  <2>2. S >= h[d] /\ SumOf(k, Holder) = (S - h[d]) + k[d]
    BY <1>4, <2>1, SumChange, HolderFinite, StakingAssumption
  <2> QED
    BY <1>2, <2>1, <2>2, Zenon DEF k
<1> DEFINE q == Stakes(D)
<1>6. q \in [Validator -> Nat]
  BY StakesType, Zenon
<1>7. q[v] = S /\ S \in Nat
  <2>1. q[v] = S
    BY Zenon DEF Stakes
  <2> HIDE DEF q, S
  <2> QED
    BY <1>6, <2>1, Zenon
<1> DEFINE y == (S - a) + x
<1>8. y \in Nat /\ S >= a /\ SumOf(StakeWith(E, v), Holder) = y
  <2> HIDE DEF a, h, S, E
  <2> QED
    BY <1>1, <1>2, <1>5, <1>7
<1>9. Stakes(E) = [q EXCEPT ![v] = y]
  <2> HIDE DEF y, E
  <2> QED
    BY <1>3, <1>8, Zenon DEF Stakes
<1> HIDE DEF y, E, S, a, h, q
<1> DEFINE r == Stakes(E)
<1>10. SumOf(q, Validator) >= q[v] /\ SumOf(r, Validator) = (SumOf(q, Validator) - q[v]) + y
  <2>1. r \in [Validator -> Nat] /\ r[v] = y /\ \A w \in Validator \ {v} : r[w] = q[w]
    BY <1>6, <1>8, <1>9
  <2> HIDE DEF r
  <2> QED
    BY <1>6, <2>1, SumChange, HolderFinite, StakingAssumption
<1>11. TotalOf(D) >= S /\ TotalOf(E) = (TotalOf(D) - S) + y /\ TotalOf(D) \in Nat
  <2>1. TotalOf(D) \in Nat
    BY StakesType, Zenon
  <2>2. TotalOf(D) = SumOf(q, Validator) /\ TotalOf(E) = SumOf(r, Validator)
    BY Zenon DEF TotalOf, q
  <2> QED
    BY <1>7, <1>10, <2>1, <2>2
<1>12. TotalOf(D) >= a /\ TotalOf(E) = (TotalOf(D) - a) + x
  <2> DEFINE t == TotalOf(D)
             te == TotalOf(E)
  <2>1. t \in Nat /\ t >= S /\ te = (t - S) + y
    BY <1>11
  <2> HIDE DEF t, te
  <2>2. t >= a /\ te = (t - a) + x
    BY <1>1, <1>7, <1>8, <2>1 DEF y
  <2> QED
    BY <2>2 DEF t, te
<1> QED
  BY <1>1, <1>12, Zenon DEF E, a

-----------------------------------------------------------------------------
(* The inductive invariant.                                                *)

Balances == [Holder -> Nat]
Snapshots == [balance : Balances, delegations : Delegations]

\* The staking address holds at least what is delegated.
Backs(b, D) == TotalOf(D) <= b[STAKING_ADDR]

\* Undoing a frame brings back the balances of its beginning, so what holds now
\* must have held as each open frame began.  A dry run in the name of the
\* staking address keeps nothing of that but the state it began in, which its
\* end returns to.
AllBacked ==
  /\ Backs(balance, delegations)
  /\ \A i \in 1..Len(frames) : Backs(frames[i].balance, frames[i].delegations)

StakeInv ==
  /\ TypeOK
  /\ frames = <<>> => callers = {}
  /\ InItsOwnName => mode = "call"
  /\ ~diverged => /\ frames # <<>> => Backs(frames[1].balance, frames[1].delegations)
                  /\ ~InItsOwnName => AllBacked

LEMMA Types ==
  TypeOK <=> /\ balance \in Balances /\ delegations \in Delegations
             /\ frames \in Seq(Snapshots)
             /\ mode \in {"none"} \cup Modes /\ (mode = "none" <=> frames = <<>>)
             /\ callers \in SUBSET Holder
             /\ result \in {"ok", "revert"} /\ diverged \in BOOLEAN
BY Zenon DEF TypeOK, Balances, Delegations, Snapshots

LEMMA InitHolds == Init => StakeInv
<1> SUFFICES ASSUME Init PROVE StakeInv
  BY Zenon
<1> DEFINE Z == [p \in Holder \X Validator |-> 0]
<1>1. TypeOK
  <2>1. frames \in Seq(Snapshots) /\ frames = <<>>
    BY DEF Init
  <2>2. balance \in Balances /\ delegations \in Delegations
    BY StakingAssumption, Zenon DEF Init, Balances, Delegations
  <2>3. mode = "none" /\ callers = {} /\ result = "ok" /\ diverged = FALSE
    BY Zenon DEF Init
  <2> QED
    BY <2>1, <2>2, <2>3, Types, Zenon
<1>2. delegations = Z /\ Len(frames) = 0 /\ balance[STAKING_ADDR] = 0
  BY Zenon DEF Init, Holder
<1>3. TotalOf(Z) = 0
  <2>1. \A v \in Validator : StakeWith(Z, v) = [d \in Holder |-> 0]
    BY Zenon DEF StakeWith
  <2>2. SumOf([d \in Holder |-> 0], Holder) = 0
    BY SumZero, HolderFinite, Zenon
  <2>3. Stakes(Z) = [v \in Validator |-> 0]
    <3> HIDE DEF Z
    <3> QED
      BY <2>1, <2>2, Zenon DEF Stakes
  <2>4. SumOf([v \in Validator |-> 0], Validator) = 0
    BY SumZero, StakingAssumption
  <2> QED
    BY <2>3, <2>4, Zenon DEF TotalOf
<1> HIDE DEF Z
<1> QED
  <2>1. AllBacked
    BY <1>2, <1>3 DEF AllBacked, Backs
  <2>2. callers = {} /\ frames = <<>>
    BY Zenon DEF Init
  <2> QED
    BY <1>1, <2>1, <2>2, Zenon DEF StakeInv, InItsOwnName

\* A transfer keeps the balances natural; between two addresses it lowers the
\* one and raises the other.
LEMMA TransferOK ==
  ASSUME balance \in Balances, NEW from \in Holder, NEW to \in Holder, NEW amount \in Nat,
         CanTransfer(from, amount)
  PROVE  /\ Transferred(from, to, amount) \in Balances
         /\ from # to => /\ Transferred(from, to, amount)[from] = balance[from] - amount
                         /\ Transferred(from, to, amount)[to] = balance[to] + amount
         /\ \A a \in Holder \ {from} : Transferred(from, to, amount)[a] >= balance[a]
<1>1. \A a \in Holder : balance[a] \in Nat
  BY Zenon DEF Balances
<1>2. CASE from = to
  BY <1>1, <1>2 DEF Transferred
<1>3. CASE from # to
  <2>1. Transferred(from, to, amount) = [balance EXCEPT ![from] = balance[from] - amount,
                                                         ![to] = balance[to] + amount]
    BY <1>3, Zenon DEF Transferred, Balances
  <2>2. balance[from] - amount \in Nat /\ balance[to] + amount \in Nat
    BY <1>1 DEF CanTransfer
  <2> QED
    BY <1>1, <1>3, <2>1, <2>2 DEF Balances
<1> QED
  BY <1>2, <1>3

\* What a call leaves: well typed and, unless the caller is the staking address
\* itself, backed if it was, and then unchanged if the call answers Revert.
CallOK(caller) ==
  /\ balance' \in Balances /\ delegations' \in Delegations /\ result' \in {"ok", "revert"}
  /\ caller # STAKING_ADDR /\ Backs(balance, delegations)
       => /\ Backs(balance', delegations')
          /\ result' = "revert" => UNCHANGED <<balance, delegations>>

\* Refusals and queries change nothing.
LEMMA NoChangeOK ==
  ASSUME TypeOK, UNCHANGED <<balance, delegations>>, result' \in {"ok", "revert"}, NEW caller
  PROVE  CallOK(caller)
BY Types, Zenon DEF CallOK

\* A transfer of another caller only adds to the staking address.
LEMMA TransferKeeps ==
  ASSUME TypeOK, NEW caller \in Holder, NEW to \in Holder, NEW amount \in Nat,
         Transfer(caller, to, amount)
  PROVE  CallOK(caller)
<1>0. /\ STAKING_ADDR \in Holder
      /\ balance \in Balances /\ delegations \in Delegations
  BY StakingAssumption, Types DEF Holder
<1>1. CASE ~CanTransfer(caller, amount)
  BY <1>1, NoChangeOK, Zenon DEF Transfer, Refused
<1>2. CASE CanTransfer(caller, amount)
  <2>1. /\ balance' = Transferred(caller, to, amount) /\ delegations' = delegations
        /\ result' = "ok"
    BY <1>2, Zenon DEF Transfer
  <2>2. /\ balance' \in Balances
        /\ caller # STAKING_ADDR => balance'[STAKING_ADDR] >= balance[STAKING_ADDR]
    BY <1>0, <1>2, <2>1, TransferOK, Zenon
  <2>3. /\ balance[STAKING_ADDR] \in Nat /\ balance'[STAKING_ADDR] \in Nat
        /\ TotalOf(delegations) \in Nat
    BY <1>0, <2>2, StakesType, Zenon DEF Balances
  <2>4. caller # STAKING_ADDR /\ Backs(balance, delegations) => Backs(balance', delegations')
    BY <2>1, <2>2, <2>3 DEF Backs
  <2> QED
    BY <1>0, <2>1, <2>2, <2>4, SMTT(30) DEF CallOK
<1> QED
  BY <1>1, <1>2, Zenon

\* delegate moves to the staking address what it adds to the delegation.
LEMMA DelegateKeeps ==
  ASSUME TypeOK, NEW caller \in Holder, NEW validator \in Validator, NEW amount \in Nat,
         Delegate(caller, validator, amount)
  PROVE  CallOK(caller)
<1>0. /\ STAKING_ADDR \in Holder
      /\ balance \in Balances /\ delegations \in Delegations
  BY StakingAssumption, Types, Zenon DEF Holder
<1>1. CASE ~CanTransfer(caller, amount)
  BY <1>1, NoChangeOK DEF Delegate, Refused
<1>2. CASE CanTransfer(caller, amount)
  <2> DEFINE s == delegations[<<caller, validator>>]
  <2>1. /\ balance' = Transferred(caller, STAKING_ADDR, amount)
        /\ delegations' = [delegations EXCEPT ![<<caller, validator>>] = s + amount]
        /\ result' = "ok"
    BY <1>0, <1>2, Zenon DEF Delegate, Delegated, Delegations
  <2>2. /\ balance' \in Balances
        /\ caller # STAKING_ADDR => balance'[STAKING_ADDR] = balance[STAKING_ADDR] + amount
    BY <1>0, <1>2, <2>1, TransferOK
  <2>3. s \in Nat /\ s + amount \in Nat
    BY <1>0 DEF Delegations
  <2> HIDE DEF s
  <2>4. /\ delegations' \in Delegations
        /\ TotalOf(delegations') = (TotalOf(delegations) - s) + (s + amount)
    BY <1>0, <2>1, <2>3, TotalChange, Zenon DEF s
  <2>5. balance[STAKING_ADDR] \in Nat /\ TotalOf(delegations) \in Nat
    BY <1>0, StakesType, Zenon DEF Balances
  <2>6. caller # STAKING_ADDR /\ Backs(balance, delegations) => Backs(balance', delegations')
    BY <2>2, <2>3, <2>4, <2>5 DEF Backs
  <2> QED
    BY <2>1, <2>2, <2>4, <2>6, SMTT(30) DEF CallOK
<1> QED
  BY <1>1, <1>2

\* unbond takes from the staking address what it takes from the delegation.
\* A failed transfer leaves the delegation lowered, which is backed as well.
LEMMA UnbondKeeps ==
  ASSUME TypeOK, NEW caller \in Holder, NEW validator \in Validator, NEW amount \in Nat,
         Unbond(caller, validator, amount)
  PROVE  CallOK(caller)
<1>0. /\ STAKING_ADDR \in Holder
      /\ balance \in Balances /\ delegations \in Delegations
  BY StakingAssumption, Types, Zenon DEF Holder
<1>1. CASE ~EnoughStake(caller, validator, amount)
  BY <1>1, NoChangeOK, Zenon DEF Unbond, Refused
<1>2. CASE EnoughStake(caller, validator, amount)
  <2> DEFINE s == delegations[<<caller, validator>>]
             t == TotalOf(delegations)
             b == balance[STAKING_ADDR]
  <2>1. /\ delegations' = [delegations EXCEPT ![<<caller, validator>>] = s - amount]
        /\ s >= amount
    BY <1>0, <1>2, Zenon DEF Unbond, Unbonded, EnoughStake, get_stake, Delegations
  <2>2. s \in Nat /\ s - amount \in Nat
    BY <1>0, <2>1 DEF Delegations
  <2>3. /\ delegations' \in Delegations /\ t >= s
        /\ TotalOf(delegations') = (t - s) + (s - amount)
    <3> DEFINE x == s - amount
    <3>1. x \in Nat /\ delegations' = [delegations EXCEPT ![<<caller, validator>>] = x]
      BY <2>1, <2>2, Zenon
    <3> HIDE DEF x
    <3>2. /\ delegations' \in Delegations /\ t >= s
          /\ TotalOf(delegations') = (t - s) + x
      BY <1>0, <3>1, TotalChange, Zenon
    <3> QED
      BY <3>2, Zenon DEF x
  <2>4. b \in Nat /\ t \in Nat
    BY <1>0, StakesType, Zenon DEF Balances
  <2>5. CASE CanTransfer(STAKING_ADDR, amount)
    <3>1. balance' = Transferred(STAKING_ADDR, caller, amount) /\ result' = "ok"
      BY <1>2, <2>5, Zenon DEF Unbond
    <3>2. balance' \in Balances /\ (caller # STAKING_ADDR => balance'[STAKING_ADDR] = b - amount)
      BY <1>0, <2>5, <3>1, TransferOK, Zenon
    <3> HIDE DEF s, t, b
    <3>3. t <= b => (t - s) + (s - amount) <= b - amount
      BY <2>2, <2>4
    <3>4. caller # STAKING_ADDR /\ Backs(balance, delegations) => Backs(balance', delegations')
      BY <2>3, <3>2, <3>3, Zenon DEF Backs, t, b
    <3> QED
      BY <2>3, <3>1, <3>2, <3>4, Zenon DEF CallOK
  <2>6. CASE ~CanTransfer(STAKING_ADDR, amount)
    <3>1. balance' = balance /\ result' = "revert"
      BY <1>2, <2>6, Zenon DEF Unbond
    <3>2. ~(t <= b)
      <4>1. ~(b >= amount)
        BY <2>6, Zenon DEF CanTransfer
      <4> HIDE DEF s, t, b
      <4> QED
        BY <2>1, <2>2, <2>3, <2>4, <4>1, SMTT(30)
    <3>3. ~Backs(balance, delegations)
      BY <3>2, Zenon DEF Backs
    <3> QED
      BY <1>0, <2>3, <3>1, <3>3 DEF CallOK
  <2> QED
    BY <2>5, <2>6, Zenon
<1> QED
  BY <1>1, <1>2, SMTT(30)

LEMMA PrecompileKeeps ==
  ASSUME TypeOK, NEW caller \in Holder, NEW amount \in Amount, Precompile(caller, amount)
  PROVE  CallOK(caller)
<1>1. amount \in Nat
  BY StakingAssumption, Zenon
<1>2. CASE \E to \in Holder : Transfer(caller, to, amount)
  BY <1>1, <1>2, TransferKeeps, Zenon
<1>3. CASE \E validator \in Validator : Delegate(caller, validator, amount)
  BY <1>1, <1>3, DelegateKeeps, Zenon
<1>4. CASE \E validator \in Validator : Unbond(caller, validator, amount)
  BY <1>1, <1>4, UnbondKeeps, Zenon
<1>5. CASE Query \/ Refused
  BY <1>5, NoChangeOK, Zenon DEF Query, Refused
<1> QED
  BY <1>2, <1>3, <1>4, <1>5, Zenon DEF Precompile

-----------------------------------------------------------------------------
(* The steps.                                                              *)

\* What a frame that begins adds, and what one that ends leaves, of a sequence
\* of snapshots.
LEMMA PushPop ==
  ASSUME NEW s \in Seq(Snapshots), NEW x \in Snapshots
  PROVE  /\ Append(s, x) \in Seq(Snapshots) /\ Append(s, x) # <<>>
         /\ Len(Append(s, x)) = Len(s) + 1 /\ Len(s) \in Nat
         /\ Append(s, x)[Len(s) + 1] = x
         /\ \A i \in 1..Len(s) : Append(s, x)[i] = s[i]
         /\ s # <<>> => /\ Len(s) \in 1..Len(s) /\ Last(s) \in Snapshots /\ Last(s) = s[Len(s)]
                        /\ Front(s) \in Seq(Snapshots) /\ Len(Front(s)) = Len(s) - 1
                        /\ \A i \in 1..Len(s) - 1 : Front(s)[i] = s[i]
<1>1. /\ Append(s, x) \in Seq(Snapshots) /\ Len(Append(s, x)) = Len(s) + 1 /\ Len(s) \in Nat
      /\ Append(s, x)[Len(s) + 1] = x
      /\ \A i \in 1..Len(s) : Append(s, x)[i] = s[i]
  OBVIOUS
<1>2. Append(s, x) # <<>>
  BY <1>1
<1>3. ASSUME s # <<>>
      PROVE  /\ Len(s) \in 1..Len(s) /\ Last(s) \in Snapshots /\ Last(s) = s[Len(s)]
             /\ Front(s) \in Seq(Snapshots) /\ Len(Front(s)) = Len(s) - 1
             /\ \A i \in 1..Len(s) - 1 : Front(s)[i] = s[i]
  <2>1. Len(s) \in 1..Len(s)
    BY <1>3
  <2>2. Last(s) \in Snapshots /\ Last(s) = s[Len(s)]
    BY <2>1 DEF Last
  <2>3. Front(s) = [i \in 1..Len(s) - 1 |-> s[i]]
    BY DEF Front
  <2> QED
    BY <2>1, <2>2, <2>3
<1> QED
  BY <1>1, <1>2, <1>3, Zenon

\* A frame begins, the transaction's own or a nested one.
LEMMA OpenKeeps ==
  ASSUME StakeInv, frames' = Open, UNCHANGED <<balance, delegations, result, diverged>>,
         mode' \in Modes, callers' \in SUBSET Holder, InItsOwnName' => mode' = "call",
         frames # <<>> => UNCHANGED callers
  PROVE  StakeInv'
<1> DEFINE x == [balance |-> balance, delegations |-> delegations]
<1>0. /\ balance \in Balances /\ delegations \in Delegations /\ frames \in Seq(Snapshots)
      /\ result \in {"ok", "revert"} /\ diverged \in BOOLEAN
  BY Types, Zenon DEF StakeInv
<1>1. frames' = Append(frames, x)
  BY Zenon DEF Open
<1>2. x \in Snapshots /\ x.balance = balance /\ x.delegations = delegations
  BY <1>0, Zenon DEF Snapshots
<1>3. mode' # "none"
  BY StakingAssumption, Zenon
<1> HIDE DEF x
<1>4. /\ frames' \in Seq(Snapshots) /\ frames' # <<>>
      /\ Len(frames') = Len(frames) + 1 /\ Len(frames) \in Nat
      /\ frames'[Len(frames) + 1] = x
      /\ \A i \in 1..Len(frames) : frames'[i] = frames[i]
  <2>1. /\ Append(frames, x) \in Seq(Snapshots) /\ Append(frames, x) # <<>>
        /\ Len(Append(frames, x)) = Len(frames) + 1 /\ Len(frames) \in Nat
        /\ Append(frames, x)[Len(frames) + 1] = x
        /\ \A i \in 1..Len(frames) : Append(frames, x)[i] = frames[i]
    BY <1>0, <1>2, PushPop
  <2> QED
    BY <1>1, <2>1, Zenon
<1>5. TypeOK'
  BY <1>0, <1>3, <1>4 DEF TypeOK, Balances, Delegations, Snapshots
<1>6. ASSUME ~diverged', ~InItsOwnName PROVE AllBacked'
  <2>1. AllBacked
    BY <1>6, Zenon DEF StakeInv
  <2>2. Backs(balance, delegations)'
    BY <2>1, Zenon DEF AllBacked, Backs, TotalOf, Stakes, StakeWith
  <2>3. ASSUME NEW i \in 1..Len(frames') PROVE Backs(frames'[i].balance, frames'[i].delegations)
    <3>1. CASE i \in 1..Len(frames)
      BY <1>4, <2>1, <3>1, Zenon DEF AllBacked
    <3>2. CASE i = Len(frames) + 1
      BY <1>2, <1>4, <2>1, <3>2 DEF AllBacked
    <3> QED
      BY <1>4, <3>1, <3>2
  <2> QED
    BY <2>2, <2>3, Zenon DEF AllBacked
<1>7. 1 \in 1..Len(frames') /\ (frames # <<>> => 1 \in 1..Len(frames))
  BY <1>0, <1>4
<1>8. ASSUME ~diverged' PROVE Backs(frames'[1].balance, frames'[1].delegations)
  <2>1. CASE frames = <<>>
    <3>1. ~InItsOwnName
      BY <2>1, Zenon DEF StakeInv, InItsOwnName
    <3> QED
      BY <1>6, <1>7, <1>8, <3>1, Zenon DEF AllBacked
  <2>2. CASE frames # <<>>
    BY <1>4, <1>7, <1>8, <2>2, Zenon DEF StakeInv
  <2> QED
    BY <2>1, <2>2, Zenon
<1>9. ASSUME ~diverged', ~InItsOwnName' PROVE AllBacked'
  <2>1. ~InItsOwnName
    BY <1>9, Zenon DEF StakeInv, InItsOwnName
  <2> QED
    BY <1>6, <1>9, <2>1, Zenon
<1> QED
  BY <1>4, <1>5, <1>8, <1>9, Zenon DEF StakeInv

LEMMA BeginKeeps ==
  ASSUME StakeInv, NEW m \in Modes, NEW sender \in Senders(m), Begin(m, sender)
  PROVE  StakeInv'
<1>1. /\ frames' = Open /\ mode' = m /\ callers' = Account \cup {sender}
      /\ UNCHANGED <<balance, delegations, result, diverged>> /\ frames = <<>>
  BY Types, Zenon DEF Begin, StakeInv
<1>2. callers' \in SUBSET Holder
  BY <1>1, Zenon DEF Senders, Holder
<1>3. STAKING_ADDR \in callers' => m = "call"
  BY <1>1, StakingAssumption, Zenon DEF Senders
<1> QED
  BY <1>1, <1>2, <1>3, OpenKeeps, Zenon DEF InItsOwnName

LEMMA EnterKeeps ==
  ASSUME StakeInv, Enter
  PROVE  StakeInv'
<1>1. /\ frames' = Open /\ UNCHANGED <<balance, delegations, mode, callers, result, diverged>>
      /\ frames # <<>>
  BY Zenon DEF Enter
<1>2. mode \in Modes /\ callers \in SUBSET Holder
  BY <1>1, Types, Zenon DEF StakeInv
<1>3. InItsOwnName => mode = "call"
  BY Zenon DEF StakeInv
<1> QED
  BY <1>1, <1>2, <1>3, OpenKeeps, Zenon DEF InItsOwnName

\* A frame ends: the open ones below it stay as they were.
LEMMA PopKeeps ==
  ASSUME StakeInv, frames # <<>>, Pop, balance' \in Balances, diverged' \in BOOLEAN,
         ~diverged' => ~diverged,
         ~diverged' /\ (~InItsOwnName \/ Len(frames) = 1) => Backs(balance', delegations)
  PROVE  StakeInv'
<1>0. /\ balance \in Balances /\ delegations \in Delegations /\ frames \in Seq(Snapshots)
      /\ result \in {"ok", "revert"} /\ mode \in {"none"} \cup Modes /\ mode # "none"
      /\ callers \in SUBSET Holder
  BY Types, Zenon DEF StakeInv
<1>1. /\ frames' = Front(frames) /\ mode' = (IF Len(frames) = 1 THEN "none" ELSE mode)
      /\ callers' = (IF Len(frames) = 1 THEN {} ELSE callers)
      /\ UNCHANGED <<delegations, result>>
  BY Zenon DEF Pop
<1>2. PICK x \in Snapshots : x = frames[Len(frames)]
  BY <1>0
<1>3. /\ frames' \in Seq(Snapshots) /\ Len(frames') = Len(frames) - 1 /\ Len(frames) \in Nat
      /\ Len(frames) \in 1..Len(frames) /\ \A i \in 1..Len(frames) - 1 : frames'[i] = frames[i]
  BY <1>0, <1>1, <1>2, PushPop
<1>4. frames' = <<>> <=> Len(frames) = 1
  BY <1>3
<1>5. TypeOK'
  <2>1. mode' \in {"none"} \cup Modes /\ (mode' = "none" <=> frames' = <<>>)
    BY <1>0, <1>1, <1>4
  <2>2. callers' \in SUBSET Holder
    BY <1>0, <1>1, Zenon
  <2> QED
    BY <1>0, <1>1, <1>3, <2>1, <2>2, SMTT(30) DEF TypeOK, Balances, Delegations, Snapshots
<1>6. (frames' = <<>> => callers' = {}) /\ (InItsOwnName' => mode' = "call")
  BY <1>1, <1>4, Zenon DEF StakeInv, InItsOwnName
<1>7. ASSUME ~diverged', frames' # <<>> PROVE Backs(frames'[1].balance, frames'[1].delegations)
  <2>1. 1 \in 1..Len(frames) - 1
    BY <1>3, <1>4, <1>7
  <2> QED
    BY <1>3, <1>7, <2>1, Zenon DEF StakeInv
<1>8. ASSUME ~diverged', ~InItsOwnName' PROVE AllBacked'
  <2>1. ~InItsOwnName \/ Len(frames) = 1
    BY <1>1, <1>8, Zenon DEF InItsOwnName
  <2>2. Backs(balance, delegations)'
    BY <1>1, <1>8, <2>1 DEF Backs, TotalOf, Stakes, StakeWith
  <2>3. ASSUME NEW i \in 1..Len(frames') PROVE Backs(frames'[i].balance, frames'[i].delegations)
    <3>1. i \in 1..Len(frames) - 1 /\ i \in 1..Len(frames) /\ Len(frames) # 1
      BY <1>3
    <3>2. AllBacked
      BY <1>8, <2>1, <3>1, Zenon DEF StakeInv
    <3> QED
      BY <1>3, <3>1, <3>2, Zenon DEF AllBacked
  <2> QED
    BY <2>2, <2>3, Zenon DEF AllBacked
<1> QED
  BY <1>5, <1>6, <1>7, <1>8, Zenon DEF StakeInv

\* An undone frame that changed no delegation returns to a backed state, if
\* the transaction does not run in the name of the staking address or ends.
LEMMA UndoKeeps ==
  ASSUME StakeInv, frames # <<>>, Undo
  PROVE  StakeInv'
<1>0. frames \in Seq(Snapshots) /\ diverged \in BOOLEAN
  BY Types, Zenon DEF StakeInv
<1>1. /\ balance' = Last(frames).balance
      /\ diverged' = (diverged \/ delegations # Last(frames).delegations) /\ Pop
  BY Zenon DEF Undo
<1>2. PICK x \in Snapshots : x = frames[Len(frames)]
  BY <1>0
<1>3. Last(frames) = x /\ Len(frames) \in 1..Len(frames)
  BY <1>0, <1>2, PushPop
<1>4. balance' \in Balances /\ diverged' \in BOOLEAN
  BY <1>0, <1>1, <1>3 DEF Snapshots
<1>5. ~diverged' => ~diverged /\ delegations = x.delegations
  BY <1>1, <1>3, Zenon
<1>6. ASSUME ~diverged', ~InItsOwnName \/ Len(frames) = 1 PROVE Backs(balance', delegations)
  <2>1. Backs(x.balance, x.delegations)
    BY <1>2, <1>3, <1>5, <1>6, Zenon DEF StakeInv, AllBacked
  <2> QED
    BY <1>1, <1>3, <1>5, <1>6, <2>1, Zenon
<1> QED
  BY <1>1, <1>4, <1>5, <1>6, PopKeeps, Zenon

LEMMA CallKeeps ==
  ASSUME StakeInv, NEW caller \in Holder, NEW amount \in Amount, Precompile(caller, amount)
  PROVE  StakeInv'
<1>1. CallOK(caller) /\ TypeOK
  BY PrecompileKeeps, Zenon DEF StakeInv
<1>2. UNCHANGED <<frames, mode, callers, diverged>> /\ caller \in callers
  BY Zenon DEF Precompile
<1>3. TypeOK'
  BY <1>1, <1>2 DEF CallOK, TypeOK, Balances, Delegations
<1>4. ASSUME ~diverged', ~InItsOwnName' PROVE AllBacked'
  <2>1. AllBacked /\ caller # STAKING_ADDR
    BY <1>2, <1>4, Zenon DEF StakeInv, InItsOwnName
  <2>2. Backs(balance, delegations)'
    BY <1>1, <2>1 DEF AllBacked, CallOK, Backs, TotalOf, Stakes, StakeWith
  <2>3. ASSUME NEW i \in 1..Len(frames') PROVE Backs(frames'[i].balance, frames'[i].delegations)
    BY <1>2, <2>1 DEF AllBacked
  <2> QED
    BY <2>2, <2>3, Zenon DEF AllBacked
<1>5. /\ frames' = <<>> => callers' = {}
      /\ InItsOwnName' => mode' = "call"
      /\ ~diverged' /\ frames' # <<>> => Backs(frames'[1].balance, frames'[1].delegations)
  BY <1>2, Zenon DEF StakeInv, InItsOwnName
<1> QED
  BY <1>3, <1>4, <1>5, Zenon DEF StakeInv

LEMMA StakeStep == StakeInv /\ [Next]_vars => StakeInv'
<1> SUFFICES ASSUME StakeInv, [Next]_vars PROVE StakeInv'
  BY Zenon
<1>0. CASE \E m \in Modes : \E sender \in Senders(m) : Begin(m, sender)
  BY <1>0, BeginKeeps, Zenon
<1>1. CASE Enter
  BY <1>1, EnterKeeps, Zenon
<1>2. CASE \E caller \in Holder, amount \in Amount : Precompile(caller, amount)
  BY <1>2, CallKeeps, Zenon
<1>3. CASE Revert
  BY <1>3, UndoKeeps, Zenon DEF Revert
<1>4. CASE Succeed
  <2>1. CASE frames # <<>> /\ Undo
    BY <2>1, UndoKeeps, Zenon
  <2>2. CASE /\ frames # <<>> /\ Pop /\ UNCHANGED <<balance, diverged>>
             /\ Len(frames) > 1 \/ mode = "block"
    <3>1. balance' \in Balances /\ diverged' \in BOOLEAN
      BY <2>2, Types, Zenon DEF StakeInv
    <3>2. Len(frames) = 1 => ~InItsOwnName
      <4>1. Len(frames) = 1 => mode = "block"
        BY <2>2
      <4> QED
        BY <4>1, Zenon DEF StakeInv
    <3>3. ~diverged /\ ~InItsOwnName => Backs(balance, delegations)
      BY Zenon DEF StakeInv, AllBacked
    <3>4. balance' = balance /\ diverged' = diverged
      BY <2>2, Zenon
    <3>5. /\ ~diverged' => ~diverged
          /\ ~diverged' /\ (~InItsOwnName \/ Len(frames) = 1) => Backs(balance', delegations)
      BY <3>2, <3>3, <3>4, Zenon
    <3> QED
      BY <2>2, <3>1, <3>5, PopKeeps, Zenon
  <2> QED
    BY <1>4, <2>1, <2>2, Zenon DEF Succeed
<1>5. CASE UNCHANGED vars
  BY <1>5, Zenon DEF vars, StakeInv, InItsOwnName, AllBacked, Backs, TotalOf, Stakes, StakeWith, TypeOK
<1> QED
  BY <1>0, <1>1, <1>2, <1>3, <1>4, <1>5, Zenon DEF Next

LEMMA StakeInvariant == Spec => []StakeInv
<1>1. Init => StakeInv
  BY InitHolds, Zenon
<1>2. StakeInv /\ [Next]_vars => StakeInv'
  BY StakeStep, Zenon
<1> QED
  BY <1>1, <1>2, PTL DEF Spec

-----------------------------------------------------------------------------
(* The results.                                                            *)

\* No balance and no delegation ever goes below zero, in a transaction or
\* after one was undone: every subtraction of the two precompiles and of the
\* journal is guarded.
THEOREM StakingTypesHold == Spec => []TypeOK
<1>1. StakeInv => TypeOK
  BY Zenon DEF StakeInv
<1> QED
  BY <1>1, StakeInvariant, PTL

\* As long as no frame was undone across a staking call, the staking address
\* holds every delegated token, for any accounts, validators and nesting: at
\* all times but within a dry run that eth_call runs in the name of the staking
\* address itself, which may undo the lock and cannot make the undoing last.
THEOREM StakeIsBacked == Spec => []Backed
<1>1. StakeInv => Backed
  <2> SUFFICES ASSUME StakeInv, ~diverged, ~InItsOwnName
               PROVE  TotalStake <= balance[STAKING_ADDR]
    BY Zenon DEF Backed
  <2>1. TotalStake = TotalOf(delegations)
    BY TotalIsSum, Types, Zenon DEF StakeInv
  <2> QED
    BY <2>1, Zenon DEF StakeInv, AllBacked, Backs
<1> QED
  BY <1>1, StakeInvariant, PTL

\* As long as no frame was undone across a staking call, a precompile call that
\* answers Revert leaves balances and delegations as they were, outside dry runs
\* in the name of the staking address: unbond never lowers a delegation that it
\* then cannot pay out.
THEOREM RevertedCallsKeepState == Spec => RefusedChangesNothing
<1>1. StakeInv /\ [Next]_vars =>
        [\A caller \in Holder, amount \in Amount :
           Precompile(caller, amount) /\ result' = "revert" /\ ~diverged /\ ~InItsOwnName
             => UNCHANGED <<balance, delegations>>]_vars
  <2> SUFFICES ASSUME StakeInv, NEW caller \in Holder, NEW amount \in Amount,
                      Precompile(caller, amount), result' = "revert", ~diverged, ~InItsOwnName
               PROVE  UNCHANGED <<balance, delegations>>
    BY Zenon
  <2>1. CallOK(caller) /\ caller # STAKING_ADDR
    BY PrecompileKeeps, Zenon DEF StakeInv, Precompile, InItsOwnName
  <2> QED
    BY <2>1, Zenon DEF CallOK, StakeInv, AllBacked
<1> QED
  BY <1>1, StakeInvariant, PTL DEF Spec, RefusedChangesNothing

=============================================================================
