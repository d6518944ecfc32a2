-------------------------- MODULE NodeLocks_proofs --------------------------
(***************************************************************************)
(* A lock order rules circular waits out, for any number of server tasks   *)
(* and calls; and the node has one unless submissions run beside commits.  *)
(***************************************************************************)
EXTENDS NodeLocks, TLAPS

Steps == {"lock", "unlock"} \X Mutex

\* The mutexes that the steps p hold as they come to step i.
Held(p, i) ==
  {m \in Mutex : \E j \in 1..Len(p) :
     /\ j < i /\ p[j] = lock(m)
     /\ \A k \in 1..Len(p) : j < k /\ k < i => p[k] # unlock(m)}

\* The steps p unlock only what they hold, and hold nothing at the end.
WellLocked(p) ==
  /\ p \in Seq(Steps)
  /\ \A i \in 1..Len(p), m \in Mutex : p[i] = unlock(m) => m \in Held(p, i)
  /\ Held(p, Len(p) + 1) = {}

\* The operations that run.
Used == ServerCalls \cup {EngineCalls[i] : i \in DOMAIN EngineCalls}

\* The steps p take their mutexes by increasing rank.
InOrder(p, rank) ==
  \A i \in 1..Len(p), m \in Mutex :
    p[i] = lock(m) => \A h \in Held(p, i) : rank[h] < rank[m]

\* Every operation that runs does.
Ordered(rank) == \A c \in Used : InOrder(Program[c], rank)

\* A thread owns exactly what its operation holds at the step it is at.
IndInv ==
  /\ call \in [Thread -> Used \cup {"none"}]
  /\ pos \in [Thread -> Nat]
  /\ owner \in [Mutex -> Thread \cup {Free}]
  /\ made \in [Thread -> 0..MaxCalls]
  /\ \A t \in Thread : call[t] # "none" => pos[t] \in 1..(Len(Program[call[t]]) + 1)
  /\ \A m \in Mutex, t \in Thread :
       owner[m] = t <=> call[t] # "none" /\ m \in Held(Program[call[t]], pos[t])

-----------------------------------------------------------------------------
(* The lock steps of the operations                                        *)

\* A guard that takes no other mutex.
LEMMA PairWellLocked ==
  ASSUME NEW m \in Mutex
  PROVE  WellLocked(<<lock(m), unlock(m)>>)
<1> DEFINE p == <<lock(m), unlock(m)>>
<1>1. p \in Seq(Steps) /\ Len(p) = 2
  BY DEF Steps, lock, unlock
<1>2. \A i \in 1..2, n \in Mutex : p[i] = unlock(n) => n \in Held(p, i)
  BY DEF Held, lock, unlock
<1>3. Held(p, 3) = {}
  BY DEF Held, lock, unlock
<1> QED BY <1>1, <1>2, <1>3 DEF WellLocked

\* Two guards in turn.
LEMMA TwoPairsWellLocked ==
  ASSUME NEW m \in Mutex, NEW n \in Mutex
  PROVE  WellLocked(<<lock(m), unlock(m), lock(n), unlock(n)>>)
<1> DEFINE p == <<lock(m), unlock(m), lock(n), unlock(n)>>
<1>1. p \in Seq(Steps) /\ Len(p) = 4
  BY DEF Steps, lock, unlock
<1>2. \A i \in 1..4, o \in Mutex : p[i] = unlock(o) => o \in Held(p, i)
  BY DEF Held, lock, unlock
<1>3. Held(p, 5) = {}
  BY DEF Held, lock, unlock
<1> QED BY <1>1, <1>2, <1>3 DEF WellLocked

\* A guard within another.
LEMMA NestedWellLocked ==
  ASSUME NEW m \in Mutex, NEW n \in Mutex, m # n
  PROVE  WellLocked(<<lock(m), lock(n), unlock(n), unlock(m)>>)
<1> DEFINE p == <<lock(m), lock(n), unlock(n), unlock(m)>>
<1>1. p \in Seq(Steps) /\ Len(p) = 4
  BY DEF Steps, lock, unlock
<1>2. \A i \in 1..4, o \in Mutex : p[i] = unlock(o) => o \in Held(p, i)
  BY DEF Held, lock, unlock
<1>3. Held(p, 5) = {}
  BY DEF Held, lock, unlock
<1> QED BY <1>1, <1>2, <1>3 DEF WellLocked

\* Two guards in turn within a third.
LEMMA NestedPairsWellLocked ==
  ASSUME NEW m \in Mutex, NEW n \in Mutex, NEW o \in Mutex, m # n, m # o
  PROVE  WellLocked(<<lock(m), lock(n), unlock(n), lock(o), unlock(o), unlock(m)>>)
<1> DEFINE p == <<lock(m), lock(n), unlock(n), lock(o), unlock(o), unlock(m)>>
<1>1. p \in Seq(Steps) /\ Len(p) = 6
  BY DEF Steps, lock, unlock
<1>2. \A i \in 1..6, x \in Mutex : p[i] = unlock(x) => x \in Held(p, i)
  <2>1. n \in Held(p, 3)
    BY <1>1 DEF Held, lock, unlock
  <2>2. o \in Held(p, 5)
    BY <1>1 DEF Held, lock, unlock
  <2>3. m \in Held(p, 6)
    BY <1>1 DEF Held, lock, unlock
  <2>4. \A x : /\ p[3] = unlock(x) => x = n
               /\ p[5] = unlock(x) => x = o
               /\ p[6] = unlock(x) => x = m
               /\ p[1] # unlock(x) /\ p[2] # unlock(x) /\ p[4] # unlock(x)
    BY Zenon DEF lock, unlock
  <2> HIDE DEF p
  <2> QED
    BY <2>1, <2>2, <2>3, <2>4
<1>3. Held(p, 7) = {}
  BY DEF Held, lock, unlock
<1> QED BY <1>1, <1>2, <1>3 DEF WellLocked

\* Lock and unlock steps differ, and name their mutex.
LEMMA StepsDiffer ==
  \A a, b : /\ lock(a) # unlock(b)
            /\ lock(a) = lock(b) => a = b
            /\ unlock(a) = unlock(b) => a = b
BY Zenon DEF lock, unlock

\* A lock step adds its mutex to what is held.
LEMMA HeldAfterLock ==
  ASSUME NEW p \in Seq(Steps), NEW i \in 1..Len(p), NEW m \in Mutex, p[i] = lock(m)
  PROVE  Held(p, i + 1) = Held(p, i) \cup {m}
<1>0. \A j \in 1..Len(p) : j < i + 1 <=> j < i \/ j = i
  OBVIOUS
<1>1. ASSUME NEW x \in Held(p, i + 1), x # m PROVE x \in Held(p, i)
  BY <1>0, <1>1, StepsDiffer, Zenon DEF Held
<1>2. ASSUME NEW x \in Held(p, i) PROVE x \in Held(p, i + 1)
  BY <1>0, <1>2, StepsDiffer, Zenon DEF Held
<1>3. m \in Held(p, i + 1)
  BY <1>0 DEF Held
<1> QED BY <1>1, <1>2, <1>3, Zenon

\* An unlock step takes its mutex from what is held.
LEMMA HeldAfterUnlock ==
  ASSUME NEW p \in Seq(Steps), NEW i \in 1..Len(p), NEW m \in Mutex, p[i] = unlock(m)
  PROVE  Held(p, i + 1) = Held(p, i) \ {m}
<1>0. \A j \in 1..Len(p) : j < i + 1 <=> j < i \/ j = i
  OBVIOUS
<1>1. ASSUME NEW x \in Held(p, i + 1) PROVE x \in Held(p, i) \ {m}
  BY <1>0, <1>1, StepsDiffer, Zenon DEF Held
<1>2. ASSUME NEW x \in Held(p, i), x # m PROVE x \in Held(p, i + 1)
  BY <1>0, <1>2, StepsDiffer, Zenon DEF Held
<1> QED BY <1>1, <1>2, Zenon

\* Every operation is well locked.
LEMMA ProgramsWellLocked == \A c \in DOMAIN Program : WellLocked(Program[c])
<1>1. /\ WellLocked(submit_tx) /\ WellLocked(eth_call)
  BY NestedWellLocked, Zenon DEF submit_tx, eth_call, Mutex
<1>2. WellLocked(execute_block) /\ WellLocked(on_commit)
  BY NestedPairsWellLocked, Zenon DEF execute_block, on_commit, Mutex
<1>3. WellLocked(create_payload) /\ WellLocked(size)
  BY TwoPairsWellLocked, Zenon DEF create_payload, size, Mutex
<1>4. /\ WellLocked(validate_tx) /\ WellLocked(query)
      /\ WellLocked(get_receipts) /\ WellLocked(contains)
  BY PairWellLocked, Zenon DEF validate_tx, query, get_receipts, contains, Mutex
<1> QED BY <1>1, <1>2, <1>3, <1>4 DEF Program

\* What runs is an operation of the node, and no name means "in none".
LEMMA UsedPrograms ==
  /\ Used \subseteq DOMAIN Program
  /\ "none" \notin Used
  /\ \A c \in Used : WellLocked(Program[c])
<1>1. Used \subseteq DOMAIN Program
  BY CallsAssumption DEF Used
<1>2. "none" \notin DOMAIN Program
  BY Zenon DEF Program
<1> QED BY <1>1, <1>2, ProgramsWellLocked, Zenon

-----------------------------------------------------------------------------
(* Threads own what their operations hold                                  *)

\* No thread is mistaken for the mark of a free mutex.
LEMMA ThreadsNotFree == Free \notin Thread
BY CallsAssumption, Zenon DEF Free, Thread

\* Initially nothing runs and nothing is owned.
LEMMA InitOK == Init => IndInv
BY ThreadsNotFree, CallsAssumption DEF Init, IndInv

\* An operation that begins holds nothing.
LEMMA BeginOK ==
  ASSUME IndInv, NEW t \in Thread, Begin(t)
  PROVE  IndInv'
<1>1. PICK c \in NextCalls(t) : call' = [call EXCEPT ![t] = c]
  BY Zenon DEF Begin
<1>2. c \in Used
  <2>1. CASE t = "engine"
    <3>1. made[t] \in Nat /\ Len(EngineCalls) \in Nat \ {0} /\ DOMAIN EngineCalls = 1..Len(EngineCalls)
      BY CallsAssumption DEF IndInv
    <3>2. (made[t] % Len(EngineCalls)) + 1 \in DOMAIN EngineCalls
      BY <3>1
    <3> QED BY <1>1, <2>1, <3>2, Zenon DEF NextCalls, Used
  <2>2. CASE t # "engine"
    BY <1>1, <2>2, Zenon DEF NextCalls, Used
  <2> QED BY <2>1, <2>2, Zenon
<1>3. Held(Program[c], 1) = {} /\ Len(Program[c]) \in Nat
  BY <1>2, UsedPrograms DEF Held, WellLocked
<1>4. made[t] + 1 \in 0..MaxCalls
  BY CallsAssumption DEF Begin, IndInv
<1>5. /\ pos' = [pos EXCEPT ![t] = 1] /\ made' = [made EXCEPT ![t] = @ + 1]
      /\ owner' = owner /\ call[t] = "none" /\ c # "none"
  BY <1>2, UsedPrograms, Zenon DEF Begin
<1>6. /\ call' \in [Thread -> Used \cup {"none"}] /\ pos' \in [Thread -> Nat]
      /\ made' \in [Thread -> 0..MaxCalls]
  BY <1>1, <1>2, <1>4, <1>5, Zenon DEF IndInv
<1>7. \A u \in Thread : call'[u] # "none" => pos'[u] \in 1..(Len(Program[call'[u]]) + 1)
  BY <1>1, <1>3, <1>5 DEF IndInv
<1>8. \A m \in Mutex, u \in Thread :
        owner[m] = u <=> call'[u] # "none" /\ m \in Held(Program[call'[u]], pos'[u])
  <2> SUFFICES ASSUME NEW m \in Mutex, NEW u \in Thread
               PROVE  owner[m] = u <=> call'[u] # "none" /\ m \in Held(Program[call'[u]], pos'[u])
    BY Zenon
  <2>1. CASE u = t
    <3>1. call'[t] = c /\ pos'[t] = 1
      BY <1>1, <1>5 DEF IndInv
    <3>2. owner[m] # t
      BY <1>5, Zenon DEF IndInv
    <3> QED BY <1>3, <2>1, <3>1, <3>2, Zenon
  <2>2. CASE u # t
    BY <1>1, <1>5, <2>2 DEF IndInv
  <2> QED BY <2>1, <2>2, Zenon
<1> QED BY <1>5, <1>6, <1>7, <1>8, Zenon DEF IndInv

\* Where a thread is in its operation.
LEMMA AtStep ==
  ASSUME IndInv, NEW t \in Thread, call[t] # "none", ~AtEnd(t)
  PROVE  /\ Program[call[t]] \in Seq(Steps)
         /\ pos[t] \in 1..Len(Program[call[t]])
         /\ Op(t) \in Steps
         /\ WellLocked(Program[call[t]])
<1>1. call[t] \in Used /\ WellLocked(Program[call[t]])
  BY UsedPrograms DEF IndInv
<1>2. Program[call[t]] \in Seq(Steps)
  BY <1>1, Zenon DEF WellLocked
<1>3. pos[t] \in 1..Len(Program[call[t]])
  BY <1>2 DEF IndInv, AtEnd
<1> QED BY <1>1, <1>2, <1>3 DEF Op

\* A thread that locks comes to own the mutex.
LEMMA LockOK ==
  ASSUME IndInv, NEW t \in Thread, Lock(t)
  PROVE  IndInv'
<1> DEFINE p == Program[call[t]]
           m == Op(t)[2]
<1>1. p \in Seq(Steps) /\ pos[t] \in 1..Len(p) /\ m \in Mutex /\ p[pos[t]] = lock(m)
  BY AtStep DEF Lock, Op, Steps, lock
<1> HIDE DEF p, m
<1>2. Held(p, pos[t] + 1) = Held(p, pos[t]) \cup {m}
  <2> DEFINE i == pos[t]
  <2>1. p \in Seq(Steps) /\ m \in Mutex
    BY <1>1, Zenon
  <2>2. i \in 1..Len(p) /\ p[i] = lock(m)
    BY <1>1, Zenon
  <2> HIDE DEF i
  <2>3. Held(p, i + 1) = Held(p, i) \cup {m}
    BY <2>1, <2>2, HeldAfterLock
  <2> QED BY <2>3, Zenon DEF i
<1>3. owner[m] = Free
  BY Zenon DEF Lock, m
<1>4. pos[t] + 1 \in 1..(Len(p) + 1) /\ pos[t] + 1 \in Nat
  BY <1>1
<1>5. /\ owner' = [owner EXCEPT ![m] = t]
      /\ pos' = [pos EXCEPT ![t] = @ + 1]
      /\ call' = call /\ made' = made /\ call[t] # "none"
  BY Zenon DEF Lock, m
<1>6. \A n \in Mutex, u \in Thread :
        owner'[n] = u <=> call[u] # "none" /\ n \in Held(Program[call[u]], pos'[u])
  <2> SUFFICES ASSUME NEW n \in Mutex, NEW u \in Thread
               PROVE  owner'[n] = u <=> call[u] # "none" /\ n \in Held(Program[call[u]], pos'[u])
    BY Zenon
  <2>1. CASE u = t
    BY <1>1, <1>2, <1>3, <1>5, <2>1 DEF IndInv, p
  <2>2. CASE u # t
    BY <1>1, <1>3, <1>5, <2>2, ThreadsNotFree DEF IndInv
  <2> QED BY <2>1, <2>2, Zenon
<1>7. pos' \in [Thread -> Nat] /\ owner' \in [Mutex -> Thread \cup {Free}]
  BY <1>4, <1>5, Zenon DEF IndInv
<1>8. \A u \in Thread : call[u] # "none" => pos'[u] \in 1..(Len(Program[call[u]]) + 1)
  BY <1>4, <1>5 DEF IndInv, p
<1> QED BY <1>5, <1>6, <1>7, <1>8 DEF IndInv

\* A thread unlocks what it owns.
LEMMA UnlockOK ==
  ASSUME IndInv, NEW t \in Thread, Unlock(t)
  PROVE  IndInv'
<1> DEFINE p == Program[call[t]]
           m == Op(t)[2]
<1>1. p \in Seq(Steps) /\ pos[t] \in 1..Len(p) /\ m \in Mutex /\ p[pos[t]] = unlock(m)
  BY AtStep DEF Unlock, Op, Steps, unlock
<1> HIDE DEF p, m
<1>2. Held(p, pos[t] + 1) = Held(p, pos[t]) \ {m}
  <2> DEFINE i == pos[t]
  <2>1. p \in Seq(Steps) /\ m \in Mutex
    BY <1>1, Zenon
  <2>2. i \in 1..Len(p) /\ p[i] = unlock(m)
    BY <1>1, Zenon
  <2> HIDE DEF i
  <2>3. Held(p, i + 1) = Held(p, i) \ {m}
    BY <2>1, <2>2, HeldAfterUnlock
  <2> QED BY <2>3, Zenon DEF i
<1>3. owner[m] = t
  BY <1>1, AtStep, Zenon DEF Unlock, WellLocked, IndInv, p
<1>4. pos[t] + 1 \in 1..(Len(p) + 1) /\ pos[t] + 1 \in Nat
  BY <1>1
<1>5. /\ owner' = [owner EXCEPT ![m] = Free]
      /\ pos' = [pos EXCEPT ![t] = @ + 1]
      /\ call' = call /\ made' = made /\ call[t] # "none"
  BY Zenon DEF Unlock, m
<1>6. \A n \in Mutex, u \in Thread :
        owner'[n] = u <=> call[u] # "none" /\ n \in Held(Program[call[u]], pos'[u])
  <2> SUFFICES ASSUME NEW n \in Mutex, NEW u \in Thread
               PROVE  owner'[n] = u <=> call[u] # "none" /\ n \in Held(Program[call[u]], pos'[u])
    BY Zenon
  <2>1. CASE u = t
    BY <1>1, <1>2, <1>3, <1>5, <2>1, ThreadsNotFree DEF IndInv, p
  <2>2. CASE u # t
    BY <1>1, <1>3, <1>5, <2>2, ThreadsNotFree DEF IndInv
  <2> QED BY <2>1, <2>2, Zenon
<1>7. pos' \in [Thread -> Nat] /\ owner' \in [Mutex -> Thread \cup {Free}]
  BY <1>4, <1>5, Zenon DEF IndInv
<1>8. \A u \in Thread : call[u] # "none" => pos'[u] \in 1..(Len(Program[call[u]]) + 1)
  BY <1>4, <1>5 DEF IndInv, p
<1> QED BY <1>5, <1>6, <1>7, <1>8 DEF IndInv

\* An operation that returns owns nothing.
LEMMA ReturnOK ==
  ASSUME IndInv, NEW t \in Thread, Return(t)
  PROVE  IndInv'
<1> DEFINE p == Program[call[t]]
<1>1. call[t] \in Used /\ WellLocked(p)
  BY UsedPrograms DEF IndInv, Return
<1>2. Len(p) \in Nat /\ pos[t] \in 1..(Len(p) + 1) /\ pos[t] > Len(p)
  BY <1>1 DEF WellLocked, IndInv, Return, AtEnd
<1>3. pos[t] = Len(p) + 1
  BY <1>2
<1>4. Held(p, pos[t]) = {}
  BY <1>1, <1>3, Zenon DEF WellLocked
<1> QED BY <1>4 DEF Return, IndInv

\* Every step of the node keeps the invariant.
LEMMA NextOK == IndInv /\ [Next]_vars => IndInv'
<1> SUFFICES ASSUME IndInv, [Next]_vars PROVE IndInv'
  BY Zenon
<1>1. ASSUME NEW t \in Thread, ThreadStep(t) PROVE IndInv'
  BY <1>1, BeginOK, LockOK, UnlockOK, ReturnOK, Zenon DEF ThreadStep
<1>2. CASE UNCHANGED vars
  BY <1>2, Zenon DEF IndInv, vars
<1> QED BY <1>1, <1>2, Zenon DEF Next, Idle

-----------------------------------------------------------------------------
(* Ranks rule out a circle                                                 *)

\* A thread that waits for another wants a mutex of lower rank than the one
\* that other waits for.
LEMMA WaitRaisesRank ==
  ASSUME IndInv, NEW rank \in [Mutex -> 1..3], Ordered(rank),
         NEW t \in Thread, NEW u \in Thread, u \in WaitsFor(t), WaitsFor(u) # {}
  PROVE  /\ Op(t)[2] \in Mutex /\ Op(u)[2] \in Mutex
         /\ rank[Op(t)[2]] < rank[Op(u)[2]]
<1>1. /\ call[t] # "none" /\ ~AtEnd(t) /\ owner[Op(t)[2]] = u
      /\ call[u] # "none" /\ ~AtEnd(u) /\ Op(u)[1] = "lock"
  BY Zenon DEF WaitsFor
<1>2. Op(t) \in Steps /\ Op(u) \in Steps /\ pos[u] \in 1..Len(Program[call[u]])
  BY <1>1, AtStep, Zenon
<1>3. Op(t)[2] \in Mutex /\ Op(u)[2] \in Mutex /\ Program[call[u]][pos[u]] = lock(Op(u)[2])
  BY <1>1, <1>2 DEF Steps, Op, lock
<1>4. Op(t)[2] \in Held(Program[call[u]], pos[u])
  BY <1>1, <1>3, Zenon DEF IndInv
<1>5. call[u] \in Used
  BY <1>1 DEF IndInv
<1> QED BY <1>2, <1>3, <1>4, <1>5, Zenon DEF Ordered, InOrder

\* With three ranks a chain of waits has at most three links, so no circle.
LEMMA OrderedNoCircle ==
  ASSUME IndInv, NEW rank \in [Mutex -> 1..3], Ordered(rank)
  PROVE  NoCircularWait
<1> SUFFICES ASSUME NEW S \in (SUBSET Thread) \ {{}},
                    \A t \in S : WaitsFor(t) \cap S # {}
             PROVE  FALSE
  BY Zenon DEF NoCircularWait
<1>1. PICK t1 \in S : TRUE
  BY Zenon
<1>2. PICK t2 \in S : t2 \in WaitsFor(t1)
  BY Zenon
<1>3. PICK t3 \in S : t3 \in WaitsFor(t2)
  BY Zenon
<1>4. PICK t4 \in S : t4 \in WaitsFor(t3)
  BY Zenon
<1>5. WaitsFor(t4) # {}
  BY Zenon
<1>6. Op(t1)[2] \in Mutex /\ Op(t2)[2] \in Mutex /\ rank[Op(t1)[2]] < rank[Op(t2)[2]]
  BY <1>2, <1>3, WaitRaisesRank, Zenon
<1>7. Op(t3)[2] \in Mutex /\ rank[Op(t2)[2]] < rank[Op(t3)[2]]
  BY <1>3, <1>4, WaitRaisesRank, Zenon
<1>8. Op(t4)[2] \in Mutex /\ rank[Op(t3)[2]] < rank[Op(t4)[2]]
  BY <1>4, <1>5, WaitRaisesRank, Zenon
<1> QED BY <1>6, <1>7, <1>8

-----------------------------------------------------------------------------
(* The node's lock orders                                                  *)

\* Without submissions every operation takes the state first, if at all, and
\* one other mutex at a time.
StateFirst == [m \in Mutex |-> IF m = "state" THEN 1 ELSE 2]

\* Without commits the pool comes before the state.
PoolFirst == [m \in Mutex |-> IF m = "inner" THEN 1 ELSE IF m = "state" THEN 2 ELSE 3]

\* A guard that takes no other mutex is in any order.
LEMMA PairInOrder ==
  ASSUME NEW m \in Mutex, NEW rank
  PROVE  InOrder(<<lock(m), unlock(m)>>, rank)
BY DEF InOrder, Held, lock, unlock

\* So are two guards in turn.
LEMMA TwoPairsInOrder ==
  ASSUME NEW m \in Mutex, NEW n \in Mutex, NEW rank
  PROVE  InOrder(<<lock(m), unlock(m), lock(n), unlock(n)>>, rank)
BY DEF InOrder, Held, lock, unlock

\* A guard within another follows the ranks of the two.
LEMMA NestedInOrder ==
  ASSUME NEW m \in Mutex, NEW n \in Mutex, NEW rank, rank[m] < rank[n]
  PROVE  InOrder(<<lock(m), lock(n), unlock(n), unlock(m)>>, rank)
BY DEF InOrder, Held, lock, unlock

\* Two guards in turn within a third follow the ranks of the three.
LEMMA NestedPairsInOrder ==
  ASSUME NEW m \in Mutex, NEW n \in Mutex, NEW o \in Mutex, NEW rank,
         rank[m] < rank[n], rank[m] < rank[o]
  PROVE  InOrder(<<lock(m), lock(n), unlock(n), lock(o), unlock(o), unlock(m)>>, rank)
<1> DEFINE p == <<lock(m), lock(n), unlock(n), lock(o), unlock(o), unlock(m)>>
<1>1. Len(p) = 6
  BY Zenon
<1>2. Held(p, 1) = {}
  BY DEF Held
<1>3. Held(p, 2) \subseteq {m}
  BY DEF Held, lock, unlock
<1>4. Held(p, 4) \subseteq {m}
  BY DEF Held, lock, unlock
<1>5. \A x : /\ p[2] = lock(x) => x = n
             /\ p[4] = lock(x) => x = o
             /\ p[3] # lock(x) /\ p[5] # lock(x) /\ p[6] # lock(x)
  BY Zenon DEF lock, unlock
<1> HIDE DEF p
<1>6. InOrder(p, rank)
  BY <1>1, <1>2, <1>3, <1>4, <1>5 DEF InOrder
<1> QED BY <1>6, Zenon DEF p

\* The operations that take no mutex inside another.
LEMMA FlatInOrder ==
  ASSUME NEW rank
  PROVE  /\ InOrder(create_payload, rank) /\ InOrder(size, rank)
         /\ InOrder(validate_tx, rank) /\ InOrder(query, rank)
         /\ InOrder(get_receipts, rank) /\ InOrder(contains, rank)
BY Zenon, PairInOrder, TwoPairsInOrder
   DEF create_payload, size, validate_tx, query, get_receipts, contains, Mutex

\* The lock order of the node without submissions.
LEMMA StateFirstOrders ==
  ASSUME NEW c \in DOMAIN Program, c # "submit_tx"
  PROVE  InOrder(Program[c], StateFirst)
<1>1. InOrder(eth_call, StateFirst)
  BY NestedInOrder DEF eth_call, StateFirst, Mutex
<1>2. \A m \in Mutex \ {"state"} : StateFirst["state"] < StateFirst[m]
  BY DEF StateFirst, Mutex
<1>3. InOrder(execute_block, StateFirst) /\ InOrder(on_commit, StateFirst)
  BY <1>2, NestedPairsInOrder, Zenon DEF execute_block, on_commit, Mutex
<1> QED BY <1>1, <1>3, FlatInOrder DEF Program

\* The lock order of the node without commits.
LEMMA PoolFirstOrders ==
  ASSUME NEW c \in DOMAIN Program, c # "on_commit"
  PROVE  InOrder(Program[c], PoolFirst)
<1>1. InOrder(eth_call, PoolFirst) /\ InOrder(submit_tx, PoolFirst)
  BY NestedInOrder DEF eth_call, submit_tx, PoolFirst, Mutex
<1>2. /\ PoolFirst["state"] < PoolFirst["staking"]
      /\ PoolFirst["state"] < PoolFirst["receipts"]
  BY DEF PoolFirst, Mutex
<1>3. InOrder(execute_block, PoolFirst)
  BY <1>2, NestedPairsInOrder, Zenon DEF execute_block, Mutex
<1> QED BY <1>1, <1>3, FlatInOrder DEF Program

-----------------------------------------------------------------------------
(* Theorems                                                                *)

\* At every moment a thread owns exactly the mutexes that its operation
\* holds at the step it has come to.
THEOREM OwnsWhatItHolds == Spec => []IndInv
BY InitOK, NextOK, PTL DEF Spec

\* However many server tasks there are, a thread that holds the pool, the
\* receipts or the staking state is never kept waiting, as long as no submission
\* is among the operations that run: the state comes first, and one other mutex
\* at a time.
THEOREM InnermostHoldersRun ==
  "submit_tx" \notin Used => (Spec => []InnermostNeverWaits)
<1> SUFFICES ASSUME "submit_tx" \notin Used
             PROVE  Spec => []InnermostNeverWaits
  BY Zenon
<1>1. Ordered(StateFirst)
  BY UsedPrograms, StateFirstOrders, Zenon DEF Ordered
<1>2. IndInv => InnermostNeverWaits
  <2> SUFFICES ASSUME IndInv, NEW m \in Mutex \ {"state"}, NEW u, owner[m] = u, u # Free,
                      WaitsFor(u) # {}
               PROVE  FALSE
    BY DEF InnermostNeverWaits
  <2>1. u \in Thread
    BY Zenon DEF IndInv
  <2>2. call[u] # "none" /\ ~AtEnd(u) /\ Op(u)[1] = "lock"
    BY Zenon DEF WaitsFor
  <2>3. Op(u) \in Steps /\ pos[u] \in 1..Len(Program[call[u]])
    BY <2>1, <2>2, AtStep, Zenon
  <2>4. Op(u)[2] \in Mutex /\ Program[call[u]][pos[u]] = lock(Op(u)[2])
    BY <2>2, <2>3 DEF Steps, Op, lock
  <2>5. m \in Held(Program[call[u]], pos[u])
    BY <2>1, <2>2, Zenon DEF IndInv
  <2>6. call[u] \in Used
    BY <2>1, <2>2 DEF IndInv
  <2>7. StateFirst[m] < StateFirst[Op(u)[2]]
    BY <1>1, <2>3, <2>4, <2>5, <2>6, Zenon DEF Ordered, InOrder
  <2> QED
    BY <2>4, <2>7 DEF StateFirst
<1> QED BY <1>2, OwnsWhatItHolds, PTL

\* However many server tasks there are, the threads of a node never wait in a
\* circle as long as no submission (submit_tx) or no commit (on_commit) is
\* among the operations that run.
THEOREM NoDeadlockApart ==
  "submit_tx" \notin Used \/ "on_commit" \notin Used => (Spec => []NoCircularWait)
<1> SUFFICES ASSUME "submit_tx" \notin Used \/ "on_commit" \notin Used
             PROVE  Spec => []NoCircularWait
  BY Zenon
<1>1. PICK rank \in [Mutex -> 1..3] : Ordered(rank)
  <2>1. CASE "submit_tx" \notin Used
    <3>1. StateFirst \in [Mutex -> 1..3] /\ Ordered(StateFirst)
      BY <2>1, UsedPrograms, StateFirstOrders DEF StateFirst, Ordered
    <3> QED BY <3>1, Zenon
  <2>2. CASE "on_commit" \notin Used
    <3>1. PoolFirst \in [Mutex -> 1..3] /\ Ordered(PoolFirst)
      BY <2>2, UsedPrograms, PoolFirstOrders DEF PoolFirst, Ordered
    <3> QED BY <3>1, Zenon
  <2> QED BY <2>1, <2>2, Zenon
<1>2. IndInv => NoCircularWait
  BY <1>1, OrderedNoCircle, Zenon
<1> QED BY <1>2, OwnsWhatItHolds, PTL
=============================================================================
