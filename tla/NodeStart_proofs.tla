-------------------------- MODULE NodeStart_proofs --------------------------
(***************************************************************************)
(* Proofs about the start of nodes, for any nodes and peers, any length of *)
(* the chain and any number of crashes, restarts and failed attempts.      *)
(***************************************************************************)
EXTENDS NodeStart, FiniteNat, SequenceTheorems

-----------------------------------------------------------------------------
(* Runs of heights                                                         *)

\* The heights r + 1, ..., r + k.
Heights(r, k) == [i \in 1..k |-> r + i]

LEMMA HeightsType == \A r \in Nat, k \in Nat : Heights(r, k) \in Seq(Nat)
BY DEF Heights

LEMMA HeightsGrow ==
  ASSUME NEW r \in Nat, NEW k \in Nat, NEW m \in Nat
  PROVE  /\ Heights(r, k) \o [i \in 1..m |-> r + k + i] = Heights(r, k + m)
         /\ Append(Heights(r, k), r + k + 1) = Heights(r, k + 1)
<1> DEFINE s == Heights(r, k)
           t == [i \in 1..m |-> r + k + i]
<1>1. s \in Seq(Nat) /\ Len(s) = k /\ \A i \in 1..k : s[i] = r + i
  BY DEF Heights
<1>2. t \in Seq(Nat) /\ Len(t) = m /\ \A i \in 1..m : t[i] = r + k + i
  OBVIOUS
<1>3. Heights(r, k + m) \in Seq(Nat) /\ Len(Heights(r, k + m)) = k + m
  BY DEF Heights
<1>4. Heights(r, k + 1) \in Seq(Nat) /\ Len(Heights(r, k + 1)) = k + 1
  BY DEF Heights
<1> HIDE DEF s, t
<1>5. s \o t = Heights(r, k + m)
  <2>1. s \o t \in Seq(Nat) /\ Len(s \o t) = k + m
    BY <1>1, <1>2, ConcatProperties, Zenon
  <2>2. \A i \in 1..(k + m) : (s \o t)[i] = r + i
    <3> SUFFICES ASSUME NEW i \in 1..(k + m) PROVE (s \o t)[i] = r + i
      BY Zenon
    <3>1. (s \o t)[i] = IF i <= k THEN s[i] ELSE t[i - k]
      BY <1>1, <1>2, ConcatProperties, Zenon
    <3> QED
      BY <1>1, <1>2, <3>1
  <2>3. \A i \in 1..(k + m) : Heights(r, k + m)[i] = r + i
    BY Zenon DEF Heights
  <2> QED
    BY <1>3, <2>1, <2>2, <2>3, SeqEqual, Zenon
<1>6. Append(s, r + k + 1) = Heights(r, k + 1)
  <2> DEFINE a == Append(s, r + k + 1)
  <2>1. /\ a \in Seq(Nat) /\ Len(a) = k + 1
        /\ \A i \in 1..k : a[i] = s[i]
        /\ a[k + 1] = r + k + 1
    BY <1>1, AppendProperties
  <2>2. \A i \in 1..(k + 1) : a[i] = r + i
    <3>1. \A i \in 1..(k + 1) : i \in 1..k \/ i = k + 1
      OBVIOUS
    <3> QED
      BY <1>1, <2>1, <3>1
  <2>3. \A i \in 1..(k + 1) : Heights(r, k + 1)[i] = r + i
    BY Zenon DEF Heights
  <2>4. a = Heights(r, k + 1)
    <3> HIDE DEF a
    <3> QED
      BY <1>4, <2>1, <2>2, <2>3, SeqEqual, SMTT(30)
  <2> QED
    BY <2>4, Zenon
<1> QED
  BY <1>5, <1>6, Zenon DEF s, t

-----------------------------------------------------------------------------
(* The inductive invariant                                                 *)

Starting == {"waiting", "syncing"}

Attempts == [peer : SUBSET Node, expects : {"nothing", "status", "blocks"}, target : Nat]

Answers == [kind : {"status", "blocks"}, height : Nat, blocks : SUBSET Nat]

StartTypes ==
  /\ chain \in Seq(Nat)
  /\ phase \in [Node -> {"down", "waiting", "syncing", "running"}]
  /\ pcs \in [Node -> ConsensusStatus]
  /\ store \in [Node -> SUBSET Nat]
  /\ current_view \in [Node -> Nat]
  /\ last_committed_height \in [Node -> Nat]
  /\ engine_state_height \in [Node -> Nat]
  /\ sync_status \in [Node -> ConsensusStatus]
  /\ executed \in [Node -> Seq(Nat)]
  /\ todo \in [Node -> SUBSET Node]
  /\ attempt \in [Node -> Attempts]
  /\ \A r \in requests : r.from \in Node /\ r.to \in Node
  /\ sync_resp_rx \in [Node -> Seq(Answers)]

\* What the disk of a node holds is part of the chain.
DiskOK(n) ==
  /\ store[n] \subseteq 1..Len(chain)
  /\ pcs[n].height <= Len(chain)
  /\ pcs[n].height > 0 => pcs[n].view >= chain[pcs[n].height]

\* Until the engine runs, state is as it was restored, and sync has reached
\* a block that is stored or has not begun.
StartingOK(n) ==
  phase[n] \in Starting =>
    /\ current_view[n] = pcs[n].view
    /\ last_committed_height[n] = pcs[n].height
    /\ engine_state_height[n] \in store[n] \cup {pcs[n].height}
    /\ phase[n] = "waiting" => engine_state_height[n] = pcs[n].height

RunningOK(n) ==
  phase[n] = "running" =>
    /\ current_view[n] >= pcs[n].view
    /\ last_committed_height[n] <= Len(chain)
    /\ last_committed_height[n] > 0 => current_view[n] >= chain[last_committed_height[n]]

\* Answers hold blocks of the chain.
AnswersOK(n) ==
  \A i \in DOMAIN sync_resp_rx[n] : sync_resp_rx[n][i].blocks \subseteq 1..Len(chain)

ExecutedOK(n) ==
  phase[n] # "down" =>
    /\ Restored(n) <= Reached(n)
    /\ executed[n] = Heights(Restored(n), Reached(n) - Restored(n))

NodeOK(n) == DiskOK(n) /\ StartingOK(n) /\ RunningOK(n) /\ AnswersOK(n) /\ ExecutedOK(n)

StartInv == StartTypes /\ \A n \in Node : NodeOK(n)

LEMMA StartInvInit == Init => StartInv
<1> SUFFICES ASSUME Init PROVE StartInv
  BY Zenon
<1>1. StartTypes
  <2>1. Genesis \in ConsensusStatus
    BY Zenon DEF Genesis, ConsensusStatus
  <2>2. Idle \in Attempts
    BY Zenon DEF Idle, Attempts
  <2>3. <<>> \in Seq(Nat) /\ <<>> \in Seq(Answers)
    OBVIOUS
  <2> QED
    BY <2>1, <2>2, <2>3, Zenon DEF Init, StartTypes
<1>2. \A n \in Node : NodeOK(n)
  BY DEF Init, NodeOK, DiskOK, StartingOK, RunningOK, AnswersOK, ExecutedOK, Genesis, Starting
<1> QED
  BY <1>1, <1>2, Zenon DEF StartInv

\* A node that a step leaves alone stays as it is while the chain grows.
LEMMA OtherNode ==
  ASSUME StartInv, NEW m \in Node,
         chain' \in Seq(Nat), Len(chain') >= Len(chain),
         \A h \in 1..Len(chain) : chain'[h] = chain[h],
         phase'[m] = phase[m], pcs'[m] = pcs[m], store'[m] = store[m],
         current_view'[m] = current_view[m],
         last_committed_height'[m] = last_committed_height[m],
         engine_state_height'[m] = engine_state_height[m],
         sync_status'[m] = sync_status[m], executed'[m] = executed[m],
         sync_resp_rx'[m] = sync_resp_rx[m]
  PROVE  NodeOK(m)'
<1>0. /\ Len(chain) \in Nat /\ Len(chain') \in Nat
      /\ pcs[m].height \in Nat /\ last_committed_height[m] \in Nat
  BY DEF StartInv, StartTypes, ConsensusStatus
<1>1. DiskOK(m)'
  BY <1>0, SMTT(30) DEF StartInv, NodeOK, DiskOK
<1>2. StartingOK(m)'
  BY Zenon DEF StartInv, NodeOK, StartingOK
<1>3. RunningOK(m)'
  <2> SUFFICES ASSUME phase[m] = "running"
               PROVE  /\ current_view[m] >= pcs[m].view
                      /\ last_committed_height[m] <= Len(chain')
                      /\ last_committed_height[m] > 0 =>
                           current_view[m] >= chain'[last_committed_height[m]]
    BY Zenon DEF RunningOK
  <2>1. /\ current_view[m] >= pcs[m].view
        /\ last_committed_height[m] <= Len(chain)
        /\ last_committed_height[m] > 0 => current_view[m] >= chain[last_committed_height[m]]
    BY Zenon DEF StartInv, NodeOK, RunningOK
  <2> QED
    BY <1>0, <2>1
<1>4. AnswersOK(m)'
  BY <1>0 DEF StartInv, NodeOK, AnswersOK
<1>5. ExecutedOK(m)'
  BY Zenon DEF StartInv, NodeOK, ExecutedOK, Restored, Reached
<1> QED
  BY <1>1, <1>2, <1>3, <1>4, <1>5, Zenon DEF NodeOK

\* The chain grows at its end.
Grows ==
  /\ chain' \in Seq(Nat) /\ Len(chain') >= Len(chain)
  /\ \A h \in 1..Len(chain) : chain'[h] = chain[h]

\* A step of node n leaves the others alone.
OnlyAt(n) ==
  \A m \in Node \ {n} :
    /\ phase'[m] = phase[m] /\ pcs'[m] = pcs[m] /\ store'[m] = store[m]
    /\ current_view'[m] = current_view[m]
    /\ last_committed_height'[m] = last_committed_height[m]
    /\ engine_state_height'[m] = engine_state_height[m]
    /\ sync_status'[m] = sync_status[m] /\ executed'[m] = executed[m]
    /\ sync_resp_rx'[m] = sync_resp_rx[m]

LEMMA StepAt ==
  ASSUME StartInv, NEW n \in Node, StartTypes', Grows, OnlyAt(n), NodeOK(n)'
  PROVE  StartInv'
<1>1. \A m \in Node \ {n} : NodeOK(m)'
  BY OtherNode, Zenon DEF Grows, OnlyAt
<1>2. \A m \in Node : NodeOK(m)'
  BY <1>1, Zenon
<1> QED
  BY <1>2, Zenon DEF StartInv

LEMMA SameChain == ASSUME StartInv, chain' = chain PROVE Grows
BY DEF Grows, StartInv, StartTypes

\* No execution yet.
LEMMA NoHeights == \A r \in Nat : Heights(r, r - r) = <<>>
BY DEF Heights

-----------------------------------------------------------------------------
(* Starting and stopping                                                   *)

LEMMA StartOK ==
  ASSUME StartInv, NEW n \in Node, Start(n)
  PROVE  StartInv'
<1> USE DEF Update
<1>1. chain' = chain /\ Grows
  BY SameChain, Zenon DEF Start
<1>2. pcs[n] \in ConsensusStatus /\ pcs[n].view \in Nat /\ pcs[n].height \in Nat
  BY Zenon DEF StartInv, StartTypes, ConsensusStatus
<1>3. StartTypes'
  BY <1>2, SMTT(30) DEF Start, StartInv, StartTypes, disk, syncing
<1>4. OnlyAt(n)
  BY Zenon DEF Start, OnlyAt, disk, syncing, StartInv, StartTypes
<1>5. /\ current_view'[n] = pcs[n].view /\ last_committed_height'[n] = pcs[n].height
      /\ engine_state_height'[n] = pcs[n].height /\ sync_status'[n] = pcs[n]
      /\ executed'[n] = <<>> /\ phase'[n] \in {"running", "waiting"}
      /\ UNCHANGED <<chain, pcs, store, sync_resp_rx>>
  BY Zenon DEF Start, disk, syncing, StartInv, StartTypes
<1>6. DiskOK(n)' /\ AnswersOK(n)'
  BY <1>5, Zenon DEF StartInv, NodeOK, DiskOK, AnswersOK
<1>7. StartingOK(n)'
  BY <1>5, Zenon DEF StartingOK
<1>8. RunningOK(n)'
  BY <1>2, <1>5 DEF StartInv, NodeOK, DiskOK, RunningOK
<1>9. ExecutedOK(n)'
  <2>1. Restored(n)' = pcs[n].height /\ Reached(n)' = pcs[n].height
    BY <1>5, Zenon DEF Restored, Reached
  <2> QED
    BY <1>2, <1>5, <2>1, NoHeights DEF ExecutedOK
<1> QED
  BY <1>1, <1>3, <1>4, <1>6, <1>7, <1>8, <1>9, StepAt, Zenon DEF NodeOK

\* The end of a sync leaves requests and answers of others alone.
LEMMA ForgetSyncTypes ==
  ASSUME StartInv, NEW n \in Node, ForgetSync(n)
  PROVE  /\ todo' \in [Node -> SUBSET Node] /\ attempt' \in [Node -> Attempts]
         /\ \A r \in requests' : r.from \in Node /\ r.to \in Node
         /\ sync_resp_rx' \in [Node -> Seq(Answers)] /\ sync_resp_rx'[n] = <<>>
         /\ \A m \in Node \ {n} : sync_resp_rx'[m] = sync_resp_rx[m]
<1>1. Idle \in Attempts /\ <<>> \in Seq(Answers)
  BY DEF Idle, Attempts
<1> QED
  BY <1>1, Zenon DEF ForgetSync, Update, StartInv, StartTypes

LEMMA ExitOK ==
  ASSUME StartInv, NEW n \in Node, Exit(n)
  PROVE  StartInv'
<1> USE DEF Update
<1>1. chain' = chain /\ Grows
  BY SameChain, Zenon DEF Exit
<1>2. /\ todo' \in [Node -> SUBSET Node] /\ attempt' \in [Node -> Attempts]
      /\ \A r \in requests' : r.from \in Node /\ r.to \in Node
      /\ sync_resp_rx' \in [Node -> Seq(Answers)] /\ sync_resp_rx'[n] = <<>>
      /\ \A m \in Node \ {n} : sync_resp_rx'[m] = sync_resp_rx[m]
  BY ForgetSyncTypes, Zenon DEF Exit
<1>3. Genesis \in ConsensusStatus /\ <<>> \in Seq(Nat)
  BY DEF Genesis, ConsensusStatus
<1>4. StartTypes'
  BY <1>2, <1>3, Zenon DEF Exit, StartInv, StartTypes, disk
<1>5. OnlyAt(n)
  BY <1>2, Zenon DEF Exit, OnlyAt, disk, StartInv, StartTypes
<1>6. phase'[n] = "down" /\ UNCHANGED <<chain, pcs, store>>
  BY Zenon DEF Exit, disk, StartInv, StartTypes
<1>7. DiskOK(n)' /\ AnswersOK(n)'
  BY <1>2, <1>6 DEF StartInv, NodeOK, DiskOK, AnswersOK
<1>8. StartingOK(n)' /\ RunningOK(n)' /\ ExecutedOK(n)'
  BY <1>6, Zenon DEF StartingOK, RunningOK, ExecutedOK, Starting
<1> QED
  BY <1>1, <1>4, <1>5, <1>7, <1>8, StepAt, Zenon DEF NodeOK

-----------------------------------------------------------------------------
(* Waiting and beginning to sync                                           *)

LEMMA PeerConnectedOK ==
  ASSUME StartInv, NEW n \in Node, PeerConnected(n)
  PROVE  StartInv'
<1> USE DEF Update
<1>1. chain' = chain /\ Grows
  BY SameChain, Zenon DEF PeerConnected
<1>2. StartTypes'
  BY StartAssumption, Zenon DEF PeerConnected, StartInv, StartTypes, disk, memory
<1>3. OnlyAt(n)
  BY Zenon DEF PeerConnected, OnlyAt, disk, memory, StartInv, StartTypes
<1>4. /\ phase[n] = "waiting" /\ phase'[n] = "syncing"
      /\ UNCHANGED <<chain, disk, memory, sync_resp_rx>>
  BY Zenon DEF PeerConnected, StartInv, StartTypes
<1>5. DiskOK(n)' /\ AnswersOK(n)' /\ StartingOK(n)' /\ RunningOK(n)'
  BY <1>4, Zenon DEF StartInv, NodeOK, DiskOK, AnswersOK, StartingOK, RunningOK, Starting, disk, memory
<1>6. ExecutedOK(n)'
  BY <1>4, Zenon DEF StartInv, NodeOK, ExecutedOK, Restored, Reached, memory
<1> QED
  BY <1>1, <1>2, <1>3, <1>5, <1>6, StepAt, Zenon DEF NodeOK

LEMMA WaitTimeoutOK ==
  ASSUME StartInv, NEW n \in Node, WaitTimeout(n)
  PROVE  StartInv'
<1> USE DEF Update
<1>1. chain' = chain /\ Grows
  BY SameChain, Zenon DEF WaitTimeout
<1>2. StartTypes'
  BY Zenon DEF WaitTimeout, StartInv, StartTypes, disk, memory, syncing
<1>3. OnlyAt(n)
  BY Zenon DEF WaitTimeout, OnlyAt, disk, memory, syncing, StartInv, StartTypes
<1>4. /\ phase[n] = "waiting" /\ phase'[n] = "running"
      /\ UNCHANGED <<chain, disk, memory, sync_resp_rx>>
  BY Zenon DEF WaitTimeout, StartInv, StartTypes, syncing
<1>5. /\ current_view[n] = pcs[n].view /\ last_committed_height[n] = pcs[n].height
      /\ engine_state_height[n] = pcs[n].height
  BY <1>4, Zenon DEF StartInv, NodeOK, StartingOK, Starting
<1>6. DiskOK(n)' /\ AnswersOK(n)' /\ StartingOK(n)'
  BY <1>4, Zenon DEF StartInv, NodeOK, DiskOK, AnswersOK, StartingOK, Starting, disk, memory
<1>7. RunningOK(n)'
  <2>1. pcs[n].view \in Nat
    BY Zenon DEF StartInv, StartTypes, ConsensusStatus
  <2> QED
    BY <1>4, <1>5, <2>1, SMTT(30) DEF StartInv, NodeOK, DiskOK, RunningOK, disk, memory
<1>8. ExecutedOK(n)'
  BY <1>4, <1>5, Zenon DEF StartInv, NodeOK, ExecutedOK, Restored, Reached, memory
<1> QED
  BY <1>1, <1>2, <1>3, <1>6, <1>7, <1>8, StepAt, Zenon DEF NodeOK

LEMMA BeginAttemptOK ==
  ASSUME StartInv, NEW n \in Node, BeginAttempt(n)
  PROVE  StartInv'
<1> USE DEF Update
<1>1. chain' = chain /\ Grows
  BY SameChain, Zenon DEF BeginAttempt
<1>2. PICK p \in todo[n] :
        /\ todo' = Update(todo, n, todo[n] \ {p})
        /\ attempt' = Update(attempt, n, [peer |-> {p}, expects |-> "status", target |-> 0])
        /\ requests' = requests \cup {Request(n, p, "status", 0, 0)}
  BY Zenon DEF BeginAttempt, Remaining
<1>3. p \in Node
  BY Zenon DEF StartInv, StartTypes
<1>4. engine_state_height' = engine_state_height
  BY Zenon DEF BeginAttempt, AttemptHeight, StartInv, StartTypes
<1>5. sync_resp_rx' = [sync_resp_rx EXCEPT ![n] = <<>>] /\ <<>> \in Seq(Answers)
  BY DEF BeginAttempt
<1>6. /\ phase[n] = "syncing"
      /\ UNCHANGED <<chain, phase, disk, current_view, last_committed_height, sync_status,
                     executed>>
  BY Zenon DEF BeginAttempt
<1>7. StartTypes'
  <2>1. attempt' \in [Node -> Attempts] /\ todo' \in [Node -> SUBSET Node]
    BY <1>2, <1>3, Zenon DEF StartInv, StartTypes, Attempts
  <2>2. \A r \in requests' : r.from \in Node /\ r.to \in Node
    BY <1>2, <1>3, SMTT(30) DEF StartInv, StartTypes, Request
  <2>3. sync_resp_rx' \in [Node -> Seq(Answers)]
    BY <1>5, Zenon DEF StartInv, StartTypes
  <2> QED
    BY <1>4, <1>6, <2>1, <2>2, <2>3, Zenon DEF StartInv, StartTypes, disk
<1>8. OnlyAt(n)
  BY <1>4, <1>5, <1>6, Zenon DEF OnlyAt, disk, StartInv, StartTypes
<1>9. sync_resp_rx'[n] = <<>>
  BY <1>5, Zenon DEF StartInv, StartTypes
<1>10. DiskOK(n)' /\ AnswersOK(n)' /\ StartingOK(n)' /\ RunningOK(n)'
  BY SMTT(30), <1>4, <1>6, <1>9
  DEF StartInv, NodeOK, DiskOK, AnswersOK, StartingOK, RunningOK, Starting, disk
<1>11. ExecutedOK(n)'
  BY <1>4, <1>6, Zenon DEF StartInv, NodeOK, ExecutedOK, Restored, Reached
<1> QED
  BY <1>1, <1>7, <1>8, <1>10, <1>11, StepAt, Zenon DEF NodeOK

LEMMA RespondOK ==
  ASSUME StartInv, NEW r \in requests, Respond(r)
  PROVE  StartInv'
<1> DEFINE n == r.from
<1>1. chain' = chain /\ Grows
  BY SameChain, Zenon DEF Respond
<1>2. n \in Node /\ r.to \in Node
  BY Zenon DEF StartInv, StartTypes
<1>3. Answer(r) \in Answers /\ Answer(r).blocks \subseteq 1..Len(chain)
  <2>1. store[r.to] \subseteq 1..Len(chain) /\ store[r.to] \in SUBSET Nat
    BY <1>2, Zenon DEF StartInv, StartTypes, NodeOK, DiskOK
  <2>2. sync_status[r.to].height \in Nat
    BY <1>2, Zenon DEF StartInv, StartTypes, ConsensusStatus
  <2> QED
    BY <2>1, <2>2, Zenon DEF Answer, Answers
<1>4. /\ sync_resp_rx' = [sync_resp_rx EXCEPT ![n] = Append(sync_resp_rx[n], Answer(r))]
      /\ requests' \subseteq requests
      /\ UNCHANGED <<chain, phase, disk, memory, todo, attempt>>
  BY Zenon DEF Respond, Update
<1>5. sync_resp_rx[n] \in Seq(Answers)
  BY <1>2, Zenon DEF StartInv, StartTypes
<1>6. /\ Append(sync_resp_rx[n], Answer(r)) \in Seq(Answers)
      /\ \A i \in DOMAIN Append(sync_resp_rx[n], Answer(r)) :
           Append(sync_resp_rx[n], Answer(r))[i].blocks \subseteq 1..Len(chain)
  <2> DEFINE a == Answer(r)
             q == sync_resp_rx[n]
  <2>1. \A i \in DOMAIN q : q[i].blocks \subseteq 1..Len(chain)
    BY <1>2, Zenon DEF StartInv, NodeOK, AnswersOK
  <2>2. a \in Answers /\ a.blocks \subseteq 1..Len(chain) /\ q \in Seq(Answers)
    BY <1>3, <1>5, Zenon
  <2> HIDE DEF a, q
  <2>3. Append(q, a) \in Seq(Answers) /\ DOMAIN Append(q, a) = 1..(Len(q) + 1)
    BY <2>2
  <2>4. \A i \in 1..(Len(q) + 1) : Append(q, a)[i] = IF i = Len(q) + 1 THEN a ELSE q[i]
    BY <2>2
  <2>5. \A i \in 1..(Len(q) + 1) : i = Len(q) + 1 \/ i \in DOMAIN q
    BY <2>2
  <2>6. \A i \in DOMAIN Append(q, a) : Append(q, a)[i].blocks \subseteq 1..Len(chain)
    BY <2>1, <2>2, <2>3, <2>4, <2>5, Zenon
  <2> QED
    BY <2>3, <2>6, Zenon DEF a, q
<1>7. StartTypes'
  BY <1>2, <1>4, <1>6, Zenon DEF StartInv, StartTypes, disk, memory
<1>8. OnlyAt(n)
  BY <1>4, Zenon DEF OnlyAt, disk, memory, StartInv, StartTypes
<1>9. AnswersOK(n)'
  <2>1. sync_resp_rx'[n] = Append(sync_resp_rx[n], Answer(r))
    BY <1>2, <1>4, Zenon DEF StartInv, StartTypes
  <2> QED
    BY <1>1, <1>6, <2>1, Zenon DEF AnswersOK
<1>10. DiskOK(n)' /\ StartingOK(n)' /\ RunningOK(n)'
  BY <1>2, <1>4, Zenon DEF StartInv, NodeOK, DiskOK, StartingOK, RunningOK, disk, memory
<1>11. ExecutedOK(n)'
  BY <1>2, <1>4, Zenon DEF StartInv, NodeOK, ExecutedOK, Restored, Reached, memory
<1> QED
  BY <1>1, <1>2, <1>7, <1>8, <1>9, <1>10, <1>11, StepAt, Zenon DEF NodeOK

-----------------------------------------------------------------------------
(* sync_to_tip and its end                                                 *)

\* The view after sync is neither below the restored one nor below the
\* tip's: a tip that is not stored is the restored one.
LEMMA StartViewOK ==
  ASSUME StartInv, NEW n \in Node, phase[n] = "syncing",
         NEW h \in Nat, NEW stored \in SUBSET (1..Len(chain)),
         h \in stored \cup {pcs[n].height}
  PROVE  /\ StartView(n, h, stored) \in Nat
         /\ StartView(n, h, stored) >= pcs[n].view
         /\ h <= Len(chain)
         /\ h > 0 => StartView(n, h, stored) >= chain[h]
<1>1. /\ pcs[n].view \in Nat /\ pcs[n].height \in Nat /\ current_view[n] = pcs[n].view
      /\ pcs[n].height <= Len(chain) /\ Len(chain) \in Nat
      /\ pcs[n].height > 0 => pcs[n].view >= chain[pcs[n].height]
  BY SMTT(30) DEF StartInv, StartTypes, NodeOK, DiskOK, StartingOK, Starting, ConsensusStatus
<1>2. h <= Len(chain) /\ (h > 0 => chain[h] \in Nat)
  BY <1>1, SMTT(30) DEF StartInv, StartTypes
<1>3. CASE h \in stored
  <2> DEFINE c == chain[h]
             v == current_view[n]
  <2>1. h > 0
    BY <1>3, SMTT(30)
  <2>2. StartView(n, h, stored) = IF c > v THEN c + 1 ELSE v
    BY <1>3, <2>1, Zenon DEF StartView
  <2>3. c \in Nat /\ v \in Nat /\ pcs[n].view = v
    BY <1>1, <1>2, <2>1, Zenon
  <2> HIDE DEF c, v
  <2>4. /\ StartView(n, h, stored) \in Nat /\ StartView(n, h, stored) >= v
        /\ StartView(n, h, stored) >= c
    BY <2>2, <2>3, SMTT(30)
  <2> QED
    BY <1>2, <2>3, <2>4, Zenon DEF c
<1>4. CASE h \notin stored
  BY <1>1, <1>2, <1>4, SMTT(30) DEF StartView
<1> QED
  BY <1>3, <1>4, Zenon

\* Whatever way an answer or a failure is handled, with blocks up to height
\* h executed and stored, the node is as it should be.
LEMMA AfterSync ==
  ASSUME StartInv, NEW n \in Node, phase[n] = "syncing",
         NEW h \in Nat, NEW stored \in SUBSET (1..Len(chain)),
         h \in stored \cup {pcs[n].height},
         UNCHANGED <<chain, pcs, sync_status>>,
         store'[n] = stored, engine_state_height'[n] = h,
         Restored(n) <= h, executed'[n] = Heights(Restored(n), h - Restored(n)),
         AnswersOK(n)',
         \/ /\ phase'[n] = "syncing" /\ current_view'[n] = current_view[n]
            /\ last_committed_height'[n] = last_committed_height[n]
         \/ /\ phase'[n] = "running" /\ last_committed_height'[n] = h
            /\ current_view'[n] = StartView(n, h, stored)
  PROVE  NodeOK(n)'
<1>1. DiskOK(n)'
  BY Zenon DEF StartInv, NodeOK, DiskOK
<1>2. StartingOK(n)'
  BY Zenon DEF StartInv, NodeOK, StartingOK, Starting
<1>3. RunningOK(n)'
  BY StartViewOK, Zenon DEF RunningOK
<1>4. Restored(n)' = Restored(n) /\ Reached(n)' = h
  BY Zenon DEF Restored, Reached
<1>5. ExecutedOK(n)'
  BY <1>4, Zenon DEF ExecutedOK
<1> QED
  BY <1>1, <1>2, <1>3, <1>5, Zenon DEF NodeOK

\* The variables that the end of a sync changes.
ControlTypes ==
  /\ phase \in [Node -> {"down", "waiting", "syncing", "running"}]
  /\ current_view \in [Node -> Nat] /\ last_committed_height \in [Node -> Nat]
  /\ todo \in [Node -> SUBSET Node] /\ attempt \in [Node -> Attempts]
  /\ \A r \in requests : r.from \in Node /\ r.to \in Node
  /\ sync_resp_rx \in [Node -> Seq(Answers)]

ControlOnlyAt(n) ==
  \A m \in Node \ {n} :
    /\ phase'[m] = phase[m] /\ current_view'[m] = current_view[m]
    /\ last_committed_height'[m] = last_committed_height[m]
    /\ sync_resp_rx'[m] = sync_resp_rx[m]

LEMMA ApplySyncedControl ==
  ASSUME StartInv, NEW n \in Node, phase[n] = "syncing", chain' = chain,
         NEW h \in Nat, NEW stored \in SUBSET (1..Len(chain)),
         h \in stored \cup {pcs[n].height}, ApplySynced(n, h, stored)
  PROVE  /\ ControlTypes' /\ ControlOnlyAt(n) /\ AnswersOK(n)'
         /\ phase'[n] = "running" /\ last_committed_height'[n] = h
         /\ current_view'[n] = StartView(n, h, stored)
<1>1. StartView(n, h, stored) \in Nat
  BY StartViewOK, Zenon
<1>2. /\ todo' \in [Node -> SUBSET Node] /\ attempt' \in [Node -> Attempts]
      /\ \A r \in requests' : r.from \in Node /\ r.to \in Node
      /\ sync_resp_rx' \in [Node -> Seq(Answers)] /\ sync_resp_rx'[n] = <<>>
      /\ \A m \in Node \ {n} : sync_resp_rx'[m] = sync_resp_rx[m]
  BY ForgetSyncTypes, Zenon DEF ApplySynced
<1>3. /\ last_committed_height' = [last_committed_height EXCEPT ![n] = h]
      /\ current_view' = [current_view EXCEPT ![n] = StartView(n, h, stored)]
      /\ phase' = [phase EXCEPT ![n] = "running"]
  BY Zenon DEF ApplySynced, Update
<1>4. ControlTypes'
  BY <1>1, <1>2, <1>3, Zenon DEF ControlTypes, StartInv, StartTypes
<1>5. ControlOnlyAt(n)
  BY <1>2, <1>3, Zenon DEF ControlOnlyAt, StartInv, StartTypes
<1>6. AnswersOK(n)'
  BY <1>2 DEF AnswersOK
<1> QED
  BY <1>3, <1>4, <1>5, <1>6, Zenon DEF StartInv, StartTypes

LEMMA ContinueControl ==
  ASSUME StartInv, NEW n \in Node, Arrived(n), chain' = chain,
         NEW h \in Nat, NEW target \in Nat, NEW stored \in SUBSET (1..Len(chain)),
         h \in stored \cup {pcs[n].height}, ContinueFrom(n, h, target, stored)
  PROVE  /\ ControlTypes' /\ ControlOnlyAt(n) /\ AnswersOK(n)'
         /\ \/ /\ phase'[n] = "syncing" /\ current_view'[n] = current_view[n]
               /\ last_committed_height'[n] = last_committed_height[n]
            \/ /\ phase'[n] = "running" /\ last_committed_height'[n] = h
               /\ current_view'[n] = StartView(n, h, stored)
<1>1. phase[n] = "syncing" /\ sync_resp_rx[n] # <<>>
  BY Zenon DEF Arrived
<1>2. CASE ApplySynced(n, h, stored)
  BY <1>1, <1>2, ApplySyncedControl, Zenon
<1>3. CASE /\ attempt' = Update(attempt, n, [attempt[n] EXCEPT !.expects = "blocks",
                                                             !.target = target])
           /\ requests' = requests \cup {Request(n, p, "blocks", h + 1, target) :
                                          p \in attempt[n].peer}
           /\ sync_resp_rx' = Update(sync_resp_rx, n, Tail(sync_resp_rx[n]))
           /\ UNCHANGED <<phase, todo, last_committed_height, current_view>>
  <2>1. attempt[n] \in Attempts /\ attempt[n].peer \subseteq Node
    BY Zenon DEF StartInv, StartTypes, Attempts
  <2>2. [attempt[n] EXCEPT !.expects = "blocks", !.target = target] \in Attempts
    BY <2>1, Zenon DEF Attempts
  <2>3. attempt' \in [Node -> Attempts]
    BY <1>3, <2>2, Zenon DEF Update, StartInv, StartTypes
  <2>4. \A r \in requests' : r.from \in Node /\ r.to \in Node
    BY <1>3, <2>1 DEF Request, StartInv, StartTypes
  <2>5. /\ Tail(sync_resp_rx[n]) \in Seq(Answers)
        /\ \A i \in DOMAIN Tail(sync_resp_rx[n]) :
             Tail(sync_resp_rx[n])[i].blocks \subseteq 1..Len(chain)
    <3> DEFINE q == sync_resp_rx[n]
    <3>1. q \in Seq(Answers) /\ q # <<>>
      BY <1>1, Zenon DEF StartInv, StartTypes
    <3>2. \A i \in DOMAIN q : q[i].blocks \subseteq 1..Len(chain)
      BY Zenon DEF StartInv, NodeOK, AnswersOK
    <3> HIDE DEF q
    <3>3. Tail(q) \in Seq(Answers) /\ \A i \in DOMAIN Tail(q) : i + 1 \in DOMAIN q /\ Tail(q)[i] = q[i + 1]
      BY <3>1
    <3>4. \A i \in DOMAIN Tail(q) : Tail(q)[i].blocks \subseteq 1..Len(chain)
      BY <3>2, <3>3, Zenon
    <3> QED
      BY <3>3, <3>4, Zenon DEF q
  <2>6. sync_resp_rx' = [sync_resp_rx EXCEPT ![n] = Tail(sync_resp_rx[n])]
    BY <1>3, Zenon DEF Update
  <2>7. ControlTypes'
    <3>1. sync_resp_rx' \in [Node -> Seq(Answers)]
      BY <2>5, <2>6, Zenon DEF StartInv, StartTypes
    <3> QED
      BY <1>3, <2>3, <2>4, <3>1, Zenon DEF ControlTypes, StartInv, StartTypes
  <2>8. ControlOnlyAt(n)
    BY <1>3, <2>6, Zenon DEF ControlOnlyAt, StartInv, StartTypes
  <2>9. AnswersOK(n)'
    <3>1. sync_resp_rx'[n] = Tail(sync_resp_rx[n])
      BY <2>6, Zenon DEF StartInv, StartTypes
    <3> QED
      BY <2>5, <3>1, Zenon DEF AnswersOK
  <2> QED
    BY <1>1, <1>3, <2>7, <2>8, <2>9, Zenon
<1> QED
  BY <1>2, <1>3, Zenon DEF ContinueFrom

\* What sync starts from, in a node that syncs.
LEMMA WhileSyncing ==
  ASSUME StartInv, NEW n \in Node, phase[n] = "syncing"
  PROVE  /\ engine_state_height[n] \in Nat /\ store[n] \in SUBSET (1..Len(chain))
         /\ engine_state_height[n] \in store[n] \cup {pcs[n].height}
         /\ Restored(n) \in Nat /\ Restored(n) <= engine_state_height[n]
         /\ executed[n] = Heights(Restored(n), engine_state_height[n] - Restored(n))
<1>1. /\ engine_state_height[n] \in Nat /\ store[n] \in SUBSET (1..Len(chain))
      /\ engine_state_height[n] \in store[n] \cup {pcs[n].height}
      /\ Restored(n) \in Nat
  BY Zenon DEF StartInv, StartTypes, NodeOK, DiskOK, StartingOK, Starting, Restored, ConsensusStatus
<1>2. Reached(n) = engine_state_height[n]
  BY Zenon DEF Reached
<1> QED
  BY <1>1, <1>2, Zenon DEF StartInv, NodeOK, ExecutedOK

LEMMA HandleStatusOK ==
  ASSUME StartInv, NEW n \in Node, HandleStatus(n)
  PROVE  StartInv'
<1> DEFINE h == engine_state_height[n]
           target == Head(sync_resp_rx[n]).height
<1>1. /\ Arrived(n) /\ phase[n] = "syncing" /\ sync_resp_rx[n] # <<>>
      /\ ContinueFrom(n, h, target, store[n])
      /\ UNCHANGED <<chain, pcs, store, engine_state_height, sync_status, executed>>
  BY Zenon DEF HandleStatus, Arrived, disk
<1>2. target \in Nat
  <2>1. Head(sync_resp_rx[n]) \in Answers
    BY <1>1, SMTT(30) DEF StartInv, StartTypes
  <2> QED
    BY <2>1, Zenon DEF Answers
<1>3. /\ h \in Nat /\ store[n] \in SUBSET (1..Len(chain)) /\ h \in store[n] \cup {pcs[n].height}
      /\ Restored(n) <= h /\ executed[n] = Heights(Restored(n), h - Restored(n))
  BY <1>1, WhileSyncing, Zenon
<1> HIDE DEF h, target
<1>4. /\ ControlTypes' /\ ControlOnlyAt(n) /\ AnswersOK(n)'
      /\ \/ /\ phase'[n] = "syncing" /\ current_view'[n] = current_view[n]
            /\ last_committed_height'[n] = last_committed_height[n]
         \/ /\ phase'[n] = "running" /\ last_committed_height'[n] = h
            /\ current_view'[n] = StartView(n, h, store[n])
  BY <1>1, <1>2, <1>3, ContinueControl, ZenonT(40)
<1>5. store'[n] = store[n] /\ engine_state_height'[n] = h /\ executed'[n] = executed[n]
  BY <1>1, Zenon DEF h
<1>6. NodeOK(n)'
  BY <1>1, <1>3, <1>4, <1>5, AfterSync, Zenon
<1>7. StartTypes'
  BY <1>1, <1>4, Zenon DEF ControlTypes, StartInv, StartTypes
<1>8. OnlyAt(n)
  BY <1>1, <1>4, ZenonT(40) DEF ControlOnlyAt, OnlyAt
<1> QED
  BY <1>1, <1>6, <1>7, <1>8, SameChain, StepAt, Zenon

LEMMA HandleBlocksOK ==
  ASSUME StartInv, NEW n \in Node, HandleBlocks(n)
  PROVE  StartInv'
<1> DEFINE h == engine_state_height[n]
           blocks == Head(sync_resp_rx[n]).blocks
           tip == Max(blocks)
           stored == store[n] \cup ((h + 1)..tip)
           target == attempt[n].target
<1>1. /\ Arrived(n) /\ phase[n] = "syncing" /\ sync_resp_rx[n] # <<>> /\ h + 1 \in blocks
      /\ executed' = [executed EXCEPT ![n] = executed[n] \o [i \in 1..(tip - h) |-> h + i]]
      /\ engine_state_height' = [engine_state_height EXCEPT ![n] = tip]
      /\ store' = [store EXCEPT ![n] = stored]
      /\ ContinueFrom(n, tip, target, stored)
      /\ UNCHANGED <<chain, pcs, sync_status>>
  BY Zenon DEF HandleBlocks, Arrived, Fits, Update
<1>2. target \in Nat /\ Len(chain) \in Nat
  BY SMTT(30) DEF StartInv, StartTypes, Attempts
<1>3. /\ h \in Nat /\ store[n] \in SUBSET (1..Len(chain)) /\ Restored(n) \in Nat
      /\ Restored(n) <= h /\ executed[n] = Heights(Restored(n), h - Restored(n))
  BY <1>1, WhileSyncing, Zenon
<1>4. blocks \in SUBSET (1..Len(chain)) /\ tip \in blocks /\ tip >= h + 1
  <2>1. blocks \subseteq 1..Len(chain)
    <3>1. sync_resp_rx[n] \in Seq(Answers) /\ 1 \in DOMAIN sync_resp_rx[n]
          /\ Head(sync_resp_rx[n]) = sync_resp_rx[n][1]
      <4>1. sync_resp_rx[n] \in Seq(Answers) /\ sync_resp_rx[n] # <<>>
        BY <1>1, Zenon DEF StartInv, StartTypes
      <4>2. \A s \in Seq(Answers) : s # <<>> => 1 \in DOMAIN s /\ Head(s) = s[1]
        OBVIOUS
      <4> QED
        BY <4>1, <4>2, Zenon
    <3> QED
      BY <3>1, Zenon DEF StartInv, NodeOK, AnswersOK
  <2>2. IsFiniteSet(blocks) /\ blocks \in SUBSET Nat /\ blocks # {}
    <3>1. IsFiniteSet(1..Len(chain))
      BY <1>2, FS_Interval, SMTT(30)
    <3>2. blocks # {}
      BY <1>1, Zenon
    <3> HIDE DEF blocks
    <3>3. IsFiniteSet(blocks)
      BY <2>1, <3>1, FS_Subset, Zenon
    <3> QED
      BY <1>2, <2>1, <3>2, <3>3
  <2> HIDE DEF blocks
  <2> QED
    BY <1>1, <2>1, <2>2, MaxOfFinite, Zenon
<1> HIDE DEF h, blocks, tip, target
<1>5. /\ tip \in Nat /\ stored \in SUBSET (1..Len(chain)) /\ tip \in stored \cup {pcs[n].height}
      /\ Restored(n) <= tip
  BY <1>2, <1>3, <1>4
<1>6. /\ store'[n] = stored /\ engine_state_height'[n] = tip
      /\ executed'[n] = executed[n] \o [i \in 1..(tip - h) |-> h + i]
  BY <1>1, Zenon DEF StartInv, StartTypes
<1>7. executed'[n] = Heights(Restored(n), tip - Restored(n))
  <2> DEFINE r == Restored(n)
             k == h - r
             m == tip - h
  <2>1. /\ r \in Nat /\ k \in Nat /\ m \in Nat /\ r + k = h /\ k + m = tip - r
        /\ executed[n] = Heights(r, k)
    BY <1>3, <1>4, <1>5
  <2>2. executed'[n] = Heights(r, k) \o [i \in 1..m |-> r + k + i]
    BY <1>6, <2>1, Zenon
  <2> HIDE DEF r, k, m
  <2>3. executed'[n] = Heights(r, k + m)
    BY <2>1, <2>2, HeightsGrow, ZenonT(40)
  <2> QED
    BY <2>1, <2>3, Zenon DEF r
<1> HIDE DEF stored
<1>8. /\ ControlTypes' /\ ControlOnlyAt(n) /\ AnswersOK(n)'
      /\ \/ /\ phase'[n] = "syncing" /\ current_view'[n] = current_view[n]
            /\ last_committed_height'[n] = last_committed_height[n]
         \/ /\ phase'[n] = "running" /\ last_committed_height'[n] = tip
            /\ current_view'[n] = StartView(n, tip, stored)
  BY <1>1, <1>2, <1>5, ContinueControl, Zenon
<1>9. NodeOK(n)'
  BY <1>1, <1>5, <1>6, <1>7, <1>8, AfterSync, Zenon
<1>10. StartTypes'
  <2>1. executed' \in [Node -> Seq(Nat)]
    <3>1. Heights(Restored(n), tip - Restored(n)) \in Seq(Nat)
      BY <1>3, <1>5, SMTT(30) DEF Heights
    <3>2. executed'[n] \in Seq(Nat)
      BY <1>7, <3>1, Zenon
    <3>3. executed \in [Node -> Seq(Nat)]
      BY Zenon DEF StartInv, StartTypes
    <3> QED
      BY <1>1, <1>6, <3>2, <3>3, Zenon
  <2>2. store' \in [Node -> SUBSET Nat] /\ engine_state_height' \in [Node -> Nat]
    <3>1. store \in [Node -> SUBSET Nat] /\ engine_state_height \in [Node -> Nat]
      BY Zenon DEF StartInv, StartTypes
    <3>2. stored \in SUBSET Nat /\ tip \in Nat
      BY <1>2, <1>5, SMTT(30)
    <3> HIDE DEF tip
    <3> QED
      BY <1>1, <3>1, <3>2, Zenon
  <2> QED
    BY <1>1, <1>8, <2>1, <2>2, Zenon DEF ControlTypes, StartInv, StartTypes
<1>11. OnlyAt(n)
  BY <1>1, <1>8, Zenon DEF ControlOnlyAt, OnlyAt, StartInv, StartTypes
<1> QED
  BY <1>1, <1>9, <1>10, <1>11, SameChain, StepAt, ZenonT(40)

LEMMA SyncFailsOK ==
  ASSUME StartInv, NEW n \in Node, SyncFails(n)
  PROVE  StartInv'
<1> DEFINE h == engine_state_height[n]
<1>1. /\ phase[n] = "syncing"
      /\ UNCHANGED <<chain, pcs, store, engine_state_height, sync_status, executed>>
  BY Zenon DEF SyncFails, disk
<1>2. /\ h \in Nat /\ store[n] \in SUBSET (1..Len(chain)) /\ h \in store[n] \cup {pcs[n].height}
      /\ Restored(n) <= h /\ executed[n] = Heights(Restored(n), h - Restored(n))
  BY <1>1, WhileSyncing, Zenon
<1>3. /\ ControlTypes' /\ ControlOnlyAt(n) /\ AnswersOK(n)'
      /\ \/ /\ phase'[n] = "syncing" /\ current_view'[n] = current_view[n]
            /\ last_committed_height'[n] = last_committed_height[n]
         \/ /\ phase'[n] = "running" /\ last_committed_height'[n] = h
            /\ current_view'[n] = StartView(n, h, store[n])
  <2>1. CASE ApplySynced(n, h, store[n])
    <3> HIDE DEF h
    <3>1. h \in Nat /\ store[n] \in SUBSET (1..Len(chain)) /\ h \in store[n] \cup {pcs[n].height}
      BY <1>2, Zenon
    <3>2. phase[n] = "syncing" /\ chain' = chain
      BY <1>1, Zenon
    <3>3. /\ ControlTypes' /\ ControlOnlyAt(n) /\ AnswersOK(n)'
          /\ phase'[n] = "running" /\ last_committed_height'[n] = h
          /\ current_view'[n] = StartView(n, h, store[n])
      BY <2>1, <3>1, <3>2, ApplySyncedControl, Zenon
    <3> QED
      BY <3>3, Zenon
  <2>2. CASE /\ attempt' = Update(attempt, n, Idle)
             /\ UNCHANGED <<phase, last_committed_height, current_view, todo, requests,
                            sync_resp_rx>>
    <3>1. Idle \in Attempts
      BY Zenon DEF Idle, Attempts
    <3>2. attempt' \in [Node -> Attempts]
      BY <2>2, <3>1, Zenon DEF Update, StartInv, StartTypes
    <3>3. ControlTypes' /\ ControlOnlyAt(n)
      BY <2>2, <3>2, Zenon DEF ControlTypes, ControlOnlyAt, StartInv, StartTypes
    <3>4. AnswersOK(n)'
      BY <1>1, <2>2, ZenonT(40) DEF StartInv, NodeOK, AnswersOK
    <3> QED
      BY <1>1, <2>2, <3>3, <3>4, Zenon
  <2> QED
    BY <2>1, <2>2, Zenon DEF SyncFails
<1>4. NodeOK(n)'
  BY <1>1, <1>2, <1>3, AfterSync, Zenon
<1>5. StartTypes'
  BY <1>1, <1>3, Zenon DEF ControlTypes, StartInv, StartTypes
<1>6. OnlyAt(n)
  BY <1>1, <1>3, ZenonT(40) DEF ControlOnlyAt, OnlyAt
<1> QED
  BY <1>1, <1>4, <1>5, <1>6, SameChain, StepAt, Zenon

-----------------------------------------------------------------------------
(* The engine                                                              *)

LEMMA CommitOK ==
  ASSUME StartInv, NEW n \in Node, phase[n] = "running", Grows,
         NEW view \in Nat, Commit(n, view),
         last_committed_height[n] < Len(chain'),
         chain'[last_committed_height[n] + 1] <= view
  PROVE  StartInv'
<1> DEFINE h == last_committed_height[n] + 1
           v == Max({current_view[n], view})
<1>1. /\ last_committed_height[n] \in Nat /\ h \in Nat \ {0} /\ current_view[n] \in Nat
      /\ Len(chain) \in Nat /\ Len(chain') \in Nat /\ h <= Len(chain') /\ chain'[h] \in Nat
      /\ Restored(n) \in Nat
  <2>1. sync_status[n] \in ConsensusStatus /\ Restored(n) \in Nat
    BY Zenon DEF StartInv, StartTypes, Restored, ConsensusStatus
  <2>2. last_committed_height[n] \in Nat /\ current_view[n] \in Nat /\ chain \in Seq(Nat)
    BY Zenon DEF StartInv, StartTypes
  <2>3. chain' \in Seq(Nat)
    BY Zenon DEF Grows
  <2>4. \A s \in Seq(Nat), i \in Nat : i < Len(s) => i + 1 <= Len(s) /\ s[i + 1] \in Nat
    OBVIOUS
  <2>5. h <= Len(chain') /\ chain'[h] \in Nat
    BY <2>2, <2>3, <2>4, Zenon
  <2>6. Len(chain) \in Nat /\ Len(chain') \in Nat
    BY <2>2, <2>3, SMTT(30)
  <2> QED
    BY <2>1, <2>2, <2>5, <2>6, SMTT(30)
<1>2. v \in Nat /\ v >= current_view[n] /\ v >= view
  <2>1. {current_view[n], view} \in SUBSET Nat /\ {current_view[n], view} # {}
    BY <1>1, Zenon
  <2>2. IsFiniteSet({current_view[n], view})
    <3>1. IsFiniteSet({current_view[n]})
      BY FS_Singleton, Zenon
    <3>2. IsFiniteSet({current_view[n]} \cup {view})
      BY <3>1, FS_AddElement, ZenonT(40)
    <3>3. {current_view[n]} \cup {view} = {current_view[n], view}
      BY Zenon
    <3> QED
      BY <3>2, <3>3, Zenon
  <2> QED
    BY <2>1, <2>2, MaxOfFinite, Zenon
<1>3. /\ store' = [store EXCEPT ![n] = store[n] \cup {h}]
      /\ executed' = [executed EXCEPT ![n] = Append(executed[n], h)]
      /\ last_committed_height' = [last_committed_height EXCEPT ![n] = h]
      /\ current_view' = [current_view EXCEPT ![n] = v]
      /\ pcs' = [pcs EXCEPT ![n] = [view |-> v, height |-> h]]
      /\ UNCHANGED <<phase, engine_state_height, sync_status, todo, attempt, requests,
                     sync_resp_rx>>
  BY Zenon DEF Commit, Update, syncing
<1> HIDE DEF h, v
<1>4. /\ store'[n] = store[n] \cup {h} /\ executed'[n] = Append(executed[n], h)
      /\ last_committed_height'[n] = h /\ current_view'[n] = v
      /\ pcs'[n] = [view |-> v, height |-> h]
  BY <1>3, Zenon DEF StartInv, StartTypes
<1>5. executed'[n] = Heights(Restored(n), h - Restored(n)) /\ Restored(n) <= h
  <2> DEFINE r == Restored(n)
             k == last_committed_height[n] - r
  <2>1. Reached(n) = last_committed_height[n]
    BY Zenon DEF Reached
  <2>2. r <= last_committed_height[n] /\ executed[n] = Heights(r, k)
    BY <2>1, Zenon DEF StartInv, NodeOK, ExecutedOK
  <2>3. r \in Nat /\ k \in Nat /\ r + k + 1 = h /\ k + 1 = h - r
    <3> DEFINE l == last_committed_height[n]
    <3>1. r \in Nat /\ l \in Nat /\ r <= l /\ h = l + 1 /\ k = l - r
      BY <1>1, <2>2, Zenon DEF h
    <3> HIDE DEF r, k, l
    <3> QED
      BY <3>1, SMTT(30)
  <2>4. executed'[n] = Append(Heights(r, k), r + k + 1)
    BY <1>4, <2>2, <2>3, Zenon
  <2>5. r <= h
    BY <1>1, <2>2, SMTT(30) DEF h
  <2> HIDE DEF r, k
  <2>6. executed'[n] = Heights(r, k + 1)
    BY <2>3, <2>4, HeightsGrow, 0 \in Nat, Zenon
  <2> QED
    BY <2>3, <2>5, <2>6, Zenon DEF r
<1>6. StartTypes'
  <2>1. executed' \in [Node -> Seq(Nat)]
    <3>1. executed'[n] \in Seq(Nat)
      <4>1. h - Restored(n) \in Nat
        BY <1>1, <1>5, SMTT(30)
      <4>2. Heights(Restored(n), h - Restored(n)) \in Seq(Nat)
        BY <1>1, <4>1, HeightsType, Zenon
      <4> QED
        BY <1>5, <4>2, Zenon
    <3> QED
      BY <1>3, <1>4, <3>1, Zenon DEF StartInv, StartTypes
  <2>2. pcs' \in [Node -> ConsensusStatus]
    BY <1>1, <1>2, <1>3, Zenon DEF StartInv, StartTypes, ConsensusStatus
  <2>3. store' \in [Node -> SUBSET Nat]
    BY <1>1, <1>3, Zenon DEF StartInv, StartTypes
  <2>4. current_view' \in [Node -> Nat] /\ last_committed_height' \in [Node -> Nat]
    BY <1>1, <1>2, <1>3, Zenon DEF StartInv, StartTypes
  <2>5. chain' \in Seq(Nat)
    BY Zenon DEF Grows
  <2> QED
    BY <1>3, <2>1, <2>2, <2>3, <2>4, <2>5, Zenon DEF StartInv, StartTypes
<1>7. OnlyAt(n)
  BY <1>3, Zenon DEF OnlyAt, StartInv, StartTypes
<1>8. chain'[h] <= v
  BY <1>1, <1>2, SMTT(30) DEF h
<1>9. DiskOK(n)'
  <2>1. store[n] \subseteq 1..Len(chain) /\ Len(chain) <= Len(chain')
    BY Zenon DEF StartInv, NodeOK, DiskOK, Grows
  <2>2. pcs'[n].height = h /\ pcs'[n].view = v
    <3> DEFINE p == pcs'[n]
    <3>1. p = [view |-> v, height |-> h]
      BY <1>4, Zenon
    <3> HIDE DEF p
    <3>2. p.height = h /\ p.view = v
      BY <3>1, Zenon
    <3> QED
      BY <3>2, Zenon DEF p
  <2>3. store'[n] \subseteq 1..Len(chain')
    <3>1. store'[n] = store[n] \cup {h}
      BY <1>4, Zenon
    <3>2. h \in 1..Len(chain') /\ 1..Len(chain) \subseteq 1..Len(chain')
      BY <1>1, <2>1
    <3> QED
      BY <2>1, <3>1, <3>2, Zenon
  <2>4. h <= Len(chain') /\ v >= chain'[h]
    <3> DEFINE c == chain'[h]
    <3>1. c \in Nat /\ c <= view /\ v >= view /\ h <= Len(chain') /\ v \in Nat
      BY <1>1, <1>2, Zenon DEF h
    <3> HIDE DEF c
    <3>2. v >= c /\ h <= Len(chain')
      BY <3>1
    <3> QED
      BY <3>2, Zenon DEF c
  <2> QED
    BY <2>2, <2>3, <2>4, Zenon DEF DiskOK
<1>10. RunningOK(n)' /\ StartingOK(n)'
  <2>1. phase'[n] = "running" /\ "running" \notin Starting
    BY <1>3, Zenon DEF Starting
  <2>2. current_view'[n] >= pcs'[n].view
    <3> DEFINE p == pcs'[n]
    <3>1. p = [view |-> v, height |-> h] /\ current_view'[n] = v
      BY <1>4, Zenon
    <3> HIDE DEF p
    <3>2. p.view = v
      BY <3>1, Zenon
    <3>3. v >= v
      BY <1>2
    <3> QED
      BY <3>1, <3>2, <3>3, Zenon DEF p
  <2>3. h <= Len(chain') /\ v >= chain'[h]
    BY <1>1, <1>2, <1>8, Zenon
  <2>4. StartingOK(n)'
    BY <2>1, Zenon DEF StartingOK
  <2>5. RunningOK(n)'
    BY <1>4, <2>2, <2>3, Zenon DEF RunningOK
  <2> QED
    BY <2>4, <2>5, Zenon
<1>11. AnswersOK(n)'
  <2>1. \A i \in DOMAIN sync_resp_rx[n] : sync_resp_rx[n][i].blocks \subseteq 1..Len(chain)
    BY Zenon DEF StartInv, NodeOK, AnswersOK
  <2>2. 1..Len(chain) \subseteq 1..Len(chain')
    BY <1>1 DEF Grows
  <2>3. sync_resp_rx' = sync_resp_rx
    BY <1>3, Zenon
  <2> QED
    BY <2>1, <2>2, <2>3, Zenon DEF AnswersOK
<1>12. ExecutedOK(n)'
  <2>1. Reached(n)' = h /\ Restored(n)' = Restored(n)
    BY <1>3, <1>4, Zenon DEF Reached, Restored
  <2> QED
    BY <1>5, <2>1, Zenon DEF ExecutedOK
<1> QED
  BY <1>6, <1>7, <1>9, <1>10, <1>11, <1>12, StepAt, Zenon DEF NodeOK

LEMMA CommitDecidedOK ==
  ASSUME StartInv, NEW n \in Node, CommitDecided(n)
  PROVE  StartInv'
<1>1. last_committed_height[n] \in Nat /\ chain \in Seq(Nat)
  BY Zenon DEF StartInv, StartTypes
<1>2. chain[last_committed_height[n] + 1] \in Nat
  BY <1>1 DEF CommitDecided
<1> QED
  BY <1>1, <1>2, SameChain, CommitOK, SMTT(30) DEF CommitDecided

LEMMA DecideOK ==
  ASSUME StartInv, NEW n \in Node, Decide(n)
  PROVE  StartInv'
<1>1. chain \in Seq(Nat) /\ current_view[n] \in Nat
  BY Zenon DEF StartInv, StartTypes
<1>2. /\ Grows /\ Len(chain') = Len(chain) + 1
      /\ chain'[Len(chain) + 1] = current_view[n]
  BY <1>1 DEF Decide, Grows
<1> QED
  BY <1>1, <1>2, CommitOK, SMTT(30) DEF Decide

LEMMA NextViewOK ==
  ASSUME StartInv, NEW n \in Node, NextView(n)
  PROVE  StartInv'
<1>1. /\ phase[n] = "running" /\ pcs[n].height \in Nat /\ pcs[n].view \in Nat
      /\ current_view[n] \in Nat /\ last_committed_height[n] \in Nat
  BY Zenon DEF NextView, StartInv, StartTypes, ConsensusStatus
<1>2. /\ current_view' = [current_view EXCEPT ![n] = current_view[n] + 1]
      /\ pcs' = [pcs EXCEPT ![n] = [pcs[n] EXCEPT !.view = current_view[n] + 1]]
      /\ UNCHANGED <<chain, phase, store, last_committed_height, engine_state_height,
                     sync_status, executed, todo, attempt, requests, sync_resp_rx>>
  BY Zenon DEF NextView, Update, syncing
<1>3. /\ current_view'[n] = current_view[n] + 1 /\ pcs'[n] \in ConsensusStatus
      /\ pcs'[n].view = current_view[n] + 1 /\ pcs'[n].height = pcs[n].height
  <2>1. pcs[n] \in ConsensusStatus
    BY Zenon DEF StartInv, StartTypes
  <2>2. /\ current_view'[n] = current_view[n] + 1
        /\ pcs'[n] = [pcs[n] EXCEPT !.view = current_view[n] + 1]
    BY <1>2, Zenon DEF StartInv, StartTypes
  <2> QED
    BY <1>1, <2>1, <2>2, SMTT(30) DEF ConsensusStatus
<1>4. StartTypes'
  BY <1>1, <1>2, <1>3 DEF StartInv, StartTypes
<1>5. OnlyAt(n)
  BY <1>2, Zenon DEF OnlyAt, StartInv, StartTypes
<1>6. DiskOK(n)' /\ RunningOK(n)'
  <2>1. /\ current_view[n] >= pcs[n].view /\ last_committed_height[n] <= Len(chain)
        /\ last_committed_height[n] > 0 => current_view[n] >= chain[last_committed_height[n]]
        /\ pcs[n].height <= Len(chain) /\ store[n] \subseteq 1..Len(chain)
        /\ pcs[n].height > 0 => pcs[n].view >= chain[pcs[n].height]
    BY <1>1, Zenon DEF StartInv, NodeOK, DiskOK, RunningOK
  <2>2. \A i \in Nat : i > 0 /\ i <= Len(chain) => chain[i] \in Nat
    BY DEF StartInv, StartTypes
  <2> QED
    BY <1>1, <1>2, <1>3, <2>1, <2>2, SMTT(30) DEF DiskOK, RunningOK
<1>7. StartingOK(n)' /\ AnswersOK(n)'
  BY <1>1, <1>2, Zenon DEF StartInv, NodeOK, StartingOK, AnswersOK, Starting
<1>8. ExecutedOK(n)'
  BY <1>2, Zenon DEF StartInv, NodeOK, ExecutedOK, Restored, Reached
<1> QED
  BY <1>2, <1>4, <1>5, <1>6, <1>7, <1>8, SameChain, StepAt, Zenon DEF NodeOK

-----------------------------------------------------------------------------
(* The theorems                                                            *)

LEMMA StartInvNext == StartInv /\ [Next]_vars => StartInv'
<1> SUFFICES ASSUME StartInv, [Next]_vars PROVE StartInv'
  BY Zenon
<1>1. ASSUME NEW n \in Node, StartUp(n) PROVE StartInv'
  BY Zenon, <1>1, WaitTimeoutOK, BeginAttemptOK, HandleStatusOK, HandleBlocksOK, SyncFailsOK
  DEF StartUp
<1>2. CASE UNCHANGED vars
  <2>1. StartTypes'
    BY <1>2, Zenon DEF StartInv, StartTypes, vars, disk, memory, syncing
  <2>2. Grows
    BY <1>2, SameChain, Zenon DEF vars
  <2>3. \A m \in Node : NodeOK(m)'
    BY <1>2, <2>2, OtherNode, Zenon DEF vars, disk, memory, syncing, Grows
  <2> QED
    BY <2>1, <2>3, Zenon DEF StartInv
<1> QED
  BY Zenon, <1>1, <1>2, StartOK, ExitOK, PeerConnectedOK, CommitDecidedOK, DecideOK, NextViewOK,
     RespondOK
  DEF Next

\* Whatever crashes, failed attempts and late answers precede it, a node
\* never runs in a view below the one it has persisted or below the view of
\* the last block it has (restore of the consensus state and choice of
\* current_view in run_node).
THEOREM StartViewIsSafe == Spec => []StartViewSafe
<1>1. StartInv => StartViewSafe
  BY Zenon DEF StartInv, NodeOK, RunningOK, StartViewSafe
<1> QED
  BY <1>1, StartInvInit, StartInvNext, PTL DEF Spec

\* From the restored height on, a node executes every block once and in
\* order, across peers that fail half-way, answers that belong to another
\* attempt, and the hand-over to the engine (the loop over sync_peers).
THEOREM SyncExecutesInOrder == Spec => []SyncedInOrder
<1>1. StartInv => SyncedInOrder
  BY Zenon DEF StartInv, NodeOK, ExecutedOK, SyncedInOrder, Heights
<1> QED
  BY <1>1, StartInvInit, StartInvNext, PTL DEF Spec

-----------------------------------------------------------------------------
(* The bounds of TypeOK                                                    *)

\* The chain is bounded.
ChainFits == Len(chain) <= MaxHeight /\ starts \in [Node -> Nat]

LEMMA ChainFitsNext ==
  ASSUME StartInv, ChainFits, [Next]_vars
  PROVE  ChainFits'
<1>0. chain \in Seq(Nat) /\ Len(chain) \in Nat /\ MaxHeight \in Nat
  BY StartAssumption, SMTT(30) DEF StartInv, StartTypes
<1>1. CASE \E n \in Node : Start(n)
  BY <1>1 DEF Start, Update, ChainFits
<1>2. CASE \E n \in Node : Decide(n)
  <2>1. PICK n \in Node : Decide(n)
    BY <1>2, Zenon
  <2>2. /\ Len(chain) < MaxHeight /\ starts' = starts
        /\ \E v : chain' = Append(chain, v)
    BY <2>1, Zenon DEF Decide, Commit
  <2>3. Len(chain') = Len(chain) + 1
    BY <1>0, <2>2
  <2> QED
    BY <1>0, <2>2, <2>3 DEF ChainFits
<1>3. CASE chain' = chain /\ starts' = starts
  BY <1>3, Zenon DEF ChainFits
<1> QED
  BY ZenonT(40), <1>1, <1>2, <1>3
  DEF Next, Exit, PeerConnected, StartUp, WaitTimeout, BeginAttempt, HandleStatus,
      HandleBlocks, SyncFails, CommitDecided, Commit, NextView, Respond, vars

\* What sync has reached is a height of the chain, and a node that is down
\* has executed nothing.
HeightsFit ==
  \A n \in Node :
    /\ engine_state_height[n] <= Len(chain)
    /\ phase[n] = "down" => last_committed_height[n] = 0 /\ executed[n] = <<>>

\* How a step changes the height that sync has reached, at node m.
LEMMA EngineHeightSteps ==
  ASSUME StartInv, StartInv', [Next]_vars, NEW m \in Node
  PROVE  \/ engine_state_height'[m] \in {0, engine_state_height[m], pcs[m].height}
         \/ engine_state_height'[m] <= Len(chain')
<1>0. /\ engine_state_height \in [Node -> Nat] /\ pcs \in [Node -> ConsensusStatus]
      /\ phase \in [Node -> {"down", "waiting", "syncing", "running"}]
      /\ last_committed_height \in [Node -> Nat]
  BY Zenon DEF StartInv, StartTypes
<1>1. CASE \E n \in Node : Start(n) \/ Exit(n) \/ BeginAttempt(n)
  <2>1. PICK n \in Node : Start(n) \/ Exit(n) \/ BeginAttempt(n)
    BY <1>1, Zenon
  <2>2. \E v \in {0, engine_state_height[n], pcs[n].height} :
          engine_state_height' = [engine_state_height EXCEPT ![n] = v]
    BY <2>1, Zenon DEF Start, Exit, BeginAttempt, AttemptHeight, Update
  <2> QED
    BY <1>0, <2>2, Zenon
<1>2. CASE \E n \in Node : HandleBlocks(n)
  <2>1. PICK n \in Node : HandleBlocks(n)
    BY <1>2, Zenon
  <2> DEFINE tip == Max(Head(sync_resp_rx[n]).blocks)
             stored == store[n] \cup ((engine_state_height[n] + 1)..tip)
  <2>2. /\ phase[n] = "syncing" /\ engine_state_height' = Update(engine_state_height, n, tip)
        /\ ContinueFrom(n, tip, attempt[n].target, stored)
    BY <2>1, Zenon DEF HandleBlocks, Arrived
  <2>3. \/ phase' = phase
        \/ /\ last_committed_height' = Update(last_committed_height, n, tip)
           /\ phase' = Update(phase, n, "running")
    BY <2>2, Zenon DEF ContinueFrom, ApplySynced
  <2> HIDE DEF tip, stored
  <2>4. m # n => engine_state_height'[m] = engine_state_height[m]
    BY <1>0, <2>2, Zenon DEF Update
  <2>5. ASSUME m = n, phase' = phase
        PROVE  engine_state_height'[m] <= Len(chain')
    BY <2>2, <2>5, SMTT(30) DEF StartInv, NodeOK, StartingOK, DiskOK, Starting
  <2>6. ASSUME m = n, last_committed_height' = Update(last_committed_height, n, tip),
               phase' = Update(phase, n, "running")
        PROVE  engine_state_height'[m] <= Len(chain')
    BY <1>0, <2>2, <2>6, Zenon DEF Update, StartInv, NodeOK, RunningOK
  <2> QED
    BY <2>3, <2>4, <2>5, <2>6, Zenon
<1>3. CASE engine_state_height' = engine_state_height
  BY <1>3, Zenon
<1> QED
  BY Zenon, <1>1, <1>2, <1>3
  DEF Next, PeerConnected, StartUp, WaitTimeout, HandleStatus, SyncFails, CommitDecided,
      Decide, Commit, NextView, Respond, vars, memory

\* Nothing but Start changes what a node that is down has executed.
LEMMA DownSteps ==
  ASSUME StartInv, [Next]_vars, NEW m \in Node, phase'[m] = "down"
  PROVE  \/ last_committed_height'[m] = 0 /\ executed'[m] = <<>>
         \/ /\ phase[m] = "down" /\ last_committed_height'[m] = last_committed_height[m]
            /\ executed'[m] = executed[m]
<1>0. /\ phase \in [Node -> {"down", "waiting", "syncing", "running"}]
      /\ last_committed_height \in [Node -> Nat] /\ executed \in [Node -> Seq(Nat)]
  BY Zenon DEF StartInv, StartTypes
<1> DEFINE Same == /\ phase'[m] = phase[m] /\ executed'[m] = executed[m]
                   /\ last_committed_height'[m] = last_committed_height[m]
<1> USE <1>0 DEF Update
<1>1. ASSUME NEW n \in Node, Start(n) PROVE Same
  BY <1>1, Zenon DEF Start
<1>2. CASE \E n \in Node : Exit(n)
  BY <1>2, Zenon DEF Exit
<1>3. ASSUME NEW n \in Node, PeerConnected(n) \/ WaitTimeout(n) \/ BeginAttempt(n)
      PROVE  Same
  BY <1>3, Zenon DEF PeerConnected, WaitTimeout, BeginAttempt, memory
<1>4. ASSUME NEW n \in Node, NEW h, NEW stored, ApplySynced(n, h, stored)
      PROVE  /\ m # n /\ phase'[m] = phase[m]
             /\ last_committed_height'[m] = last_committed_height[m]
  BY <1>4, Zenon DEF ApplySynced
<1>5. ASSUME NEW n \in Node, HandleStatus(n) \/ SyncFails(n) PROVE Same
  BY <1>4, <1>5, Zenon DEF HandleStatus, SyncFails, ContinueFrom
<1>6. ASSUME NEW n \in Node, HandleBlocks(n) PROVE Same
  <2>1. phase[n] = "syncing" /\ \E s : executed' = Update(executed, n, s)
    BY <1>6, ZenonT(40) DEF HandleBlocks, Arrived
  <2>2. \/ phase' = phase /\ last_committed_height' = last_committed_height
        \/ \E h, stored : ApplySynced(n, h, stored)
    BY <1>6, Zenon DEF HandleBlocks, ContinueFrom
  <2>3. m # n
    BY <1>4, <2>1, <2>2, Zenon
  <2> QED
    BY <1>4, <2>1, <2>2, <2>3, Zenon
<1>7. ASSUME NEW n \in Node, CommitDecided(n) \/ Decide(n) PROVE Same
  BY <1>7, Zenon DEF CommitDecided, Decide, Commit
<1>8. CASE UNCHANGED <<phase, last_committed_height, executed>>
  BY <1>8, Zenon
<1> QED
  BY Zenon, <1>1, <1>2, <1>3, <1>5, <1>6, <1>7, <1>8
  DEF Next, StartUp, NextView, Respond, vars, memory

\* The chain never loses a block.
LEMMA ChainGrows ==
  ASSUME StartInv, [Next]_vars
  PROVE  Len(chain) \in Nat /\ Len(chain') \in Nat /\ Len(chain) <= Len(chain')
<1>0. chain \in Seq(Nat)
  BY Zenon DEF StartInv, StartTypes
<1>1. CASE \E n \in Node : Decide(n)
  <2>1. \E v : chain' = Append(chain, v)
    BY <1>1, Zenon DEF Decide
  <2> QED
    BY <1>0, <2>1
<1>2. CASE chain' = chain
  BY <1>0, <1>2, SMTT(30)
<1> QED
  BY ZenonT(40), <1>1, <1>2
  DEF Next, Start, Exit, PeerConnected, StartUp, WaitTimeout, BeginAttempt, HandleStatus,
      HandleBlocks, SyncFails, CommitDecided, NextView, Respond, vars

LEMMA HeightsFitNext ==
  ASSUME StartInv, StartInv', HeightsFit, [Next]_vars
  PROVE  HeightsFit'
<1> SUFFICES ASSUME NEW m \in Node
             PROVE  /\ engine_state_height'[m] <= Len(chain')
                    /\ phase'[m] = "down" =>
                         last_committed_height'[m] = 0 /\ executed'[m] = <<>>
  BY Zenon DEF HeightsFit
<1>1. Len(chain) \in Nat /\ Len(chain') \in Nat /\ Len(chain) <= Len(chain')
  BY ChainGrows, Zenon
<1>2. /\ engine_state_height[m] \in Nat /\ pcs[m].height \in Nat
      /\ engine_state_height[m] <= Len(chain) /\ pcs[m].height <= Len(chain)
  BY Zenon DEF StartInv, StartTypes, ConsensusStatus, NodeOK, DiskOK, HeightsFit
<1>3. engine_state_height'[m] <= Len(chain')
  BY <1>1, <1>2, EngineHeightSteps, SMTT(30)
<1>4. phase'[m] = "down" => last_committed_height'[m] = 0 /\ executed'[m] = <<>>
  BY DownSteps, Zenon DEF HeightsFit
<1> QED
  BY <1>3, <1>4, Zenon

\* Requests name heights, and an answer holds a batch at most.
Batch(q) == \A i \in DOMAIN q : Cardinality(q[i].blocks) <= MaxBatch

BatchesFit ==
  /\ \A r \in requests : r.lo \in Nat /\ r.hi \in Nat
  /\ \A n \in Node : Batch(sync_resp_rx[n])

\* The responder serves a batch at most.
LEMMA AnswerFits ==
  ASSUME NEW r, r.lo \in Nat, r.hi \in Nat
  PROVE  Cardinality(Answer(r).blocks) <= MaxBatch
<1>0. MaxBatch \in Nat \ {0}
  BY StartAssumption, Zenon
<1>1. CASE r.kind = "status"
  <2>1. Answer(r).blocks = {} /\ Cardinality({}) = 0
    BY <1>1, FS_EmptySet, Zenon DEF Answer
  <2> QED
    BY <1>0, <2>1, SMTT(30)
<1>2. CASE r.kind # "status"
  <2> DEFINE lo == r.lo
             last == LastServed(r)
             upto == lo + MaxBatch - 1
  <2>1. last \in {r.hi, upto} /\ last <= upto
    <3>1. \A a, b \in Int : Min({a, b}) \in {a, b} /\ Min({a, b}) <= b
      <4> TAKE a \in Int, b \in Int
      <4>1. \E x \in {a, b} : \A y \in {a, b} : x <= y
        OBVIOUS
      <4> QED
        BY <4>1, Zenon DEF Min
    <3>2. r.hi \in Int /\ upto \in Int
      BY <1>0
    <3> QED
      BY <3>1, <3>2, Zenon DEF LastServed
  <2>2. lo \in Int /\ last \in Int /\ upto \in Int
    BY <1>0, <2>1
  <2> HIDE DEF lo, last
  <2>3. /\ IsFiniteSet(lo..last)
        /\ Cardinality(lo..last) = IF lo > last THEN 0 ELSE last - lo + 1
    BY <2>2, FS_Interval, Zenon
  <2>4. Cardinality(lo..last) <= MaxBatch /\ Cardinality(lo..last) \in Nat
    BY <1>0, <2>1, <2>2, <2>3
  <2>5. Answer(r).blocks = (lo..last) \cap store[r.to]
    BY <1>2, Zenon DEF Answer, lo, last
  <2>6. /\ Cardinality((lo..last) \cap store[r.to]) <= Cardinality(lo..last)
        /\ Cardinality((lo..last) \cap store[r.to]) \in Nat
    BY <2>3, FS_Subset, FS_CardinalityType, Zenon
  <2> QED
    BY <1>0, <2>4, <2>5, <2>6, SMTT(30)
<1> QED
  BY <1>1, <1>2, Zenon

\* The queue is emptied, loses its first answer, or gets one more.
LEMMA BatchTail ==
  ASSUME NEW q \in Seq(Answers), q # <<>>, Batch(q)
  PROVE  Batch(Tail(q))
<1>1. \A i \in DOMAIN Tail(q) : i + 1 \in DOMAIN q /\ Tail(q)[i] = q[i + 1]
  OBVIOUS
<1> QED
  BY <1>1, Zenon DEF Batch

LEMMA BatchAppend ==
  ASSUME NEW q \in Seq(Answers), Batch(q), NEW a, Cardinality(a.blocks) <= MaxBatch
  PROVE  Batch(Append(q, a))
<1>1. /\ DOMAIN Append(q, a) = 1..(Len(q) + 1)
      /\ \A i \in 1..(Len(q) + 1) :
           Append(q, a)[i] = a \/ (i \in DOMAIN q /\ Append(q, a)[i] = q[i])
  OBVIOUS
<1> QED
  BY <1>1, Zenon DEF Batch

LEMMA NoBatch == Batch(<<>>)
BY DEF Batch

\* sync_to_tip asks for the blocks from a height to a height.
LEMMA ContinueFits ==
  ASSUME StartInv, BatchesFit, NEW n \in Node, Arrived(n),
         NEW h \in Nat, NEW target \in Nat, NEW stored, ContinueFrom(n, h, target, stored)
  PROVE  BatchesFit'
<1>0. /\ sync_resp_rx \in [Node -> Seq(Answers)] /\ sync_resp_rx[n] # <<>>
      /\ sync_resp_rx[n] \in Seq(Answers)
  BY Zenon DEF StartInv, StartTypes, Arrived
<1>1. CASE ForgetSync(n)
  BY <1>0, <1>1, NoBatch, Zenon DEF ForgetSync, Update, BatchesFit
<1>2. CASE /\ requests' = requests \cup {Request(n, p, "blocks", h + 1, target) :
                                          p \in attempt[n].peer}
           /\ sync_resp_rx' = Update(sync_resp_rx, n, Tail(sync_resp_rx[n]))
  <2>1. Batch(Tail(sync_resp_rx[n]))
    BY <1>0, BatchTail, Zenon DEF BatchesFit
  <2>2. \A m \in Node : Batch(sync_resp_rx'[m])
    BY <1>0, <1>2, <2>1, Zenon DEF Update, BatchesFit
  <2>3. \A r \in requests' : r.lo \in Nat /\ r.hi \in Nat
    BY <1>2, SMTT(30) DEF Request, BatchesFit
  <2> QED
    BY <2>2, <2>3, Zenon DEF BatchesFit, Batch
<1> QED
  BY <1>1, <1>2, Zenon DEF ContinueFrom, ApplySynced

LEMMA BatchesFitNext ==
  ASSUME StartInv, StartInv', BatchesFit, [Next]_vars
  PROVE  BatchesFit'
<1>0. /\ sync_resp_rx \in [Node -> Seq(Answers)]
      /\ \A r \in requests : r.from \in Node
      /\ engine_state_height \in [Node -> Nat] /\ engine_state_height' \in [Node -> Nat]
  BY Zenon DEF StartInv, StartTypes
<1>1. ASSUME NEW n \in Node, ForgetSync(n)
      PROVE  BatchesFit'
  BY <1>0, <1>1, NoBatch, Zenon DEF ForgetSync, Update, BatchesFit
<1>2. ASSUME NEW n \in Node, BeginAttempt(n)
      PROVE  BatchesFit'
  <2>1. PICK p : requests' = requests \cup {Request(n, p, "status", 0, 0)}
    BY <1>2, Zenon DEF BeginAttempt
  <2>2. sync_resp_rx' = Update(sync_resp_rx, n, <<>>)
    BY <1>2, Zenon DEF BeginAttempt
  <2>3. \A r \in requests' : r.lo \in Nat /\ r.hi \in Nat
    BY <2>1, SMTT(30) DEF Request, BatchesFit
  <2> QED
    BY <1>0, <2>2, <2>3, NoBatch, Zenon DEF Update, BatchesFit
<1>3. ASSUME NEW n \in Node, HandleStatus(n)
      PROVE  BatchesFit'
  <2>1. /\ Arrived(n) /\ sync_resp_rx[n] # <<>>
        /\ ContinueFrom(n, engine_state_height[n], Head(sync_resp_rx[n]).height, store[n])
    BY <1>3, Zenon DEF HandleStatus, Arrived
  <2>2. Head(sync_resp_rx[n]) \in Answers
    BY <1>0, <2>1
  <2>3. Head(sync_resp_rx[n]).height \in Nat /\ engine_state_height[n] \in Nat
    BY <1>0, <2>2, Zenon DEF Answers
  <2> QED
    BY <2>1, <2>3, ContinueFits, Zenon
<1>4. ASSUME NEW n \in Node, HandleBlocks(n)
      PROVE  BatchesFit'
  <2> DEFINE tip == Max(Head(sync_resp_rx[n]).blocks)
             stored == store[n] \cup ((engine_state_height[n] + 1)..tip)
             target == attempt[n].target
  <2>1. /\ Arrived(n) /\ engine_state_height' = Update(engine_state_height, n, tip)
        /\ ContinueFrom(n, tip, target, stored)
    BY <1>4, Zenon DEF HandleBlocks
  <2>2. target \in Nat
    BY Zenon DEF StartInv, StartTypes, Attempts
  <2> HIDE DEF tip, stored, target
  <2>3. tip \in Nat
    BY <1>0, <2>1, Zenon DEF Update
  <2> QED
    BY <2>1, <2>2, <2>3, ContinueFits, Zenon
<1>5. ASSUME NEW r \in requests, Respond(r)
      PROVE  BatchesFit'
  <2> DEFINE a == Answer(r)
             n == r.from
  <2>1. /\ requests' \subseteq requests
        /\ sync_resp_rx' = Update(sync_resp_rx, n, Append(sync_resp_rx[n], a))
    BY <1>5, Zenon DEF Respond
  <2>2. Cardinality(a.blocks) <= MaxBatch
    BY AnswerFits, Zenon DEF BatchesFit
  <2>3. n \in Node /\ sync_resp_rx[n] \in Seq(Answers) /\ Batch(sync_resp_rx[n])
    BY <1>0, Zenon DEF BatchesFit
  <2> HIDE DEF a, n
  <2>4. Batch(Append(sync_resp_rx[n], a))
    BY <2>2, <2>3, BatchAppend, Zenon
  <2>5. \A m \in Node : Batch(sync_resp_rx'[m])
    BY <1>0, <2>1, <2>3, <2>4, Zenon DEF Update, BatchesFit
  <2> QED
    BY <2>1, <2>5, Zenon DEF BatchesFit, Batch
<1>6. CASE requests' = requests /\ sync_resp_rx' = sync_resp_rx
  BY <1>6, Zenon DEF BatchesFit, Batch
<1>7. ASSUME NEW n \in Node, SyncFails(n)
      PROVE  BatchesFit'
  <2>1. ForgetSync(n) \/ (requests' = requests /\ sync_resp_rx' = sync_resp_rx)
    BY <1>7, Zenon DEF SyncFails, ApplySynced
  <2> QED
    BY <1>1, <1>6, <2>1, Zenon
<1> QED
  BY Zenon, <1>1, <1>2, <1>3, <1>4, <1>5, <1>6, <1>7
  DEF Next, Start, Exit, PeerConnected, StartUp, WaitTimeout, CommitDecided, Decide, Commit,
      NextView, vars, syncing

\* The bounds follow from where a node is in run_node.
LEMMA HeightsBounded ==
  ASSUME StartInv, ChainFits, HeightsFit, NEW n \in Node
  PROVE  /\ store[n] \subseteq 1..MaxHeight
         /\ last_committed_height[n] \in 0..MaxHeight
         /\ engine_state_height[n] \in 0..MaxHeight
         /\ executed[n] \in Seq(1..MaxHeight)
<1>0. /\ Len(chain) \in Nat /\ MaxHeight \in Nat /\ Len(chain) <= MaxHeight
      /\ pcs[n].height \in Nat /\ pcs[n].height <= Len(chain)
      /\ last_committed_height[n] \in Nat /\ engine_state_height[n] \in Nat
      /\ engine_state_height[n] <= Len(chain) /\ store[n] \subseteq 1..Len(chain)
      /\ phase[n] \in {"down", "waiting", "syncing", "running"}
      /\ Restored(n) \in Nat
  <2>1. Len(chain) \in Nat /\ MaxHeight \in Nat /\ Len(chain) <= MaxHeight
    BY StartAssumption, SMTT(30) DEF StartInv, StartTypes, ChainFits
  <2>2. /\ pcs[n].height \in Nat /\ Restored(n) \in Nat
        /\ last_committed_height[n] \in Nat /\ engine_state_height[n] \in Nat
        /\ phase[n] \in {"down", "waiting", "syncing", "running"}
    BY Zenon DEF StartInv, StartTypes, ConsensusStatus, Restored
  <2>3. pcs[n].height <= Len(chain) /\ store[n] \subseteq 1..Len(chain)
    BY Zenon DEF StartInv, NodeOK, DiskOK
  <2>4. engine_state_height[n] <= Len(chain)
    BY Zenon DEF HeightsFit
  <2> QED
    BY <2>1, <2>2, <2>3, <2>4, Zenon
<1>1. last_committed_height[n] <= Len(chain)
  <2>1. CASE phase[n] = "down"
    BY <1>0, <2>1 DEF HeightsFit
  <2>2. CASE phase[n] \in Starting
    <3>1. last_committed_height[n] = pcs[n].height
      BY <2>2, Zenon DEF StartInv, NodeOK, StartingOK
    <3> QED
      BY <1>0, <3>1, Zenon
  <2>3. CASE phase[n] = "running"
    BY <2>3, Zenon DEF StartInv, NodeOK, RunningOK
  <2> QED
    BY <1>0, <2>1, <2>2, <2>3, Zenon DEF Starting
<1>2. executed[n] \in Seq(1..MaxHeight)
  <2>1. CASE phase[n] = "down"
    <3>1. executed[n] = <<>>
      BY <2>1, Zenon DEF HeightsFit
    <3>2. <<>> \in Seq(1..MaxHeight)
      BY SMTT(30)
    <3> QED
      BY <3>1, <3>2, Zenon
  <2>2. CASE phase[n] # "down"
    <3> DEFINE r == Restored(n)
               top == Reached(n)
               k == top - r
    <3>1. r \in Nat /\ top \in Nat /\ r <= top /\ top <= MaxHeight
      <4>1. top \in {engine_state_height[n], last_committed_height[n]}
        BY Zenon DEF Reached
      <4>2. r <= top
        BY <2>2, Zenon DEF StartInv, NodeOK, ExecutedOK
      <4> HIDE DEF r, top
      <4>3. top \in Nat /\ top <= Len(chain)
        BY <1>0, <1>1, <4>1, Zenon
      <4> QED
        BY <1>0, <4>2, <4>3, SMTT(30) DEF r
    <3>2. executed[n] = Heights(r, k)
      BY <2>2, Zenon DEF StartInv, NodeOK, ExecutedOK
    <3> HIDE DEF r, top
    <3>3. k \in Nat /\ \A i \in 1..k : r + i \in 1..MaxHeight
      BY <1>0, <3>1
    <3> HIDE DEF k
    <3> QED
      BY <3>2, <3>3, SMTT(30) DEF Heights
  <2> QED
    BY <2>1, <2>2, Zenon
<1> QED
  BY <1>0, <1>1, <1>2, SMTT(30)

\* The heights of a node never leave the chain, whatever it has synced and
\* however often it has stopped, and no answer of the responder exceeds a
\* batch (run_node, MAX_SYNC_BATCH).
THEOREM StartTypesHold == Spec => []TypeOK
<1> DEFINE Bounds == ChainFits /\ HeightsFit /\ BatchesFit
<1>1. Init => Bounds
  BY StartAssumption, NoBatch DEF Init, ChainFits, HeightsFit, BatchesFit
<1>2. StartInv /\ StartInv' /\ Bounds /\ [Next]_vars => Bounds'
  BY ChainFitsNext, HeightsFitNext, BatchesFitNext, Zenon
<1>3. StartInv /\ Bounds => TypeOK
  <2> SUFFICES ASSUME StartInv, Bounds PROVE TypeOK
    BY Zenon
  <2>1. /\ store \in [Node -> SUBSET (1..MaxHeight)]
        /\ last_committed_height \in [Node -> 0..MaxHeight]
        /\ engine_state_height \in [Node -> 0..MaxHeight]
        /\ executed \in [Node -> Seq(1..MaxHeight)]
    <3>1. /\ store \in [Node -> SUBSET Nat] /\ last_committed_height \in [Node -> Nat]
          /\ engine_state_height \in [Node -> Nat] /\ executed \in [Node -> Seq(Nat)]
      BY Zenon DEF StartInv, StartTypes
    <3>2. \A n \in Node : /\ store[n] \in SUBSET (1..MaxHeight)
                          /\ last_committed_height[n] \in 0..MaxHeight
                          /\ engine_state_height[n] \in 0..MaxHeight
                          /\ executed[n] \in Seq(1..MaxHeight)
      BY HeightsBounded, Zenon
    <3> QED
      BY <3>1, <3>2, Zenon
  <2> QED
    BY <2>1, Zenon DEF StartInv, StartTypes, ChainFits, BatchesFit, Batch, TypeOK
<1> HIDE DEF Bounds
<1> QED
  BY <1>1, <1>2, <1>3, StartInvInit, StartInvNext, PTL DEF Spec
=============================================================================
