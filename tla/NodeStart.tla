----------------------------- MODULE NodeStart -----------------------------
(***************************************************************************)
(* How nodes start, catch up from their peers, serve their peers and stop  *)
(* (crates/node/src/main.rs).                                              *)
(*                                                                         *)
(* What survives a stop: the consensus state of PersistentConsensusState   *)
(* and the block store.  The executor, its receipts and its pool are built *)
(* from genesis on every start.                                            *)
(*                                                                         *)
(* External, and modelled from how run_node uses them: the engine, which   *)
(* decides one chain and commits it block by block; the network, which may *)
(* lose or delay a request and its answer; sync_to_tip, which asks a peer  *)
(* for its status and then for batches of blocks, executes them in order   *)
(* and gives up on an answer that does not fit.  A block is its view.      *)
(* Epochs are left out: execute_block never changes the validators.        *)
(***************************************************************************)
EXTENDS Integers, Sequences, FiniteSetsExt

CONSTANTS
  Node,       \* nodes, validators or full nodes
  SyncPeers,  \* per node, its sync_peers
  ServeSync,  \* nodes configured to answer sync requests
  MaxBatch,   \* MAX_SYNC_BATCH
  MaxHeight,  \* bound on the chain
  MaxView,    \* bound on the views
  MaxStarts   \* per node, bound on its starts

ASSUME StartAssumption ==
  /\ SyncPeers \in [Node -> SUBSET Node]
  /\ ServeSync \subseteq Node
  /\ MaxBatch \in Nat \ {0} /\ MaxHeight \in Nat /\ MaxView \in Nat
  /\ MaxStarts \in [Node -> Nat]

VARIABLES
  chain,                  \* the decided blocks
  phase,                  \* where a node is in run_node
  starts,                 \* how often it has started
  pcs,                    \* PersistentConsensusState: view and height
  store,                  \* the heights in the block store
  current_view,           \* state.current_view
  last_committed_height,  \* state.last_committed_height
  engine_state_height,    \* engine_state_height, advanced by sync_to_tip
  sync_status,            \* what sync_status_rx shows
  executed,               \* the heights executed since from_genesis
  todo,                   \* sync peers the loop has still to try
  attempt,                \* the sync_to_tip call that is running
  requests,               \* sync requests on the way
  sync_resp_rx            \* answers that have arrived

disk == <<pcs, store>>
memory == <<current_view, last_committed_height, engine_state_height, sync_status, executed>>
syncing == <<todo, attempt, requests, sync_resp_rx>>
vars == <<chain, phase, starts, disk, memory, syncing>>

Genesis == [view |-> 0, height |-> 0]

Idle == [peer |-> {}, expects |-> "nothing", target |-> 0]

Update(f, n, v) == [f EXCEPT ![n] = v]

-----------------------------------------------------------------------------
(* Starting and stopping                                                   *)

Init ==
  /\ chain = <<>>
  /\ phase = [n \in Node |-> "down"]
  /\ starts = [n \in Node |-> 0]
  /\ pcs = [n \in Node |-> Genesis]
  /\ store = [n \in Node |-> {}]
  /\ current_view = [n \in Node |-> 0]
  /\ last_committed_height = [n \in Node |-> 0]
  /\ engine_state_height = [n \in Node |-> 0]
  /\ sync_status = [n \in Node |-> Genesis]
  /\ executed = [n \in Node |-> <<>>]
  /\ todo = [n \in Node |-> {}]
  /\ attempt = [n \in Node |-> Idle]
  /\ requests = {}
  /\ sync_resp_rx = [n \in Node |-> <<>>]

\* The consensus state is restored, the status channel is created from it,
\* the executor is built from genesis.  A node without sync peers goes
\* straight to the engine.
Start(n) ==
  /\ phase[n] = "down"
  /\ starts[n] < MaxStarts[n]
  /\ starts' = Update(starts, n, starts[n] + 1)
  /\ current_view' = Update(current_view, n, pcs[n].view)
  /\ last_committed_height' = Update(last_committed_height, n, pcs[n].height)
  /\ engine_state_height' = Update(engine_state_height, n, pcs[n].height)
  /\ sync_status' = Update(sync_status, n, pcs[n])
  /\ executed' = Update(executed, n, <<>>)
  /\ phase' = Update(phase, n, IF SyncPeers[n] = {} THEN "running" ELSE "waiting")
  /\ UNCHANGED <<chain, disk, syncing>>

\* No answer reaches a node any more that has ended its sync or its life.
ForgetSync(n) ==
  /\ todo' = Update(todo, n, {})
  /\ attempt' = Update(attempt, n, Idle)
  /\ requests' = {r \in requests : r.from # n}
  /\ sync_resp_rx' = Update(sync_resp_rx, n, <<>>)

\* The supervisor ends the process when the engine, the network, the RPC
\* server or the responder ends, or on a signal; a crash does the same.
\* Nothing but the disk is left.
Exit(n) ==
  /\ phase[n] # "down"
  /\ phase' = Update(phase, n, "down")
  /\ current_view' = Update(current_view, n, 0)
  /\ last_committed_height' = Update(last_committed_height, n, 0)
  /\ engine_state_height' = Update(engine_state_height, n, 0)
  /\ sync_status' = Update(sync_status, n, Genesis)
  /\ executed' = Update(executed, n, <<>>)
  /\ ForgetSync(n)
  /\ UNCHANGED <<chain, starts, disk>>

-----------------------------------------------------------------------------
(* Waiting for a peer                                                      *)

\* notif_count is positive.
PeerConnected(n) ==
  /\ phase[n] = "waiting"
  /\ \E p \in Node \ {n} : phase[p] # "down"
  /\ phase' = Update(phase, n, "syncing")
  /\ todo' = Update(todo, n, SyncPeers[n])
  /\ UNCHANGED <<chain, starts, disk, memory, attempt, requests, sync_resp_rx>>

\* "no peers connected within timeout, skipping sync"
WaitTimeout(n) ==
  /\ phase[n] = "waiting"
  /\ phase' = Update(phase, n, "running")
  /\ UNCHANGED <<chain, starts, disk, memory, syncing>>

-----------------------------------------------------------------------------
(* Applying the synced state                                               *)

\* Slip: the view after the tip's is taken without a comparison.
StartViewPastTip(n, h, stored) ==
  IF h > 0 /\ h \in stored THEN chain[h] + 1 ELSE current_view[n]

\* The view to start in, from the height h reached and the heights stored.
StartView(n, h, stored) ==
  LET tip_view == IF h \in stored THEN chain[h] ELSE current_view[n]
  IN  IF h > 0 /\ tip_view > current_view[n] THEN tip_view + 1 ELSE current_view[n]

\* The loop over the peers is over: state takes over what sync has reached.
\* h and stored are the height and the block store at that point.
ApplySynced(n, h, stored) ==
  /\ last_committed_height' = Update(last_committed_height, n, h)
  /\ current_view' = Update(current_view, n, StartView(n, h, stored))
  /\ phase' = Update(phase, n, "running")
  /\ ForgetSync(n)

-----------------------------------------------------------------------------
(* The loop over the sync peers                                            *)

Request(n, p, kind, from, to) == [from |-> n, to |-> p, kind |-> kind, lo |-> from, hi |-> to]

\* Slip: a peer that has been tried stays in the loop.
RemainingAll(n, p) == todo[n]

\* The peers after p, in an order that the peer map decides.
Remaining(n, p) == todo[n] \ {p}

\* Slip: every attempt starts over from the restored height.
AttemptHeightRestored(n) == last_committed_height[n]

\* The height that SyncState lends to an attempt: where the last one ended.
AttemptHeight(n) == engine_state_height[n]

\* A new bridge to the next peer; whatever has arrived so far is drained.
\* sync_to_tip begins by asking for the peer's status.
BeginAttempt(n) ==
  /\ phase[n] = "syncing" /\ attempt[n] = Idle
  /\ \E p \in todo[n] :
       /\ todo' = Update(todo, n, Remaining(n, p))
       /\ attempt' = Update(attempt, n, [peer |-> {p}, expects |-> "status", target |-> 0])
       /\ requests' = requests \cup {Request(n, p, "status", 0, 0)}
  /\ sync_resp_rx' = Update(sync_resp_rx, n, <<>>)
  /\ engine_state_height' = Update(engine_state_height, n, AttemptHeight(n))
  /\ UNCHANGED <<chain, phase, starts, disk, current_view, last_committed_height,
                 sync_status, executed>>

-----------------------------------------------------------------------------
(* The responder                                                           *)

\* Slip: a batch holds one block too many.
LastServedOneMore(r) == Min({r.hi, r.lo + MaxBatch})

LastServed(r) == Min({r.hi, r.lo + MaxBatch - 1})

\* The status as the watch channel shows it, or the stored blocks of the
\* range asked for.  Snapshots are left out: the application has none.
Answer(r) ==
  IF r.kind = "status"
  THEN [kind |-> "status", height |-> sync_status[r.to].height, blocks |-> {}]
  ELSE [kind |-> "blocks", height |-> 0, blocks |-> (r.lo..LastServed(r)) \cap store[r.to]]

\* The responder's task runs from the start of the node, before its own
\* sync.  Answers carry no mark of the attempt they belong to.
Respond(r) ==
  /\ phase[r.to] # "down"
  /\ r.to \in ServeSync
  /\ requests' = requests \ {r}
  /\ sync_resp_rx' = Update(sync_resp_rx, r.from, Append(sync_resp_rx[r.from], Answer(r)))
  /\ UNCHANGED <<chain, phase, starts, disk, memory, todo, attempt>>

-----------------------------------------------------------------------------
(* sync_to_tip                                                             *)

Arrived(n) ==
  /\ phase[n] = "syncing" /\ attempt[n] # Idle
  /\ sync_resp_rx[n] # <<>>

Fits(n, answer) ==
  /\ answer.kind = attempt[n].expects
  /\ answer.kind = "blocks" => engine_state_height[n] + 1 \in answer.blocks

\* With blocks up to height h executed and the peer's tip at target: ask for
\* the next batch, or end the loop over the peers with success.
ContinueFrom(n, h, target, stored) ==
  \/ /\ h < target
     /\ attempt' = Update(attempt, n, [attempt[n] EXCEPT !.expects = "blocks", !.target = target])
     /\ requests' = requests \cup {Request(n, p, "blocks", h + 1, target) : p \in attempt[n].peer}
     /\ sync_resp_rx' = Update(sync_resp_rx, n, Tail(sync_resp_rx[n]))
     /\ UNCHANGED <<phase, todo, last_committed_height, current_view>>
  \/ /\ h >= target
     /\ ApplySynced(n, h, stored)

HandleStatus(n) ==
  /\ Arrived(n)
  /\ LET answer == Head(sync_resp_rx[n])
     IN  /\ Fits(n, answer) /\ answer.kind = "status"
         /\ ContinueFrom(n, engine_state_height[n], answer.height, store[n])
  /\ UNCHANGED <<chain, starts, disk, engine_state_height, sync_status, executed>>

\* The blocks are executed and stored.  SyncState has no persistence: pcs
\* stays as it is.
HandleBlocks(n) ==
  /\ Arrived(n)
  /\ LET answer == Head(sync_resp_rx[n])
         h == engine_state_height[n]
         tip == Max(answer.blocks)
     IN  /\ Fits(n, answer) /\ answer.kind = "blocks"
         /\ executed' = Update(executed, n, executed[n] \o [i \in 1..(tip - h) |-> h + i])
         /\ engine_state_height' = Update(engine_state_height, n, tip)
         /\ store' = Update(store, n, store[n] \cup ((h + 1)..tip))
         /\ ContinueFrom(n, tip, attempt[n].target, store[n] \cup ((h + 1)..tip))
  /\ UNCHANGED <<chain, starts, pcs, sync_status>>

\* Err: no answer in time, or one to something else, perhaps from a peer
\* that was given up before.  Then the next peer, or "all sync peers failed,
\* continuing from current state".
SyncFails(n) ==
  /\ phase[n] = "syncing" /\ attempt[n] # Idle
  /\ \/ /\ todo[n] # {}
        /\ attempt' = Update(attempt, n, Idle)
        /\ UNCHANGED <<phase, last_committed_height, current_view, todo, requests,
                       sync_resp_rx>>
     \/ /\ todo[n] = {}
        /\ ApplySynced(n, engine_state_height[n], store[n])
  /\ UNCHANGED <<chain, starts, disk, engine_state_height, sync_status, executed>>

-----------------------------------------------------------------------------
(* The engine                                                              *)

\* A block is committed: executed, stored, and view and height persisted.
Commit(n, view) ==
  LET h == last_committed_height[n] + 1
      v == Max({current_view[n], view})
  IN  /\ store' = Update(store, n, store[n] \cup {h})
      /\ executed' = Update(executed, n, Append(executed[n], h))
      /\ last_committed_height' = Update(last_committed_height, n, h)
      /\ current_view' = Update(current_view, n, v)
      /\ pcs' = Update(pcs, n, [view |-> v, height |-> h])
      /\ UNCHANGED <<phase, starts, engine_state_height, sync_status, syncing>>

CommitDecided(n) ==
  /\ phase[n] = "running"
  /\ last_committed_height[n] < Len(chain)
  /\ Commit(n, chain[last_committed_height[n] + 1])
  /\ UNCHANGED chain

\* The next block is decided in the view of the node that commits it first.
Decide(n) ==
  /\ phase[n] = "running"
  /\ last_committed_height[n] = Len(chain) /\ Len(chain) < MaxHeight
  /\ \A h \in DOMAIN chain : chain[h] < current_view[n]
  /\ chain' = Append(chain, current_view[n])
  /\ Commit(n, current_view[n])

\* A view ends without a block, or after one.
NextView(n) ==
  /\ phase[n] = "running"
  /\ current_view[n] < MaxView
  /\ current_view' = Update(current_view, n, current_view[n] + 1)
  /\ pcs' = Update(pcs, n, [pcs[n] EXCEPT !.view = current_view[n] + 1])
  /\ UNCHANGED <<chain, phase, starts, store, last_committed_height, engine_state_height,
                 sync_status, executed, syncing>>

-----------------------------------------------------------------------------
\* What run_node does by itself until the engine runs.
StartUp(n) ==
  \/ WaitTimeout(n)
  \/ BeginAttempt(n)
  \/ HandleStatus(n)
  \/ HandleBlocks(n)
  \/ SyncFails(n)

Next ==
  \/ \E n \in Node :
       \/ Start(n)
       \/ Exit(n)
       \/ PeerConnected(n)
       \/ StartUp(n)
       \/ CommitDecided(n)
       \/ Decide(n)
       \/ NextView(n)
  \/ \E r \in requests : Respond(r)

Spec == Init /\ [][Next]_vars

\* A node that can go on with its start does: every wait has a deadline.
\* Peers, the network and the engine are under no obligation.
FairSpec == Spec /\ \A n \in Node : WF_vars(StartUp(n))
-----------------------------------------------------------------------------
(* Properties                                                              *)

ConsensusStatus == [view : Nat, height : Nat]

TypeOK ==
  /\ chain \in Seq(Nat)
  /\ phase \in [Node -> {"down", "waiting", "syncing", "running"}]
  /\ starts \in [Node -> Nat]
  /\ pcs \in [Node -> ConsensusStatus]
  /\ store \in [Node -> SUBSET (1..MaxHeight)]
  /\ current_view \in [Node -> Nat]
  /\ last_committed_height \in [Node -> 0..MaxHeight]
  /\ engine_state_height \in [Node -> 0..MaxHeight]
  /\ sync_status \in [Node -> ConsensusStatus]
  /\ executed \in [Node -> Seq(1..MaxHeight)]
  /\ todo \in [Node -> SUBSET Node]
  /\ \A n \in Node : \A i \in DOMAIN sync_resp_rx[n] :
       Cardinality(sync_resp_rx[n][i].blocks) <= MaxBatch

\* The height the node was restored with: nothing is sent to the status
\* channel after its creation.
Restored(n) == sync_status[n].height

\* The height the executor of a node has been taken to.
Reached(n) ==
  IF phase[n] \in {"waiting", "syncing"} THEN engine_state_height[n]
                                         ELSE last_committed_height[n]

\* From the restored height on, every block is executed once and in order,
\* however many peers failed half-way, whatever late answers of theirs were
\* taken for another's, and across the hand-over from sync to the engine
\* (the loop over sync_peers, "Apply synced state").
SyncedInOrder ==
  \A n \in Node : phase[n] # "down" =>
    executed[n] = [i \in 1..(Reached(n) - Restored(n)) |-> Restored(n) + i]

\* A node that restarts does not fall back to a view it has left, in which
\* it may have voted, nor below the view of the last block it has, whether
\* it got that block from its own store or from a peer (restore of the
\* consensus state, choice of current_view after sync).
StartViewSafe ==
  \A n \in Node : phase[n] = "running" =>
    /\ current_view[n] >= pcs[n].view
    /\ last_committed_height[n] > 0 => current_view[n] >= chain[last_committed_height[n]]

\* A start comes to its end: the engine runs at last, unless the process is
\* stopped before, though no peer may ever connect or answer (deadline of
\* the wait, loop over sync_peers).
StartsComplete ==
  \A n \in Node : phase[n] \in {"waiting", "syncing"} ~> phase[n] \in {"running", "down"}

\* What a comment says and the code does not do.

\* The state is a "Persistent EVM world state" (state.rs): the executor of a
\* running node holds the chain up to the height the engine starts from.
StateIsPersistent ==
  \A n \in Node : phase[n] = "running" =>
    executed[n] = [i \in 1..last_committed_height[n] |-> i]

=============================================================================
