------------------------------ MODULE NodeLocks -----------------------------
(***************************************************************************)
(* The mutexes of a node and the order its threads take them in: the       *)
(* executor's `state` and `receipts` (crates/execution/src/executor.rs),   *)
(* the pool's `inner` (crates/txpool/src/lib.rs) and the staking           *)
(* precompile's `staking` (crates/precompile/src/lib.rs).                  *)
(*                                                                         *)
(* Every operation is the sequence of lock and unlock steps its code makes *)
(* when it runs to the end.  The engine's task runs its calls in turn; RPC *)
(* and gossip tasks run any operation the server exposes.  std's mutexes   *)
(* block the thread and say nothing about who is served next.              *)
(***************************************************************************)
EXTENDS Integers, Sequences, FiniteSets

CONSTANTS
  Server,       \* RPC and gossip tasks
  EngineCalls,  \* the calls the engine makes, in turn
  ServerCalls,  \* the operations RPC and gossip tasks may run
  MaxCalls      \* bound on the calls each thread makes

Mutex == {"state", "inner", "receipts", "staking"}
Thread == Server \cup {"engine"}
Free == "free"

lock(m) == <<"lock", m>>
unlock(m) == <<"unlock", m>>

\* submit_tx asks the executor for the account's nonce while it holds the
\* pool: nonce_fn takes the state.
submit_tx == <<lock("inner"), lock("state"), unlock("state"), unlock("inner")>>

\* create_payload copies the config before it takes the pool.
create_payload == <<lock("state"), unlock("state"), lock("inner"), unlock("inner")>>

\* execute_block holds the state through revm, which takes the staking state
\* in the precompile, and until the receipts are stored.
execute_block ==
  <<lock("state"), lock("staking"), unlock("staking"),
    lock("receipts"), unlock("receipts"), unlock("state")>>

\* Slip: pending_count is read while the clean-up still holds the pool.
on_commit_nested ==
  <<lock("state"), lock("inner"), lock("inner"),
    unlock("inner"), unlock("inner"), unlock("state")>>

\* on_commit holds the state while the pool cleans up and while pending_count
\* is read for the log.
on_commit ==
  <<lock("state"), lock("inner"), unlock("inner"),
    lock("inner"), unlock("inner"), unlock("state")>>

\* Slip: the staking state is taken before the executor's.
eth_call_inverted == <<lock("staking"), lock("state"), unlock("state"), unlock("staking")>>

eth_call == <<lock("state"), lock("staking"), unlock("staking"), unlock("state")>>

validate_tx == <<lock("state"), unlock("state")>>

query == <<lock("state"), unlock("state")>>

\* get_receipts and get_receipt_by_tx_hash.
get_receipts == <<lock("receipts"), unlock("receipts")>>

contains == <<lock("inner"), unlock("inner")>>

\* pending_count and queued_count.
size == <<lock("inner"), unlock("inner"), lock("inner"), unlock("inner")>>

\* The lock steps of each operation.
Program ==
  [submit_tx      |-> submit_tx,
   create_payload |-> create_payload,
   execute_block  |-> execute_block,
   on_commit      |-> on_commit,
   eth_call       |-> eth_call,
   validate_tx    |-> validate_tx,
   query          |-> query,
   get_receipts   |-> get_receipts,
   contains       |-> contains,
   size           |-> size]

ASSUME CallsAssumption ==
  /\ "engine" \notin Server /\ Free \notin Server
  /\ EngineCalls \in Seq(DOMAIN Program) /\ EngineCalls # <<>>
  /\ ServerCalls \subseteq DOMAIN Program
  /\ MaxCalls \in Nat

VARIABLES
  call,   \* the operation each thread is in, or "none"
  pos,    \* the next step of that operation
  owner,  \* who holds each mutex
  made    \* how many operations each thread has begun

vars == <<call, pos, owner, made>>

Init ==
  /\ call = [t \in Thread |-> "none"]
  /\ pos = [t \in Thread |-> 1]
  /\ owner = [m \in Mutex |-> Free]
  /\ made = [t \in Thread |-> 0]

\* The step a thread is at, while it is in an operation.
AtEnd(t) == pos[t] > Len(Program[call[t]])
Op(t) == Program[call[t]][pos[t]]

\* The operations a thread may begin next.
NextCalls(t) ==
  IF t = "engine" THEN {EngineCalls[(made[t] % Len(EngineCalls)) + 1]} ELSE ServerCalls

\* MaxCalls is the model's bound; the code's threads go on making calls.
Begin(t) ==
  /\ call[t] = "none"
  /\ made[t] < MaxCalls
  /\ \E c \in NextCalls(t) : call' = [call EXCEPT ![t] = c]
  /\ pos' = [pos EXCEPT ![t] = 1]
  /\ made' = [made EXCEPT ![t] = @ + 1]
  /\ UNCHANGED owner

Lock(t) ==
  /\ call[t] # "none" /\ ~AtEnd(t)
  /\ Op(t)[1] = "lock"
  /\ owner[Op(t)[2]] = Free
  /\ owner' = [owner EXCEPT ![Op(t)[2]] = t]
  /\ pos' = [pos EXCEPT ![t] = @ + 1]
  /\ UNCHANGED <<call, made>>

Unlock(t) ==
  /\ call[t] # "none" /\ ~AtEnd(t)
  /\ Op(t)[1] = "unlock"
  /\ owner' = [owner EXCEPT ![Op(t)[2]] = Free]
  /\ pos' = [pos EXCEPT ![t] = @ + 1]
  /\ UNCHANGED <<call, made>>

\* Slip: the operation starts over when it should return.
ReturnToStart(t) ==
  /\ call[t] # "none" /\ AtEnd(t)
  /\ pos' = [pos EXCEPT ![t] = 1]
  /\ UNCHANGED <<call, owner, made>>

Return(t) ==
  /\ call[t] # "none" /\ AtEnd(t)
  /\ call' = [call EXCEPT ![t] = "none"]
  /\ UNCHANGED <<pos, owner, made>>

\* All calls are made; the threads idle.
Finished == \A t \in Thread : call[t] = "none" /\ made[t] = MaxCalls
Idle == Finished /\ UNCHANGED vars

ThreadStep(t) == Begin(t) \/ Lock(t) \/ Unlock(t) \/ Return(t)

Next == (\E t \in Thread : ThreadStep(t)) \/ Idle

Spec == Init /\ [][Next]_vars

\* A thread that can run does run.
FairSpec == Spec /\ \A t \in Thread : WF_vars(ThreadStep(t))
-----------------------------------------------------------------------------
(* Properties                                                              *)

\* Whom thread t waits for.
WaitsFor(t) ==
  IF call[t] # "none" /\ ~AtEnd(t) /\ Op(t)[1] = "lock"
  THEN {owner[Op(t)[2]]} \ {Free} ELSE {}

\* No set of threads waits in a circle: every thread that waits reaches,
\* along the holders, one that can run.  A thread that locked a mutex twice
\* would wait for itself.
NoCircularWait ==
  \A S \in (SUBSET Thread) \ {{}} : \E t \in S : WaitsFor(t) \cap S = {}

\* As long as nothing is submitted, a thread that holds the pool, the receipts
\* or the staking state is never kept waiting: only the state is held while
\* something else is awaited (execute_block, on_commit, eth_call).  So whoever
\* waits for one of the three never waits for a block to execute.
InnermostNeverWaits ==
  \A m \in Mutex \ {"state"} : owner[m] # Free => WaitsFor(owner[m]) = {}

\* Every operation that begins ends, whatever the other threads run
\* ("so the executor can be shared between the consensus engine and the RPC
\* server", SharedExecutor).
CallsReturn == \A t \in Thread : call[t] # "none" ~> call[t] = "none"
=============================================================================
