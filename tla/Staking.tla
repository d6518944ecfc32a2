------------------------------- MODULE Staking ------------------------------
(***************************************************************************)
(* The Balances and Staking precompiles (crates/precompile/src/lib.rs)     *)
(* inside the transactions that reach them.                                *)
(*                                                                         *)
(* Balances live in revm's journal, which undoes the changes of a frame    *)
(* that reverts and of a dry run.  Delegations live in SharedStakingState, *)
(* which the journal does not know.  execute_block and eth_call hold the   *)
(* executor's state for a whole transaction, so transactions follow one    *)
(* another.  The sender of a block's transaction has signed it; eth_call   *)
(* takes any address for its sender, the staking precompile's own as well. *)
(* Decoding of the arguments and gas are left out: a call may fail there,  *)
(* and then changes nothing.                                               *)
(***************************************************************************)
EXTENDS Integers, SequencesExt, FiniteSetsExt

CONSTANTS
  Account,       \* addresses that sign transactions or have code
  Validator,     \* addresses stake is delegated to
  STAKING_ADDR,  \* the precompile's own address, where stake is locked;
                 \* it has no key, and code there would never run
  Amount,        \* the amounts calls name
  Supply,        \* the balance of every account at genesis
  Modes,         \* "block" for execute_block, "call" for eth_call
  MaxDepth,      \* bound on nested frames
  MaxStake       \* bound on what one delegation may grow to

ASSUME StakingAssumption ==
  /\ IsFiniteSet(Account) /\ IsFiniteSet(Validator)
  /\ STAKING_ADDR \notin Account
  /\ Amount \subseteq Nat /\ Supply \in Nat
  /\ MaxDepth \in Nat /\ MaxStake \in Nat
  /\ Modes \subseteq {"block", "call"}

\* All addresses.
Holder == Account \cup {STAKING_ADDR}

VARIABLES
  balance,      \* the journal's balances
  delegations,  \* StakingState.delegations, 0 where there is no entry
  frames,       \* what balances and delegations were as each open frame began
  mode,         \* "block" or "call" during a transaction, else "none"
  callers,      \* who may call a precompile in it: its sender and contracts
  result,       \* of the last precompile call: "ok" or "revert"
  diverged      \* whether a frame was undone after it changed a delegation

vars == <<balance, delegations, frames, mode, callers, result, diverged>>

-----------------------------------------------------------------------------
(* JournalTr::transfer                                                     *)

CanTransfer(from, amount) == balance[from] >= amount

Transferred(from, to, amount) ==
  IF from = to THEN balance
  ELSE [balance EXCEPT ![from] = @ - amount, ![to] = @ + amount]

-----------------------------------------------------------------------------
(* StakingState                                                            *)

get_stake(d, v) == delegations[<<d, v>>]

total_stake(v) == MapThenSumSet(LAMBDA d : get_stake(d, v), Holder)

\* The sum of U256 saturates; MaxStake stays below that.
Delegated(d, v, amount) == [delegations EXCEPT ![<<d, v>>] = @ + amount]

\* Slip: the entry is checked and not lowered.
UnbondedKept(d, v, amount) == delegations

Unbonded(d, v, amount) == [delegations EXCEPT ![<<d, v>>] = @ - amount]

-----------------------------------------------------------------------------
(* The precompile calls, as new balances, delegations and result           *)

\* Every other failure: short input, unknown selector, out of gas.
Refused == /\ UNCHANGED <<balance, delegations>>
           /\ result' = "revert"

\* balanceOf, getStake and totalStake: an answer and no change.
Query == /\ UNCHANGED <<balance, delegations>>
         /\ result' = "ok"

Transfer(caller, to, amount) ==
  \/ /\ CanTransfer(caller, amount)
     /\ balance' = Transferred(caller, to, amount)
     /\ result' = "ok"
     /\ UNCHANGED delegations
  \/ ~CanTransfer(caller, amount) /\ Refused

\* Slip: the delegation is recorded before the transfer is known to succeed.
DelegateFirst(caller, validator, amount) ==
  /\ delegations' = Delegated(caller, validator, amount)
  /\ \/ /\ CanTransfer(caller, amount)
        /\ balance' = Transferred(caller, STAKING_ADDR, amount)
        /\ result' = "ok"
     \/ /\ ~CanTransfer(caller, amount)
        /\ result' = "revert"
        /\ UNCHANGED balance

\* The tokens move first; a failed transfer records nothing.
Delegate(caller, validator, amount) ==
  \/ /\ CanTransfer(caller, amount)
     /\ balance' = Transferred(caller, STAKING_ADDR, amount)
     /\ delegations' = Delegated(caller, validator, amount)
     /\ result' = "ok"
  \/ ~CanTransfer(caller, amount) /\ Refused

\* Slip: the stake of all delegators is counted as the caller's.
EnoughStakeOfAll(caller, validator, amount) == total_stake(validator) >= amount

EnoughStake(caller, validator, amount) == get_stake(caller, validator) >= amount

\* The delegation shrinks first; a failed transfer does not restore it.
Unbond(caller, validator, amount) ==
  \/ /\ EnoughStake(caller, validator, amount)
     /\ delegations' = Unbonded(caller, validator, amount)
     /\ \/ /\ CanTransfer(STAKING_ADDR, amount)
           /\ balance' = Transferred(STAKING_ADDR, caller, amount)
           /\ result' = "ok"
        \/ /\ ~CanTransfer(STAKING_ADDR, amount)
           /\ result' = "revert"
           /\ UNCHANGED balance
  \/ ~EnoughStake(caller, validator, amount) /\ Refused

-----------------------------------------------------------------------------
(* Transactions, as revm runs them                                         *)

\* The senders a transaction may have: any address in a dry run.
Senders(m) == IF m = "call" THEN Holder ELSE Account

Open == Append(frames, [balance |-> balance, delegations |-> delegations])

\* A transaction begins, and with it its first frame.
Begin(m, sender) ==
  /\ mode = "none"
  /\ frames' = Open
  /\ mode' = m
  /\ callers' = Account \cup {sender}
  /\ UNCHANGED <<balance, delegations, result, diverged>>

\* A frame begins that is nested in another.
Enter ==
  /\ frames # <<>> /\ Len(frames) < MaxDepth
  /\ frames' = Open
  /\ UNCHANGED <<balance, delegations, mode, callers, result, diverged>>

\* The frame is, or calls, a precompile, in the name of the transaction's
\* sender or of a contract.
Precompile(caller, amount) ==
  /\ frames # <<>> /\ caller \in callers
  /\ \/ \E to \in Holder : Transfer(caller, to, amount)
     \/ \E validator \in Validator :
          /\ get_stake(caller, validator) + amount <= MaxStake
          /\ Delegate(caller, validator, amount)
     \/ \E validator \in Validator : Unbond(caller, validator, amount)
     \/ Query
     \/ Refused
  /\ UNCHANGED <<frames, mode, callers, diverged>>

\* The innermost frame ends, and with the last one the transaction.
Pop ==
  /\ frames' = Front(frames)
  /\ mode' = IF Len(frames) = 1 THEN "none" ELSE mode
  /\ callers' = IF Len(frames) = 1 THEN {} ELSE callers
  /\ UNCHANGED <<delegations, result>>

\* The journal returns to where the frame began.  Nothing does the same for
\* the delegations.
Undo ==
  /\ balance' = Last(frames).balance
  /\ diverged' = (diverged \/ delegations # Last(frames).delegations)
  /\ Pop

Revert == frames # <<>> /\ Undo

\* The frame succeeds; a dry run drops its journal in the end.
Succeed ==
  /\ frames # <<>>
  /\ \/ /\ Len(frames) = 1 /\ mode = "call"
        /\ Undo
     \/ /\ Len(frames) > 1 \/ mode = "block"
        /\ Pop
        /\ UNCHANGED <<balance, diverged>>

-----------------------------------------------------------------------------
Init ==
  /\ balance = [h \in Holder |-> IF h = STAKING_ADDR THEN 0 ELSE Supply]
  /\ delegations = [p \in Holder \X Validator |-> 0]
  /\ frames = <<>>
  /\ mode = "none"
  /\ callers = {}
  /\ result = "ok"
  /\ diverged = FALSE

Next ==
  \/ \E m \in Modes : \E sender \in Senders(m) : Begin(m, sender)
  \/ Enter
  \/ \E caller \in Holder, amount \in Amount : Precompile(caller, amount)
  \/ Succeed
  \/ Revert

Spec == Init /\ [][Next]_vars
-----------------------------------------------------------------------------
(* Properties                                                              *)

TypeOK ==
  /\ balance \in [Holder -> Nat]
  /\ delegations \in [Holder \X Validator -> Nat]
  /\ frames \in Seq([balance : [Holder -> Nat],
                     delegations : [Holder \X Validator -> Nat]])
  /\ mode \in {"none"} \cup Modes /\ (mode = "none" <=> frames = <<>>)
  /\ callers \in SUBSET Holder
  /\ result \in {"ok", "revert"}
  /\ diverged \in BOOLEAN

TotalStake == MapThenSumSet(total_stake, Validator)

\* Whether the open transaction is a dry run in the name of the staking
\* address: it can move the locked tokens, and stake them again.
InItsOwnName == STAKING_ADDR \in callers

\* As long as no frame was undone across a staking call, the staking address
\* holds every delegated token: between transactions, in the middle of a
\* block's transaction and of a dry run, except of one that eth_call runs in
\* the name of the staking address itself.  delegate and unbond each update
\* the journal and the staking state in two steps that nothing separates.
Backed == ~diverged /\ ~InItsOwnName => TotalStake <= balance[STAKING_ADDR]

\* As long as no frame was undone across a staking call, a call that answers
\* Revert has changed nothing, except in a dry run in the name of the staking
\* address.  unbond lowers the delegation before it knows that the tokens
\* can be returned; only Backed makes that safe.
RefusedChangesNothing ==
  [][\A caller \in Holder, amount \in Amount :
       Precompile(caller, amount) /\ result' = "revert" /\ ~diverged /\ ~InItsOwnName
         => UNCHANGED <<balance, delegations>>]_vars

\* What the documentation says and the code does not do.

\* "When an EVM transaction reverts or runs out of Gas, state changes must be
\* rolled back" (docs/architecture.md).  The delegations are not.
RevertRollsBack ==
  [][Revert => delegations' = Last(frames).delegations]_vars

=============================================================================
