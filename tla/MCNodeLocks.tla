---------------------------- MODULE MCNodeLocks -----------------------------
(* Instances of NodeLocks for TLC.                                         *)
EXTENDS NodeLocks

\* The engine proposes, executes and commits.
MCEngineCalls == <<"create_payload", "execute_block", "on_commit">>

\* Everything the server exposes, and all but submissions.
MCServerCalls ==
  {"submit_tx", "validate_tx", "query", "eth_call", "get_receipts", "contains", "size"}
MCReads == MCServerCalls \ {"submit_tx"}
=============================================================================
