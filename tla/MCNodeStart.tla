---------------------------- MODULE MCNodeStart ----------------------------
(* Instances of NodeStart for TLC.                                         *)
EXTENDS NodeStart

CONSTANTS a, b, c

\* One node that syncs from two others, which have no sync peers.
MCSyncPeers == [n \in Node |-> IF n = a THEN {b, c} ELSE {}]

\* The node and one of its peers may be restarted; the other peer is not up.
MCMaxStarts == [n \in Node |-> IF n = c THEN 0 ELSE 2]
=============================================================================
