----------------------------- MODULE MCPutPorter -----------------------------
(***************************************************************************)
(* Instances of PutPorter for TLC.  Each definition below is a Quota: how  *)
(* many items each PE may push to each other one in a round.               *)
(***************************************************************************)
EXTENDS PutPorter

\* PE 0 streams to PE 1, which has nothing to send, or one item.
OneWay(k) == [p \in Rank |-> [d \in Rank |-> IF p = 0 /\ d = 1 THEN k ELSE 0]]
OneWay2 == OneWay(2)
OneWay4 == OneWay(4)
Duplex2 == [OneWay(2) EXCEPT ![1][0] = 1]
=============================================================================
