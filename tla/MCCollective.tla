----------------------------- MODULE MCCollective -----------------------------
(***************************************************************************)
(* TwoHop and Exstack side by side, for TLC: a behaviour is one of them at *)
(* work, while the other stays in an initial state.  Both move their items *)
(* in steps that all PEs take together.                                    *)
(***************************************************************************)
EXTENDS TwoHop, Exstack

\* Four PEs in two rows and two columns.  PEs 0 and 1 send to PE 2 by way of
\* PE 0, whose column buffer for row 1 has room for one item: a pivot stops half
\* way.
Stream == << <<0, 0, 1, 0>>, <<0, 0, 1, 0>>, <<0, 0, 0, 0>>, <<0, 0, 0, 0>> >>

ClientQuota == [p \in PE |-> [d \in PE |-> Stream[p + 1][d + 1]]]

\* Thread 0 pushes three items to thread 1, which pushes one back.
ExStream == [p \in Thread |-> [d \in Thread |-> IF p = 0 THEN 3 * d ELSE 1 - d]]

VARIABLE part   \* the one at work

PartInit ==
  /\ part \in {"twohop", "exstack"}
  /\ Init /\ (part = "exstack" => ~steady)
  /\ InitEx

PartNext ==
  \/ part = "twohop"  /\ Next   /\ UNCHANGED <<part, exvars>>
  \/ part = "exstack" /\ NextEx /\ UNCHANGED <<part, vars>>

\* The fairness of TwoHop, while it is at work.
PartSpec ==
  /\ PartInit /\ [][PartNext]_<<part, vars, exvars>>
  /\ WF_vars(part = "twohop" /\ (AgreeNot \/ RowExchange \/ ColumnExchange \/ FinishBegin))
  /\ \A p \in PE : /\ WF_vars(part = "twohop" /\ \E d \in BOOLEAN : StartAdvance(p, d))
                   /\ SF_vars(part = "twohop" /\ (Pull(p) \/ PullNothing(p)))
                   /\ <>[][~Unpull(p)]_vars

\* A two-hop conveyor gets on, as Progress says.
TwoHopProgress == part = "twohop" => Progress
=============================================================================
