------------------------------ MODULE MCBuffers ------------------------------
(***************************************************************************)
(* BiSimple and Exstack2 side by side, for TLC: a behaviour is one of them *)
(* at work, while the other stays in an initial state.  Both have one      *)
(* buffer for each PE, at either end.                                      *)
(***************************************************************************)
EXTENDS MCBiSimple, Exstack2

\* Thread 0 streams two items to thread 1, which has none to send.
OneWay2 == [p \in Thread |-> [d \in Thread |-> IF p = 0 /\ d = 1 THEN 2 ELSE 0]]

VARIABLE part   \* the one at work

NoSimple == InitBi /\ ~bi /\ opt = [scatter |-> FALSE, steady |-> FALSE]

PartInit ==
  /\ part \in {"simple", "exstack2"}
  /\ IF part = "simple" THEN InitBi ELSE NoSimple
  /\ InitEx2

PartNext ==
  \/ part = "simple"   /\ NextBi  /\ UNCHANGED <<part, ex2vars>>
  \/ part = "exstack2" /\ NextEx2 /\ UNCHANGED <<part, allvars>>

\* Each has the fairness of its own specification, while it is at work.
PartSpec ==
  /\ PartInit /\ [][PartNext]_<<part, allvars, ex2vars>>
  /\ WF_allvars(part = "simple" /\ CollectiveBi)
  /\ \A p \in PE : /\ WF_allvars(part = "simple" /\ AdvanceBi(p))
                   /\ SF_allvars(part = "simple" /\ Plain(Pull(p) \/ PullNothing(p)))
                   /\ <>[][~Unpull(p)]_allvars
  /\ \A p \in Thread :
       /\ WF_ex2vars(part = "exstack2" /\ Land(p))
       /\ WF_ex2vars(part = "exstack2" /\ ResetEx2(p))
       /\ SF_ex2vars(part = "exstack2" /\ Pop(p))
       /\ SF_ex2vars(part = "exstack2" /\ Endgame(p))
       /\ SF_ex2vars(part = "exstack2" /\ Finish(p))
  /\ WF_ex2vars(part = "exstack2" /\ FirstBarrier)
  /\ WF_ex2vars(part = "exstack2" /\ SecondBarrier)

\* A simple conveyor gets on, as Progress says.
SimpleProgress == part = "simple" => Progress

\* Every PE leaves every round of exstack2, as Termination says.
Exstack2Ends == part = "exstack2" => Termination
=============================================================================
