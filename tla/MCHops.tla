-------------------------------- MODULE MCHops --------------------------------
(***************************************************************************)
(* Tensor and MpiPorter side by side, for TLC: a behaviour is one of them  *)
(* at work, while the other stays in an initial state.  Both are halves of *)
(* a matrix conveyor whose porters use MPI: its hops and pivots over the   *)
(* links, and a link over MPI.                                             *)
(***************************************************************************)
EXTENDS Tensor, MpiPorter

\* PE 0 streams across both hops to PE 3, and then PE 3 one item to PE 2.
NoItems      == [p \in Procs |-> [d \in Procs |-> 0]]
TensorStream == <<[NoItems EXCEPT ![0][3] = 2], [NoItems EXCEPT ![3][2] = 1]>>

\* Rank 0 streams to rank 1: one item more than its two buffers take; then rank 1
\* sends one item back.
To(q, k)  == [p \in Ranks |-> [d \in Ranks |-> IF p # q /\ d = q THEN k ELSE 0]]
MpiStream == <<To(1, 3), To(0, 1)>>

VARIABLE part   \* the one at work

PartInit == part \in {"tensor", "mpiporter"} /\ TensorInit /\ InitMpi

OfTensor(A) == part = "tensor"    /\ A /\ UNCHANGED <<part, mpivars>>
OfMpi(A)    == part = "mpiporter" /\ A /\ UNCHANGED <<part, tensorvars>>

\* The fairness of TensorFairness and FairnessMpi.  As one only is at work, a
\* condition here stands for one of either.
Often(p) ==
  \/ OfTensor(TensorAdvance(p) \/ (told[p] /\ StartAdvance(p, TRUE)))
  \/ OfMpi(p \in Live /\ Advance(p))
  \/ OfMpi(p = 2 /\ \E q, d \in Live : Network(q, d))
  \/ OfMpi(p = 3 /\ \E q, d \in Live : PushRoom(q, d) \/ PushNoRoom(q, d))

IfAtTimes(p) ==
  \/ OfTensor(TensorPull(p))
  \/ OfMpi(p \in Live /\ (Borrow(p) \/ ReturnMpi(p)))
  \/ OfMpi(p - 2 \in Live /\ TakeMpi(p - 2))

Together ==
  \/ OfTensor(\E k \in Hop : \E p \in Procs : \E q \in Peers[k][p] : Sends(k, p, q))
  \/ OfMpi(ResetBarrier \/ SetupBarrier \/ \E p \in Live : Cycle(p))

hopvars == <<part, tensorvars, mpivars>>

PartSpec ==
  /\ PartInit
  /\ [][OfTensor(TensorNext) \/ OfMpi(NextMpi)]_hopvars
  /\ \A p \in Procs : WF_hopvars(Often(p)) /\ SF_hopvars(IfAtTimes(p))
  /\ WF_hopvars(Together)
  /\ <>[][\A p \in Procs : ~TensorUnpull(p)]_tensorvars

\* Once all clients of a matrix conveyor are done the endgames of its hops end,
\* as Completes says, and every rank over MPI completes every round, as
\* Termination says.
HopsEnd ==
  (part = "tensor" => \A p \in Procs : told[p]) ~>
     IF part = "tensor"
     THEN \A p \in Procs : tensor_state[p] \in {"complete", "dormant"}
     ELSE AllRanksAt("dormant") /\ \A p \in Live : mpi_round[p] = MpiRounds
=============================================================================
