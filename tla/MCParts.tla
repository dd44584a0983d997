-------------------------------- MODULE MCParts --------------------------------
(***************************************************************************)
(* Kernels, Programs and Elastic side by side, for TLC: a behaviour is one *)
(* of them at work, while the others stay in an initial state.             *)
(***************************************************************************)
EXTENDS MCKernels, MCPrograms, Elastic

AllKinds == {"put", "mpi", "trivial"}

\* In an elastic conveyor PE 0 pushes to both PEs: a large item follows a large
\* one for the same PE or for the other one.
Stream == << <<1, 2>>, <<0, 0>> >>

ClientQuota == [p \in PE |-> [d \in PE |-> Stream[p + 1][d + 1]]]

VARIABLE part   \* the one at work

NoKernel  == /\ kernel = Idle
             /\ ParamsIdle /\ RouteIdle /\ CodecIdle /\ AccelIdle /\ DivisionIdle
NoProgram == program = "exchange" /\ ExchangeInit(FALSE, 1) /\ mat = {}
NoElastic == Init /\ kind = "trivial" /\ large = {}

PartInit ==
  /\ part \in {"kernel", "program", "elastic"}
  /\ IF part = "kernel"  THEN KernelInit  ELSE NoKernel
  /\ IF part = "program" THEN ProgramInit ELSE NoProgram
  /\ IF part = "elastic" THEN Init        ELSE NoElastic

PartNext ==
  \/ part = "kernel"  /\ KernelNext  /\ UNCHANGED <<part, programvars, vars>>
  \/ part = "program" /\ ProgramNext /\ UNCHANGED <<part, kernelvars, vars>>
  \/ part = "elastic" /\ Next        /\ UNCHANGED <<part, kernelvars, programvars>>

partvars == <<part, kernelvars, programvars, vars>>

\* Each has the fairness of its own specification.
PartSpec ==
  /\ PartInit /\ [][PartNext]_partvars
  /\ WF_kernelvars(ParamsStep)
  /\ \A p \in Thread : WF_programvars(part = "program" /\ Step(p))
  /\ \A p \in PE, what \in Duties : WF_vars(part = "elastic" /\ Duty(p, what))
  /\ WF_vars(part = "elastic" /\ Barriers) /\ UnpullsEnd

\* Every program ends, as ProgramsEnd says.
ProgramEnds == part = "program" => ProgramsEnd

\* Every elastic conveyor ends, as Termination says: all clients get their items
\* through and complete every round.
ElasticEnds == part = "elastic" => Termination
=============================================================================
