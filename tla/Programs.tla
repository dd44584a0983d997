------------------------------- MODULE Programs -------------------------------
(***************************************************************************)
(* The programs that use conveyors, one of them at a time.  Each is a loop *)
(* that a PE runs by itself: it advances its conveyors, pushes what it can *)
(* and pulls what has come.  The PEs run at their own speed.               *)
(***************************************************************************)
EXTENDS Exchange, IndexGather, RandPerm, TopoSort, BiTensor, AllReduce

VARIABLE program

programvars == <<program, mat, conv, my>>

ProgramInit ==
  \E items \in BufSizes :
    \/ program = "exchange"  /\ ExchangeInit(FALSE, items) /\ mat = {}
    \/ program = "yoked"     /\ ExchangeInit(TRUE, items) /\ mat = {}
    \/ program = "gather"    /\ GatherInit(items) /\ mat = {}
    \/ program = "randperm"  /\ PermInit(items) /\ mat = {}
    \/ program = "toposort"  /\ TopoInit(items)
    \/ program = "bigather"  /\ BiInit(items) /\ mat = {}
    \/ program = "data_pe"   /\ ReduceInit(TRUE, items) /\ mat = {}
    \/ program = "pe_data"   /\ ReduceInit(FALSE, items) /\ mat = {}

Step(p) ==
  /\ \/ program \in {"exchange", "yoked"} /\ ExchangeStep(p)
     \/ program = "gather" /\ GatherStep(p)
     \/ program = "randperm" /\ PermStep(p)
     \/ program = "toposort" /\ TopoStep(p)
     \/ program = "bigather" /\ BiStep(p)
     \/ program \in {"data_pe", "pe_data"} /\ ReduceStep(p)
  /\ UNCHANGED <<program, mat>>

ProgramFinished == AllThreadsAt({"done"})

ProgramNext == (\E p \in Thread : Step(p)) \/ (ProgramFinished /\ UNCHANGED programvars)

\* Every PE keeps running its program.
ProgramSpec == /\ ProgramInit /\ [][ProgramNext]_programvars
               /\ \A p \in Thread : WF_programvars(Step(p))

-----------------------------------------------------------------------------
(* Properties *)

\* What each program is for: its results are right when it has finished, in
\* whatever order the items came and whichever pushes failed.  Of a reduction
\* this asks only for what its conveyor brings; for the rest see Sums.
Results ==
  /\ program \in {"exchange", "yoked"} => Exchanged
  /\ program = "gather"   => Gathered
  /\ program = "randperm" => Permuted
  /\ program = "toposort" => Sorted
  /\ program \in {"data_pe", "pe_data"} => Added

\* The result of a reduction is the sum of the vectors of all PEs, as main
\* asserts (data_pe.cpp:122, pe_data.cpp:122).
Sums == program \in {"data_pe", "pe_data"} => Summed

\* A biconveyor answers each query once and returns the replies in the order
\* of the queries (bitensor.c, bigather.c).
Answers ==
  INSTANCE AnswerQueue WITH
    PE      <- Thread,
    asked   <- IF program = "bigather" THEN [p \in Thread |-> my[p].asked]
                                       ELSE [p \in Thread |-> <<>>],
    taken   <- IF program = "bigather" THEN [p \in Thread |-> my[p].taken]
                                       ELSE [p \in Thread |-> <<>>],
    closed  <- IF program = "bigather" THEN [p \in Thread |-> my[p].closed]
                                       ELSE [p \in Thread |-> FALSE],
    session <- [p \in Thread |-> 1]
RepliesSpec == Answers!Spec

\* Every program ends: no PE waits for ever for items that another one holds
\* back, or for others to be done.
ProgramsEnd == <>ProgramFinished
=============================================================================
