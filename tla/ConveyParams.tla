----------------------------- MODULE ConveyParams -----------------------------
(***************************************************************************)
(* The choice of a conveyor's parameters (convey/convey.c): convey_new()   *)
(* and convey_new_elastic() hand a limit on memory to convey_parameters(), *)
(* which starts from the parameters it likes best and reduces them until   *)
(* convey_memory_usage() meets the limit.  Each pass of its loop is an     *)
(* action.  sync is false throughout (convey.c:332) and simple conveyors   *)
(* are never chosen; only one estimate is made with sync.                  *)
(***************************************************************************)
EXTENDS Integers, FiniteSets

CONSTANTS
  SizeMax,     \* SIZE_MAX, stands for no limit
  Limits,      \* the values of max_bytes
  ItemBounds,  \* the values of item_bound
  Groups,      \* the pairs <<PROCS, n_local>> that callers pass
  PerNode,     \* PerNode[n_procs]: convey_procs_per_node()
  Preferred    \* the values of CONVEY_BUFFER_SIZE

Kind == {"ordinary", "elastic"}

VARIABLES
  builder, asked,                 \* which constructor; its argument n_local
  max_bytes, n_procs, built_local,
  n_local, capacity, n_buffers, order, step,
  pc                           \* "reducing", "done", "trapped"

input == <<builder, asked, max_bytes, n_procs, built_local>>
vars  == <<input, n_local, capacity, n_buffers, order, step, pc>>

-----------------------------------------------------------------------------
porter_usage(cap, procs, bufs) == procs * (2*bufs*(16 + cap) + 8 + 8*bufs)

\* convey_memory_usage(capacity, false, order, n_procs, n_local, n_buffers)
convey_memory_usage(cap, ord, procs, local, bufs) ==
  CASE ord = 1 -> porter_usage(cap, procs, bufs)
    [] ord = 2 -> porter_usage(cap, local, bufs)
                    + porter_usage(cap, procs \div local, bufs)
    [] ord = 3 -> 2 * porter_usage(cap, local, bufs)
                    + porter_usage(cap, 1 + (procs - 1) \div (local*local), bufs)

\* convey_memory_usage(capacity, true, 2, n_procs, n_local, 1)
TwoHopUsage(cap, procs, local) ==
  LET rows   == procs \div local
      bigcap == IF local > rows THEN (cap*local) \div rows
                                ELSE (cap*rows) \div local
  IN 2*(cap + bigcap) + 56*(local + rows)

\* The fastest conveyor, whatever memory it takes.
FastestOrder(procs, local) ==
  IF ~(local > 1 /\ local < procs) THEN 1
  ELSE LET middle == procs \div (local*local)
       IN IF middle*middle >= local THEN 3 ELSE 2

\* What is left for the conveyor proper once the two monster buffers of an
\* elastic conveyor are deducted.
Deducted(max, bound) ==
  IF max = SizeMax THEN max ELSE IF 2*bound > max THEN 0 ELSE max - 2*bound

\* The value of n_local with which the conveyor will be built.
LocalFor(k, local, procs) ==
  IF k = "ordinary" /\ local = 0 THEN PerNode[procs] ELSE local

Init ==
  /\ builder \in Kind
  /\ \E max \in Limits, bound \in ItemBounds, group \in Groups :
       /\ max_bytes = IF builder = "elastic" THEN Deducted(max, bound) ELSE max
       /\ n_procs = group[1]
       /\ asked = group[2]
       /\ built_local = LocalFor(builder, asked, n_procs)
  /\ n_local = built_local
  /\ capacity \in Preferred
  /\ n_buffers = 2
  /\ order = FastestOrder(n_procs, n_local)
  /\ step = 1
  /\ pc = IF max_bytes = SizeMax THEN "done" ELSE "reducing"

usage == convey_memory_usage(capacity, order, n_procs, n_local, n_buffers)

-----------------------------------------------------------------------------
Meets(max) == usage <= max

Accept ==
  /\ pc = "reducing" /\ Meets(max_bytes)
  /\ pc' = "done"
  /\ UNCHANGED <<input, n_local, capacity, n_buffers, order, step>>

\* Halve the local group while it is even and too large.
HalvedWhile(local, too_large) ==
  LET halved[x \in Nat] ==
        IF x % 2 = 0 /\ x \in too_large THEN halved[x \div 2] ELSE x
  IN halved[local]

\* Two hops, if a smaller local group makes them cheaper.
Balanced2 ==
  LET new_local == HalvedWhile(n_local, {x \in Nat : x*x > 4*n_procs})
      estimate  == TwoHopUsage(capacity, n_procs, new_local)
  IN IF new_local # n_local /\ n_procs > new_local /\ estimate < usage
     THEN [order |-> 2, local |-> new_local, usage |-> estimate]
     ELSE [order |-> order, local |-> n_local, usage |-> usage]

\* Then three hops, likewise.
Balanced3(b) ==
  LET new_local == HalvedWhile(b.local, {x \in Nat : x*x*x > 8*n_procs})
      estimate  == convey_memory_usage(capacity, 3, n_procs, new_local, 1)
  IN IF /\ new_local # b.local /\ n_procs > new_local*new_local
        /\ estimate < b.usage
     THEN [b EXCEPT !.order = 3, !.local = new_local] ELSE b

\* The new capacity at step 3, which divides by max_bytes.
Scaled == LET ratio == (capacity * usage) \div max_bytes
          IN IF ratio > 1 THEN ratio - 1 ELSE 1

\* MUTANT: a capacity of two is never reduced.
HalvedUp(cap) == cap \div 2 + 1

\* The new capacity from step 4 on.
Halved(cap) == (cap + 1) \div 2

Reduce ==
  /\ pc = "reducing" /\ ~Meets(max_bytes)
  /\ step' = IF step < 4 THEN step + 1 ELSE 4      \* later steps are like 4
  /\ \/ /\ step = 1
        /\ n_buffers' = 1
        /\ UNCHANGED <<n_local, capacity, order, pc>>
     \/ /\ step = 2
        /\ order' = Balanced3(Balanced2).order
        /\ n_local' = Balanced3(Balanced2).local
        /\ UNCHANGED <<capacity, n_buffers, pc>>
     \/ /\ step = 3 /\ max_bytes # 0
        /\ capacity' = Scaled
        /\ UNCHANGED <<n_local, n_buffers, order, pc>>
     \/ /\ step = 3 /\ max_bytes = 0
        /\ pc' = "trapped"
        /\ UNCHANGED <<n_local, capacity, n_buffers, order>>
     \/ /\ step = 4 /\ capacity > 1
        /\ capacity' = Halved(capacity)
        /\ UNCHANGED <<n_local, n_buffers, order, pc>>
     \/ /\ step = 4 /\ capacity = 1
        /\ pc' = "done"
        /\ UNCHANGED <<n_local, capacity, n_buffers, order>>
  /\ UNCHANGED input

Next == Accept \/ Reduce

-----------------------------------------------------------------------------
(* The conveyor that is built.  convey_new() keeps its own n_local, which the *)
(* balanced one of convey_parameters() does not reach.                        *)

\* convey_new_tensor: the number of hops for which there are enough PEs.
AvailableOrder(ord) ==
  CASE ord = 3 /\ n_procs > built_local*built_local /\ built_local # 1 -> 3
    [] ord \in {2, 3} /\ n_procs > built_local /\ built_local # 1     -> 2
    [] OTHER                                                         -> 1

\* The memory that a conveyor of these parameters takes.
Taken(cap, ord, bufs) ==
  convey_memory_usage(cap, AvailableOrder(ord), n_procs, built_local, bufs)

\* convey_new_tensor takes the parameters.
Constructible == /\ capacity > 0 /\ n_buffers \in {1, 2} /\ order \in 1 .. 3
                 /\ order > 1 => built_local # 0 /\ n_procs % built_local = 0

\* The conveyor takes no more memory than the limit, or as little as any
\* conveyor for these PEs.
WithinLimit ==
  \/ max_bytes = SizeMax
  \/ Taken(capacity, order, n_buffers) <= max_bytes
  \/ \A ord \in 1 .. 3 : Taken(capacity, order, n_buffers) <= Taken(1, ord, 1)
=============================================================================
