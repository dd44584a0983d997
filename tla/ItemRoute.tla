------------------------------ MODULE ItemRoute ------------------------------
(***************************************************************************)
(* The way of one item through a conveyor: it is pushed into porter 0, is  *)
(* pivoted from each porter into the next, and is pulled from the last.    *)
(***************************************************************************)
EXTENDS Integers

\* The conveyors: their size, whether they are elastic, and the PEs that items
\* come from and go to.
CONSTANT Shapes

VARIABLES
  shape,         \* the conveyor
  src, dest,     \* the PE that pushes the item, and the PE it is for
  here, hop,     \* where it is, and the porter that brought it there
  source, tag,   \* the rank of its sender for that porter, and its tag
  from           \* what the puller is told
vars == <<shape, src, dest, here, hop, source, tag, from>>

INSTANCE Routes WITH PROCS <- shape.procs, NLocal <- shape.local,
                     Order <- shape.order, Shrink <- shape.shrink

Nobody == -1

Init == /\ shape \in Shapes
        /\ src \in shape.ends /\ dest \in shape.ends
        /\ here = src /\ hop = -1 /\ source = 0 /\ tag = 0 /\ from = Nobody

\* Porter k of the PE at hand sends the item to the PE of rank r.next.
Move(k, r) ==
  /\ here'   = Friend(k, here, r.next)
  /\ source' = Me(k, here)
  /\ tag'    = Kept(k, r.tag)
  /\ hop'    = k
  /\ UNCHANGED <<shape, src, dest, from>>

Push == hop = -1 /\ Move(0, Route(dest))

\* The hop that follows porter hop.
NextHop == IF shape.elastic THEN ElasticPivot(hop, source, tag)
           ELSE Pivot(hop, source, tag)

PivotOn == hop \in 0 .. shape.order-2 /\ Move(hop + 1, NextHop)

Pull == /\ hop = shape.order-1 /\ from = Nobody
        /\ from' = origin_from_tag(tag, source)
        /\ UNCHANGED <<shape, src, dest, here, hop, source, tag>>

Next == Push \/ PivotOn \/ Pull

-----------------------------------------------------------------------------
(* Properties *)

\* The rank to which a hop sends an item is one of its group and stands for a
\* PE, although the last rows of a tensor may be missing.
RanksExist ==
  /\ here \in Procs
  /\ hop # -1 => source \in 0 .. GroupSize(hop)-1
  /\ hop \in 0 .. shape.order-2 =>
       NextHop.next \in 0 .. GroupSize(hop+1)-1

\* Both ends of a hop agree on it: an acknowledgement, which goes to the rank
\* that the item came from, reaches the PE that sent it.
HopsAreMutual == \A k \in Hop : Friend(k, Friend(k, here, Me(k, dest)), Me(k, here)) = here

\* The rank of its sender fits in the tag with which the item arrives.  Nothing
\* checks this in a matrix: its tag has one byte if the rows are few, however
\* many PEs a row has.
SenderFits == shape.order = 2 => Kept(1, Me(0, src)) = Me(0, src)

\* The item is pulled at its destination, and its puller learns the PE that
\* pushed it (documentation of convey_push and convey_pull).
RightPlace  == hop = shape.order-1 => here = dest
RightOrigin == from # Nobody => from = src
=============================================================================
