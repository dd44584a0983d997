-------------------------------- MODULE Routes --------------------------------
(***************************************************************************)
(* How the vector, matrix and tensor conveyors (order 1, 2 and 3) route an *)
(* item through their porters (convey/router.h, pivot.h, tensor.c,         *)
(* tensor.h, with MATRIX_REMOTE_HOP = 1).  The PEs form a grid whose rows  *)
(* are the local groups.  Porter k of a PE joins it with the PEs of a      *)
(* group, in which it has a rank; a packet carries a tag from which each   *)
(* hop finds the next rank, and the last one the origin of the item.       *)
(***************************************************************************)
EXTENDS Integers

CONSTANTS
  PROCS,
  NLocal,  \* n_local
  Order,   \* the number of porters
  Shrink   \* are the tags of the remote porter as short as can be?

ASSUME RouteAssumption ==
  /\ PROCS \in Nat \ {0} /\ NLocal \in Nat \ {0} /\ Order \in 1 .. 3
  /\ Order > 1 => NLocal > 1 /\ PROCS % NLocal = 0 /\ PROCS > NLocal
  /\ Order = 3 => PROCS > NLocal*NLocal /\ NLocal <= 256
  /\ Shrink \in BOOLEAN

Procs   == 0 .. PROCS-1
Hop     == 0 .. Order-1
squared == NLocal*NLocal
n_rows  == PROCS \div NLocal

-----------------------------------------------------------------------------
(* The groups that porters connect *)

IsLocal(k) == Order > 1 /\ k # 1

GroupSize(k) == IF Order = 1 THEN PROCS
                ELSE IF IsLocal(k) THEN NLocal
                ELSE IF Order = 2 THEN n_rows
                ELSE 1 + (PROCS - 1) \div squared

\* The rank of PE p in the group of its porter k.
Me(k, p) == IF Order = 1 THEN p
            ELSE IF IsLocal(k) THEN p % NLocal
            ELSE IF Order = 2 THEN p \div NLocal
            ELSE p \div squared

\* friends[k][r]: the PE that has rank r for porter k of PE p.  The remote hop
\* of a tensor also swaps the two local coordinates.
Friend(k, p, r) ==
  IF Order = 1 THEN r
  ELSE IF IsLocal(k) THEN NLocal * (p \div NLocal) + r
  ELSE IF Order = 2 THEN p + (r - p \div NLocal) * NLocal
  ELSE squared*r + NLocal * (p % NLocal) + ((p \div NLocal) % NLocal)

-----------------------------------------------------------------------------
(* Tags *)

\* The bytes of a tag of porter k.
TagBytes(k) == CASE ~Shrink             -> 4
                 [] Shrink /\ Order = 1 -> 0
                 [] Shrink /\ Order = 2 ->
                      IF k = 1 /\ n_rows <= 256 THEN 1 ELSE 4
                 [] Shrink /\ Order = 3 ->
                      IF k # 1 THEN 4 ELSE IF NLocal > 16 THEN 2 ELSE 1

\* What is left of a tag in the packet.
Kept(k, tag) == CASE TagBytes(k) = 0 -> 0
                  [] TagBytes(k) = 1 -> tag % 256
                  [] TagBytes(k) = 2 -> tag % 65536
                  [] TagBytes(k) = 4 -> tag

\* vector_route, matrix_route and tensor_route: the first hop.
Route(pe) ==
  LET lower  == pe % NLocal
      middle == (pe \div NLocal) - NLocal * (pe \div squared)
      upper  == pe \div squared
  IN CASE Order = 1 -> [tag |-> 0, next |-> pe]
       [] Order = 2 -> [tag |-> pe \div NLocal, next |-> lower]
       [] Order = 3 -> [tag |-> 256*upper + lower, next |-> middle]

\* MUTANT: the fields are always four bits wide.
FieldSizeNarrow == 16

\* The number of values of the lower of the two fields of a tag of the remote
\* porter of a tensor.
FieldSize == IF TagBytes(1) = 1 THEN 16 ELSE 256

\* pivot_mid, pivot_early and pivot_late: the hop after porter k.
Pivot(k, source, tag) ==
  CASE Order = 2 ->
         [tag |-> source, next |-> tag]
    [] Order = 3 /\ k = 0 ->
         [tag |-> source*FieldSize + (tag % 256), next |-> tag \div 256]
    [] Order = 3 /\ k = 1 ->
         [tag |-> source*256 + (tag \div FieldSize), next |-> tag % FieldSize]

\* elastic_pivot_mid, elastic_pivot_early and elastic_pivot_late: the same
\* hops, with tags that always take four bytes.
ElasticPivot(k, source, tag) ==
  CASE Order = 2           -> [tag |-> source, next |-> tag]
    [] Order = 3 /\ k = 0 -> [tag |-> source*256 + (tag % 256), next |-> tag \div 256]
    [] Order = 3 /\ k = 1 -> [tag |-> source*256 + (tag \div 256), next |-> tag % 256]

\* origin_from_tag
origin_from_tag(tag, source) ==
  CASE Order = 1 -> source
    [] Order = 2 -> source*NLocal + tag
    [] Order = 3 -> squared*(tag \div 256) + NLocal*source + (tag % 256)
=============================================================================
