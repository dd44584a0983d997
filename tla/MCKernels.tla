------------------------------ MODULE MCKernels ------------------------------
(* Instances of Kernels for TLC *)
EXTENDS Kernels

-----------------------------------------------------------------------------
(* ConveyParams: limits from none at all to more than any group needs *)

SomeMemory == {300, 1000, 2500, 6000, 15000, 10^6}
MCLimits   == SomeMemory \cup {0}

\* Group sizes that lead to one, two and three hops, and local groups so large
\* that a smaller one takes less memory.
MCGroups == {<<1, 1>>, <<4, 2>>, <<6, 3>>, <<16, 4>>, <<16, 8>>, <<32, 2>>,
             <<64, 2>>, <<64, 32>>, <<64, 64>>, <<16, 0>>}

MCPerNode == [procs \in {group[1] : group \in MCGroups} |->
                IF procs % 4 = 0 THEN 4 ELSE 1]

-----------------------------------------------------------------------------
(* ItemRoute *)

Whole(procs, local, ord, shrink, elastic) ==
  [procs |-> procs, local |-> local, order |-> ord, shrink |-> shrink,
   elastic |-> elastic, ends |-> 0 .. procs-1]

\* The PEs about the boundaries of the local groups and of their squares.
Edges(n) == {0, 1, n-2, n-1}
Boundary(procs, local) ==
  {p \in 0 .. procs-1 :
     /\ p % local \in Edges(local)
     /\ p \div local \in Edges(local) \cup Edges(procs \div local)}
Large(procs, local, ord, shrink, elastic) ==
  [procs |-> procs, local |-> local, order |-> ord, shrink |-> shrink,
   elastic |-> elastic, ends |-> Boundary(procs, local)]

\* A matrix with a rank that its tag of one byte cannot hold.
WideMatrix == Large(514, 257, 2, TRUE, FALSE)

\* A vector; a matrix of 4 groups; a tensor whose last square of PEs is half
\* empty; the least local group for which the remote tag takes two bytes.  The
\* elastic ones have tags of full width.
MCShapes == {WideMatrix, Whole(4, 2, 1, TRUE, FALSE), Whole(12, 3, 2, TRUE, FALSE),
             Whole(12, 3, 2, FALSE, FALSE), Whole(22, 2, 3, TRUE, FALSE),
             Large(595, 17, 3, TRUE, FALSE), Whole(12, 3, 2, FALSE, TRUE),
             Whole(22, 2, 3, FALSE, TRUE), Large(595, 17, 3, FALSE, TRUE)}

-----------------------------------------------------------------------------
(* Codec: buffers with a few items that differ from the others, in the first *)
(* or the last quad, in two bits of one quad and one of the next, or far     *)
(* apart; their numbers are odd, even, and one more than a multiple of four  *)

Variant(q, k) ==
  [i \in 1 .. q |-> CASE k = 1 /\ i = q      -> 3
                      [] k = 2 /\ i = 1      -> 2
                      [] k = 2 /\ i = 2      -> 0
                      [] k = 3 /\ i \in {2, q} -> 0
                      [] k = 3 /\ i = 5 /\ i # q -> 2
                      [] OTHER               -> 1]

Filled(codec, q, n) ==
  {[codec |-> codec, quads |-> q, stale |-> stale, max_items |-> n + spare,
    items |-> [i \in 1 .. n |-> Variant(q, IF i \in odd THEN k ELSE 0)]] :
     odd \in SUBSET {1, 2, n}, k \in 1 .. 3, stale \in {0, 3}, spare \in {0, 2}}

\* The quads of an item and the number of items: the sizes for which the codecs
\* join items in fours and pairs, those with functions to spread them, a large
\* one, and too few items to compress.
Fills == {<<1, 15>>, <<1, 10>>, <<2, 9>>, <<3, 9>>, <<3, 2>>, <<5, 10>>, <<7, 5>>,
           <<9, 4>>}

MCInputs == UNION {Filled(codec, f[1], f[2]) : codec \in {"AVX2", "SSSE3"}, f \in Fills}

-----------------------------------------------------------------------------
(* Accel: the tags of vectors, matrices and tensors, short and long *)

MCWidths == {<<0>>, <<4>>, <<4, 1>>, <<4, 4>>, <<4, 1, 4>>, <<4, 2, 4>>, <<4, 4, 4>>}
=============================================================================
