-------------------------------- MODULE Packer --------------------------------
(***************************************************************************)
(* How a porter spreads its packets for a codec that wants a wider stride, *)
(* and gathers them again (convey/packer.c): the generic functions, and    *)
(* the special ones for packets of 12 to 36 bytes, of which the first two  *)
(* are written with shuffles of vectors.  Memory is a sequence of quads of *)
(* 4 bytes, and sizes are in quads.                                        *)
(***************************************************************************)
EXTENDS Integers, SequencesExt

Zeros(k) == [i \in 1 .. k |-> 0]

\* The k quads of m from offset o.
Cut(m, o, k) == SubSeq(m, o + 1, o + k)

-----------------------------------------------------------------------------
(* generic_pack: the first p quads of n items, from one stride to another *)

generic_unpack(n, area, p, stride) ==
  FlattenSeq([i \in 1 .. n |-> Cut(area, p*(i-1), p) \o Zeros(stride - p)])

generic_repack(n, work, p, stride) ==
  FlattenSeq([i \in 1 .. n |-> Cut(work, stride*(i-1), p)])

-----------------------------------------------------------------------------
(* Vectors of four quads, the least significant first *)

ZeroVector == Zeros(4)

Vector(m, i) == Cut(m, 4*i, 4)

\* _mm_alignr_epi8(hi, lo, 4*s)
Alignr(hi, lo, s) == Cut(lo \o hi, s, 4)

\* The k lowest quads of x, and the others of y.
Blend(k, x, y) == SubSeq(x, 1, k) \o SubSeq(y, k + 1, 4)

Keep3(x) == Blend(3, x, ZeroVector)
Or(x, y) == [i \in 1 .. 4 |-> IF x[i] = 0 THEN y[i] ELSE x[i]]

\* _mm_shuffle_epi32(x, 0x9C): quads 0, 3, 1, 2
Shuffle9C(x) == <<x[1], x[4], x[2], x[3]>>

\* Groups of four items by vectors, what remains one by one.  m goes from
\* stride a to stride b by the conversion Four of a group; the items that
\* remain are cut to p quads and padded with zeros.
ByFours(n, m, a, b, p, Four(_)) ==
  FlattenSeq([g \in 1 .. n \div 4 |-> FlattenSeq(Four(Cut(m, 4*a*(g-1), 4*a)))])
    \o FlattenSeq([i \in 1 .. n % 4 |->
                     Cut(m, 4*a*(n \div 4) + a*(i-1), p) \o Zeros(b - p)])

-----------------------------------------------------------------------------
ssse3_unpack_12to16(n, area) ==
  LET Four(m) == LET a == Vector(m, 0)  b == Vector(m, 1)  c == Vector(m, 2)
                 IN << Keep3(a), Keep3(Alignr(b, a, 3)),
                       Keep3(Alignr(c, b, 2)), Alignr(ZeroVector, c, 1) >>
  IN ByFours(n, area, 3, 4, 3, Four)

ssse3_repack_16to12(n, work) ==
  LET z == ZeroVector
      Four(m) == LET a == Vector(m, 0)  b == Vector(m, 1)
                     c == Vector(m, 2)  d == Vector(m, 3)
                 IN << Or(Alignr(b, z, 1), a),
                       Or(Alignr(c, z, 2), Alignr(z, b, 1)),
                       Or(Alignr(d, z, 3), Alignr(z, c, 2)) >>
  IN ByFours(n, work, 4, 3, 3, Four)

ssse3_unpack_20to24(n, area) ==
  LET Four(m) == LET x == [i \in 0 .. 4 |-> Vector(m, i)]
                     t == Alignr(x[4], x[3], 2)
                 IN << x[0], Shuffle9C(Keep3(x[1])), Keep3(Alignr(x[2], x[1], 3)),
                       Alignr(x[3], x[2], 2), Shuffle9C(Keep3(t)),
                       Alignr(ZeroVector, x[4], 1) >>
  IN ByFours(n, area, 5, 6, 5, Four)

ssse3_repack_24to20(n, work) ==
  LET z == ZeroVector
      Four(m) == LET y == [i \in 0 .. 5 |-> Vector(m, i)]
                     t == Alignr(y[4], y[3], 2)
                     s == Alignr(y[4], z, 3)
                 IN << y[0], Blend(1, y[1], Alignr(y[2], y[1], 1)),
                       Alignr(y[3], Alignr(y[2], z, 3), 2),
                       Blend(3, t, s), Alignr(y[5], y[4], 3) >>
  IN ByFours(n, work, 6, 5, 5, Four)

-----------------------------------------------------------------------------
\* Item by item, with sizes that the compiler knows

unpack_28to32(n, area) == generic_unpack(n, area, 7, 8)
repack_32to28(n, work) == generic_repack(n, work, 7, 8)
unpack_36to40(n, area) == generic_unpack(n, area, 9, 10)
repack_40to36(n, work) == generic_repack(n, work, 9, 10)

\* porter_choose_packer: which functions a codec gets, from its stride and its
\* alignment.
unpack(n, area, p, stride, align) ==
  CASE stride = 6 /\ align >= 16 /\ p = 5 -> ssse3_unpack_20to24(n, area)
    [] stride = 4 /\ align >= 16 /\ p = 3 -> ssse3_unpack_12to16(n, area)
    [] stride = 8 /\ p = 7  -> unpack_28to32(n, area)
    [] stride = 10 /\ p = 9 -> unpack_36to40(n, area)
    [] OTHER -> generic_unpack(n, area, p, stride)

repack(n, work, p, stride, align) ==
  CASE stride = 6 /\ align >= 16 /\ p = 5 -> ssse3_repack_24to20(n, work)
    [] stride = 4 /\ align >= 16 /\ p = 3 -> ssse3_repack_16to12(n, work)
    [] stride = 8 /\ p = 7  -> repack_32to28(n, work)
    [] stride = 10 /\ p = 9 -> repack_40to36(n, work)
    [] OTHER -> generic_repack(n, work, p, stride)
=============================================================================
