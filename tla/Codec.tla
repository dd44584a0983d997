-------------------------------- MODULE Codec --------------------------------
(***************************************************************************)
(* The compression of a porter's buffers (convey/codata.c, squeeze.c): the *)
(* sender finds the bits (AVX2) or the bytes (SSSE3) that are the same in  *)
(* all its items, sends them once, and packs the others; the receiver      *)
(* undoes it.  A quad of 4 bytes has 2 bits here, each of which stands for *)
(* 16, and its bytes are equal or not together; so a word has 4 bits.      *)
(* Sizes are in bytes, positions in memory are in quads, words or vectors. *)
(***************************************************************************)
EXTENDS Packer

CONSTANT
  Inputs   \* records: the codec, the quads of a packet, the packets that a
           \* buffer holds, the items, and what the workspace holds at first

VARIABLES
  input,   \* one of Inputs
  stage,   \* how far the buffer has come
  work,    \* the workspace of the codec
  pattern, \* the varying bits (mask) and the constant ones (stamp)
  sent,    \* what the compressor made
  reach,   \* how much of the buffer the last loop has stored or loaded
  area     \* the data of the receiver's buffer
codecVars == <<input, stage, work, pattern, sent, reach, area>>

NoPattern == [mask |-> <<>>, stamp |-> <<>>]
Unsent    == [bytes |-> 0]
n_items   == Len(input.items)

-----------------------------------------------------------------------------
(* Layouts *)

words   == (input.quads + 1) \div 2
vectors == (input.quads + 3) \div 4

avx2_plan == [align |-> 32, stride |-> 2*words, slack |-> 3,
              offset |-> 16 * (words % 2), overrun |-> 64]

ssse3_plan == [align |-> 8, slack |-> 1, offset |-> 2 * (vectors % 2),
               stride |-> IF input.quads > 2 THEN input.quads ELSE 2,
               overrun |-> 16]

layout == IF input.codec = "AVX2" THEN avx2_plan ELSE ssse3_plan

\* codec_padding: what to skip, after the 16 bytes of the buffer's header.
skip == LET used == 16 % layout.align
        IN layout.offset - used + IF layout.offset < used THEN layout.align ELSE 0

capacity == 4 * input.quads * input.max_items
original == 4 * input.quads * n_items

-----------------------------------------------------------------------------
(* Memory: the stores that a loop makes one after the other *)

Store(at, cells) == [at |-> at, cells |-> cells]

Apply(mem, stores) ==
  LET write(m, s) ==
        [i \in s.at+1 .. s.at+Len(s.cells) |-> s.cells[i - s.at]] @@ m
  IN FoldLeft(write, mem, stores)

\* The cells from the start of the memory to the last one stored.
Reach(stores) == Max({0} \cup {s.at + Len(s.cells) : s \in Range(stores)})

Stale(k) == [i \in 1 .. k |-> input.stale]

work_quads == layout.stride * (input.max_items + layout.slack)

\* The workspace once the packets are unpacked into it.
Unpacked ==
  LET packets == FlattenSeq(input.items)
      spread  == IF layout.stride > input.quads
                 THEN unpack(n_items, packets, input.quads, layout.stride, layout.align)
                 ELSE packets
  IN spread \o Stale(work_quads - Len(spread))

Copy(mem, to, from, k) == Apply(mem, <<Store(to, Cut(mem, from, k))>>)

-----------------------------------------------------------------------------
(* The AVX2 codec, on words: sets of bits *)

Bits(k)  == {b \in 0 .. 3 : (k \div 2^b) % 2 = 1}
Value(s) == SumSet({2^b : b \in s})

Word(mem, i) == Bits(mem[2*i + 1]) \cup {b + 2 : b \in Bits(mem[2*i + 2])}

\* Slots without an item of their own repeat the last one, or the last two.
avx2_patched ==
  LET n   == n_items
      one == IF words = 1 /\ n % 2 = 1 THEN Copy(work, 2*n, 2*n - 2, 2) ELSE work
      n1  == IF words = 1 THEN (n + 1) \div 2 ELSE n
  IN IF words <= 2 /\ n1 % 2 = 1 THEN Copy(one, 4*n1, 4*n1 - 4, 4) ELSE one

\* The items that find_pattern looks at, the last ones being copies.
looked_at == CASE words = 1 -> 4 * ((n_items + 3) \div 4)
               [] words = 2 -> 2 * ((n_items + 1) \div 2)
               [] words > 2 -> n_items

valid(i) == {b \in 0 .. 3 : 2*i + b \div 2 < input.quads}

avx2_pattern(mem) ==
  LET all  == [i \in 0 .. words-1 |-> {Word(mem, words*u + i) : u \in 0 .. looked_at-1}]
      same == [i \in 0 .. words-1 |-> {b \in valid(i) : \A z \in all[i] : b \in z}]
      some == [i \in 0 .. words-1 |-> {b \in valid(i) : \E z \in all[i] : b \in z}]
  IN [mask |-> [i \in 0 .. words-1 |-> some[i] \ same[i]], stamp |-> same]

\* _pext_u64 and _pdep_u64
Rank(b, m)    == Cardinality({c \in m : c < b})
Extract(z, m) == {Rank(b, m) : b \in z \cap m}
Deposit(z, m) == {b \in m : Rank(b, m) \in z}

\* The bits of y beyond a word, if there is one more.
carry(y, full) == IF full THEN {b - 4 : b \in {c \in y : c >= 4}} ELSE {}

\* One lane of avx2_squeeze: every step stores the word in the making, and
\* moves to the next one when it is full.
avx2_squeeze(mask, data) ==
  LET step(acc, k) ==
        LET m    == mask[(k - 1) % words]
            y    == {b + acc.bits : b \in Extract(data[k], m)}
            bits == acc.bits + Cardinality(m)
            full == bits >= 4
            x    == acc.x \cup {b \in y : b < 4}
        IN [p |-> acc.p + bits \div 4, bits |-> bits % 4,
            x |-> IF full THEN carry(y, full) ELSE x,
            out |-> Append(acc.out, Store(acc.p, <<x>>))]
      last == FoldLeft(step, [p |-> 0, bits |-> 0, x |-> {}, out |-> <<>>],
                       [k \in 1 .. Len(data) |-> k])
  IN IF last.bits > 0 THEN Append(last.out, Store(last.p, <<last.x>>)) ELSE last.out

\* One lane of avx2_unsqueeze: count words, from the packed ones at hand.
\* The word that follows the one at hand is always loaded.
avx2_unsqueeze(mask, stamp, count, packed) ==
  LET step(acc, k) ==
        LET m == mask[(k - 1) % words]
            z == {b - acc.bits : b \in {c \in packed[acc.p + 1] : c >= acc.bits}}
                   \cup {b + 4 - acc.bits : b \in packed[acc.p + 2]}
            bits == acc.bits + Cardinality(m)
        IN [p |-> acc.p + bits \div 4, bits |-> bits % 4,
            out |-> Append(acc.out, stamp[(k - 1) % words] \cup Deposit(z, m)),
            loaded |-> acc.p + 2 + bits \div 4]
  IN FoldLeft(step, [p |-> 0, bits |-> 0, out |-> <<>>, loaded |-> 2],
              [k \in 1 .. count |-> k])

groups == (n_items + 3) \div 4

\* The words of lane l: those of the items whose index is l modulo 4.
Lane(l) == [k \in 1 .. groups*words |->
              Word(work, words*(4*((k-1) \div words) + l) + ((k-1) % words))]

\* The size of the first k masks.
Varying(mask, k) == MapThenSumSet(LAMBDA i : Cardinality(mask[i]), 0 .. k-1)

avx2_compress ==
  LET bits   == Varying(pattern.mask, words)
      size   == (groups*bits + 3) \div 4
      stores == [l \in 0 .. 3 |-> avx2_squeeze(pattern.mask, Lane(l))]
  IN [bytes  |-> 16*words + 32*size, header |-> 16*words,
      mask   |-> pattern.mask, stamp |-> pattern.stamp,
      packed |-> [l \in 0 .. 3 |-> Apply([i \in 1 .. size + 2 |-> Bits(input.stale)],
                                         stores[l])],
      reach  |-> 16*words + 32*Reach(stores[0])]

\* The work buffer from the packed words, and what was loaded for it.
avx2_decompress(s) ==
  LET lane == [l \in 0 .. 3 |->
                 avx2_unsqueeze(s.mask, s.stamp, groups*words, s.packed[l])]
      word(i) == LET u == i \div words
                 IN lane[u % 4].out[words*(u \div 4) + (i % words) + 1]
  IN [work  |-> FlattenSeq([k \in 1 .. 4*groups*words |->
                  << Value(word(k-1) \cap {0, 1}), Value(word(k-1)) \div 4 >>]),
      reach |-> s.header + 32*lane[0].loaded]

-----------------------------------------------------------------------------
(* The SSSE3 codec, on vectors of four quads; small items go in pairs *)

paired == input.quads <= 2
spacing   == IF paired THEN 4 ELSE input.quads
rows  == IF paired THEN (n_items + 1) \div 2 ELSE n_items

\* The slot that completes the last pair repeats the item that, like it, comes
\* second in its pair.
ssse3_patched == IF paired /\ n_items % 2 = 1
                 THEN Copy(work, 2*n_items, 2*n_items - 4, 2) ELSE work

ssse3_pattern(mem) ==
  LET cells == [j \in 0 .. vectors-1 |-> [i \in 0 .. 3 |->
                  {mem[spacing*r + 4*j + i + 1] : r \in 0 .. rows-1}]]
      valid_cell(j, i) == IF paired THEN i % 2 < input.quads ELSE 4*j + i < input.quads
      varies(j, i)     == valid_cell(j, i) /\ Cardinality(cells[j][i]) > 1
  IN [mask  |-> [j \in 0 .. vectors-1 |-> {i \in 0 .. 3 : varies(j, i)}],
      stamp |-> [j \in 0 .. vectors-1 |-> [i \in 1 .. 4 |->
                   IF valid_cell(j, i-1) /\ ~varies(j, i-1)
                   THEN CHOOSE z \in cells[j][i-1] : TRUE ELSE 0]]]

\* Where vector j of item r goes among the packed quads.
Place(mask, j, r) == rows * Varying(mask, j) + r * Cardinality(mask[j])

\* _mm_shuffle_epi8 by the vectors of compute_extract, and by those of
\* ssse3_decompress
Gather(x, m)  == [i \in 1 .. 4 |-> IF \E b \in m : Rank(b, m) = i-1
                                   THEN x[1 + CHOOSE b \in m : Rank(b, m) = i-1] ELSE 0]
Scatter(x, m) == [i \in 1 .. 4 |-> IF i-1 \in m THEN x[1 + Rank(i-1, m)] ELSE 0]

ssse3_squeeze(mask) ==
  FlattenSeq([j \in 1 .. vectors |->
    IF mask[j-1] = {} THEN <<>>
    ELSE [r \in 1 .. rows |->
            Store(Place(mask, j-1, r-1),
                  Gather(Cut(work, spacing*(r-1) + 4*(j-1), 4), mask[j-1]))]])

ssse3_compress ==
  LET size   == rows * Varying(pattern.mask, vectors)
      stores == ssse3_squeeze(pattern.mask)
  IN [bytes  |-> 18*vectors + 4*size, header |-> 18*vectors,
      mask   |-> pattern.mask, stamp |-> pattern.stamp,
      packed |-> Apply(Stale(size + 4), stores),
      reach  |-> 18*vectors + 4*Reach(stores)]

\* MUTANT: the vectors are restored from the first to the last.
VectorOrderStraight == [k \in 1 .. vectors |-> k - 1]

\* The first vector of each item comes last, since the last vector of an item
\* spills into the first one of the next.
VectorOrder == [k \in 1 .. vectors |-> k % vectors]

ssse3_unsqueeze(s) ==
  FlattenSeq([k \in 1 .. vectors |->
    LET j == VectorOrder[k]
    IN [r \in 1 .. rows |->
          Store(spacing*(r-1) + 4*j,
                Or(s.stamp[j], Scatter(Cut(s.packed, Place(s.mask, j, r-1), 4),
                                       s.mask[j])))]])

ssse3_decompress(s) ==
  LET stores == ssse3_unsqueeze(s)
  IN [work  |-> Apply(Stale(work_quads), stores),
      reach |-> s.header + 4*Max({Place(s.mask, j, rows-1) + 4 : j \in 0 .. vectors-1})]

-----------------------------------------------------------------------------
CodecInit == /\ input \in Inputs /\ stage = "filled"
             /\ work = <<>> /\ pattern = NoPattern
             /\ sent = Unsent /\ reach = 0 /\ area = <<>>

(* porter_compress, as a buffer is sent *)

Unpack ==
  /\ stage = "filled" /\ stage' = "unpacked"
  /\ work' = Unpacked
  /\ UNCHANGED <<input, pattern, sent, reach, area>>

\* The room for compressed data.
Room == capacity - (skip + layout.overrun)

patched == IF input.codec = "AVX2" THEN avx2_patched ELSE ssse3_patched

\* find_pattern
FindPattern ==
  /\ stage = "unpacked" /\ stage' = "matched"
  /\ Room >= 0 /\ n_items >= 3
  /\ work' = patched
  /\ pattern' = IF input.codec = "AVX2" THEN avx2_pattern(patched)
                ELSE ssse3_pattern(patched)
  /\ UNCHANGED <<input, sent, reach, area>>

compressed == IF input.codec = "AVX2" THEN avx2_compress ELSE ssse3_compress

\* Does the compressor accept to make so many bytes?
Worthwhile(bytes) == bytes <= Room /\ bytes < original - original \div 8

Compress ==
  /\ stage = "matched" /\ Worthwhile(compressed.bytes)
  /\ stage' = "sent"
  /\ sent' = compressed /\ reach' = compressed.reach
  /\ UNCHANGED <<input, work, pattern, area>>

\* The buffer is sent as it is.
Refuse ==
  /\ \/ stage = "unpacked" /\ (Room < 0 \/ n_items < 3)
     \/ stage = "matched" /\ ~Worthwhile(compressed.bytes)
  /\ stage' = "restored"
  /\ area' = FlattenSeq(input.items)
  /\ UNCHANGED <<input, work, pattern, sent, reach>>

(* porter_decompress, as a buffer is borrowed whose header says that it is *)
(* compressed                                                              *)

decompressed == IF input.codec = "AVX2" THEN avx2_decompress(sent)
                ELSE ssse3_decompress(sent)

Decompress ==
  /\ stage = "sent" /\ stage' = "decompressed"
  /\ work' = decompressed.work /\ reach' = decompressed.reach
  /\ UNCHANGED <<input, pattern, sent, area>>

Repack ==
  /\ stage = "decompressed" /\ stage' = "restored"
  /\ area' = IF layout.stride > input.quads
             THEN repack(n_items, work, input.quads, layout.stride, layout.align)
             ELSE Cut(work, 0, n_items * input.quads)
  /\ UNCHANGED <<input, work, pattern, sent, reach>>

CodecNext == \/ Unpack \/ FindPattern \/ Compress \/ Refuse
             \/ Decompress \/ Repack

-----------------------------------------------------------------------------
(* Properties *)

\* Compressed or not, the items that a PE pulls from a buffer are those that
\* were pushed into it, whatever their number and size, and whatever an earlier
\* use has left in the workspace.
Restored == stage = "restored" => area = FlattenSeq(input.items)

\* No store or load of the vector loops, which go beyond what they are asked
\* to, leaves the buffers and the workspace; and the packed words of the AVX2
\* codec are aligned (assertions of squeeze.c:238 and :252).
InBounds ==
  /\ stage \in {"unpacked", "matched"} => Len(work) = work_quads
  /\ Len(work) <= work_quads
  /\ reach > 0 => skip + reach <= capacity
  /\ (input.codec = "AVX2" /\ sent # Unsent) => (16 + skip + sent.header) % 32 = 0

\* Only what varies between the items is sent (for small items of the SSSE3
\* codec, between those that have the same place in their pairs): the spare
\* slots of the workspace, which are packed along, add nothing to it.
Tight ==
  sent # Unsent =>
    /\ input.codec = "AVX2" =>
         \A i \in 0 .. words-1 : \A b \in sent.mask[i] :
           LET has(u) == (b % 2) \in Bits(input.items[u][2*i + b \div 2 + 1])
           IN \E u, w \in 1 .. n_items : has(u) # has(w)
    /\ input.codec = "SSSE3" =>
         \A j \in 0 .. vectors-1 : \A i \in sent.mask[j] :
           LET quad == 1 + IF paired THEN i % 2 ELSE 4*j + i
               same == {u \in 1 .. n_items : paired => (u - 1) % 2 = i \div 2}
           IN \E u, w \in same : input.items[u][quad] # input.items[w][quad]
=============================================================================
