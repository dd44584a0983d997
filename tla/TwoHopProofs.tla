------------------------------ MODULE TwoHopProofs ------------------------------
(***************************************************************************)
(* TwoHop keeps its packets inside its buffers and implements FifoLinks,   *)
(* for every matrix of PEs, every size of the buffers and every bound.     *)
(* An item that is not pulled is in one of three buffers: a row buffer of  *)
(* its source, one that the PE in the corner has received, or a column     *)
(* buffer of its destination.  Read from the destination back, the buffers *)
(* hold the items after those pulled, in order and without a gap, however  *)
(* a pivot is interrupted.                                                 *)
(***************************************************************************)
EXTENDS TwoHop, FiniteSetTheorems, SequenceTheorems, WellFoundedInduction, TLAPS

-----------------------------------------------------------------------------
(* The inductive invariant *)

HeadType   == [row : Row, col : Col]
PacketType == [head : HeadType, item : Nat \ {0}]
EntryType  == [from : PE, item : Nat \ {0}]
AreaType   == [items : Seq(EntryType), next : Nat]
VoteType   == [cannot_comm : BOOLEAN, desire_comm : BOOLEAN, further_comm : BOOLEAN]

Types ==
  /\ steady    \in Steady
  /\ row_send  \in [PE -> [Col -> Seq(PacketType)]]
  /\ row_recv  \in [PE -> [Col -> Seq(PacketType)]]
  /\ col_recv  \in [PE -> [Row -> AreaType]]
  /\ overflow  \in [PE -> BOOLEAN]
  /\ row_quiet \in [PE -> BOOLEAN]
  /\ col_quiet \in [PE -> BOOLEAN]
  /\ pull_row  \in [PE -> 0 .. n_rows]
  /\ state     \in [PE -> {"dormant", "working", "endgame", "cleanup", "complete"}]
  /\ vote      \in [PE -> VoteType]
  /\ at        \in [PE -> {"client", "agree", "pivot", "begin"}]
  /\ over      \in [PE -> BOOLEAN]
  /\ pushed    \in [PE -> [PE -> Nat]]
  /\ got       \in [PE -> [PE -> Seq(Nat)]]
  /\ round     \in [PE -> Nat]

\* No buffer is filled beyond its end.
Room(p) ==
  /\ \A c \in Col : Len(row_send[p][c]) <= RowItems /\ Len(row_recv[p][c]) <= RowItems
  /\ \A r \in Row : /\ Len(col_recv[p][r].items) <= ColItems
                    /\ col_recv[p][r].next <= Len(col_recv[p][r].items)

\* The headers say where the packets come from.
Heads(p) ==
  /\ \A c \in Col : \A i \in 1 .. Len(row_send[p][c]) : row_send[p][c][i].head.col = ColOf(p)
  /\ \A c \in Col : \A i \in 1 .. Len(row_recv[p][c]) : row_recv[p][c][i].head.col = c
  /\ \A r \in Row : \A i \in 1 .. Len(col_recv[p][r].items) :
       RowOf(col_recv[p][r].items[i].from) = r

\* The packets of a row buffer for row r, and those of a column buffer from s
For(x, r)  == {i \in 1 .. Len(x) : x[i].head.row = r}
From(q, s) == {i \in 1 .. Len(q) : q[i].from = s}

Items(q, I)   == {q[i].item : i \in I}
InOrder(q, I) == \A i, j \in I : i < j => q[i].item < q[j].item
Before(A, B)  == \A a \in A, b \in B : a < b

\* The packets of a column buffer from s: those after the first k are to come,
\* the others can be put back, the last item first.
ToCome(q, k, s)  == {i \in From(q, s) : i > k}
ReadBack(q, k, s, g) ==
  \A i \in From(q, s) : i <= k =>
    /\ q[i].item <= g
    /\ \A v \in Nat : q[i].item < v /\ v <= g =>
         \E j \in From(q, s) : i < j /\ j <= k /\ q[j].item = v

\* The items from s for row r, n pushed and g pulled: the column buffer q, of
\* which k are pulled, the row buffer x at the corner and the row buffer y at s.
Flow(q, k, s, x, y, r, g, n) ==
  /\ k <= Len(q) /\ g <= n
  /\ InOrder(q, From(q, s)) /\ InOrder(x, For(x, r)) /\ InOrder(y, For(y, r))
  /\ Before(Items(q, ToCome(q, k, s)), Items(x, For(x, r)))
  /\ Before(Items(q, ToCome(q, k, s)), Items(y, For(y, r)))
  /\ Before(Items(x, For(x, r)), Items(y, For(y, r)))
  /\ Items(q, ToCome(q, k, s)) \cup Items(x, For(x, r)) \cup Items(y, For(y, r)) = g+1 .. n
  /\ ReadBack(q, k, s, g)

\* The PE in the row of s and the column of d
Corner(s, d) == Rank(RowOf(s), ColOf(d))

FlowOf(s, d) == Flow(col_recv[d][RowOf(s)].items, col_recv[d][RowOf(s)].next, s,
                     row_recv[Corner(s, d)][ColOf(s)], row_send[s][ColOf(d)], RowOf(d),
                     Len(got[d][s]), pushed[s][d])

NoneToSend(p)  == \A c \in Col : row_send[p][c] = <<>>
NoneToPivot(p) == \A c \in Col : row_recv[p][c] = <<>>
NoneToPull(p)  == \A r \in Row : col_recv[p][r].items = <<>> /\ col_recv[p][r].next = 0

\* Where a PE stands in its round.
Course(p) ==
  /\ \A r \in Row : r < pull_row[p] => col_recv[p][r].next = Len(col_recv[p][r].items)
  /\ over[p] /\ at[p] = "client" => state[p] # "working"
  /\ at[p] \in {"agree", "pivot"} =>
       /\ state[p] \notin {"complete", "dormant"}
       /\ vote[p].cannot_comm = need_pull(p) /\ vote[p].further_comm = ~over[p]
  /\ at[p] = "pivot" => pull_row[p] = n_rows /\ \A q \in PE : at[q] = "pivot"
  /\ at[p] = "begin" => state[p] = "dormant" /\ ~row_quiet[p] /\ col_quiet[p] /\ NoneToPull(p)

\* What the flags of the endgame say of all the PEs.
Ending(p) ==
  /\ col_quiet[p] /\ at[p] # "pivot" => NoneToPivot(p)
  /\ row_quiet[p] => \A q \in PE : over[q] /\ NoneToSend(q)
  /\ row_quiet[p] /\ col_quiet[p] /\ at[p] # "pivot" => \A q \in PE : NoneToPivot(q)
  /\ state[p] \in {"complete", "dormant"} =>
       pull_row[p] = n_rows /\ \A q \in PE : over[q] /\ NoneToSend(q) /\ NoneToPivot(q)

IInv == /\ Types
        /\ \A p \in PE : Room(p) /\ Heads(p) /\ Course(p) /\ Ending(p)
        /\ \A s, d \in PE : FlowOf(s, d)
        /\ \A p, q \in PE : round[p] = round[q]

-----------------------------------------------------------------------------
(* Numbers *)

\* A set of natural numbers that is not empty has a least one.
LEMMA LeastNumber ==
  ASSUME NEW T \in SUBSET Nat, T # {}
  PROVE  \E n \in T : \A m \in Nat : m < n => m \notin T
<1>1. \E n \in T : \A m \in T : <<m, n>> \notin OpToRel(<, Nat)
  BY WFMin, NatLessThanWellFounded, Zenon
<1>2. PICK n \in T : \A m \in T : <<m, n>> \notin OpToRel(<, Nat)
  BY <1>1, Zenon
<1>3. \A m \in Nat : m < n => <<m, n>> \in OpToRel(<, Nat)
  BY DEF OpToRel
<1> QED  BY <1>2, <1>3

\* Division with remainder, and a number given by its two digits.
LEMMA Divided ==
  ASSUME NEW x \in Nat, NEW n \in Nat \ {0}
  PROVE  /\ x = n * (x \div n) + (x % n)
         /\ x \div n \in Nat /\ x % n \in 0 .. n-1
OBVIOUS

LEMMA TwoDigits ==
  ASSUME NEW n \in Nat \ {0}, NEW q \in Nat, NEW r \in 0 .. n-1
  PROVE  /\ n*q + r \in Nat
         /\ (n*q + r) \div n = q /\ (n*q + r) % n = r
OBVIOUS

\* In a rectangle of h rows of n places, a number is below h*n when its row is
\* below h.
LEMMA Inside ==
  ASSUME NEW n \in Nat \ {0}, NEW h \in Nat, NEW q \in Nat, NEW r \in 0 .. n-1
  PROVE  q < h <=> n*q + r < n*h
<1>1. CASE q < h
  <2> DEFINE t == h - 1 - q
  <2>1. t \in Nat /\ h = q + 1 + t
    BY <1>1
  <2> HIDE DEF t
  <2>2. n*h = n*q + n + n*t
    BY <2>1
  <2>3. n*t \in Nat /\ n*q \in Nat
    BY <2>1
  <2> QED  BY <1>1, <2>2, <2>3
<1>2. CASE ~(q < h)
  <2> DEFINE t == q - h
  <2>1. t \in Nat /\ q = h + t
    BY <1>2
  <2> HIDE DEF t
  <2>2. n*q = n*h + n*t
    BY <2>1
  <2>3. n*t \in Nat /\ n*h \in Nat
    BY <2>1
  <2> QED  BY <1>2, <2>2, <2>3
<1> QED  BY <1>1, <1>2

\* The matrix of the PEs
LEMMA Shape ==
  /\ n_cols \in Nat \ {0} /\ n_rows \in Nat /\ N = n_cols * n_rows
  /\ RowItems \in Nat \ {0} /\ ColItems \in Nat \ {0}
<1>1. N \in Nat /\ n_cols \in Nat \ {0} /\ N % n_cols = 0
  BY ShapeAssumption
<1>2. N = n_cols * (N \div n_cols) + (N % n_cols) /\ N \div n_cols \in Nat
  BY <1>1, Divided
<1>3. N = n_cols * (N \div n_cols)
  BY <1>1, <1>2
<1> QED  BY <1>1, <1>2, <1>3, ShapeAssumption DEF n_rows

LEMMA Places ==
  ASSUME NEW p \in PE
  PROVE  RowOf(p) \in Row /\ ColOf(p) \in Col /\ Rank(RowOf(p), ColOf(p)) = p
<1> DEFINE r == p \div n_cols
           c == p % n_cols
<1>1. p \in Nat /\ p < N
  BY ShapeAssumption DEF PE
<1>2. p = n_cols * r + c /\ r \in Nat /\ c \in 0 .. n_cols - 1
  BY <1>1, Shape, Divided
<1> HIDE DEF r, c
<1>3. r < n_rows
  <2>1. n_cols * r + c < n_cols * n_rows
    BY <1>1, <1>2, Shape
  <2> QED  BY <2>1, <1>2, Shape, Inside
<1>4. Rank(r, c) = p
  BY <1>2, Shape DEF Rank
<1>5. r \in 0 .. n_rows - 1
  BY <1>2, <1>3, Shape
<1> QED  BY <1>2, <1>4, <1>5 DEF RowOf, ColOf, Row, Col, r, c

LEMMA Ranks ==
  ASSUME NEW r \in Row, NEW c \in Col
  PROVE  Rank(r, c) \in PE /\ RowOf(Rank(r, c)) = r /\ ColOf(Rank(r, c)) = c
<1>1. r \in Nat /\ r < n_rows /\ c \in 0 .. n_cols - 1
  BY Shape DEF Row, Col
<1>2. /\ n_cols * r + c \in Nat
      /\ (n_cols * r + c) \div n_cols = r /\ (n_cols * r + c) % n_cols = c
  BY <1>1, Shape, TwoDigits
<1>3. n_cols * r + c < n_cols * n_rows
  BY <1>1, Shape, Inside
<1>4. Rank(r, c) = n_cols * r + c
  BY <1>1, Shape DEF Rank
<1>5. Rank(r, c) \in Nat /\ Rank(r, c) < N
  BY <1>2, <1>3, <1>4, Shape
<1>6. Rank(r, c) \in PE
  BY <1>5, ShapeAssumption DEF PE
<1> QED  BY <1>2, <1>4, <1>6 DEF RowOf, ColOf

\* The line of slots
SlotOf(c, i) == c * RowItems + i

LEMMA SlotPlace ==
  ASSUME NEW n \in 1 .. Slots
  PROVE  /\ BufferOf(n) \in Col /\ PlaceOf(n) \in 1 .. RowItems
         /\ n = SlotOf(BufferOf(n), PlaceOf(n))
<1> DEFINE m == n - 1
           b == m \div RowItems
           i == m % RowItems
<1>0. Slots = RowItems * n_cols /\ Slots \in Nat
  BY Shape DEF Slots
<1>1. m \in Nat /\ m < Slots /\ n = m + 1
  BY <1>0
<1> HIDE DEF m
<1>2. m = RowItems * b + i /\ b \in Nat /\ i \in 0 .. RowItems - 1
  BY <1>1, Shape, Divided
<1> HIDE DEF b, i
<1>3. b < n_cols
  <2>1. RowItems * b + i < RowItems * n_cols
    BY <1>0, <1>1, <1>2
  <2> QED  BY <2>1, <1>2, Shape, Inside
<1>4. b \in 0 .. n_cols - 1 /\ i + 1 \in 1 .. RowItems
  BY <1>2, <1>3, Shape
<1>5. n = b * RowItems + (i + 1)
  BY <1>1, <1>2, Shape
<1>6. BufferOf(n) = b /\ PlaceOf(n) = i + 1
  BY DEF BufferOf, PlaceOf, b, i, m
<1> QED  BY <1>4, <1>5, <1>6 DEF Col, SlotOf

LEMMA PlaceSlot ==
  ASSUME NEW c \in Col, NEW i \in 1 .. RowItems
  PROVE  /\ SlotOf(c, i) \in 1 .. Slots
         /\ BufferOf(SlotOf(c, i)) = c /\ PlaceOf(SlotOf(c, i)) = i
<1>1. c \in Nat /\ c < n_cols /\ i - 1 \in 0 .. RowItems - 1 /\ i \in Nat
  BY Shape DEF Col
<1> DEFINE m == RowItems * c + (i - 1)
<1>2. m \in Nat /\ m \div RowItems = c /\ m % RowItems = i - 1
  BY <1>1, Shape, TwoDigits
<1>3. m < RowItems * n_cols
  BY <1>1, Shape, Inside
<1>4. SlotOf(c, i) = m + 1
  BY <1>1, Shape DEF SlotOf
<1> HIDE DEF m
<1>5. SlotOf(c, i) - 1 = m /\ SlotOf(c, i) \in 1 .. Slots
  <2>1. Slots = RowItems * n_cols /\ Slots \in Nat
    BY Shape DEF Slots
  <2> QED  BY <2>1, <1>2, <1>3, <1>4
<1> QED  BY <1>1, <1>2, <1>5 DEF BufferOf, PlaceOf

-----------------------------------------------------------------------------
(* Counting the members of a set of numbers *)

Count(G, n) == Cardinality(G \cap (1 .. n))

LEMMA CountType ==
  ASSUME NEW G, NEW n \in Nat
  PROVE  IsFiniteSet(G \cap (1 .. n)) /\ Count(G, n) \in Nat
<1>1. IsFiniteSet(1 .. n)
  BY FS_Interval
<1>2. G \cap (1 .. n) \in SUBSET (1 .. n)
  OBVIOUS
<1>3. IsFiniteSet(G \cap (1 .. n))
  BY <1>1, <1>2, FS_Subset
<1> QED  BY <1>3, FS_CardinalityType DEF Count

LEMMA CountZero ==
  ASSUME NEW G
  PROVE  Count(G, 0) = 0
<1>1. G \cap (1 .. 0) = {}
  OBVIOUS
<1> QED  BY <1>1, FS_EmptySet DEF Count

LEMMA CountNext ==
  ASSUME NEW G, NEW n \in Nat
  PROVE  Count(G, n+1) = Count(G, n) + (IF n+1 \in G THEN 1 ELSE 0)
<1> DEFINE S == G \cap (1 .. n)
           R == G \cap (1 .. n+1)
<1>1. IsFiniteSet(S) /\ Cardinality(S) \in Nat
  BY CountType DEF Count
<1>2. n+1 \notin S
  OBVIOUS
<1>3. CASE n+1 \in G
  <2>1. R = S \cup {n+1}
    BY <1>3
  <2> HIDE DEF S, R
  <2>2. Cardinality(R) = Cardinality(S) + 1
    BY <1>1, <1>2, <2>1, FS_AddElement
  <2> QED  BY <1>3, <2>2 DEF Count, S, R
<1>4. CASE n+1 \notin G
  <2>1. R = S
    BY <1>4
  <2> QED  BY <2>1, <1>1, <1>4 DEF Count
<1> QED  BY <1>3, <1>4

LEMMA CountMonotone ==
  ASSUME NEW G, NEW m \in Nat, NEW n \in Nat, m <= n
  PROVE  Count(G, m) <= Count(G, n)
<1>1. G \cap (1 .. m) \in SUBSET (G \cap (1 .. n))
  OBVIOUS
<1>2. IsFiniteSet(G \cap (1 .. n))
  BY CountType
<1> QED  BY <1>1, <1>2, FS_Subset DEF Count

\* A member counts.
LEMMA CountMember ==
  ASSUME NEW G, NEW m \in Nat, NEW n \in Nat, n \in G, m < n
  PROVE  Count(G, m) < Count(G, n)
<1>1. n-1 \in Nat /\ m <= n-1 /\ (n-1)+1 = n
  OBVIOUS
<1>2. Count(G, (n-1)+1) = Count(G, n-1) + (IF (n-1)+1 \in G THEN 1 ELSE 0)
  BY <1>1, CountNext
<1>3. Count(G, n) = Count(G, n-1) + 1
  BY <1>1, <1>2
<1>4. Count(G, m) <= Count(G, n-1)
  BY <1>1, CountMonotone
<1>5. Count(G, m) \in Nat /\ Count(G, n-1) \in Nat
  BY <1>1, CountType
<1> QED  BY <1>3, <1>4, <1>5

\* Every number up to the count is the count at a member.
LEMMA CountReached ==
  ASSUME NEW G, NEW n \in Nat, NEW k \in 1 .. Count(G, n)
  PROVE  \E m \in 1 .. n : m \in G /\ Count(G, m) = k
<1> DEFINE T == {i \in Nat : Count(G, i) >= k}
<1>1. n \in T /\ T \in SUBSET Nat
  BY CountType
<1> HIDE DEF T
<1>2. PICK m \in T : \A i \in Nat : i < m => i \notin T
  BY <1>1, LeastNumber
<1>3. m \in Nat /\ Count(G, m) >= k /\ k \in Nat /\ k >= 1
  BY <1>2, CountType DEF T
<1>4. m # 0
  BY <1>3, CountZero
<1>5. m-1 \in Nat /\ m-1 < m /\ (m-1)+1 = m
  BY <1>3, <1>4
<1>6. Count(G, m-1) < k
  <2>1. m-1 \notin T
    BY <1>2, <1>5
  <2>2. Count(G, m-1) \in Nat
    BY <1>5, CountType
  <2> QED  BY <2>1, <2>2, <1>3, <1>5 DEF T
<1>7. Count(G, (m-1)+1) = Count(G, m-1) + (IF (m-1)+1 \in G THEN 1 ELSE 0)
  BY <1>5, CountNext
<1>8. Count(G, m) \in Nat /\ Count(G, m-1) \in Nat
  BY <1>3, <1>5, CountType
<1>9. m \in G /\ Count(G, m) = k
  BY <1>3, <1>5, <1>6, <1>7, <1>8
<1>10. m \in 1 .. n
  <2>1. m <= n
    BY <1>1, <1>2, <1>3
  <2> QED  BY <2>1, <1>3, <1>4
<1> QED  BY <1>9, <1>10

-----------------------------------------------------------------------------
(* Flows *)

\* z is the row buffer y with the packet m added at its end.
Grows(y, m, z, r) ==
  /\ Len(y) \in Nat
  /\ \A i \in For(y, r) : z[i] = y[i] /\ i \in Nat /\ i <= Len(y)
  /\ z[Len(y) + 1] = m
  /\ For(z, r) = For(y, r) \cup (IF m.head.row = r THEN {Len(y) + 1} ELSE {})

LEMMA ForAppend ==
  ASSUME NEW y \in Seq(PacketType), NEW m \in PacketType, NEW r
  PROVE  Grows(y, m, Append(y, m), r)
<1> DEFINE z == Append(y, m)
<1>1. /\ Len(y) \in Nat /\ Len(z) = Len(y) + 1 /\ z[Len(y) + 1] = m
      /\ \A i \in 1 .. Len(y) : z[i] = y[i]
  OBVIOUS
<1> HIDE DEF z
<1>2. \A i \in 1 .. Len(z) : i \in 1 .. Len(y) \/ i = Len(y) + 1
  BY <1>1
<1>3. For(z, r) = For(y, r) \cup (IF m.head.row = r THEN {Len(y) + 1} ELSE {})
  <2>1. ASSUME NEW i \in For(z, r)
        PROVE  i \in For(y, r) \cup (IF m.head.row = r THEN {Len(y) + 1} ELSE {})
    BY <2>1, <1>1, <1>2 DEF For
  <2>2. ASSUME NEW i \in For(y, r) PROVE i \in For(z, r)
    BY <2>2, <1>1 DEF For
  <2>3. ASSUME m.head.row = r PROVE Len(y) + 1 \in For(z, r)
    BY <2>3, <1>1 DEF For
  <2> QED  BY <2>1, <2>2, <2>3
<1>4. \A i \in For(y, r) : z[i] = y[i] /\ i \in Nat /\ i <= Len(y)
  BY <1>1 DEF For
<1> QED  BY <1>1, <1>3, <1>4 DEF Grows, z

\* An item for this row is pushed.
LEMMA FlowPush ==
  ASSUME NEW q, NEW k, NEW s, NEW x, NEW y \in Seq(PacketType), NEW r, NEW g \in Nat,
         NEW n \in Nat, NEW m \in PacketType, Flow(q, k, s, x, y, r, g, n),
         m.head.row = r, m.item = n + 1
  PROVE  Flow(q, k, s, x, Append(y, m), r, g, n + 1)
<1> DEFINE z == Append(y, m)
           a == Items(q, ToCome(q, k, s))
           b == Items(x, For(x, r))
           c == Items(y, For(y, r))
           e == Items(z, For(z, r))
<1>0. Grows(y, m, z, r)
  BY ForAppend
<1> HIDE DEF z
<1>1. /\ Len(y) \in Nat /\ z[Len(y) + 1] = m
      /\ \A i \in For(y, r) : z[i] = y[i] /\ i \in Nat /\ i <= Len(y)
      /\ For(z, r) = For(y, r) \cup {Len(y) + 1}
  BY <1>0 DEF Grows
<1>2. e = c \cup {n + 1}
  <2> HIDE DEF z
  <2>1. ASSUME NEW v \in e PROVE v \in c \cup {n + 1}
    BY <1>1 DEF Items
  <2>2. ASSUME NEW v \in c PROVE v \in e
    BY <1>1 DEF Items
  <2>3. n + 1 \in e
    BY <1>1 DEF Items
  <2> QED  BY <2>1, <2>2, <2>3
<1>3. a \cup b \cup c = g+1 .. n
  BY DEF Flow
<1>4. \A v \in a \cup b \cup c : v \in Nat /\ v < n + 1
  BY <1>3
<1>5. InOrder(z, For(z, r))
  <2>1. \A i \in For(y, r) : y[i].item \in c
    BY DEF Items
  <2>2. InOrder(y, For(y, r))
    BY DEF Flow
  <2> HIDE DEF z, a, b, c
  <2>3. ASSUME NEW i \in For(z, r), NEW j \in For(z, r), i < j
        PROVE  z[i].item < z[j].item
    <3>1. i \in For(y, r)
      BY <1>1, <2>3
    <3>2. CASE j \in For(y, r)
      BY <3>1, <3>2, <2>2, <2>3, <1>1 DEF InOrder
    <3>3. CASE j = Len(y) + 1
      BY <3>1, <3>3, <2>1, <1>1, <1>4
    <3> QED  BY <3>2, <3>3, <1>1
  <2> QED  BY <2>3 DEF InOrder
<1>6. a \cup b \cup e = g+1 .. n+1
  <2> HIDE DEF a, b, c, e, z
  <2>1. g <= n
    BY DEF Flow
  <2>2. g+1 .. n+1 = (g+1 .. n) \cup {n+1}
    BY <2>1
  <2> QED  BY <1>2, <1>3, <2>2
<1>7. Before(a, b) /\ Before(a, e) /\ Before(b, e)
  <2>1. Before(a, b) /\ Before(a, c) /\ Before(b, c)
    BY DEF Flow
  <2> HIDE DEF a, b, c, e, z
  <2> QED  BY <2>1, <1>2, <1>4 DEF Before
<1>8. g <= n + 1
  BY DEF Flow
<1>9. k <= Len(q) /\ InOrder(q, From(q, s)) /\ InOrder(x, For(x, r)) /\ ReadBack(q, k, s, g)
  BY DEF Flow
<1> QED  BY <1>5, <1>6, <1>7, <1>8, <1>9 DEF Flow, z

\* One for another row is pushed.
LEMMA FlowPushOther ==
  ASSUME NEW q, NEW k, NEW s, NEW x, NEW y \in Seq(PacketType), NEW r, NEW g, NEW n,
         NEW m \in PacketType, Flow(q, k, s, x, y, r, g, n), m.head.row # r
  PROVE  Flow(q, k, s, x, Append(y, m), r, g, n)
<1> DEFINE z == Append(y, m)
<1>0. Grows(y, m, z, r)
  BY ForAppend
<1> HIDE DEF z
<1>1. /\ \A i \in For(y, r) : z[i] = y[i]
      /\ For(z, r) = For(y, r)
  BY <1>0 DEF Grows
<1>2. Items(z, For(z, r)) = Items(y, For(y, r))
  BY <1>1 DEF Items
<1>3. InOrder(y, For(y, r))
  BY DEF Flow
<1>4. InOrder(z, For(z, r))
  BY <1>1, <1>3 DEF InOrder
<1> QED  BY <1>2, <1>4 DEF Flow, z

\* The packet that is pulled next is the next item of its source.
LEMMA FlowPull ==
  ASSUME NEW q \in Seq(EntryType), NEW k \in Nat, NEW s, NEW x, NEW y, NEW r,
         NEW g \in Nat, NEW n \in Nat, Flow(q, k, s, x, y, r, g, n),
         k < Len(q), q[k+1].from = s
  PROVE  /\ q[k+1].item = g + 1 /\ g < n
         /\ Flow(q, k + 1, s, x, y, r, g + 1, n)
<1> DEFINE v == q[k+1].item
           a == Items(q, ToCome(q, k, s))
           e == Items(q, ToCome(q, k+1, s))
           b == Items(x, For(x, r))
           c == Items(y, For(y, r))
           I == From(q, s)
<1>1. /\ InOrder(q, I) /\ ReadBack(q, k, s, g)
      /\ InOrder(x, For(x, r)) /\ InOrder(y, For(y, r))
      /\ Before(a, b) /\ Before(a, c) /\ Before(b, c)
      /\ a \cup b \cup c = g+1 .. n
  BY DEF Flow
<1>2. k+1 \in I /\ \A i \in I : i \in Nat /\ q[i].item \in Nat
  <2>1. Len(q) \in Nat /\ \A i \in 1 .. Len(q) : q[i] \in EntryType
    OBVIOUS
  <2>2. \A i \in 1 .. Len(q) : q[i].item \in Nat
    BY <2>1 DEF EntryType
  <2> QED  BY <2>1, <2>2 DEF From
<1>3. a = e \cup {v}
  <2> HIDE DEF I
  <2>1. ToCome(q, k, s) = ToCome(q, k+1, s) \cup {k+1}
    BY <1>2 DEF ToCome, I
  <2> QED  BY <2>1 DEF Items
<1>4. \A w \in e : v < w
  <2>1. ASSUME NEW i \in ToCome(q, k+1, s) PROVE v < q[i].item
    <3>1. i \in I /\ k+1 < i
      BY DEF ToCome
    <3> HIDE DEF I
    <3> QED  BY <3>1, <1>1, <1>2 DEF InOrder
  <2> QED  BY <2>1 DEF Items
<1> HIDE DEF a, b, c, e, I
<1>5. v \in a /\ v \in Nat
  BY <1>2, <1>3 DEF v
<1> HIDE DEF v
<1>6. \A w \in e \cup b \cup c : v < w
  BY <1>1, <1>4, <1>5 DEF Before
<1>7. v \in g+1 .. n /\ \A w \in g+1 .. n : w = v \/ v < w
  BY <1>1, <1>3, <1>5, <1>6
<1>8. v = g + 1 /\ g < n
  <2>1. g + 1 \in g+1 .. n
    BY <1>7
  <2> QED  BY <1>7, <2>1
<1>9. e \cup b \cup c = g+2 .. n
  <2>1. ASSUME NEW w \in e \cup b \cup c PROVE w \in g+2 .. n
    <3>1. w \in g+1 .. n /\ v < w
      BY <1>1, <1>3, <1>6
    <3> QED  BY <3>1, <1>8
  <2>2. ASSUME NEW w \in g+2 .. n PROVE w \in e \cup b \cup c
    <3>1. w \in g+1 .. n /\ w # v
      BY <1>8
    <3> QED  BY <3>1, <1>1, <1>3
  <2> QED  BY <2>1, <2>2
<1>10. Before(e, b) /\ Before(e, c)
  BY <1>1, <1>3 DEF Before
<1>11. ReadBack(q, k+1, s, g+1)
  <2> SUFFICES ASSUME NEW i \in I, i <= k+1
               PROVE  /\ q[i].item <= g+1
                      /\ \A w \in Nat : q[i].item < w /\ w <= g+1 =>
                           \E j \in I : i < j /\ j <= k+1 /\ q[j].item = w
    BY DEF ReadBack, I
  <2>1. CASE i = k+1
    BY <2>1, <1>8 DEF v
  <2>2. CASE i <= k
    <3>1. /\ q[i].item <= g
          /\ \A w \in Nat : q[i].item < w /\ w <= g => 
               \E j \in I : i < j /\ j <= k /\ q[j].item = w
      BY <1>1, <2>2 DEF ReadBack, I
    <3>2. q[i].item <= g + 1
      BY <3>1, <1>2
    <3>3. ASSUME NEW w \in Nat, q[i].item < w, w <= g+1
          PROVE  \E j \in I : i < j /\ j <= k+1 /\ q[j].item = w
      <4>1. CASE w = g+1
        BY <4>1, <1>2, <1>8, <2>2 DEF v
      <4>2. CASE w <= g
        <5>1. PICK j \in I : i < j /\ j <= k /\ q[j].item = w
          BY <4>2, <3>1, <3>3
        <5>2. j <= k+1
          BY <5>1, <1>2
        <5> QED  BY <5>1, <5>2
      <4> QED  BY <4>1, <4>2, <3>3
    <3> QED  BY <3>2, <3>3
  <2> QED  BY <2>1, <2>2, <1>2
<1>12. k+1 <= Len(q) /\ g+1 <= n /\ (g+1)+1 .. n = g+2 .. n
  BY <1>8
<1>13. Flow(q, k + 1, s, x, y, r, g + 1, n)
  BY <1>1, <1>9, <1>10, <1>11, <1>12 DEF Flow, a, b, c, e, I
<1> QED  BY <1>8, <1>13 DEF v

\* One from another source is pulled, or put back.
LEMMA FlowPullOther ==
  ASSUME NEW q \in Seq(EntryType), NEW k \in Nat, NEW s, NEW x, NEW y, NEW r, NEW g, NEW n,
         k < Len(q), q[k+1].from # s
  PROVE  Flow(q, k, s, x, y, r, g, n) <=> Flow(q, k+1, s, x, y, r, g, n)
<1>1. \A i \in From(q, s) : i \in Nat /\ i # k+1
  BY DEF From
<1>2. ToCome(q, k, s) = ToCome(q, k+1, s)
  BY <1>1 DEF ToCome
<1>3. \A i \in From(q, s) : i <= k <=> i <= k+1
  BY <1>1
<1>4. ReadBack(q, k, s, g) <=> ReadBack(q, k+1, s, g)
  BY <1>3 DEF ReadBack
<1>5. k <= Len(q) /\ k+1 <= Len(q)
  OBVIOUS
<1> QED  BY <1>2, <1>4, <1>5 DEF Flow

\* The packet that is put back is the last item pulled from its source.
LEMMA FlowUnpull ==
  ASSUME NEW q \in Seq(EntryType), NEW k \in Nat, NEW s, NEW x, NEW y, NEW r,
         NEW g \in Nat, NEW n \in Nat, Flow(q, k, s, x, y, r, g, n),
         k > 0, q[k].from = s
  PROVE  g > 0 /\ Flow(q, k - 1, s, x, y, r, g - 1, n)
<1> DEFINE a == Items(q, ToCome(q, k, s))
           e == Items(q, ToCome(q, k-1, s))
           b == Items(x, For(x, r))
           c == Items(y, For(y, r))
           I == From(q, s)
<1>1. /\ InOrder(q, I) /\ ReadBack(q, k, s, g) /\ k <= Len(q) /\ g <= n
      /\ InOrder(x, For(x, r)) /\ InOrder(y, For(y, r))
      /\ Before(a, b) /\ Before(a, c) /\ Before(b, c)
      /\ a \cup b \cup c = g+1 .. n
  BY DEF Flow
<1>2. k \in I /\ \A i \in I : i \in Nat /\ q[i].item \in Nat /\ q[i].item > 0
  <2>1. Len(q) \in Nat /\ \A i \in 1 .. Len(q) : q[i] \in EntryType
    OBVIOUS
  <2>3. \A i \in 1 .. Len(q) : q[i].item \in Nat \ {0}
    BY <2>1 DEF EntryType
  <2>2. \A i \in 1 .. Len(q) : q[i].item \in Nat /\ q[i].item > 0
    BY <2>3
  <2> QED  BY <1>1, <2>1, <2>2 DEF From
<1>3. q[k].item = g
  <2>1. /\ q[k].item <= g
        /\ \A w \in Nat : q[k].item < w /\ w <= g =>
             \E j \in I : k < j /\ j <= k /\ q[j].item = w
    BY <1>1, <1>2 DEF ReadBack, I
  <2>2. ~(q[k].item < g)
    <3> SUFFICES ASSUME q[k].item < g PROVE FALSE
      OBVIOUS
    <3>1. PICK j \in I : k < j /\ j <= k /\ q[j].item = g
      BY <2>1
    <3> QED  BY <3>1, <1>2
  <2> QED  BY <2>1, <2>2, <1>2
<1>4. g > 0
  BY <1>2, <1>3
<1>5. e = a \cup {g}
  <2>1. ToCome(q, k-1, s) = ToCome(q, k, s) \cup {k}
    <3> HIDE DEF I
    <3>1. \A i \in I : i > k-1 <=> i > k \/ i = k
      BY <1>2
    <3> QED  BY <3>1, <1>2 DEF ToCome, I
  <2> QED  BY <2>1, <1>3 DEF Items
<1> HIDE DEF a, b, c, e, I
<1>6. e \cup b \cup c = (g-1)+1 .. n
  <2>1. (g-1)+1 .. n = (g+1 .. n) \cup {g}
    BY <1>1, <1>4
  <2> QED  BY <2>1, <1>1, <1>5
<1>7. Before(e, b) /\ Before(e, c)
  <2>1. \A w \in b \cup c : g < w
    <3>1. \A w \in b \cup c : w \in g+1 .. n
      BY <1>1
    <3> QED  BY <3>1
  <2> QED  BY <2>1, <1>1, <1>5 DEF Before
<1>8. ReadBack(q, k-1, s, g-1)
  <2> SUFFICES ASSUME NEW i \in I, i <= k-1
               PROVE  /\ q[i].item <= g-1
                      /\ \A w \in Nat : q[i].item < w /\ w <= g-1 =>
                           \E j \in I : i < j /\ j <= k-1 /\ q[j].item = w
    BY DEF ReadBack, I
  <2>1. i < k /\ i <= k /\ i \in Nat /\ q[i].item \in Nat
    BY <1>2
  <2>2. q[i].item < g
    BY <2>1, <1>1, <1>2, <1>3 DEF InOrder
  <2>3. \A w \in Nat : q[i].item < w /\ w <= g =>
           \E j \in I : i < j /\ j <= k /\ q[j].item = w
    BY <1>1, <2>1 DEF ReadBack, I
  <2>4. ASSUME NEW w \in Nat, q[i].item < w, w <= g-1
        PROVE  \E j \in I : i < j /\ j <= k-1 /\ q[j].item = w
    <3>0. w <= g
      BY <2>4
    <3>1. PICK j \in I : i < j /\ j <= k /\ q[j].item = w
      BY <2>3, <2>4, <3>0
    <3>2. j # k
      BY <3>1, <1>3, <2>4
    <3> QED  BY <3>1, <3>2, <1>2
  <2>5. q[i].item <= g - 1
    BY <2>1, <2>2
  <2> QED  BY <2>4, <2>5
<1>9. k-1 <= Len(q) /\ g-1 <= n
  BY <1>1
<1> QED  BY <1>1, <1>4, <1>6, <1>7, <1>8, <1>9 DEF Flow, a, b, c, e, I

\* A row buffer gets to the corner, where nothing is left.
LEMMA FlowRow ==
  ASSUME NEW q, NEW k, NEW s, NEW y, NEW r, NEW g, NEW n,
         Flow(q, k, s, <<>>, y, r, g, n)
  PROVE  Flow(q, k, s, y, <<>>, r, g, n)
<1>1. For(<<>>, r) = {}
  BY DEF For
<1>2. Items(<<>>, {}) = {}
  BY DEF Items
<1>3. InOrder(<<>>, {})
  BY DEF InOrder
<1>4. \A A : Before(A, {}) /\ Before({}, A)
  BY DEF Before
<1> QED  BY <1>1, <1>2, <1>3, <1>4 DEF Flow

\* Nothing is under way.
LEMMA FlowEnd ==
  ASSUME NEW q, NEW k, NEW s, NEW r, NEW g \in Nat, NEW n \in Nat, k = Len(q),
         Flow(q, k, s, <<>>, <<>>, r, g, n)
  PROVE  /\ g = n
         /\ Flow(<<>>, 0, s, <<>>, <<>>, r, g, n)
<1>1. For(<<>>, r) = {} /\ From(<<>>, s) = {} /\ ToCome(<<>>, 0, s) = {}
  BY DEF For, From, ToCome
<1>2. ToCome(q, k, s) = {}
  BY DEF ToCome, From
<1>3. Items(q, {}) = {} /\ Items(<<>>, {}) = {}
  BY DEF Items
<1>4. g = n
  <2>1. g <= n /\ {} = g+1 .. n
    BY <1>1, <1>2, <1>3 DEF Flow
  <2>2. g+1 \notin g+1 .. n
    BY <2>1
  <2> QED  BY <2>1, <2>2
<1>5. ReadBack(<<>>, 0, s, g)
  BY <1>1 DEF ReadBack
<1>6. InOrder(<<>>, {}) /\ Before({}, {})
  BY DEF InOrder, Before
<1>7. 0 <= Len(<<>>) /\ {} = g+1 .. n
  BY <1>4
<1> QED  BY <1>1, <1>3, <1>4, <1>5, <1>6, <1>7 DEF Flow

LEMMA FlowZero ==
  ASSUME NEW s, NEW r
  PROVE  Flow(<<>>, 0, s, <<>>, <<>>, r, 0, 0)
<1>1. For(<<>>, r) = {} /\ From(<<>>, s) = {} /\ ToCome(<<>>, 0, s) = {}
  BY DEF For, From, ToCome
<1>2. Items(<<>>, {}) = {}
  BY DEF Items
<1>3. InOrder(<<>>, {}) /\ Before({}, {})
  BY DEF InOrder, Before
<1>4. ReadBack(<<>>, 0, s, 0)
  BY <1>1 DEF ReadBack
<1>5. 0 <= Len(<<>>) /\ {} = 0+1 .. 0
  OBVIOUS
<1> QED  BY <1>1, <1>2, <1>3, <1>4, <1>5 DEF Flow

\* What is left of a buffer without its first e packets.
LEMMA ForRest ==
  ASSUME NEW x \in Seq(PacketType), NEW e \in Nat, NEW r
  PROVE  LET z == SubSeq(x, e + 1, Len(x)) IN
         /\ z \in Seq(PacketType) /\ Len(z) <= Len(x)
         /\ \A i \in 1 .. Len(z) : i + e \in 1 .. Len(x) /\ z[i] = x[i + e]
         /\ \A i \in 1 .. Len(x) : i > e => i - e \in 1 .. Len(z) /\ z[i - e] = x[i]
<1> DEFINE z == SubSeq(x, e + 1, Len(x))
           l == Len(x)
<1>1. l \in Nat /\ \A i \in e + 1 .. l : x[i] \in PacketType
  OBVIOUS
<1> HIDE DEF l
<1>2. /\ z \in Seq(PacketType) /\ Len(z) = IF e + 1 <= l THEN l - (e + 1) + 1 ELSE 0
      /\ \A i \in 1 .. l - (e + 1) + 1 : z[i] = x[e + 1 + i - 1]
  <2>1. e + 1 \in Int /\ l \in Int
    BY <1>1
  <2>2. z = SubSeq(x, e + 1, l)
    BY DEF l
  <2> HIDE DEF z
  <2> QED  BY <1>1, <2>1, <2>2, SubSeqProperties
<1> HIDE DEF z
<1>3. \A i \in 1 .. Len(z) : i + e \in 1 .. l /\ z[i] = x[i + e]
  <2> TAKE i \in 1 .. Len(z)
  <2>1. i \in 1 .. l - (e + 1) + 1 /\ i + e \in 1 .. l /\ e + 1 + i - 1 = i + e
    BY <1>1, <1>2
  <2> QED  BY <2>1, <1>2
<1>4. \A i \in 1 .. l : i > e => i - e \in 1 .. Len(z) /\ z[i - e] = x[i]
  <2> SUFFICES ASSUME NEW i \in 1 .. l, i > e
               PROVE  i - e \in 1 .. Len(z) /\ z[i - e] = x[i]
    OBVIOUS
  <2>1. i - e \in 1 .. Len(z) /\ (i - e) + e = i
    BY <1>1, <1>2
  <2> QED  BY <2>1, <1>3
<1>5. Len(z) <= l
  BY <1>1, <1>2
<1> QED  BY <1>2, <1>3, <1>4, <1>5 DEF z, l

\* The first e packets of the row buffer at the corner are pivoted; those for r
\* get to the destination, where all has been pulled.
LEMMA FlowColumn ==
  ASSUME NEW q \in Seq(EntryType), NEW s, NEW x \in Seq(PacketType), NEW y, NEW r,
         NEW g \in Nat, NEW n \in Nat, Flow(q, Len(q), s, x, y, r, g, n),
         NEW w \in Seq(EntryType), NEW e \in Nat,
         InOrder(w, From(w, s)),
         Items(w, From(w, s)) = Items(x, {i \in For(x, r) : i <= e})
  PROVE  Flow(w, 0, s, SubSeq(x, e + 1, Len(x)), y, r, g, n)
<1> DEFINE z == SubSeq(x, e + 1, Len(x))
           a == Items(w, From(w, s))
           b == Items(x, For(x, r))
           c == Items(y, For(y, r))
           h == Items(z, For(z, r))
<1>1. /\ g <= n /\ InOrder(x, For(x, r)) /\ InOrder(y, For(y, r)) /\ Before(b, c)
      /\ Items(q, ToCome(q, Len(q), s)) \cup b \cup c = g+1 .. n
  BY DEF Flow
<1>2. /\ \A i \in 1 .. Len(z) : i + e \in 1 .. Len(x) /\ z[i] = x[i + e]
      /\ \A i \in 1 .. Len(x) : i > e => i - e \in 1 .. Len(z) /\ z[i - e] = x[i]
  BY ForRest
<1> HIDE DEF z
<1>3. Items(q, ToCome(q, Len(q), s)) = {}
  <2>1. ToCome(q, Len(q), s) = {}
    BY DEF ToCome, From
  <2> QED  BY <2>1 DEF Items
<1>4. ToCome(w, 0, s) = From(w, s)
  <2>1. \A i \in From(w, s) : i > 0
    BY DEF From
  <2> QED  BY <2>1 DEF ToCome
<1>5. \A i \in For(z, r) : i \in Nat /\ i + e \in For(x, r) /\ i + e > e /\ z[i] = x[i + e]
  BY <1>2 DEF For
<1>6. \A i \in For(x, r) : i > e => i - e \in For(z, r) /\ z[i - e] = x[i]
  BY <1>2 DEF For
<1>7. InOrder(z, For(z, r))
  <2> SUFFICES ASSUME NEW i \in For(z, r), NEW j \in For(z, r), i < j
               PROVE  z[i].item < z[j].item
    BY DEF InOrder
  <2>1. i + e < j + e
    BY <1>5
  <2> QED  BY <2>1, <1>1, <1>5 DEF InOrder
<1>8. h = Items(x, {i \in For(x, r) : i > e})
  <2>1. ASSUME NEW i \in For(z, r) PROVE z[i].item \in Items(x, {l \in For(x, r) : l > e})
    BY <1>5 DEF Items
  <2>2. ASSUME NEW i \in For(x, r), i > e PROVE x[i].item \in h
    BY <1>6, <2>2 DEF Items
  <2> QED  BY <2>1, <2>2 DEF Items
<1>9. \A i \in For(x, r) : i \in Nat
  BY DEF For
<1>10. b = a \cup h
  <2>1. For(x, r) = {i \in For(x, r) : i <= e} \cup {i \in For(x, r) : i > e}
    BY <1>9
  <2> HIDE DEF h
  <2> QED  BY <2>1, <1>8 DEF Items
<1>11. Before(a, h)
  <2> SUFFICES ASSUME NEW i \in For(x, r), i <= e, NEW j \in For(x, r), j > e
               PROVE  x[i].item < x[j].item
    BY <1>8 DEF Before, Items
  <2>1. i < j
    BY <1>9
  <2> QED  BY <2>1, <1>1 DEF InOrder
<1> HIDE DEF a, b, c, h
<1>12. Before(a, c) /\ Before(h, c) /\ a \cup h \cup c = g+1 .. n
  BY <1>1, <1>3, <1>10 DEF Before
<1>13. ReadBack(w, 0, s, g)
  <2>1. \A i \in From(w, s) : ~(i <= 0)
    BY DEF From
  <2> QED  BY <2>1 DEF ReadBack
<1>14. 0 <= Len(w)
  OBVIOUS
<1> QED  BY <1>1, <1>4, <1>7, <1>11, <1>12, <1>13, <1>14 DEF Flow, a, c, h, z

-----------------------------------------------------------------------------
(* The pivot *)

LEMMA MovedFits ==
  ASSUME NEW p
  PROVE  Moved(p) \in 0 .. Slots /\ \A r \in Row : ForRow(p, Moved(p), r) <= ColItems
<1> DEFINE Stops(n) == n < Slots => \E r \in Row : ForRow(p, n + 1, r) > ColItems
           Fits(n)  == \A r \in Row : ForRow(p, n, r) <= ColItems
           T == {n \in Nat : Stops(n)}
<1>1. Slots \in Nat
  BY Shape DEF Slots
<1>2. Slots \in T /\ T \in SUBSET Nat
  BY <1>1
<1> HIDE DEF T
<1>3. PICK n \in T : \A m \in Nat : m < n => m \notin T
  BY <1>2, LeastNumber
<1>4. n \in 0 .. Slots /\ Stops(n)
  <2>1. n \in Nat /\ Stops(n)
    BY <1>3 DEF T
  <2>2. n <= Slots
    BY <1>1, <1>2, <1>3, <2>1
  <2> QED  BY <2>1, <2>2, <1>1
<1>5. \A m \in Nat, r \in Row : ForRow(p, m, r) = Count(Goes(p, r), m) /\ ForRow(p, m, r) \in Nat
  BY CountType DEF ForRow, Count
<1>6. Fits(n)
  <2>1. CASE n = 0
    BY <2>1, <1>5, CountZero, Shape
  <2>2. CASE n # 0
    <3>1. n-1 \in Nat /\ n-1 < n /\ n-1 < Slots /\ (n-1)+1 = n
      BY <2>2, <1>4, <1>1
    <3>2. n-1 \notin T
      BY <3>1, <1>3
    <3>3. ~Stops(n-1)
      BY <3>1, <3>2 DEF T
    <3>4. \A r \in Row : ~(ForRow(p, n, r) > ColItems)
      BY <3>1, <3>3
    <3>5. n \in Nat
      BY <1>4
    <3> QED  BY <3>4, <3>5, <1>5, Shape
  <2> QED  BY <2>1, <2>2
<1>7. Moved(p) = CHOOSE m \in 0 .. Slots : Fits(m) /\ Stops(m)
  BY DEF Moved
<1> HIDE DEF Fits, Stops
<1>8. Moved(p) \in 0 .. Slots /\ Fits(Moved(p))
  BY <1>4, <1>6, <1>7
<1> QED  BY <1>8 DEF Fits

\* A slot that goes to row r holds a packet, which names the column it is from.
LEMMA PacketHere ==
  ASSUME Types, NEW p \in PE, Heads(p), NEW r, NEW m \in Goes(p, r)
  PROVE  /\ m \in 1 .. Slots /\ BufferOf(m) \in Col
         /\ PlaceOf(m) \in For(row_recv[p][BufferOf(m)], r)
         /\ Packet(p, m) = row_recv[p][BufferOf(m)][PlaceOf(m)]
         /\ Packet(p, m).item \in Nat \ {0} /\ Packet(p, m).head.col = BufferOf(m)
<1> DEFINE c == BufferOf(m)
           i == PlaceOf(m)
           x == row_recv[p][c]
<1>1. m \in 1 .. Slots /\ i <= Len(x) /\ Packet(p, m).head.row = r
  BY DEF Goes
<1>2. c \in Col /\ i \in 1 .. RowItems
  BY <1>1, SlotPlace
<1>3. Packet(p, m) = x[i]
  BY DEF Packet
<1> HIDE DEF c, i
<1>4. x \in Seq(PacketType)
  BY <1>2 DEF Types
<1> HIDE DEF x
<1>5. i \in 1 .. Len(x)
  BY <1>1, <1>2, <1>4, Shape
<1>6. x[i] \in PacketType
  BY <1>4, <1>5
<1>7. x[i].item \in Nat \ {0}
  BY <1>6 DEF PacketType
<1>8. x[i].head.col = c
  BY <1>2, <1>5 DEF Heads, x
<1>9. i \in For(x, r)
  BY <1>1, <1>3, <1>5 DEF For
<1> QED  BY <1>1, <1>2, <1>3, <1>7, <1>8, <1>9 DEF c, i, x

\* The packets in the column buffer are those in the slots, in their order.
LEMMA PivotedPackets ==
  ASSUME Types, NEW p \in PE, Heads(p), NEW r \in Row
  PROVE  LET G == Goes(p, r)
             w == Pivoted(p, r)
         IN /\ w \in Seq(EntryType) /\ Len(w) = Count(G, Moved(p)) /\ Len(w) <= ColItems
            /\ \A k \in 1 .. Len(w) : RowOf(w[k].from) = RowOf(p)
            /\ \A k \in 1 .. Len(w) : \E m \in G :
                 /\ m <= Moved(p) /\ Count(G, m) = k
                 /\ w[k].from = Rank(RowOf(p), BufferOf(m)) /\ w[k].item = Packet(p, m).item
<1> DEFINE G == Goes(p, r)
           M == Moved(p)
           K == Count(G, M)
           w == Pivoted(p, r)
           slot(k) == CHOOSE n \in G : Count(G, n) = k
           entry(k) == [from |-> Rank(RowOf(p), Packet(p, slot(k)).head.col),
                        item |-> Packet(p, slot(k)).item]
<1>1. M \in 0 .. Slots /\ K <= ColItems
  BY MovedFits DEF ForRow, Count
<1>2. Slots \in Nat
  BY Shape DEF Slots
<1>3. K \in Nat /\ M \in Nat
  <2>1. M \in Nat
    BY <1>1, <1>2
  <2> HIDE DEF M, G
  <2> QED  BY <2>1, CountType
<1>4. w = [k \in 1 .. K |-> entry(k)]
  BY DEF Pivoted, ForRow, Count
<1> HIDE DEF K, w
<1>5. ASSUME NEW k \in 1 .. K
      PROVE  slot(k) \in G /\ slot(k) <= M /\ Count(G, slot(k)) = k
  <2>0. k \in 1 .. Count(G, M)
    BY DEF K
  <2>1. PICK m \in 1 .. M : m \in G /\ Count(G, m) = k
    BY <2>0, <1>3, CountReached
  <2>2. slot(k) \in G /\ Count(G, slot(k)) = k
    BY <2>1
  <2> HIDE DEF slot, G
  <2>3. slot(k) \in Nat
    <3>1. slot(k) \in 1 .. Slots
      BY <2>2 DEF G, Goes
    <3> QED  BY <3>1, <1>2
  <2>4. ~(M < slot(k))
    <3>1. M < slot(k) => Count(G, M) < Count(G, slot(k))
      BY <2>2, <2>3, <1>3, CountMember
    <3> QED  BY <3>1, <2>2, <1>3 DEF K
  <2> QED  BY <2>2, <2>3, <2>4, <1>3
<1> HIDE DEF slot, M, G
<1>6. ASSUME NEW k \in 1 .. K
      PROVE  /\ entry(k) = [from |-> Rank(RowOf(p), BufferOf(slot(k))),
                            item |-> Packet(p, slot(k)).item]
             /\ entry(k) \in EntryType /\ RowOf(entry(k).from) = RowOf(p)
  <2> DEFINE m == slot(k)
  <2>1. m \in Goes(p, r)
    BY <1>5 DEF G
  <2> HIDE DEF m
  <2>2. /\ BufferOf(m) \in Col /\ Packet(p, m).item \in Nat \ {0}
        /\ Packet(p, m).head.col = BufferOf(m)
    BY <2>1, PacketHere
  <2>3. RowOf(p) \in Row
    BY Places
  <2>4. /\ Rank(RowOf(p), BufferOf(m)) \in PE
        /\ RowOf(Rank(RowOf(p), BufferOf(m))) = RowOf(p)
    BY <2>2, <2>3, Ranks
  <2> QED  BY <2>2, <2>4 DEF EntryType, m
<1> HIDE DEF entry
<1>7. w \in Seq(EntryType) /\ Len(w) = K
  <2>1. \A k \in 1 .. K : entry(k) \in EntryType
    BY <1>6
  <2> QED  BY <2>1, <1>3, <1>4
<1>8. \A k \in 1 .. K : w[k] = entry(k)
  BY <1>4
<1>9. \A k \in 1 .. K : \E m \in G :
         /\ m <= M /\ Count(G, m) = k
         /\ w[k].from = Rank(RowOf(p), BufferOf(m)) /\ w[k].item = Packet(p, m).item
  <2> TAKE k \in 1 .. K
  <2>1. w[k] = [from |-> Rank(RowOf(p), BufferOf(slot(k))), item |-> Packet(p, slot(k)).item]
    BY <1>6, <1>8
  <2>2. slot(k) \in G /\ slot(k) <= M /\ Count(G, slot(k)) = k
    BY <1>5
  <2> QED  BY <2>1, <2>2
<1>10. \A k \in 1 .. K : RowOf(w[k].from) = RowOf(p)
  BY <1>6, <1>8
<1>11. K <= ColItems
  BY <1>1 DEF K, G, M
<1> QED  BY <1>7, <1>9, <1>10, <1>11 DEF K, w, G, M

\* How many packets of the buffer of column c are pivoted, at most.
Gone(p, c) == IF Moved(p) - c * RowItems > 0 THEN Moved(p) - c * RowItems ELSE 0

LEMMA GoneType ==
  ASSUME NEW p, NEW c \in Col
  PROVE  Gone(p, c) \in Nat
<1>1. Moved(p) \in Int
  BY MovedFits, Shape DEF Slots
<1>2. c \in Int /\ RowItems \in Int
  BY Shape DEF Col
<1> DEFINE k == c * RowItems
           m == Moved(p)
<1>3. k \in Int /\ m \in Int
  BY <1>1, <1>2
<1> HIDE DEF k, m
<1>4. (IF m - k > 0 THEN m - k ELSE 0) \in Nat
  BY <1>3
<1> QED  BY <1>4 DEF Gone, k, m

LEMMA UnmovedRest ==
  ASSUME NEW p, NEW c \in Col
  PROVE  Unmoved(p)[c] = SubSeq(row_recv[p][c], Gone(p, c) + 1, Len(row_recv[p][c]))
<1> DEFINE g == Moved(p) - c * RowItems
<1>1. Unmoved(p)[c] = SubSeq(row_recv[p][c], IF g > 0 THEN g + 1 ELSE 1, Len(row_recv[p][c]))
  BY DEF Unmoved
<1>2. Gone(p, c) = IF g > 0 THEN g ELSE 0
  BY DEF Gone
<1> HIDE DEF g
<1>3. (IF g > 0 THEN g + 1 ELSE 1) = Gone(p, c) + 1
  BY <1>2
<1> QED  BY <1>1, <1>3

\* Of the packets from column c for row r, those pivoted are the first ones, and
\* they stay in their order.
LEMMA PivotedItems ==
  ASSUME Types, NEW p \in PE, Heads(p), Room(p), NEW r \in Row, NEW c \in Col, NEW s,
         s = Rank(RowOf(p), c)
  PROVE  LET w == Pivoted(p, r)
             x == row_recv[p][c]
         IN /\ InOrder(x, For(x, r)) => InOrder(w, From(w, s))
            /\ Items(w, From(w, s)) = Items(x, {i \in For(x, r) : i <= Gone(p, c)})
<1> DEFINE w == Pivoted(p, r)
           x == row_recv[p][c]
           G == Goes(p, r)
           e == Gone(p, c)
           M == Moved(p)
           k0 == c * RowItems
<1>1. /\ w \in Seq(EntryType) /\ Len(w) = Count(G, M)
      /\ \A k \in 1 .. Len(w) : \E m \in G :
           /\ m <= M /\ Count(G, m) = k
           /\ w[k].from = Rank(RowOf(p), BufferOf(m)) /\ w[k].item = Packet(p, m).item
  BY PivotedPackets
<1>2. /\ M \in Nat /\ k0 \in Int /\ e \in Nat /\ e = IF M - k0 > 0 THEN M - k0 ELSE 0
  <2>1. Slots \in Nat /\ RowItems \in Int /\ c \in Int
    BY Shape DEF Slots, Col
  <2> QED  BY <2>1, MovedFits, GoneType DEF Gone
<1>3. x \in Seq(PacketType) /\ Len(x) <= RowItems
  BY DEF Types, Room
<1>4. RowOf(p) \in Row
  BY Places
<1> HIDE DEF w, x, e, M, k0
\* A packet of the column buffer, back in its slot
<1>5. ASSUME NEW k \in From(w, s)
      PROVE  \E m \in G : /\ Count(G, m) = k /\ m \in Nat
                          /\ m - k0 \in For(x, r) /\ m - k0 <= e
                          /\ w[k].item = x[m - k0].item
  <2>1. k \in 1 .. Len(w) /\ w[k].from = s
    BY DEF From
  <2>2. PICK m \in G : /\ m <= M /\ Count(G, m) = k
                       /\ w[k].from = Rank(RowOf(p), BufferOf(m))
                       /\ w[k].item = Packet(p, m).item
    BY <1>1, <2>1
  <2>3. /\ m \in 1 .. Slots /\ BufferOf(m) \in Col
        /\ PlaceOf(m) \in For(row_recv[p][BufferOf(m)], r)
        /\ Packet(p, m) = row_recv[p][BufferOf(m)][PlaceOf(m)]
    BY PacketHere
  <2>4. BufferOf(m) = c
    <3>1. ColOf(Rank(RowOf(p), BufferOf(m))) = BufferOf(m)
      BY <1>4, <2>3, Ranks
    <3>2. ColOf(Rank(RowOf(p), c)) = c
      BY <1>4, Ranks
    <3> QED  BY <3>1, <3>2, <2>1, <2>2
  <2>5. m = k0 + PlaceOf(m)
    BY <2>3, <2>4, SlotPlace DEF SlotOf, k0
  <2>6. PlaceOf(m) \in 1 .. RowItems
    BY <2>3, SlotPlace
  <2>7. m \in Nat /\ m - k0 = PlaceOf(m)
    <3>1. m \in Nat /\ PlaceOf(m) \in Int
      BY <2>3, <2>6, Shape DEF Slots
    <3> HIDE DEF G
    <3> QED  BY ONLY <3>1, <2>5, <1>2
  <2>8. m - k0 <= e
    <3>1. m - k0 > 0
      BY <2>6, <2>7, Shape
    <3> HIDE DEF G
    <3> QED  BY ONLY <3>1, <2>2, <2>7, <1>2
  <2> QED  BY <2>2, <2>3, <2>4, <2>7, <2>8 DEF x
<1>6. ASSUME NEW i \in For(x, r), i <= e
      PROVE  \E k \in From(w, s) : w[k].item = x[i].item
  <2> DEFINE m == SlotOf(c, i)
  <2>1. i \in 1 .. Len(x) /\ x[i].head.row = r /\ i \in 1 .. RowItems
    BY <1>3, Shape DEF For
  <2>2. m \in 1 .. Slots /\ BufferOf(m) = c /\ PlaceOf(m) = i /\ m = k0 + i
    BY <2>1, PlaceSlot DEF SlotOf, k0
  <2> HIDE DEF m
  <2>3. m \in Goes(p, r) /\ Packet(p, m) = x[i]
    <3>1. Packet(p, m) = x[i]
      BY <2>2 DEF Packet, x
    <3>2. PlaceOf(m) <= Len(row_recv[p][BufferOf(m)])
      BY <2>1, <2>2 DEF x
    <3> QED  BY <2>1, <2>2, <3>1, <3>2 DEF Goes
  <2>4. m \in Nat /\ m > 0 /\ m <= M
    <3>1. m \in Nat /\ m > 0 /\ i \in Nat /\ i > 0
      BY <2>1, <2>2, Shape DEF Slots
    <3> HIDE DEF G
    <3> QED  BY ONLY <3>1, <1>6, <2>2, <1>2
  <2> DEFINE k == Count(G, m)
  <2>5. k \in 1 .. Len(w)
    <3> HIDE DEF G
    <3>1. Count(G, m) \in Nat /\ Count(G, 0) = 0
      BY <2>4, CountType, CountZero
    <3>2. Count(G, 0) < Count(G, m)
      BY <2>3, <2>4, CountMember DEF G
    <3>3. Count(G, m) <= Count(G, M)
      BY <2>4, <1>2, CountMonotone
    <3>4. Count(G, M) = Len(w) /\ Len(w) \in Nat
      BY <1>1
    <3> QED  BY <3>1, <3>2, <3>3, <3>4
  <2>6. PICK n \in G : /\ Count(G, n) = k
                       /\ w[k].from = Rank(RowOf(p), BufferOf(n))
                       /\ w[k].item = Packet(p, n).item
    BY <1>1, <2>5
  <2>7. n = m
    <3>1. n \in Nat /\ n \in G /\ m \in G
      BY <2>3, Shape DEF G, Goes, Slots
    <3> HIDE DEF G
    <3>2. ~(n < m) /\ ~(m < n)
      <4>1. n < m => Count(G, n) < Count(G, m)
        BY <3>1, <2>4, CountMember
      <4>2. m < n => Count(G, m) < Count(G, n)
        BY <3>1, <2>4, CountMember
      <4>3. Count(G, m) \in Nat
        BY <2>4, CountType
      <4> QED  BY <4>1, <4>2, <4>3, <2>6
    <3> QED  BY <3>1, <3>2, <2>4
  <2>8. w[k].from = s /\ w[k].item = x[i].item
    BY <2>2, <2>3, <2>6, <2>7
  <2>9. k \in From(w, s)
    BY <2>5, <2>8 DEF From
  <2> QED  BY <2>8, <2>9
<1>7. InOrder(x, For(x, r)) => InOrder(w, From(w, s))
  <2> SUFFICES ASSUME InOrder(x, For(x, r)), NEW j \in From(w, s), NEW l \in From(w, s), j < l
               PROVE  w[j].item < w[l].item
    BY DEF InOrder
  <2>1. PICK m \in G : /\ Count(G, m) = j /\ m \in Nat /\ m - k0 \in For(x, r)
                       /\ w[j].item = x[m - k0].item
    BY <1>5
  <2>2. PICK n \in G : /\ Count(G, n) = l /\ n \in Nat /\ n - k0 \in For(x, r)
                       /\ w[l].item = x[n - k0].item
    BY <1>5
  <2>3. m < n
    <3> HIDE DEF G
    <3>1. n <= m => Count(G, n) <= Count(G, m)
      BY <2>1, <2>2, CountMonotone
    <3>2. j \in Nat /\ l \in Nat
      BY <2>1, <2>2, CountType
    <3> QED  BY <3>1, <3>2, <2>1, <2>2
  <2>4. m - k0 < n - k0
    <3> HIDE DEF G
    <3> QED  BY ONLY <2>1, <2>2, <2>3, <1>2
  <2> QED  BY <2>1, <2>2, <2>4 DEF InOrder
<1>8. Items(w, From(w, s)) = Items(x, {i \in For(x, r) : i <= e})
  <2> HIDE DEF G
  <2>1. ASSUME NEW k \in From(w, s)
        PROVE  w[k].item \in Items(x, {i \in For(x, r) : i <= e})
    <3>1. PICK m \in G : m - k0 \in For(x, r) /\ m - k0 <= e /\ w[k].item = x[m - k0].item
      BY <1>5
    <3> QED  BY <3>1 DEF Items
  <2>2. ASSUME NEW i \in For(x, r), i <= e PROVE x[i].item \in Items(w, From(w, s))
    BY <1>6, <2>2 DEF Items
  <2> QED  BY <2>1, <2>2 DEF Items
<1> QED  BY <1>7, <1>8 DEF w, x, e

-----------------------------------------------------------------------------
(* What a step leaves alone *)

Same(q) == /\ row_send'[q] = row_send[q] /\ row_recv'[q] = row_recv[q]
           /\ col_recv'[q] = col_recv[q]

LEMMA SameBuffers ==
  ASSUME NEW q, Same(q)
  PROVE  /\ Room(q) => Room(q)'
         /\ Heads(q) => Heads(q)'
<1>1. /\ row_send'[q] = row_send[q] /\ row_recv'[q] = row_recv[q] /\ col_recv'[q] = col_recv[q]
  BY DEF Same
<1>2. Room(q) => Room(q)'
  BY <1>1 DEF Room
<1>3. Heads(q) => Heads(q)'
  BY <1>1 DEF Heads
<1> QED  BY <1>2, <1>3

buffers == <<row_send, row_recv, col_recv, pushed, got>>
control == <<pull_row, row_quiet, col_quiet, state, vote, at, over>>

LEMMA SameFlows ==
  ASSUME IInv, UNCHANGED buffers
  PROVE  /\ \A p \in PE : Room(p)' /\ Heads(p)'
         /\ \A s, d \in PE : FlowOf(s, d)'
<1>1. \A p \in PE : Same(p) /\ Room(p) /\ Heads(p)
  BY DEF IInv, Same, buffers
<1>2. ASSUME NEW s \in PE, NEW d \in PE PROVE FlowOf(s, d)'
  <2>1. FlowOf(s, d)
    BY DEF IInv
  <2> QED  BY <2>1 DEF FlowOf, buffers
<1> QED  BY <1>1, <1>2, SameBuffers

LEMMA SameCourse ==
  ASSUME NEW p, Course(p), UNCHANGED <<control, col_recv>>
  PROVE  Course(p)'
BY DEF Course, control, need_pull, NoneToPull

LEMMA SameEnding ==
  ASSUME NEW p, Ending(p), UNCHANGED <<control, row_send, row_recv>>
  PROVE  Ending(p)'
BY DEF Ending, control, NoneToSend, NoneToPivot

LEMMA Stutters ==
  ASSUME IInv, UNCHANGED vars
  PROVE  IInv' /\ UNCHANGED Links!vars
<1>1. UNCHANGED <<steady, row_send, row_recv, overflow, col_recv, round, buffers, control>>
  BY DEF vars, rows, quiet, columns, history, buffers, control
<1>2. Types'
  BY <1>1 DEF IInv, Types, buffers, control
<1>3. \A p \in PE : Course(p)' /\ Ending(p)'
  BY <1>1, SameCourse, SameEnding DEF IInv
<1>4. \A p, q \in PE : round'[p] = round'[q]
  BY <1>1 DEF IInv
<1>5. UNCHANGED Links!vars
  BY <1>1 DEF buffers, control, Links!vars
<1> QED  BY <1>1, <1>2, <1>3, <1>4, <1>5, SameFlows DEF IInv

LEMMA OneEntry ==
  ASSUME NEW A, NEW B, NEW T, NEW F \in [A -> [B -> T]], NEW a \in A, NEW b \in B, NEW v \in T
  PROVE  [F EXCEPT ![a][b] = v] \in [A -> [B -> T]]
OBVIOUS

\* The PEs in one column are told apart by their rows.
LEMMA Apart ==
  ASSUME NEW d \in PE, NEW e \in PE, d # e, ColOf(d) = ColOf(e)
  PROVE  RowOf(d) # RowOf(e)
BY Places

\* In the endgame nobody has items to push.
LEMMA Pushing ==
  ASSUME IInv, NEW p \in PE, CanPush(p)
  PROVE  /\ ~over[p]
         /\ \A q \in PE : ~row_quiet[q] /\ state[q] \notin {"complete", "dormant"}
<1>1. at[p] = "client" /\ state[p] = "working"
  BY DEF CanPush
<1>2. ~over[p]
  BY <1>1 DEF IInv, Course
<1> QED  BY <1>2 DEF IInv, Ending

-----------------------------------------------------------------------------
(* Push *)

LEMMA PushActs ==
  ASSUME IInv, NEW p \in PE, NEW d \in PE, NEW m, NEW c,
         m = [head |-> Header(p, d), item |-> pushed[p][d] + 1], c = ColOf(d), Push(p, d)
  PROVE  /\ CanPush(p) /\ Len(row_send[p][c]) < RowItems
         /\ c \in Col /\ m \in PacketType /\ m.item = pushed[p][d] + 1
         /\ m.head.row = RowOf(d) /\ m.head.col = ColOf(p)
         /\ row_send[p][c] \in Seq(PacketType) /\ pushed[p][d] \in Nat
         /\ row_send' = [row_send EXCEPT ![p][c] = Append(row_send[p][c], m)]
         /\ pushed' = [pushed EXCEPT ![p][d] = pushed[p][d] + 1]
         /\ UNCHANGED <<steady, row_recv, overflow, col_recv, control, got, round>>
<1>1. /\ CanPush(p) /\ Len(row_send[p][c]) < RowItems
      /\ row_send' = [row_send EXCEPT ![p][c] = Append(row_send[p][c], m)]
      /\ pushed' = [pushed EXCEPT ![p][d] = pushed[p][d] + 1]
  BY DEF Push
<1>2. UNCHANGED <<steady, row_recv, overflow, col_recv, control, got, round>>
  BY DEF Push, quiet, columns, control
<1>3. c \in Col /\ RowOf(d) \in Row /\ ColOf(p) \in Col
  BY Places
<1>4. row_send[p][c] \in Seq(PacketType) /\ pushed[p][d] \in Nat
  BY <1>3 DEF IInv, Types
<1>5. m.head.row = RowOf(d) /\ m.head.col = ColOf(p) /\ m.item = pushed[p][d] + 1
  BY DEF Header
<1>6. m \in PacketType
  <2>1. Header(p, d) \in HeadType
    BY <1>3 DEF Header, HeadType
  <2>2. pushed[p][d] + 1 \in Nat \ {0}
    BY <1>4
  <2> QED  BY <2>1, <2>2 DEF PacketType
<1> QED  BY <1>1, <1>2, <1>3, <1>4, <1>5, <1>6

LEMMA PushStep ==
  ASSUME IInv, NEW p \in PE, NEW d \in PE, Push(p, d)
  PROVE  IInv' /\ Links!Send(p, d)
<1> DEFINE m == [head |-> Header(p, d), item |-> pushed[p][d] + 1]
           c == ColOf(d)
           y == row_send[p][c]
           z == Append(y, m)
<1>1. /\ CanPush(p) /\ Len(y) < RowItems
      /\ c \in Col /\ m \in PacketType /\ m.item = pushed[p][d] + 1
      /\ m.head.row = RowOf(d) /\ m.head.col = ColOf(p)
      /\ y \in Seq(PacketType) /\ pushed[p][d] \in Nat
      /\ row_send' = [row_send EXCEPT ![p][c] = z]
      /\ pushed' = [pushed EXCEPT ![p][d] = pushed[p][d] + 1]
      /\ UNCHANGED <<steady, row_recv, overflow, col_recv, control, got, round>>
  BY PushActs
<1> HIDE DEF m
<1>2. /\ z \in Seq(PacketType) /\ Len(z) = Len(y) + 1 /\ z[Len(z)] = m
      /\ \A i \in 1 .. Len(y) : z[i] = y[i]
  BY <1>1
<1> HIDE DEF y, z
<1>3. row_send' \in [PE -> [Col -> Seq(PacketType)]] /\ pushed' \in [PE -> [PE -> Nat]]
  <2>1. row_send \in [PE -> [Col -> Seq(PacketType)]] /\ pushed \in [PE -> [PE -> Nat]]
    BY DEF IInv, Types
  <2>2. pushed[p][d] + 1 \in Nat
    BY <1>1
  <2> HIDE DEF c
  <2> QED  BY <1>1, <1>2, <2>1, <2>2, OneEntry
<1>4. /\ row_send'[p][c] = z /\ \A x \in Col \ {c} : row_send'[p][x] = row_send[p][x]
      /\ \A q \in PE \ {p} : row_send'[q] = row_send[q] /\ pushed'[q] = pushed[q]
      /\ pushed'[p][d] = pushed[p][d] + 1
      /\ \A q \in PE \ {d} : pushed'[p][q] = pushed[p][q]
  <2>1. row_send \in [PE -> [Col -> Seq(PacketType)]] /\ pushed \in [PE -> [PE -> Nat]]
    BY DEF IInv, Types
  <2> HIDE DEF c
  <2> QED  BY <1>1, <2>1
<1>5. Types'
  BY <1>1, <1>3 DEF IInv, Types, control
<1>6. ASSUME NEW q \in PE PROVE Room(q)' /\ Heads(q)'
  <2>1. Room(q) /\ Heads(q)
    BY DEF IInv
  <2>2. CASE q # p
    <3>1. Same(q)
      BY <1>1, <1>4, <2>2 DEF Same
    <3> QED  BY <2>1, <3>1, SameBuffers
  <2>3. CASE q = p
    <3>1. Len(z) <= RowItems
      BY <1>1, <1>2, Shape
    <3>2. \A i \in 1 .. Len(z) : z[i].head.col = ColOf(p)
      <4>1. \A i \in 1 .. Len(y) : y[i].head.col = ColOf(p)
        BY <1>1, <2>1, <2>3 DEF Heads, y
      <4>2. \A i \in 1 .. Len(z) : i \in 1 .. Len(y) \/ i = Len(z)
        BY <1>1, <1>2
      <4> QED  BY <4>1, <4>2, <1>1, <1>2
    <3>3. \A x \in Col : row_send'[p][x] = z \/ row_send'[p][x] = row_send[p][x]
      BY <1>4
    <3>4. Room(p)'
      BY <1>1, <2>1, <2>3, <3>1, <3>3 DEF Room
    <3>5. Heads(p)'
      BY <1>1, <2>1, <2>3, <3>2, <3>3 DEF Heads
    <3> QED  BY <2>3, <3>4, <3>5
  <2> QED  BY <2>2, <2>3
<1>7. ASSUME NEW q \in PE PROVE Course(q)' /\ Ending(q)'
  <2>1. Course(q)'
    BY <1>1, SameCourse DEF IInv
  <2>2. ~row_quiet[q] /\ state[q] \notin {"complete", "dormant"}
    BY <1>1, Pushing
  <2>3. Ending(q)'
    BY <1>1, <2>2 DEF IInv, Ending, control, NoneToPivot
  <2> QED  BY <2>1, <2>3
<1>8. ASSUME NEW s \in PE, NEW e \in PE PROVE FlowOf(s, e)'
  <2>1. FlowOf(s, e)
    BY DEF IInv
  <2>2. ColOf(e) \in Col
    BY Places
  <2>3. CASE row_send'[s][ColOf(e)] = row_send[s][ColOf(e)] /\ pushed'[s][e] = pushed[s][e]
    BY <1>1, <2>1, <2>3 DEF FlowOf
  <2>4. CASE s = p /\ ColOf(e) = c
    <3> DEFINE q == col_recv[e][RowOf(p)].items
               k == col_recv[e][RowOf(p)].next
               x == row_recv[Corner(p, e)][ColOf(p)]
               g == Len(got[e][p])
    <3>1. Flow(q, k, p, x, y, RowOf(e), g, pushed[p][e])
      BY <2>1, <2>4 DEF FlowOf, y
    <3>2. g \in Nat
      BY DEF IInv, Types
    <3> HIDE DEF q, k, x, g
    <3>3. CASE e = d
      <4>1. Flow(q, k, p, x, z, RowOf(d), g, pushed[p][d] + 1)
        BY <1>1, <3>1, <3>2, <3>3, FlowPush DEF z
      <4> QED  BY <1>1, <1>4, <2>4, <3>3, <4>1 DEF FlowOf, q, k, x, g
    <3>4. CASE e # d
      <4>1. RowOf(e) # RowOf(d)
        BY <2>4, <3>4, Apart
      <4>2. Flow(q, k, p, x, z, RowOf(e), g, pushed[p][e])
        BY <1>1, <3>1, <4>1, FlowPushOther DEF z
      <4> QED  BY <1>1, <1>4, <2>4, <3>4, <4>2 DEF FlowOf, q, k, x, g
    <3> QED  BY <3>3, <3>4
  <2> QED  BY <2>2, <2>3, <2>4, <1>4
<1>9. \A q, t \in PE : round'[q] = round'[t]
  BY <1>1 DEF IInv
<1>10. Links!Send(p, d)
  <2>1. ~over[p]
    BY <1>1, Pushing
  <2> QED  BY <1>1, <2>1 DEF Links!Send, control
<1> QED  BY <1>5, <1>6, <1>7, <1>8, <1>9, <1>10 DEF IInv

LEMMA PushFailsStep ==
  ASSUME IInv, NEW p \in PE, NEW d \in PE, PushFails(p, d)
  PROVE  IInv' /\ UNCHANGED Links!vars
<1>1. /\ overflow' = [overflow EXCEPT ![p] = TRUE]
      /\ UNCHANGED <<steady, row_send, row_recv, col_recv, round, buffers, control>>
  BY DEF PushFails, quiet, columns, history, buffers, control
<1>2. overflow' \in [PE -> BOOLEAN]
  BY <1>1 DEF IInv, Types
<1>3. Types'
  BY <1>1, <1>2 DEF IInv, Types, buffers, control
<1>4. \A q \in PE : Course(q)' /\ Ending(q)'
  BY <1>1, SameCourse, SameEnding DEF IInv
<1>5. \A q, t \in PE : round'[q] = round'[t]
  BY <1>1 DEF IInv
<1>6. UNCHANGED Links!vars
  BY <1>1 DEF buffers, control, Links!vars
<1> QED  BY <1>1, <1>3, <1>4, <1>5, <1>6, SameFlows DEF IInv

-----------------------------------------------------------------------------
(* Pull and unpull *)

\* p moves the place from which it pulls in the area r, to k; what it has got
\* from s becomes v.
Moves(p, r, s, k, v) ==
  /\ p \in PE /\ r \in Row /\ s \in PE /\ RowOf(s) = r /\ v \in Seq(Nat)
  /\ k \in 0 .. Len(col_recv[p][r].items)
  /\ col_recv'[p][r].items = col_recv[p][r].items /\ col_recv'[p][r].next = k
  /\ \A x \in Row \ {r} : col_recv'[p][x] = col_recv[p][x]
  /\ \A q \in PE \ {p} : col_recv'[q] = col_recv[q]
  /\ col_recv' \in [PE -> [Row -> AreaType]]
  /\ got' = [got EXCEPT ![p][s] = v]
  /\ UNCHANGED <<steady, row_send, row_recv, overflow, row_quiet, col_quiet, state,
                 vote, at, over, pushed, round>>

LEMMA MovesFrom ==
  ASSUME IInv, NEW p \in PE, NEW r \in Row, NEW s \in PE, RowOf(s) = r, NEW v \in Seq(Nat),
         NEW k \in 0 .. Len(col_recv[p][r].items),
         col_recv' = [col_recv EXCEPT ![p][r].next = k],
         got' = [got EXCEPT ![p][s] = v],
         UNCHANGED <<steady, row_send, row_recv, overflow, row_quiet, col_quiet, state,
                     vote, at, over, pushed, round>>
  PROVE  Moves(p, r, s, k, v)
<1> DEFINE b == [col_recv[p][r] EXCEPT !.next = k]
<1>1. col_recv \in [PE -> [Row -> AreaType]]
  BY DEF IInv, Types
<1>2. col_recv[p][r] \in AreaType
  BY <1>1
<1>3. Len(col_recv[p][r].items) \in Nat
  BY <1>2 DEF AreaType
<1>4. b \in AreaType /\ b.items = col_recv[p][r].items /\ b.next = k
  BY <1>2, <1>3 DEF AreaType
<1>5. col_recv' = [col_recv EXCEPT ![p][r] = b]
  BY <1>1
<1> HIDE DEF b
<1>6. col_recv' \in [PE -> [Row -> AreaType]]
  <2>1. [col_recv EXCEPT ![p][r] = b] \in [PE -> [Row -> AreaType]]
    BY <1>1, <1>4, OneEntry
  <2> QED  BY <1>5, <2>1
<1>7. /\ col_recv'[p][r] = b
      /\ \A x \in Row \ {r} : col_recv'[p][x] = col_recv[p][x]
      /\ \A q \in PE \ {p} : col_recv'[q] = col_recv[q]
  BY <1>1, <1>5
<1> QED  BY <1>4, <1>6, <1>7 DEF Moves

LEMMA MovesTypes ==
  ASSUME IInv, NEW p, NEW r, NEW s, NEW k, NEW v, Moves(p, r, s, k, v),
         pull_row' \in [PE -> 0 .. n_rows]
  PROVE  Types' /\ \A q \in PE : Room(q)' /\ Heads(q)'
<1>1. got' \in [PE -> [PE -> Seq(Nat)]]
  <2>1. got \in [PE -> [PE -> Seq(Nat)]]
    BY DEF IInv, Types
  <2> QED  BY <2>1, OneEntry DEF Moves
<1>2. Types'
  BY <1>1 DEF IInv, Types, Moves
<1>3. ASSUME NEW q \in PE PROVE Room(q)' /\ Heads(q)'
  <2>1. Room(q) /\ Heads(q)
    BY DEF IInv
  <2>2. CASE q # p
    <3>1. Same(q)
      BY <2>2 DEF Same, Moves
    <3> QED  BY <2>1, <3>1, SameBuffers
  <2>3. CASE q = p
    <3>1. \A x \in Row : /\ col_recv'[p][x].items = col_recv[p][x].items
                         /\ col_recv'[p][x].next <= Len(col_recv[p][x].items)
      BY <2>1, <2>3 DEF Moves, Room
    <3>2. row_send' = row_send /\ row_recv' = row_recv
      BY DEF Moves
    <3>3. Room(p)'
      BY <2>1, <2>3, <3>1, <3>2 DEF Room
    <3>4. Heads(p)'
      BY <2>1, <2>3, <3>1, <3>2 DEF Heads
    <3> QED  BY <2>3, <3>3, <3>4
  <2> QED  BY <2>2, <2>3
<1> QED  BY <1>2, <1>3

\* Only the flows into p in that row change.
LEMMA MovesFlows ==
  ASSUME IInv, NEW p, NEW r, NEW s, NEW k, NEW v, Moves(p, r, s, k, v),
         \A t \in PE : RowOf(t) = r =>
           Flow(col_recv[p][r].items, k, t, row_recv[Corner(t, p)][ColOf(t)],
                row_send[t][ColOf(p)], RowOf(p),
                IF t = s THEN Len(v) ELSE Len(got[p][t]), pushed[t][p])
  PROVE  \A t, e \in PE : FlowOf(t, e)'
<1> SUFFICES ASSUME NEW t \in PE, NEW e \in PE PROVE FlowOf(t, e)'
  OBVIOUS
<1>1. FlowOf(t, e) /\ RowOf(t) \in Row
  BY Places DEF IInv
<1>2. row_send' = row_send /\ row_recv' = row_recv /\ pushed' = pushed
  BY DEF Moves
<1>3. /\ got'[p][s] = v /\ \A q \in PE \ {s} : got'[p][q] = got[p][q]
      /\ \A q \in PE \ {p} : got'[q] = got[q]
  <2>1. got \in [PE -> [PE -> Seq(Nat)]]
    BY DEF IInv, Types
  <2> QED  BY <2>1 DEF Moves
<1>4. CASE e # p
  <2>1. col_recv'[e] = col_recv[e] /\ got'[e] = got[e]
    BY <1>3, <1>4 DEF Moves
  <2> QED  BY <1>1, <1>2, <2>1 DEF FlowOf
<1>5. CASE e = p /\ RowOf(t) # r
  <2>1. col_recv'[p][RowOf(t)] = col_recv[p][RowOf(t)]
    BY <1>1, <1>5 DEF Moves
  <2>2. got'[p][t] = got[p][t]
    BY <1>3, <1>5 DEF Moves
  <2> QED  BY <1>1, <1>2, <1>5, <2>1, <2>2 DEF FlowOf
<1>6. CASE e = p /\ RowOf(t) = r
  <2>1. col_recv'[p][r].items = col_recv[p][r].items /\ col_recv'[p][r].next = k
    BY DEF Moves
  <2>2. Len(got'[p][t]) = IF t = s THEN Len(v) ELSE Len(got[p][t])
    BY <1>3
  <2> QED  BY <1>2, <1>6, <2>1, <2>2 DEF FlowOf
<1> QED  BY <1>4, <1>5, <1>6

LEMMA PullStep ==
  ASSUME IInv, NEW p \in PE, Pull(p)
  PROVE  IInv' /\ \E s \in PE : Links!Receive(p, s)
<1>1. PICK r \in Unread(p) :
        LET packet == col_recv[p][r].items[col_recv[p][r].next + 1]
        IN /\ \A x \in Unread(p) : r <= x
           /\ pull_row' = [pull_row EXCEPT ![p] = r]
           /\ col_recv' = [col_recv EXCEPT ![p][r].next = @ + 1]
           /\ got'      = [got EXCEPT ![p][packet.from] = Append(@, packet.item)]
  BY DEF Pull
<1> DEFINE q == col_recv[p][r].items
           k == col_recv[p][r].next
           s == q[k+1].from
           n == q[k+1].item
           v == Append(got[p][s], n)
<1>2. /\ at[p] = "client"
      /\ UNCHANGED <<steady, row_send, row_recv, overflow, row_quiet, col_quiet, state,
                     vote, at, over, pushed, round>>
  BY DEF Pull, CanPull, rows, quiet
<1>3. r \in Row /\ r >= pull_row[p] /\ k < Len(q)
  BY DEF Unread
<1>4. q \in Seq(EntryType) /\ k \in Nat
  <2>1. col_recv[p][r] \in AreaType
    BY <1>3 DEF IInv, Types
  <2> QED  BY <2>1 DEF AreaType
<1>5. k+1 \in 1 .. Len(q) /\ s \in PE /\ n \in Nat
  <2>1. k+1 \in 1 .. Len(q)
    BY <1>3, <1>4
  <2>2. q[k+1] \in EntryType
    BY <1>4, <2>1
  <2> QED  BY <2>1, <2>2 DEF EntryType
<1>6. RowOf(s) = r
  BY <1>3, <1>5 DEF IInv, Heads
<1>7. got[p][s] \in Seq(Nat)
  <2>1. got \in [PE -> [PE -> Seq(Nat)]]
    BY DEF IInv, Types
  <2> HIDE DEF q, k, s, n, v
  <2> QED  BY <1>5, <2>1
<1>8. v \in Seq(Nat) /\ Len(v) = Len(got[p][s]) + 1 /\ Len(got[p][s]) \in Nat
  <2> HIDE DEF q, k, s, n
  <2> QED  BY <1>5, <1>7
<1>9. Moves(p, r, s, k+1, v)
  <2>1. got' = [got EXCEPT ![p][s] = v]
    BY <1>1
  <2>2. col_recv' = [col_recv EXCEPT ![p][r].next = k+1]
    BY <1>1
  <2>3. k+1 \in 0 .. Len(col_recv[p][r].items)
    BY <1>5
  <2> HIDE DEF v, s, n, q, k
  <2> QED  BY <1>2, <1>3, <1>5, <1>6, <1>8, <2>1, <2>2, <2>3, MovesFrom
<1>10. pull_row' = [pull_row EXCEPT ![p] = r] /\ \A x \in Unread(p) : r <= x
  BY <1>1
<1> HIDE DEF q, k, s, n, v
<1>11. n = Len(got[p][s]) + 1 /\ Len(got[p][s]) < pushed[s][p]
       /\ \A t \in PE : RowOf(t) = r =>
            Flow(q, k+1, t, row_recv[Corner(t, p)][ColOf(t)], row_send[t][ColOf(p)], RowOf(p),
                 IF t = s THEN Len(v) ELSE Len(got[p][t]), pushed[t][p])
  <2>1. ASSUME NEW t \in PE, RowOf(t) = r
        PROVE  /\ Flow(q, k, t, row_recv[Corner(t, p)][ColOf(t)], row_send[t][ColOf(p)],
                       RowOf(p), Len(got[p][t]), pushed[t][p])
               /\ pushed[t][p] \in Nat
    <3>1. FlowOf(t, p) /\ pushed[t][p] \in Nat
      BY DEF IInv, Types
    <3> QED  BY <2>1, <3>1 DEF FlowOf, q, k
  <2>2. q[k+1].from = s /\ q[k+1].item = n
    BY DEF s, n
  <2>3. /\ n = Len(got[p][s]) + 1 /\ Len(got[p][s]) < pushed[s][p]
        /\ Flow(q, k+1, s, row_recv[Corner(s, p)][ColOf(s)], row_send[s][ColOf(p)], RowOf(p),
                Len(got[p][s]) + 1, pushed[s][p])
    <3> DEFINE x == row_recv[Corner(s, p)][ColOf(s)]
               y == row_send[s][ColOf(p)]
               g == Len(got[p][s])
               w == pushed[s][p]
    <3>1. Flow(q, k, s, x, y, RowOf(p), g, w) /\ w \in Nat /\ g \in Nat
      BY <1>5, <1>6, <1>8, <2>1
    <3> HIDE DEF x, y, g, w
    <3>2. n = g + 1 /\ g < w /\ Flow(q, k+1, s, x, y, RowOf(p), g + 1, w)
      BY <1>3, <1>4, <2>2, <3>1, FlowPull
    <3> QED  BY <3>2 DEF x, y, g, w
  <2>4. ASSUME NEW t \in PE, RowOf(t) = r, t # s
        PROVE  Flow(q, k+1, t, row_recv[Corner(t, p)][ColOf(t)], row_send[t][ColOf(p)], RowOf(p),
                    Len(got[p][t]), pushed[t][p])
    BY <1>3, <1>4, <2>1, <2>2, <2>4, FlowPullOther
  <2> QED  BY <2>3, <2>4, <1>8
<1>12. \A t, e \in PE : FlowOf(t, e)'
  BY <1>9, <1>11, MovesFlows DEF q
<1>13. pull_row' \in [PE -> 0 .. n_rows] /\ pull_row[p] \in 0 .. n_rows
  <2>1. pull_row \in [PE -> 0 .. n_rows]
    BY DEF IInv, Types
  <2>2. r \in 0 .. n_rows
    BY <1>3, Shape DEF Row
  <2> QED  BY <2>1, <2>2, <1>10
<1>14. Types' /\ \A x \in PE : Room(x)' /\ Heads(x)'
  BY <1>9, <1>13, MovesTypes
<1>15. state[p] \notin {"complete", "dormant"}
  <2>1. pull_row[p] # n_rows
    BY <1>3, <1>13, Shape DEF Row
  <2> QED  BY <2>1 DEF IInv, Ending
<1>16. /\ \A e \in PE \ {p} : pull_row'[e] = pull_row[e] /\ col_recv'[e] = col_recv[e]
       /\ pull_row'[p] = r
  BY <1>9, <1>10 DEF IInv, Types, Moves
<1>17. \A x \in Row : x < r => col_recv'[p][x].next = Len(col_recv'[p][x].items)
  <2>0. ASSUME NEW x \in Row, x < r PROVE col_recv'[p][x] = col_recv[p][x]
    <3>1. x # r
      BY <2>0, <1>3, Shape DEF Row
    <3> QED  BY <3>1, <1>9 DEF Moves
  <2> SUFFICES ASSUME NEW x \in Row, x < r
               PROVE  col_recv[p][x].next = Len(col_recv[p][x].items)
    BY <2>0
  <2>1. col_recv[p][x] \in AreaType
    BY DEF IInv, Types
  <2>2. col_recv[p][x].next \in Nat /\ Len(col_recv[p][x].items) \in Nat
    BY <2>1 DEF AreaType
  <2>3. col_recv[p][x].next <= Len(col_recv[p][x].items)
    BY DEF IInv, Room
  <2>4. CASE x < pull_row[p]
    BY <2>4 DEF IInv, Course
  <2>5. CASE ~(x < pull_row[p])
    <3>1. x \notin Unread(p)
      BY <1>10, <1>3, Shape DEF Unread, Row
    <3>2. x >= pull_row[p]
      BY <2>5, <1>13, Shape DEF Row
    <3>3. ~(col_recv[p][x].next < Len(col_recv[p][x].items))
      BY <3>1, <3>2 DEF Unread
    <3> QED  BY <3>3, <2>2, <2>3
  <2> QED  BY <2>4, <2>5
<1>18. ASSUME NEW e \in PE PROVE Course(e)' /\ Ending(e)'
  <2>1. Course(e) /\ Ending(e)
    BY DEF IInv
  <2>2. UNCHANGED <<row_send, row_recv, row_quiet, col_quiet, state, vote, at, over>>
    BY <1>2
  <2>3. Ending(e)'
    BY <2>1, <2>2, <1>15, <1>16 DEF Ending, NoneToSend, NoneToPivot
  <2>4. ASSUME e # p PROVE Course(e)'
    BY <2>1, <2>2, <2>4, <1>16 DEF Course, need_pull, NoneToPull
  <2>5. ASSUME e = p PROVE Course(e)'
    BY <2>1, <2>2, <2>5, <1>2, <1>16, <1>17 DEF Course
  <2> QED  BY <2>3, <2>4, <2>5
<1>19. \A e, t \in PE : round'[e] = round'[t]
  BY <1>2 DEF IInv
<1>20. Links!Receive(p, s)
  <2>1. got' = [got EXCEPT ![p][s] = Append(got[p][s], Len(got[p][s]) + 1)]
    BY <1>9, <1>11 DEF Moves, v
  <2> QED  BY <1>2, <1>11, <2>1 DEF Links!Receive
<1> QED  BY <1>5, <1>12, <1>14, <1>18, <1>19, <1>20 DEF IInv

LEMMA PullNothingStep ==
  ASSUME IInv, NEW p \in PE, PullNothing(p)
  PROVE  IInv' /\ UNCHANGED Links!vars
<1>1. /\ at[p] = "client" /\ Unread(p) = {}
      /\ pull_row' = [pull_row EXCEPT ![p] = n_rows]
      /\ UNCHANGED <<steady, row_send, row_recv, col_recv, overflow, row_quiet, col_quiet,
                     state, vote, at, over, pushed, got, round>>
  BY DEF PullNothing, CanPull, rows, quiet, history
<1>2. pull_row \in [PE -> 0 .. n_rows] /\ n_rows \in 0 .. n_rows
  BY Shape DEF IInv, Types
<1>3. /\ pull_row' \in [PE -> 0 .. n_rows] /\ pull_row'[p] = n_rows
      /\ \A q \in PE \ {p} : pull_row'[q] = pull_row[q]
  BY <1>1, <1>2
<1>4. Types'
  BY <1>1, <1>3 DEF IInv, Types
<1>5. /\ \A q \in PE : Room(q)' /\ Heads(q)'
      /\ \A s, d \in PE : FlowOf(s, d)'
  BY <1>1, SameFlows DEF buffers
<1>6. \A r \in Row : col_recv[p][r].next = Len(col_recv[p][r].items)
  <2> TAKE r \in Row
  <2>1. col_recv[p][r] \in AreaType
    BY DEF IInv, Types
  <2>2. col_recv[p][r].next \in Nat /\ Len(col_recv[p][r].items) \in Nat
    BY <2>1 DEF AreaType
  <2>3. col_recv[p][r].next <= Len(col_recv[p][r].items)
    BY DEF IInv, Room
  <2>4. CASE r < pull_row[p]
    BY <2>4 DEF IInv, Course
  <2>5. CASE ~(r < pull_row[p])
    <3>1. r \in Nat /\ pull_row[p] \in Nat
      BY <1>2, Shape DEF Row
    <3>2. r >= pull_row[p]
      BY <2>5, <3>1
    <3>3. r \notin Unread(p)
      BY <1>1
    <3>4. ~(col_recv[p][r].next < Len(col_recv[p][r].items))
      BY <3>2, <3>3 DEF Unread
    <3> QED  BY <3>4, <2>2, <2>3
  <2> QED  BY <2>4, <2>5
<1>7. ASSUME NEW e \in PE PROVE Course(e)' /\ Ending(e)'
  <2>1. Course(e) /\ Ending(e)
    BY DEF IInv
  <2>2. pull_row[e] = n_rows => pull_row'[e] = n_rows
    BY <1>3
  <2>3. Ending(e)'
    BY <2>1, <2>2, <1>1 DEF Ending, NoneToSend, NoneToPivot
  <2>4. ASSUME e # p PROVE Course(e)'
    BY <2>1, <2>4, <1>1, <1>3 DEF Course, need_pull, NoneToPull
  <2>5. ASSUME e = p PROVE Course(e)'
    BY <2>1, <2>5, <1>1, <1>6 DEF Course
  <2> QED  BY <2>3, <2>4, <2>5
<1>8. \A e, t \in PE : round'[e] = round'[t]
  BY <1>1 DEF IInv
<1>9. UNCHANGED Links!vars
  BY <1>1 DEF Links!vars
<1> QED  BY <1>4, <1>5, <1>7, <1>8, <1>9 DEF IInv

\* A sequence without its last element.
LEMMA Shorter ==
  ASSUME NEW v \in Seq(Nat), Len(v) > 0
  PROVE  /\ SubSeq(v, 1, Len(v) - 1) \in Seq(Nat)
         /\ Len(SubSeq(v, 1, Len(v) - 1)) = Len(v) - 1
<1> DEFINE n == Len(v) - 1
<1>1. n \in Nat /\ \A i \in 1 .. n : v[i] \in Nat
  OBVIOUS
<1> HIDE DEF n
<1>2. /\ SubSeq(v, 1, n) \in Seq(Nat)
      /\ Len(SubSeq(v, 1, n)) = IF 1 <= n THEN n - 1 + 1 ELSE 0
  BY <1>1, SubSeqProperties
<1>3. Len(SubSeq(v, 1, n)) = n
  BY <1>1, <1>2
<1> QED  BY <1>2, <1>3 DEF n

LEMMA UnpullStep ==
  ASSUME IInv, NEW p \in PE, Unpull(p)
  PROVE  IInv' /\ \E s \in PE : Links!GiveBack(p, s)
<1> DEFINE r == pull_row[p]
           q == col_recv[p][r].items
           k == col_recv[p][r].next
           s == q[k].from
           v == SubSeq(got[p][s], 1, Len(got[p][s]) - 1)
<1>1. /\ at[p] = "client" /\ r < n_rows /\ k > 0
      /\ col_recv' = [col_recv EXCEPT ![p][r].next = k - 1]
      /\ got' = [got EXCEPT ![p][s] = v]
      /\ UNCHANGED <<steady, row_send, row_recv, overflow, row_quiet, col_quiet, pull_row,
                     state, vote, at, over, pushed, round>>
  BY DEF Unpull, CanPull, rows, quiet
<1>2. r \in Row /\ pull_row \in [PE -> 0 .. n_rows]
  <2>1. pull_row \in [PE -> 0 .. n_rows]
    BY DEF IInv, Types
  <2>2. r \in Nat
    BY <2>1, Shape
  <2>3. r < n_rows
    BY <1>1
  <2> HIDE DEF r
  <2>4. r \in 0 .. n_rows - 1
    BY <2>2, <2>3, Shape
  <2> QED  BY <2>1, <2>4 DEF Row
<1> HIDE DEF r
<1>3. q \in Seq(EntryType) /\ k \in Nat /\ k <= Len(q)
  <2>1. col_recv[p][r] \in AreaType
    BY <1>2 DEF IInv, Types
  <2>2. k <= Len(q)
    BY <1>2 DEF IInv, Room
  <2> QED  BY <2>1, <2>2 DEF AreaType
<1>4. k \in 1 .. Len(q) /\ k-1 \in 0 .. Len(q) /\ s \in PE
  <2>0. k > 0
    BY <1>1
  <2>1. k \in 1 .. Len(q) /\ k-1 \in 0 .. Len(q)
    <3> HIDE DEF q, k
    <3> QED  BY <2>0, <1>3
  <2>2. q[k] \in EntryType
    BY <1>3, <2>1
  <2> QED  BY <2>1, <2>2 DEF EntryType
<1>5. RowOf(s) = r
  BY <1>2, <1>4 DEF IInv, Heads
<1>6. got[p][s] \in Seq(Nat)
  <2>1. got \in [PE -> [PE -> Seq(Nat)]]
    BY DEF IInv, Types
  <2> HIDE DEF q, k, s, v
  <2> QED  BY <1>4, <2>1
<1>7. q[k].from = s /\ (k-1) + 1 = k /\ k-1 \in Nat /\ k-1 < Len(q)
  <2>1. q[k].from = s /\ k > 0
    BY <1>1
  <2> HIDE DEF q, k, s
  <2> QED  BY <2>1, <1>3
<1> HIDE DEF q, k, s
<1>8. ASSUME NEW t \in PE, RowOf(t) = r
      PROVE  /\ Flow(q, k, t, row_recv[Corner(t, p)][ColOf(t)], row_send[t][ColOf(p)],
                     RowOf(p), Len(got[p][t]), pushed[t][p])
             /\ pushed[t][p] \in Nat /\ Len(got[p][t]) \in Nat
  <2>1. FlowOf(t, p) /\ pushed[t][p] \in Nat
    BY DEF IInv, Types
  <2>2. Len(got[p][t]) \in Nat
    <3>1. got[p][t] \in Seq(Nat)
      BY DEF IInv, Types
    <3> QED  BY <3>1
  <2> QED  BY <1>8, <2>1, <2>2 DEF FlowOf, q, k
<1>9. /\ Len(got[p][s]) > 0
      /\ Flow(q, k-1, s, row_recv[Corner(s, p)][ColOf(s)], row_send[s][ColOf(p)], RowOf(p),
              Len(got[p][s]) - 1, pushed[s][p])
  <2>1. /\ Flow(q, k, s, row_recv[Corner(s, p)][ColOf(s)], row_send[s][ColOf(p)],
                RowOf(p), Len(got[p][s]), pushed[s][p])
        /\ pushed[s][p] \in Nat /\ Len(got[p][s]) \in Nat
    BY <1>4, <1>5, <1>8
  <2> DEFINE x == row_recv[Corner(s, p)][ColOf(s)]
             y == row_send[s][ColOf(p)]
             g == Len(got[p][s])
             n == pushed[s][p]
  <2>2. Flow(q, k, s, x, y, RowOf(p), g, n) /\ n \in Nat /\ g \in Nat
    BY <2>1
  <2> HIDE DEF x, y, g, n
  <2>3. g > 0 /\ Flow(q, k-1, s, x, y, RowOf(p), g-1, n)
    BY <1>1, <1>3, <1>7, <2>2, FlowUnpull
  <2> QED  BY <2>3 DEF x, y, g, n
<1>10. v \in Seq(Nat) /\ Len(v) = Len(got[p][s]) - 1
  BY <1>6, <1>9, Shorter
<1> HIDE DEF v
<1>11. \A t \in PE : RowOf(t) = r =>
         Flow(q, k-1, t, row_recv[Corner(t, p)][ColOf(t)], row_send[t][ColOf(p)], RowOf(p),
              IF t = s THEN Len(v) ELSE Len(got[p][t]), pushed[t][p])
  <2>1. ASSUME NEW t \in PE, RowOf(t) = r, t # s
        PROVE  Flow(q, k-1, t, row_recv[Corner(t, p)][ColOf(t)], row_send[t][ColOf(p)], RowOf(p),
                    Len(got[p][t]), pushed[t][p])
    <3> DEFINE x == row_recv[Corner(t, p)][ColOf(t)]
               y == row_send[t][ColOf(p)]
               g == Len(got[p][t])
               n == pushed[t][p]
    <3>1. Flow(q, (k-1)+1, t, x, y, RowOf(p), g, n)
      BY <1>7, <1>8, <2>1
    <3>2. q[(k-1)+1].from # t
      BY <1>7, <2>1
    <3> HIDE DEF x, y, g, n
    <3>3. Flow(q, k-1, t, x, y, RowOf(p), g, n)
      <4> DEFINE l == k - 1
      <4>1. l \in Nat /\ l < Len(q) /\ q[l+1].from # t /\ Flow(q, l+1, t, x, y, RowOf(p), g, n)
        BY <1>7, <3>1, <3>2
      <4> HIDE DEF l
      <4>2. Flow(q, l, t, x, y, RowOf(p), g, n)
        BY <4>1, <1>3, FlowPullOther
      <4> QED  BY <4>2 DEF l
    <3> QED  BY <3>3 DEF x, y, g, n
  <2> QED  BY <2>1, <1>9, <1>10
<1>12. Moves(p, r, s, k-1, v)
  <2>1. k-1 \in 0 .. Len(col_recv[p][r].items)
    BY <1>4 DEF q
  <2> QED  BY <1>1, <1>2, <1>4, <1>5, <1>10, <2>1, MovesFrom
<1>13. \A t, e \in PE : FlowOf(t, e)'
  BY <1>11, <1>12, MovesFlows DEF q
<1>14. Types' /\ \A x \in PE : Room(x)' /\ Heads(x)'
  BY <1>1, <1>2, <1>12, MovesTypes
<1>15. state[p] \notin {"complete", "dormant"}
  <2>1. pull_row[p] # n_rows
    BY <1>1, Shape DEF r
  <2> QED  BY <2>1 DEF IInv, Ending
<1>16. \A x \in Row : x < r => col_recv'[p][x].next = Len(col_recv'[p][x].items)
  <2> TAKE x \in Row
  <2>1. x < r => x # r
    BY <1>2, Shape DEF Row
  <2>2. x < r => col_recv'[p][x] = col_recv[p][x]
    BY <2>1, <1>12 DEF Moves
  <2>3. x < r => col_recv[p][x].next = Len(col_recv[p][x].items)
    BY DEF IInv, Course, r
  <2> QED  BY <2>2, <2>3
<1>17. ASSUME NEW e \in PE PROVE Course(e)' /\ Ending(e)'
  <2>1. Course(e) /\ Ending(e)
    BY DEF IInv
  <2>2. UNCHANGED <<row_send, row_recv, row_quiet, col_quiet, pull_row, state, vote, at, over>>
    BY <1>1
  <2>3. Ending(e)'
    BY <2>1, <2>2 DEF Ending, NoneToSend, NoneToPivot
  <2>4. ASSUME e # p PROVE Course(e)'
    <3>1. col_recv'[e] = col_recv[e]
      BY <1>12, <2>4 DEF Moves
    <3> QED  BY <2>1, <2>2, <3>1 DEF Course, need_pull, NoneToPull
  <2>5. ASSUME e = p PROVE Course(e)'
    BY <2>1, <2>2, <2>5, <1>1, <1>16 DEF Course, r
  <2> QED  BY <2>3, <2>4, <2>5
<1>18. \A e, t \in PE : round'[e] = round'[t]
  BY <1>1 DEF IInv
<1>19. Links!GiveBack(p, s)
  <2>1. got[p][s] # <<>>
    BY <1>9
  <2>2. got' = [got EXCEPT ![p][s] = SubSeq(got[p][s], 1, Len(got[p][s]) - 1)]
    BY <1>1 DEF v
  <2> QED  BY <1>1, <1>15, <2>1, <2>2 DEF Links!GiveBack
<1> QED  BY <1>4, <1>13, <1>14, <1>17, <1>18, <1>19 DEF IInv

-----------------------------------------------------------------------------
(* Advance, up to the agreement *)

\* When a PE has looked at all its column buffers, all in them is pulled.
LEMMA AllRead ==
  ASSUME IInv, NEW p \in PE, pull_row[p] = n_rows
  PROVE  \A r \in Row : col_recv[p][r].next = Len(col_recv[p][r].items)
<1>1. \A r \in Row : r < pull_row[p]
  BY Shape DEF Row
<1> QED  BY <1>1 DEF IInv, Course

\* When nobody has anything to send or to pivot either, all has arrived.
LEMMA Arrived ==
  ASSUME IInv, NEW p \in PE, NEW s \in PE, pull_row[p] = n_rows,
         \A q \in PE : NoneToSend(q) /\ NoneToPivot(q)
  PROVE  /\ Len(got[p][s]) = pushed[s][p]
         /\ Flow(<<>>, 0, s, <<>>, <<>>, RowOf(p), Len(got[p][s]), pushed[s][p])
<1> DEFINE g == Len(got[p][s])
           n == pushed[s][p]
           q == col_recv[p][RowOf(s)].items
           k == col_recv[p][RowOf(s)].next
<1>1. ColOf(p) \in Col /\ RowOf(s) \in Row /\ ColOf(s) \in Col /\ Corner(s, p) \in PE
  BY Places, Ranks DEF Corner
<1>2. row_recv[Corner(s, p)][ColOf(s)] = <<>> /\ row_send[s][ColOf(p)] = <<>>
  BY <1>1 DEF NoneToSend, NoneToPivot
<1>3. k = Len(q)
  BY <1>1, AllRead
<1>4. FlowOf(s, p)
  BY DEF IInv
<1>5. Flow(q, k, s, <<>>, <<>>, RowOf(p), g, n)
  BY <1>2, <1>4 DEF FlowOf
<1>6. got[p][s] \in Seq(Nat) /\ n \in Nat
  BY DEF IInv, Types
<1>7. g \in Nat
  BY <1>6
<1> HIDE DEF q, k, g, n
<1>8. g = n /\ Flow(<<>>, 0, s, <<>>, <<>>, RowOf(p), g, n)
  BY <1>3, <1>5, <1>6, <1>7, FlowEnd
<1> QED  BY <1>8 DEF g, n

\* Who is drained, after a step in which p comes to be, or nobody.
LEMMA DrainedOne ==
  ASSUME NEW p \in PE, state'[p] = "complete", \A q \in PE \ {p} : state'[q] = state[q]
  PROVE  [q \in PE |-> state'[q] \in {"complete", "dormant"}]
           = [[q \in PE |-> state[q] \in {"complete", "dormant"}] EXCEPT ![p] = TRUE]
OBVIOUS

LEMMA DrainedSame ==
  ASSUME \A q \in PE : state'[q] \in {"complete", "dormant"}
                         <=> state[q] \in {"complete", "dormant"}
  PROVE  [q \in PE |-> state'[q] \in {"complete", "dormant"}]
           = [q \in PE |-> state[q] \in {"complete", "dormant"}]
OBVIOUS

\* A PE that has nothing more to send or to pivot.
LEMMA StartQuiet ==
  ASSUME IInv, NEW p \in PE, NEW d \in BOOLEAN, StartAdvance(p, d), row_quiet[p], col_quiet[p]
  PROVE  IInv' /\ (Links!Drain(p) \/ UNCHANGED Links!vars)
<1> DEFINE v == Outcome(p, IF need_pull(p) THEN "NEAR" ELSE "DONE", d)
<1>1. /\ at[p] = "client" /\ state[p] \notin {"dormant", "complete"}
      /\ MayPass(p, d) /\ over' = [over EXCEPT ![p] = d]
      /\ state' = [state EXCEPT ![p] = v]
      /\ UNCHANGED <<steady, row_send, row_recv, overflow, row_quiet, col_quiet, col_recv,
                     pull_row, vote, at, buffers, round>>
  BY DEF StartAdvance, rows, quiet, columns, history, buffers
<1>2. \A q \in PE : over[q] /\ NoneToSend(q) /\ NoneToPivot(q)
  BY <1>1 DEF IInv, Ending
<1>3. over' = over
  <2>1. d = TRUE
    BY <1>1, <1>2 DEF MayPass
  <2>2. over[p] = TRUE
    BY <1>2 DEF IInv, Types
  <2> QED  BY <1>1, <2>1, <2>2 DEF IInv, Types
<1>4. v \in {"cleanup", "complete"} /\ (v = "complete" => pull_row[p] = n_rows)
  <2>1. pull_row[p] \in 0 .. n_rows
    BY DEF IInv, Types
  <2>2. CASE need_pull(p)
    BY <2>2 DEF Outcome
  <2>3. CASE ~need_pull(p)
    <3>1. v = "complete"
      BY <2>3 DEF Outcome
    <3>2. pull_row[p] = n_rows
      BY <2>1, <2>3, Shape DEF need_pull
    <3> QED  BY <3>1, <3>2
  <2> QED  BY <2>2, <2>3
<1> HIDE DEF v
<1>5. /\ state' \in [PE -> {"dormant", "working", "endgame", "cleanup", "complete"}]
      /\ state'[p] = v /\ \A q \in PE \ {p} : state'[q] = state[q]
  <2>1. state \in [PE -> {"dormant", "working", "endgame", "cleanup", "complete"}]
    BY DEF IInv, Types
  <2> QED  BY <1>1, <1>4, <2>1
<1>6. Types'
  BY <1>1, <1>3, <1>5 DEF IInv, Types, buffers
<1>7. /\ \A q \in PE : Room(q)' /\ Heads(q)'
      /\ \A s, e \in PE : FlowOf(s, e)'
  BY <1>1, SameFlows
<1>8. ASSUME NEW q \in PE PROVE Course(q)' /\ Ending(q)'
  <2>1. Course(q) /\ Ending(q) /\ Course(p)
    BY DEF IInv
  <2>2. at[q] = "pivot" => q # p
    BY <1>1
  <2>3. CASE q = p
    <3>1. Course(p)'
      BY <1>1, <1>4, <1>5, <2>1, <2>3 DEF Course
    <3>2. Ending(p)'
      BY <1>1, <1>2, <1>3, <1>4, <1>5, <2>1, <2>3 DEF Ending, NoneToSend, NoneToPivot
    <3> QED  BY <2>3, <3>1, <3>2
  <2>4. CASE q # p
    <3>1. state'[q] = state[q]
      BY <1>5, <2>4
    <3>2. Course(q)'
      BY <1>1, <1>3, <2>1, <3>1 DEF Course, need_pull, NoneToPull
    <3>3. Ending(q)'
      BY <1>1, <1>3, <2>1, <3>1 DEF Ending, NoneToSend, NoneToPivot
    <3> QED  BY <3>2, <3>3
  <2> QED  BY <2>3, <2>4
<1>9. \A q, t \in PE : round'[q] = round'[t]
  BY <1>1 DEF IInv
<1>10. IInv'
  BY <1>6, <1>7, <1>8, <1>9 DEF IInv
<1>11. CASE v = "complete"
  <2>1. \A q \in PE : over[q] /\ Len(got[p][q]) = pushed[q][p]
    BY <1>2, <1>4, <1>11, Arrived
  <2>2. [q \in PE |-> state'[q] \in {"complete", "dormant"}]
          = [[q \in PE |-> state[q] \in {"complete", "dormant"}] EXCEPT ![p] = TRUE]
    BY <1>5, <1>11, DrainedOne
  <2> QED  BY <2>1, <2>2, <1>1, <1>3, <1>10 DEF Links!Drain, buffers
<1>12. CASE v # "complete"
  <2>1. \A q \in PE : state'[q] \in {"complete", "dormant"}
                        <=> state[q] \in {"complete", "dormant"}
    BY <1>1, <1>4, <1>5, <1>12
  <2> QED  BY <2>1, <1>1, <1>3, <1>10, DrainedSame DEF Links!vars, buffers
<1> QED  BY <1>11, <1>12

\* One that has puts its vote.
LEMMA StartVotes ==
  ASSUME IInv, NEW p \in PE, NEW d \in BOOLEAN, StartAdvance(p, d),
         ~(row_quiet[p] /\ col_quiet[p])
  PROVE  IInv' /\ (Links!Close(p) \/ UNCHANGED Links!vars)
<1> DEFINE v == [cannot_comm |-> need_pull(p), desire_comm |-> Desire(p, d),
                 further_comm |-> ~d]
<1>1. /\ at[p] = "client" /\ state[p] \notin {"dormant", "complete"}
      /\ MayPass(p, d) /\ over' = [over EXCEPT ![p] = d]
      /\ vote' = [vote EXCEPT ![p] = v] /\ at' = [at EXCEPT ![p] = "agree"]
      /\ UNCHANGED <<steady, row_send, row_recv, overflow, row_quiet, col_quiet, col_recv,
                     pull_row, state, buffers, round>>
  BY DEF StartAdvance, rows, quiet, columns, history, buffers
<1>2. v \in VoteType /\ v.cannot_comm = need_pull(p) /\ v.further_comm = ~d
  <2>1. need_pull(p) \in BOOLEAN /\ Desire(p, d) \in BOOLEAN
    BY DEF need_pull, Desire
  <2> QED  BY <2>1 DEF VoteType
<1> HIDE DEF v
<1>3. /\ over \in [PE -> BOOLEAN] /\ vote \in [PE -> VoteType]
      /\ at \in [PE -> {"client", "agree", "pivot", "begin"}]
  BY DEF IInv, Types
<1>4. /\ over' \in [PE -> BOOLEAN] /\ over'[p] = d /\ \A q \in PE \ {p} : over'[q] = over[q]
      /\ vote' \in [PE -> VoteType] /\ vote'[p] = v
      /\ \A q \in PE \ {p} : vote'[q] = vote[q]
      /\ at' \in [PE -> {"client", "agree", "pivot", "begin"}] /\ at'[p] = "agree"
      /\ \A q \in PE \ {p} : at'[q] = at[q]
  BY <1>1, <1>2, <1>3
<1>5. \A q \in PE : at[q] # "pivot" /\ (over[q] => over'[q])
  <2>1. \A q \in PE : at[q] # "pivot"
    BY <1>1 DEF IInv, Course
  <2>2. over[p] => d
    BY <1>1 DEF MayPass
  <2> QED  BY <2>1, <2>2, <1>4
<1>6. Types'
  BY <1>1, <1>4 DEF IInv, Types, buffers
<1>7. /\ \A q \in PE : Room(q)' /\ Heads(q)'
      /\ \A s, e \in PE : FlowOf(s, e)'
  BY <1>1, SameFlows
<1>8. ASSUME NEW q \in PE PROVE Course(q)' /\ Ending(q)'
  <2>1. Course(q) /\ Ending(q)
    BY DEF IInv
  <2>2. Ending(q)'
    <3>1. at'[q] # "pivot"
      BY <1>4, <1>5
    <3> QED  BY <1>1, <1>5, <2>1, <3>1 DEF Ending, NoneToSend, NoneToPivot
  <2>3. ASSUME q = p PROVE Course(q)'
    BY <1>1, <1>2, <1>4, <2>1, <2>3 DEF Course, need_pull
  <2>4. ASSUME q # p PROVE Course(q)'
    BY <1>1, <1>4, <1>5, <2>1, <2>4 DEF Course, need_pull, NoneToPull
  <2> QED  BY <2>2, <2>3, <2>4
<1>9. \A q, t \in PE : round'[q] = round'[t]
  BY <1>1 DEF IInv
<1>10. IInv'
  BY <1>6, <1>7, <1>8, <1>9 DEF IInv
<1>11. CASE d /\ ~over[p]
  <2>1. over' = [over EXCEPT ![p] = TRUE]
    BY <1>1, <1>11
  <2> QED  BY <2>1, <1>1, <1>10, <1>11 DEF Links!Close, buffers
<1>12. CASE ~(d /\ ~over[p])
  <2>1. d = over[p]
    BY <1>3, <1>5, <1>4, <1>12
  <2>2. over' = over
    BY <1>1, <1>3, <2>1
  <2> QED  BY <2>2, <1>1, <1>10 DEF Links!vars, buffers
<1> QED  BY <1>11, <1>12

LEMMA StartStep ==
  ASSUME IInv, NEW p \in PE, NEW d \in BOOLEAN, StartAdvance(p, d)
  PROVE  IInv' /\ (Links!Close(p) \/ Links!Drain(p) \/ UNCHANGED Links!vars)
<1>1. CASE row_quiet[p] /\ col_quiet[p]
  BY <1>1, StartQuiet
<1>2. CASE ~(row_quiet[p] /\ col_quiet[p])
  BY <1>2, StartVotes
<1> QED  BY <1>1, <1>2

-----------------------------------------------------------------------------
(* Reset and begin *)

LEMMA ResetStep ==
  ASSUME IInv, NEW p \in PE, Reset(p)
  PROVE  IInv' /\ UNCHANGED Links!vars
<1>1. /\ at[p] = "client" /\ state[p] = "complete"
      /\ state' = [state EXCEPT ![p] = "dormant"]
      /\ UNCHANGED <<steady, row_send, row_recv, overflow, row_quiet, col_quiet, col_recv,
                     pull_row, vote, at, over, buffers, round>>
  BY DEF Reset, rows, quiet, columns, history, buffers
<1>2. /\ state' \in [PE -> {"dormant", "working", "endgame", "cleanup", "complete"}]
      /\ state'[p] = "dormant" /\ \A q \in PE \ {p} : state'[q] = state[q]
  <2>1. state \in [PE -> {"dormant", "working", "endgame", "cleanup", "complete"}]
    BY DEF IInv, Types
  <2> QED  BY <1>1, <2>1
<1>3. Types'
  BY <1>1, <1>2 DEF IInv, Types, buffers
<1>4. /\ \A q \in PE : Room(q)' /\ Heads(q)'
      /\ \A s, e \in PE : FlowOf(s, e)'
  BY <1>1, SameFlows
<1>5. ASSUME NEW q \in PE PROVE Course(q)' /\ Ending(q)'
  <2>1. Course(q) /\ Ending(q)
    BY DEF IInv
  <2>2. Ending(q)'
    BY <1>1, <1>2, <2>1 DEF Ending, NoneToSend, NoneToPivot
  <2>3. Course(q)'
    BY <1>1, <1>2, <2>1 DEF Course, need_pull, NoneToPull
  <2> QED  BY <2>2, <2>3
<1>6. \A q, t \in PE : round'[q] = round'[t]
  BY <1>1 DEF IInv
<1>7. UNCHANGED Links!vars
  <2>1. \A q \in PE : state'[q] \in {"complete", "dormant"}
                        <=> state[q] \in {"complete", "dormant"}
    BY <1>1, <1>2
  <2> QED  BY <2>1, <1>1, DrainedSame DEF Links!vars, buffers
<1> QED  BY <1>3, <1>4, <1>5, <1>6, <1>7 DEF IInv

LEMMA BeginActs ==
  ASSUME IInv, NEW p \in PE, Begin(p)
  PROVE  /\ at[p] = "client" /\ state[p] = "dormant" /\ pull_row[p] = n_rows
         /\ \A q \in PE : over[q] /\ NoneToSend(q) /\ NoneToPivot(q) /\ at[q] # "pivot"
         /\ row_send' = row_send /\ row_recv' = row_recv
         /\ col_recv' = [col_recv EXCEPT ![p] = EmptyCol]
         /\ overflow' = [overflow EXCEPT ![p] = FALSE]
         /\ row_quiet' = [row_quiet EXCEPT ![p] = FALSE]
         /\ col_quiet' = [col_quiet EXCEPT ![p] = TRUE]
         /\ at' = [at EXCEPT ![p] = "begin"]
         /\ UNCHANGED <<steady, pull_row, state, vote, over, pushed, got, round>>
<1>1. /\ at[p] = "client" /\ state[p] = "dormant"
      /\ row_send' = [row_send EXCEPT ![p] = EmptyRow]
      /\ row_recv' = [row_recv EXCEPT ![p] = EmptyRow]
      /\ col_recv' = [col_recv EXCEPT ![p] = EmptyCol]
      /\ overflow' = [overflow EXCEPT ![p] = FALSE]
      /\ row_quiet' = [row_quiet EXCEPT ![p] = FALSE]
      /\ col_quiet' = [col_quiet EXCEPT ![p] = TRUE]
      /\ at' = [at EXCEPT ![p] = "begin"]
      /\ UNCHANGED <<steady, pull_row, state, vote, over, pushed, got, round>>
  BY DEF Begin, history
<1>2. /\ pull_row[p] = n_rows
      /\ \A q \in PE : over[q] /\ NoneToSend(q) /\ NoneToPivot(q)
  BY <1>1 DEF IInv, Ending
<1>3. \A q \in PE : at[q] # "pivot"
  BY <1>1 DEF IInv, Course
<1>4. /\ row_send \in [PE -> [Col -> Seq(PacketType)]]
      /\ row_recv \in [PE -> [Col -> Seq(PacketType)]]
  BY DEF IInv, Types
<1>5. row_send[p] = EmptyRow /\ row_recv[p] = EmptyRow
  <2>1. /\ row_send[p] = [c \in Col |-> row_send[p][c]]
        /\ row_recv[p] = [c \in Col |-> row_recv[p][c]]
    BY <1>4
  <2>2. \A c \in Col : row_send[p][c] = <<>> /\ row_recv[p][c] = <<>>
    BY <1>2 DEF NoneToSend, NoneToPivot
  <2> QED  BY <2>1, <2>2 DEF EmptyRow
<1>6. row_send' = row_send /\ row_recv' = row_recv
  BY <1>1, <1>4, <1>5
<1> QED  BY <1>1, <1>2, <1>3, <1>6

\* A column buffer without packets
LEMMA EmptyColType ==
  /\ EmptyCol \in [Row -> AreaType]
  /\ \A r \in Row : EmptyCol[r].items = <<>> /\ EmptyCol[r].next = 0
<1>1. [items |-> <<>>, next |-> 0] \in AreaType
  BY DEF AreaType
<1> QED  BY <1>1 DEF EmptyCol

LEMMA BeginStep ==
  ASSUME IInv, NEW p \in PE, Begin(p)
  PROVE  IInv' /\ UNCHANGED Links!vars
<1>1. /\ at[p] = "client" /\ state[p] = "dormant" /\ pull_row[p] = n_rows
      /\ \A q \in PE : over[q] /\ NoneToSend(q) /\ NoneToPivot(q) /\ at[q] # "pivot"
      /\ row_send' = row_send /\ row_recv' = row_recv
      /\ col_recv' = [col_recv EXCEPT ![p] = EmptyCol]
      /\ overflow' = [overflow EXCEPT ![p] = FALSE]
      /\ row_quiet' = [row_quiet EXCEPT ![p] = FALSE]
      /\ col_quiet' = [col_quiet EXCEPT ![p] = TRUE]
      /\ at' = [at EXCEPT ![p] = "begin"]
      /\ UNCHANGED <<steady, pull_row, state, vote, over, pushed, got, round>>
  BY BeginActs
<1>2. /\ col_recv \in [PE -> [Row -> AreaType]] /\ overflow \in [PE -> BOOLEAN]
      /\ row_quiet \in [PE -> BOOLEAN] /\ col_quiet \in [PE -> BOOLEAN]
      /\ at \in [PE -> {"client", "agree", "pivot", "begin"}]
  BY DEF IInv, Types
<1>3. /\ col_recv' \in [PE -> [Row -> AreaType]] /\ overflow' \in [PE -> BOOLEAN]
      /\ row_quiet' \in [PE -> BOOLEAN] /\ col_quiet' \in [PE -> BOOLEAN]
      /\ at' \in [PE -> {"client", "agree", "pivot", "begin"}]
  BY <1>1, <1>2, EmptyColType
<1>4. /\ col_recv'[p] = EmptyCol /\ ~row_quiet'[p] /\ col_quiet'[p] /\ at'[p] = "begin"
      /\ \A q \in PE \ {p} : /\ col_recv'[q] = col_recv[q] /\ row_quiet'[q] = row_quiet[q]
                             /\ col_quiet'[q] = col_quiet[q] /\ at'[q] = at[q]
  BY <1>1, <1>2
<1>5. Types'
  BY <1>1, <1>3 DEF IInv, Types
<1>6. ASSUME NEW q \in PE PROVE Room(q)' /\ Heads(q)'
  <2>1. Room(q) /\ Heads(q)
    BY DEF IInv
  <2>2. CASE q # p
    <3>1. Same(q)
      BY <1>1, <1>4, <2>2 DEF Same
    <3> QED  BY <2>1, <3>1, SameBuffers
  <2>3. CASE q = p
    <3>1. \A r \in Row : Len(col_recv'[p][r].items) = 0 /\ col_recv'[p][r].next = 0
      BY <1>4, EmptyColType
    <3>2. Room(p)'
      BY <1>1, <2>1, <2>3, <3>1, Shape DEF Room
    <3>3. Heads(p)'
      BY <1>1, <2>1, <2>3, <3>1 DEF Heads
    <3> QED  BY <2>3, <3>2, <3>3
  <2> QED  BY <2>2, <2>3
<1>7. ASSUME NEW q \in PE PROVE Course(q)' /\ Ending(q)'
  <2>1. Course(q) /\ Ending(q) /\ Ending(p)
    BY DEF IInv
  <2>2. Ending(q)'
    BY <1>1, <1>4, <2>1 DEF Ending, NoneToSend, NoneToPivot
  <2>3. ASSUME q = p PROVE Course(q)'
    BY <1>1, <1>4, <2>3, EmptyColType DEF Course, NoneToPull
  <2>4. ASSUME q # p PROVE Course(q)'
    BY <1>1, <1>4, <2>1, <2>4 DEF Course, need_pull, NoneToPull
  <2> QED  BY <2>2, <2>3, <2>4
<1>8. ASSUME NEW s \in PE, NEW e \in PE PROVE FlowOf(s, e)'
  <2>1. FlowOf(s, e)
    BY DEF IInv
  <2>2. CASE e # p
    BY <1>1, <1>4, <2>1, <2>2 DEF FlowOf
  <2>3. CASE e = p
    <3>1. ColOf(p) \in Col /\ RowOf(s) \in Row /\ ColOf(s) \in Col /\ Corner(s, p) \in PE
      BY Places, Ranks DEF Corner
    <3>2. row_recv[Corner(s, p)][ColOf(s)] = <<>> /\ row_send[s][ColOf(p)] = <<>>
      BY <1>1, <3>1 DEF NoneToSend, NoneToPivot
    <3>3. Flow(<<>>, 0, s, <<>>, <<>>, RowOf(p), Len(got[p][s]), pushed[s][p])
      BY <1>1, Arrived
    <3>4. col_recv'[p][RowOf(s)].items = <<>> /\ col_recv'[p][RowOf(s)].next = 0
      BY <1>4, <3>1, EmptyColType
    <3> QED  BY <1>1, <2>3, <3>2, <3>3, <3>4 DEF FlowOf
  <2> QED  BY <2>2, <2>3
<1>9. \A q, t \in PE : round'[q] = round'[t]
  BY <1>1 DEF IInv
<1>10. UNCHANGED Links!vars
  BY <1>1 DEF Links!vars
<1> QED  BY <1>5, <1>6, <1>7, <1>8, <1>9, <1>10 DEF IInv

LEMMA FinishBeginStep ==
  ASSUME IInv, FinishBegin
  PROVE  IInv' /\ Links!Restart(PE)
<1>1. /\ \A q \in PE : at[q] = "begin"
      /\ at'     = [p \in PE |-> "client"]
      /\ state'  = [p \in PE |-> "working"]
      /\ over'   = [p \in PE |-> FALSE]
      /\ pushed' = [p \in PE |-> [d \in PE |-> 0]]
      /\ got'    = [p \in PE |-> [s \in PE |-> <<>>]]
      /\ round'  = [p \in PE |-> round[p] + 1]
      /\ UNCHANGED <<steady, row_send, row_recv, overflow, row_quiet, col_quiet, col_recv,
                     pull_row, vote>>
  BY DEF FinishBegin, AllAt, rows, quiet, columns
<1>2. \A q \in PE : state[q] = "dormant" /\ ~row_quiet[q] /\ col_quiet[q] /\ NoneToPull(q)
  BY <1>1 DEF IInv, Course
<1>3. \A q \in PE : NoneToSend(q) /\ NoneToPivot(q)
  BY <1>2 DEF IInv, Ending
<1>4. \A p, s \in PE : got'[p][s] = <<>> /\ pushed'[p][s] = 0
  BY <1>1
<1>5. Types'
  <2>1. Types
    BY DEF IInv
  <2>2. at' \in [PE -> {"client", "agree", "pivot", "begin"}]
    BY <1>1
  <2>3. state' \in [PE -> {"dormant", "working", "endgame", "cleanup", "complete"}]
    BY <1>1
  <2>4. over' \in [PE -> BOOLEAN] /\ pushed' \in [PE -> [PE -> Nat]]
        /\ got' \in [PE -> [PE -> Seq(Nat)]]
    BY <1>1
  <2>5. round' \in [PE -> Nat]
    BY <1>1, <2>1 DEF Types
  <2> QED  BY <1>1, <2>1, <2>2, <2>3, <2>4, <2>5 DEF Types
<1>6. ASSUME NEW q \in PE PROVE Room(q)' /\ Heads(q)'
  <2>1. Room(q) /\ Heads(q) /\ Same(q)
    BY <1>1 DEF IInv, Same
  <2> QED  BY <2>1, SameBuffers
<1>7. ASSUME NEW q \in PE PROVE Course(q)' /\ Ending(q)'
  <2>1. Course(q) /\ Ending(q)
    BY DEF IInv
  <2>2. at'[q] = "client" /\ state'[q] = "working" /\ ~over'[q] /\ ~row_quiet'[q]
    BY <1>1, <1>2
  <2>3. Course(q)'
    BY <1>1, <2>1, <2>2 DEF Course
  <2>4. Ending(q)'
    BY <1>1, <1>3, <2>2 DEF Ending, NoneToPivot
  <2> QED  BY <2>3, <2>4
<1>8. ASSUME NEW s \in PE, NEW e \in PE PROVE FlowOf(s, e)'
  <2>1. ColOf(e) \in Col /\ RowOf(s) \in Row /\ ColOf(s) \in Col /\ Corner(s, e) \in PE
    BY Places, Ranks DEF Corner
  <2>2. /\ row_recv[Corner(s, e)][ColOf(s)] = <<>> /\ row_send[s][ColOf(e)] = <<>>
        /\ col_recv[e][RowOf(s)].items = <<>> /\ col_recv[e][RowOf(s)].next = 0
    BY <1>2, <1>3, <2>1 DEF NoneToSend, NoneToPivot, NoneToPull
  <2>3. Len(got'[e][s]) = 0 /\ pushed'[s][e] = 0
    BY <1>4
  <2> QED  BY <1>1, <2>2, <2>3, FlowZero DEF FlowOf
<1>9. \A q, t \in PE : round'[q] = round'[t]
  BY <1>1 DEF IInv
<1>10. Links!Restart(PE)
  <2>1. pushed' = [p \in PE |-> IF p \in PE THEN [d \in PE |-> 0] ELSE pushed[p]]
    BY <1>1
  <2>2. got' = [p \in PE |-> IF p \in PE THEN [s \in PE |-> <<>>] ELSE got[p]]
    BY <1>1
  <2>3. over' = [p \in PE |-> over[p] /\ p \notin PE]
    BY <1>1
  <2>4. [p \in PE |-> state'[p] \in {"complete", "dormant"}]
          = [p \in PE |-> [q \in PE |-> state[q] \in {"complete", "dormant"}][p] /\ p \notin PE]
    BY <1>1
  <2>5. round' = [p \in PE |-> IF p \in PE THEN round[p] + 1 ELSE round[p]]
    BY <1>1
  <2>6. \A q \in PE : [p \in PE |-> state[p] \in {"complete", "dormant"}][q]
    BY <1>2
  <2> QED  BY <2>1, <2>2, <2>3, <2>4, <2>5, <2>6 DEF Links!Restart
<1> QED  BY <1>5, <1>6, <1>7, <1>8, <1>9, <1>10 DEF IInv

-----------------------------------------------------------------------------
(* The agreement and the exchanges *)

\* All return from convey_advance, and the conveyor is not complete yet.
LEMMA Returns ==
  ASSUME Types, NEW x \in {"OK", "NEAR"}, Return(x),
         \A p \in PE : state[p] \notin {"complete", "dormant"}
  PROVE  /\ at' \in [PE -> {"client", "agree", "pivot", "begin"}]
         /\ vote' \in [PE -> VoteType]
         /\ state' \in [PE -> {"dormant", "working", "endgame", "cleanup", "complete"}]
         /\ \A p \in PE : /\ at'[p] = "client"
                          /\ state'[p] \notin {"complete", "dormant"}
                          /\ over[p] => state'[p] # "working"
         /\ [p \in PE |-> state'[p] \in {"complete", "dormant"}]
              = [p \in PE |-> state[p] \in {"complete", "dormant"}]
<1>1. /\ at'    = [p \in PE |-> "client"]
      /\ vote'  = [p \in PE |-> NoVote]
      /\ state' = [p \in PE |-> Outcome(p, x, over[p])]
  BY DEF Return
<1>2. ASSUME NEW p \in PE
      PROVE  /\ Outcome(p, x, over[p]) \in {"working", "endgame", "cleanup"}
             /\ over[p] => Outcome(p, x, over[p]) # "working"
  <2>1. state[p] \in {"working", "endgame", "cleanup"} /\ over[p] \in BOOLEAN
    BY DEF Types
  <2>2. CASE x = "OK"
    BY <2>1, <2>2 DEF Outcome
  <2>3. CASE x = "NEAR"
    BY <2>1, <2>3 DEF Outcome
  <2> QED  BY <2>2, <2>3
<1>3. NoVote \in VoteType
  BY DEF NoVote, VoteType
<1>4. \A p \in PE : state'[p] = Outcome(p, x, over[p])
  BY <1>1
<1>5. \A p \in PE : /\ state'[p] \in {"working", "endgame", "cleanup"}
                    /\ over[p] => state'[p] # "working"
  BY <1>2, <1>4
<1>6. state' \in [PE -> {"dormant", "working", "endgame", "cleanup", "complete"}]
  BY <1>1, <1>2
<1>7. \A p \in PE : state'[p] \in {"complete", "dormant"}
                      <=> state[p] \in {"complete", "dormant"}
  BY <1>5
<1>8. [p \in PE |-> state'[p] \in {"complete", "dormant"}]
        = [p \in PE |-> state[p] \in {"complete", "dormant"}]
  BY <1>7, DrainedSame
<1> QED  BY <1>1, <1>3, <1>5, <1>6, <1>8

LEMMA AgreeNotStep ==
  ASSUME IInv, AgreeNot
  PROVE  IInv' /\ UNCHANGED Links!vars
<1>1. /\ \A p \in PE : at[p] = "agree"
      /\ Return("OK")
      /\ UNCHANGED <<steady, row_send, row_recv, overflow, row_quiet, col_quiet, col_recv,
                     pull_row, over, buffers, round>>
  BY DEF AgreeNot, AllAt, rows, quiet, columns, history, buffers
<1>2. Types /\ \A p \in PE : state[p] \notin {"complete", "dormant"}
  BY <1>1 DEF IInv, Course
<1>3. /\ at' \in [PE -> {"client", "agree", "pivot", "begin"}]
      /\ vote' \in [PE -> VoteType]
      /\ state' \in [PE -> {"dormant", "working", "endgame", "cleanup", "complete"}]
      /\ \A p \in PE : /\ at'[p] = "client"
                       /\ state'[p] \notin {"complete", "dormant"}
                       /\ over[p] => state'[p] # "working"
      /\ [p \in PE |-> state'[p] \in {"complete", "dormant"}]
           = [p \in PE |-> state[p] \in {"complete", "dormant"}]
  BY <1>1, <1>2, Returns
<1>4. Types'
  BY <1>1, <1>2, <1>3 DEF Types, buffers
<1>5. /\ \A q \in PE : Room(q)' /\ Heads(q)'
      /\ \A s, e \in PE : FlowOf(s, e)'
  BY <1>1, SameFlows
<1>6. ASSUME NEW q \in PE PROVE Course(q)' /\ Ending(q)'
  <2>1. Course(q) /\ Ending(q)
    BY DEF IInv
  <2>2. Course(q)'
    BY <1>1, <1>3, <2>1 DEF Course
  <2>3. Ending(q)'
    BY <1>1, <1>3, <2>1 DEF Ending, NoneToSend, NoneToPivot
  <2> QED  BY <2>2, <2>3
<1>7. \A q, t \in PE : round'[q] = round'[t]
  BY <1>1 DEF IInv
<1>8. UNCHANGED Links!vars
  BY <1>1, <1>3 DEF Links!vars, buffers
<1> QED  BY <1>4, <1>5, <1>6, <1>7, <1>8 DEF IInv

\* All agree to communicate.
LEMMA RowActs ==
  ASSUME IInv, RowExchange
  PROVE  /\ at' = [p \in PE |-> "pivot"]
         /\ UNCHANGED <<steady, col_quiet, col_recv, pull_row, state, vote, over, pushed, got,
                        round>>
         /\ \A p \in PE : /\ at[p] = "agree" /\ state[p] \notin {"complete", "dormant"}
                          /\ pull_row[p] = n_rows
                          /\ vote[p].cannot_comm = need_pull(p)
                          /\ vote[p].further_comm = ~over[p]
<1>1. /\ \A p \in PE : at[p] = "agree"
      /\ \A p \in PE : ~vote[p].cannot_comm
      /\ at' = [p \in PE |-> "pivot"]
      /\ UNCHANGED <<steady, col_quiet, col_recv, pull_row, state, vote, over, pushed, got,
                     round>>
  BY DEF RowExchange, AllAt, StayApart, cannot_comm, columns, history
<1>2. ASSUME NEW p \in PE
      PROVE  /\ state[p] \notin {"complete", "dormant"}
             /\ vote[p].cannot_comm = need_pull(p) /\ vote[p].further_comm = ~over[p]
             /\ pull_row[p] = n_rows
  <2>1. /\ state[p] \notin {"complete", "dormant"}
        /\ vote[p].cannot_comm = need_pull(p) /\ vote[p].further_comm = ~over[p]
    BY <1>1 DEF IInv, Course
  <2>2. pull_row[p] \in 0 .. n_rows
    BY DEF IInv, Types
  <2>3. ~(pull_row[p] < n_rows)
    BY <1>1, <2>1 DEF need_pull
  <2> QED  BY <2>1, <2>2, <2>3, Shape
<1> QED  BY <1>1, <1>2

LEMMA RowStays ==
  ASSUME IInv, RowExchange, ~(\A p \in PE : col_quiet[p])
  PROVE  IInv' /\ UNCHANGED Links!vars
<1>1. /\ at' = [p \in PE |-> "pivot"]
      /\ UNCHANGED <<steady, col_quiet, col_recv, pull_row, state, vote, over, pushed, got,
                     round>>
      /\ \A p \in PE : /\ at[p] = "agree" /\ state[p] \notin {"complete", "dormant"}
                       /\ pull_row[p] = n_rows
                       /\ vote[p].cannot_comm = need_pull(p)
                       /\ vote[p].further_comm = ~over[p]
  BY RowActs
<1>2. UNCHANGED <<row_send, row_recv, overflow, row_quiet>>
  BY DEF RowExchange, rows
<1>3. \A p \in PE : at'[p] = "pivot"
  BY <1>1
<1>4. Types'
  <2>1. at' \in [PE -> {"client", "agree", "pivot", "begin"}]
    BY <1>1
  <2> QED  BY <1>1, <1>2, <2>1 DEF IInv, Types
<1>5. /\ \A q \in PE : Room(q)' /\ Heads(q)'
      /\ \A s, e \in PE : FlowOf(s, e)'
  BY <1>1, <1>2, SameFlows DEF buffers
<1>6. ASSUME NEW q \in PE PROVE Course(q)' /\ Ending(q)'
  <2>1. Course(q) /\ Ending(q)
    BY DEF IInv
  <2>2. Course(q)'
    BY <1>1, <1>3, <2>1 DEF Course, need_pull
  <2>3. Ending(q)'
    BY <1>1, <1>2, <1>3, <2>1 DEF Ending, NoneToSend, NoneToPivot
  <2> QED  BY <2>2, <2>3
<1>7. \A q, t \in PE : round'[q] = round'[t]
  BY <1>1 DEF IInv
<1>8. UNCHANGED Links!vars
  BY <1>1 DEF Links!vars
<1> QED  BY <1>4, <1>5, <1>6, <1>7, <1>8 DEF IInv

LEMMA RowMoves ==
  ASSUME IInv, RowExchange, \A p \in PE : col_quiet[p]
  PROVE  IInv' /\ UNCHANGED Links!vars
<1>1. /\ at' = [p \in PE |-> "pivot"]
      /\ UNCHANGED <<steady, col_quiet, col_recv, pull_row, state, vote, over, pushed, got,
                     round>>
      /\ \A p \in PE : /\ at[p] = "agree" /\ state[p] \notin {"complete", "dormant"}
                       /\ pull_row[p] = n_rows
                       /\ vote[p].cannot_comm = need_pull(p)
                       /\ vote[p].further_comm = ~over[p]
  BY RowActs
<1>2. /\ row_recv' = [p \in PE |-> [c \in Col |-> row_send[Rank(RowOf(p), c)][ColOf(p)]]]
      /\ row_send'  = [p \in PE |-> EmptyRow]
      /\ overflow'  = [p \in PE |-> FALSE]
      /\ row_quiet' = [p \in PE |-> ~further_comm]
  BY DEF RowExchange
<1>3. /\ \A p \in PE : at'[p] = "pivot"
      /\ \A p \in PE : \A c \in Col : row_send'[p][c] = <<>>
      /\ \A p \in PE : \A c \in Col :
           row_recv'[p][c] = row_send[Rank(RowOf(p), c)][ColOf(p)]
  BY <1>1, <1>2 DEF EmptyRow
<1>4. ASSUME NEW p \in PE, NEW c \in Col
      PROVE  /\ Rank(RowOf(p), c) \in PE /\ ColOf(p) \in Col
             /\ ColOf(Rank(RowOf(p), c)) = c
             /\ row_recv'[p][c] \in Seq(PacketType)
  <2>1. RowOf(p) \in Row /\ ColOf(p) \in Col
    BY Places
  <2>2. Rank(RowOf(p), c) \in PE /\ ColOf(Rank(RowOf(p), c)) = c
    BY <2>1, Ranks
  <2>3. row_send \in [PE -> [Col -> Seq(PacketType)]]
    BY DEF IInv, Types
  <2>4. row_send[Rank(RowOf(p), c)][ColOf(p)] \in Seq(PacketType)
    BY <2>1, <2>2, <2>3
  <2> QED  BY <2>1, <2>2, <2>4, <1>3
<1>5. Types'
  <2>1. at' \in [PE -> {"client", "agree", "pivot", "begin"}]
    BY <1>1
  <2>2. row_recv' \in [PE -> [Col -> Seq(PacketType)]]
    <3>1. \A p \in PE : \A c \in Col :
            row_send[Rank(RowOf(p), c)][ColOf(p)] \in Seq(PacketType)
      BY <1>3, <1>4
    <3> QED  BY <1>2, <3>1
  <2>3. row_send' \in [PE -> [Col -> Seq(PacketType)]]
    BY <1>2 DEF EmptyRow
  <2>4. overflow' \in [PE -> BOOLEAN]
    BY <1>2
  <2>5. row_quiet' \in [PE -> BOOLEAN]
    BY <1>2 DEF further_comm
  <2> QED  BY <1>1, <2>1, <2>2, <2>3, <2>4, <2>5 DEF IInv, Types
<1>6. ASSUME NEW p \in PE PROVE Room(p)' /\ Heads(p)'
  <2>1. \A q \in PE : Room(q) /\ Heads(q)
    BY DEF IInv
  <2>2. \A c \in Col : /\ Len(row_recv'[p][c]) <= RowItems
                       /\ \A i \in 1 .. Len(row_recv'[p][c]) : row_recv'[p][c][i].head.col = c
    <3> TAKE c \in Col
    <3> DEFINE q == Rank(RowOf(p), c)
    <3>1. q \in PE /\ ColOf(p) \in Col /\ ColOf(q) = c
          /\ row_recv'[p][c] = row_send[q][ColOf(p)]
      BY <1>3, <1>4
    <3> HIDE DEF q
    <3>2. Len(row_send[q][ColOf(p)]) <= RowItems
      BY <2>1, <3>1 DEF Room
    <3>3. \A i \in 1 .. Len(row_send[q][ColOf(p)]) : row_send[q][ColOf(p)][i].head.col = c
      BY <2>1, <3>1 DEF Heads
    <3> QED  BY <3>1, <3>2, <3>3
  <2>3. \A c \in Col : Len(row_send'[p][c]) = 0
    BY <1>3
  <2>4. Room(p)'
    BY <1>1, <2>1, <2>2, <2>3, Shape DEF Room
  <2>5. Heads(p)'
    BY <1>1, <2>1, <2>2, <2>3 DEF Heads
  <2> QED  BY <2>4, <2>5
<1>7. ASSUME NEW q \in PE PROVE Course(q)' /\ Ending(q)'
  <2>1. Course(q) /\ Ending(q)
    BY DEF IInv
  <2>2. Course(q)'
    BY <1>1, <1>3, <2>1 DEF Course, need_pull
  <2>3. row_quiet'[q] => \A p \in PE : over'[p] /\ NoneToSend(p)'
    <3>1. row_quiet'[q] => \A p \in PE : ~vote[p].further_comm
      BY <1>2 DEF further_comm
    <3>2. \A p \in PE : over[p] \in BOOLEAN
      BY DEF IInv, Types
    <3> QED  BY <3>1, <3>2, <1>1, <1>3 DEF NoneToSend
  <2>4. Ending(q)'
    BY <1>1, <1>3, <2>3 DEF Ending
  <2> QED  BY <2>2, <2>4
<1>8. ASSUME NEW s \in PE, NEW d \in PE PROVE FlowOf(s, d)'
  <2>1. FlowOf(s, d)
    BY DEF IInv
  <2>2. /\ ColOf(d) \in Col /\ ColOf(s) \in Col /\ Corner(s, d) \in PE
        /\ RowOf(Corner(s, d)) = RowOf(s) /\ ColOf(Corner(s, d)) = ColOf(d)
        /\ Rank(RowOf(s), ColOf(s)) = s
    BY Places, Ranks DEF Corner
  <2>3. row_recv[Corner(s, d)][ColOf(s)] = <<>>
    BY <1>1, <2>2 DEF IInv, Ending, NoneToPivot
  <2>4. row_recv'[Corner(s, d)][ColOf(s)] = row_send[s][ColOf(d)]
    BY <1>3, <2>2
  <2>5. row_send'[s][ColOf(d)] = <<>>
    BY <1>3, <2>2
  <2>6. Flow(col_recv[d][RowOf(s)].items, col_recv[d][RowOf(s)].next, s,
             <<>>, row_send[s][ColOf(d)], RowOf(d), Len(got[d][s]), pushed[s][d])
    BY <2>1, <2>3 DEF FlowOf
  <2>7. Flow(col_recv[d][RowOf(s)].items, col_recv[d][RowOf(s)].next, s,
             row_send[s][ColOf(d)], <<>>, RowOf(d), Len(got[d][s]), pushed[s][d])
    BY <2>6, FlowRow
  <2> QED  BY <1>1, <2>4, <2>5, <2>7 DEF FlowOf
<1>9. \A q, t \in PE : round'[q] = round'[t]
  BY <1>1 DEF IInv
<1>10. UNCHANGED Links!vars
  BY <1>1 DEF Links!vars
<1> QED  BY <1>5, <1>6, <1>7, <1>8, <1>9, <1>10 DEF IInv

\* What a row buffer holds after a pivot.
LEMMA UnmovedHolds ==
  ASSUME Types, NEW p \in PE, Room(p), Heads(p), NEW c \in Col
  PROVE  LET x == row_recv[p][c]
             z == Unmoved(p)[c]
         IN /\ z = SubSeq(x, Gone(p, c) + 1, Len(x))
            /\ z \in Seq(PacketType) /\ Len(z) <= RowItems
            /\ \A i \in 1 .. Len(z) : z[i].head.col = c
            /\ Moved(p) = Slots => z = <<>>
<1> DEFINE x == row_recv[p][c]
           e == Gone(p, c)
           z == SubSeq(x, e + 1, Len(x))
<1>1. x \in Seq(PacketType) /\ e \in Nat
  BY GoneType DEF Types
<1>2. Unmoved(p)[c] = z
  BY UnmovedRest
<1>3. Len(x) <= RowItems /\ \A i \in 1 .. Len(x) : x[i].head.col = c
  BY DEF Room, Heads
<1>4. Moved(p) = Slots => e >= RowItems
  <2> SUFFICES ASSUME Moved(p) = Slots PROVE e >= RowItems
    OBVIOUS
  <2>1. c \in Nat /\ c < n_cols /\ n_cols \in Nat /\ RowItems \in Nat \ {0}
    BY Shape DEF Col
  <2> DEFINE t == n_cols - 1 - c
  <2>2. t \in Nat /\ n_cols = c + 1 + t
    BY <2>1
  <2> HIDE DEF t
  <2>3. n_cols * RowItems = c * RowItems + RowItems + t * RowItems
    BY <2>1, <2>2
  <2>4. t * RowItems \in Nat /\ c * RowItems \in Nat
    BY <2>1, <2>2
  <2>5. Slots - c * RowItems >= RowItems
    BY <2>1, <2>3, <2>4 DEF Slots
  <2>6. Slots - c * RowItems > 0
    BY <2>1, <2>3, <2>4 DEF Slots
  <2>7. e = Slots - c * RowItems
    BY <2>6 DEF Gone
  <2> QED  BY <2>5, <2>7
<1> HIDE DEF x, e
<1>5. /\ z \in Seq(PacketType) /\ Len(z) <= Len(x)
      /\ \A i \in 1 .. Len(z) : i + e \in 1 .. Len(x) /\ z[i] = x[i + e]
  BY <1>1, ForRest
<1> HIDE DEF z
<1>6. Len(z) <= RowItems
  BY <1>1, <1>3, <1>5, Shape
<1>7. \A i \in 1 .. Len(z) : z[i].head.col = c
  BY <1>3, <1>5
<1>8. Moved(p) = Slots => z = <<>>
  <2> SUFFICES ASSUME e >= RowItems PROVE z = <<>>
    BY <1>4
  <2>1. Len(z) \in Nat /\ Len(x) \in Nat
    BY <1>1, <1>5
  <2>2. 1 \notin 1 .. Len(z)
    <3>1. ~(1 + e <= Len(x))
      BY <1>1, <1>3, <2>1, Shape
    <3>2. ~(1 + e \in 1 .. Len(x))
      BY <3>1, <2>1, <1>1
    <3> QED  BY <3>2, <1>5
  <2>3. Len(z) = 0
    BY <2>1, <2>2
  <2> QED  BY <2>3, <1>5
<1> QED  BY <1>2, <1>5, <1>6, <1>7, <1>8 DEF x, e, z

LEMMA ColumnActs ==
  ASSUME IInv, ColumnExchange
  PROVE  /\ \A p \in PE : pull_row[p] = n_rows /\ state[p] \notin {"complete", "dormant"}
         /\ col_recv' = [p \in PE |-> [r \in Row |->
                           [items |-> Pivoted(Rank(r, ColOf(p)), RowOf(p)), next |-> 0]]]
         /\ row_recv' = [p \in PE |-> Unmoved(p)]
         /\ pull_row' = [p \in PE |-> 0]
         /\ col_quiet' = [p \in PE |-> AllMoved]
         /\ UNCHANGED <<steady, row_send, overflow, row_quiet, over, pushed, got, round>>
         /\ at' \in [PE -> {"client", "agree", "pivot", "begin"}]
         /\ vote' \in [PE -> VoteType]
         /\ state' \in [PE -> {"dormant", "working", "endgame", "cleanup", "complete"}]
         /\ \A p \in PE : /\ at'[p] = "client"
                          /\ state'[p] \notin {"complete", "dormant"}
                          /\ over[p] => state'[p] # "working"
         /\ [p \in PE |-> state'[p] \in {"complete", "dormant"}]
              = [p \in PE |-> state[p] \in {"complete", "dormant"}]
<1> DEFINE x == IF AllMoved /\ \A p \in PE : row_quiet[p] THEN "NEAR" ELSE "OK"
<1>1. /\ \A p \in PE : at[p] = "pivot"
      /\ col_recv' = [p \in PE |-> [r \in Row |->
                        [items |-> Pivoted(Rank(r, ColOf(p)), RowOf(p)), next |-> 0]]]
      /\ row_recv' = [p \in PE |-> Unmoved(p)]
      /\ pull_row' = [p \in PE |-> 0]
      /\ col_quiet' = [p \in PE |-> AllMoved]
      /\ Return(x)
      /\ UNCHANGED <<steady, row_send, overflow, row_quiet, over, pushed, got, round>>
  BY DEF ColumnExchange, AllAt, history
<1>2. x \in {"OK", "NEAR"}
  OBVIOUS
<1> HIDE DEF x
<1>3. \A p \in PE : pull_row[p] = n_rows /\ state[p] \notin {"complete", "dormant"}
  BY <1>1 DEF IInv, Course
<1>4. Types
  BY DEF IInv
<1>5. /\ at' \in [PE -> {"client", "agree", "pivot", "begin"}]
      /\ vote' \in [PE -> VoteType]
      /\ state' \in [PE -> {"dormant", "working", "endgame", "cleanup", "complete"}]
      /\ \A p \in PE : /\ at'[p] = "client"
                       /\ state'[p] \notin {"complete", "dormant"}
                       /\ over[p] => state'[p] # "working"
      /\ [p \in PE |-> state'[p] \in {"complete", "dormant"}]
           = [p \in PE |-> state[p] \in {"complete", "dormant"}]
  BY <1>1, <1>2, <1>3, <1>4, Returns
<1> QED  BY <1>1, <1>3, <1>5

LEMMA ColumnStep ==
  ASSUME IInv, ColumnExchange
  PROVE  IInv' /\ UNCHANGED Links!vars
<1>1. /\ \A p \in PE : pull_row[p] = n_rows /\ state[p] \notin {"complete", "dormant"}
      /\ col_recv' = [p \in PE |-> [r \in Row |->
                        [items |-> Pivoted(Rank(r, ColOf(p)), RowOf(p)), next |-> 0]]]
      /\ row_recv' = [p \in PE |-> Unmoved(p)]
      /\ pull_row' = [p \in PE |-> 0]
      /\ col_quiet' = [p \in PE |-> AllMoved]
      /\ UNCHANGED <<steady, row_send, overflow, row_quiet, over, pushed, got, round>>
      /\ at' \in [PE -> {"client", "agree", "pivot", "begin"}]
      /\ vote' \in [PE -> VoteType]
      /\ state' \in [PE -> {"dormant", "working", "endgame", "cleanup", "complete"}]
      /\ \A p \in PE : /\ at'[p] = "client"
                       /\ state'[p] \notin {"complete", "dormant"}
                       /\ over[p] => state'[p] # "working"
      /\ [p \in PE |-> state'[p] \in {"complete", "dormant"}]
           = [p \in PE |-> state[p] \in {"complete", "dormant"}]
  BY ColumnActs
<1>2. Types /\ \A p \in PE : Room(p) /\ Heads(p) /\ Ending(p)
  BY DEF IInv
<1>3. /\ \A p \in PE : \A r \in Row :
           /\ col_recv'[p][r].items = Pivoted(Rank(r, ColOf(p)), RowOf(p))
           /\ col_recv'[p][r].next = 0
      /\ \A p \in PE : \A c \in Col : row_recv'[p][c] = Unmoved(p)[c]
      /\ \A p \in PE : pull_row'[p] = 0 /\ (col_quiet'[p] <=> AllMoved)
  BY <1>1
<1>4. ASSUME NEW p \in PE, NEW r \in Row
      PROVE  LET w == Pivoted(Rank(r, ColOf(p)), RowOf(p))
             IN /\ w \in Seq(EntryType) /\ Len(w) <= ColItems
                /\ \A k \in 1 .. Len(w) : RowOf(w[k].from) = r
  <2> DEFINE a == Rank(r, ColOf(p))
  <2>1. RowOf(p) \in Row /\ a \in PE /\ RowOf(a) = r
    BY Places, Ranks
  <2> HIDE DEF a
  <2>2. Heads(a)
    BY <1>2, <2>1
  <2>3. /\ Pivoted(a, RowOf(p)) \in Seq(EntryType)
        /\ Len(Pivoted(a, RowOf(p))) <= ColItems
        /\ \A k \in 1 .. Len(Pivoted(a, RowOf(p))) :
             RowOf(Pivoted(a, RowOf(p))[k].from) = RowOf(a)
    BY <1>2, <2>1, <2>2, PivotedPackets
  <2> QED  BY <2>1, <2>3 DEF a
<1>5. Types'
  <2>1. col_recv' \in [PE -> [Row -> AreaType]]
    <3>1. \A p \in PE : \A r \in Row :
            [items |-> Pivoted(Rank(r, ColOf(p)), RowOf(p)), next |-> 0] \in AreaType
      BY <1>4 DEF AreaType
    <3> QED  BY <1>1, <3>1
  <2>2. row_recv' \in [PE -> [Col -> Seq(PacketType)]]
    <3>1. \A p \in PE : Unmoved(p) \in [Col -> Seq(PacketType)]
      <4> TAKE p \in PE
      <4>1. \A c \in Col : Unmoved(p)[c] \in Seq(PacketType)
        BY <1>2, UnmovedHolds
      <4>2. Unmoved(p) = [c \in Col |-> Unmoved(p)[c]]
        BY DEF Unmoved
      <4> QED  BY <4>1, <4>2
    <3> QED  BY <1>1, <3>1
  <2>3. pull_row' \in [PE -> 0 .. n_rows]
    BY <1>1, Shape
  <2>4. col_quiet' \in [PE -> BOOLEAN]
    BY <1>1 DEF AllMoved
  <2> QED  BY <1>1, <1>2, <2>1, <2>2, <2>3, <2>4 DEF Types
<1>6. ASSUME NEW p \in PE PROVE Room(p)' /\ Heads(p)'
  <2>1. \A c \in Col : /\ Len(row_recv'[p][c]) <= RowItems
                       /\ \A i \in 1 .. Len(row_recv'[p][c]) : row_recv'[p][c][i].head.col = c
    BY <1>2, <1>3, UnmovedHolds
  <2>2. \A r \in Row : /\ Len(col_recv'[p][r].items) <= ColItems
                       /\ Len(col_recv'[p][r].items) \in Nat
                       /\ \A k \in 1 .. Len(col_recv'[p][r].items) :
                            RowOf(col_recv'[p][r].items[k].from) = r
    BY <1>3, <1>4
  <2>3. Room(p)'
    BY <1>1, <1>2, <1>3, <2>1, <2>2 DEF Room
  <2>4. Heads(p)'
    <3>1. \A c \in Col : \A i \in 1 .. Len(row_send'[p][c]) :
            row_send'[p][c][i].head.col = ColOf(p)
      BY <1>1, <1>2 DEF Heads
    <3>2. \A c \in Col : \A i \in 1 .. Len(row_recv'[p][c]) : row_recv'[p][c][i].head.col = c
      BY <2>1
    <3>3. \A r \in Row : \A k \in 1 .. Len(col_recv'[p][r].items) :
            RowOf(col_recv'[p][r].items[k].from) = r
      BY <2>2
    <3> QED  BY <3>1, <3>2, <3>3 DEF Heads
  <2> QED  BY <2>3, <2>4
<1>7. AllMoved => \A p \in PE : NoneToPivot(p)'
  BY <1>2, <1>3, UnmovedHolds DEF AllMoved, NoneToPivot
<1>8. ASSUME NEW q \in PE PROVE Course(q)' /\ Ending(q)'
  <2>1. Course(q)'
    <3>1. \A r \in Row : ~(r < pull_row'[q])
      BY <1>3, Shape DEF Row
    <3> QED  BY <3>1, <1>1 DEF Course
  <2>2. row_quiet'[q] => \A p \in PE : over'[p] /\ NoneToSend(p)'
    BY <1>1, <1>2 DEF Ending, NoneToSend
  <2>3. Ending(q)'
    BY <1>1, <1>3, <1>7, <2>2 DEF Ending
  <2> QED  BY <2>1, <2>3
<1>9. ASSUME NEW s \in PE, NEW d \in PE PROVE FlowOf(s, d)'
  <2> DEFINE a == Corner(s, d)
             q == col_recv[d][RowOf(s)].items
             x == row_recv[a][ColOf(s)]
             y == row_send[s][ColOf(d)]
             w == Pivoted(a, RowOf(d))
             e == Gone(a, ColOf(s))
             g == Len(got[d][s])
             n == pushed[s][d]
  <2>1. /\ ColOf(d) \in Col /\ ColOf(s) \in Col /\ RowOf(s) \in Row /\ RowOf(d) \in Row
        /\ a \in PE /\ RowOf(a) = RowOf(s) /\ s = Rank(RowOf(a), ColOf(s))
        /\ Rank(RowOf(s), ColOf(d)) = a
    BY Places, Ranks DEF Corner
  <2>2. /\ col_recv'[d][RowOf(s)].items = w /\ col_recv'[d][RowOf(s)].next = 0
        /\ row_recv'[a][ColOf(s)] = Unmoved(a)[ColOf(s)]
    BY <1>3, <2>1
  <2>3. col_recv[d][RowOf(s)].next = Len(q)
    BY <1>1, <2>1, AllRead
  <2>4. Flow(q, Len(q), s, x, y, RowOf(d), g, n)
    BY <2>3 DEF IInv, FlowOf
  <2>5. /\ q \in Seq(EntryType) /\ x \in Seq(PacketType) /\ e \in Nat /\ n \in Nat
        /\ got[d][s] \in Seq(Nat)
    <3>1. col_recv[d][RowOf(s)] \in AreaType
      BY <1>2, <2>1 DEF Types
    <3>2. x \in Seq(PacketType) /\ n \in Nat /\ got[d][s] \in Seq(Nat)
      BY <1>2, <2>1 DEF Types
    <3> HIDE DEF a
    <3> QED  BY <3>1, <3>2, <2>1, GoneType DEF AreaType
  <2>6. g \in Nat
    BY <2>5
  <2>7. Room(a) /\ Heads(a)
    BY <1>2, <2>1
  <2>8. w \in Seq(EntryType)
    BY <1>4, <2>1
  <2> HIDE DEF a
  <2>9. /\ InOrder(x, For(x, RowOf(d))) => InOrder(w, From(w, s))
        /\ Items(w, From(w, s)) = Items(x, {i \in For(x, RowOf(d)) : i <= e})
    BY <1>2, <2>1, <2>7, PivotedItems
  <2>10. Unmoved(a)[ColOf(s)] = SubSeq(x, e + 1, Len(x))
    BY <2>1, UnmovedRest
  <2> HIDE DEF q, x, y, w, e, g, n
  <2>11. InOrder(w, From(w, s))
    BY <2>4, <2>9 DEF Flow
  <2>12. Flow(w, 0, s, SubSeq(x, e + 1, Len(x)), y, RowOf(d), g, n)
    BY <2>4, <2>5, <2>6, <2>8, <2>9, <2>11, FlowColumn
  <2> QED  BY <1>1, <2>2, <2>10, <2>12 DEF FlowOf, a, y, g, n
<1>10. \A q, t \in PE : round'[q] = round'[t]
  BY <1>1 DEF IInv
<1>11. UNCHANGED Links!vars
  BY <1>1 DEF Links!vars
<1> QED  BY <1>5, <1>6, <1>8, <1>9, <1>10, <1>11 DEF IInv

-----------------------------------------------------------------------------
(* The theorems *)

LEMMA IInvInit == Init => IInv
<1> SUFFICES ASSUME Init PROVE IInv
  OBVIOUS
<1>1. EmptyRow \in [Col -> Seq(PacketType)] /\ \A c \in Col : EmptyRow[c] = <<>>
  BY DEF EmptyRow
<1>2. NoVote \in VoteType
  BY DEF NoVote, VoteType
<1>3. Types
  <2>1. 0 \in 0 .. n_rows
    BY Shape
  <2> QED  BY <1>1, <1>2, <2>1, EmptyColType DEF Init, Types
<1>4. ASSUME NEW p \in PE
      PROVE  /\ row_send[p] = EmptyRow /\ row_recv[p] = EmptyRow /\ col_recv[p] = EmptyCol
             /\ ~row_quiet[p] /\ pull_row[p] = 0 /\ state[p] = "working"
             /\ at[p] = "client" /\ ~over[p] /\ round[p] = 1
             /\ \A d \in PE : pushed[p][d] = 0 /\ got[p][d] = <<>>
  BY DEF Init
<1>5. ASSUME NEW p \in PE PROVE Room(p) /\ Heads(p) /\ Course(p) /\ Ending(p)
  <2>1. /\ \A c \in Col : Len(row_send[p][c]) = 0 /\ Len(row_recv[p][c]) = 0
        /\ \A r \in Row : Len(col_recv[p][r].items) = 0 /\ col_recv[p][r].next = 0
    BY <1>1, <1>4, EmptyColType
  <2>2. Room(p)
    <3>1. 0 <= RowItems /\ 0 <= ColItems /\ 0 <= 0
      BY Shape
    <3> QED  BY <2>1, <3>1 DEF Room
  <2>3. Heads(p)
    BY <2>1 DEF Heads
  <2>4. Course(p)
    BY <1>4, <2>1 DEF Course
  <2>5. Ending(p)
    BY <1>1, <1>4 DEF Ending, NoneToPivot
  <2> QED  BY <2>2, <2>3, <2>4, <2>5
<1>6. ASSUME NEW s \in PE, NEW d \in PE PROVE FlowOf(s, d)
  <2>1. ColOf(d) \in Col /\ RowOf(s) \in Row /\ ColOf(s) \in Col /\ Corner(s, d) \in PE
    BY Places, Ranks DEF Corner
  <2>2. /\ row_recv[Corner(s, d)][ColOf(s)] = <<>> /\ row_send[s][ColOf(d)] = <<>>
        /\ col_recv[d][RowOf(s)].items = <<>> /\ col_recv[d][RowOf(s)].next = 0
    BY <1>1, <1>4, <2>1, EmptyColType
  <2>3. Len(got[d][s]) = 0 /\ pushed[s][d] = 0
    BY <1>4
  <2> QED  BY <2>2, <2>3, FlowZero DEF FlowOf
<1> QED  BY <1>3, <1>4, <1>5, <1>6 DEF IInv

LEMMA LinksInit == Init => Links!Init
<1> SUFFICES ASSUME Init PROVE Links!Init
  OBVIOUS
<1>1. [p \in PE |-> state[p] \in {"complete", "dormant"}] = [p \in PE |-> FALSE]
  <2>1. \A p \in PE : state[p] = "working"
    BY DEF Init
  <2>2. \A p \in PE : (state[p] \in {"complete", "dormant"}) = FALSE
    BY <2>1
  <2> QED  BY <2>2, Zenon
<1> QED  BY <1>1 DEF Init, Links!Init

\* Every step keeps the invariant, and is one of the links or none.
LEMMA IInvStep ==
  ASSUME IInv, [Next]_vars
  PROVE  IInv' /\ [Links!Next]_(Links!vars)
<1>1. Links!Together
  BY DEF IInv, Links!Together
<1>2. ASSUME NEW p \in PE, NEW d \in PE, Push(p, d)
      PROVE  IInv' /\ [Links!Next]_(Links!vars)
  BY <1>1, <1>2, PushStep DEF Links!Next
<1>3. ASSUME NEW p \in PE, NEW d \in PE, PushFails(p, d)
      PROVE  IInv' /\ [Links!Next]_(Links!vars)
  BY <1>3, PushFailsStep
<1>4. ASSUME NEW p \in PE, Pull(p) PROVE IInv' /\ [Links!Next]_(Links!vars)
  BY <1>1, <1>4, PullStep DEF Links!Next
<1>5. ASSUME NEW p \in PE, PullNothing(p) PROVE IInv' /\ [Links!Next]_(Links!vars)
  BY <1>5, PullNothingStep
<1>6. ASSUME NEW p \in PE, Unpull(p) PROVE IInv' /\ [Links!Next]_(Links!vars)
  BY <1>1, <1>6, UnpullStep DEF Links!Next
<1>7. ASSUME NEW p \in PE, NEW d \in BOOLEAN, StartAdvance(p, d)
      PROVE  IInv' /\ [Links!Next]_(Links!vars)
  BY <1>1, <1>7, StartStep DEF Links!Next
<1>8. ASSUME NEW p \in PE, Reset(p) \/ Begin(p) PROVE IInv' /\ [Links!Next]_(Links!vars)
  BY <1>8, ResetStep, BeginStep
<1>9. CASE AgreeNot
  BY <1>9, AgreeNotStep
<1>10. CASE RowExchange
  BY <1>10, RowStays, RowMoves
<1>11. CASE ColumnExchange
  BY <1>11, ColumnStep
<1>12. CASE FinishBegin
  <2>1. IInv' /\ Links!Restart(PE)
    BY <1>12, FinishBeginStep
  <2>2. PE \in SUBSET PE
    OBVIOUS
  <2> QED  BY <2>1, <2>2 DEF Links!Next
<1>13. CASE UNCHANGED vars
  BY <1>13, Stutters
<1> QED  BY <1>2, <1>3, <1>4, <1>5, <1>6, <1>7, <1>8, <1>9, <1>10, <1>11, <1>12, <1>13
         DEF Next, Finished

LEMMA IInvTypes == IInv => TypeOK
<1> SUFFICES ASSUME IInv PROVE TypeOK
  OBVIOUS
<1>1. Types /\ \A p \in PE : Room(p)
  BY DEF IInv
<1>2. ASSUME NEW p \in PE, NEW r \in Row
      PROVE  col_recv[p][r].next \in 0 .. Len(col_recv[p][r].items)
  <2>1. col_recv[p][r] \in AreaType
    BY <1>1 DEF Types
  <2>2. col_recv[p][r].next \in Nat /\ Len(col_recv[p][r].items) \in Nat
    BY <2>1 DEF AreaType
  <2>3. col_recv[p][r].next <= Len(col_recv[p][r].items)
    BY <1>1 DEF Room
  <2> QED  BY <2>2, <2>3
<1>3. \A p \in PE : /\ \A c \in Col : /\ Len(row_send[p][c]) <= RowItems
                                      /\ Len(row_recv[p][c]) <= RowItems
                    /\ \A r \in Row : Len(col_recv[p][r].items) <= ColItems
  BY <1>1 DEF Room
<1> QED  BY <1>1, <1>2, <1>3 DEF TypeOK, Types

\* The variables keep their types; neither push, nor an exchange, nor a pivot
\* writes a packet beyond the end of a buffer, and no pull reads beyond the
\* packets that have come.
THEOREM TypesHold == Spec => []TypeOK
<1>1. Spec => []IInv
  BY IInvInit, IInvStep, PTL DEF Spec
<1> QED  BY <1>1, IInvTypes, PTL

\* A two-hop conveyor gives its clients FIFO links: twohop_push, pivot and
\* twohop_pull bring every item to its destination once and in its turn, though a
\* pivot stops half way, and twohop_advance reports the end only when nothing is
\* left in either dimension.
THEOREM LinksHold == Spec => LinksSpec
<1>1. Spec => []IInv
  BY IInvInit, IInvStep, PTL DEF Spec
<1>2. IInv /\ [Next]_vars => [Links!Next]_(Links!vars)
  BY IInvStep
<1> QED  BY <1>1, <1>2, LinksInit, PTL DEF Spec, LinksSpec, Links!Spec
=============================================================================
